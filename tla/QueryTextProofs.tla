--------------------------- MODULE QueryTextProofs ---------------------------
(***************************************************************************)
(* Proofs about QueryText, for every text, range, encoding and limit: no   *)
(* literal is exported from a normalized text, every SELECT list that is   *)
(* found is shortened, placeholders do not collide, words do not run       *)
(* together, a cut is made between characters and as late as it can be.    *)
(***************************************************************************)
EXTENDS QueryText, SequenceTheorems, FiniteSetTheorems, WellFoundedInduction, TLAPS

----------------------------------------------------------------------------
(* The least and the greatest of some numbers. *)

\* Of finitely many sets one has none of the others strictly inside.
LEMMA LeastSet ==
  ASSUME NEW S, IsFiniteSet(S), NEW T, T \subseteq SUBSET S, T # {}
  PROVE  \E x \in T : \A y \in T : ~(y \subseteq x /\ y # x)
<1>1. FiniteSubsetsOf(S) = SUBSET S BY FS_FiniteSubsetsOfFinite
<1>2. IsWellFoundedOn(StrictSubsetOrdering(S), SUBSET S)
  BY <1>1, FS_StrictSubsetOrderingWellFounded
<1>3. \E x \in T : \A y \in T : ~(<<y, x>> \in StrictSubsetOrdering(S))
  BY <1>2, WFMin
<1>4. \A x, y \in SUBSET S : y \subseteq x /\ y # x => <<y, x>> \in StrictSubsetOrdering(S)
  BY DEF StrictSubsetOrdering
<1> QED BY <1>3, <1>4

\* Finitely many numbers have a least and a greatest one.
LEMMA HaveEnds ==
  ASSUME NEW S, \A x \in S : x \in Int, IsFiniteSet(S), S # {}
  PROVE  /\ \E x \in S : \A y \in S : x <= y
         /\ \E x \in S : \A y \in S : x >= y
<1>1. ASSUME NEW T, T \subseteq SUBSET S, T # {}
      PROVE  \E t \in T : \A u \in T : ~(u \subseteq t /\ u # t)
  BY ONLY <1>1, IsFiniteSet(S), LeastSet
<1>2. \E x \in S : \A y \in S : x <= y
  <2> DEFINE T == {{y \in S : y <= x} : x \in S}
  <2>1. T \subseteq SUBSET S /\ T # {} OBVIOUS
  <2>2. \E t \in T : \A u \in T : ~(u \subseteq t /\ u # t)
    <3> HIDE DEF T
    <3> QED BY ONLY <1>1, <2>1
  <2>3. PICK x \in S : \A u \in T : ~(u \subseteq {y \in S : y <= x} /\ u # {y \in S : y <= x})
    BY <2>2
  <2>4. ASSUME NEW y \in S, y < x PROVE FALSE
    <3>1. {z \in S : z <= y} \in T OBVIOUS
    <3>2. {z \in S : z <= y} \subseteq {z \in S : z <= x}
      <4>1. ASSUME NEW z \in S, z <= y PROVE z <= x BY <2>4, <4>1
      <4> QED BY <4>1
    <3>3. x \in {z \in S : z <= x} /\ x \notin {z \in S : z <= y} BY <2>4
    <3> QED BY <2>3, <3>1, <3>2, <3>3
  <2>5. x \in Int /\ \A y \in S : y \in Int OBVIOUS
  <2> QED BY <2>4, <2>5
<1>3. \E x \in S : \A y \in S : x >= y
  <2> DEFINE T == {{y \in S : y >= x} : x \in S}
  <2>1. T \subseteq SUBSET S /\ T # {} OBVIOUS
  <2>2. \E t \in T : \A u \in T : ~(u \subseteq t /\ u # t)
    <3> HIDE DEF T
    <3> QED BY ONLY <1>1, <2>1
  <2>3. PICK x \in S : \A u \in T : ~(u \subseteq {y \in S : y >= x} /\ u # {y \in S : y >= x})
    BY <2>2
  <2>4. ASSUME NEW y \in S, y > x PROVE FALSE
    <3>1. {z \in S : z >= y} \in T OBVIOUS
    <3>2. {z \in S : z >= y} \subseteq {z \in S : z >= x}
      <4>1. ASSUME NEW z \in S, z >= y PROVE z >= x BY <2>4, <4>1
      <4> QED BY <4>1
    <3>3. x \in {z \in S : z >= x} /\ x \notin {z \in S : z >= y} BY <2>4
    <3> QED BY <2>3, <3>1, <3>2, <3>3
  <2>5. x \in Int /\ \A y \in S : y \in Int OBVIOUS
  <2> QED BY <2>4, <2>5
<1> QED BY <1>2, <1>3

\* What Min and Max are of finitely many numbers.
LEMMA MinMax ==
  ASSUME NEW S, \A x \in S : x \in Int, IsFiniteSet(S), S # {}
  PROVE  /\ Min(S) \in S /\ \A y \in S : Min(S) <= y
         /\ Max(S) \in S /\ \A y \in S : Max(S) >= y
<1>1. /\ \E x \in S : \A y \in S : x <= y
      /\ \E x \in S : \A y \in S : x >= y
  BY HaveEnds
<1>2. Min(S) \in S /\ \A y \in S : Min(S) <= y BY <1>1, Zenon DEF Min
<1>3. Max(S) \in S /\ \A y \in S : Max(S) >= y BY <1>1, Zenon DEF Max
<1> QED BY <1>2, <1>3

----------------------------------------------------------------------------
(* The statement that is cut out of the text. *)

\* What a text holds, those the code writes by name: for the provers a string
\* literal is not known to be a member of STRING.
Byte == STRING \cup {"U+FFFD", "$", " ", "more"}

\* Every character of two bytes is whole.
WholeCharacters(s) ==
  \A k \in 1 .. Len(s) :
    /\ s[k] = "e1" => k < Len(s) /\ s[k + 1] = "e2"
    /\ s[k] = "e2" => k > 1 /\ s[k - 1] = "e1"

\* A text with no byte that is written only.
Plain(s) == s \in Seq(Byte) /\ \A k \in 1 .. Len(s) : s[k] # "$"

\* A slice inside a text is a text, and no longer.
LEMMA SliceIsText ==
  ASSUME NEW s \in Seq(Byte), NEW from \in Nat, NEW to \in Int, to <= Len(s)
  PROVE  /\ Slice(s, from, to) \in Seq(Byte)
         /\ Len(Slice(s, from, to)) = IF from < to THEN to - from ELSE 0
         /\ Len(Slice(s, from, to)) <= Len(s)
         /\ \A k \in 1 .. Len(Slice(s, from, to)) : Slice(s, from, to)[k] = s[from + k]
<1>1. Len(s) \in Nat BY LenProperties
<1>2. \A j \in from + 1 .. to : s[j] \in Byte BY <1>1, ElementOfSeq
<1>3. from + 1 \in Int OBVIOUS
<1>4. /\ SubSeq(s, from + 1, to) \in Seq(Byte)
      /\ Len(SubSeq(s, from + 1, to)) = IF from + 1 <= to THEN to - (from + 1) + 1 ELSE 0
      /\ \A j \in 1 .. to - (from + 1) + 1 : SubSeq(s, from + 1, to)[j] = s[from + 1 + j - 1]
  BY <1>2, <1>3, SubSeqProperties
<1> DEFINE sub == SubSeq(s, from + 1, to)
<1> HIDE DEF sub
<1>5. Len(sub) = IF from < to THEN to - from ELSE 0 BY <1>4 DEF sub
<1>6. \A k \in 1 .. Len(sub) : sub[k] = s[from + k]
  <2>1. ASSUME NEW k \in 1 .. Len(sub) PROVE sub[k] = s[from + k]
    <3>1. k \in 1 .. to - (from + 1) + 1 /\ from + 1 + k - 1 = from + k BY <1>5, <2>1
    <3> QED BY <1>4, <3>1 DEF sub
  <2> QED BY <2>1
<1>7. Len(sub) <= Len(s) BY <1>1, <1>5
<1>8. sub \in Seq(Byte) BY <1>4 DEF sub
<1> QED BY <1>5, <1>6, <1>7, <1>8 DEF Slice, sub

\* What is made of the bytes of a text is a text of whole characters.
LEMMA LossyIsWhole ==
  ASSUME NEW s, Plain(s)
  PROVE  Plain(Lossy(s)) /\ WholeCharacters(Lossy(s)) /\ Len(Lossy(s)) = Len(s)
<1> DEFINE half(j) == \/ s[j] = "e1" /\ (j = Len(s) \/ s[j + 1] # "e2")
                      \/ s[j] = "e2" /\ (j = 1 \/ s[j - 1] # "e1")
           lossy == [j \in 1 .. Len(s) |-> IF half(j) THEN "U+FFFD" ELSE s[j]]
<1>1. Len(s) \in Nat BY LenProperties DEF Plain
<1>2. \A j \in 1 .. Len(s) : s[j] \in Byte /\ s[j] # "$" BY ElementOfSeq DEF Plain
<1>3. lossy \in Seq(Byte) /\ Len(lossy) = Len(s)
  <2>0. \A j \in 1 .. Len(s) : (IF half(j) THEN "U+FFFD" ELSE s[j]) \in Byte
    <3>1. "U+FFFD" \in Byte BY DEF Byte
    <3>2. ASSUME NEW j \in 1 .. Len(s)
          PROVE (IF half(j) THEN "U+FFFD" ELSE s[j]) \in Byte
      <4>1. CASE half(j) BY <3>1, <4>1, Zenon
      <4>2. CASE ~half(j) BY <1>2, <4>2
      <4> QED BY <4>1, <4>2
    <3> QED BY <3>2
  <2>1. lossy \in [1 .. Len(s) -> Byte]
    <3> HIDE DEF half
    <3> QED BY <2>0
  <2> HIDE DEF lossy
  <2> QED BY <1>1, <2>1
<1>4. \A j \in 1 .. Len(s) : lossy[j] = IF half(j) THEN "U+FFFD" ELSE s[j] OBVIOUS
<1>5. Lossy(s) = lossy BY DEF Lossy
<1> HIDE DEF lossy
<1>6. Plain(lossy) BY <1>2, <1>3, <1>4 DEF Plain
<1>7. WholeCharacters(lossy)
  <2>1. ASSUME NEW k \in 1 .. Len(s), lossy[k] = "e1"
        PROVE  k < Len(s) /\ lossy[k + 1] = "e2"
    <3>1. s[k] = "e1" /\ ~half(k) BY <1>4, <2>1
    <3>2. k < Len(s) /\ s[k + 1] = "e2" BY <1>1, <3>1
    <3>3. k + 1 \in 1 .. Len(s) /\ k + 1 # 1 /\ k + 1 - 1 = k BY <1>1, <3>2
    <3>4. ~half(k + 1) BY <3>1, <3>2, <3>3
    <3> QED BY <1>4, <3>2, <3>3, <3>4
  <2>2. ASSUME NEW k \in 1 .. Len(s), lossy[k] = "e2"
        PROVE  k > 1 /\ lossy[k - 1] = "e1"
    <3>1. s[k] = "e2" /\ ~half(k) BY <1>4, <2>2
    <3>2. k > 1 /\ s[k - 1] = "e1" BY <1>1, <3>1
    <3>3. k - 1 \in 1 .. Len(s) /\ k - 1 # Len(s) /\ k - 1 + 1 = k BY <1>1, <3>2
    <3>4. ~half(k - 1) BY <3>1, <3>2, <3>3
    <3> QED BY <1>4, <3>2, <3>3, <3>4
  <2> QED BY <1>3, <2>1, <2>2 DEF WholeCharacters
<1> QED BY <1>3, <1>5, <1>6, <1>7

\* CleanQuerytext leaves out only blanks of the place it is given.
LEMMA CleanInside ==
  ASSUME NEW s \in Seq(Byte), NEW location \in Int, NEW len \in Int,
         location >= 0 => location <= Len(s) /\ len <= Len(s) - location
  PROVE  \E a, b \in 0 .. Len(s) :
           /\ CleanQuerytext(s, location, len) = <<a, b>>
           /\ a .. b - 1 \subseteq Own(s, <<location, len>>)
           /\ \A k \in Own(s, <<location, len>>) : At(s, k) # " " => k \in a .. b - 1
<1> DEFINE from  == IF location >= 0 THEN location ELSE 0
           to    == IF location >= 0 /\ len > 0 THEN location + len ELSE Len(s)
           solid == {j \in from .. to - 1 : At(s, j) # " "}
<1>1. Len(s) \in Nat BY LenProperties
<1>2. from \in 0 .. Len(s) /\ to \in 0 .. Len(s) BY <1>1
<1>3. CleanQuerytext(s, location, len) =
        IF solid = {} THEN <<from, from>> ELSE <<Min(solid), Max(solid) + 1>>
  BY DEF CleanQuerytext
<1>4. IsFiniteSet(solid) /\ \A j \in solid : j \in from .. to - 1
  <2>1. IsFiniteSet(from .. to - 1) BY <1>2, FS_Interval
  <2> QED BY <2>1, FS_Subset
<1>5. \A k : k \in Own(s, <<location, len>>) <=> k \in from .. to - 1 BY <1>1 DEF Own
<1>6. \A k \in from .. to - 1 : At(s, k) # " " => k \in solid OBVIOUS
<1> HIDE DEF from, to, solid
<1>7. CASE solid = {}
  <2>1. CleanQuerytext(s, location, len) = <<from, from>> BY <1>3, <1>7
  <2>2. from .. from - 1 \subseteq Own(s, <<location, len>>) BY <1>2
  <2>3. \A k \in Own(s, <<location, len>>) : At(s, k) # " " => k \in from .. from - 1
    BY <1>5, <1>6, <1>7
  <2> QED BY <1>2, <2>1, <2>2, <2>3
<1>8. CASE solid # {}
  <2> DEFINE a == Min(solid)
             b == Max(solid) + 1
  <2>1. \A j \in solid : j \in Int BY <1>2, <1>4
  <2>2. a \in solid /\ b - 1 \in solid /\ \A j \in solid : a <= j /\ j <= b - 1
    <3>1. /\ Min(solid) \in solid /\ \A j \in solid : Min(solid) <= j
          /\ Max(solid) \in solid /\ \A j \in solid : Max(solid) >= j
      BY <1>4, <1>8, <2>1, MinMax
    <3>2. Max(solid) \in Int BY <2>1, <3>1
    <3>3. b - 1 = Max(solid) BY <3>2
    <3>4. \A j \in solid : j <= Max(solid) BY <2>1, <3>1
    <3> QED BY <3>1, <3>3, <3>4
  <2>3. a \in Int /\ b \in Int /\ CleanQuerytext(s, location, len) = <<a, b>>
    <3>1. Max(solid) \in Int /\ Min(solid) \in Int BY <1>4, <1>8, <2>1, MinMax
    <3> QED BY <1>3, <1>8, <3>1
  <2> HIDE DEF a, b
  <2>4. a \in from .. to - 1 /\ b - 1 \in from .. to - 1 BY <1>4, <2>2
  <2>5. a \in 0 .. Len(s) /\ b \in 0 .. Len(s) BY <1>1, <1>2, <2>3, <2>4
  <2>6. \A k \in a .. b - 1 : k \in from .. to - 1 BY <1>2, <2>3, <2>4
  <2>7. ASSUME NEW k \in from .. to - 1, At(s, k) # " " PROVE k \in a .. b - 1
    <3>1. k \in solid BY <1>6, <2>7
    <3>2. a <= k /\ k <= b - 1 /\ k \in Int BY <2>1, <2>2, <3>1
    <3> QED BY <2>3, <3>2
  <2> QED BY <1>5, <2>3, <2>5, <2>6, <2>7
<1> QED BY <1>7, <1>8

\* The place that is given to it is the statement's.
LEMMA ValidatedIsOwn ==
  ASSUME text \in Seq(Byte), range \in Int \X Int,
         NEW r \in validated_range(Len(text), range[1], range[2])
  PROVE  /\ r = <<r[1], r[2]>> /\ r[1] \in Int /\ r[2] \in Int
         /\ r[1] >= 0 => r[1] <= Len(text) /\ r[2] <= Len(text) - r[1]
         /\ Own(text, r) = Own(text, range)
<1>1. Len(text) \in Nat BY LenProperties
<1>2. range[1] \in Int /\ range[2] \in Int OBVIOUS
<1>3. /\ r = <<r[1], r[2]>> /\ r[1] \in Int /\ r[2] \in Int
      /\ r[1] >= 0 => r[1] <= Len(text) /\ r[2] <= Len(text) - r[1]
  BY <1>1, <1>2 DEF validated_range
<1>4. CASE range[1] < 0
  <2>1. r[1] = -1 BY <1>4 DEF validated_range
  <2> QED BY <1>2, <1>3, <1>4, <2>1 DEF Own
<1>5. CASE range[1] >= 0
  <2>1. /\ range[1] <= Len(text) /\ r[1] = range[1]
        /\ r[2] = IF range[2] > Len(text) - range[1] THEN 0 ELSE range[2]
    BY <1>1, <1>2, <1>5 DEF validated_range
  <2>2. CASE range[2] > Len(text) - range[1]
    <3>1. \A k \in 0 .. Len(text) - 1 : k < range[1] + range[2] BY <1>1, <1>2, <2>2
    <3> QED BY <1>3, <2>1, <2>2, <3>1 DEF Own
  <2>3. CASE ~(range[2] > Len(text) - range[1]) BY <1>3, <2>1, <2>3 DEF Own
  <2> QED BY <2>2, <2>3
<1> QED BY <1>2, <1>4, <1>5

\* The current statement is what is between the blanks of its place in the text.
LEMMA StatementIs ==
  ASSUME text \in Seq(Byte), range \in Int \X Int, NEW s \in current_statement
  PROVE  \E a, b \in 0 .. Len(text) :
           /\ s = Lossy(Slice(text, a, b))
           /\ a .. b - 1 \subseteq Own(text, range)
           /\ \A k \in Own(text, range) : At(text, k) # " " => k \in a .. b - 1
<1> DEFINE clean(r) == CleanQuerytext(text, r[1], r[2])
<1>1. PICK r \in validated_range(Len(text), range[1], range[2]) :
        s = Lossy(Slice(text, clean(r)[1], clean(r)[2]))
  BY DEF current_statement
<1>2. /\ r = <<r[1], r[2]>> /\ r[1] \in Int /\ r[2] \in Int
      /\ r[1] >= 0 => r[1] <= Len(text) /\ r[2] <= Len(text) - r[1]
      /\ Own(text, r) = Own(text, range)
  BY ValidatedIsOwn
<1>3. PICK a \in 0 .. Len(text), b \in 0 .. Len(text) :
        /\ clean(r) = <<a, b>>
        /\ a .. b - 1 \subseteq Own(text, <<r[1], r[2]>>)
        /\ \A k \in Own(text, <<r[1], r[2]>>) : At(text, k) # " " => k \in a .. b - 1
  <2> DEFINE location == r[1]
             len == r[2]
  <2>1. /\ location \in Int /\ len \in Int
        /\ location >= 0 => location <= Len(text) /\ len <= Len(text) - location
    BY <1>2
  <2> HIDE DEF location, len
  <2>2. \E a, b \in 0 .. Len(text) :
          /\ CleanQuerytext(text, location, len) = <<a, b>>
          /\ a .. b - 1 \subseteq Own(text, <<location, len>>)
          /\ \A k \in Own(text, <<location, len>>) : At(text, k) # " " => k \in a .. b - 1
    BY <2>1, CleanInside
  <2> QED BY <2>2 DEF location, len
<1>4. s = Lossy(Slice(text, a, b))
  <2>1. clean(r) = <<a, b>> BY <1>3
  <2> HIDE DEF clean
  <2> QED BY <1>1, <2>1
<1>5. Own(text, <<r[1], r[2]>>) = Own(text, range) BY <1>2
<1> QED BY <1>3, <1>4, <1>5

\* The current statement is a text of whole characters, no longer than the query's.
LEMMA StatementIsWhole ==
  ASSUME Plain(text), range \in Int \X Int, NEW s \in current_statement
  PROVE  Plain(s) /\ WholeCharacters(s)
<1>1. text \in Seq(Byte) /\ Len(text) \in Nat BY LenProperties DEF Plain
<1>2. PICK a \in 0 .. Len(text), b \in 0 .. Len(text) : s = Lossy(Slice(text, a, b))
  BY <1>1, StatementIs
<1>3. /\ Slice(text, a, b) \in Seq(Byte)
      /\ \A k \in 1 .. Len(Slice(text, a, b)) :
           /\ Slice(text, a, b)[k] = text[a + k]
           /\ a + k \in 1 .. Len(text)
  <2>1. /\ Slice(text, a, b) \in Seq(Byte)
        /\ Len(Slice(text, a, b)) = IF a < b THEN b - a ELSE 0
        /\ \A k \in 1 .. Len(Slice(text, a, b)) : Slice(text, a, b)[k] = text[a + k]
    BY <1>1, SliceIsText
  <2>2. ASSUME NEW k \in 1 .. Len(Slice(text, a, b)) PROVE a + k \in 1 .. Len(text)
    BY <1>1, <2>1
  <2> QED BY <2>1, <2>2
<1>4. Plain(Slice(text, a, b)) BY <1>3 DEF Plain
<1> QED BY <1>2, <1>4, LossyIsWhole

----------------------------------------------------------------------------
(* The SELECT lists that are shortened. *)

\* A range of tokens of a text of n tokens.
Ranges(n) == {c \in [start : 1 .. n, end : 1 .. n + 1, additional : Nat] : c.start < c.end}

\* The list of a SELECT ends behind it, at the end of the text at the latest.
LEMMA ListEndAfter ==
  ASSUME Len(tokens) \in Nat, NEW k \in 1 .. Len(tokens)
  PROVE  ListEnd(k) \in k + 1 .. Len(tokens) + 1
<1> DEFINE S == {j \in k + 1 .. Len(tokens) : depth(j) = depth(k) /\ ListEnds(j)} \cup {Len(tokens) + 1}
<1>1. S \subseteq k + 1 .. Len(tokens) + 1 OBVIOUS
<1>2. Len(tokens) + 1 \in S OBVIOUS
<1>3. ListEnd(k) = Min(S) BY DEF ListEnd
<1> HIDE DEF S
<1>4. IsFiniteSet(S)
  <2>1. IsFiniteSet(k + 1 .. Len(tokens) + 1) BY FS_Interval
  <2> QED BY <1>1, <2>1, FS_Subset
<1>5. \A j \in S : j \in Int BY <1>1
<1>6. Min(S) \in S BY <1>2, <1>4, <1>5, MinMax
<1> QED BY <1>1, <1>3, <1>6

\* What is shortened is a range of tokens, and there are finitely many.
LEMMA CompactionsAreRanges ==
  ASSUME Len(tokens) \in Nat
  PROVE  Compactions \subseteq Ranges(Len(tokens)) /\ IsFiniteSet(Compactions)
<1> DEFINE K == {j \in 1 .. Len(tokens) : Is(j, "SELECT") /\ Commas(j) # {}}
           c(k) == [start |-> Min(Commas(k)), end |-> ListEnd(k),
                    additional |-> Cardinality(Commas(k))]
           f == [k \in K |-> c(k)]
<1>1. Compactions = {c(k) : k \in K} BY DEF Compactions
<1>2. ASSUME NEW k \in K PROVE c(k) \in Ranges(Len(tokens))
  <2>1. k \in 1 .. Len(tokens) /\ Commas(k) # {} OBVIOUS
  <2>2. ListEnd(k) \in k + 1 .. Len(tokens) + 1 BY <2>1, ListEndAfter
  <2>3. Commas(k) \subseteq k + 1 .. ListEnd(k) - 1 BY DEF Commas
  <2>4. IsFiniteSet(Commas(k))
    <3>1. IsFiniteSet(k + 1 .. ListEnd(k) - 1) BY <2>1, <2>2, FS_Interval
    <3> QED BY <2>3, <3>1, FS_Subset
  <2>5. \A j \in Commas(k) : j \in Int BY <2>1, <2>2, <2>3
  <2>6. Min(Commas(k)) \in Commas(k) BY <2>1, <2>4, <2>5, MinMax
  <2>7. Cardinality(Commas(k)) \in Nat BY <2>4, FS_CardinalityType
  <2>8. Min(Commas(k)) \in k + 1 .. ListEnd(k) - 1 BY <2>3, <2>6
  <2>9. /\ Min(Commas(k)) \in 1 .. Len(tokens) /\ ListEnd(k) \in 1 .. Len(tokens) + 1
        /\ Min(Commas(k)) < ListEnd(k)
    BY <2>1, <2>2, <2>8
  <2> QED BY <2>7, <2>9 DEF Ranges
<1>3. IsFiniteSet(K)
  <2>1. IsFiniteSet(1 .. Len(tokens)) BY FS_Interval
  <2> QED BY <2>1, FS_Subset
<1> HIDE DEF K, c
<1>4. f \in Surjection(K, {c(k) : k \in K}) BY DEF Surjection
<1>5. IsFiniteSet({c(k) : k \in K}) BY <1>3, <1>4, FS_Surjection
<1> QED BY <1>1, <1>2, <1>5

\* The list that begins first among some, and those it does not overlap.
Earliest(left) == CHOOSE c \in left : \A d \in left : c.start <= d.start
Behind(left) == {c \in left : c.start >= Earliest(left).end}

\* One of finitely many lists begins first, and it overlaps itself.
LEMMA FirstIsOne ==
  ASSUME NEW n, NEW left, left \subseteq Ranges(n), IsFiniteSet(left), left # {}, n \in Nat
  PROVE  Earliest(left) \in left /\ Behind(left) \subseteq left /\ Behind(left) # left
<1>1. ASSUME NEW T, T \subseteq SUBSET left, T # {}
      PROVE  \E t \in T : \A u \in T : ~(u \subseteq t /\ u # t)
  BY ONLY <1>1, IsFiniteSet(left), LeastSet
<1> DEFINE upto(c) == {d \in left : d.start <= c.start}
           T == {upto(c) : c \in left}
<1>2. T \subseteq SUBSET left /\ T # {} OBVIOUS
<1>3. \E t \in T : \A u \in T : ~(u \subseteq t /\ u # t)
  <2> HIDE DEF T
  <2> QED BY ONLY <1>1, <1>2
<1>4. PICK c \in left : \A u \in T : ~(u \subseteq upto(c) /\ u # upto(c)) BY <1>3
<1>5. \A d \in left : d.start \in Int /\ d.end \in Int /\ d.start < d.end BY DEF Ranges
<1>6. ASSUME NEW d \in left, d.start < c.start PROVE FALSE
  <2>1. upto(d) \in T OBVIOUS
  <2>2. ASSUME NEW e \in upto(d) PROVE e \in upto(c) BY <1>5, <1>6, <2>2
  <2>3. c \in upto(c) /\ c \notin upto(d) BY <1>5, <1>6
  <2> QED BY <1>4, <2>1, <2>2, <2>3
<1>7. \A d \in left : c.start <= d.start BY <1>5, <1>6
<1>8. Earliest(left) \in left BY <1>7, Zenon DEF Earliest
<1>9. Earliest(left) \notin Behind(left) BY <1>5, <1>8 DEF Behind
<1> QED BY <1>8, <1>9 DEF Behind

\* f picks, from every set of lists in D, the first and then those behind it.
Picks(f, D) ==
  f = [left \in D |-> IF left = {} THEN << >> ELSE <<Earliest(left)>> \o f[Behind(left)]]

\* There is such a function.
LEMMA PicksExist ==
  ASSUME NEW n \in Nat, NEW found, found \subseteq Ranges(n), IsFiniteSet(found)
  PROVE  \E f : Picks(f, SUBSET found)
<1> DEFINE D(m) == {left \in SUBSET found : Cardinality(left) <= m}
           N == Cardinality(found)
           Bad == {m \in 0 .. N : ~\E f : Picks(f, D(m))}
<1>1. N \in Nat BY FS_CardinalityType
<1>2. \A left \in SUBSET found : IsFiniteSet(left) /\ Cardinality(left) \in 0 .. N
  BY <1>1, FS_Subset, FS_CardinalityType
<1>3. D(N) = SUBSET found BY <1>1, <1>2
<1>4. \A left \in SUBSET found : Cardinality(left) = 0 <=> left = {}
  BY <1>2, FS_EmptySet
<1>5. ASSUME NEW left \in SUBSET found, left # {}
      PROVE  Behind(left) \in SUBSET found /\ Cardinality(Behind(left)) < Cardinality(left)
  <2>1. Behind(left) \subseteq left /\ Behind(left) # left BY <1>2, <1>5, FirstIsOne
  <2>2. Cardinality(Behind(left)) <= Cardinality(left)
    BY <1>2, <2>1, FS_Subset
  <2>3. Cardinality(Behind(left)) # Cardinality(left) BY <1>2, <2>1, FS_Subset
  <2>4. Behind(left) \in SUBSET found BY <2>1
  <2>5. Cardinality(Behind(left)) \in Nat /\ Cardinality(left) \in Nat BY <1>2, <2>4
  <2> QED BY <2>2, <2>3, <2>4, <2>5
<1>6. 0 \notin Bad
  <2> DEFINE g == [left \in D(0) |-> << >>]
  <2>1. \A left \in D(0) : left = {} BY <1>2, <1>4
  <2>2. Picks(g, D(0)) BY <2>1 DEF Picks
  <2> HIDE DEF g
  <2> QED BY <2>2
<1>7. ASSUME NEW m \in 0 .. N, m - 1 \in 0 .. N, m - 1 \notin Bad PROVE m \notin Bad
  <2>1. PICK f : Picks(f, D(m - 1)) BY <1>7
  <2> DEFINE e(h, left) == IF left = {} THEN << >> ELSE <<Earliest(left)>> \o h[Behind(left)]
             g == [left \in D(m) |-> e(f, left)]
  <2>2. \A left \in D(m - 1) : f[left] = e(f, left) BY <2>1 DEF Picks
  <2>3. D(m - 1) \subseteq D(m) BY <1>2
  <2>4. ASSUME NEW left \in D(m) PROVE e(f, left) = e(g, left)
    <3>1. CASE left = {} BY <3>1
    <3>2. CASE left # {}
      <4>1. Behind(left) \in D(m - 1) BY <1>2, <1>5, <3>2
      <4>2. g[Behind(left)] = e(f, Behind(left)) BY <2>3, <4>1
      <4>3. f[Behind(left)] = g[Behind(left)] BY <2>2, <4>1, <4>2
      <4> QED BY <4>3
    <3> QED BY <3>1, <3>2
  <2>5. Picks(g, D(m)) BY <2>4 DEF Picks
  <2> HIDE DEF g
  <2> QED BY <2>5
<1>8. Bad = {}
  <2> SUFFICES ASSUME Bad # {} PROVE FALSE OBVIOUS
  <2>1. IsFiniteSet(Bad) /\ \A m \in Bad : m \in Int
    <3>1. IsFiniteSet(0 .. N) BY <1>1, FS_Interval
    <3> QED BY <1>1, <3>1, FS_Subset
  <2>2. PICK m \in Bad : \A k \in Bad : m <= k
    <3> HIDE DEF Bad
    <3> QED BY <2>1, HaveEnds
  <2>3. m \in 0 .. N /\ m # 0 BY <1>6
  <2>4. m - 1 \in 0 .. N /\ m - 1 \notin Bad BY <1>1, <2>2, <2>3
  <2> QED BY <1>7, <2>3, <2>4
<1> QED BY <1>1, <1>3, <1>8

\* The lists of a sequence do not overlap.
Apart(s) == \A k \in 1 .. Len(s) - 1 : s[k].end <= s[k + 1].start

\* The lists that are kept are some of those that were found, and do not overlap.
LEMMA KeptAreFound ==
  ASSUME NEW n \in Nat, NEW found, found \subseteq Ranges(n), IsFiniteSet(found)
  PROVE  NonOverlapping(found) \in Seq(found) /\ Apart(NonOverlapping(found))
<1> DEFINE pick == CHOOSE f : Picks(f, SUBSET found)
<1>1. Picks(pick, SUBSET found) BY PicksExist
<1>2. NonOverlapping(found) = pick[found] BY DEF NonOverlapping, Picks, Earliest, Behind
<1> HIDE DEF pick
<1>3. \A left \in SUBSET found :
        pick[left] = IF left = {} THEN << >> ELSE <<Earliest(left)>> \o pick[Behind(left)]
  BY <1>1 DEF Picks
<1> DEFINE good(left) == pick[left] \in Seq(left) /\ Apart(pick[left])
           Bad == {left \in SUBSET found : ~good(left)}
<1>4. good({})
  <2>1. pick[{}] = << >> BY <1>3
  <2> QED BY <2>1 DEF Apart
<1>5. ASSUME NEW left \in SUBSET found, left # {}, good(Behind(left)) PROVE good(left)
  <2>1. IsFiniteSet(left) /\ left \subseteq Ranges(n) BY FS_Subset
  <2>2. Earliest(left) \in left /\ Behind(left) \subseteq left BY <1>5, <2>1, FirstIsOne
  <2> DEFINE s == pick[Behind(left)]
             first == Earliest(left)
  <2>3. s \in Seq(left) /\ s \in Seq(Behind(left)) BY <1>5, <2>2
  <2>4. <<first>> \in Seq(left) /\ Len(<<first>>) = 1 /\ <<first>>[1] = first BY <2>2
  <2>5. Len(s) \in Nat /\ Apart(s) BY <1>5, <2>3, LenProperties
  <2>6. \A k \in 1 .. Len(s) : s[k].start >= first.end
    <3>1. \A k \in 1 .. Len(s) : s[k] \in Behind(left) BY <2>3, ElementOfSeq
    <3> QED BY <3>1 DEF Behind
  <2>7. \A k \in 1 .. Len(s) : s[k].start \in Int /\ s[k].end \in Int
    <3>1. \A k \in 1 .. Len(s) : s[k] \in left BY <2>3, ElementOfSeq
    <3> QED BY <2>1, <3>1 DEF Ranges
  <2>8. first.end \in Int BY <2>1, <2>2 DEF Ranges
  <2>9. pick[left] = <<first>> \o s BY <1>3, <1>5
  <2> HIDE DEF s, first
  <2>10. /\ <<first>> \o s \in Seq(left) /\ Len(<<first>> \o s) = 1 + Len(s)
         /\ \A k \in 1 .. 1 + Len(s) :
              (<<first>> \o s)[k] = IF k <= 1 THEN <<first>>[k] ELSE s[k - 1]
    BY <2>3, <2>4, ConcatProperties
  <2>11. ASSUME NEW k \in 1 .. Len(s)
         PROVE  (<<first>> \o s)[k].end <= (<<first>> \o s)[k + 1].start
    <3>1. (<<first>> \o s)[k + 1] = s[k] BY <2>5, <2>10
    <3>2. CASE k = 1
      <4>1. (<<first>> \o s)[k] = first BY <2>4, <2>5, <2>10, <3>2
      <4> QED BY <2>6, <2>7, <2>8, <3>1, <4>1
    <3>3. CASE k # 1
      <4>1. (<<first>> \o s)[k] = s[k - 1] BY <2>5, <2>10, <3>3
      <4>2. k - 1 \in 1 .. Len(s) - 1 /\ k - 1 + 1 = k BY <2>5, <3>3
      <4>3. s[k - 1].end <= s[k - 1 + 1].start BY <2>5, <4>2 DEF Apart
      <4> QED BY <3>1, <4>1, <4>2, <4>3
    <3> QED BY <3>2, <3>3
  <2>12. Len(<<first>> \o s) - 1 = Len(s) BY <2>5, <2>10
  <2> QED BY <2>9, <2>10, <2>11, <2>12 DEF Apart
<1>6. Bad = {}
  <2> SUFFICES ASSUME Bad # {} PROVE FALSE OBVIOUS
  <2>1. Bad \subseteq SUBSET found OBVIOUS
  <2>2. PICK left \in Bad : \A u \in Bad : ~(u \subseteq left /\ u # left)
    <3> HIDE DEF Bad
    <3> QED BY ONLY <2>1, Bad # {}, IsFiniteSet(found), LeastSet
  <2>3. left \in SUBSET found /\ ~good(left) OBVIOUS
  <2>4. left # {} BY <1>4, <2>3
  <2>5. IsFiniteSet(left) /\ left \subseteq Ranges(n) BY FS_Subset
  <2>6. Behind(left) \subseteq left /\ Behind(left) # left BY <2>4, <2>5, FirstIsOne
  <2>7. Behind(left) \in SUBSET found /\ Behind(left) \notin Bad BY <2>2, <2>3, <2>6
  <2>8. good(Behind(left)) BY <2>7
  <2> QED BY <1>5, <2>3, <2>4, <2>8
<1>7. found \in SUBSET found OBVIOUS
<1>8. good(found) BY <1>6, <1>7
<1> QED BY <1>2, <1>8

----------------------------------------------------------------------------
(* Tokens and what is written for them. *)

TokensOf == {Token(k) : k \in 0 .. Len(stmt) - 1}
PieceType == [w : Byte, n : Int]

\* The tokens of a statement stay what they are while it does.
LEMMA SameTokens ==
  ASSUME stmt' = stmt
  PROVE  TokensOf' = TokensOf /\ \A t : Text(t)' = Text(t)
BY DEF TokensOf, Token, TokenEnd, Text

\* A token is a word or a character inside the statement, and its code says which
\* words are literals and parameters.
LEMMA TokenIs ==
  ASSUME Plain(stmt), WholeCharacters(stmt), NEW t \in TokensOf
  PROVE  /\ t.end \in 1 .. Len(stmt) /\ t.code.number \in 0 .. MAX_PLACEHOLDER
         /\ Text(t) \in Seq(Byte)
         /\ \/ /\ Len(Text(t)) = 1 /\ Text(t)[1] \notin {"e1", "$"}
               /\ Text(t)[1] = At(stmt, t.start)
               /\ t.code.kind = "constant" <=> Text(t)[1] = "lit"
               /\ Text(t)[1] \in DOMAIN Params => t.code.number = Params[Text(t)[1]]
            \/ /\ Len(Text(t)) = 2 /\ Text(t)[1] = "e1" /\ Text(t)[2] = "e2"
               /\ t.code.kind # "constant"
<1>1. PICK k \in 0 .. Len(stmt) - 1 : t = Token(k) BY DEF TokensOf
<1>2. Len(stmt) \in Nat /\ stmt \in Seq(Byte) BY LenProperties DEF Plain
<1>3. At(stmt, k) = stmt[k + 1] BY <1>1, <1>2 DEF At
<1>4. /\ t.start = k /\ t.end = TokenEnd(k) /\ t.code = from_code(stmt[k + 1])
  BY <1>1, <1>3 DEF Token
<1>5. k + 1 \in 1 .. Len(stmt) /\ stmt[k + 1] # "$"
  <2>1. k + 1 \in 1 .. Len(stmt) BY <1>1, <1>2
  <2> QED BY <2>1 DEF Plain
<1>6. /\ from_code(stmt[k + 1]).number \in 0 .. MAX_PLACEHOLDER
      /\ from_code(stmt[k + 1]).kind = "constant" <=> stmt[k + 1] = "lit"
      /\ stmt[k + 1] \in DOMAIN Params => from_code(stmt[k + 1]).number = Params[stmt[k + 1]]
  <2> DEFINE word == stmt[k + 1]
  <2> HIDE DEF word
  <2>1. 0 \in 0 .. MAX_PLACEHOLDER BY SanitizeAssumption
  <2>2. CASE word = "lit"
    <3>1. word \notin DOMAIN Params BY <2>2, SanitizeAssumption
    <3>2. from_code(word) = Constant BY <2>2, <3>1, Zenon DEF from_code
    <3> QED BY <2>1, <2>2, <3>1, <3>2 DEF Constant, word
  <2>3. CASE word # "lit" /\ word \in DOMAIN Params
    <3>1. from_code(word) = Param(Params[word]) BY <2>3, Zenon DEF from_code
    <3>2. Params[word] \in 0 .. MAX_PLACEHOLDER BY <2>3, SanitizeAssumption
    <3> QED BY <2>3, <3>1, <3>2 DEF Param, word
  <2>4. CASE word # "lit" /\ word \notin DOMAIN Params
    <3>1. from_code(word) = Other BY <2>4, Zenon DEF from_code
    <3> QED BY <2>1, <2>4, <3>1 DEF Other, word
  <2> QED BY <2>2, <2>3, <2>4
<1>7. CASE stmt[k + 1] = "e1"
  <2>1. k + 1 < Len(stmt) /\ stmt[k + 2] = "e2"
    <3>1. k + 1 < Len(stmt) /\ stmt[k + 1 + 1] = "e2" BY <1>5, <1>7 DEF WholeCharacters
    <3>2. k + 1 + 1 = k + 2 BY <1>5
    <3> QED BY <3>1, <3>2
  <2>2. At(stmt, k + 1) = "e2"
    <3>1. k + 1 \in 0 .. Len(stmt) - 1 /\ k + 1 + 1 = k + 2 BY <1>2, <1>5, <2>1
    <3> QED BY <2>1, <3>1 DEF At
  <2>3. t.end = k + 2 BY <1>3, <1>4, <1>7, <2>2 DEF TokenEnd, IsPair
  <2>4. k \in Nat /\ k + 2 \in Int /\ k + 2 <= Len(stmt) /\ k < k + 2 BY <1>2, <1>5, <2>1
  <2>5. /\ Slice(stmt, k, k + 2) \in Seq(Byte) /\ Len(Slice(stmt, k, k + 2)) = k + 2 - k
        /\ \A j \in 1 .. Len(Slice(stmt, k, k + 2)) : Slice(stmt, k, k + 2)[j] = stmt[k + j]
    <3> DEFINE to == k + 2
    <3>1. k \in Nat /\ to \in Int /\ to <= Len(stmt) /\ k < to BY <2>4
    <3> HIDE DEF to
    <3>2. /\ Slice(stmt, k, to) \in Seq(Byte) /\ Len(Slice(stmt, k, to)) = to - k
          /\ \A j \in 1 .. Len(Slice(stmt, k, to)) : Slice(stmt, k, to)[j] = stmt[k + j]
      BY <1>2, <3>1, SliceIsText
    <3> QED BY <3>2 DEF to
  <2>6. /\ Text(t) \in Seq(Byte) /\ Len(Text(t)) = 2
        /\ Text(t)[1] = stmt[k + 1] /\ Text(t)[2] = stmt[k + 2]
    BY <1>4, <2>3, <2>4, <2>5 DEF Text
  <2>7. t.end \in 1 .. Len(stmt) BY <1>2, <2>3, <2>4
  <2> QED BY <1>4, <1>6, <1>7, <2>1, <2>6, <2>7
<1>8. CASE stmt[k + 1] # "e1"
  <2>1. t.end = k + 1 BY <1>3, <1>4, <1>8 DEF TokenEnd, IsPair
  <2>2. k \in Nat /\ k + 1 \in Int /\ k + 1 <= Len(stmt) /\ k < k + 1 BY <1>2, <1>5
  <2>3. /\ Slice(stmt, k, k + 1) \in Seq(Byte) /\ Len(Slice(stmt, k, k + 1)) = k + 1 - k
        /\ \A j \in 1 .. Len(Slice(stmt, k, k + 1)) : Slice(stmt, k, k + 1)[j] = stmt[k + j]
    <3> DEFINE to == k + 1
    <3>1. k \in Nat /\ to \in Int /\ to <= Len(stmt) /\ k < to BY <2>2
    <3> HIDE DEF to
    <3>2. /\ Slice(stmt, k, to) \in Seq(Byte) /\ Len(Slice(stmt, k, to)) = to - k
          /\ \A j \in 1 .. Len(Slice(stmt, k, to)) : Slice(stmt, k, to)[j] = stmt[k + j]
      BY <1>2, <3>1, SliceIsText
    <3> QED BY <3>2 DEF to
  <2>4. Text(t) \in Seq(Byte) /\ Len(Text(t)) = 1 /\ Text(t)[1] = stmt[k + 1]
    <3>1. Text(t) = Slice(stmt, k, k + 1) BY <1>4, <2>1 DEF Text
    <3>2. k + 1 - k = 1 BY <2>2
    <3>3. 1 \in 1 .. Len(Slice(stmt, k, k + 1)) BY <2>3, <3>2
    <3> QED BY ONLY <2>3, <3>1, <3>2, <3>3
  <2>5. t.end \in 1 .. Len(stmt) BY <1>2, <2>1, <2>2
  <2>6. Text(t)[1] = At(stmt, t.start) BY <1>3, <1>4, <2>4
  <2>7. t.code.kind = "constant" <=> Text(t)[1] = "lit" BY <1>4, <1>6, <2>4
  <2>8. Text(t)[1] \in DOMAIN Params => t.code.number = Params[Text(t)[1]] BY <1>4, <1>6, <2>4
  <2>9. Text(t)[1] \notin {"e1", "$"} BY <1>5, <1>8, <2>4
  <2> QED BY <1>4, <1>6, <2>4, <2>5, <2>6, <2>7, <2>8, <2>9
<1> QED BY <1>7, <1>8

\* The bytes of a text, to be written.
LEMMA PiecesAre ==
  ASSUME NEW s \in Seq(Byte)
  PROVE  /\ Pieces(s) \in Seq(PieceType) /\ Len(Pieces(s)) = Len(s)
         /\ \A k \in 1 .. Len(s) : Pieces(s)[k] = Piece(s[k], 0) /\ Pieces(s)[k].w = s[k]
<1>1. Len(s) \in Nat /\ \A k \in 1 .. Len(s) : s[k] \in Byte BY LenProperties, ElementOfSeq
<1>2. \A k \in 1 .. Len(s) : Piece(s[k], 0) \in PieceType BY <1>1 DEF Piece, PieceType
<1>3. Pieces(s) \in [1 .. Len(s) -> PieceType] BY <1>2 DEF Pieces
<1>4. \A k \in 1 .. Len(s) : Pieces(s)[k] = Piece(s[k], 0) BY DEF Pieces
<1>5. \A w, n : Piece(w, n).w = w BY DEF Piece
<1> QED BY <1>1, <1>3, <1>4, <1>5

\* What is written for a token: a placeholder for a literal, else its word or its
\* character.
LEMMA RenderedIs ==
  ASSUME Plain(stmt), WholeCharacters(stmt), NEW t \in TokensOf, next_placeholder \in Nat
  PROVE  /\ Rendered(t) \in Seq(PieceType)
         /\ \/ /\ Len(Rendered(t)) = 1 /\ t.code.kind = "constant"
               /\ Rendered(t)[1] = Piece("$", next_placeholder)
            \/ /\ Len(Rendered(t)) = 1 /\ t.code.kind # "constant"
               /\ Rendered(t)[1].w \notin {"$", "lit", "e1"}
               /\ Rendered(t)[1].w = At(stmt, t.start)
            \/ /\ Len(Rendered(t)) = 2 /\ t.code.kind # "constant"
               /\ Rendered(t)[1].w = "e1" /\ Rendered(t)[2].w = "e2"
<1>1. CASE t.code.kind = "constant"
  <2>1. Rendered(t) = <<Piece("$", next_placeholder)>> BY <1>1 DEF Rendered
  <2>2. Piece("$", next_placeholder) \in PieceType BY DEF Piece, PieceType, Byte
  <2> QED BY <1>1, <2>1, <2>2
<1>2. CASE t.code.kind # "constant"
  <2>1. Rendered(t) = Pieces(Text(t)) BY <1>2 DEF Rendered
  <2>2. Text(t) \in Seq(Byte) BY TokenIs
  <2>3. /\ Rendered(t) \in Seq(PieceType) /\ Len(Rendered(t)) = Len(Text(t))
        /\ \A k \in 1 .. Len(Text(t)) : Rendered(t)[k].w = Text(t)[k]
    <3> DEFINE s == Text(t)
    <3> HIDE DEF s
    <3>1. /\ Pieces(s) \in Seq(PieceType) /\ Len(Pieces(s)) = Len(s)
          /\ \A k \in 1 .. Len(s) : Pieces(s)[k].w = s[k]
      BY <2>2, PiecesAre DEF s
    <3> QED BY <2>1, <3>1 DEF s
  <2>4. CASE /\ Len(Text(t)) = 1 /\ Text(t)[1] \notin {"e1", "$", "lit"}
             /\ Text(t)[1] = At(stmt, t.start)
    <3>1. Rendered(t)[1].w = Text(t)[1] BY <2>3, <2>4
    <3> QED BY <1>2, <2>3, <2>4, <3>1
  <2>5. CASE Len(Text(t)) = 2 /\ Text(t)[1] = "e1" /\ Text(t)[2] = "e2"
    <3>1. Rendered(t)[1].w = Text(t)[1] /\ Rendered(t)[2].w = Text(t)[2] BY <2>3, <2>5
    <3> QED BY <1>2, <2>3, <2>5, <3>1
  <2> QED BY <1>2, <2>4, <2>5, TokenIs
<1> QED BY <1>1, <1>2

----------------------------------------------------------------------------
(* The inductive invariant of sanitize. *)

\* Nothing writes what is given.
GivenInv == Plain(text) /\ range \in Int \X Int

\* The statement is text of whole characters, and the tokens are its.
LexInv ==
  /\ step \in {"extract", "lex", "render", "truncate", "done"}
  /\ Plain(stmt) /\ WholeCharacters(stmt)
  /\ tokens \in Seq(TokensOf)
  /\ step = "extract" => tokens = << >>

\* The lists to shorten are apart, and the rendering is not behind the next one.
ListInv ==
  /\ compactions \in Seq(Ranges(Len(tokens))) /\ Apart(compactions)
  /\ token_index \in 1 .. Len(tokens) + 1
  /\ compaction_index \in 1 .. Len(compactions) + 1
  /\ step \in {"extract", "lex"} =>
       compactions = << >> /\ token_index = 1 /\ compaction_index = 1
  /\ compaction_index <= Len(compactions) =>
       token_index <= compactions[compaction_index].start
  /\ step = "truncate" => token_index = Len(tokens) + 1 \/ mode = "raw"

\* What is written consists of pieces, and its characters are whole: no second byte
\* follows a second byte either.
WrittenInv ==
  /\ out \in Seq(PieceType) /\ next_placeholder \in 1 .. MAX_PLACEHOLDER
  /\ step \in {"extract", "lex"} => out = << >>
  /\ \A k \in 1 .. Len(out) :
       /\ out[k].w = "e1" => k < Len(out) /\ out[k + 1].w = "e2"
       /\ out[k].w = "e2" /\ k > 1 => out[k - 1].w # "e2"

\* Nothing that is written is a literal.
RawInv == mode = "normalized" => \A k \in 1 .. Len(out) : out[k].w # "lit"

\* Literals that are still to be numbered.
Unnumbered == Constants(token_index, Len(tokens) + 1)

\* As long as literals are left, the next placeholder is above those written and above
\* all parameters, and there is a number for each.
HoldersInv ==
  mode = "normalized" /\ NumbersFit =>
    /\ \A j \in 1 .. Len(out) : out[j].w = "$" =>
         /\ Unnumbered # 0 => out[j].n < next_placeholder
         /\ \A k \in 1 .. Len(out) : k # j /\ out[k].w = "$" => out[k].n # out[j].n
         /\ \A k \in 1 .. Len(tokens) : out[j].n > tokens[k].code.number
    /\ step = "render" /\ Unnumbered # 0 =>
         /\ next_placeholder + Unnumbered <= MAX_PLACEHOLDER + 1
         /\ \A k \in 1 .. Len(tokens) : next_placeholder > tokens[k].code.number

SanitizeInv ==
  GivenInv /\ LexInv /\ ListInv /\ WrittenInv /\ NeverFused /\ RawInv /\ HoldersInv

\* The literals of some tokens are those of the first and those of the others.
LEMMA ConstantsSplit ==
  ASSUME NEW a \in Int, NEW b \in Int, NEW m \in Int, a <= b, b <= m
  PROVE  /\ Constants(a, b) \in Nat /\ Constants(b, m) \in Nat
         /\ Constants(a, m) = Constants(a, b) + Constants(b, m)
<1> DEFINE Lit(x, y) == {j \in x .. y - 1 : tokens[j].code.kind = "constant"}
<1>1. ASSUME NEW x \in Int, NEW y \in Int PROVE IsFiniteSet(Lit(x, y)) /\ Lit(x, y) \subseteq x .. y - 1
  <2> DEFINE z == y - 1
  <2>1. z \in Int OBVIOUS
  <2> HIDE DEF z
  <2>2. IsFiniteSet(x .. z) BY <2>1, FS_Interval
  <2> QED BY <2>2, FS_Subset DEF z
<1>2. Lit(a, m) = Lit(a, b) \cup Lit(b, m) OBVIOUS
<1>3. Lit(a, b) \cap Lit(b, m) = {} OBVIOUS
<1>4. \A x, y : Constants(x, y) = Cardinality(Lit(x, y)) BY DEF Constants
<1>5. IsFiniteSet(Lit(a, b)) /\ IsFiniteSet(Lit(b, m)) BY <1>1
<1> HIDE DEF Lit
<1>6. Cardinality(Lit(a, b)) \in Nat /\ Cardinality(Lit(b, m)) \in Nat BY <1>5, FS_CardinalityType
<1>7. Cardinality(Lit(a, b) \cup Lit(b, m)) = Cardinality(Lit(a, b)) + Cardinality(Lit(b, m))
  <2>1. Cardinality(Lit(a, b) \cup Lit(b, m)) =
          Cardinality(Lit(a, b)) + Cardinality(Lit(b, m)) - Cardinality(Lit(a, b) \cap Lit(b, m))
    BY <1>5, FS_Union
  <2>2. Cardinality(Lit(a, b) \cap Lit(b, m)) = 0 BY <1>3, FS_EmptySet
  <2> QED BY <1>6, <2>1, <2>2
<1> QED BY <1>2, <1>4, <1>6, <1>7

\* One token is one literal or none.
LEMMA OneConstant ==
  ASSUME NEW k \in Int
  PROVE  Constants(k, k + 1) = IF tokens[k].code.kind = "constant" THEN 1 ELSE 0
<1> DEFINE Lit(x, y) == {j \in x .. y - 1 : tokens[j].code.kind = "constant"}
<1>1. \A x, y : Constants(x, y) = Cardinality(Lit(x, y)) BY DEF Constants
<1>2. CASE tokens[k].code.kind = "constant"
  <2>1. Lit(k, k + 1) = {k} BY <1>2
  <2> HIDE DEF Lit
  <2> QED BY <1>1, <1>2, <2>1, FS_Singleton
<1>3. CASE tokens[k].code.kind # "constant"
  <2>1. Lit(k, k + 1) = {} BY <1>3
  <2> HIDE DEF Lit
  <2> QED BY <1>1, <1>3, <2>1, FS_EmptySet
<1> QED BY <1>2, <1>3

\* What one token adds to what is written: a blank, if it would fuse or was apart,
\* and a placeholder, a word or a character.
LEMMA EmitIs ==
  ASSUME SanitizeInv, Emit
  PROVE  /\ token_index \in 1 .. Len(tokens) /\ tokens[token_index] \in TokensOf
         /\ out' \in Seq(PieceType)
         /\ \A k \in 1 .. Len(out) : out'[k] = out[k]
         /\ \E g \in {0, 1}, m \in {1, 2} :
              /\ Len(out') = Len(out) + g + m
              /\ g = 1 => out'[Len(out) + 1].w = " "
              /\ g = 0 /\ Len(out) > 0 =>
                   ~(IsWord(out[Len(out)].w) /\ IsWord(out'[Len(out) + 1].w))
              /\ \/ /\ m = 1 /\ out'[Len(out) + g + 1] = Piece("$", next_placeholder)
                    /\ tokens[token_index].code.kind = "constant"
                 \/ /\ m = 1 /\ out'[Len(out) + g + 1].w \notin {"$", "lit", "e1"}
                    /\ out'[Len(out) + g + 1].w = At(stmt, tokens[token_index].start)
                 \/ /\ m = 2 /\ out'[Len(out) + g + 1].w = "e1"
                    /\ out'[Len(out) + g + 2].w = "e2"
<1> DEFINE t == tokens[token_index]
           r == Rendered(t)
           gap == previous_end >= 0 /\ t.start > previous_end
           blank == IF (gap \/ would_fuse(r)) /\ out # << >> THEN <<Piece(" ", 0)>> ELSE << >>
           n == Len(out)
<1>1. out' = out \o blank \o r BY DEF Emit
<1>0. token_index <= Len(tokens) BY DEF Emit
<1>2. token_index \in 1 .. Len(tokens) /\ t \in TokensOf
  <2>1. tokens \in Seq(TokensOf) /\ token_index \in 1 .. Len(tokens) + 1
    BY DEF SanitizeInv, LexInv, ListInv
  <2>2. Len(tokens) \in Nat BY <2>1, LenProperties
  <2>3. token_index \in 1 .. Len(tokens) BY ONLY <1>0, <2>1, <2>2
  <2> QED BY <2>1, <2>3, ElementOfSeq
<1>3. /\ r \in Seq(PieceType)
      /\ \/ /\ Len(r) = 1 /\ t.code.kind = "constant" /\ r[1] = Piece("$", next_placeholder)
         \/ /\ Len(r) = 1 /\ t.code.kind # "constant" /\ r[1].w \notin {"$", "lit", "e1"}
            /\ r[1].w = At(stmt, t.start)
         \/ /\ Len(r) = 2 /\ t.code.kind # "constant" /\ r[1].w = "e1" /\ r[2].w = "e2"
  BY <1>2, RenderedIs DEF SanitizeInv, LexInv, WrittenInv
<1>4. out \in Seq(PieceType) /\ n \in Nat BY LenProperties DEF SanitizeInv, WrittenInv
<1>5. /\ blank \in Seq(PieceType)
      /\ Len(blank) \in {0, 1} /\ (Len(blank) = 1 => blank[1].w = " ")
      /\ Len(blank) = 0 /\ n > 0 => ~would_fuse(r)
  <2> DEFINE p == Piece(" ", 0)
  <2>1. p \in PieceType /\ p.w = " " BY DEF Piece, PieceType, Byte
  <2> HIDE DEF p, r
  <2>2. CASE blank = <<p>>
    <3> HIDE DEF blank, n
    <3>0. p \in PieceType BY <2>1
    <3>1. <<p>> \in Seq(PieceType) /\ Len(<<p>>) = 1 /\ <<p>>[1] = p BY ONLY <3>0
    <3>2. blank \in Seq(PieceType) /\ Len(blank) = 1 /\ blank[1] = p BY ONLY <2>2, <3>1
    <3>3. Len(blank) \in {0, 1} /\ Len(blank) # 0 BY ONLY <3>2
    <3>4. blank[1].w = " " BY ONLY <2>1, <3>2
    <3> QED BY <3>2, <3>3, <3>4
  <2>3. CASE blank = << >> /\ ~((gap \/ would_fuse(r)) /\ out # << >>)
    <3>1. n > 0 => out # << >> BY EmptySeq
    <3>2. n > 0 => ~would_fuse(r) BY <2>3, <3>1
    <3> HIDE DEF blank
    <3>3. blank \in Seq(PieceType) /\ Len(blank) = 0 BY <2>3, EmptySeq
    <3> QED BY <3>2, <3>3
  <2>4. \/ blank = <<p>>
        \/ blank = << >> /\ ~((gap \/ would_fuse(r)) /\ out # << >>)
    BY DEF p
  <2> QED BY <2>2, <2>3, <2>4
<1>6. would_fuse(r) <=> n > 0 /\ IsWord(out[n].w) /\ IsWord(r[1].w)
  <2>1. out # << >> <=> n > 0 BY <1>4, EmptySeq
  <2> QED BY <2>1 DEF would_fuse, Last
<1> HIDE DEF t, r, blank
<1>7. /\ out \o blank \in Seq(PieceType) /\ Len(out \o blank) = n + Len(blank)
      /\ \A k \in 1 .. n + Len(blank) :
           (out \o blank)[k] = IF k <= n THEN out[k] ELSE blank[k - n]
  BY <1>4, <1>5, ConcatProperties
<1> DEFINE front == out \o blank
<1> HIDE DEF front
<1>8. /\ front \o r \in Seq(PieceType) /\ Len(front \o r) = Len(front) + Len(r)
      /\ \A k \in 1 .. Len(front) + Len(r) :
           (front \o r)[k] = IF k <= Len(front) THEN front[k] ELSE r[k - Len(front)]
  BY <1>3, <1>7, ConcatProperties DEF front
<1>9. Len(blank) \in {0, 1} /\ Len(r) \in {1, 2} BY <1>3, <1>5
<1> DEFINE g == Len(blank)
           m == Len(r)
<1> HIDE DEF n, g, m
<1>10. /\ out' \in Seq(PieceType) /\ Len(out') = n + g + m
       /\ \A k \in 1 .. n : out'[k] = out[k]
       /\ g = 1 => out'[n + 1] = blank[1]
       /\ out'[n + g + 1] = r[1]
       /\ m = 2 => out'[n + g + 2] = r[2]
  <2>1. out' = front \o r BY <1>1 DEF front
  <2>2. Len(front) = n + g /\ g \in {0, 1} /\ m \in {1, 2} /\ n \in Nat
    BY <1>4, <1>7, <1>9 DEF front, n, g, m
  <2>3. \A k \in 1 .. n + g : front[k] = IF k <= n THEN out[k] ELSE blank[k - n]
    BY <1>7 DEF front, n, g
  <2>4. \A k \in 1 .. n + g + m : out'[k] = IF k <= n + g THEN front[k] ELSE r[k - (n + g)]
    BY <1>8, <2>1, <2>2 DEF m
  <2>5. ASSUME NEW k \in 1 .. n PROVE out'[k] = out[k]
    <3>1. k \in 1 .. n + g /\ k \in 1 .. n + g + m /\ k <= n /\ k <= n + g BY <2>2
    <3> QED BY <2>3, <2>4, <3>1
  <2>6. ASSUME g = 1 PROVE out'[n + 1] = blank[1]
    <3> DEFINE j == n + 1
    <3>1. /\ j \in 1 .. n + g /\ j \in 1 .. n + g + m /\ ~(j <= n)
          /\ j <= n + g /\ j - n = 1
      BY <2>2, <2>6
    <3> HIDE DEF j
    <3>2. out'[j] = front[j] BY <2>4, <3>1
    <3>3. front[j] = blank[j - n] BY <2>3, <3>1
    <3> QED BY <3>1, <3>2, <3>3 DEF j
  <2>7. out'[n + g + 1] = r[1]
    <3> DEFINE j == n + g + 1
    <3>1. j \in 1 .. n + g + m /\ ~(j <= n + g) /\ j - (n + g) = 1 BY <2>2
    <3> HIDE DEF j
    <3>2. out'[j] = r[j - (n + g)] BY <2>4, <3>1
    <3> QED BY <3>1, <3>2 DEF j
  <2>8. ASSUME m = 2 PROVE out'[n + g + 2] = r[2]
    <3> DEFINE j == n + g + 2
    <3>1. j \in 1 .. n + g + m /\ ~(j <= n + g) /\ j - (n + g) = 2 BY <2>2, <2>8
    <3> HIDE DEF j
    <3>2. out'[j] = r[j - (n + g)] BY <2>4, <3>1
    <3> QED BY <3>1, <3>2 DEF j
  <2>9. Len(out') = n + g + m /\ out' \in Seq(PieceType) BY <1>8, <2>1, <2>2 DEF m
  <2> QED BY <2>5, <2>6, <2>7, <2>8, <2>9
<1>11. g = 0 /\ n > 0 => ~(IsWord(out[n].w) /\ IsWord(out'[n + 1].w))
  <2>1. g = 0 /\ n > 0 => ~would_fuse(r) BY <1>5 DEF g, n
  <2>2. g = 0 => out'[n + 1] = r[1]
    <3>1. g = 0 => n + g + 1 = n + 1 BY <1>4 DEF n
    <3> QED BY <1>10, <3>1
  <2> QED BY <1>6, <2>1, <2>2 DEF n
<1>12. g = 1 => out'[n + 1].w = " "
  <2>1. g = 1 => blank[1].w = " " BY <1>5 DEF g
  <2> QED BY <1>10, <2>1
<1>13. \/ m = 1 /\ out'[n + g + 1] = Piece("$", next_placeholder) /\ t.code.kind = "constant"
       \/ m = 1 /\ out'[n + g + 1].w \notin {"$", "lit", "e1"}
          /\ out'[n + g + 1].w = At(stmt, t.start)
       \/ m = 2 /\ out'[n + g + 1].w = "e1" /\ out'[n + g + 2].w = "e2"
  BY <1>3, <1>10 DEF m
<1>14. g \in {0, 1} /\ m \in {1, 2} BY <1>9 DEF g, m
<1> QED BY <1>2, <1>10, <1>11, <1>12, <1>13, <1>14 DEF n, t

\* With a token, what is written keeps whole characters, words apart, literals out
\* and placeholders apart.
LEMMA EmitWrites ==
  ASSUME SanitizeInv, Emit
  PROVE  (WrittenInv /\ NeverFused /\ RawInv /\ HoldersInv)'
<1> DEFINE n == Len(out)
<1>1. PICK g \in {0, 1}, m \in {1, 2} :
         /\ Len(out') = Len(out) + g + m
         /\ g = 1 => out'[Len(out) + 1].w = " "
         /\ g = 0 /\ Len(out) > 0 =>
              ~(IsWord(out[Len(out)].w) /\ IsWord(out'[Len(out) + 1].w))
         /\ \/ /\ m = 1 /\ out'[Len(out) + g + 1] = Piece("$", next_placeholder)
               /\ tokens[token_index].code.kind = "constant"
            \/ m = 1 /\ out'[Len(out) + g + 1].w \notin {"$", "lit", "e1"}
            \/ /\ m = 2 /\ out'[Len(out) + g + 1].w = "e1"
               /\ out'[Len(out) + g + 2].w = "e2"
  BY EmitIs
<1>2. out' \in Seq(PieceType) /\ \A k \in 1 .. n : out'[k] = out[k] BY EmitIs
<1>3. /\ n \in Nat /\ out \in Seq(PieceType) /\ next_placeholder \in 1 .. MAX_PLACEHOLDER
      /\ step = "render" /\ step' = "render" /\ mode' = mode /\ tokens' = tokens
      /\ MAX_PLACEHOLDER \in Nat \ {0}
  BY LenProperties, SanitizeAssumption DEF SanitizeInv, WrittenInv, Emit
<1>4. Piece("$", next_placeholder).w = "$" /\ Piece("$", next_placeholder).n = next_placeholder
  BY DEF Piece
<1> HIDE DEF n
<1>numbered. next_placeholder' = IF tokens[token_index].code.kind = "constant"
                                 THEN Saturated(next_placeholder + 1) ELSE next_placeholder
  BY DEF Emit
<1>5. next_placeholder' \in 1 .. MAX_PLACEHOLDER /\ next_placeholder <= next_placeholder'
  BY <1>3, <1>numbered DEF Saturated
<1>length. Len(out') = n + g + m /\ n + g + m \in Nat
  <2>1. Len(out') = n + g + m BY <1>1 DEF n
  <2> QED BY <1>3, <2>1
<1>added. /\ g = 1 => out'[n + 1].w = " "
       /\ \/ /\ m = 1 /\ out'[n + g + 1].w = "$" /\ out'[n + g + 1].n = next_placeholder
             /\ tokens[token_index].code.kind = "constant"
          \/ m = 1 /\ out'[n + g + 1].w \notin {"$", "lit", "e1"}
          \/ m = 2 /\ out'[n + g + 1].w = "e1" /\ out'[n + g + 2].w = "e2"
  BY <1>1, <1>4 DEF n
<1>6. ASSUME NEW k \in 1 .. Len(out')
      PROVE  \/ k \in 1 .. n /\ out'[k] = out[k]
             \/ k = n + 1 /\ g = 1 /\ out'[k].w = " "
             \/ /\ k = n + g + 1 /\ m = 1 /\ out'[k].w = "$" /\ out'[k].n = next_placeholder
                /\ tokens[token_index].code.kind = "constant"
             \/ k = n + g + 1 /\ m = 1 /\ out'[k].w \notin {"$", "lit", "e1"}
             \/ /\ k = n + g + 1 /\ m = 2 /\ out'[k].w = "e1"
                /\ k + 1 = Len(out') /\ out'[k + 1].w = "e2"
             \/ k = n + g + 2 /\ m = 2 /\ k = Len(out') /\ out'[k].w = "e2" /\ out'[k - 1].w = "e1"
  <2>1. k \in 1 .. n \/ (k = n + 1 /\ g = 1) \/ k = n + g + 1 \/ (k = n + g + 2 /\ m = 2)
    BY <1>3, <1>length
  <2>2. CASE k \in 1 .. n BY <1>2, <2>2
  <2>3. CASE k = n + 1 /\ g = 1 BY <1>added, <2>3
  <2>4. CASE k = n + g + 1
    <3>1. m = 2 => k + 1 = Len(out') /\ n + g + 2 = k + 1 BY <1>3, <1>length, <2>4
    <3>2. m = 1 \/ m = 2 OBVIOUS
    <3> QED BY <1>added, <2>4, <3>1, <3>2
  <2>5. CASE k = n + g + 2 /\ m = 2
    <3>1. k = Len(out') /\ n + g + 1 = k - 1 BY <1>3, <1>length, <2>5
    <3> QED BY <1>added, <2>5, <3>1
  <2> QED BY <2>1, <2>2, <2>3, <2>4, <2>5
<1>7. IsWord("e2") /\ ~IsWord(" ") BY DEF IsWord, Punctuation
<1>9. g = 0 /\ n > 0 => ~(IsWord(out'[n].w) /\ IsWord(out'[n + 1].w))
  <2>1. n > 0 => n \in 1 .. n BY <1>3
  <2> QED BY <1>1, <1>2, <2>1 DEF n
<1>10. ASSUME NEW k \in 1 .. Len(out'), out'[k].w = "e1"
       PROVE  k < Len(out') /\ out'[k + 1].w = "e2"
  <2>1. CASE k \in 1 .. n /\ out'[k] = out[k]
    <3>1. k < n /\ out[k + 1].w = "e2"
      BY <1>10, <2>1 DEF SanitizeInv, WrittenInv, n
    <3>2. k + 1 \in 1 .. n BY <1>3, <3>1
    <3>3. k < Len(out') BY <1>3, <1>length, <3>1
    <3> QED BY <1>2, <3>1, <3>2, <3>3
  <2>2. CASE k + 1 = Len(out') /\ out'[k + 1].w = "e2" BY <1>length, <2>2
  <2> QED BY <1>6, <1>10, <2>1, <2>2
<1>11. ASSUME NEW k \in 1 .. Len(out'), out'[k].w = "e2", k > 1
       PROVE  out'[k - 1].w # "e2"
  <2>1. CASE k \in 1 .. n /\ out'[k] = out[k]
    <3>1. out[k - 1].w # "e2" BY <1>11, <2>1 DEF SanitizeInv, WrittenInv, n
    <3>2. k - 1 \in 1 .. n BY <1>3, <1>11, <2>1
    <3> QED BY <1>2, <3>1, <3>2
  <2>2. CASE k = n + g + 1
    <3>1. CASE g = 0
      <4>1. k - 1 = n /\ n > 0 /\ n + 1 = k BY <1>3, <1>11, <2>2, <3>1
      <4>2. ~IsWord(out'[n].w) BY <1>7, <1>9, <1>11, <3>1, <4>1
      <4> QED BY <1>7, <4>1, <4>2
    <3>2. CASE g = 1
      <4>1. k - 1 = n + 1 BY <1>3, <2>2, <3>2
      <4>2. out'[n + 1].w = " " BY <1>1, <3>2 DEF n
      <4> QED BY <4>1, <4>2
    <3> QED BY <3>1, <3>2
  <2>3. CASE out'[k - 1].w = "e1" BY <2>3
  <2> QED BY <1>6, <1>11, <2>1, <2>2, <2>3
<1>12. WrittenInv'
  <2>1. step' \notin {"extract", "lex"} BY <1>3
  <2> QED BY <1>2, <1>5, <1>10, <1>11, <2>1 DEF WrittenInv
<1>13. NeverFused'
  <2> SUFFICES ASSUME mode' = "normalized", NEW k \in 1 .. Len(out') - 1,
                      IsWord(out'[k].w), IsWord(out'[k + 1].w)
               PROVE  out'[k].w = "e1" /\ out'[k + 1].w = "e2"
    BY DEF NeverFused
  <2>1. k \in 1 .. Len(out') /\ k + 1 \in 1 .. Len(out') /\ k + 1 - 1 = k BY <1>length
  <2>2. CASE k + 1 \in 1 .. n
    <3>1. k \in 1 .. n /\ k \in 1 .. n - 1 BY <1>3, <2>2
    <3>2. out'[k] = out[k] /\ out'[k + 1] = out[k + 1] BY <1>2, <2>2, <3>1
    <3>3. k \in 1 .. Len(out) - 1 /\ mode = "normalized" BY <1>3, <3>1 DEF n
    <3>4. IsWord(out[k].w) /\ IsWord(out[k + 1].w) BY <3>2
    <3>5. out[k].w = "e1" /\ out[k + 1].w = "e2"
      BY <3>3, <3>4 DEF SanitizeInv, NeverFused
    <3> QED BY <3>2, <3>5
  <2>3. CASE k + 1 = n + g + 1
    <3>1. CASE g = 0
      <4>1. k = n /\ n > 0 BY <1>3, <2>3, <3>1
      <4> QED BY <1>9, <3>1, <4>1
    <3>2. CASE g = 1
      <4>1. k = n + 1 BY <1>3, <2>3, <3>2
      <4>2. out'[n + 1].w = " " BY <1>1, <3>2 DEF n
      <4> QED BY <1>7, <4>1, <4>2
    <3> QED BY <3>1, <3>2
  <2>4. CASE out'[k + 1].w = "e2" /\ out'[k].w = "e1" BY <2>4
  <2>5. CASE out'[k + 1].w = " " BY <1>7, <2>5
  <2>6. \/ k + 1 \in 1 .. n
        \/ k + 1 = n + g + 1
        \/ out'[k + 1].w = " "
        \/ out'[k + 1].w = "e2" /\ out'[k].w = "e1"
    <3> DEFINE j == k + 1
    <3>1. j \in 1 .. Len(out') /\ j - 1 = k BY <2>1
    <3> HIDE DEF j
    <3>2. \/ j \in 1 .. n
          \/ j = n + g + 1
          \/ out'[j].w = " "
          \/ out'[j].w = "e2" /\ out'[k].w = "e1"
      BY <1>6, <3>1
    <3> QED BY <3>2 DEF j
  <2> QED BY <2>2, <2>3, <2>4, <2>5, <2>6
<1>14. RawInv'
  <2> SUFFICES ASSUME mode' = "normalized", NEW k \in 1 .. Len(out') PROVE out'[k].w # "lit"
    BY DEF RawInv
  <2>1. CASE k \in 1 .. n /\ out'[k] = out[k]
    BY <1>3, <2>1 DEF SanitizeInv, RawInv, n
  <2> QED BY <1>6, <2>1
<1>15. HoldersInv'
  <2> DEFINE constant == tokens[token_index].code.kind = "constant"
             before == Unnumbered
             after == Unnumbered'
  <2>1. /\ before \in Nat /\ after \in Nat
        /\ before = IF constant THEN after + 1 ELSE after
    <3> DEFINE k == token_index
               end == Len(tokens) + 1
    <3>1. k \in Int /\ k + 1 \in Int /\ end \in Int /\ k <= k + 1 /\ k + 1 <= end
      <4>1. token_index \in 1 .. Len(tokens) /\ Len(tokens) \in Nat
        BY EmitIs, LenProperties DEF SanitizeInv, LexInv
      <4> QED BY <4>1
    <3>2. before = Constants(k, end) BY DEF Unnumbered
    <3>3. after = Constants(k + 1, end) BY <1>3 DEF Unnumbered, Emit, Constants
    <3> HIDE DEF k, end, before, after
    <3>4. /\ Constants(k, k + 1) \in Nat /\ Constants(k + 1, end) \in Nat
          /\ Constants(k, end) = Constants(k, k + 1) + Constants(k + 1, end)
      BY <3>1, ConstantsSplit
    <3>5. Constants(k, k + 1) = IF constant THEN 1 ELSE 0 BY <3>1, OneConstant DEF k
    <3> QED BY <3>2, <3>3, <3>4, <3>5
  <2> SUFFICES ASSUME mode = "normalized", NumbersFit PROVE HoldersInv'
    <3>1. NumbersFit' <=> NumbersFit BY <1>3 DEF NumbersFit, HighestParam, Constants
    <3> QED BY <1>3, <3>1 DEF HoldersInv
  <2>2. /\ \A j \in 1 .. n : out[j].w = "$" =>
             /\ before # 0 => out[j].n < next_placeholder
             /\ \A k \in 1 .. n : k # j /\ out[k].w = "$" => out[k].n # out[j].n
             /\ \A k \in 1 .. Len(tokens) : out[j].n > tokens[k].code.number
        /\ before # 0 =>
             /\ next_placeholder + before <= MAX_PLACEHOLDER + 1
             /\ \A k \in 1 .. Len(tokens) : next_placeholder > tokens[k].code.number
    BY <1>3 DEF SanitizeInv, HoldersInv, n
  <2> HIDE DEF constant, before, after
  <2>3. after # 0 => before # 0 BY <2>1
  <2>4. constant => before # 0 BY <2>1
  <2>5. constant /\ after # 0 => next_placeholder' = next_placeholder + 1
    <3> SUFFICES ASSUME constant, after # 0 PROVE next_placeholder' = next_placeholder + 1 OBVIOUS
    <3>1. next_placeholder + before <= MAX_PLACEHOLDER + 1 /\ before = after + 1 BY <2>1, <2>2, <2>3
    <3>2. next_placeholder + 1 <= MAX_PLACEHOLDER BY <1>3, <2>1, <3>1
    <3>3. next_placeholder' = Saturated(next_placeholder + 1) BY <1>numbered DEF constant
    <3> QED BY <1>3, <3>2, <3>3 DEF Saturated
  <2>6. ASSUME NEW j \in 1 .. Len(out'), out'[j].w = "$"
        PROVE  \/ j \in 1 .. n /\ out'[j] = out[j] /\ out[j].w = "$"
               \/ j = n + g + 1 /\ out'[j].n = next_placeholder /\ constant
    BY <1>6, <2>6 DEF constant
  <2>7. ASSUME NEW j \in 1 .. n PROVE out[j].n \in Int
    <3>1. out[j] \in PieceType BY <1>3, ElementOfSeq DEF n
    <3> QED BY <3>1 DEF PieceType
  <2>8. ASSUME NEW j \in 1 .. Len(out'), out'[j].w = "$", after # 0
        PROVE  out'[j].n < next_placeholder'
    <3>1. CASE j \in 1 .. n /\ out'[j] = out[j] /\ out[j].w = "$"
      <4>1. out[j].n < next_placeholder BY <2>2, <2>3, <2>8, <3>1
      <4> QED BY <1>3, <1>5, <2>7, <3>1, <4>1
    <3>2. CASE out'[j].n = next_placeholder /\ constant BY <1>3, <2>5, <2>8, <3>2
    <3> QED BY <2>6, <2>8, <3>1, <3>2
  <2>9. ASSUME NEW j \in 1 .. Len(out'), NEW k \in 1 .. Len(out'), k # j,
               out'[j].w = "$", out'[k].w = "$"
        PROVE  out'[k].n # out'[j].n
    <3>1. CASE j \in 1 .. n /\ k \in 1 .. n
      <4>1. out'[j] = out[j] /\ out'[k] = out[k] BY <1>2, <3>1
      <4> QED BY <2>2, <2>9, <3>1, <4>1
    <3>2. CASE j \in 1 .. n /\ ~(k \in 1 .. n)
      <4>1. out'[k].n = next_placeholder /\ constant BY <2>6, <2>9, <3>2
      <4>2. out'[j] = out[j] BY <1>2, <3>2
      <4>3. out[j].n < next_placeholder BY <2>2, <2>4, <2>9, <3>2, <4>1, <4>2
      <4> QED BY <1>3, <2>7, <3>2, <4>1, <4>2, <4>3
    <3>3. CASE ~(j \in 1 .. n) /\ k \in 1 .. n
      <4>1. out'[j].n = next_placeholder /\ constant BY <2>6, <2>9, <3>3
      <4>2. out'[k] = out[k] BY <1>2, <3>3
      <4>3. out[k].n < next_placeholder BY <2>2, <2>4, <2>9, <3>3, <4>1, <4>2
      <4> QED BY <1>3, <2>7, <3>3, <4>1, <4>2, <4>3
    <3>4. CASE ~(j \in 1 .. n) /\ ~(k \in 1 .. n)
      <4>1. j = n + g + 1 /\ k = n + g + 1 BY <2>6, <2>9, <3>4
      <4> QED BY <2>9, <4>1
    <3> QED BY <3>1, <3>2, <3>3, <3>4
  <2>10. ASSUME NEW j \in 1 .. Len(out'), out'[j].w = "$", NEW k \in 1 .. Len(tokens)
         PROVE  out'[j].n > tokens[k].code.number
    <3>1. CASE j \in 1 .. n /\ out'[j] = out[j] /\ out[j].w = "$" BY <2>2, <3>1
    <3>2. CASE out'[j].n = next_placeholder /\ constant BY <2>2, <2>4, <3>2
    <3> QED BY <2>6, <2>10, <3>1, <3>2
  <2>11. ASSUME after # 0
         PROVE  /\ next_placeholder' + after <= MAX_PLACEHOLDER + 1
                /\ \A k \in 1 .. Len(tokens) : next_placeholder' > tokens[k].code.number
    <3>1. next_placeholder' + after = next_placeholder + before
      <4>1. CASE constant BY <1>3, <2>1, <2>5, <2>11, <4>1
      <4>2. CASE ~constant
        <5>1. next_placeholder' = next_placeholder BY <1>numbered, <4>2 DEF constant
        <5> QED BY <2>1, <4>2, <5>1
      <4> QED BY <4>1, <4>2
    <3>2. ASSUME NEW k \in 1 .. Len(tokens) PROVE next_placeholder' > tokens[k].code.number
      <4>1. next_placeholder > tokens[k].code.number BY <2>2, <2>3, <2>11
      <4>2. tokens[k] \in TokensOf BY ElementOfSeq DEF SanitizeInv, LexInv
      <4>3. tokens[k].code.number \in Int BY <4>2, TokenIs DEF SanitizeInv, LexInv
      <4> QED BY <1>3, <1>5, <4>1, <4>3
    <3> QED BY <2>2, <2>3, <2>11, <3>1, <3>2
  <2> QED BY <1>3, <2>8, <2>9, <2>10, <2>11 DEF HoldersInv, after
<1> QED BY <1>12, <1>13, <1>14, <1>15

----------------------------------------------------------------------------
(* The steps of sanitize. *)

\* A step that leaves the statement and what is found in it leaves its invariants.
LEMMA SameFindings ==
  ASSUME SanitizeInv, text' = text, range' = range, mode' = mode, stmt' = stmt,
         tokens' = tokens, compactions' = compactions,
         UNCHANGED rendering, step' \in {"truncate", "done"},
         step' = "truncate" => token_index = Len(tokens) + 1 \/ mode = "raw"
  PROVE  SanitizeInv'
<1>1. TokensOf' = TokensOf BY SameTokens
<1>2. GivenInv' BY DEF SanitizeInv, GivenInv, Plain
<1>3. LexInv' BY <1>1 DEF SanitizeInv, LexInv, Plain, WholeCharacters
<1>4. ListInv' BY DEF SanitizeInv, ListInv, Apart, Ranges, rendering
<1>5. WrittenInv' BY DEF SanitizeInv, WrittenInv, rendering
<1>6. NeverFused' BY DEF SanitizeInv, NeverFused, rendering
<1>7. RawInv' BY DEF SanitizeInv, RawInv, rendering
<1>8. HoldersInv'
  BY DEF SanitizeInv, HoldersInv, NumbersFit, HighestParam, Unnumbered, Constants, rendering
<1> QED BY <1>2, <1>3, <1>4, <1>5, <1>6, <1>7, <1>8 DEF SanitizeInv

\* The statement is cut out: it is whole, and in raw mode it is what is written.
LEMMA ExtractStep ==
  ASSUME SanitizeInv, Extract, text' = text
  PROVE  SanitizeInv'
<1>1. /\ range' = range /\ mode' = mode /\ tokens' = tokens /\ compactions' = compactions
      /\ token_index' = token_index /\ compaction_index' = compaction_index
      /\ next_placeholder' = next_placeholder /\ step = "extract"
  BY DEF Extract
<1>2. /\ tokens = << >> /\ compactions = << >> /\ out = << >>
      /\ token_index = 1 /\ compaction_index = 1
  BY <1>1 DEF SanitizeInv, LexInv, ListInv, WrittenInv
<1>3. GivenInv' BY <1>1 DEF SanitizeInv, GivenInv, Plain
<1>4. ListInv'
  <2>1. /\ compactions' \in Seq(Ranges(Len(tokens'))) /\ Apart(compactions')
        /\ Len(tokens') = 0 /\ Len(compactions') = 0
    BY <1>1, <1>2 DEF Apart
  <2>2. step' = "truncate" => mode = "raw" BY DEF Extract
  <2> QED BY <1>1, <1>2, <2>1, <2>2 DEF ListInv
<1>5. CASE step' = "done" /\ stmt' = stmt /\ out' = out
  <2>1. TokensOf' = TokensOf BY <1>5, SameTokens
  <2>2. LexInv' BY <1>1, <1>5, <2>1 DEF SanitizeInv, LexInv, Plain, WholeCharacters
  <2>3. WrittenInv' BY <1>1, <1>5 DEF SanitizeInv, WrittenInv
  <2>4. (NeverFused /\ RawInv /\ HoldersInv)'
    <3>1. Len(out') = 0 BY <1>2, <1>5
    <3> QED BY <1>5, <3>1 DEF NeverFused, RawInv, HoldersInv
  <2> QED BY <1>3, <1>4, <2>2, <2>3, <2>4 DEF SanitizeInv
<1>6. ASSUME NEW s \in current_statement,
             stmt' = s, out' = (IF mode = "raw" THEN Pieces(s) ELSE << >>),
             step' \in {"truncate", "lex", "done"}, step' = "lex" => mode # "raw"
      PROVE  SanitizeInv'
  <2>1. Plain(s) /\ WholeCharacters(s) BY StatementIsWhole DEF SanitizeInv, GivenInv
  <2>2. LexInv'
    <3>1. tokens' \in Seq(TokensOf)' BY <1>1, <1>2
    <3> QED BY <1>6, <2>1, <3>1 DEF LexInv, Plain, WholeCharacters
  <2>3. CASE mode = "raw"
    <3>1. /\ out' \in Seq(PieceType) /\ Len(out') = Len(s)
          /\ \A k \in 1 .. Len(s) : out'[k].w = s[k]
      BY <1>6, <2>1, <2>3, PiecesAre DEF Plain
    <3>2. \A k \in 1 .. Len(out') : out'[k].w = s[k] BY <3>1
    <3>3. Len(s) \in Nat BY <2>1, LenProperties DEF Plain
    <3>4. ASSUME NEW k \in 1 .. Len(out'), out'[k].w = "e1"
          PROVE  k < Len(out') /\ out'[k + 1].w = "e2"
      <4>1. k < Len(s) /\ s[k + 1] = "e2" BY <2>1, <3>1, <3>2, <3>4 DEF WholeCharacters
      <4>2. k + 1 \in 1 .. Len(out') BY <3>1, <3>3, <4>1
      <4> QED BY <3>1, <3>2, <4>1, <4>2
    <3>5. ASSUME NEW k \in 1 .. Len(out'), out'[k].w = "e2", k > 1
          PROVE  out'[k - 1].w # "e2"
      <4>1. s[k - 1] = "e1" BY <2>1, <3>1, <3>2, <3>5 DEF WholeCharacters
      <4>2. k - 1 \in 1 .. Len(out') BY <3>1, <3>3, <3>5
      <4> QED BY <3>2, <4>1, <4>2
    <3>6. step' \notin {"extract", "lex"} BY <1>6, <2>3
    <3>7. WrittenInv'
      <4>1. next_placeholder' \in 1 .. MAX_PLACEHOLDER BY <1>1 DEF SanitizeInv, WrittenInv
      <4> QED BY <3>1, <3>4, <3>5, <3>6, <4>1 DEF WrittenInv
    <3>8. (NeverFused /\ RawInv /\ HoldersInv)'
      BY <1>1, <2>3 DEF NeverFused, RawInv, HoldersInv
    <3> QED BY <1>3, <1>4, <2>2, <3>7, <3>8 DEF SanitizeInv
  <2>4. CASE mode # "raw"
    <3>1. out' = << >> /\ Len(out') = 0 BY <1>6, <2>4
    <3>2. WrittenInv'
      <4>1. next_placeholder' \in 1 .. MAX_PLACEHOLDER BY <1>1 DEF SanitizeInv, WrittenInv
      <4> QED BY <3>1, <4>1 DEF WrittenInv
    <3>3. (NeverFused /\ RawInv /\ HoldersInv)'
      <4>1. step' # "render" BY <1>6
      <4> QED BY <3>1, <4>1 DEF NeverFused, RawInv, HoldersInv
    <3> QED BY <1>3, <1>4, <2>2, <3>2, <3>3 DEF SanitizeInv
  <2> QED BY <2>3, <2>4
<1>7. \/ step' = "done" /\ stmt' = stmt /\ out' = out
      \/ \E s \in current_statement :
           /\ stmt' = s /\ out' = (IF mode = "raw" THEN Pieces(s) ELSE << >>)
           /\ step' \in {"truncate", "lex", "done"} /\ (step' = "lex" => mode # "raw")
  BY DEF Extract
<1> QED BY <1>5, <1>6, <1>7

\* One token more.
LEMMA ScanTokenStep ==
  ASSUME SanitizeInv, ScanToken, text' = text
  PROVE  SanitizeInv'
<1>1. /\ range' = range /\ mode' = mode /\ step = "lex" /\ step' = step /\ stmt' = stmt
      /\ compactions' = compactions /\ UNCHANGED rendering
      /\ \E start \in 0 .. Len(stmt) - 1 : tokens' = Append(tokens, Token(start))
  BY DEF ScanToken
<1>2. PICK start \in 0 .. Len(stmt) - 1 : tokens' = Append(tokens, Token(start)) BY <1>1
<1>3. Token(start) \in TokensOf BY DEF TokensOf
<1>4. TokensOf' = TokensOf BY <1>1, SameTokens
<1>5. tokens' \in Seq(TokensOf') /\ Len(tokens') \in Nat
  <2>1. tokens \in Seq(TokensOf) BY DEF SanitizeInv, LexInv
  <2> HIDE DEF TokensOf
  <2>2. tokens' \in Seq(TokensOf) BY <1>2, <1>3, <2>1, AppendProperties
  <2> QED BY <1>4, <2>2, LenProperties
<1>6. /\ out = << >> /\ compactions = << >> /\ token_index = 1 /\ compaction_index = 1
  BY <1>1 DEF SanitizeInv, ListInv, WrittenInv
<1>7. GivenInv' BY <1>1 DEF SanitizeInv, GivenInv, Plain
<1>8. LexInv' BY <1>1, <1>5 DEF SanitizeInv, LexInv, Plain, WholeCharacters
<1>9. ListInv'
  <2>1. compactions' \in Seq(Ranges(Len(tokens'))) /\ Len(compactions') = 0 BY <1>1, <1>6
  <2>2. Apart(compactions') BY <2>1 DEF Apart
  <2> QED BY <1>1, <1>5, <1>6, <2>1, <2>2 DEF ListInv, rendering
<1>10. WrittenInv' BY <1>1 DEF SanitizeInv, WrittenInv, rendering
<1>11. (NeverFused /\ RawInv /\ HoldersInv)'
  <2>1. Len(out') = 0 /\ step' # "render" BY <1>1, <1>6 DEF rendering
  <2> QED BY <2>1 DEF NeverFused, RawInv, HoldersInv
<1> QED BY <1>7, <1>8, <1>9, <1>10, <1>11 DEF SanitizeInv

\* The first placeholder is above the numbers of all parameters, if there is a number
\* above them.
LEMMA FirstAbove ==
  ASSUME SanitizeInv
  PROVE  /\ HighestParam \in Nat /\ FirstPlaceholder \in 1 .. MAX_PLACEHOLDER
         /\ HighestParam < MAX_PLACEHOLDER => FirstPlaceholder = HighestParam + 1
         /\ \A k \in 1 .. Len(tokens) : HighestParam >= tokens[k].code.number
<1> DEFINE S == {0} \cup {tokens[k].code.number : k \in 1 .. Len(tokens)}
<1>1. \A k \in 1 .. Len(tokens) : tokens[k].code.number \in 0 .. MAX_PLACEHOLDER
  <2>1. \A k \in 1 .. Len(tokens) : tokens[k] \in TokensOf
    BY ElementOfSeq DEF SanitizeInv, LexInv
  <2>2. \A t \in TokensOf : t.code.number \in 0 .. MAX_PLACEHOLDER
    BY TokenIs DEF SanitizeInv, LexInv
  <2> QED BY <2>1, <2>2
<1>2. S \subseteq 0 .. MAX_PLACEHOLDER /\ 0 \in S /\ MAX_PLACEHOLDER \in Nat \ {0}
  BY <1>1, SanitizeAssumption
<1>3. \A k \in 1 .. Len(tokens) : tokens[k].code.number \in S OBVIOUS
<1>4. HighestParam = Max(S) BY DEF HighestParam
<1> HIDE DEF S
<1>5. IsFiniteSet(S)
  <2> DEFINE bottom == 0
  <2>0. bottom \in Int /\ MAX_PLACEHOLDER \in Int /\ S \subseteq bottom .. MAX_PLACEHOLDER BY <1>2
  <2> HIDE DEF bottom
  <2>1. IsFiniteSet(bottom .. MAX_PLACEHOLDER) BY <2>0, FS_Interval
  <2> QED BY <2>0, <2>1, FS_Subset
<1>6. \A x \in S : x \in Int BY <1>2
<1>7. Max(S) \in S /\ \A x \in S : Max(S) >= x BY <1>2, <1>5, <1>6, MinMax
<1>8. HighestParam \in 0 .. MAX_PLACEHOLDER BY <1>2, <1>4, <1>7
<1>9. \A k \in 1 .. Len(tokens) : HighestParam >= tokens[k].code.number BY <1>3, <1>4, <1>7
<1>10. FirstPlaceholder = Saturated(HighestParam + 1) BY DEF FirstPlaceholder
<1> QED BY <1>2, <1>8, <1>9, <1>10 DEF Saturated

\* The text is read: the lists to shorten are found, and the first placeholder.
LEMMA EndOfInputStep ==
  ASSUME SanitizeInv, EndOfInput, text' = text
  PROVE  SanitizeInv'
<1>1. /\ range' = range /\ mode' = mode /\ step = "lex" /\ step' = "render" /\ stmt' = stmt
      /\ tokens' = tokens /\ out' = out /\ token_index' = token_index
      /\ compaction_index' = compaction_index /\ next_placeholder' = FirstPlaceholder
      /\ compactions' = NonOverlapping(Compactions)
  BY DEF EndOfInput
<1>2. /\ out = << >> /\ token_index = 1 /\ compaction_index = 1
  BY <1>1 DEF SanitizeInv, ListInv, WrittenInv
<1>3. TokensOf' = TokensOf BY <1>1, SameTokens
<1>4. Len(tokens) \in Nat BY LenProperties DEF SanitizeInv, LexInv
<1>5. compactions' \in Seq(Ranges(Len(tokens))) /\ Apart(compactions')
  <2>1. Compactions \subseteq Ranges(Len(tokens)) /\ IsFiniteSet(Compactions)
    BY <1>4, CompactionsAreRanges
  <2> DEFINE found == Compactions
  <2> HIDE DEF found
  <2>2. NonOverlapping(found) \in Seq(found) /\ Apart(NonOverlapping(found))
    BY <1>4, <2>1, KeptAreFound DEF found
  <2>3. NonOverlapping(found) \in Seq(Ranges(Len(tokens)))
    BY <2>1, <2>2, SeqMonotonic DEF found
  <2> QED BY <1>1, <2>2, <2>3 DEF found
<1>6. GivenInv' BY <1>1 DEF SanitizeInv, GivenInv, Plain
<1>7. LexInv' BY <1>1, <1>3 DEF SanitizeInv, LexInv, Plain, WholeCharacters
<1>8. ListInv'
  <2>1. Len(compactions') \in Nat BY <1>5, LenProperties
  <2>2. 1 <= Len(compactions') => 1 <= compactions'[1].start
    <3>1. 1 <= Len(compactions') => compactions'[1] \in Ranges(Len(tokens))
      BY <1>5, <2>1, ElementOfSeq
    <3> QED BY <3>1, <1>4 DEF Ranges
  <2> QED BY <1>1, <1>2, <1>4, <1>5, <2>1, <2>2 DEF ListInv
<1>9. /\ HighestParam \in Nat /\ FirstPlaceholder \in 1 .. MAX_PLACEHOLDER
      /\ HighestParam < MAX_PLACEHOLDER => FirstPlaceholder = HighestParam + 1
      /\ \A k \in 1 .. Len(tokens) : HighestParam >= tokens[k].code.number
  BY FirstAbove
<1>10. WrittenInv' BY <1>1, <1>2, <1>9 DEF SanitizeInv, WrittenInv
<1>11. (NeverFused /\ RawInv)'
  <2>1. Len(out') = 0 BY <1>1, <1>2
  <2> QED BY <2>1 DEF NeverFused, RawInv
<1>12. HoldersInv'
  <2> DEFINE all == Constants(1, Len(tokens) + 1)
  <2>1. Len(out') = 0 BY <1>1, <1>2
  <2>2. (NumbersFit' <=> NumbersFit) /\ Unnumbered' = all
    BY <1>1, <1>2 DEF NumbersFit, HighestParam, Unnumbered, Constants
  <2>3. all \in Nat
    <3> DEFINE end == Len(tokens) + 1
    <3>1. 1 \in Int /\ end \in Int /\ 1 <= 1 /\ 1 <= end BY <1>4
    <3> HIDE DEF end
    <3>2. Constants(1, end) \in Nat BY <3>1, ConstantsSplit
    <3> QED BY <3>2 DEF end
  <2> HIDE DEF all
  <2>4. ASSUME NumbersFit, all # 0
        PROVE  /\ FirstPlaceholder + all <= MAX_PLACEHOLDER + 1
               /\ \A k \in 1 .. Len(tokens) : FirstPlaceholder > tokens[k].code.number
    <3>1. HighestParam + all <= MAX_PLACEHOLDER BY <2>4 DEF NumbersFit, all
    <3>2. MAX_PLACEHOLDER \in Nat BY SanitizeAssumption
    <3>3. FirstPlaceholder = HighestParam + 1 BY <1>9, <2>3, <2>4, <3>1, <3>2
    <3>4. ASSUME NEW k \in 1 .. Len(tokens) PROVE FirstPlaceholder > tokens[k].code.number
      <4>1. tokens[k] \in TokensOf BY ElementOfSeq DEF SanitizeInv, LexInv
      <4>2. tokens[k].code.number \in Int BY <4>1, TokenIs DEF SanitizeInv, LexInv
      <4>3. HighestParam >= tokens[k].code.number BY <1>9
      <4> QED BY <1>9, <3>3, <4>2, <4>3
    <3> QED BY <1>9, <2>3, <3>1, <3>2, <3>3, <3>4
  <2> QED BY <1>1, <2>1, <2>2, <2>4 DEF HoldersInv
<1> QED BY <1>6, <1>7, <1>8, <1>10, <1>11, <1>12 DEF SanitizeInv

\* A list is shortened to a mark, and its literals' placeholders are left out.
LEMMA CompactStep ==
  ASSUME SanitizeInv, Compact, text' = text
  PROVE  SanitizeInv'
<1> DEFINE c == compactions[compaction_index]
           more == Piece("more", c.additional)
           n == Len(out)
<1>1. /\ range' = range /\ mode' = mode /\ step = "render" /\ step' = step /\ stmt' = stmt
      /\ tokens' = tokens /\ compactions' = compactions
      /\ compaction_index' = compaction_index + 1 /\ token_index' = c.end
      /\ compaction_index <= Len(compactions) /\ token_index = c.start
  BY DEF Compact, AtCompaction
<1>2. /\ out' = Append(out, more)
      /\ next_placeholder' = Saturated(next_placeholder + Constants(c.start, c.end))
  BY DEF Compact
<1>3. /\ compactions \in Seq(Ranges(Len(tokens))) /\ Apart(compactions)
      /\ compaction_index \in 1 .. Len(compactions) + 1 /\ Len(compactions) \in Nat
      /\ tokens \in Seq(TokensOf) /\ Len(tokens) \in Nat
      /\ out \in Seq(PieceType) /\ n \in Nat /\ next_placeholder \in 1 .. MAX_PLACEHOLDER
      /\ MAX_PLACEHOLDER \in Nat \ {0}
  BY LenProperties, SanitizeAssumption DEF SanitizeInv, LexInv, ListInv, WrittenInv
<1>4. c \in Ranges(Len(tokens)) /\ compaction_index \in 1 .. Len(compactions)
  <2>1. compaction_index \in 1 .. Len(compactions) BY <1>1, <1>3
  <2> QED BY <1>3, <2>1, ElementOfSeq
<1>5. /\ c.start \in 1 .. Len(tokens) /\ c.end \in 1 .. Len(tokens) + 1
      /\ c.start < c.end /\ c.additional \in Nat
  BY <1>4 DEF Ranges
<1>6. /\ Constants(c.start, c.end) \in Nat /\ Constants(c.end, Len(tokens) + 1) \in Nat
      /\ Constants(c.start, Len(tokens) + 1) =
           Constants(c.start, c.end) + Constants(c.end, Len(tokens) + 1)
  <2> DEFINE a == c.start
             b == c.end
             end == Len(tokens) + 1
  <2>1. a \in Int /\ b \in Int /\ end \in Int /\ a <= b /\ b <= end BY <1>3, <1>5
  <2> HIDE DEF a, b, end
  <2>2. /\ Constants(a, b) \in Nat /\ Constants(b, end) \in Nat
        /\ Constants(a, end) = Constants(a, b) + Constants(b, end)
    BY <2>1, ConstantsSplit
  <2> QED BY <2>2 DEF a, b, end
<1>7. more \in PieceType /\ more.w = "more" BY <1>5 DEF Piece, PieceType, Byte
<1> HIDE DEF more, c
<1>8. /\ out' \in Seq(PieceType) /\ Len(out') = n + 1
      /\ \A k \in 1 .. n : out'[k] = out[k]
      /\ out'[n + 1].w = "more"
  BY <1>2, <1>3, <1>7, AppendProperties
<1>9. next_placeholder' \in 1 .. MAX_PLACEHOLDER /\ next_placeholder <= next_placeholder'
  <2> DEFINE total == next_placeholder + Constants(c.start, c.end)
  <2>1. total \in Nat /\ next_placeholder <= total BY <1>3, <1>6
  <2>2. next_placeholder' = Saturated(total) BY <1>2
  <2> HIDE DEF total
  <2> QED BY <1>3, <2>1, <2>2 DEF Saturated
<1>10. TokensOf' = TokensOf BY <1>1, SameTokens
<1>11. GivenInv' BY <1>1 DEF SanitizeInv, GivenInv, Plain
<1>12. LexInv' BY <1>1, <1>10 DEF SanitizeInv, LexInv, Plain, WholeCharacters
<1>13. ListInv'
  <2>1. compaction_index + 1 <= Len(compactions) =>
          c.end <= compactions[compaction_index + 1].start
    <3>1. compaction_index + 1 <= Len(compactions) => compaction_index \in 1 .. Len(compactions) - 1
      BY <1>3
    <3> QED BY <1>3, <3>1 DEF Apart, c
  <2>2. compaction_index + 1 \in 1 .. Len(compactions) + 1 BY <1>3, <1>4
  <2>3. c.end \in 1 .. Len(tokens) + 1 BY <1>5
  <2> QED BY <1>1, <1>3, <2>1, <2>2, <2>3 DEF ListInv
<1> HIDE DEF n
<1>14. ASSUME NEW k \in 1 .. Len(out')
       PROVE  \/ k \in 1 .. n /\ out'[k] = out[k]
              \/ k = n + 1 /\ out'[k].w = "more"
  BY <1>3, <1>8
<1>15. WrittenInv'
  <2>1. ASSUME NEW k \in 1 .. Len(out'), out'[k].w = "e1"
        PROVE  k < Len(out') /\ out'[k + 1].w = "e2"
    <3>1. k \in 1 .. n /\ out'[k] = out[k] BY <1>14, <2>1
    <3>2. k < n /\ out[k + 1].w = "e2" BY <2>1, <3>1 DEF SanitizeInv, WrittenInv, n
    <3>3. k + 1 \in 1 .. n /\ k < Len(out') BY <1>3, <1>8, <3>1, <3>2
    <3> QED BY <1>8, <3>2, <3>3
  <2>2. ASSUME NEW k \in 1 .. Len(out'), out'[k].w = "e2", k > 1
        PROVE  out'[k - 1].w # "e2"
    <3>1. k \in 1 .. n /\ out'[k] = out[k] BY <1>14, <2>2
    <3>2. out[k - 1].w # "e2" BY <2>2, <3>1 DEF SanitizeInv, WrittenInv, n
    <3>3. k - 1 \in 1 .. n BY <1>3, <2>2, <3>1
    <3> QED BY <1>8, <3>2, <3>3
  <2>3. step' \notin {"extract", "lex"} BY <1>1
  <2> QED BY <1>8, <1>9, <2>1, <2>2, <2>3 DEF WrittenInv
<1>16. NeverFused'
  <2> SUFFICES ASSUME mode' = "normalized", NEW k \in 1 .. Len(out') - 1,
                      IsWord(out'[k].w), IsWord(out'[k + 1].w)
               PROVE  out'[k].w = "e1" /\ out'[k + 1].w = "e2"
    BY DEF NeverFused
  <2>1. ~IsWord("more") BY DEF IsWord, Punctuation
  <2>2. k + 1 # n + 1 BY <1>8, <2>1
  <2>3. k \in 1 .. n /\ k + 1 \in 1 .. n /\ k \in 1 .. n - 1 BY <1>3, <1>8, <2>2
  <2>4. out'[k] = out[k] /\ out'[k + 1] = out[k + 1] BY <1>8, <2>3
  <2>5. IsWord(out[k].w) /\ IsWord(out[k + 1].w) BY <2>4
  <2>6. k \in 1 .. Len(out) - 1 /\ mode = "normalized" BY <1>1, <2>3 DEF n
  <2>7. out[k].w = "e1" /\ out[k + 1].w = "e2" BY <2>5, <2>6 DEF SanitizeInv, NeverFused
  <2> QED BY <2>4, <2>7
<1>17. RawInv'
  <2> SUFFICES ASSUME mode' = "normalized", NEW k \in 1 .. Len(out') PROVE out'[k].w # "lit"
    BY DEF RawInv
  <2>1. CASE k \in 1 .. n /\ out'[k] = out[k] BY <1>1, <2>1 DEF SanitizeInv, RawInv, n
  <2> QED BY <1>14, <2>1
<1>18. HoldersInv'
  <2> DEFINE skipped == Constants(c.start, c.end)
             before == Unnumbered
             after == Unnumbered'
  <2>1. skipped \in Nat /\ after \in Nat /\ before = skipped + after
    <3>1. before = Constants(c.start, Len(tokens) + 1) BY <1>1 DEF Unnumbered
    <3>2. after = Constants(c.end, Len(tokens) + 1) BY <1>1 DEF Unnumbered, Constants
    <3> QED BY <1>6, <3>1, <3>2
  <2> SUFFICES ASSUME mode = "normalized", NumbersFit PROVE HoldersInv'
    <3>1. NumbersFit' <=> NumbersFit BY <1>1 DEF NumbersFit, HighestParam, Constants
    <3> QED BY <1>1, <3>1 DEF HoldersInv
  <2>2. /\ \A j \in 1 .. n : out[j].w = "$" =>
             /\ before # 0 => out[j].n < next_placeholder
             /\ \A k \in 1 .. n : k # j /\ out[k].w = "$" => out[k].n # out[j].n
             /\ \A k \in 1 .. Len(tokens) : out[j].n > tokens[k].code.number
        /\ before # 0 =>
             /\ next_placeholder + before <= MAX_PLACEHOLDER + 1
             /\ \A k \in 1 .. Len(tokens) : next_placeholder > tokens[k].code.number
    BY <1>1 DEF SanitizeInv, HoldersInv, n
  <2>3. next_placeholder' = Saturated(next_placeholder + skipped) BY <1>2
  <2> HIDE DEF skipped, before, after
  <2>4. after # 0 => before # 0 BY <2>1
  <2>5. ASSUME after # 0 PROVE next_placeholder' + after <= MAX_PLACEHOLDER + 1
    <3>1. next_placeholder + before <= MAX_PLACEHOLDER + 1 BY <2>2, <2>4, <2>5
    <3>2. next_placeholder + skipped <= MAX_PLACEHOLDER BY <1>3, <2>1, <2>5, <3>1
    <3>3. next_placeholder' = next_placeholder + skipped BY <1>3, <2>1, <2>3, <3>2 DEF Saturated
    <3> QED BY <1>3, <2>1, <3>1, <3>3
  <2>6. ASSUME NEW j \in 1 .. Len(out'), out'[j].w = "$"
        PROVE  j \in 1 .. n /\ out'[j] = out[j] /\ out[j].n \in Int /\ out[j].w = "$"
    <3>1. j \in 1 .. n /\ out'[j] = out[j] BY <1>14, <2>6
    <3>2. out[j] \in PieceType BY <1>3, <3>1, ElementOfSeq DEF n
    <3> QED BY <2>6, <3>1, <3>2 DEF PieceType
  <2>7. ASSUME NEW j \in 1 .. Len(out'), out'[j].w = "$", after # 0
        PROVE  out'[j].n < next_placeholder'
    <3>1. out[j].n < next_placeholder BY <2>2, <2>4, <2>6, <2>7
    <3> QED BY <1>3, <1>9, <2>6, <2>7, <3>1
  <2>8. ASSUME NEW j \in 1 .. Len(out'), NEW k \in 1 .. Len(out'), k # j,
               out'[j].w = "$", out'[k].w = "$"
        PROVE  out'[k].n # out'[j].n
    BY <2>2, <2>6, <2>8
  <2>9. ASSUME NEW j \in 1 .. Len(out'), out'[j].w = "$", NEW k \in 1 .. Len(tokens)
        PROVE  out'[j].n > tokens[k].code.number
    BY <2>2, <2>6, <2>9
  <2>10. ASSUME after # 0, NEW k \in 1 .. Len(tokens)
         PROVE  next_placeholder' > tokens[k].code.number
    <3>1. next_placeholder > tokens[k].code.number BY <2>2, <2>4, <2>10
    <3>2. tokens[k] \in TokensOf BY <1>3, ElementOfSeq
    <3>3. tokens[k].code.number \in Int BY <3>2, TokenIs DEF SanitizeInv, LexInv
    <3> QED BY <1>3, <1>9, <3>1, <3>3
  <2> QED BY <1>1, <2>5, <2>7, <2>8, <2>9, <2>10 DEF HoldersInv, after
<1> QED BY <1>11, <1>12, <1>13, <1>15, <1>16, <1>17, <1>18 DEF SanitizeInv

\* A token is rendered.
LEMMA EmitStep ==
  ASSUME SanitizeInv, Emit, text' = text
  PROVE  SanitizeInv'
<1>1. /\ range' = range /\ mode' = mode /\ step = "render" /\ step' = step /\ stmt' = stmt
      /\ tokens' = tokens /\ compactions' = compactions
      /\ compaction_index' = compaction_index /\ token_index' = token_index + 1
      /\ token_index <= Len(tokens)
      /\ ~(compaction_index <= Len(compactions) /\ token_index = compactions[compaction_index].start)
  BY DEF Emit, AtCompaction
<1>2. TokensOf' = TokensOf BY <1>1, SameTokens
<1>3. GivenInv' BY <1>1 DEF SanitizeInv, GivenInv, Plain
<1>4. LexInv' BY <1>1, <1>2 DEF SanitizeInv, LexInv, Plain, WholeCharacters
<1>5. ListInv'
  <2>1. /\ compactions \in Seq(Ranges(Len(tokens))) /\ Len(compactions) \in Nat
        /\ Len(tokens) \in Nat /\ token_index \in 1 .. Len(tokens) + 1
        /\ compaction_index \in 1 .. Len(compactions) + 1
        /\ compaction_index <= Len(compactions) =>
             token_index <= compactions[compaction_index].start
    BY LenProperties DEF SanitizeInv, LexInv, ListInv
  <2>2. ASSUME compaction_index <= Len(compactions)
        PROVE  token_index + 1 <= compactions[compaction_index].start
    <3>1. compaction_index \in 1 .. Len(compactions) BY <2>1, <2>2
    <3>2. compactions[compaction_index] \in Ranges(Len(tokens)) BY <2>1, <3>1, ElementOfSeq
    <3>3. compactions[compaction_index].start \in Int BY <3>2 DEF Ranges
    <3> QED BY <1>1, <2>1, <2>2, <3>3
  <2>3. token_index + 1 \in 1 .. Len(tokens) + 1 BY <1>1, <2>1
  <2> QED BY <1>1, <2>2, <2>3 DEF SanitizeInv, ListInv
<1> QED BY <1>3, <1>4, <1>5, EmitWrites DEF SanitizeInv

\* The sanitizing of the text keeps its invariant.
LEMMA InitSanitizeInv == ASSUME Init PROVE SanitizeInv
<1>1. PICK x \in Inputs : text = x.text /\ range = x.range BY DEF Init
<1>2. GivenInv
  <2>1. x.text \in Seq(STRING) /\ x.range \in Int \X Int
        /\ \A k \in 1 .. Len(x.text) : x.text[k] # "$"
    BY InputAssumption
  <2>2. STRING \subseteq Byte BY DEF Byte
  <2>3. x.text \in Seq(Byte) BY <2>1, <2>2, SeqMonotonic
  <2> QED BY <1>1, <2>1, <2>3 DEF GivenInv, Plain
<1>3. /\ step = "extract" /\ stmt = << >> /\ tokens = << >> /\ compactions = << >>
      /\ token_index = 1 /\ compaction_index = 1 /\ next_placeholder = 1 /\ out = << >>
  BY DEF Init, SanitizeInit
<1>4. Len(stmt) = 0 /\ Len(tokens) = 0 /\ Len(compactions) = 0 /\ Len(out) = 0 BY <1>3
<1>5. LexInv BY <1>3, <1>4 DEF LexInv, Plain, WholeCharacters
<1>6. ListInv BY <1>3, <1>4 DEF ListInv, Apart
<1>7. WrittenInv BY <1>3, <1>4, SanitizeAssumption DEF WrittenInv
<1>8. NeverFused /\ RawInv /\ HoldersInv BY <1>3, <1>4 DEF NeverFused, RawInv, HoldersInv
<1> QED BY <1>2, <1>5, <1>6, <1>7, <1>8 DEF SanitizeInv

\* Every step of the two scans keeps what is known of the sanitizing.
LEMMA SanitizeStep == SanitizeInv /\ [Next]_vars => SanitizeInv'
<1> SUFFICES ASSUME SanitizeInv, [Next]_vars PROVE SanitizeInv' OBVIOUS
<1>1. CASE text' = text /\ UNCHANGED sanitizeVars
  <2>1. TokensOf' = TokensOf BY <1>1, SameTokens DEF sanitizeVars
  <2>2. GivenInv' BY <1>1 DEF SanitizeInv, GivenInv, Plain, sanitizeVars
  <2>3. LexInv' BY <1>1, <2>1 DEF SanitizeInv, LexInv, Plain, WholeCharacters, sanitizeVars
  <2>4. ListInv' BY <1>1 DEF SanitizeInv, ListInv, Apart, Ranges, sanitizeVars, rendering
  <2>5. WrittenInv' BY <1>1 DEF SanitizeInv, WrittenInv, sanitizeVars, rendering
  <2>6. NeverFused' BY <1>1 DEF SanitizeInv, NeverFused, sanitizeVars, rendering
  <2>7. RawInv' BY <1>1 DEF SanitizeInv, RawInv, sanitizeVars, rendering
  <2>8. HoldersInv'
    BY <1>1 DEF SanitizeInv, HoldersInv, NumbersFit, HighestParam, Unnumbered, Constants,
                sanitizeVars, rendering
  <2> QED BY <2>2, <2>3, <2>4, <2>5, <2>6, <2>7, <2>8 DEF SanitizeInv
<1>2. CASE SanitizeNext /\ text' = text
  <2>1. CASE Extract BY <1>2, <2>1, ExtractStep
  <2>2. CASE ScanToken BY <1>2, <2>2, ScanTokenStep
  <2>3. CASE ScanFails
    <3>1. /\ range' = range /\ mode' = mode /\ stmt' = stmt /\ tokens' = tokens
          /\ compactions' = compactions /\ UNCHANGED rendering /\ step' = "done"
      BY <2>3 DEF ScanFails
    <3> QED BY <1>2, <3>1, SameFindings
  <2>4. CASE EndOfInput BY <1>2, <2>4, EndOfInputStep
  <2>5. CASE Compact BY <1>2, <2>5, CompactStep
  <2>6. CASE Emit BY <1>2, <2>6, EmitStep
  <2>7. CASE RenderEnd
    <3>1. /\ range' = range /\ mode' = mode /\ stmt' = stmt /\ tokens' = tokens
          /\ compactions' = compactions /\ UNCHANGED rendering /\ step' = "truncate"
          /\ token_index > Len(tokens)
      BY <2>7 DEF RenderEnd
    <3>2. token_index = Len(tokens) + 1
      <4>1. Len(tokens) \in Nat /\ token_index \in 1 .. Len(tokens) + 1
        BY LenProperties DEF SanitizeInv, LexInv, ListInv
      <4> QED BY <3>1, <4>1
    <3> QED BY <1>2, <3>1, <3>2, SameFindings
  <2>8. CASE Truncate
    <3>1. /\ range' = range /\ mode' = mode /\ stmt' = stmt /\ tokens' = tokens
          /\ compactions' = compactions /\ UNCHANGED rendering /\ step' = "done"
      BY <2>8 DEF Truncate
    <3> QED BY <1>2, <3>1, SameFindings
  <2> QED BY <1>2, <2>1, <2>2, <2>3, <2>4, <2>5, <2>6, <2>7, <2>8 DEF SanitizeNext
<1> QED BY <1>1, <1>2 DEF Next, vars, DecideParent, FromQuery, Finished

\* What is known of the sanitizing holds in every state.
LEMMA AlwaysSanitize == Spec => []SanitizeInv
BY InitSanitizeInv, SanitizeStep, PTL DEF Spec

----------------------------------------------------------------------------
(* What is exported. *)

\* Where the text is cut: nowhere inside a character, and no earlier than that takes.
LEMMA CutIs ==
  ASSUME SanitizeInv
  PROVE  /\ truncate_utf8 \in 0 .. Len(out) /\ truncate_utf8 <= MAX_LEN
         /\ truncate_utf8 = Len(out) \/ truncate_utf8 >= MAX_LEN - 1
         /\ \/ truncate_utf8 \in {0, Len(out)}
            \/ truncate_utf8 < Len(out) /\ out[truncate_utf8 + 1].w # "e2"
<1> DEFINE S == {end \in 0 .. MAX_LEN : end = 0 \/ out[end + 1].w # "e2"}
<1>1. Len(out) \in Nat /\ MAX_LEN \in Nat
  BY LenProperties, SanitizeAssumption DEF SanitizeInv, WrittenInv
<1>2. CASE Len(out) <= MAX_LEN
  <2>1. truncate_utf8 = Len(out) BY <1>2 DEF truncate_utf8
  <2> QED BY <1>1, <1>2, <2>1
<1>3. CASE Len(out) > MAX_LEN
  <2>1. truncate_utf8 = Max(S) BY <1>1, <1>3 DEF truncate_utf8
  <2>2. \A x \in S : x \in 0 .. MAX_LEN /\ x \in Int BY <1>1
  <2>3. 0 \in S BY <1>1
  <2>4. IsFiniteSet(S)
    <3> DEFINE bottom == 0
    <3>1. bottom \in Int /\ MAX_LEN \in Int /\ S \subseteq bottom .. MAX_LEN BY <1>1
    <3> HIDE DEF bottom, S
    <3>2. IsFiniteSet(bottom .. MAX_LEN) BY <3>1, FS_Interval
    <3> QED BY <3>1, <3>2, FS_Subset
  <2>5. MAX_LEN \in S \/ (MAX_LEN > 0 /\ MAX_LEN - 1 \in S)
    <3> SUFFICES ASSUME MAX_LEN \notin S PROVE MAX_LEN > 0 /\ MAX_LEN - 1 \in S OBVIOUS
    <3>1. MAX_LEN > 0 /\ out[MAX_LEN + 1].w = "e2" BY <1>1
    <3>2. MAX_LEN + 1 \in 1 .. Len(out) /\ MAX_LEN + 1 > 1 /\ MAX_LEN + 1 - 1 = MAX_LEN
      BY <1>1, <1>3, <3>1
    <3>3. out[MAX_LEN].w # "e2"
      <4> DEFINE k == MAX_LEN + 1
      <4>1. k \in 1 .. Len(out) /\ k > 1 /\ k - 1 = MAX_LEN BY <1>1, <1>3, <3>1
      <4>2. out[k].w = "e2" BY <3>1
      <4> HIDE DEF k
      <4>3. out[k - 1].w # "e2" BY <4>1, <4>2 DEF SanitizeInv, WrittenInv
      <4> QED BY <4>1, <4>3
    <3>4. MAX_LEN - 1 \in 0 .. MAX_LEN /\ MAX_LEN - 1 + 1 = MAX_LEN BY <1>1, <3>1
    <3> QED BY <3>1, <3>3, <3>4
  <2>6. ASSUME NEW x \in S PROVE x = 0 \/ out[x + 1].w # "e2" OBVIOUS
  <2> HIDE DEF S
  <2>7. Max(S) \in S /\ \A x \in S : Max(S) >= x BY <2>2, <2>3, <2>4, MinMax
  <2>8. Max(S) \in 0 .. MAX_LEN BY <2>2, <2>7
  <2>9. Max(S) >= MAX_LEN - 1 BY <1>1, <2>5, <2>7, <2>8
  <2>10. Max(S) = 0 \/ out[Max(S) + 1].w # "e2" BY <2>6, <2>7
  <2>11. Max(S) \in 0 .. Len(out) /\ Max(S) < Len(out) BY <1>1, <1>3, <2>8
  <2> QED BY <1>1, <2>1, <2>8, <2>9, <2>10, <2>11
<1> QED BY <1>1, <1>2, <1>3

\* What is exported, at most one text, is what was written up to the cut.
ExportInv ==
  /\ exported = {} \/ (step = "done" /\ \E p : exported = {p})
  /\ NothingRaw /\ CutAtCharacter

\* What is left by the cut.
LEMMA CutOff ==
  ASSUME SanitizeInv
  PROVE  LET t == truncate_utf8
             p == SubSeq(out, 1, t)
         IN  /\ p \in Seq(PieceType) /\ Len(p) = t /\ Len(p) <= Len(out)
             /\ \A k \in 1 .. t : p[k] = out[k]
<1> DEFINE t == truncate_utf8
           p == SubSeq(out, 1, t)
<1>2. t \in 0 .. Len(out) BY CutIs
<1>3. out \in Seq(PieceType) /\ Len(out) \in Nat
  BY LenProperties DEF SanitizeInv, WrittenInv
<1> HIDE DEF t
<1>4. /\ p \in Seq(PieceType) /\ Len(p) = t
      /\ \A k \in 1 .. t : p[k] = out[k]
  <2>1. \A k \in 1 .. t : out[k] \in PieceType
    <3>1. \A k \in 1 .. t : k \in 1 .. Len(out) BY <1>2, <1>3
    <3> QED BY <1>3, <3>1, ElementOfSeq
  <2> DEFINE one == 1
  <2>2. one \in Int /\ t \in Int /\ one = 1 BY <1>2, <1>3
  <2> HIDE DEF one
  <2>3. \A k \in one .. t : out[k] \in PieceType BY <2>1, <2>2
  <2>4. /\ SubSeq(out, one, t) \in Seq(PieceType)
        /\ Len(SubSeq(out, one, t)) = IF one <= t THEN t - one + 1 ELSE 0
        /\ \A k \in 1 .. t - one + 1 : SubSeq(out, one, t)[k] = out[one + k - 1]
    BY <2>2, <2>3, SubSeqProperties
  <2>5. t - one + 1 = t /\ \A k \in 1 .. t : one + k - 1 = k BY <1>2, <2>2
  <2>6. p = SubSeq(out, one, t) BY <2>2
  <2> HIDE DEF p
  <2>7. Len(p) = t
    <3>1. CASE t = 0 BY <2>2, <2>4, <2>6, <3>1
    <3>2. CASE t # 0
      <4>1. one <= t BY <1>2, <1>3, <2>2, <3>2
      <4> QED BY <2>4, <2>5, <2>6, <4>1
    <3> QED BY <3>1, <3>2
  <2>8. \A k \in 1 .. t : p[k] = out[k] BY <2>4, <2>5, <2>6
  <2> QED BY <2>4, <2>6, <2>7, <2>8
<1> HIDE DEF p
<1>5. Len(p) <= Len(out) BY <1>2, <1>3, <1>4
<1> QED BY <1>4, <1>5 DEF p, t

\* The cut makes a text of whole characters without literals.
LEMMA TruncateExport ==
  ASSUME SanitizeInv, Truncate
  PROVE  ExportInv'
<1> DEFINE t == truncate_utf8
           p == SubSeq(out, 1, t)
<1>1. exported' = {p} /\ step' = "done" /\ out' = out /\ mode' = mode
  BY DEF Truncate, rendering
<1>2. /\ t \in 0 .. Len(out) /\ t <= MAX_LEN
      /\ t = Len(out) \/ t >= MAX_LEN - 1
      /\ \/ t \in {0, Len(out)}
         \/ t < Len(out) /\ out[t + 1].w # "e2"
  BY CutIs
<1>3. out \in Seq(PieceType) /\ Len(out) \in Nat /\ MAX_LEN \in Nat
  BY LenProperties, SanitizeAssumption DEF SanitizeInv, WrittenInv
<1> HIDE DEF t
<1>4. /\ p \in Seq(PieceType) /\ Len(p) = t
      /\ \A k \in 1 .. t : p[k] = out[k]
  BY CutOff DEF t
<1>5. SubSeq(out, 1, Len(p)) = SubSeq(p, 1, Len(p))
  <2>1. SubSeq(out, 1, Len(p)) = p BY <1>4
  <2> HIDE DEF p
  <2>2. SubSeq(p, 1, Len(p)) = p BY <1>4, SubSeqFull
  <2> QED BY <2>1, <2>2
<1> HIDE DEF p
<1>6. IsPrefix(p, out) BY <1>2, <1>3, <1>4, <1>5 DEF IsPrefix
<1>7. p # << >> => Last(p).w # "e1"
  <2> SUFFICES ASSUME p # << >>, p[t].w = "e1" PROVE FALSE BY <1>4 DEF Last
  <2>1. t # 0 BY <1>4, EmptySeq
  <2>2. t \in 1 .. t /\ t \in 1 .. Len(out) BY <1>2, <1>3, <2>1
  <2>3. out[t].w = "e1" BY <1>4, <2>2
  <2>4. t < Len(out) /\ out[t + 1].w = "e2" BY <2>2, <2>3 DEF SanitizeInv, WrittenInv
  <2> QED BY <1>2, <2>1, <2>4
<1>8. Len(p) >= Min({Len(out), MAX_LEN - 1})
  <2> DEFINE a == Len(out)
             b == MAX_LEN - 1
             S == {a, b}
  <2>1. a \in Int /\ b \in Int BY <1>3
  <2>2. IsFiniteSet({a} \cup {b}) BY FS_Singleton, FS_AddElement
  <2>3. S = {a} \cup {b} OBVIOUS
  <2>4. IsFiniteSet(S) BY <2>2, <2>3
  <2>5. \A x \in S : x \in Int BY <2>1
  <2>6. a \in S /\ b \in S OBVIOUS
  <2> HIDE DEF S, a, b
  <2>7. Min(S) \in S /\ \A x \in S : Min(S) <= x BY <2>4, <2>5, <2>6, MinMax
  <2>8. Min(S) <= a /\ Min(S) <= b /\ Min(S) \in Int BY <2>5, <2>6, <2>7
  <2>9. t = a \/ t >= b BY <1>2 DEF a, b
  <2>10. t >= Min(S) BY <1>2, <1>3, <2>1, <2>8, <2>9
  <2> QED BY <1>4, <2>10 DEF S, a, b
<1>9. CutAtCharacter'
  <2>1. Len(p) <= MAX_LEN BY <1>2, <1>4
  <2> QED BY <1>1, <1>6, <1>7, <1>8, <2>1 DEF CutAtCharacter
<1>10. NothingRaw'
  <2> SUFFICES ASSUME mode = "normalized" PROVE "lit" \notin Words(p)
    BY <1>1 DEF NothingRaw
  <2>1. ASSUME NEW k \in 1 .. Len(p) PROVE p[k].w # "lit"
    <3>1. k \in 1 .. t /\ k \in 1 .. Len(out) BY <1>2, <1>3, <1>4
    <3> QED BY <1>4, <3>1 DEF SanitizeInv, RawInv
  <2> QED BY <2>1 DEF Words
<1> QED BY <1>1, <1>9, <1>10 DEF ExportInv

\* Nothing is exported before, and nothing happens behind.
LEMMA ExportStep == SanitizeInv /\ ExportInv /\ [Next]_vars => ExportInv'
<1> SUFFICES ASSUME SanitizeInv, ExportInv, [Next]_vars PROVE ExportInv' OBVIOUS
<1>1. CASE Truncate BY <1>1, TruncateExport
<1>2. CASE UNCHANGED sanitizeVars
  BY <1>2 DEF ExportInv, NothingRaw, CutAtCharacter, sanitizeVars, rendering
<1>3. CASE step # "done" /\ exported' = exported
  <2>1. exported' = {} BY <1>3 DEF ExportInv
  <2> QED BY <2>1 DEF ExportInv, NothingRaw, CutAtCharacter
<1>4. UNCHANGED sanitizeVars \/ SanitizeNext
  BY DEF Next, vars, DecideParent, FromQuery, Finished
<1>5. SanitizeNext => Truncate \/ (step # "done" /\ exported' = exported)
  BY DEF SanitizeNext, Extract, ScanToken, ScanFails, EndOfInput, Compact, Emit, RenderEnd
<1> QED BY <1>1, <1>2, <1>3, <1>4, <1>5

\* What is known of the exported text holds in every state.
LEMMA AlwaysExport == Spec => []ExportInv
<1>1. Init => ExportInv
  BY DEF Init, SanitizeInit, ExportInv, NothingRaw, CutAtCharacter
<1> QED BY <1>1, ExportStep, AlwaysSanitize, PTL DEF Spec

----------------------------------------------------------------------------
(* decide_parent: the scans stay inside the text. *)

\* A part of the text.
PartOfText == {s \in Seq(Byte) : Len(s) <= Len(text)}

\* Where the scans are, what is open, and the comments found.
ContextInv ==
  /\ Plain(text) /\ ContextTypeOK
  /\ open \in Seq(2 .. Len(text))
  /\ comments \in Seq(PartOfText) /\ rest \in PartOfText

\* The length of a prefix is one of the text's.
LEMMA SpansInside ==
  ASSUME NEW s \in Seq(Byte), NEW S
  PROVE  SpanOf(s, S) \in 0 .. Len(s) /\ SpanNotOf(s, S) \in 0 .. Len(s)
<1>1. Len(s) \in Nat BY LenProperties
<1>2. ASSUME NEW J \in SUBSET (1 .. Len(s)) PROVE Min(J \cup {Len(s) + 1}) - 1 \in 0 .. Len(s)
  <2> DEFINE T == J \cup {Len(s) + 1}
             one == 1
  <2>2. one = 1 /\ one \in Int /\ Len(s) + 1 \in Int /\ Len(s) + 1 \in T BY <1>1
  <2>3. \A x \in T : x \in 1 .. Len(s) + 1 /\ x \in Int BY <1>1
  <2> HIDE DEF T, one
  <2>1. T \subseteq one .. Len(s) + 1 BY <2>2, <2>3
  <2>4. IsFiniteSet(one .. Len(s) + 1) BY <2>2, FS_Interval
  <2>5. IsFiniteSet(T) BY <2>1, <2>4, FS_Subset
  <2>6. Min(T) \in T BY <2>2, <2>3, <2>5, MinMax
  <2>7. Min(T) \in 1 .. Len(s) + 1 BY <2>3, <2>6
  <2>8. Min(T) - 1 \in 0 .. Len(s) BY <1>1, <2>7
  <2> QED BY <2>8 DEF T
<1>3. SpanOf(s, S) \in 0 .. Len(s) BY <1>2 DEF SpanOf
<1>4. SpanNotOf(s, S) \in 0 .. Len(s) BY <1>2 DEF SpanNotOf
<1> QED BY <1>3, <1>4

\* A part of a part of the text is a part of the text.
LEMMA PartOfPart ==
  ASSUME Plain(text), NEW s \in PartOfText
  PROVE  /\ s \in Seq(Byte) /\ Len(s) \in Nat
         /\ \A from \in Nat, to \in Int : to <= Len(s) => Slice(s, from, to) \in PartOfText
         /\ \A from \in Nat : From(s, from) \in PartOfText
         /\ s # << >> => Tail(s) \in PartOfText
<1>1. /\ s \in Seq(Byte) /\ Len(s) \in Nat /\ Len(text) \in Nat /\ Len(s) <= Len(text)
  BY LenProperties DEF PartOfText, Plain
<1>2. ASSUME NEW from \in Nat, NEW to \in Int, to <= Len(s)
      PROVE  Slice(s, from, to) \in PartOfText
  <2>1. Slice(s, from, to) \in Seq(Byte) /\ Len(Slice(s, from, to)) <= Len(s)
    BY <1>1, <1>2, SliceIsText
  <2>2. Len(Slice(s, from, to)) \in Nat BY <2>1, LenProperties
  <2> QED BY <1>1, <2>1, <2>2 DEF PartOfText
<1>3. \A from \in Nat : From(s, from) \in PartOfText
  <2>1. Len(s) \in Int /\ Len(s) <= Len(s) BY <1>1
  <2> QED BY <1>2, <2>1 DEF From
<1>4. s # << >> => Tail(s) \in PartOfText
  <2> SUFFICES ASSUME s # << >> PROVE Tail(s) \in PartOfText OBVIOUS
  <2>1. Tail(s) \in Seq(Byte) /\ Len(Tail(s)) = Len(s) - 1 BY <1>1, HeadTailProperties
  <2> QED BY <1>1, <2>1 DEF PartOfText
<1> QED BY <1>1, <1>2, <1>3, <1>4

\* A set without two different members is small.
LEMMA AtMostOne ==
  ASSUME NEW S, \A x, y \in S : x = y
  PROVE  Cardinality(S) <= 1
<1>1. CASE S = {} BY <1>1, FS_EmptySet
<1>2. CASE S # {}
  <2>1. PICK x \in S : TRUE BY <1>2
  <2>2. S = {x} BY <2>1
  <2>3. Cardinality(S) = 1 BY <2>2, FS_Singleton
  <2> QED BY <2>3
<1> QED BY <1>1, <1>2

\* A value carries at most one context.
LEMMA OneContext ==
  ASSUME NEW value
  PROVE  Cardinality(parse_traceparent(value)) <= 1
<1>1. ASSUME NEW x \in parse_traceparent(value), NEW y \in parse_traceparent(value)
      PROVE  x = y
  <2>1. <<x>> = <<y>> BY DEF parse_traceparent
  <2> QED BY <2>1
<1> QED BY <1>1, AtMostOne

\* What follows a value is a part of the text.
LEMMA AfterValue ==
  ASSUME Plain(text), NEW s \in PartOfText
  PROVE  split_value(s).after \in PartOfText
<1>1. << >> \in PartOfText
  <2>1. Len(text) \in Nat BY LenProperties DEF Plain
  <2> QED BY <2>1, EmptySeq DEF PartOfText
<1>2. CASE At(s, 0) \in Quotes
  <2> DEFINE body == From(s, 1)
             end == SpanNotOf(body, {s[1]})
  <2>1. body \in PartOfText BY PartOfPart
  <2>2. body \in Seq(Byte) /\ Len(body) \in Nat BY <2>1, PartOfPart
  <2> HIDE DEF body
  <2>3. end \in 0 .. Len(body) BY <2>2, SpansInside
  <2> HIDE DEF end
  <2>4. end + 1 \in Nat BY <2>2, <2>3
  <2>5. From(body, end + 1) \in PartOfText BY <2>1, <2>4, PartOfPart
  <2>6. split_value(s).after \in {<< >>, From(body, end + 1)} BY <1>2 DEF split_value, body, end
  <2> QED BY <1>1, <2>5, <2>6
<1>3. CASE At(s, 0) \notin Quotes
  <2> DEFINE end == SpanNotOf(s, Separators)
  <2>1. s \in Seq(Byte) /\ Len(s) \in Nat BY PartOfPart
  <2>2. end \in 0 .. Len(s) BY <2>1, SpansInside
  <2> HIDE DEF end
  <2>3. end \in Nat BY <2>1, <2>2
  <2>4. From(s, end) \in PartOfText BY <2>3, PartOfPart
  <2>5. split_value(s).after = From(s, end) BY <1>3 DEF split_value, end
  <2> QED BY <2>4, <2>5
<1> QED BY <1>2, <1>3

\* Behind the first key of a part of the text, or the blanks before it, is a part of
\* the text.
LEMMA KeyedParts ==
  ASSUME Plain(text), NEW s \in PartOfText
  PROVE  AfterKey(s) \in PartOfText /\ BehindBlanks(s) \in PartOfText
<1>1. s \in Seq(Byte) /\ Len(s) \in Nat BY PartOfPart
<1> DEFINE end == SpanNotOf(s, Separators \cup Quotes \cup {"="})
<1>2. end \in 0 .. Len(s) BY <1>1, SpansInside
<1>3. Key(s) = Slice(s, 0, end) BY DEF Key
<1> HIDE DEF end
<1>4. Key(s) \in PartOfText BY <1>1, <1>2, <1>3, PartOfPart
<1>5. Len(Key(s)) \in Nat BY <1>4, PartOfPart
<1>6. AfterKey(s) \in PartOfText BY <1>5, PartOfPart DEF AfterKey
<1>7. SpanOf(s, Blank) \in Nat BY <1>1, SpansInside
<1> QED BY <1>6, <1>7, PartOfPart DEF BehindBlanks

\* Every step keeps what is known of the scan for the parent.
LEMMA ContextStep == ContextInv /\ [Next]_vars => ContextInv'
<1> SUFFICES ASSUME ContextInv, [Next]_vars PROVE ContextInv' OBVIOUS
<1>1. /\ Plain(text) /\ text \in Seq(Byte) /\ Len(text) \in Nat
      /\ open \in Seq(2 .. Len(text)) /\ Len(open) \in Nat
      /\ comments \in Seq(PartOfText) /\ Len(comments) \in Nat
      /\ rest \in PartOfText /\ i \in 0 .. Len(text) + 1
      /\ next \in 1 .. Len(comments) + 1
  BY LenProperties DEF ContextInv, ContextTypeOK, Plain
<1>2. text' = text BY DEF Next, vars, DecideParent, FromQuery, Finished
<1>3. CASE UNCHANGED contextVars
  BY <1>2, <1>3 DEF ContextInv, ContextTypeOK, contextVars, Plain, PartOfText
<1>4. CASE ContextNext
  <2>1. PartOfText' = PartOfText /\ Plain(text)' BY <1>1, <1>2 DEF PartOfText, Plain
  <2>2. SUFFICES
          /\ scan' \in {"setting", "comments", "pairs", "decided"}
          /\ i' \in 0 .. Len(text) + 1
          /\ open' \in Seq(2 .. Len(text))
          /\ comments' \in Seq(PartOfText) /\ rest' \in PartOfText
          /\ next' \in 1 .. Len(comments') + 1
          /\ Cardinality(remote') <= 1 /\ (remote' # {} => scan' = "decided")
    <3> SUFFICES ASSUME open' \in Seq(2 .. Len(text)), rest' \in PartOfText
                 PROVE  /\ \A k \in 1 .. Len(open') : open'[k] \in 2 .. Len(text)
                        /\ Len(rest') <= Len(text)
      BY <1>2, <2>1 DEF ContextInv, ContextTypeOK
    <3> QED BY ElementOfSeq DEF PartOfText
  <2>3. /\ scan \in {"setting", "comments", "pairs", "decided"}
        /\ Cardinality(remote) <= 1 /\ (remote # {} => scan = "decided")
    BY DEF ContextInv, ContextTypeOK
  <2>4. CASE ReadSetting
    <3>1. /\ remote' = parse_traceparent(guc) /\ scan' \in {"decided", "comments"}
          /\ remote' # {} => scan' = "decided"
          /\ UNCHANGED <<i, open, comments, next, rest>>
      BY <2>4 DEF ReadSetting
    <3> QED BY <1>1, <3>1, OneContext
  <2>5. CASE ScanOpen
    <3>1. /\ scan = "comments" /\ i + 1 < Len(text)
          /\ open' = Append(open, i + 2) /\ i' = i + 2
          /\ UNCHANGED <<scan, comments, next, rest, remote>>
      BY <2>5 DEF ScanOpen, Scanning
    <3>2. i + 2 \in 2 .. Len(text) BY <1>1, <3>1
    <3>3. open' \in Seq(2 .. Len(text)) BY <1>1, <3>1, <3>2, AppendProperties
    <3> QED BY <1>1, <2>3, <3>1, <3>2, <3>3
  <2>6. CASE ScanClose
    <3>1. /\ scan = "comments" /\ i + 1 < Len(text) /\ i' = i + 2
          /\ UNCHANGED <<scan, next, rest, remote>>
          /\ \/ UNCHANGED <<open, comments>>
             \/ /\ open # << >>
                /\ comments' = Append(comments, Slice(text, open[Len(open)], i))
                /\ open' = SubSeq(open, 1, Len(open) - 1)
      BY <2>6 DEF ScanClose, Scanning, Innermost
    <3>2. i' \in 0 .. Len(text) + 1 BY <1>1, <3>1
    <3>3. CASE UNCHANGED <<open, comments>> BY <1>1, <2>3, <3>1, <3>2, <3>3
    <3>4. CASE /\ open # << >>
               /\ comments' = Append(comments, Slice(text, open[Len(open)], i))
               /\ open' = SubSeq(open, 1, Len(open) - 1)
      <4>1. Len(open) \in 1 .. Len(open) BY <1>1, <3>4, EmptySeq
      <4>2. open[Len(open)] \in 2 .. Len(text) BY <1>1, <4>1, ElementOfSeq
      <4>3. text \in PartOfText BY <1>1 DEF PartOfText
      <4>4. open[Len(open)] \in Nat /\ i \in Int /\ i <= Len(text) BY <1>1, <3>1, <4>2
      <4>5. Slice(text, open[Len(open)], i) \in PartOfText BY <1>1, <4>3, <4>4, PartOfPart
      <4>6. /\ comments' \in Seq(PartOfText) /\ Len(comments') = Len(comments) + 1
        BY <1>1, <3>4, <4>5, AppendProperties
      <4>7. open' \in Seq(2 .. Len(text))
        <5> DEFINE last == Len(open) - 1
                   one == 1
        <5>1. one \in Int /\ last \in Int /\ \A k \in one .. last : open[k] \in 2 .. Len(text)
          <6>1. one \in Int /\ last \in Int BY <1>1
          <6>2. ASSUME NEW k \in one .. last PROVE open[k] \in 2 .. Len(text)
            <7>1. k \in 1 .. Len(open) BY <1>1
            <7> QED BY <1>1, <7>1, ElementOfSeq
          <6> HIDE DEF one, last
          <6> QED BY <6>1, <6>2
        <5>2. open' = SubSeq(open, one, last) BY <3>4
        <5> HIDE DEF one, last
        <5> QED BY <5>1, <5>2, SubSeqProperties
      <4>8. next \in 1 .. Len(comments') + 1 BY <1>1, <4>6
      <4> QED BY <1>1, <2>3, <3>1, <3>2, <4>6, <4>7, <4>8
    <3> QED BY <3>1, <3>3, <3>4
  <2>7. CASE ScanOther
    <3>1. /\ i + 1 < Len(text) /\ i' = i + 1
          /\ UNCHANGED <<scan, open, comments, next, rest, remote>>
      BY <2>7 DEF ScanOther, Scanning
    <3>2. i' \in 0 .. Len(text) + 1 BY <1>1, <3>1
    <3> QED BY <1>1, <2>3, <3>1, <3>2
  <2>8. CASE ScanEnd
    <3>1. /\ scan = "comments" /\ scan' = "pairs"
          /\ UNCHANGED <<i, open, comments, next, rest, remote>>
      BY <2>8 DEF ScanEnd
    <3> QED BY <1>1, <2>3, <3>1
  <2>9. ASSUME NEW left, left = Trimmed, scan = "pairs",
               NextComment(left) \/ StrayMark(left) \/ Keyed(left)
        PROVE  /\ scan' \in {"setting", "comments", "pairs", "decided"}
               /\ i' = i /\ open' = open /\ comments' = comments
               /\ rest' \in PartOfText /\ next' \in 1 .. Len(comments) + 1
               /\ Cardinality(remote') <= 1 /\ (remote' # {} => scan' = "decided")
    <3>1. left \in PartOfText
      <4>1. rest \in Seq(Byte) /\ Len(rest) \in Nat BY <1>1, PartOfPart
      <4>2. SpanOf(rest, Separators) \in Nat BY <4>1, SpansInside
      <4> QED BY <1>1, <2>9, <4>2, PartOfPart DEF Trimmed
    <3>2. remote = {} BY <2>3, <2>9
    <3>3. CASE NextComment(left)
      <4>1. /\ UNCHANGED <<i, open, comments, remote>>
            /\ \/ scan' = "decided" /\ UNCHANGED <<next, rest>>
               \/ /\ ~(next > Len(comments)) /\ scan' = scan
                  /\ rest' = comments[next] /\ next' = next + 1
        BY <3>3 DEF NextComment
      <4>2. CASE scan' = "decided" /\ UNCHANGED <<next, rest>> BY <1>1, <2>3, <4>1, <4>2
      <4>3. CASE /\ ~(next > Len(comments)) /\ scan' = scan
                 /\ rest' = comments[next] /\ next' = next + 1
        <5>1. next \in 1 .. Len(comments) /\ next + 1 \in 1 .. Len(comments) + 1
          BY <1>1, <4>3
        <5>2. comments[next] \in PartOfText BY <1>1, <5>1, ElementOfSeq
        <5> QED BY <2>3, <2>9, <4>1, <4>3, <5>1, <5>2
      <4> QED BY <4>1, <4>2, <4>3
    <3>4. CASE StrayMark(left)
      <4>1. left # << >> /\ rest' = Tail(left) /\ UNCHANGED <<i, open, comments, next, scan, remote>>
        BY <3>4 DEF StrayMark, WithoutMark
      <4>2. Tail(left) \in PartOfText BY <1>1, <3>1, <4>1, PartOfPart
      <4> QED BY <1>1, <2>3, <4>1, <4>2
    <3>5. CASE Keyed(left)
      <4> DEFINE behind == BehindBlanks(AfterKey(left))
                 split == split_value(BehindBlanks(Tail(behind)))
      <4>1. AfterKey(left) \in PartOfText /\ behind \in PartOfText BY <1>1, <3>1, KeyedParts
      <4>2. /\ UNCHANGED <<i, open, comments, next>>
            /\ \/ rest' = AfterKey(left) /\ UNCHANGED <<scan, remote>>
               \/ /\ At(behind, 0) = "=" /\ rest' = split.after
                  /\ \/ remote' = {}
                     \/ remote' = parse_traceparent(percent_decode(split.value))
                  /\ scan' = IF remote' # {} THEN "decided" ELSE "pairs"
        BY <3>5 DEF Keyed
      <4>3. CASE rest' = AfterKey(left) /\ UNCHANGED <<scan, remote>>
        BY <1>1, <2>3, <4>1, <4>2, <4>3
      <4>4. CASE /\ At(behind, 0) = "=" /\ rest' = split.after
                 /\ \/ remote' = {}
                    \/ remote' = parse_traceparent(percent_decode(split.value))
                 /\ scan' = IF remote' # {} THEN "decided" ELSE "pairs"
        <5> HIDE DEF behind
        <5>1. behind # << >>
          <6>1. Len(<< >>) = 0 BY EmptySeq
          <6> QED BY <4>4, <6>1 DEF At
        <5>2. Tail(behind) \in PartOfText BY <1>1, <4>1, <5>1, PartOfPart
        <5>3. BehindBlanks(Tail(behind)) \in PartOfText BY <1>1, <5>2, KeyedParts
        <5>4. rest' \in PartOfText BY <1>1, <4>4, <5>3, AfterValue
        <5>5. Cardinality(remote') <= 1 BY <4>4, OneContext, FS_EmptySet
        <5> QED BY <1>1, <4>2, <4>4, <5>4, <5>5
      <4> QED BY <4>2, <4>3, <4>4
    <3> QED BY <2>9, <3>3, <3>4, <3>5
  <2>10. CASE scan = "pairs" /\ \E left \in {Trimmed} : NextComment(left) \/ StrayMark(left) \/ Keyed(left)
    BY <1>1, <2>9, <2>10
  <2> QED BY <1>4, <2>4, <2>5, <2>6, <2>7, <2>8, <2>10 DEF ContextNext
<1> QED BY <1>3, <1>4 DEF Next, vars, DecideParent, FromQuery, Finished

\* What is known of the scan for the parent holds in every state.
LEMMA AlwaysContext == Spec => []ContextInv
<1>1. Init => ContextInv
  <2> SUFFICES ASSUME Init PROVE ContextInv OBVIOUS
  <2>1. Plain(text) BY InitSanitizeInv DEF SanitizeInv, GivenInv
  <2>2. Len(text) \in Nat BY <2>1, LenProperties DEF Plain
  <2>3. /\ scan = "setting" /\ i = 0 /\ open = << >> /\ comments = << >>
        /\ next = 1 /\ rest = << >> /\ remote = {}
    BY DEF Init, ContextInit
  <2>4. Len(open) = 0 /\ Len(comments) = 0 /\ Len(rest) = 0 BY <2>3
  <2>5. rest \in PartOfText BY <2>2, <2>3, <2>4, EmptySeq DEF PartOfText
  <2>6. Cardinality(remote) <= 1 BY <2>3, FS_EmptySet
  <2> QED BY <2>1, <2>2, <2>3, <2>4, <2>5, <2>6 DEF ContextInv, ContextTypeOK
<1> QED BY <1>1, ContextStep, PTL DEF Spec

----------------------------------------------------------------------------
(* The comments of a text, as PostgreSQL's scanner reads them. *)

\* Where it can be: an offset, what is open, and whether a `*` is in front.
Places(s) == (0 .. Len(s)) \X Seq(0 .. Len(s)) \X BOOLEAN

\* What is read at a place, with f to read the rest.
ReadAt(f, s, c) ==
  LET k == c[1]
      stack == c[2]
  IN  IF k = Len(s) THEN [found |-> << >>, touched |-> FALSE]
      ELSE IF IsPair(s, k, "/", "*")
      THEN LET r == f[<<k + 2, Append(stack, k + 2), FALSE>>]
           IN  [found |-> r.found, touched |-> r.touched \/ c[3]]
      ELSE IF stack # << >> /\ IsPair(s, k, "*", "/")
      THEN LET r == f[<<k + 2, Front(stack), FALSE>>]
           IN  [found |-> <<Slice(s, Last(stack), k)>> \o r.found, touched |-> r.touched]
      ELSE f[<<k + 1, stack, stack = << >> /\ At(s, k) = "*">>]

\* f reads at every place in D.
Reads(f, s, D) == f = [c \in D |-> ReadAt(f, s, c)]

\* Both bytes of a pair are in the text.
LEMMA PairInside ==
  ASSUME NEW s \in Seq(Byte), NEW k \in 0 .. Len(s), NEW a, NEW b, b # "end", IsPair(s, k, a, b)
  PROVE  k + 2 <= Len(s)
<1>1. Len(s) \in Nat BY LenProperties
<1>2. k + 1 \in 0 .. Len(s) - 1 BY DEF IsPair, At
<1> QED BY <1>1, <1>2

\* What is read at a place is read at later ones.
LEMMA PlacesBehind ==
  ASSUME NEW s \in Seq(Byte), NEW k \in 0 .. Len(s), NEW stack \in Seq(0 .. Len(s))
  PROVE  /\ IsPair(s, k, "/", "*") => <<k + 2, Append(stack, k + 2), FALSE>> \in Places(s)
         /\ stack # << >> /\ IsPair(s, k, "*", "/") =>
              /\ <<k + 2, Front(stack), FALSE>> \in Places(s)
              /\ Slice(s, Last(stack), k) \in Seq(Byte)
         /\ k # Len(s) => \A star \in BOOLEAN : <<k + 1, stack, star>> \in Places(s)
<1>1. Len(s) \in Nat /\ Len(stack) \in Nat BY LenProperties
<1>2. IsPair(s, k, "/", "*") => <<k + 2, Append(stack, k + 2), FALSE>> \in Places(s)
  <2> SUFFICES ASSUME IsPair(s, k, "/", "*")
               PROVE  <<k + 2, Append(stack, k + 2), FALSE>> \in Places(s)
    OBVIOUS
  <2>1. k + 2 <= Len(s) BY PairInside
  <2>2. k + 2 \in 0 .. Len(s) BY <1>1, <2>1
  <2>3. Append(stack, k + 2) \in Seq(0 .. Len(s)) BY <2>2, AppendProperties
  <2> QED BY <2>2, <2>3 DEF Places
<1>3. stack # << >> /\ IsPair(s, k, "*", "/") =>
        /\ <<k + 2, Front(stack), FALSE>> \in Places(s)
        /\ Slice(s, Last(stack), k) \in Seq(Byte)
  <2> SUFFICES ASSUME stack # << >>, IsPair(s, k, "*", "/")
               PROVE  /\ <<k + 2, Front(stack), FALSE>> \in Places(s)
                      /\ Slice(s, Last(stack), k) \in Seq(Byte)
    OBVIOUS
  <2>1. k + 2 <= Len(s) BY PairInside
  <2>2. k + 2 \in 0 .. Len(s) BY <1>1, <2>1
  <2>3. Len(stack) \in 1 .. Len(stack) BY <1>1, EmptySeq
  <2>4. Front(stack) \in Seq(0 .. Len(s))
    <3> DEFINE one == 1
               last == Len(stack) - 1
    <3>1. one \in Int /\ last \in Int BY <1>1
    <3>2. one .. last \subseteq 1 .. Len(stack) BY <1>1
    <3>3. Front(stack) = SubSeq(stack, one, last) BY DEF Front
    <3> HIDE DEF one, last
    <3>4. \A j \in one .. last : stack[j] \in 0 .. Len(s) BY <3>2, ElementOfSeq
    <3> QED BY <3>1, <3>3, <3>4, SubSeqProperties
  <2>5. Last(stack) \in 0 .. Len(s) BY <2>3, ElementOfSeq DEF Last
  <2>6. Last(stack) \in Nat /\ k \in Int /\ k <= Len(s) BY <1>1, <2>5
  <2>7. Slice(s, Last(stack), k) \in Seq(Byte) BY <2>6, SliceIsText
  <2> QED BY <2>2, <2>4, <2>7 DEF Places
<1>4. k # Len(s) => \A star \in BOOLEAN : <<k + 1, stack, star>> \in Places(s)
  <2>1. k # Len(s) => k + 1 \in 0 .. Len(s) BY <1>1
  <2> QED BY <2>1 DEF Places
<1> QED BY <1>2, <1>3, <1>4

\* So it is the same with functions that read the same there.
LEMMA ReadsBehind ==
  ASSUME NEW s \in Seq(Byte), NEW c \in Places(s), NEW f, NEW g,
         \A d \in Places(s) : d[1] > c[1] => f[d] = g[d]
  PROVE  ReadAt(f, s, c) = ReadAt(g, s, c)
<1> DEFINE k == c[1]
           stack == c[2]
           star == stack = << >> /\ At(s, k) = "*"
<1>1. k \in 0 .. Len(s) /\ stack \in Seq(0 .. Len(s)) BY DEF Places
<1>2. Len(s) \in Nat /\ k \in Nat BY <1>1, LenProperties
<1>3. k + 2 > k /\ k + 1 > k BY <1>2
<1> HIDE DEF k, stack
<1>4. CASE k = Len(s) BY <1>4 DEF ReadAt, k
<1>5. CASE k # Len(s) /\ IsPair(s, k, "/", "*")
  <2> DEFINE d == <<k + 2, Append(stack, k + 2), FALSE>>
  <2>1. d \in Places(s) BY <1>1, <1>5, PlacesBehind
  <2>2. d[1] > c[1] BY <1>3 DEF k
  <2>3. f[d] = g[d] BY <2>1, <2>2
  <2> QED BY <1>5, <2>3 DEF ReadAt, k, stack
<1>6. CASE k # Len(s) /\ ~IsPair(s, k, "/", "*") /\ stack # << >> /\ IsPair(s, k, "*", "/")
  <2> DEFINE d == <<k + 2, Front(stack), FALSE>>
  <2>1. d \in Places(s) BY <1>1, <1>6, PlacesBehind
  <2>2. d[1] > c[1] BY <1>3 DEF k
  <2>3. f[d] = g[d] BY <2>1, <2>2
  <2> QED BY <1>6, <2>3 DEF ReadAt, k, stack
<1>7. CASE k # Len(s) /\ ~IsPair(s, k, "/", "*") /\ ~(stack # << >> /\ IsPair(s, k, "*", "/"))
  <2> DEFINE d == <<k + 1, stack, star>>
  <2>1. d \in Places(s)
    <3>1. star \in BOOLEAN OBVIOUS
    <3> HIDE DEF star
    <3> QED BY <1>1, <1>7, <3>1, PlacesBehind
  <2>2. d[1] > c[1] BY <1>3 DEF k
  <2>3. f[d] = g[d] BY <2>1, <2>2
  <2> QED BY <1>7, <2>3 DEF ReadAt, k, stack
<1> QED BY <1>4, <1>5, <1>6, <1>7

\* What fails at a place fails at no later one, so it fails nowhere.
LEMMA NoLastPlace ==
  ASSUME NEW N \in Nat, NEW B, B \subseteq 0 .. N,
         \A n \in B : \E m \in B : m > n
  PROVE  B = {}
<1> SUFFICES ASSUME B # {} PROVE FALSE OBVIOUS
<1>1. IsFiniteSet(B) /\ \A n \in B : n \in Int
  <2>1. IsFiniteSet(0 .. N) /\ B \in SUBSET (0 .. N) BY FS_Interval
  <2>2. IsFiniteSet(B) BY <2>1, FS_Subset, Zenon
  <2> QED BY <2>2
<1>2. PICK n \in B : \A m \in B : n >= m BY <1>1, HaveEnds
<1>3. PICK m \in B : m > n BY <1>2
<1>4. n >= m /\ n \in Int /\ m \in Int BY <1>2
<1> QED BY <1>3, <1>4

\* There is a function that reads.
LEMMA ReadsExist ==
  ASSUME NEW s \in Seq(Byte)
  PROVE  \E f : Reads(f, s, Places(s))
<1> DEFINE N == Len(s)
           D(n) == {c \in Places(s) : c[1] >= n}
           Bad == {n \in 0 .. N : ~\E f : Reads(f, s, D(n))}
<1>1. N \in Nat BY LenProperties
<1>2. \A c \in Places(s) : c[1] \in 0 .. N BY DEF Places
<1> HIDE DEF N
<1>3. ASSUME NEW n \in 0 .. N, n = N \/ n + 1 \notin Bad PROVE n \notin Bad
  <2>1. PICK f : Reads(f, s, D(n + 1))
    <3>1. CASE n = N
      <4> DEFINE g == [c \in D(n + 1) |-> << >>]
      <4>1. ASSUME NEW c \in D(n + 1) PROVE FALSE
        <5>1. c[1] \in 0 .. N /\ c[1] >= n + 1 BY <1>2
        <5> QED BY <1>1, <3>1, <5>1
      <4>2. D(n + 1) = {} BY <4>1
      <4>3. Reads(g, s, D(n + 1)) BY <4>2 DEF Reads
      <4> HIDE DEF g
      <4> QED BY <4>3
    <3>2. CASE n # N
      <4>1. n + 1 \in 0 .. N BY <1>1, <3>2
      <4> QED BY <1>3, <3>2, <4>1
    <3> QED BY <3>1, <3>2
  <2> DEFINE g == [c \in D(n) |-> ReadAt(f, s, c)]
  <2>2. ASSUME NEW c \in D(n) PROVE ReadAt(f, s, c) = ReadAt(g, s, c)
    <3>1. ASSUME NEW d \in Places(s), d[1] > c[1] PROVE f[d] = g[d]
      <4>1. d[1] \in Int /\ c[1] \in Int /\ c[1] >= n /\ n \in Int BY <1>1, <1>2
      <4>2. d[1] >= n + 1 /\ d[1] >= n BY <3>1, <4>1
      <4>3. d \in D(n + 1) /\ d \in D(n) BY <4>2
      <4>4. f[d] = ReadAt(f, s, d) BY <2>1, <4>3 DEF Reads
      <4>5. g[d] = ReadAt(f, s, d) BY <4>3
      <4> QED BY <4>4, <4>5
    <3>2. c \in Places(s) OBVIOUS
    <3> HIDE DEF g
    <3> QED BY <3>1, <3>2, ReadsBehind
  <2>3. Reads(g, s, D(n)) BY <2>2 DEF Reads
  <2> HIDE DEF g
  <2> QED BY <2>3
<1>4. Bad = {}
  <2>1. \A n \in Bad : \E m \in Bad : m > n
    <3> SUFFICES ASSUME NEW n \in Bad PROVE \E m \in Bad : m > n OBVIOUS
    <3>1. n \in 0 .. N /\ n + 1 \in Bad BY <1>3
    <3>2. n + 1 > n BY <1>1, <3>1
    <3> QED BY <3>1, <3>2
  <2>2. Bad \subseteq 0 .. N OBVIOUS
  <2> HIDE DEF Bad
  <2> QED BY <1>1, <2>1, <2>2, NoLastPlace
<1>5. D(0) = Places(s)
  <2>1. \A c \in Places(s) : c[1] >= 0 BY <1>1, <1>2
  <2> QED BY <2>1
<1>6. 0 \in 0 .. N BY <1>1
<1> QED BY <1>4, <1>5, <1>6

\* PostgreSQL's reading of a text.
PgRead(s) == CHOOSE f : Reads(f, s, Places(s))

\* What it reads at a place, and that it finds texts.
LEMMA PgReadIs ==
  ASSUME NEW s \in Seq(Byte)
  PROVE  /\ PgComments(s) = PgRead(s)[<<0, << >>, FALSE>>]
         /\ <<0, << >>, FALSE>> \in Places(s)
         /\ \A c \in Places(s) : /\ PgRead(s)[c] = ReadAt(PgRead(s), s, c)
                                 /\ PgRead(s)[c].found \in Seq(Seq(Byte))
<1> DEFINE N == Len(s)
           R == PgRead(s)
           Bad == {c \in Places(s) : R[c].found \notin Seq(Seq(Byte))}
           B == {c[1] : c \in Bad}
<1>1. N \in Nat BY LenProperties
<1>2. PgComments(s) = R[<<0, << >>, FALSE>>] BY DEF PgComments, PgRead, Reads, ReadAt, Places
<1>3. Reads(R, s, Places(s)) BY ReadsExist DEF PgRead
<1> HIDE DEF R
<1>4. \A c \in Places(s) : R[c] = ReadAt(R, s, c) BY <1>3 DEF Reads
<1>5. ASSUME NEW c \in Bad PROVE \E d \in Bad : d[1] > c[1]
  <2> DEFINE k == c[1]
             stack == c[2]
             star == stack = << >> /\ At(s, k) = "*"
  <2>1. c \in Places(s) /\ R[c] = ReadAt(R, s, c) /\ R[c].found \notin Seq(Seq(Byte)) BY <1>4
  <2>2. k \in 0 .. N /\ stack \in Seq(0 .. N) BY <2>1 DEF Places
  <2>3. k + 2 > k /\ k + 1 > k BY <1>1, <2>2
  <2> HIDE DEF k, stack
  <2>4. CASE k = N
    <3>1. R[c].found = << >> BY <2>1, <2>4 DEF ReadAt, k
    <3> QED BY <2>1, <3>1, EmptySeq
  <2>5. CASE k # N /\ IsPair(s, k, "/", "*")
    <3> DEFINE d == <<k + 2, Append(stack, k + 2), FALSE>>
    <3>1. d \in Places(s) BY <2>2, <2>5, PlacesBehind
    <3>2. R[c].found = R[d].found BY <2>1, <2>5 DEF ReadAt, k, stack
    <3>3. d[1] > c[1] BY <2>3 DEF k
    <3> HIDE DEF d
    <3> QED BY <2>1, <3>1, <3>2, <3>3
  <2>6. CASE k # N /\ ~IsPair(s, k, "/", "*") /\ stack # << >> /\ IsPair(s, k, "*", "/")
    <3> DEFINE d == <<k + 2, Front(stack), FALSE>>
               inner == Slice(s, Last(stack), k)
    <3>1. d \in Places(s) /\ inner \in Seq(Byte) BY <2>2, <2>6, PlacesBehind
    <3>2. R[c].found = <<inner>> \o R[d].found BY <2>1, <2>6 DEF ReadAt, k, stack
    <3>3. d[1] > c[1] BY <2>3 DEF k
    <3> HIDE DEF d, inner
    <3>4. R[d].found \notin Seq(Seq(Byte))
      <4> SUFFICES ASSUME R[d].found \in Seq(Seq(Byte)) PROVE FALSE OBVIOUS
      <4>1. <<inner>> \in Seq(Seq(Byte)) BY <3>1
      <4> QED BY <2>1, <3>2, <4>1, ConcatProperties
    <3> QED BY <3>1, <3>3, <3>4
  <2>7. CASE k # N /\ ~IsPair(s, k, "/", "*") /\ ~(stack # << >> /\ IsPair(s, k, "*", "/"))
    <3> DEFINE d == <<k + 1, stack, star>>
    <3>1. d \in Places(s)
      <4>1. star \in BOOLEAN OBVIOUS
      <4> HIDE DEF star
      <4> QED BY <2>2, <2>7, <4>1, PlacesBehind
    <3>2. R[c] = R[d] BY <2>1, <2>7 DEF ReadAt, k, stack
    <3>3. d[1] > c[1] BY <2>3 DEF k
    <3> HIDE DEF d
    <3> QED BY <2>1, <3>1, <3>2, <3>3
  <2> QED BY <2>4, <2>5, <2>6, <2>7
<1>6. B = {}
  <2>1. \A n \in B : \E m \in B : m > n
    <3> HIDE DEF Bad
    <3> QED BY <1>5
  <2>2. B \subseteq 0 .. N BY DEF Places
  <2> HIDE DEF B
  <2> QED BY <1>1, <2>1, <2>2, NoLastPlace
<1>7. Bad = {} BY <1>6
<1>8. <<0, << >>, FALSE>> \in Places(s)
  <2>1. 0 \in 0 .. Len(s) /\ << >> \in Seq(0 .. Len(s)) BY <1>1, EmptySeq
  <2> QED BY <2>1 DEF Places
<1> QED BY <1>2, <1>4, <1>7, <1>8 DEF R

\* With the comments found before it, what PostgreSQL's scanner would read from where
\* the scan is, with or without a `*` in front, is what it reads in the text.
Ahead(star) ==
  /\ PgComments(text).found = comments \o PgRead(text)[<<i, open, star>>].found
  /\ PgRead(text)[<<i, open, star>>].touched => PgComments(text).touched

\* The scan finds what PostgreSQL's scanner does, as far as it has come.
CommentsInv ==
  /\ scan = "setting" => i = 0 /\ open = << >> /\ comments = << >>
  /\ scan = "comments" =>
       /\ i <= Len(text)
       /\ PgComments(text).touched \/ \E star \in BOOLEAN : Ahead(star)
  /\ CommentsFound

\* What PostgreSQL's scanner reads at the next place if it reads there no other comment
\* than here.
LEMMA AheadIsKept ==
  ASSUME NEW star \in BOOLEAN, Ahead(star), NEW k, NEW stack, NEW behind \in BOOLEAN,
         i' = k, open' = stack, comments' = comments, text' = text,
         PgRead(text)[<<i, open, star>>].found = PgRead(text)[<<k, stack, behind>>].found,
         PgRead(text)[<<k, stack, behind>>].touched
           => PgRead(text)[<<i, open, star>>].touched
  PROVE  Ahead(behind)'
<1>1. PgRead(text)' = PgRead(text) /\ PgComments(text)' = PgComments(text)
  <2>1. ASSUME NEW s, NEW t, s = t PROVE PgRead(s) = PgRead(t) /\ PgComments(s) = PgComments(t)
    BY <2>1
  <2> QED BY <2>1
<1> QED BY <1>1 DEF Ahead

\* Every step of the scan finds what PostgreSQL's scanner would.
LEMMA CommentsStep == ContextInv /\ CommentsInv /\ [Next]_vars => CommentsInv'
<1> SUFFICES ASSUME ContextInv, CommentsInv, [Next]_vars PROVE CommentsInv' OBVIOUS
<1> DEFINE N == Len(text)
           R == PgRead(text)
           whole == PgComments(text)
<1>1. /\ text \in Seq(Byte) /\ N \in Nat /\ i \in 0 .. N + 1
      /\ open \in Seq(0 .. N) /\ Len(open) \in Nat /\ comments \in Seq(Seq(Byte))
  <2>1. text \in Seq(Byte) /\ N \in Nat BY LenProperties DEF ContextInv, Plain
  <2>2. 2 .. N \subseteq 0 .. N /\ PartOfText \subseteq Seq(Byte) BY <2>1 DEF PartOfText
  <2>3. open \in Seq(2 .. N) /\ comments \in Seq(PartOfText) BY DEF ContextInv
  <2>4. open \in Seq(0 .. N) /\ comments \in Seq(Seq(Byte)) BY <2>2, <2>3, SeqMonotonic
  <2>5. i \in 0 .. N + 1 BY DEF ContextInv, ContextTypeOK
  <2> QED BY <2>1, <2>4, <2>5, LenProperties
<1>2. /\ whole = R[<<0, << >>, FALSE>>] /\ <<0, << >>, FALSE>> \in Places(text)
      /\ \A c \in Places(text) : R[c] = ReadAt(R, text, c) /\ R[c].found \in Seq(Seq(Byte))
  BY <1>1, PgReadIs
<1>3. text' = text BY DEF Next, vars, DecideParent, FromQuery, Finished
<1>4. whole' = whole /\ R' = R
  <2>1. ASSUME NEW s, NEW t, s = t PROVE PgRead(s) = PgRead(t) /\ PgComments(s) = PgComments(t)
    BY <2>1
  <2> QED BY <1>3, <2>1
<1> HIDE DEF R, whole
<1>5. CASE UNCHANGED contextVars
  <2>1. UNCHANGED <<scan, i, open, comments, text, whole, R>> BY <1>3, <1>4, <1>5 DEF contextVars
  <2> QED BY <2>1 DEF CommentsInv, CommentsFound, Ahead, whole, R
<1>6. CASE ReadSetting
  <2>1. UNCHANGED <<i, open, comments>> BY <1>6 DEF ReadSetting
  <2>2. i = 0 /\ open = << >> /\ comments = << >> BY <1>6 DEF ReadSetting, CommentsInv
  <2>3. scan' \in {"decided", "comments"} BY <1>6 DEF ReadSetting
  <2>4. whole.found = << >> \o R[<<0, << >>, FALSE>>].found
    BY <1>2, ConcatEmptySeq
  <2>5. R[<<0, << >>, FALSE>>].touched => whole.touched BY <1>2
  <2>6. Ahead(FALSE)'
    BY <1>3, <1>4, <2>1, <2>2, <2>4, <2>5 DEF Ahead, R, whole
  <2>7. i' <= Len(text)' BY <1>1, <1>3, <2>1, <2>2
  <2> QED BY <2>3, <2>6, <2>7 DEF CommentsInv, CommentsFound
<1>7. ASSUME scan = "comments", ~whole.touched
      PROVE  i \in 0 .. N /\ \E star \in BOOLEAN : Ahead(star)
  BY <1>1, <1>7 DEF CommentsInv, whole
<1>8. ASSUME NEW star \in BOOLEAN, scan = "comments"
      PROVE  i <= N => R[<<i, open, star>>] = ReadAt(R, text, <<i, open, star>>)
  <2>1. i <= N => <<i, open, star>> \in Places(text) BY <1>1 DEF Places
  <2> QED BY <1>2, <2>1
<1>9. CASE ScanOpen
  <2>1. /\ scan = "comments" /\ i + 1 < N /\ IsPair(text, i, "/", "*")
        /\ scan' = scan /\ i' = i + 2 /\ open' = Append(open, i + 2) /\ comments' = comments
    BY <1>9 DEF ScanOpen, Scanning
  <2>2. i' <= Len(text)' /\ i # N /\ i <= N BY <1>1, <1>3, <2>1
  <2>3. ASSUME ~whole.touched PROVE \E star \in BOOLEAN : Ahead(star)'
    <3>1. PICK star \in BOOLEAN : Ahead(star) BY <1>7, <2>1, <2>3
    <3>2. R[<<i, open, star>>] = ReadAt(R, text, <<i, open, star>>) BY <1>8, <2>1, <2>2
    <3> DEFINE r == R[<<i + 2, Append(open, i + 2), FALSE>>]
    <3>3. R[<<i, open, star>>] = [found |-> r.found, touched |-> r.touched \/ star]
      BY <2>1, <2>2, <3>2 DEF ReadAt
    <3>4. R[<<i, open, star>>].found = r.found /\ (r.touched => R[<<i, open, star>>].touched)
      <4> HIDE DEF r
      <4>1. R[<<i, open, star>>].found = r.found BY <3>3
      <4>2. R[<<i, open, star>>].touched = (r.touched \/ star) BY <3>3
      <4>3. r.touched => R[<<i, open, star>>].touched BY <4>2, Zenon
      <4> QED BY <4>1, <4>3
    <3>5. Ahead(FALSE)' BY <1>3, <2>1, <3>1, <3>4, AheadIsKept DEF R
    <3> QED BY <3>5
  <2> QED BY <1>4, <2>1, <2>2, <2>3 DEF CommentsInv, CommentsFound, whole
<1>10. CASE ScanClose
  <2>1. /\ scan = "comments" /\ i + 1 < N /\ IsPair(text, i, "*", "/")
        /\ scan' = scan /\ i' = i + 2
    BY <1>10 DEF ScanClose, Scanning
  <2>2. i' <= Len(text)' /\ i # N /\ i <= N BY <1>1, <1>3, <2>1
  <2>3. ~IsPair(text, i, "/", "*") /\ At(text, i) = "*" /\ At(text, i + 1) = "/" BY <2>1 DEF IsPair
  <2>4. ASSUME ~whole.touched, open # << >> PROVE \E star \in BOOLEAN : Ahead(star)'
    <3>1. PICK star \in BOOLEAN : Ahead(star) BY <1>7, <2>1, <2>4
    <3>2. R[<<i, open, star>>] = ReadAt(R, text, <<i, open, star>>) BY <1>8, <2>1, <2>2
    <3> DEFINE inner == Slice(text, Last(open), i)
               d == <<i + 2, Front(open), FALSE>>
    <3>3. comments' = Append(comments, inner) /\ open' = Front(open)
      BY <1>10, <2>4 DEF ScanClose, Innermost, Last, Front
    <3>4. d \in Places(text) /\ inner \in Seq(Byte)
      <4>1. i \in 0 .. Len(text) BY <1>1, <2>2
      <4> QED BY <1>1, <2>1, <2>4, <4>1, PlacesBehind
    <3>5. R[<<i, open, star>>] = [found |-> <<inner>> \o R[d].found, touched |-> R[d].touched]
      BY <2>1, <2>2, <2>3, <2>4, <3>2 DEF ReadAt
    <3> HIDE DEF inner, d
    <3>6. R[d].found \in Seq(Seq(Byte)) /\ <<inner>> \in Seq(Seq(Byte)) BY <1>2, <3>4
    <3>7. comments \o (<<inner>> \o R[d].found) = Append(comments, inner) \o R[d].found
      <4>1. (comments \o <<inner>>) \o R[d].found = comments \o (<<inner>> \o R[d].found)
        <5>1. \A x, y, z \in Seq(Seq(Byte)) : (x \o y) \o z = x \o (y \o z)
          BY ConcatAssociative
        <5> QED BY <1>1, <3>6, <5>1
      <4>2. Append(comments, inner) = comments \o <<inner>> BY <1>1, <3>4, AppendIsConcat
      <4> QED BY <4>1, <4>2
    <3>8. R[<<i, open, star>>].found = <<inner>> \o R[d].found
          /\ R[<<i, open, star>>].touched = R[d].touched
      BY <3>5
    <3>9. whole.found = Append(comments, inner) \o R[d].found /\ (R[d].touched => whole.touched)
      BY <3>1, <3>7, <3>8 DEF Ahead, R, whole
    <3>10. d = <<i', open', FALSE>> BY <2>1, <3>3 DEF d
    <3>11. Ahead(FALSE)' BY <1>3, <1>4, <3>3, <3>9, <3>10 DEF Ahead, R, whole
    <3> QED BY <3>11
  <2>5. ASSUME ~whole.touched, open = << >> PROVE \E star \in BOOLEAN : Ahead(star)'
    <3>1. PICK star \in BOOLEAN : Ahead(star) BY <1>7, <2>1, <2>5
    <3>2. R[<<i, open, star>>] = ReadAt(R, text, <<i, open, star>>) BY <1>8, <2>1, <2>2
    <3> DEFINE c == <<i + 1, open, TRUE>>
               d == <<i + 2, open, FALSE>>
    <3>3. comments' = comments /\ open' = open BY <1>10, <2>5 DEF ScanClose
    <3>4. open = << >> /\ At(text, i) = "*" BY <2>3, <2>5
    <3>5. R[<<i, open, star>>] = R[<<i + 1, open, open = << >> /\ At(text, i) = "*">>]
      BY <2>1, <2>2, <2>3, <2>5, <3>2 DEF ReadAt
    <3>6. R[<<i, open, star>>] = R[c]
      <4>1. (open = << >> /\ At(text, i) = "*") = TRUE BY <3>4
      <4> QED BY <3>5, <4>1
    <3>7. i + 1 \in 0 .. N /\ i + 1 # N BY <1>1, <2>1
    <3>8. R[c] = ReadAt(R, text, c)
      <4>1. c \in Places(text) BY <1>1, <3>7 DEF Places
      <4> QED BY <1>2, <4>1
    <3>9. ~IsPair(text, i + 1, "/", "*")
      <4> SUFFICES ASSUME IsPair(text, i + 1, "/", "*") PROVE FALSE OBVIOUS
      <4> DEFINE r == R[<<i + 1 + 2, Append(open, i + 1 + 2), FALSE>>]
      <4>1. R[c] = [found |-> r.found, touched |-> r.touched \/ TRUE] BY <3>7, <3>8 DEF ReadAt
      <4>2. R[c].touched = (r.touched \/ TRUE)
        <5> HIDE DEF r, c
        <5> QED BY <4>1
      <4>3. R[c].touched BY <4>2, Zenon
      <4> QED BY <2>5, <3>1, <3>6, <4>3 DEF Ahead, R, whole
    <3>10. i + 1 + 1 = i + 2 BY <1>1
    <3>11. R[c] = R[<<i + 2, open, open = << >> /\ At(text, i + 1) = "*">>]
      BY <2>5, <3>7, <3>8, <3>9, <3>10 DEF ReadAt
    <3>12. R[c] = R[d]
      <4>1. (open = << >> /\ At(text, i + 1) = "*") = FALSE BY <2>3
      <4> QED BY <3>11, <4>1
    <3>13. Ahead(FALSE)'
      <4>1. R[<<i, open, star>>].found = R[d].found
            /\ (R[d].touched => R[<<i, open, star>>].touched)
        BY <3>6, <3>12
      <4> QED BY <1>3, <2>1, <3>1, <3>3, <4>1, AheadIsKept DEF R
    <3> QED BY <3>13
  <2> QED BY <1>4, <2>1, <2>2, <2>4, <2>5 DEF CommentsInv, CommentsFound, whole
<1>11. CASE ScanOther
  <2>1. /\ scan = "comments" /\ i + 1 < N
        /\ ~IsPair(text, i, "/", "*") /\ ~IsPair(text, i, "*", "/")
        /\ scan' = scan /\ i' = i + 1 /\ open' = open /\ comments' = comments
    BY <1>11 DEF ScanOther, Scanning
  <2>2. i' <= Len(text)' /\ i # N /\ i <= N BY <1>1, <1>3, <2>1
  <2>3. ASSUME ~whole.touched PROVE \E star \in BOOLEAN : Ahead(star)'
    <3>1. PICK star \in BOOLEAN : Ahead(star) BY <1>7, <2>1, <2>3
    <3>2. PICK behind \in BOOLEAN : behind = (open = << >> /\ At(text, i) = "*") OBVIOUS
    <3>3. R[<<i, open, star>>] = ReadAt(R, text, <<i, open, star>>) BY <1>8, <2>1, <2>2
    <3>4. R[<<i, open, star>>] = R[<<i + 1, open, behind>>] BY <2>1, <2>2, <3>2, <3>3 DEF ReadAt
    <3>5. R[<<i, open, star>>].found = R[<<i + 1, open, behind>>].found
          /\ (R[<<i + 1, open, behind>>].touched => R[<<i, open, star>>].touched)
      BY <3>4
    <3>6. Ahead(behind)' BY <1>3, <2>1, <3>1, <3>5, AheadIsKept DEF R
    <3> QED BY <3>6
  <2> QED BY <1>4, <2>1, <2>2, <2>3 DEF CommentsInv, CommentsFound, whole
<1>12. CASE ScanEnd
  <2>1. scan = "comments" /\ i + 1 >= N /\ scan' = "pairs" /\ comments' = comments
    BY <1>12 DEF ScanEnd
  <2>2. ASSUME ~whole.touched PROVE comments = whole.found
    <3>1. PICK star \in BOOLEAN : Ahead(star) BY <1>7, <2>1, <2>2
    <3>2. i \in 0 .. N BY <1>7, <2>1, <2>2
    <3>3. ASSUME NEW b \in BOOLEAN PROVE R[<<N, open, b>>].found = << >>
      <4>1. <<N, open, b>> \in Places(text) BY <1>1 DEF Places
      <4>2. R[<<N, open, b>>] = ReadAt(R, text, <<N, open, b>>) BY <1>2, <4>1
      <4> QED BY <4>2 DEF ReadAt
    <3>4. R[<<i, open, star>>].found = << >>
      <4>1. CASE i = N BY <3>3, <4>1
      <4>2. CASE i # N
        <5> DEFINE behind == open = << >> /\ At(text, i) = "*"
        <5>1. i + 1 = N /\ ~(i + 2 <= N) /\ i <= N BY <1>1, <2>1, <3>2, <4>2
        <5>2. "*" # "end" /\ "/" # "end" OBVIOUS
        <5>3. ~IsPair(text, i, "/", "*") /\ ~IsPair(text, i, "*", "/")
          BY <1>1, <3>2, <5>1, <5>2, PairInside
        <5>4. R[<<i, open, star>>] = ReadAt(R, text, <<i, open, star>>) BY <1>8, <2>1, <5>1
        <5>5. R[<<i, open, star>>] = R[<<i + 1, open, behind>>] BY <4>2, <5>3, <5>4 DEF ReadAt
        <5>6. behind \in BOOLEAN OBVIOUS
        <5> HIDE DEF behind
        <5> QED BY <3>3, <5>1, <5>5, <5>6
      <4> QED BY <4>1, <4>2
    <3>5. whole.found = comments \o << >> BY <3>1, <3>4 DEF Ahead, R, whole
    <3> QED BY <1>1, <3>5, ConcatEmptySeq
  <2> QED BY <1>4, <2>1, <2>2 DEF CommentsInv, CommentsFound, whole
<1>13. CASE scan = "pairs" /\ \E left \in {Trimmed} : NextComment(left) \/ StrayMark(left) \/ Keyed(left)
  <2>1. comments' = comments /\ scan' \in {"pairs", "decided"}
    BY <1>13 DEF NextComment, StrayMark, Keyed
  <2> QED BY <1>4, <1>13, <2>1 DEF CommentsInv, CommentsFound, whole
<1> QED
  BY <1>5, <1>6, <1>9, <1>10, <1>11, <1>12, <1>13
     DEF Next, vars, DecideParent, FromQuery, Finished, ContextNext

----------------------------------------------------------------------------
(* Where the next token is: behind blanks and comments. *)

\* Where the scanner can be: an offset, and how many comments are open.
Skipping(s) == (0 .. Len(s)) \X Nat

\* The token that is found from a place on, with f for the places behind.
SkipAt(f, s, c) ==
  LET k == c[1]
      n == c[2]
  IN  IF k = Len(s) THEN (IF n = 0 THEN k ELSE -1)
      ELSE IF IsPair(s, k, "/", "*") THEN f[<<k + 2, n + 1>>]
      ELSE IF n > 0
           THEN IF IsPair(s, k, "*", "/") THEN f[<<k + 2, n - 1>>] ELSE f[<<k + 1, n>>]
           ELSE IF At(s, k) = " " THEN f[<<k + 1, n>>] ELSE k

\* f skips at every place in D.
Skips(f, s, D) == f = [c \in D |-> SkipAt(f, s, c)]

\* What is skipped at a place ends at a later one.
LEMMA SkippedTo ==
  ASSUME NEW s \in Seq(Byte), NEW k \in 0 .. Len(s), NEW n \in Nat
  PROVE  /\ Len(s) \in Nat /\ k + 2 > k /\ k + 1 > k
         /\ IsPair(s, k, "/", "*") => <<k + 2, n + 1>> \in Skipping(s)
         /\ n > 0 /\ IsPair(s, k, "*", "/") => <<k + 2, n - 1>> \in Skipping(s)
         /\ k # Len(s) => <<k + 1, n>> \in Skipping(s)
<1>1. Len(s) \in Nat BY LenProperties
<1>2. IsPair(s, k, "/", "*") \/ IsPair(s, k, "*", "/") => k + 2 <= Len(s) BY PairInside
<1>3. IsPair(s, k, "/", "*") \/ IsPair(s, k, "*", "/") => k + 2 \in 0 .. Len(s) BY <1>1, <1>2
<1>4. k # Len(s) => k + 1 \in 0 .. Len(s) BY <1>1
<1>5. n + 1 \in Nat /\ (n > 0 => n - 1 \in Nat) OBVIOUS
<1> QED BY <1>1, <1>3, <1>4, <1>5 DEF Skipping

\* So it is the same with functions that skip the same there.
LEMMA SkipsBehind ==
  ASSUME NEW s \in Seq(Byte), NEW c \in Skipping(s), NEW f, NEW g,
         \A d \in Skipping(s) : d[1] > c[1] => f[d] = g[d]
  PROVE  SkipAt(f, s, c) = SkipAt(g, s, c)
<1> DEFINE k == c[1]
           n == c[2]
<1>1. k \in 0 .. Len(s) /\ n \in Nat BY DEF Skipping
<1>2. /\ k + 2 > k /\ k + 1 > k
      /\ IsPair(s, k, "/", "*") => <<k + 2, n + 1>> \in Skipping(s)
      /\ n > 0 /\ IsPair(s, k, "*", "/") => <<k + 2, n - 1>> \in Skipping(s)
      /\ k # Len(s) => <<k + 1, n>> \in Skipping(s)
  BY <1>1, SkippedTo
<1> HIDE DEF k, n
<1>3. ASSUME NEW m \in {k + 1, k + 2}, NEW l, <<m, l>> \in Skipping(s) PROVE f[<<m, l>>] = g[<<m, l>>]
  <2>1. <<m, l>>[1] > c[1] BY <1>2 DEF k
  <2> QED BY <1>3, <2>1
<1>4. CASE k = Len(s) BY <1>4 DEF SkipAt, k
<1>5. CASE k # Len(s) /\ IsPair(s, k, "/", "*")
  <2>1. f[<<k + 2, n + 1>>] = g[<<k + 2, n + 1>>] BY <1>2, <1>3, <1>5
  <2> QED BY <1>5, <2>1 DEF SkipAt, k, n
<1>6. CASE k # Len(s) /\ ~IsPair(s, k, "/", "*") /\ n > 0 /\ IsPair(s, k, "*", "/")
  <2>1. f[<<k + 2, n - 1>>] = g[<<k + 2, n - 1>>] BY <1>2, <1>3, <1>6
  <2> QED BY <1>6, <2>1 DEF SkipAt, k, n
<1>7. CASE k # Len(s) /\ ~IsPair(s, k, "/", "*") /\ ~(n > 0 /\ IsPair(s, k, "*", "/"))
  <2>1. f[<<k + 1, n>>] = g[<<k + 1, n>>] BY <1>2, <1>3, <1>7
  <2> QED BY <1>7, <2>1 DEF SkipAt, k, n
<1> QED BY <1>4, <1>5, <1>6, <1>7

\* There is a function that skips.
LEMMA SkipsExist ==
  ASSUME NEW s \in Seq(Byte)
  PROVE  \E f : Skips(f, s, Skipping(s))
<1> DEFINE N == Len(s)
           D(n) == {c \in Skipping(s) : c[1] >= n}
           Bad == {n \in 0 .. N : ~\E f : Skips(f, s, D(n))}
<1>1. N \in Nat BY LenProperties
<1>2. \A c \in Skipping(s) : c[1] \in 0 .. N BY DEF Skipping
<1> HIDE DEF N
<1>3. ASSUME NEW n \in 0 .. N, n = N \/ n + 1 \notin Bad PROVE n \notin Bad
  <2>1. PICK f : Skips(f, s, D(n + 1))
    <3>1. CASE n = N
      <4> DEFINE g == [c \in D(n + 1) |-> 0]
      <4>1. ASSUME NEW c \in D(n + 1) PROVE FALSE
        <5>1. c[1] \in 0 .. N /\ c[1] >= n + 1 BY <1>2
        <5> QED BY <1>1, <3>1, <5>1
      <4>2. D(n + 1) = {} BY <4>1
      <4>3. Skips(g, s, D(n + 1)) BY <4>2 DEF Skips
      <4> HIDE DEF g
      <4> QED BY <4>3
    <3>2. CASE n # N
      <4>1. n + 1 \in 0 .. N BY <1>1, <3>2
      <4> QED BY <1>3, <3>2, <4>1
    <3> QED BY <3>1, <3>2
  <2> DEFINE g == [c \in D(n) |-> SkipAt(f, s, c)]
  <2>2. ASSUME NEW c \in D(n) PROVE SkipAt(f, s, c) = SkipAt(g, s, c)
    <3>1. ASSUME NEW d \in Skipping(s), d[1] > c[1] PROVE f[d] = g[d]
      <4>1. d[1] \in Int /\ c[1] \in Int /\ c[1] >= n /\ n \in Int BY <1>1, <1>2
      <4>2. d[1] >= n + 1 /\ d[1] >= n BY <3>1, <4>1
      <4>3. d \in D(n + 1) /\ d \in D(n) BY <4>2
      <4>4. f[d] = SkipAt(f, s, d) BY <2>1, <4>3 DEF Skips
      <4>5. g[d] = SkipAt(f, s, d) BY <4>3
      <4> QED BY <4>4, <4>5
    <3>2. c \in Skipping(s) OBVIOUS
    <3> HIDE DEF g
    <3> QED BY <3>1, <3>2, SkipsBehind
  <2>3. Skips(g, s, D(n)) BY <2>2 DEF Skips
  <2> HIDE DEF g
  <2> QED BY <2>3
<1>4. Bad = {}
  <2>1. \A n \in Bad : \E m \in Bad : m > n
    <3> SUFFICES ASSUME NEW n \in Bad PROVE \E m \in Bad : m > n OBVIOUS
    <3>1. n \in 0 .. N /\ n + 1 \in Bad BY <1>3
    <3>2. n + 1 > n BY <1>1, <3>1
    <3> QED BY <3>1, <3>2
  <2>2. Bad \subseteq 0 .. N OBVIOUS
  <2> HIDE DEF Bad
  <2> QED BY <1>1, <2>1, <2>2, NoLastPlace
<1>5. D(0) = Skipping(s)
  <2>1. \A c \in Skipping(s) : c[1] >= 0 BY <1>1, <1>2
  <2> QED BY <2>1
<1>6. 0 \in 0 .. N BY <1>1
<1> QED BY <1>4, <1>5, <1>6

\* What PostgreSQL's scanner skips in a text.
PgSkip(s) == CHOOSE f : Skips(f, s, Skipping(s))

LEMMA NextTokenIs ==
  ASSUME NEW s \in Seq(Byte)
  PROVE  /\ \A offset : NextToken(s, offset) = PgSkip(s)[<<offset, 0>>]
         /\ \A c \in Skipping(s) : PgSkip(s)[c] = SkipAt(PgSkip(s), s, c)
<1>1. \A offset : NextToken(s, offset) = PgSkip(s)[<<offset, 0>>]
  BY DEF NextToken, PgSkip, Skips, SkipAt, Skipping
<1>2. Skips(PgSkip(s), s, Skipping(s)) BY SkipsExist DEF PgSkip
<1>3. \A c \in Skipping(s) : PgSkip(s)[c] = SkipAt(PgSkip(s), s, c)
  <2> DEFINE f == PgSkip(s)
  <2>1. f = [c \in Skipping(s) |-> SkipAt(f, s, c)] BY <1>2 DEF Skips
  <2> HIDE DEF f
  <2>2. \A c \in Skipping(s) : f[c] = SkipAt(f, s, c) BY <2>1
  <2> QED BY <2>2 DEF f
<1> QED BY <1>1, <1>3

\* No token is found in a comment.
LEMMA CommentSkipped ==
  ASSUME NEW s \in Seq(Byte), NEW a \in Nat, NEW b \in Nat, IsComment(s, a, b),
         NEW offset \in 0 .. Len(s), offset <= a \/ offset >= b + 2
  PROVE  NextToken(s, offset) \notin a .. b + 1
<1> DEFINE N == Len(s)
           R == PgSkip(s)
           Beside(c) == c[1] <= a \/ c[1] >= b + 2 \/ (c[1] >= a + 2 /\ c[1] <= b /\ c[2] > 0)
           Bad == {c \in Skipping(s) : Beside(c) /\ R[c] \in a .. b + 1}
           B == {c[1] : c \in Bad}
<1>1. N \in Nat BY LenProperties
<1>2. /\ a + 2 <= b /\ At(s, a) = "/" /\ At(s, a + 1) = "*" /\ At(s, b) = "*" /\ At(s, a - 1) # "*"
      /\ IsPair(s, a, "/", "*") /\ IsPair(s, b, "*", "/")
      /\ \A k \in a + 2 .. b - 1 : ~IsPair(s, k, "/", "*") /\ ~IsPair(s, k, "*", "/")
  BY DEF IsComment, IsPair
<1>3. b + 2 <= N
  <2>1. b + 1 \in 0 .. N - 1 BY DEF IsComment, IsPair, At
  <2> QED BY <1>1, <2>1
<1>4. \A c \in Skipping(s) : R[c] = SkipAt(R, s, c) BY NextTokenIs
<1> HIDE DEF R
<1>5. ASSUME NEW c \in Bad PROVE \E d \in Bad : d[1] > c[1]
  <2> DEFINE k == c[1]
             n == c[2]
  <2>1. c \in Skipping(s) /\ Beside(c) /\ R[c] = SkipAt(R, s, c) /\ R[c] \in a .. b + 1 BY <1>4
  <2>2. k \in 0 .. N /\ n \in Nat /\ (k <= a \/ k >= b + 2 \/ (k >= a + 2 /\ k <= b /\ n > 0))
    BY <2>1 DEF Skipping
  <2>3. /\ k + 2 > k /\ k + 1 > k
        /\ IsPair(s, k, "/", "*") => <<k + 2, n + 1>> \in Skipping(s)
        /\ n > 0 /\ IsPair(s, k, "*", "/") => <<k + 2, n - 1>> \in Skipping(s)
        /\ k # N => <<k + 1, n>> \in Skipping(s)
    BY <2>2, SkippedTo
  <2>4. /\ k = a => IsPair(s, k, "/", "*") /\ ~IsPair(s, k, "*", "/")
        /\ k = b => ~IsPair(s, k, "/", "*") /\ IsPair(s, k, "*", "/")
        /\ k = a - 1 => ~IsPair(s, k, "/", "*") /\ ~IsPair(s, k, "*", "/")
        /\ k >= a + 2 /\ k < b => ~IsPair(s, k, "/", "*") /\ ~IsPair(s, k, "*", "/")
    <3> HIDE DEF k
    <3>1. k >= a + 2 /\ k < b => k \in a + 2 .. b - 1 BY <2>2
    <3>2. k = a - 1 => k + 1 = a BY <2>2
    <3>3. k = a => At(s, k) # "*" BY <1>2
    <3>4. k = b => At(s, k) # "/" BY <1>2
    <3> QED BY <1>2, <3>1, <3>2, <3>3, <3>4 DEF IsPair
  <2>5. CASE k = N
    <3>1. R[c] = N \/ R[c] = -1 BY <2>1, <2>5 DEF SkipAt
    <3> HIDE DEF k, n
    <3> QED BY <1>1, <1>3, <2>1, <3>1
  <2>6. ASSUME NEW m, NEW l, <<m, l>> \in Skipping(s), R[c] = R[<<m, l>>], m > k,
               m <= a \/ m >= b + 2 \/ (m >= a + 2 /\ m <= b /\ l > 0)
        PROVE  \E d \in Bad : d[1] > c[1]
    <3> DEFINE d == <<m, l>>
    <3>1. d[1] = m /\ d[2] = l OBVIOUS
    <3>2. R[d] \in a .. b + 1 /\ d \in Skipping(s) BY <2>1, <2>6
    <3>3. Beside(d) BY <2>6, <3>1
    <3>4. d \in Bad BY <3>2, <3>3
    <3>5. d[1] > c[1] BY <2>6, <3>1
    <3> HIDE DEF d, Bad
    <3> QED BY <3>4, <3>5
  <2> HIDE DEF Bad
  <2>7. CASE k # N /\ IsPair(s, k, "/", "*")
    <3>1. R[c] = R[<<k + 2, n + 1>>] BY <2>1, <2>7 DEF SkipAt
    <3> HIDE DEF k, n
    <3>2. k + 2 <= a \/ k + 2 >= b + 2 \/ (k + 2 >= a + 2 /\ k + 2 <= b /\ n + 1 > 0)
      BY <1>2, <2>2, <2>4, <2>7
    <3> QED BY <2>3, <2>6, <2>7, <3>1, <3>2
  <2>8. CASE k # N /\ ~IsPair(s, k, "/", "*") /\ n > 0 /\ IsPair(s, k, "*", "/")
    <3>1. R[c] = R[<<k + 2, n - 1>>] BY <2>1, <2>8 DEF SkipAt
    <3> HIDE DEF k, n
    <3>2. k + 2 <= a \/ k + 2 >= b + 2 BY <1>2, <2>2, <2>4, <2>8
    <3> QED BY <2>3, <2>6, <2>8, <3>1, <3>2
  <2>9. CASE /\ k # N /\ ~IsPair(s, k, "/", "*") /\ ~(n > 0 /\ IsPair(s, k, "*", "/"))
             /\ n > 0 \/ At(s, k) = " "
    <3>1. R[c] = R[<<k + 1, n>>] BY <2>1, <2>9 DEF SkipAt
    <3> HIDE DEF k, n
    <3>2. k # a BY <2>4, <2>9, Zenon
    <3>3. k # b
      <4>1. k = b => ~(n > 0) BY <2>4, <2>9, Zenon
      <4>2. k = b => At(s, k) = "*" BY <1>2
      <4> QED BY <2>9, <4>1, <4>2
    <3>4. a + 2 <= b BY <1>2
    <3>5. k + 1 <= a \/ k + 1 >= b + 2 \/ (k + 1 >= a + 2 /\ k + 1 <= b /\ n > 0)
      BY <1>1, <2>2, <3>2, <3>3, <3>4
    <3>6. k # N BY <2>9
    <3> QED BY <2>3, <2>6, <3>1, <3>5, <3>6
  <2>10. CASE /\ k # N /\ ~IsPair(s, k, "/", "*") /\ ~(n > 0) /\ At(s, k) # " "
    <3>1. R[c] = k BY <2>1, <2>10 DEF SkipAt
    <3> HIDE DEF k, n
    <3>2. k # a BY <2>4, <2>10, Zenon
    <3>3. ~(n > 0) BY <2>10
    <3>4. k < a \/ k >= b + 2 BY <1>1, <2>2, <3>2, <3>3
    <3> QED BY <1>1, <2>1, <2>2, <3>1, <3>4
  <2> HIDE DEF k, n
  <2> QED BY <2>5, <2>7, <2>8, <2>9, <2>10
<1>6. B = {}
  <2>1. \A n \in B : \E m \in B : m > n
    <3> HIDE DEF Bad
    <3> QED BY <1>5
  <2>2. B \subseteq 0 .. N BY DEF Skipping
  <2> HIDE DEF B
  <2> QED BY <1>1, <2>1, <2>2, NoLastPlace
<1> DEFINE c == <<offset, 0>>
<1>7. c \in Skipping(s) /\ c[1] = offset BY DEF Skipping
<1>8. Beside(c) BY <1>7
<1>9. c \notin Bad
  <2>1. c \in Bad => c[1] \in B OBVIOUS
  <2> HIDE DEF Bad, B
  <2> QED BY <1>6, <2>1
<1>10. R[c] \notin a .. b + 1 BY <1>7, <1>8, <1>9
<1> QED BY <1>10, NextTokenIs DEF R

----------------------------------------------------------------------------
(* Only the statement's own text is written. *)

\* The bytes that tell what is whose.
Told == {"/", "*", "sibling", "secret"}

\* s is what is told of the statement's place in the text, from offset a on.
StandsAt(s, a) ==
  /\ \A k \in 0 .. Len(s) - 1 :
       a + k \in Own(text, range) /\ \A w \in Told : At(s, k) = w <=> At(text, a + k) = w
  /\ \A k \in Own(text, range) : At(text, k) \in Told => k - a \in 0 .. Len(s) - 1

LEMMA LossyKeeps ==
  ASSUME NEW s, Plain(s), NEW k \in 0 .. Len(s) - 1, NEW w \in Told
  PROVE  At(Lossy(s), k) = w <=> At(s, k) = w
<1>1. Len(s) \in Nat BY LenProperties DEF Plain
<1>2. Len(Lossy(s)) = Len(s) BY LossyIsWhole
<1>3. k + 1 \in 1 .. Len(s) BY <1>1
<1>4. At(Lossy(s), k) = Lossy(s)[k + 1] /\ At(s, k) = s[k + 1] BY <1>2 DEF At
<1>5. Lossy(s)[k + 1] = s[k + 1] \/ (Lossy(s)[k + 1] = "U+FFFD" /\ s[k + 1] \in {"e1", "e2"})
  BY <1>3 DEF Lossy
<1> QED BY <1>4, <1>5 DEF Told

LEMMA StatementStands ==
  ASSUME Plain(text), range \in Int \X Int, NEW s \in current_statement
  PROVE  \E a \in Nat : StandsAt(s, a)
<1>1. text \in Seq(Byte) /\ Len(text) \in Nat BY LenProperties DEF Plain
<1>2. PICK a \in 0 .. Len(text), b \in 0 .. Len(text) :
        /\ s = Lossy(Slice(text, a, b))
        /\ a .. b - 1 \subseteq Own(text, range)
        /\ \A k \in Own(text, range) : At(text, k) # " " => k \in a .. b - 1
  BY <1>1, StatementIs
<1> DEFINE p == Slice(text, a, b)
<1>3. /\ p \in Seq(Byte) /\ Len(p) = IF a < b THEN b - a ELSE 0
      /\ \A k \in 1 .. Len(p) : p[k] = text[a + k]
  <2>1. text \in Seq(Byte) /\ a \in Nat /\ b \in Int /\ b <= Len(text) BY <1>1
  <2> QED BY ONLY <2>1, SliceIsText
<1> HIDE DEF p
<1>4. \A k \in 1 .. Len(p) : a + k \in 1 .. Len(text) BY <1>1, <1>3
<1>5. Plain(p) BY <1>1, <1>3, <1>4 DEF Plain
<1>6. s = Lossy(p) /\ Len(s) = Len(p)
  <2>1. s = Lossy(p) BY <1>2 DEF p
  <2> QED BY <1>5, <2>1, LossyIsWhole
<1>7. ASSUME NEW k \in 0 .. Len(s) - 1
      PROVE  a + k \in Own(text, range) /\ \A w \in Told : At(s, k) = w <=> At(text, a + k) = w
  <2>1. k \in 0 .. Len(p) - 1 /\ k + 1 \in 1 .. Len(p) /\ a + k \in a .. b - 1
    <3> DEFINE n == Len(p)
    <3>1. k \in 0 .. n - 1 /\ n = (IF a < b THEN b - a ELSE 0) BY <1>3, <1>6
    <3>2. a \in Int /\ b \in Int BY <1>1
    <3> HIDE DEF n
    <3>3. k \in 0 .. n - 1 /\ k + 1 \in 1 .. n /\ a + k \in a .. b - 1 BY ONLY <3>1, <3>2
    <3> QED BY <3>3 DEF n
  <2>2. a + k \in 0 .. Len(text) - 1 BY <1>1, <2>1
  <2>3. a + (k + 1) = (a + k) + 1 BY <2>1
  <2>4. At(p, k) = At(text, a + k) BY <1>3, <2>1, <2>2, <2>3 DEF At
  <2>5. \A w \in Told : At(s, k) = w <=> At(p, k) = w BY <1>5, <1>6, <2>1, LossyKeeps
  <2> QED BY <1>2, <2>1, <2>4, <2>5
<1>8. ASSUME NEW k \in Own(text, range), At(text, k) \in Told
      PROVE  k - a \in 0 .. Len(s) - 1
  <2>1. At(text, k) # " " BY <1>8 DEF Told
  <2>2. k \in a .. b - 1 BY <1>2, <2>1
  <2> QED BY <1>1, <1>3, <1>6, <2>2
<1>9. StandsAt(s, a) BY <1>7, <1>8 DEF StandsAt
<1>10. a \in Nat BY <1>1
<1> QED BY <1>9, <1>10

\* A comment of the statement is one in what is cut out.
LEMMA CommentStands ==
  ASSUME NEW s \in Seq(Byte), text \in Seq(Byte), NEW a \in Nat, StandsAt(s, a),
         NEW ca \in Own(text, range), NEW cb \in Own(text, range),
         cb + 1 \in Own(text, range), IsComment(text, ca, cb)
  PROVE  ca - a \in Nat /\ cb - a \in Nat /\ IsComment(s, ca - a, cb - a)
<1>1. Len(s) \in Nat /\ Len(text) \in Nat BY LenProperties
<1>2. ca \in Int /\ cb \in Int /\ ca + 2 <= cb BY DEF Own, IsComment
<1>3. At(text, ca) = "/" /\ At(text, ca + 1) = "*" /\ At(text, cb) = "*" /\ At(text, cb + 1) = "/"
  BY DEF IsComment, IsPair
<1>4. ca - a \in 0 .. Len(s) - 1 /\ (cb + 1) - a \in 0 .. Len(s) - 1
  BY <1>3 DEF StandsAt, Told
<1> DEFINE x == ca - a
           y == cb - a
<1>5. x \in Nat /\ y \in Nat /\ x + 2 <= y /\ y + 1 <= Len(s) - 1 /\ a + x = ca /\ a + y = cb
  BY <1>1, <1>2, <1>4
<1> HIDE DEF x, y
<1>6. ASSUME NEW k \in 0 .. Len(s) - 1, NEW w \in Told
      PROVE  At(s, k) = w <=> At(text, a + k) = w
  BY DEF StandsAt
<1>7. "/" \in Told /\ "*" \in Told BY DEF Told
<1>8. ASSUME NEW k \in x .. y, NEW v \in {"/", "*"}, NEW w \in {"/", "*"}
      PROVE  IsPair(s, k, v, w) <=> IsPair(text, a + k, v, w)
  <2>1. k \in 0 .. Len(s) - 1 /\ k + 1 \in 0 .. Len(s) - 1 /\ a + (k + 1) = (a + k) + 1
    BY <1>1, <1>5
  <2>2. v \in Told /\ w \in Told BY <1>7
  <2>3. At(s, k) = v <=> At(text, a + k) = v BY <1>6, <2>1, <2>2
  <2>4. At(s, k + 1) = w <=> At(text, (a + k) + 1) = w BY <1>6, <2>1, <2>2
  <2> QED BY <2>3, <2>4 DEF IsPair
<1>9. IsPair(s, x, "/", "*") /\ IsPair(s, y, "*", "/")
  <2>1. x \in x .. y /\ y \in x .. y BY <1>5
  <2>2. IsPair(text, a + x, "/", "*") /\ IsPair(text, a + y, "*", "/") BY <1>5 DEF IsComment
  <2> QED BY <1>8, <2>1, <2>2
<1>10. At(s, x - 1) # "*"
  <2>1. CASE x = 0
    <3>1. x - 1 \notin 0 .. Len(s) - 1 BY <1>1, <2>1
    <3> QED BY <3>1 DEF At
  <2>2. CASE x # 0
    <3>1. x - 1 \in 0 .. Len(s) - 1 /\ a + (x - 1) = ca - 1 BY <1>1, <1>5, <2>2
    <3>2. At(text, ca - 1) # "*" BY DEF IsComment
    <3> QED BY <1>6, <1>7, <3>1, <3>2
  <2> QED BY <2>1, <2>2
<1>11. ASSUME NEW k \in x + 2 .. y - 1 PROVE ~IsPair(s, k, "/", "*") /\ ~IsPair(s, k, "*", "/")
  <2>1. k \in x .. y /\ a + k \in ca + 2 .. cb - 1 BY <1>1, <1>2, <1>5
  <2>2. ~IsPair(text, a + k, "/", "*") /\ ~IsPair(text, a + k, "*", "/")
    BY <2>1 DEF IsComment
  <2> QED BY <1>8, <2>1, <2>2
<1>12. IsComment(s, x, y) BY <1>5, <1>9, <1>10, <1>11 DEF IsComment
<1> QED BY <1>5, <1>12 DEF x, y

\* Nothing in s is of another statement, and what is secret is in its comments.
Hides(s) ==
  \A k \in 0 .. Len(s) - 1 :
    /\ At(s, k) # "sibling"
    /\ At(s, k) = "secret" => \E a, b \in Nat : IsComment(s, a, b) /\ k \in a .. b + 1

\* What the statement hides stays hidden while it is not written.
LEMMA HidesStill ==
  ASSUME input.kind = "statement" => Hides(stmt), stmt' = stmt, input' = input
  PROVE  (input.kind = "statement" => Hides(stmt))'
<1>1. \A a, b : IsComment(stmt, a, b)' <=> IsComment(stmt, a, b) BY DEF IsComment, IsPair, At
<1>2. \A k : At(stmt, k)' = At(stmt, k) BY DEF At
<1>3. Hides(stmt)' <=> Hides(stmt) BY <1>1, <1>2 DEF Hides
<1> QED BY <1>3

\* Nothing writes what is given.
InputInv == input \in Inputs /\ text = input.text /\ range = input.range

LEMMA StatementHides ==
  ASSUME GivenInv, InputInv, input.kind = "statement", NEW s \in current_statement
  PROVE  Hides(s)
<1>1. Plain(text) /\ range \in Int \X Int /\ text \in Seq(Byte) BY DEF GivenInv, Plain
<1>2. s \in Seq(Byte) BY <1>1, StatementIsWhole DEF Plain
<1>3. PICK c \in Nat : StandsAt(s, c) BY <1>1, StatementStands
<1>4. \A k \in Own(text, range) :
        /\ At(text, k) # "sibling"
        /\ At(text, k) = "secret" =>
             \E a, b \in Own(text, range) :
               /\ a + 2 <= k /\ k < b /\ b + 1 \in Own(text, range)
               /\ IsComment(text, a, b)
  BY StatementInputAssumption DEF InputInv
<1>5. ASSUME NEW k \in 0 .. Len(s) - 1
      PROVE  /\ At(s, k) # "sibling"
             /\ At(s, k) = "secret" => \E a, b \in Nat : IsComment(s, a, b) /\ k \in a .. b + 1
  <2>1. c + k \in Own(text, range) BY <1>3 DEF StandsAt
  <2>2. /\ At(s, k) = "sibling" <=> At(text, c + k) = "sibling"
        /\ At(s, k) = "secret" <=> At(text, c + k) = "secret"
    BY <1>3 DEF StandsAt, Told
  <2>3. At(s, k) # "sibling" BY <1>4, <2>1, <2>2
  <2>4. ASSUME At(s, k) = "secret" PROVE \E a, b \in Nat : IsComment(s, a, b) /\ k \in a .. b + 1
    <3>1. PICK a \in Own(text, range), b \in Own(text, range) :
            /\ a + 2 <= c + k /\ c + k < b /\ b + 1 \in Own(text, range)
            /\ IsComment(text, a, b)
      BY <1>4, <2>1, <2>2, <2>4
    <3>2. a - c \in Nat /\ b - c \in Nat /\ IsComment(s, a - c, b - c)
      BY <1>1, <1>2, <1>3, <3>1, CommentStands
    <3>3. a \in Int /\ b \in Int BY DEF Own
    <3>4. k \in a - c .. (b - c) + 1
      <4> HIDE DEF StandsAt
      <4>1. a + 2 <= c + k /\ c + k < b BY <3>1
      <4> QED BY <3>3, <4>1
    <3> QED BY <3>2, <3>4
  <2> QED BY <2>3, <2>4
<1> QED BY <1>5 DEF Hides

\* No token is in a comment, and the scanner does not stand in one.
OutsideInv ==
  \A a, b \in Nat :
    IsComment(stmt, a, b) =>
      /\ Scanned <= a \/ Scanned >= b + 2
      /\ \A k \in 1 .. Len(tokens) : tokens[k].start \notin a .. b + 1

\* What is written is the statement's own, and not a comment's when it is normalized.
OwnWordsInv ==
  input.kind = "statement" =>
    /\ "sibling" \notin Words(out)
    /\ mode = "normalized" => "secret" \notin Words(out)

OwnInv ==
  /\ InputInv
  /\ input.kind = "statement" => Hides(stmt)
  /\ OutsideInv /\ OwnWordsInv /\ OnlyItsText

\* A token that begins outside a comment ends outside.
LEMMA TokenOutside ==
  ASSUME stmt \in Seq(Byte), NEW a \in Nat, NEW b \in Nat, IsComment(stmt, a, b),
         NEW start \in 0 .. Len(stmt) - 1, start \notin a .. b + 1
  PROVE  TokenEnd(start) <= a \/ TokenEnd(start) >= b + 2
<1>1. Len(stmt) \in Nat BY LenProperties
<1>2. start \in Nat /\ (start < a \/ start >= b + 2) BY <1>1
<1>3. CASE IsPair(stmt, start, "e1", "e2")
  <2>1. At(stmt, start + 1) = "e2" /\ At(stmt, a) = "/" BY <1>3 DEF IsPair, IsComment
  <2>2. start + 1 # a BY <2>1
  <2>3. TokenEnd(start) = start + 2 BY <1>3 DEF TokenEnd
  <2> QED BY <1>2, <2>2, <2>3
<1>4. CASE ~IsPair(stmt, start, "e1", "e2")
  <2>1. TokenEnd(start) = start + 1 BY <1>4 DEF TokenEnd
  <2> QED BY <1>2, <2>1
<1> QED BY <1>3, <1>4

\* Where the scanner stands is inside the statement.
LEMMA ScannedInside ==
  ASSUME SanitizeInv
  PROVE  Scanned \in 0 .. Len(stmt)
<1>1. Len(stmt) \in Nat /\ tokens \in Seq(TokensOf) /\ Len(tokens) \in Nat
  BY LenProperties DEF SanitizeInv, LexInv, Plain
<1>2. CASE tokens = << >> BY <1>1, <1>2 DEF Scanned
<1>3. CASE tokens # << >>
  <2>1. Len(tokens) \in 1 .. Len(tokens) BY <1>1, <1>3, EmptySeq
  <2>2. tokens[Len(tokens)] \in TokensOf BY <1>1, <2>1, ElementOfSeq
  <2>3. tokens[Len(tokens)].end \in 1 .. Len(stmt) BY <2>2, TokenIs DEF SanitizeInv, LexInv
  <2> QED BY <1>3, <2>3 DEF Scanned
<1> QED BY <1>2, <1>3

\* The next token is found outside all comments.
LEMMA ScanTokenOutside ==
  ASSUME SanitizeInv, OutsideInv, ScanToken
  PROVE  OutsideInv'
<1> DEFINE start == NextToken(stmt, Scanned)
<1>1. /\ stmt' = stmt /\ start \in 0 .. Len(stmt) - 1
      /\ tokens' = Append(tokens, Token(start))
  BY DEF ScanToken
<1>2. stmt \in Seq(Byte) /\ tokens \in Seq(TokensOf) /\ Len(tokens) \in Nat
  BY LenProperties DEF SanitizeInv, LexInv, Plain
<1>3. Scanned \in 0 .. Len(stmt) BY ScannedInside
<1>4. Token(start) \in TokensOf BY <1>1 DEF TokensOf
<1>5. /\ tokens' \in Seq(TokensOf) /\ Len(tokens') = Len(tokens) + 1
      /\ \A k \in 1 .. Len(tokens) : tokens'[k] = tokens[k]
      /\ tokens'[Len(tokens) + 1] = Token(start)
  <2> DEFINE t == Token(start)
             T == TokensOf
  <2>1. t \in T /\ tokens \in Seq(T) /\ tokens' = Append(tokens, t) BY <1>1, <1>2, <1>4
  <2> HIDE DEF t, T
  <2>2. /\ Append(tokens, t) \in Seq(T) /\ Len(Append(tokens, t)) = Len(tokens) + 1
        /\ \A k \in 1 .. Len(tokens) : Append(tokens, t)[k] = tokens[k]
        /\ Append(tokens, t)[Len(tokens) + 1] = t
    BY <2>1, AppendProperties
  <2> QED BY <2>1, <2>2 DEF t, T
<1> HIDE DEF start
<1>6. Token(start).start = start /\ Token(start).end = TokenEnd(start) BY DEF Token
<1>7. Scanned' = TokenEnd(start)
  <2>1. tokens' # << >> BY <1>2, <1>5, EmptySeq
  <2> QED BY <1>5, <1>6, <2>1 DEF Scanned
<1>8. ASSUME NEW a \in Nat, NEW b \in Nat, IsComment(stmt, a, b)
      PROVE  /\ TokenEnd(start) <= a \/ TokenEnd(start) >= b + 2
             /\ \A k \in 1 .. Len(tokens') : tokens'[k].start \notin a .. b + 1
  <2>1. Scanned <= a \/ Scanned >= b + 2 BY <1>8 DEF OutsideInv
  <2>2. start \notin a .. b + 1 BY <1>2, <1>3, <1>8, <2>1, CommentSkipped DEF start
  <2>3. TokenEnd(start) <= a \/ TokenEnd(start) >= b + 2
    BY <1>1, <1>2, <1>8, <2>2, TokenOutside DEF start
  <2>4. ASSUME NEW k \in 1 .. Len(tokens') PROVE tokens'[k].start \notin a .. b + 1
    <3>1. CASE k \in 1 .. Len(tokens)
      <4>1. tokens[k].start \notin a .. b + 1 BY <1>8, <3>1 DEF OutsideInv
      <4> QED BY <1>5, <3>1, <4>1
    <3>2. CASE k = Len(tokens) + 1 BY <1>5, <1>6, <2>2, <3>2
    <3> QED BY <1>2, <1>5, <3>1, <3>2
  <2> QED BY <2>3, <2>4
<1>9. \A a, b : IsComment(stmt, a, b)' <=> IsComment(stmt, a, b)
  BY <1>1 DEF IsComment, IsPair, At
<1> QED BY <1>7, <1>8, <1>9 DEF OutsideInv

\* The words that one token adds: a blank, a placeholder, a character or its word.
LEMMA EmittedWords ==
  ASSUME SanitizeInv, Emit
  PROVE  /\ token_index \in 1 .. Len(tokens)
         /\ Words(out') \subseteq
              Words(out) \cup {" ", "$", "e1", "e2", At(stmt, tokens[token_index].start)}
<1> DEFINE n == Len(out)
           total == Len(out')
           first == At(stmt, tokens[token_index].start)
           New == {" ", "$", "e1", "e2", first}
<1>1. n \in Nat BY LenProperties DEF SanitizeInv, WrittenInv
<1>2. token_index \in 1 .. Len(tokens) /\ \A k \in 1 .. n : out'[k] = out[k] BY EmitIs
<1>3. \E g \in {0, 1}, m \in {1, 2} :
        /\ Len(out') = n + g + m
        /\ g = 1 => out'[n + 1].w = " "
        /\ \/ m = 1 /\ out'[n + g + 1] = Piece("$", next_placeholder)
           \/ m = 1 /\ out'[n + g + 1].w = first
           \/ m = 2 /\ out'[n + g + 1].w = "e1" /\ out'[n + g + 2].w = "e2"
  BY EmitIs
<1>4. Piece("$", next_placeholder).w = "$" BY DEF Piece
<1> HIDE DEF first, n, total
<1>5. ASSUME NEW k \in 1 .. total PROVE out'[k].w \in Words(out) \cup New
  <2>1. PICK g \in {0, 1}, m \in {1, 2} :
          /\ Len(out') = n + g + m
          /\ g = 1 => out'[n + 1].w = " "
          /\ \/ m = 1 /\ out'[n + g + 1] = Piece("$", next_placeholder)
             \/ m = 1 /\ out'[n + g + 1].w = first
             \/ m = 2 /\ out'[n + g + 1].w = "e1" /\ out'[n + g + 2].w = "e2"
    BY <1>3
  <2>2. CASE k \in 1 .. n
    <3>1. out[k].w \in Words(out) BY <2>2 DEF Words, n
    <3> QED BY <1>2, <2>2, <3>1
  <2>3. CASE k = n + 1 /\ g = 1 BY <2>1, <2>3
  <2>4. CASE k = n + g + 1
    <3>1. out'[k].w \in {"$", "e1", first} BY <1>4, <2>1, <2>4
    <3> QED BY <3>1
  <2>5. CASE k = n + g + 2 /\ m = 2
    <3>1. m # 1 BY <2>5
    <3>2. out'[n + g + 2].w = "e2" BY <2>1, <3>1, Zenon
    <3> QED BY <2>5, <3>2
  <2>6. k \in 1 .. n \/ (k = n + 1 /\ g = 1) \/ k = n + g + 1 \/ (k = n + g + 2 /\ m = 2)
    <3>1. total = n + g + m BY <2>1 DEF total
    <3> QED BY ONLY <1>1, <3>1
  <2> QED BY <2>2, <2>3, <2>4, <2>5, <2>6
<1>6. Words(out') \subseteq Words(out) \cup New BY <1>5 DEF Words, total
<1> QED BY <1>2, <1>6 DEF first

\* The statement that is cut out hides what is not its own; in raw mode it is written.
LEMMA ExtractOwn ==
  ASSUME SanitizeInv, OwnInv, Extract, text' = text, input' = input
  PROVE  (input.kind = "statement" => Hides(stmt))' /\ OutsideInv' /\ OwnWordsInv'
<1>1. /\ mode' = mode /\ tokens' = tokens /\ step = "extract" BY DEF Extract
<1>2. tokens = << >> /\ out = << >> BY <1>1 DEF SanitizeInv, LexInv, WrittenInv
<1>3. OutsideInv'
  <2>1. tokens' = << >> /\ Scanned' = 0 BY <1>1, <1>2 DEF Scanned
  <2>2. \A k : k \notin 1 .. Len(tokens') BY <2>1
  <2> QED BY <2>1, <2>2 DEF OutsideInv
<1>4. CASE stmt' = stmt /\ out' = out
  <2>1. (input.kind = "statement" => Hides(stmt))' BY <1>4, HidesStill DEF OwnInv
  <2>2. OwnWordsInv' BY <1>1, <1>4 DEF OwnInv, OwnWordsInv
  <2> QED BY <1>3, <2>1, <2>2
<1>5. ASSUME NEW s \in current_statement,
             stmt' = s, out' = (IF mode = "raw" THEN Pieces(s) ELSE << >>)
      PROVE  (input.kind = "statement" => Hides(stmt))' /\ OwnWordsInv'
  <2>1. Hides(s) \/ input.kind # "statement" BY StatementHides DEF SanitizeInv, OwnInv
  <2>2. (input.kind = "statement" => Hides(stmt))'
    BY <1>5, <2>1 DEF Hides, IsComment, IsPair, At
  <2>3. s \in Seq(Byte) /\ Len(s) \in Nat
    BY StatementIsWhole, LenProperties DEF SanitizeInv, GivenInv, Plain
  <2>4. CASE mode = "raw" /\ input.kind = "statement"
    <3>1. Len(out') = Len(s) /\ \A k \in 1 .. Len(s) : out'[k].w = s[k]
      BY <1>5, <2>3, <2>4, PiecesAre
    <3>2. ASSUME NEW k \in 1 .. Len(s) PROVE s[k] # "sibling"
      <4>1. k - 1 \in 0 .. Len(s) - 1 /\ (k - 1) + 1 = k BY <2>3
      <4>2. At(s, k - 1) # "sibling" BY <2>1, <2>4, <4>1 DEF Hides
      <4> QED BY <4>1, <4>2 DEF At
    <3>3. "sibling" \notin Words(out') BY <3>1, <3>2 DEF Words
    <3> QED BY <1>1, <2>2, <2>4, <3>3 DEF OwnWordsInv
  <2>5. CASE mode # "raw"
    <3>1. out' = << >> /\ Len(out') = 0 BY <1>5, <2>5
    <3>2. "sibling" \notin Words(out') /\ "secret" \notin Words(out') BY <3>1 DEF Words
    <3> QED BY <2>2, <3>2 DEF OwnWordsInv
  <2>6. CASE input.kind # "statement" BY <2>2, <2>6 DEF OwnWordsInv
  <2> QED BY <2>2, <2>4, <2>5, <2>6
<1>6. \/ stmt' = stmt /\ out' = out
      \/ \E s \in current_statement :
           stmt' = s /\ out' = (IF mode = "raw" THEN Pieces(s) ELSE << >>)
  BY DEF Extract
<1> QED BY <1>3, <1>4, <1>5, <1>6

\* A token's word is no other statement's, and no comment's.
LEMMA EmitOwn ==
  ASSUME SanitizeInv, OwnInv, Emit, input' = input
  PROVE  OwnWordsInv'
<1> SUFFICES ASSUME input.kind = "statement"
             PROVE  /\ "sibling" \notin Words(out')
                    /\ mode = "normalized" => "secret" \notin Words(out')
  <2>1. mode' = mode BY DEF Emit
  <2> QED BY <2>1 DEF OwnWordsInv
<1> DEFINE start == tokens[token_index].start
           first == At(stmt, start)
<1>1. /\ token_index \in 1 .. Len(tokens)
      /\ Words(out') \subseteq Words(out) \cup {" ", "$", "e1", "e2", first}
  BY EmittedWords
<1>2. start \in 0 .. Len(stmt) - 1
  <2>1. tokens[token_index] \in TokensOf BY <1>1, ElementOfSeq DEF SanitizeInv, LexInv
  <2> QED BY <2>1 DEF TokensOf, Token
<1>3. first # "sibling" /\ first # "secret"
  <2>1. /\ first # "sibling"
        /\ first = "secret" => \E a, b \in Nat : IsComment(stmt, a, b) /\ start \in a .. b + 1
    BY <1>2 DEF OwnInv, Hides
  <2>2. ASSUME NEW a \in Nat, NEW b \in Nat, IsComment(stmt, a, b) PROVE start \notin a .. b + 1
    BY <1>1, <2>2 DEF OwnInv, OutsideInv
  <2> HIDE DEF first, start
  <2> QED BY <2>1, <2>2
<1>4. "sibling" \notin Words(out) /\ (mode = "normalized" => "secret" \notin Words(out))
  BY DEF OwnInv, OwnWordsInv
<1> HIDE DEF first
<1> QED BY <1>1, <1>3, <1>4

\* Neither is a mark.
LEMMA CompactOwn ==
  ASSUME SanitizeInv, OwnInv, Compact, input' = input
  PROVE  OwnWordsInv'
<1> DEFINE more == Piece("more", compactions[compaction_index].additional)
<1>1. mode' = mode /\ out' = Append(out, more) BY DEF Compact
<1>2. out \in Seq(PieceType) /\ Len(out) \in Nat /\ more.w = "more"
  BY LenProperties DEF SanitizeInv, WrittenInv, Piece
<1> HIDE DEF more
<1>3. /\ Len(out') = Len(out) + 1 /\ out'[Len(out) + 1] = more
      /\ \A k \in 1 .. Len(out) : out'[k] = out[k]
  BY <1>1, <1>2
<1>4. ASSUME NEW k \in 1 .. Len(out') PROVE out'[k].w \in Words(out) \cup {"more"}
  <2>1. CASE k \in 1 .. Len(out) BY <1>3, <2>1 DEF Words
  <2>2. CASE k = Len(out) + 1 BY <1>2, <1>3, <2>2
  <2>3. k \in 1 .. Len(out) \/ k = Len(out) + 1 BY <1>2, <1>3
  <2> QED BY <2>1, <2>2, <2>3
<1>5. Words(out') \subseteq Words(out) \cup {"more"} BY <1>4 DEF Words
<1> QED BY <1>1, <1>5 DEF OwnInv, OwnWordsInv

\* What is exported is part of what is written.
LEMMA TruncateOwn ==
  ASSUME SanitizeInv, OwnInv, Truncate, input' = input
  PROVE  OnlyItsText'
<1> DEFINE p == SubSeq(out, 1, truncate_utf8)
<1>1. exported' = {p} /\ mode' = mode BY DEF Truncate
<1>2. \A k \in 1 .. Len(p) : p[k].w \in Words(out)
  <2>1. Len(p) <= Len(out) /\ \A k \in 1 .. Len(p) : p[k] = out[k] BY CutOff
  <2> HIDE DEF p
  <2>2. \A k \in 1 .. Len(p) : k \in 1 .. Len(out) BY <2>1
  <2> QED BY <2>1, <2>2 DEF Words
<1> HIDE DEF p
<1>3. Words(p) \subseteq Words(out) BY <1>2 DEF Words
<1> QED BY <1>1, <1>3 DEF OwnInv, OwnWordsInv, OnlyItsText

\* Every step of the two scans keeps to the statement's own text.
LEMMA OwnStep == SanitizeInv /\ ExportInv /\ OwnInv /\ [Next]_vars => OwnInv'
<1> SUFFICES ASSUME SanitizeInv, ExportInv, OwnInv, [Next]_vars PROVE OwnInv' OBVIOUS
<1>1. text' = text /\ input' = input /\ (SanitizeNext \/ UNCHANGED sanitizeVars)
  BY DEF Next, vars, DecideParent, FromQuery, Finished
<1>2. range' = range
  BY <1>1 DEF SanitizeNext, Extract, ScanToken, ScanFails, EndOfInput, Compact, Emit, RenderEnd,
              Truncate, sanitizeVars
<1>3. InputInv' BY <1>1, <1>2 DEF OwnInv, InputInv
<1>4. ASSUME stmt' = stmt PROVE (input.kind = "statement" => Hides(stmt))'
  BY <1>1, <1>4, HidesStill DEF OwnInv
<1>5. ASSUME stmt' = stmt, tokens' = tokens PROVE OutsideInv'
  <2>1. \A a, b : IsComment(stmt, a, b)' <=> IsComment(stmt, a, b)
    BY <1>5 DEF IsComment, IsPair, At
  <2>2. Scanned' = Scanned BY <1>5 DEF Scanned
  <2>3. OutsideInv BY DEF OwnInv
  <2> QED BY <1>5, <2>1, <2>2, <2>3 DEF OutsideInv
<1>6. ASSUME out' = out, mode' = mode PROVE OwnWordsInv' BY <1>1, <1>6 DEF OwnInv, OwnWordsInv
<1>7. ASSUME exported' = exported, mode' = mode PROVE OnlyItsText'
  BY <1>1, <1>7 DEF OwnInv, OnlyItsText
<1>8. CASE Extract
  <2>1. exported' = exported /\ mode' = mode BY <1>8 DEF Extract
  <2> QED BY <1>1, <1>3, <1>7, <1>8, <2>1, ExtractOwn DEF OwnInv
<1>9. CASE ScanToken
  <2>1. stmt' = stmt /\ out' = out /\ exported' = exported /\ mode' = mode
    BY <1>9 DEF ScanToken, rendering
  <2>2. OutsideInv' BY <1>9, ScanTokenOutside DEF OwnInv
  <2> QED BY <1>3, <1>4, <1>6, <1>7, <2>1, <2>2 DEF OwnInv
<1>10. CASE Emit
  <2>1. stmt' = stmt /\ tokens' = tokens /\ exported' = exported /\ mode' = mode
    BY <1>10 DEF Emit
  <2>2. OwnWordsInv' BY <1>1, <1>10, EmitOwn
  <2> QED BY <1>3, <1>4, <1>5, <1>7, <2>1, <2>2 DEF OwnInv
<1>11. CASE Compact
  <2>1. stmt' = stmt /\ tokens' = tokens /\ exported' = exported /\ mode' = mode
    BY <1>11 DEF Compact
  <2>2. OwnWordsInv' BY <1>1, <1>11, CompactOwn
  <2> QED BY <1>3, <1>4, <1>5, <1>7, <2>1, <2>2 DEF OwnInv
<1>12. CASE Truncate
  <2>1. stmt' = stmt /\ tokens' = tokens /\ out' = out /\ mode' = mode
    BY <1>12 DEF Truncate, rendering
  <2>2. OnlyItsText' BY <1>1, <1>12, TruncateOwn
  <2> QED BY <1>3, <1>4, <1>5, <1>6, <2>1, <2>2 DEF OwnInv
<1>13. CASE ScanFails \/ EndOfInput \/ RenderEnd \/ UNCHANGED sanitizeVars
  <2>1. stmt' = stmt /\ tokens' = tokens /\ out' = out /\ exported' = exported /\ mode' = mode
    BY <1>13 DEF ScanFails, EndOfInput, RenderEnd, sanitizeVars, rendering
  <2> QED BY <1>3, <1>4, <1>5, <1>6, <1>7, <2>1 DEF OwnInv
<1> QED BY <1>1, <1>8, <1>9, <1>10, <1>11, <1>12, <1>13 DEF SanitizeNext

----------------------------------------------------------------------------

\* "With normalize_text the result never contains literal values", for every text,
\* location and length, and in every encoding.
THEOREM NoLiteralExported == Spec => []NothingRaw
BY AlwaysExport, PTL DEF ExportInv

\* A text is cut at its maximal length or a byte before it, never inside a character.
THEOREM CutBetweenCharacters == Spec => []CutAtCharacter
BY AlwaysExport, PTL DEF ExportInv

\* Words that are apart are rendered apart, whatever is left out between them.
THEOREM WordsStayApart == Spec => []NeverFused
BY AlwaysSanitize, PTL DEF SanitizeInv

\* Placeholders are above all parameters, whatever their numbers, and differ from each
\* other, also when the literals of a list are left out: as long as there is a number for
\* every literal, up to the last.
THEOREM PlaceholdersStayApart == Spec => []PlaceholdersApart
<1>1. SanitizeInv => PlaceholdersApart
  <2> SUFFICES ASSUME SanitizeInv, mode = "normalized", NumbersFit,
                      NEW j \in 1 .. Len(out), out[j].w = "$"
               PROVE  /\ \A k \in 1 .. Len(out) : k # j /\ out[k].w = "$" => out[k].n # out[j].n
                      /\ \A k \in 1 .. Len(tokens) :
                           \A p \in DOMAIN Params : Text(tokens[k]) = <<p>> => out[j].n > Params[p]
    BY DEF PlaceholdersApart
  <2>1. \A k \in 1 .. Len(out) : k # j /\ out[k].w = "$" => out[k].n # out[j].n
    BY DEF SanitizeInv, HoldersInv
  <2>2. ASSUME NEW k \in 1 .. Len(tokens), NEW p \in DOMAIN Params, Text(tokens[k]) = <<p>>
        PROVE  out[j].n > Params[p]
    <3>1. tokens[k] \in TokensOf BY ElementOfSeq DEF SanitizeInv, LexInv
    <3>2. Len(Text(tokens[k])) = 1 /\ Text(tokens[k])[1] = p BY <2>2
    <3>3. tokens[k].code.number = Params[p] BY <3>1, <3>2, TokenIs DEF SanitizeInv, LexInv
    <3>4. out[j].n > tokens[k].code.number BY DEF SanitizeInv, HoldersInv
    <3> QED BY <3>3, <3>4
  <2> QED BY <2>1, <2>2
<1> QED BY <1>1, AlwaysSanitize, PTL

\* The rendering misses no list that is to be shortened.
AllShortened ==
  step = "truncate" /\ mode # "raw" => compaction_index = Len(compactions) + 1

\* Each SELECT list that is kept for shortening is shortened, in the order in which
\* they stand: the rendering never passes the beginning of the next.
THEOREM EveryListShortened == Spec => []AllShortened
<1>1. SanitizeInv => AllShortened
  <2> SUFFICES ASSUME SanitizeInv, step = "truncate", mode # "raw",
                      compaction_index # Len(compactions) + 1
               PROVE  FALSE
    BY DEF AllShortened
  <2>1. /\ compactions \in Seq(Ranges(Len(tokens))) /\ Len(compactions) \in Nat
        /\ compaction_index \in 1 .. Len(compactions) + 1
        /\ Len(tokens) \in Nat /\ token_index = Len(tokens) + 1
    BY LenProperties DEF SanitizeInv, LexInv, ListInv
  <2>2. compaction_index \in 1 .. Len(compactions) BY <2>1
  <2>3. compactions[compaction_index] \in Ranges(Len(tokens)) BY <2>1, <2>2, ElementOfSeq
  <2>4. compactions[compaction_index].start \in 1 .. Len(tokens) BY <2>3 DEF Ranges
  <2>5. token_index <= compactions[compaction_index].start
    BY <2>1, <2>2 DEF SanitizeInv, ListInv
  <2> QED BY <2>1, <2>4, <2>5
<1> QED BY <1>1, AlwaysSanitize, PTL

\* "Inner text of every complete `/* ... */` comment in `text`, including comments nested
\* inside others": for every text the scan finds those that PostgreSQL's scanner does,
\* inner ones first, unless an operator that ends in `*` touches one.
THEOREM EveryCommentFound == Spec => []CommentsFound
<1>1. Init => CommentsInv
  BY DEF Init, ContextInit, CommentsInv, CommentsFound
<1>2. CommentsInv => CommentsFound BY DEF CommentsInv
<1> QED BY <1>1, <1>2, CommentsStep, AlwaysContext, PTL DEF Spec

\* "text of sibling statements is never exported": of a text with several statements no
\* word of another one is, in raw mode neither, and when the text is normalized no word of
\* a comment is.
THEOREM OnlyOwnText == Spec => []OnlyItsText
<1>1. Init => OwnInv
  <2> SUFFICES ASSUME Init PROVE OwnInv OBVIOUS
  <2>1. InputInv BY DEF Init, InputInv
  <2>2. stmt = << >> /\ tokens = << >> /\ out = << >> /\ exported = {}
    BY DEF Init, SanitizeInit
  <2>3. Len(stmt) = 0 /\ Len(tokens) = 0 /\ Len(out) = 0 BY <2>2
  <2>4. Hides(stmt) BY <2>3 DEF Hides
  <2>5. OutsideInv
    <3>1. Scanned = 0 BY <2>2 DEF Scanned
    <3> QED BY <2>3, <3>1 DEF OutsideInv
  <2>6. OwnWordsInv BY <2>3 DEF OwnWordsInv, Words
  <2>7. OnlyItsText BY <2>2 DEF OnlyItsText
  <2> QED BY <2>1, <2>4, <2>5, <2>6, <2>7 DEF OwnInv
<1>2. OwnInv => OnlyItsText BY DEF OwnInv
<1> QED BY <1>1, <1>2, OwnStep, AlwaysSanitize, AlwaysExport, PTL DEF Spec

\* Every scan stays inside its text, and at most one thing is decided or exported.
THEOREM TypeCorrect == Spec => []TypeOK
<1>1. SanitizeInv /\ ExportInv /\ ContextInv => TypeOK
  <2> SUFFICES ASSUME SanitizeInv, ExportInv, ContextInv PROVE TypeOK OBVIOUS
  <2>1. Len(stmt) \in Nat /\ tokens \in Seq(TokensOf) /\ Len(tokens) \in Nat
    BY LenProperties DEF SanitizeInv, LexInv, Plain
  <2>2. Scanned \in 0 .. Len(stmt) BY ScannedInside
  <2>3. Cardinality(exported) <= 1
    <3>1. \A x, y \in exported : x = y BY DEF ExportInv
    <3> QED BY <3>1, AtMostOne
  <2> QED BY <2>2, <2>3 DEF TypeOK, SanitizeInv, LexInv, ListInv, WrittenInv, ContextInv
<1> QED BY <1>1, AlwaysSanitize, AlwaysExport, AlwaysContext, PTL
=============================================================================
