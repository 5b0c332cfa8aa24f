------------------------- MODULE AnalysisRangesProofs -----------------------
(***************************************************************************)
(* The limits of the split worklist are out of reach for the page limit of  *)
(* the repository, 50, and every scope: neither validator ever throws on a  *)
(* worklist made by splitting and settling.  A range at depth d holds at    *)
(* most 50 / 2^d repositories, rounded up, so the deepest one holds one and *)
(* is not split; depths fall along the worklist, by one at each range after *)
(* the second, so there are at most one more ranges than depths.            *)
(***************************************************************************)
EXTENDS AnalysisRanges, SequenceTheorems, TLAPS

BatchMax == 50

(* What halving leaves of a page of BatchMax, at most, at each depth. *)
SizeAt == << 25, 13, 7, 4, 2, 1 >>

Tiles(rs, from) ==
  \A k \in 1..Len(rs) :
    /\ rs[k].start = IF k = 1 THEN from ELSE rs[k - 1].end
    /\ rs[k].start < rs[k].end

Halved(rs) == \A k \in 1..Len(rs) : Size(rs[k]) <= SizeAt[rs[k].depth]

(* The two halves of the head may be equally deep. *)
Falls(rs) ==
  \A i, j \in 1..Len(rs) : i < j =>
    rs[j].depth <= rs[i].depth - (j - i) + (IF i = 1 THEN 1 ELSE 0)

Worklist(rs, from) ==
  /\ rs \in Seq(RangeRecord)
  /\ Tiles(rs, from) /\ Halved(rs) /\ Falls(rs)

-----------------------------------------------------------------------------
(* A worklist of this shape is inside the limits of the validators. *)
LEMMA WorklistIsValid ==
  ASSUME NEW rs, NEW from \in Nat, Worklist(rs, from)
  PROVE  ValidRanges(rs, from)
<1>1. Len(rs) \in Nat /\ \A k \in 1..Len(rs) : rs[k] \in RangeRecord
  BY LenProperties, ElementOfSeq DEF Worklist
<1>2. \A k \in 1..Len(rs) : /\ rs[k].depth \in 1..6
                            /\ rs[k].start \in Nat /\ rs[k].end \in Nat
                            /\ rs[k].end <= ItemCount
  BY <1>1, WorklistConstants DEF RangeRecord, MaxDepth, WorklistConstants
<1>3. Len(rs) <= 7
  <2>1. SUFFICES ASSUME Len(rs) > 7 PROVE FALSE
    BY <1>1
  <2>2. rs[8].depth <= rs[1].depth - 7 + 1
    BY <2>1, <1>1 DEF Worklist, Falls
  <2>3. rs[8].depth \in 1..6 /\ rs[1].depth \in 1..6
    BY <2>1, <1>1, <1>2
  <2>4. QED BY <2>2, <2>3
<1>4. ASSUME NEW k \in 1..Len(rs), k > 1 PROVE rs[k].depth <= rs[k - 1].depth
  <2>1. k - 1 \in 1..Len(rs)
    BY <1>1, <1>4
  <2>2. rs[k].depth <= rs[k - 1].depth - (k - (k - 1)) + (IF k - 1 = 1 THEN 1 ELSE 0)
    <3>1. k - 1 < k
      BY <1>1
    <3>2. QED BY <2>1, <3>1 DEF Worklist, Falls
  <2>3. k - (k - 1) = 1
    BY <1>1
  <2> DEFINE x == rs[k].depth
             y == rs[k - 1].depth
  <2>4. x \in Int /\ y \in Int
    BY <2>1, <1>2
  <2>5. x <= y - 1 + (IF k - 1 = 1 THEN 1 ELSE 0)
    BY <2>2, <2>3
  <2> HIDE DEF x, y
  <2>6. x <= y
    BY <2>4, <2>5
  <2>7. QED BY <2>6 DEF x, y
<1>5. DOMAIN rs = 1..Len(rs)
  BY LenProperties DEF Worklist
<1>6. Tiles(rs, from)
  BY DEF Worklist
<1>7. QED
  BY <1>1, <1>2, <1>3, <1>4, <1>5, <1>6 DEF ValidRanges, Tiles, MaxRanges, MaxDepth

(* Without its head, the worklist starts where the head ended. *)
LEMMA RestIsWorklist ==
  ASSUME NEW rs, NEW from \in Nat, Worklist(rs, from), rs # <<>>
  PROVE  Worklist(Rest(rs), rs[1].end)
<1>1. rs \in Seq(RangeRecord) /\ Len(rs) \in Nat /\ Len(rs) # 0
  BY LenProperties, EmptySeq DEF Worklist
<1> DEFINE r == Tail(rs)
<1>2. /\ r \in Seq(RangeRecord) /\ Len(r) = Len(rs) - 1
      /\ \A k \in 1..Len(r) : r[k] = rs[k + 1]
  BY <1>1, HeadTailProperties
<1>3. \A k \in 1..Len(rs) : rs[k].depth \in 1..6
  <2>1. \A k \in 1..Len(rs) : rs[k] \in RangeRecord
    BY <1>1, ElementOfSeq
  <2>2. QED BY <2>1 DEF RangeRecord, MaxDepth
<1>4. Rest(rs) = r
  BY DEF Rest
<1> HIDE DEF r
<1>5. Tiles(r, rs[1].end)
  <2>1. SUFFICES ASSUME NEW k \in 1..Len(r)
                 PROVE  /\ r[k].start = IF k = 1 THEN rs[1].end ELSE r[k - 1].end
                        /\ r[k].start < r[k].end
    BY DEF Tiles
  <2>2. k + 1 \in 1..Len(rs) /\ k + 1 # 1 /\ (k + 1) - 1 = k
    BY <1>1, <1>2
  <2>3. rs[k + 1].start = rs[k].end /\ rs[k + 1].start < rs[k + 1].end
    BY <2>2 DEF Worklist, Tiles
  <2>4. k # 1 => r[k - 1] = rs[k]
    <3>1. k # 1 => k - 1 \in 1..Len(r) /\ (k - 1) + 1 = k
      BY <1>1, <1>2
    <3>2. QED BY <1>2, <3>1
  <2>5. QED BY <1>2, <2>3, <2>4
<1>6. Halved(r)
  BY <1>1, <1>2 DEF Worklist, Halved
<1>7. Falls(r)
  <2>1. SUFFICES ASSUME NEW i \in 1..Len(r), NEW j \in 1..Len(r), i < j
                 PROVE  r[j].depth <= r[i].depth - (j - i)
    <3>1. \A i \in 1..Len(r) : r[i].depth \in Int
      <4>1. SUFFICES ASSUME NEW i \in 1..Len(r) PROVE r[i].depth \in Int
        OBVIOUS
      <4>2. i + 1 \in 1..Len(rs) /\ r[i] = rs[i + 1]
        BY <1>1, <1>2
      <4>3. rs[i + 1].depth \in 1..6
        BY <1>3, <4>2
      <4>4. QED BY <4>2, <4>3
    <3>2. QED BY <1>1, <1>2, <3>1 DEF Falls
  <2>2. rs[j + 1].depth <= rs[i + 1].depth - ((j + 1) - (i + 1))
                             + (IF i + 1 = 1 THEN 1 ELSE 0)
    <3>1. i + 1 \in 1..Len(rs) /\ j + 1 \in 1..Len(rs) /\ i + 1 < j + 1
      BY <1>1, <1>2, <2>1
    <3>2. QED BY <3>1 DEF Worklist, Falls
  <2>3. i + 1 # 1 /\ r[i] = rs[i + 1] /\ r[j] = rs[j + 1]
    BY <1>2
  <2>4. rs[i + 1].depth \in 1..6 /\ rs[j + 1].depth \in 1..6
    BY <1>1, <1>2, <1>3
  <2>5. QED BY <2>2, <2>3, <2>4
<1>8. QED
  BY <1>2, <1>4, <1>5, <1>6, <1>7 DEF Worklist

Mid(s, e) == s + (e - s) \div 2

LowerHalf(rs, s, e) == PendingRange(s, Mid(s, e), SplitDepth(rs))
UpperHalf(rs, s, e) == PendingRange(Mid(s, e), e, SplitDepth(rs))

Ranges == [start : Int, end : Int, depth : Int]

(* The split head: two halves, then the rest. *)
LEMMA SplitHeadElements ==
  ASSUME NEW rs \in Seq(RangeRecord), NEW s \in Nat, NEW e \in Nat
  PROVE  /\ SplitHead(rs, s, e) \in Seq(Ranges)
         /\ Rest(rs) \in Seq(RangeRecord)
         /\ Len(SplitHead(rs, s, e)) = Len(Rest(rs)) + 2
         /\ SplitHead(rs, s, e)[1] = LowerHalf(rs, s, e)
         /\ SplitHead(rs, s, e)[2] = UpperHalf(rs, s, e)
         /\ \A k \in 1..Len(Rest(rs)) : SplitHead(rs, s, e)[k + 2] = Rest(rs)[k]
<1> DEFINE halves == << LowerHalf(rs, s, e), UpperHalf(rs, s, e) >>
           rest == Rest(rs)
<1>1. RangeRecord \subseteq Ranges
  BY WorklistConstants DEF RangeRecord, Ranges, WorklistConstants, MaxDepth
<1>2. rest \in Seq(RangeRecord)
  BY HeadTailProperties, Zenon DEF Rest
<1>3. rest \in Seq(Ranges)
  BY <1>1, <1>2, SeqMonotonic
<1>4. SplitDepth(rs) \in Int
  <2>1. rs # <<>> => rs[1] \in RangeRecord
    BY ElementOfSeq, EmptySeq, LenProperties
  <2>2. QED BY <2>1 DEF SplitDepth, RangeRecord, MaxDepth
<1>5. /\ halves \in Seq(Ranges) /\ Len(halves) = 2
      /\ halves[1] = LowerHalf(rs, s, e) /\ halves[2] = UpperHalf(rs, s, e)
  <2>1. Mid(s, e) \in Int
    BY DEF Mid
  <2>2. LowerHalf(rs, s, e) \in Ranges /\ UpperHalf(rs, s, e) \in Ranges
    BY <1>4, <2>1 DEF PendingRange, LowerHalf, UpperHalf, Ranges
  <2>3. QED BY <2>2
<1> HIDE DEF halves, rest
<1>6. /\ halves \o rest \in Seq(Ranges)
      /\ Len(halves \o rest) = Len(halves) + Len(rest)
      /\ Len(rest) \in Nat
      /\ \A i \in 1..(Len(halves) + Len(rest)) :
           (halves \o rest)[i] = IF i <= Len(halves) THEN halves[i] ELSE rest[i - Len(halves)]
  BY <1>3, <1>5, ConcatProperties, LenProperties
<1>7. /\ (halves \o rest)[1] = halves[1] /\ (halves \o rest)[2] = halves[2]
      /\ \A k \in 1..Len(rest) : (halves \o rest)[k + 2] = rest[k]
  BY <1>5, <1>6
<1>8. SplitHead(rs, s, e) = halves \o rest
  BY DEF SplitHead, halves, rest, LowerHalf, UpperHalf, Mid
<1>9. Len(halves \o rest) = Len(rest) + 2
  BY <1>5, <1>6
<1>10. QED
  BY <1>2, <1>5, <1>6, <1>7, <1>8, <1>9 DEF rest

(* A page that may be split: the head of the worklist, or a first page. *)
Splittable(rs, s, e) ==
  /\ e - s > 1
  /\ IF rs = <<>> THEN e - s <= BatchMax ELSE e = rs[1].end

(* Both halves of a page are a level deeper and no larger than it allows: a  *)
(* range of the deepest level holds one repository and is never split.       *)
LEMMA HalvesFit ==
  ASSUME NEW rs, NEW s \in Nat, NEW e \in 0..ItemCount,
         Worklist(rs, s), Splittable(rs, s, e)
  PROVE  /\ SplitDepth(rs) \in 1..6
         /\ s < Mid(s, e) /\ Mid(s, e) < e /\ Mid(s, e) \in Nat
         /\ Mid(s, e) - s <= SizeAt[SplitDepth(rs)]
         /\ e - Mid(s, e) <= SizeAt[SplitDepth(rs)]
<1>1. e \in Nat
  BY WorklistConstants DEF WorklistConstants
<1>2. s < Mid(s, e) /\ Mid(s, e) < e /\ Mid(s, e) \in Nat
  BY <1>1 DEF Mid, Splittable
<1>3. CASE rs = <<>>
  <2>1. SplitDepth(rs) = 1 /\ e - s <= 50
    BY <1>3 DEF SplitDepth, Splittable, BatchMax
  <2>2. Mid(s, e) - s <= 25 /\ e - Mid(s, e) <= 25
    BY <1>1, <2>1 DEF Mid
  <2>3. QED BY <1>2, <2>1, <2>2 DEF SizeAt
<1>4. CASE rs # <<>>
  <2>1. rs \in Seq(RangeRecord) /\ Len(rs) \in Nat /\ Len(rs) # 0
    BY <1>4, LenProperties, EmptySeq DEF Worklist
  <2>2. rs[1] \in RangeRecord /\ 1 \in 1..Len(rs)
    BY <2>1, ElementOfSeq
  <2>3. rs[1].depth \in 1..6
    BY <2>2 DEF RangeRecord, MaxDepth
  <2>4. rs[1].start = s
    BY <2>2 DEF Worklist, Tiles
  <2>5. e - s <= SizeAt[rs[1].depth]
    BY <2>2, <2>4, <1>4 DEF Worklist, Halved, Size, Splittable
  <2>6. SplitDepth(rs) = rs[1].depth + 1
    BY <1>4 DEF SplitDepth
  <2>7. e - s > 1
    BY DEF Splittable
  <2> DEFINE d == rs[1].depth
  <2>8. /\ d # 6
        /\ d = 1 => e - s <= 25
        /\ d = 2 => e - s <= 13
        /\ d = 3 => e - s <= 7
        /\ d = 4 => e - s <= 4
        /\ d = 5 => e - s <= 2
    BY <1>1, <2>3, <2>5, <2>7 DEF SizeAt
  <2> HIDE DEF d
  <2>9. d \in 1..6
    BY <2>3 DEF d
  <2>10. /\ d = 1 => Mid(s, e) - s <= 13 /\ e - Mid(s, e) <= 13
         /\ d = 2 => Mid(s, e) - s <= 7 /\ e - Mid(s, e) <= 7
         /\ d = 3 => Mid(s, e) - s <= 4 /\ e - Mid(s, e) <= 4
         /\ d = 4 => Mid(s, e) - s <= 2 /\ e - Mid(s, e) <= 2
         /\ d = 5 => Mid(s, e) - s <= 1 /\ e - Mid(s, e) <= 1
    BY <1>1, <2>8 DEF Mid
  <2>11. SplitDepth(rs) = d + 1
    BY <2>6 DEF d
  <2>12. QED BY <1>2, <2>8, <2>9, <2>10, <2>11 DEF SizeAt
<1>5. QED BY <1>3, <1>4

(* The worklist keeps its shape when its head is split. *)
LEMMA SplitIsWorklist ==
  ASSUME NEW rs, NEW s \in Nat, NEW e \in 0..ItemCount,
         Worklist(rs, s), Splittable(rs, s, e)
  PROVE  Worklist(SplitHead(rs, s, e), s)
<1> DEFINE new == SplitHead(rs, s, e)
           d == SplitDepth(rs)
           m == Mid(s, e)
           n == Len(Rest(rs))
<1>1. e \in Nat /\ ItemCount \in Nat
  BY WorklistConstants DEF WorklistConstants
<1>2. /\ d \in 1..6
      /\ s < m /\ m < e /\ m \in Nat
      /\ m - s <= SizeAt[d] /\ e - m <= SizeAt[d]
  BY HalvesFit
<1>3. rs \in Seq(RangeRecord) /\ Len(rs) \in Nat
  BY LenProperties DEF Worklist
<1>4. /\ new \in Seq(Ranges)
      /\ Rest(rs) \in Seq(RangeRecord)
      /\ Len(new) = n + 2
      /\ new[1] = LowerHalf(rs, s, e) /\ new[2] = UpperHalf(rs, s, e)
      /\ \A k \in 1..n : new[k + 2] = Rest(rs)[k]
  BY <1>1, <1>3, SplitHeadElements
<1>5. n \in Nat
  BY <1>4, LenProperties
<1>6. /\ new[1].start = s /\ new[1].end = m /\ new[1].depth = d
      /\ new[2].start = m /\ new[2].end = e /\ new[2].depth = d
  BY <1>4 DEF LowerHalf, UpperHalf, PendingRange
<1>7. ASSUME NEW k \in 1..n
      PROVE  /\ k + 1 \in 1..Len(rs) /\ new[k + 2] = rs[k + 1]
             /\ rs # <<>> /\ d = rs[1].depth + 1 /\ rs[1].depth \in Int
             /\ rs[1].end = e /\ 1 \in 1..Len(rs)
  <2>1. rs # <<>>
    BY <1>5, EmptySeq DEF Rest
  <2>2. Len(rs) # 0 /\ Rest(rs) = Tail(rs)
    BY <1>3, <2>1, EmptySeq DEF Rest
  <2>3. n = Len(rs) - 1 /\ Rest(rs)[k] = rs[k + 1]
    BY <1>3, <2>1, <2>2, HeadTailProperties
  <2>4. k + 1 \in 1..Len(rs) /\ 1 \in 1..Len(rs)
    BY <1>3, <2>2, <2>3
  <2>5. rs[1] \in RangeRecord
    BY <1>3, <2>4, ElementOfSeq
  <2>6. rs[1].depth \in Int
    BY <2>5 DEF RangeRecord, MaxDepth
  <2>7. d = rs[1].depth + 1 /\ rs[1].end = e
    BY <2>1 DEF SplitDepth, Splittable
  <2>8. QED BY <1>4, <2>1, <2>3, <2>4, <2>6, <2>7
<1> HIDE DEF new, d, m, n
<1>8. \A k \in 1..Len(new) : k = 1 \/ k = 2 \/ (k - 2 \in 1..n /\ k = (k - 2) + 2)
  BY <1>4, <1>5
<1>9. \A k \in 1..Len(rs) : rs[k] \in RangeRecord
  BY <1>3, ElementOfSeq
<1>10. new \in Seq(RangeRecord)
  <2>1. LowerHalf(rs, s, e) \in RangeRecord /\ UpperHalf(rs, s, e) \in RangeRecord
    BY <1>1, <1>2 DEF LowerHalf, UpperHalf, PendingRange, RangeRecord, MaxDepth, m, d
  <2>2. ASSUME NEW k \in 1..Len(new) PROVE new[k] \in RangeRecord
    <3>1. CASE k = 1 \/ k = 2
      BY <1>4, <2>1, <3>1
    <3>2. CASE k - 2 \in 1..n /\ k = (k - 2) + 2
      BY <1>7, <1>9, <3>2
    <3>3. QED BY <1>8, <3>1, <3>2
  <2>3. QED BY <1>4, <2>2, SeqDef, LenProperties
<1>11. Tiles(new, s)
  <2>1. SUFFICES ASSUME NEW k \in 1..Len(new)
                 PROVE  /\ new[k].start = IF k = 1 THEN s ELSE new[k - 1].end
                        /\ new[k].start < new[k].end
    BY DEF Tiles
  <2>2. CASE k = 1
    BY <1>2, <1>6, <2>2
  <2>3. CASE k = 2
    BY <1>2, <1>6, <2>3
  <2>4. ASSUME NEW q \in 1..n, k = q + 2
        PROVE  new[k].start = new[k - 1].end /\ new[k].start < new[k].end
    <3>1. k - 1 = q + 1 /\ q + 1 # 1
      BY <1>5, <2>4
    <3>2. /\ q + 1 \in 1..Len(rs) /\ new[k] = rs[q + 1]
          /\ rs[1].end = e
      BY <1>7, <2>4
    <3>3. rs[q + 1].start = rs[(q + 1) - 1].end /\ rs[q + 1].start < rs[q + 1].end
      BY <3>1, <3>2 DEF Worklist, Tiles
    <3>4. (q + 1) - 1 = q
      BY <1>5
    <3>5. new[q + 1].end = rs[q].end
      <4>1. CASE q = 1
        BY <1>6, <3>2, <4>1
      <4>2. CASE q # 1
        <5>1. q - 1 \in 1..n /\ (q - 1) + 2 = q + 1 /\ (q - 1) + 1 = q
          BY <1>5, <4>2
        <5>2. new[(q - 1) + 2] = rs[(q - 1) + 1]
          BY <1>7, <5>1
        <5>3. QED BY <5>1, <5>2
      <4>3. QED BY <4>1, <4>2
    <3>6. QED BY <3>1, <3>2, <3>3, <3>4, <3>5
  <2>5. k - 2 \in 1..n => k # 1
    BY <1>5
  <2>6. QED BY <1>8, <2>2, <2>3, <2>4, <2>5
<1>12. Halved(new)
  <2>1. SUFFICES ASSUME NEW k \in 1..Len(new)
                 PROVE  Size(new[k]) <= SizeAt[new[k].depth]
    BY DEF Halved
  <2>2. CASE k = 1 \/ k = 2
    BY <1>2, <1>6, <2>2 DEF Size
  <2>3. CASE k - 2 \in 1..n /\ k = (k - 2) + 2
    <3>1. (k - 2) + 1 \in 1..Len(rs) /\ new[k] = rs[(k - 2) + 1]
      BY <1>7, <2>3
    <3>2. QED BY <3>1 DEF Worklist, Halved
  <2>4. QED BY <1>8, <2>2, <2>3
<1>13. Falls(new)
  <2>1. SUFFICES ASSUME NEW i \in 1..Len(new), NEW j \in 1..Len(new), i < j
                 PROVE  new[j].depth <= new[i].depth - (j - i) + (IF i = 1 THEN 1 ELSE 0)
    BY DEF Falls
  <2>2. CASE j = 2
    <3>1. i = 1
      BY <2>1, <2>2
    <3>2. QED BY <1>2, <1>6, <2>2, <3>1
  <2>3. ASSUME NEW q \in 1..n, j = q + 2
        PROVE  new[j].depth <= new[i].depth - (j - i) + (IF i = 1 THEN 1 ELSE 0)
    <3>1. /\ q + 1 \in 1..Len(rs) /\ new[j] = rs[q + 1]
          /\ d = rs[1].depth + 1 /\ rs[1].depth \in Int /\ 1 \in 1..Len(rs)
      BY <1>7, <2>3
    <3>2. rs[q + 1].depth \in Int
      <4>1. rs[q + 1] \in RangeRecord
        BY <1>9, <3>1
      <4>2. QED BY <4>1 DEF RangeRecord, MaxDepth
    <3>3. CASE i = 1 \/ i = 2
      <4>1. rs[q + 1].depth <= rs[1].depth - ((q + 1) - 1) + (IF 1 = 1 THEN 1 ELSE 0)
        <5>1. 1 < q + 1
          BY <1>5
        <5>2. QED BY <3>1, <5>1 DEF Worklist, Falls
      <4>2. rs[q + 1].depth <= d - q
        BY <1>5, <3>1, <3>2, <4>1
      <4>3. new[i].depth = d
        BY <1>6, <3>3
      <4>4. d - q = d - (j - i) + (IF i = 1 THEN 1 ELSE 0)
        BY <1>2, <1>5, <2>3, <3>3
      <4>5. QED BY <3>1, <4>2, <4>3, <4>4
    <3>4. ASSUME NEW p \in 1..n, i = p + 2
          PROVE  new[j].depth <= new[i].depth - (j - i) + (IF i = 1 THEN 1 ELSE 0)
      <4>1. p + 1 \in 1..Len(rs) /\ new[i] = rs[p + 1]
        BY <1>7, <3>4
      <4>2. p + 1 < q + 1 /\ p + 1 # 1 /\ i # 1
        BY <1>5, <2>1, <2>3, <3>4
      <4>3. rs[q + 1].depth <= rs[p + 1].depth - ((q + 1) - (p + 1)) + 0
        BY <3>1, <4>1, <4>2 DEF Worklist, Falls
      <4>4. rs[p + 1].depth \in Int
        <5>1. rs[p + 1] \in RangeRecord
          BY <1>9, <4>1
        <5>2. QED BY <5>1 DEF RangeRecord, MaxDepth
      <4>5. (q + 1) - (p + 1) = j - i
        BY <1>5, <2>3, <3>4
      <4>6. QED BY <3>1, <4>1, <4>2, <4>3, <4>4, <4>5
    <3>5. QED BY <1>8, <3>3, <3>4
  <2>4. j # 1
    BY <2>1
  <2>5. QED BY <1>8, <2>2, <2>3, <2>4
<1>14. QED
  BY <1>10, <1>11, <1>12, <1>13 DEF Worklist, new

-----------------------------------------------------------------------------
(* The worklist that is over, or never was, has the shape. *)
LEMMA EmptyIsWorklist == ASSUME NEW from PROVE Worklist(<<>>, from)
<1>1. <<>> \in Seq(RangeRecord) /\ Len(<<>>) = 0
  BY EmptySeq
<1>2. 1..0 = {}
  OBVIOUS
<1>3. QED
  BY <1>1, <1>2 DEF Worklist, Tiles, Halved, Falls
=============================================================================
