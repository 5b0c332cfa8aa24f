------------------------- MODULE OrganizeApplyProofs -------------------------
(***************************************************************************)
(* The safety of the durable apply, for every number of rows, chunk size,   *)
(* set of lease tokens and number of edits, and that what drives it         *)
(* implements it, for every crash and failing call.  ChunksInOrder and      *)
(* StatusMatchesRows hold together; that a row is skipped for the changes   *)
(* of others only needs, besides, that the expected taxonomy tells whether  *)
(* others have edited it.  Each step of the pump, of the recovery, of a     *)
(* restore, a page or Cubby is a step of OrganizeApply or leaves it alone,  *)
(* so the theorems about OrganizeApply hold of the drivers.                 *)
(***************************************************************************)
EXTENDS ApplyRecovery, TLAPS, FiniteSetTheorems, SequenceTheorems

(* The apply expects the current taxonomy exactly while nobody else has     *)
(* edited it.                                                               *)
OwnChangesExpected ==
  /\ apply.expected <= taxonomy
  /\ taxonomy = apply.expected <=> edits = 0

(* During the review nothing has been applied. *)
NothingBeforeSeal ==
  job.status = "review" => apply.expected = Frozen /\ \A i \in Rows : row[i] = "none"

ApplyInv ==
  /\ ApplyTypeOK
  /\ ChunksInOrder
  /\ StatusMatchesRows
  /\ OwnChangesExpected
  /\ NothingBeforeSeal

-----------------------------------------------------------------------------
(* Sets of rows. *)
LEMMA LeastElement ==
  ASSUME NEW S \in SUBSET Nat, S # {}
  PROVE  \E m \in S : \A x \in S : m <= x
<1>1. PICK m \in S : \A y \in S : ~ (<<y, m>> \in OpToRel(<, Nat))
  BY NatLessThanWellFounded, WFMin
<1>2. \A y \in S : <<y, m>> \in Nat \X Nat
  OBVIOUS
<1>3. \A y \in S : ~ (y < m)
  BY <1>1, <1>2 DEF OpToRel
<1>4. QED
  BY <1>3

LEMMA GreatestElement ==
  ASSUME NEW S \in SUBSET Rows, S # {}
  PROVE  \E m \in S : \A x \in S : x <= m
<1> USE ApplyConstants DEF ApplyConstants, Rows
<1> DEFINE T == {RowCount - x : x \in S}
<1>1. T \in SUBSET Nat /\ T # {}
  <2>1. \A x \in S : RowCount - x \in Nat
    OBVIOUS
  <2>2. PICK y \in S : TRUE
    OBVIOUS
  <2>3. RowCount - y \in T
    OBVIOUS
  <2>4. QED
    BY <2>1, <2>3
<1>2. PICK d \in T : \A y \in T : d <= y
  BY <1>1, LeastElement
<1>3. PICK m \in S : d = RowCount - m
  OBVIOUS
<1>4. \A x \in S : RowCount - m <= RowCount - x
  BY <1>2, <1>3
<1>5. QED
  BY <1>4

LEMMA RowsFinite ==
  ASSUME NEW S \in SUBSET Rows
  PROVE  IsFiniteSet(S) /\ Cardinality(S) \in Nat
<1>1. IsFiniteSet(Rows)
  BY FS_Interval, ApplyConstants DEF ApplyConstants, Rows
<1>2. QED
  BY <1>1, FS_Subset, FS_CardinalityType

(* A chunk is a non-empty front part of the open rows, of bounded size. *)
LEMMA LowestIsAFront ==
  ASSUME NEW S \in SUBSET Rows
  PROVE  /\ Lowest(S, ChunkMax) \subseteq S
         /\ S # {} => Lowest(S, ChunkMax) # {}
         /\ Cardinality(Lowest(S, ChunkMax)) <= ChunkMax
         /\ \A i, j \in S : j \in Lowest(S, ChunkMax) /\ i < j => i \in Lowest(S, ChunkMax)
<1> DEFINE Below(i) == {j \in S : j < i}
           L == Lowest(S, ChunkMax)
<1>1. /\ L \subseteq S
      /\ \A i \in S : i \in L <=> Cardinality(Below(i)) < ChunkMax
  BY DEF Lowest
<1>2. \A i \in S : IsFiniteSet(Below(i)) /\ Cardinality(Below(i)) \in Nat
  BY RowsFinite
<1>3. S \in SUBSET Nat /\ ChunkMax \in Nat \ {0}
  BY ApplyConstants DEF ApplyConstants, Rows
<1> HIDE DEF L
<1>4. ASSUME S # {} PROVE L # {}
  <2>1. PICK m \in S : \A x \in S : m <= x
    BY <1>3, <1>4, LeastElement
  <2>2. \A x \in S : ~ (x < m)
    BY <1>3, <2>1
  <2>3. Below(m) = {}
    BY <2>2
  <2>4. Cardinality(Below(m)) = 0
    BY <2>3, FS_EmptySet, Zenon
  <2>5. Cardinality(Below(m)) < ChunkMax
    <3> HIDE DEF Below
    <3> QED BY <1>3, <2>4
  <2>6. QED
    BY <1>1, <2>5
<1>5. Cardinality(L) <= ChunkMax
  <2>1. CASE L = {}
    BY <1>3, <2>1, FS_EmptySet
  <2>2. CASE L # {}
    <3>1. PICK m \in L : \A x \in L : x <= m
      BY <1>1, <2>2, GreatestElement
    <3>2. \A x \in L \ {m} : x \in S /\ x < m
      BY <1>1, <1>3, <3>1
    <3>3. L \ {m} \in SUBSET Below(m)
      BY <3>2
    <3>4. Cardinality(L \ {m}) <= Cardinality(Below(m))
      BY <1>1, <1>2, <3>3, FS_Subset
    <3>5. IsFiniteSet(L) /\ Cardinality(L) \in Nat
      BY <1>1, RowsFinite
    <3>6. Cardinality(L \ {m}) = Cardinality(L) - 1
      BY <3>5, FS_RemoveElement
    <3>7. Cardinality(Below(m)) < ChunkMax /\ Cardinality(Below(m)) \in Nat
      BY <1>1, <1>2
    <3>8. QED
      <4> HIDE DEF Below
      <4> QED BY <1>3, <3>4, <3>5, <3>6, <3>7
  <2>3. QED
    BY <2>1, <2>2
<1>6. ASSUME NEW i \in S, NEW j \in S, j \in L, i < j PROVE i \in L
  <2>1. \A x \in S : x < i => x < j
    BY <1>3, <1>6
  <2>2. Below(i) \in SUBSET Below(j)
    BY <2>1
  <2>3. Cardinality(Below(i)) <= Cardinality(Below(j))
    BY <1>2, <2>2, FS_Subset
  <2>4. Cardinality(Below(j)) < ChunkMax
    BY <1>1, <1>6
  <2>5. Cardinality(Below(i)) < ChunkMax
    <3> HIDE DEF Below
    <3> QED BY <1>2, <1>3, <2>3, <2>4
  <2>6. QED
    BY <1>1, <2>5
<1>7. QED
  BY <1>1, <1>4, <1>5, <1>6 DEF L

-----------------------------------------------------------------------------
(* The leased rows are one chunk: a token that holds any holds all, and     *)
(* either no lease has lapsed or the whole chunk's has.                     *)
LEMMA OneChunk ==
  ASSUME ChunksInOrder
  PROVE  /\ \A t \in Tokens : Chunk(t) # {} => Chunk(t) = Leased
         /\ Lapsed # {} => Lapsed = Leased
<1>1. CASE Leased = {}
  BY <1>1 DEF Chunk, Leased, Lapsed
<1>2. CASE Leased # {}
  <2>1. PICK t0 \in Tokens : Chunk(t0) = Leased
    BY <1>2 DEF ChunksInOrder
  <2>2. \A i \in Leased : lease[i] = t0
    BY <2>1 DEF Chunk
  <2>3. QED
    BY <2>2 DEF Chunk, Leased, Lapsed
<1>3. QED
  BY <1>1, <1>2

(* The order of the rows says only which states may follow which. *)
LEMMA OrderOfStages ==
  ASSUME NEW r \in [Rows -> Written \cup {"none", "pending", "leased"}],
         NEW i \in Rows, NEW j \in Rows
  PROVE  Stage(r[i]) <= Stage(r[j]) <=>
           /\ r[j] \in Written => r[i] \in Written
           /\ r[j] = "leased" => r[i] \in Written \cup {"leased"}
           /\ r[j] = "pending" => r[i] # "none"
<1>1. r[i] \in Written \cup {"none", "pending", "leased"}
  OBVIOUS
<1>2. r[j] \in Written \cup {"none", "pending", "leased"}
  OBVIOUS
<1>3. \A st \in Written \cup {"none", "pending", "leased"} :
        Stage(st) = IF st \in Written THEN 1 ELSE IF st = "leased" THEN 2
                    ELSE IF st = "pending" THEN 3 ELSE 4
  BY DEF Stage, Written
<1>4. QED
  BY <1>1, <1>2, <1>3 DEF Written

(* Freeing the leased chunk keeps the order and the open rows. *)
LEMMA FreeingKeeps ==
  ASSUME ApplyInv, Leased # {}, Free(Leased)
  PROVE  /\ row' \in [Rows -> Written \cup {"none", "pending", "leased"}]
         /\ lease' \in [Rows -> Tokens \cup {NoToken}]
         /\ lapsed' = {} /\ Leased' = {}
         /\ \A i \in Rows : row'[i] = IF row[i] = "leased" THEN "pending" ELSE row[i]
         /\ Open(row') = Open(row) /\ Open(row) # {}
         /\ ChunksInOrder'
<1> USE DEF ApplyInv, ApplyTypeOK
<1>1. /\ row' \in [Rows -> Written \cup {"none", "pending", "leased"}]
      /\ lease' \in [Rows -> Tokens \cup {NoToken}]
      /\ lapsed' = {}
  BY DEF Free
<1>2. \A i \in Rows : row'[i] = IF row[i] = "leased" THEN "pending" ELSE row[i]
  BY DEF Free, Leased
<1>3. Leased' = {}
  BY <1>2 DEF Leased
<1>4. Open(row') = Open(row) /\ Open(row) # {}
  BY <1>2 DEF Open, Leased
<1>5. \A i, j \in Rows : i < j => Stage(row'[i]) <= Stage(row'[j])
  <2> SUFFICES ASSUME NEW i \in Rows, NEW j \in Rows, i < j
               PROVE  Stage(row'[i]) <= Stage(row'[j])
    OBVIOUS
  <2>1. Stage(row[i]) <= Stage(row[j])
    BY DEF ChunksInOrder
  <2>2. QED
    BY <1>1, <1>2, <2>1, OrderOfStages DEF Written
<1>6. ChunksInOrder'
  BY <1>3, <1>5, FS_EmptySet, ApplyConstants DEF ChunksInOrder, ApplyConstants
<1>7. QED
  BY <1>1, <1>2, <1>3, <1>4, <1>6

-----------------------------------------------------------------------------
(* The operations keep the invariant, one by one. *)
LEMMA SealInv ==
  ASSUME ApplyInv, NEW n \in 0..RowCount, SealApply(n)
  PROVE  ApplyInv'
<1> USE DEF ApplyInv, SealApply, Written
<1>1. RowCount \in Nat /\ ChunkMax \in Nat
  BY ApplyConstants DEF ApplyConstants
<1>2. \A i \in Rows : row'[i] = IF i <= n THEN "pending" ELSE "none"
  OBVIOUS
<1>3. Leased = {} /\ Leased' = {}
  BY <1>2 DEF StatusMatchesRows, Leased
<1>4. Open(row') = {} <=> n = 0
  <2>1. ASSUME n # 0 PROVE 1 \in Open(row')
    BY <1>1, <1>2, <2>1 DEF Open, Rows
  <2>2. ASSUME n = 0 PROVE Open(row') = {}
    BY <1>1, <1>2, <2>2 DEF Open, Rows
  <2>3. QED
    BY <2>1, <2>2
<1>5. ApplyTypeOK'
  <2>1. lapsed' = {}
    BY <1>3 DEF ApplyTypeOK
  <2>2. QED
    BY <2>1 DEF ApplyTypeOK, Active, Frozen
<1>6. ChunksInOrder'
  <2>1. ASSUME NEW i \in Rows, NEW j \in Rows, i < j PROVE Stage(row'[i]) <= Stage(row'[j])
    <3>1. row' \in [Rows -> Written \cup {"none", "pending", "leased"}]
      BY <1>5 DEF ApplyTypeOK
    <3>2. row'[j] = "pending" => row'[i] = "pending"
      BY <1>1, <1>2, <2>1 DEF Rows
    <3>3. row'[j] \in {"none", "pending"}
      BY <1>2
    <3>4. QED
      BY <3>1, <3>2, <3>3, OrderOfStages
  <2>2. QED
    BY <1>1, <1>3, <2>1, FS_EmptySet DEF ChunksInOrder
<1>7. StatusMatchesRows'
  BY <1>3, <1>4 DEF StatusMatchesRows, Active
<1>8. OwnChangesExpected' /\ NothingBeforeSeal'
  BY DEF OwnChangesExpected, NothingBeforeSeal
<1>9. QED
  BY <1>5, <1>6, <1>7, <1>8

LEMMA ClaimInv ==
  ASSUME ApplyInv, NEW t \in Tokens, ClaimChunk(t)
  PROVE  ApplyInv'
<1> USE DEF ApplyInv
<1> DEFINE open == {i \in Rows : row[i] = "pending"} \cup Lapsed
           chunk == Lowest(open, ChunkMax)
<1>1. /\ chunk \subseteq open /\ chunk # {}
      /\ Cardinality(chunk) <= ChunkMax
      /\ \A i, j \in open : j \in chunk /\ i < j => i \in chunk
  <2>1. open \in SUBSET Rows /\ open # {}
    BY DEF ClaimChunk, CanClaim, Lapsed, Leased
  <2>2. QED
    BY <2>1, LowestIsAFront
<1> HIDE DEF chunk
<1>2. open = {i \in Rows : row[i] \in {"pending", "leased"}}
  BY DEF ClaimChunk, CanClaim, Leased
<1>3. \A i \in Rows :
        /\ row'[i] = IF i \in chunk THEN "leased"
                     ELSE IF i \in open THEN "pending" ELSE row[i]
        /\ i \in chunk => lease'[i] = t
  BY DEF ClaimChunk, chunk
<1>4. Leased' = chunk /\ Chunk(t)' = chunk
  BY <1>1, <1>2, <1>3 DEF Leased, Chunk
<1>5. ApplyTypeOK'
  <2>1. row' \in [Rows -> Written \cup {"none", "pending", "leased"}]
    BY DEF ClaimChunk, ApplyTypeOK
  <2>2. lease' \in [Rows -> Tokens \cup {NoToken}]
    BY DEF ClaimChunk, ApplyTypeOK
  <2>3. QED
    BY <2>1, <2>2 DEF ClaimChunk, ApplyTypeOK, Active
<1>6. ChunksInOrder'
  <2>1. ASSUME NEW i \in Rows, NEW j \in Rows, i < j PROVE Stage(row'[i]) <= Stage(row'[j])
    <3>1. /\ row[j] \in Written => row[i] \in Written
          /\ row[j] = "leased" => row[i] \in Written \cup {"leased"}
          /\ row[j] = "pending" => row[i] # "none"
      BY <2>1, OrderOfStages DEF ChunksInOrder, ApplyTypeOK
    <3>2. row[i] \in Written \cup {"none", "pending", "leased"}
      BY DEF ApplyTypeOK
    <3>3. j \in chunk /\ i \in open => i \in chunk
      BY <1>1, <2>1
    <3>4. row' \in [Rows -> Written \cup {"none", "pending", "leased"}]
      BY <1>5 DEF ApplyTypeOK
    <3>5. QED
      BY <1>1, <1>2, <1>3, <3>1, <3>2, <3>3, <3>4, OrderOfStages DEF Written
  <2>2. QED
    BY <1>1, <1>4, <2>1 DEF ChunksInOrder
<1>7. StatusMatchesRows'
  <2>1. Open(row') # {}
    BY <1>1, <1>2, <1>3 DEF Open
  <2>2. apply'.status = "applying" /\ job'.status = "applying" /\ Leased' # {}
    BY <1>1, <1>4 DEF ClaimChunk, ApplyTypeOK
  <2>3. QED
    BY <2>1, <2>2 DEF StatusMatchesRows, Active
<1>8. OwnChangesExpected' /\ NothingBeforeSeal'
  BY DEF ClaimChunk, ApplyTypeOK, OwnChangesExpected, NothingBeforeSeal
<1>9. QED
  BY <1>5, <1>6, <1>7, <1>8

(* What a settlement does to the rows: the leased chunk gets its outcomes.  *)
LEMMA SettledChunk ==
  ASSUME ApplyInv, NEW t \in Tokens, NEW new, SettleChunk(t, new)
  PROVE  /\ Chunk(t) = Leased /\ Leased # {}
         /\ \A i \in Rows : IF row[i] = "leased"
                            THEN row'[i] \in Written /\ (row'[i] = "skipped" <=> ~ Fit(i))
                            ELSE row'[i] = row[i]
         /\ Leased' = {}
<1>1. Chunk(t) = Leased /\ Leased # {}
  BY OneChunk DEF SettleChunk, CanSettle, ApplyInv
<1>2. \A i \in Rows : i \in Chunk(t) <=> row[i] = "leased"
  BY <1>1 DEF Leased
<1>3. \A i \in Rows : IF row[i] = "leased"
                      THEN row'[i] \in Written /\ (row'[i] = "skipped" <=> ~ Fit(i))
                      ELSE row'[i] = row[i]
  BY <1>2 DEF SettleChunk, Written
<1>4. Leased' = {}
  BY <1>3 DEF Leased, Written
<1>5. QED
  BY <1>1, <1>3, <1>4

LEMMA SettleInv ==
  ASSUME ApplyInv, NEW t \in Tokens, NEW new, SettleChunk(t, new)
  PROVE  ApplyInv'
<1> USE DEF ApplyInv
<1>1. /\ Chunk(t) = Leased /\ Leased # {} /\ Leased' = {}
      /\ \A i \in Rows : IF row[i] = "leased" THEN row'[i] \in Written ELSE row'[i] = row[i]
  BY SettledChunk
<1>2. t \notin lapsed /\ lapsed' = lapsed
  BY DEF SettleChunk, CanSettle
<1>3. lapsed = {}
  BY <1>1, <1>2 DEF ApplyTypeOK, Chunk
<1>4. ApplyTypeOK'
  <2>1. row' \in [Rows -> Written \cup {"none", "pending", "leased"}]
    BY DEF SettleChunk, ApplyTypeOK, Written
  <2>2. lease' \in [Rows -> Tokens \cup {NoToken}]
    BY DEF SettleChunk, ApplyTypeOK
  <2>3. taxonomy' \in Nat /\ apply' \in [status : {"none", "sealed", "applying", "completed"},
                                         expected : Nat]
    BY DEF SettleChunk, ExpectedAfter, ApplyTypeOK
  <2>4. job' \in [status : Active \cup {"review", "completed"}, pauseRequested : BOOLEAN]
    BY DEF SettleChunk, Active
  <2>5. QED
    BY <1>2, <1>3, <2>1, <2>2, <2>3, <2>4 DEF SettleChunk, ApplyTypeOK
<1>5. ChunksInOrder'
  <2>1. ASSUME NEW i \in Rows, NEW j \in Rows, i < j PROVE Stage(row'[i]) <= Stage(row'[j])
    <3>1. Stage(row[i]) <= Stage(row[j])
      BY <2>1 DEF ChunksInOrder
    <3>2. QED
      BY <1>1, <1>4, <3>1, OrderOfStages DEF ApplyTypeOK, Written
  <2>2. QED
    BY <1>1, <2>1, FS_EmptySet, ApplyConstants DEF ChunksInOrder, ApplyConstants
<1>6. StatusMatchesRows'
  <2>1. /\ apply'.status = IF Open(row') = {} THEN "completed" ELSE "sealed"
        /\ job'.status = IF Open(row') = {} THEN "completed"
                         ELSE IF job.pauseRequested THEN "paused" ELSE "apply_sealed"
        /\ job'.pauseRequested = FALSE
    BY DEF SettleChunk
  <2>2. QED
    BY <1>1, <2>1 DEF StatusMatchesRows, Active
<1>7. OwnChangesExpected'
  <2>1. /\ taxonomy' = taxonomy \/ taxonomy' = taxonomy + 1
        /\ apply'.expected = IF taxonomy = apply.expected THEN taxonomy' ELSE apply.expected
        /\ edits' = edits
    BY DEF SettleChunk, ExpectedAfter
  <2>2. taxonomy \in Nat /\ apply.expected \in Nat
    BY DEF ApplyTypeOK
  <2>3. QED
    BY <2>1, <2>2 DEF OwnChangesExpected
<1>8. NothingBeforeSeal'
  BY DEF SettleChunk, NothingBeforeSeal
<1>9. QED
  BY <1>4, <1>5, <1>6, <1>7, <1>8

LEMMA FreeingInv ==
  ASSUME ApplyInv, Leased # {}, Free(Leased),
         apply' = [apply EXCEPT !.status = "sealed"],
         job'.status = StatusAfterRelease,
         job' \in [status : {"paused", "apply_sealed"}, pauseRequested : BOOLEAN],
         job'.pauseRequested => job'.status = "paused",
         UNCHANGED <<taxonomy, repo, edits>>
  PROVE  ApplyInv'
<1> USE DEF ApplyInv
<1>1. /\ row' \in [Rows -> Written \cup {"none", "pending", "leased"}]
      /\ lease' \in [Rows -> Tokens \cup {NoToken}]
      /\ lapsed' = {} /\ Leased' = {}
      /\ Open(row') = Open(row) /\ Open(row) # {}
      /\ ChunksInOrder'
  BY FreeingKeeps
<1>2. apply'.status = "sealed" /\ apply'.expected = apply.expected
  BY DEF ApplyTypeOK
<1>3. ApplyTypeOK'
  BY <1>1 DEF ApplyTypeOK, Active
<1>4. StatusMatchesRows'
  <2>1. job'.status \in {"paused", "apply_sealed"}
    OBVIOUS
  <2>2. QED
    BY <1>1, <1>2, <2>1 DEF StatusMatchesRows, Active
<1>5. OwnChangesExpected' /\ NothingBeforeSeal'
  BY <1>2 DEF OwnChangesExpected, NothingBeforeSeal
<1>6. QED
  BY <1>1, <1>3, <1>4, <1>5

LEMMA RecoverInv ==
  ASSUME ApplyInv, RecoverExpiredChunk
  PROVE  ApplyInv'
<1>1. Lapsed = Leased /\ Leased # {}
  BY OneChunk DEF RecoverExpiredChunk, ApplyInv
<1>2. job.pauseRequested \in BOOLEAN
  BY DEF ApplyInv, ApplyTypeOK
<1>3. /\ job'.status = StatusAfterRelease
      /\ job'.pauseRequested = job.pauseRequested
      /\ job' \in [status : {"paused", "apply_sealed"}, pauseRequested : BOOLEAN]
  BY <1>2 DEF RecoverExpiredChunk, StatusAfterRelease, ApplyInv, ApplyTypeOK
<1>4. QED
  BY <1>1, <1>3, FreeingInv DEF RecoverExpiredChunk, StatusAfterRelease

LEMMA ReleaseInv ==
  ASSUME ApplyInv, ReleaseChunk
  PROVE  ApplyInv'
<1>1. /\ job'.status = StatusAfterRelease
      /\ job'.pauseRequested = FALSE
      /\ job' \in [status : {"paused", "apply_sealed"}, pauseRequested : BOOLEAN]
  BY DEF ReleaseChunk, StatusAfterRelease
<1>2. QED
  BY <1>1, FreeingInv DEF ReleaseChunk

LEMMA PauseInv ==
  ASSUME ApplyInv, PauseApply
  PROVE  ApplyInv'
<1> USE DEF ApplyInv
<1>1. UNCHANGED <<apply, row, lease, lapsed, taxonomy, repo, edits>>
  BY DEF PauseApply
<1>2. ChunksInOrder' /\ Leased' = Leased /\ Open(row') = Open(row)
  BY <1>1 DEF ChunksInOrder, Leased, Chunk, Open
<1>3. /\ job'.status = IF Leased = {} THEN "paused" ELSE job.status
      /\ job'.pauseRequested = (Leased # {})
      /\ job.status \in Active
      /\ job' \in [status : Active, pauseRequested : BOOLEAN]
  BY DEF PauseApply, Active
<1>4. ApplyTypeOK'
  BY <1>1, <1>2, <1>3 DEF ApplyTypeOK, Leased
<1>5. StatusMatchesRows'
  BY <1>1, <1>2, <1>3 DEF StatusMatchesRows, Active
<1>6. OwnChangesExpected' /\ NothingBeforeSeal'
  BY <1>1, <1>3 DEF OwnChangesExpected, NothingBeforeSeal, Active
<1>7. QED
  BY <1>2, <1>4, <1>5, <1>6

LEMMA ResumeInv ==
  ASSUME ApplyInv, ResumeApply
  PROVE  ApplyInv'
<1> USE DEF ApplyInv, ResumeApply
<1>1. ChunksInOrder' /\ Leased' = Leased /\ Open(row') = Open(row)
  BY DEF ChunksInOrder, Leased, Chunk, Open
<1>2. ApplyTypeOK'
  BY <1>1 DEF ApplyTypeOK, Active, Leased
<1>3. StatusMatchesRows'
  BY <1>1 DEF StatusMatchesRows, Active
<1>4. OwnChangesExpected' /\ NothingBeforeSeal'
  BY DEF OwnChangesExpected, NothingBeforeSeal
<1>5. QED
  BY <1>1, <1>2, <1>3, <1>4

(* Time and the edits of others leave job, apply and rows alone. *)
LEMMA OthersInv ==
  ASSUME ApplyInv,
         \/ \E t \in Tokens : LeaseLapses(t)
         \/ EditTaxonomy
         \/ \E i \in Rows : EditRepository(i)
  PROVE  ApplyInv'
<1> USE DEF ApplyInv
<1>1. UNCHANGED <<job, apply, row, lease>>
  BY DEF LeaseLapses, EditTaxonomy, EditRepository
<1>2. /\ Leased' = Leased /\ Open(row') = Open(row)
      /\ \A t \in Tokens : Chunk(t)' = Chunk(t)
  BY <1>1 DEF Leased, Chunk, Open
<1>3. ChunksInOrder' /\ StatusMatchesRows'
  BY <1>1, <1>2 DEF ChunksInOrder, StatusMatchesRows
<1>4. ASSUME NEW t \in Tokens, LeaseLapses(t) PROVE ApplyInv'
  <2>1. t \in {lease[i] : i \in Leased}
    BY <1>4 DEF LeaseLapses, Chunk, Leased
  <2>2. ApplyTypeOK'
    BY <1>1, <1>2, <1>4, <2>1 DEF LeaseLapses, ApplyTypeOK, Leased
  <2>3. OwnChangesExpected' /\ NothingBeforeSeal'
    BY <1>1, <1>4 DEF LeaseLapses, OwnChangesExpected, NothingBeforeSeal
  <2>4. QED
    BY <1>3, <2>2, <2>3
<1>5. CASE EditTaxonomy
  <2>1. ApplyTypeOK'
    BY <1>1, <1>2, <1>5, ApplyConstants DEF EditTaxonomy, ApplyTypeOK, ApplyConstants, Leased
  <2>2. OwnChangesExpected' /\ NothingBeforeSeal'
    BY <1>1, <1>5 DEF EditTaxonomy, ApplyTypeOK, OwnChangesExpected, NothingBeforeSeal
  <2>3. QED
    BY <1>3, <2>1, <2>2
<1>6. ASSUME NEW i \in Rows, EditRepository(i) PROVE ApplyInv'
  <2>1. ApplyTypeOK'
    BY <1>1, <1>2, <1>6 DEF EditRepository, ApplyTypeOK, Leased
  <2>2. OwnChangesExpected' /\ NothingBeforeSeal'
    BY <1>1, <1>6 DEF EditRepository, OwnChangesExpected, NothingBeforeSeal
  <2>3. QED
    BY <1>3, <2>1, <2>2
<1>7. QED
  BY <1>4, <1>5, <1>6

LEMMA InitInv == ApplyInit => ApplyInv
<1> SUFFICES ASSUME ApplyInit PROVE ApplyInv
  OBVIOUS
<1> USE DEF ApplyInit
<1>1. Leased = {} /\ Open(row) = {}
  BY DEF Leased, Open
<1>2. ApplyTypeOK
  BY <1>1, ApplyConstants DEF ApplyTypeOK, ApplyConstants, Frozen, Leased
<1>3. ChunksInOrder
  <2>1. \A i, j \in Rows : Stage(row[i]) <= Stage(row[j])
    BY DEF Stage, Written
  <2>2. QED
    BY <1>1, <2>1, FS_EmptySet, ApplyConstants DEF ChunksInOrder, ApplyConstants
<1>4. StatusMatchesRows
  BY <1>1 DEF StatusMatchesRows, Active
<1>5. OwnChangesExpected /\ NothingBeforeSeal
  BY DEF OwnChangesExpected, NothingBeforeSeal, Frozen
<1>6. QED
  BY <1>2, <1>3, <1>4, <1>5 DEF ApplyInv

LEMMA StepInv == ApplyInv /\ [ApplyNext]_applyVars => ApplyInv'
<1> SUFFICES ASSUME ApplyInv, [ApplyNext]_applyVars PROVE ApplyInv'
  OBVIOUS
<1>1. CASE UNCHANGED applyVars
  BY <1>1 DEF applyVars, ApplyInv, ApplyTypeOK, ChunksInOrder, StatusMatchesRows, Leased, Chunk,
       Open, OwnChangesExpected, NothingBeforeSeal
<1>2. CASE ApplyNext
  BY <1>2, SealInv, ClaimInv, SettleInv, PauseInv, ResumeInv, RecoverInv, ReleaseInv, OthersInv
     DEF ApplyNext
<1>3. QED
  BY <1>1, <1>2

(* The inductive invariant of the durable apply. *)
THEOREM ApplyInvariant == ApplySpec => []ApplyInv
BY InitInv, StepInv, PTL DEF ApplySpec

(* The stored job, apply and rows keep their types. *)
THEOREM ApplyTypeCorrect == ApplySpec => []ApplyTypeOK
BY ApplyInvariant, PTL DEF ApplyInv

(* The apply goes through its rows in order, one chunk of one holder at a   *)
(* time.                                                                    *)
THEOREM ChunksStayInOrder == ApplySpec => []ChunksInOrder
BY ApplyInvariant, PTL DEF ApplyInv

(* Job, apply and rows tell the same story after every transaction. *)
THEOREM StatusIsRows == ApplySpec => []StatusMatchesRows
BY ApplyInvariant, PTL DEF ApplyInv

(* A pause that was asked for stays until the user resumes or the last      *)
(* chunk completes the apply, and nothing is claimed until then.            *)
THEOREM PauseIsKept == ApplySpec => PauseKept
<1> DEFINE A == PauseAsked /\ ~ ResumeApply =>
                  /\ job'.pauseRequested \/ job'.status \in {"paused", "completed"}
                  /\ \A i \in Rows : row[i] = "pending" => row'[i] = "pending"
<1>1. ApplyInv /\ [ApplyNext]_applyVars => [A]_applyVars
  <2> SUFFICES ASSUME ApplyInv, ApplyNext, PauseAsked, ~ ResumeApply
               PROVE  /\ job'.pauseRequested \/ job'.status \in {"paused", "completed"}
                      /\ \A i \in Rows : row[i] = "pending" => row'[i] = "pending"
    OBVIOUS
  <2> USE DEF PauseAsked
  <2>1. ASSUME NEW n \in 0..RowCount, SealApply(n) PROVE FALSE
    BY <2>1 DEF SealApply, ApplyInv, StatusMatchesRows
  <2>2. ASSUME NEW t \in Tokens, ClaimChunk(t) PROVE FALSE
    BY <2>2 DEF ClaimChunk, CanClaim
  <2>3. ASSUME NEW t \in Tokens, NEW new, SettleChunk(t, new) PROVE A
    <3>1. \A i \in Rows : row[i] = "pending" => row'[i] = "pending"
      BY <2>3, SettledChunk
    <3>2. Leased # {}
      BY <2>3, SettledChunk
    <3>3. job.pauseRequested
      BY <3>2 DEF ApplyInv, StatusMatchesRows
    <3>4. QED
      BY <2>3, <3>1, <3>3 DEF SettleChunk
  <2>4. CASE PauseApply
    BY <2>4 DEF PauseApply
  <2>5. CASE RecoverExpiredChunk
    <3>1. Leased # {}
      BY <2>5 DEF RecoverExpiredChunk, Lapsed
    <3>2. job.pauseRequested
      BY <3>1 DEF ApplyInv, StatusMatchesRows
    <3>3. QED
      BY <2>5, <3>2 DEF RecoverExpiredChunk, Free, ApplyInv, ApplyTypeOK
  <2>6. CASE ReleaseChunk
    <3>1. job.pauseRequested
      BY <2>6 DEF ReleaseChunk, ApplyInv, StatusMatchesRows
    <3>2. QED
      BY <2>6, <3>1 DEF ReleaseChunk, StatusAfterRelease, Free
  <2>7. CASE \/ \E t \in Tokens : LeaseLapses(t)
             \/ EditTaxonomy
             \/ \E i \in Rows : EditRepository(i)
    BY <2>7 DEF LeaseLapses, EditTaxonomy, EditRepository
  <2>8. QED
    BY <2>1, <2>2, <2>3, <2>4, <2>5, <2>6, <2>7 DEF ApplyNext
<1>2. QED
  BY <1>1, ApplyInvariant, PTL DEF ApplySpec, PauseKept

(* A row is decided once, under a live lease, and skipped exactly when      *)
(* others have changed what it was reviewed by.                             *)
THEOREM RowsAreDecidedByReview == ApplySpec => DecidedByReview
<1> DEFINE A == \A i \in Rows :
                  /\ row[i] \in Written => row'[i] = row[i]
                  /\ row[i] \notin Written /\ row'[i] \in Written =>
                       /\ row[i] = "leased" /\ lease[i] \notin lapsed
                       /\ row'[i] = "skipped" <=> (edits > 0 \/ repo[i] = "unfit")
           Undecided == \A i \in Rows :
                          /\ row[i] \in Written => row'[i] = row[i]
                          /\ row[i] \notin Written => row'[i] \notin Written
<1>1. ApplyInv /\ [ApplyNext]_applyVars => [A]_applyVars
  <2> SUFFICES ASSUME ApplyInv, ApplyNext PROVE A
    OBVIOUS
  <2>1. ASSUME NEW n \in 0..RowCount, SealApply(n) PROVE Undecided
    BY <2>1 DEF SealApply, ApplyInv, NothingBeforeSeal, Written
  <2>2. ASSUME NEW t \in Tokens, ClaimChunk(t) PROVE Undecided
    <3>1. Lowest({i \in Rows : row[i] = "pending"} \cup Lapsed, ChunkMax)
            \subseteq {i \in Rows : row[i] = "pending"} \cup Lapsed
      BY DEF Lowest
    <3>2. QED
      BY <2>2, <3>1 DEF ClaimChunk, Lapsed, Leased, Written
  <2>3. ASSUME NEW t \in Tokens, NEW new, SettleChunk(t, new) PROVE A
    <3>1. \A i \in Rows : row[i] = "leased" => lease[i] = t
      BY <2>3, SettledChunk DEF Chunk, Leased
    <3>2. \A i \in Rows : Fit(i) <=> edits = 0 /\ repo[i] = "reviewed"
      BY DEF Fit, ApplyInv, OwnChangesExpected
    <3>3. edits \in Nat /\ \A i \in Rows : repo[i] \in {"reviewed", "unfit"}
      BY DEF ApplyInv, ApplyTypeOK
    <3>4. \A i \in Rows : ~ Fit(i) <=> edits > 0 \/ repo[i] = "unfit"
      BY <3>2, <3>3
    <3>5. t \notin lapsed
      BY <2>3 DEF SettleChunk, CanSettle
    <3>6. QED
      BY <2>3, <3>1, <3>4, <3>5, SettledChunk DEF Written
  <2>4. CASE RecoverExpiredChunk \/ ReleaseChunk
    BY <2>4 DEF RecoverExpiredChunk, ReleaseChunk, Free, Lapsed, Leased, Written
  <2>5. CASE \/ PauseApply \/ ResumeApply \/ EditTaxonomy
             \/ \E t \in Tokens : LeaseLapses(t)
             \/ \E i \in Rows : EditRepository(i)
    BY <2>5 DEF PauseApply, ResumeApply, EditTaxonomy, LeaseLapses, EditRepository
  <2>6. Undecided => A
    OBVIOUS
  <2>7. QED
    BY <2>1, <2>2, <2>3, <2>4, <2>5, <2>6 DEF ApplyNext
<1>2. QED
  BY <1>1, ApplyInvariant, PTL DEF ApplySpec, DecidedByReview

-----------------------------------------------------------------------------
(* The drivers. *)

(* The pump settles with a token it has claimed with, and is in the loop    *)
(* exactly while it holds the job queue.                                    *)
PumpInv ==
  /\ pump \in [pc : PumpPoint, token : Tokens \cup {NoToken}, complete : BOOLEAN]
  /\ pump.pc = "settle" => pump.token \in Tokens
  /\ queue = "pump" <=> pump.pc \in {"claim", "settle", "progress"}

(* The steps that concern neither the pump nor the job queue. *)
Aside == UNCHANGED <<pump, queue>>

(* A step of the recovery frees expired leases or leaves the apply alone,   *)
(* and at most starts the pump.                                             *)
LEMMA WorkSteps ==
  ASSUME WorkStep
  PROVE  /\ RecoverExpiredChunk \/ UNCHANGED applyVars
         /\ queue' = queue
         /\ pump' = pump \/ (pump.pc = "off" /\ pump' = [NoPump EXCEPT !.pc = "queued"])
<1>1. CASE WorkExpires
  BY <1>1 DEF WorkExpires
<1>2. CASE WorkPumps
  BY <1>2 DEF WorkPumps
<1>3. CASE WorkBegins \/ WorkRearms \/ WorkRereads \/ WorkReconciles \/ WorkEnds \/ WorkFails
  BY <1>3 DEF WorkBegins, WorkRearms, WorkRereads, WorkReconciles, WorkEnds, WorkFails
<1>4. QED
  BY <1>1, <1>2, <1>3 DEF WorkStep

(* A step of the host releases, pauses, resumes or lets a lease lapse, or   *)
(* leaves the apply alone.                                                  *)
LEMMA HostSteps ==
  ASSUME RestoreStep \/ CommandStep \/ UserOpens \/ UserResumes \/ UserStops \/ Tidies
         \/ AlarmRings \/ \E t \in Tokens : TimePasses(t)
  PROVE  /\ \/ ReleaseChunk \/ PauseApply \/ ResumeApply
            \/ \E t \in Tokens : LeaseLapses(t)
            \/ UNCHANGED applyVars
         /\ Aside
<1> USE DEF Aside, HostOnly
<1>1. CASE RestoreStep
  BY <1>1 DEF RestoreStep, RestoreReleases, RestoreReads, RestoreStarts
<1>2. CASE CommandStep
  BY <1>2 DEF CommandStep, UserStarts, UserRestored, UserPauses
<1>3. CASE UserOpens \/ UserResumes \/ UserStops
  BY <1>3 DEF UserOpens, UserResumes, UserStops
<1>4. CASE Tidies \/ AlarmRings
  BY <1>4 DEF Tidies, AlarmRings, Started
<1>5. CASE \E t \in Tokens : TimePasses(t)
  BY <1>5 DEF TimePasses
<1>6. QED
  BY <1>1, <1>2, <1>3, <1>4, <1>5

(* What the worker's deaths and starts do to the apply and the pump. *)
LEMMA WorkerSteps ==
  ASSUME Crash \/ IdleStop \/ Wake
  PROVE  /\ UNCHANGED applyVars
         /\ Aside \/ (pump' = NoPump /\ queue' = "free")
BY DEF Crash, IdleStop, Wake, Started, Forgotten, Aside

(* A pump that is off or queued holds nothing. *)
LEMMA FreshPump ==
  ASSUME pump' = NoPump \/ pump' = [NoPump EXCEPT !.pc = "queued"],
         queue' # "pump"
  PROVE  PumpInv'
<1>1. /\ pump'.pc \in {"off", "queued"}
      /\ pump'.token = NoToken /\ pump'.complete = FALSE
      /\ pump' = [pc |-> pump'.pc, token |-> NoToken, complete |-> FALSE]
  BY DEF NoPump
<1>2. pump' \in [pc : PumpPoint, token : Tokens \cup {NoToken}, complete : BOOLEAN]
  BY <1>1 DEF PumpPoint
<1>3. QED
  BY <1>1, <1>2 DEF PumpInv

(* A step of the pump keeps PumpInv, and writes rows only while the pump    *)
(* holds the job queue.                                                     *)
LEMMA PumpSteps ==
  ASSUME PumpInv, PumpStep
  PROVE  /\ PumpInv'
         /\ queue' = "agent" => queue = "agent"
         /\ \/ /\ queue # "agent"
               /\ \E t \in Tokens : \/ ClaimChunk(t)
                                    \/ \E new \in SUBSET Chunk(t) : SettleChunk(t, new)
            \/ ReleaseChunk \/ PauseApply \/ UNCHANGED applyVars
<1> USE DEF PumpInv, PumpPoint, PumpAt, PumpGoes, NoPump
<1>1. CASE PumpEnters
  BY <1>1 DEF PumpEnters
<1>2. CASE PumpClaims
  <2>1. PICK t \in Tokens : ClaimChunk(t) /\ pump' = [pump EXCEPT !.pc = "settle", !.token = t]
    BY <1>2 DEF PumpClaims
  <2>2. pump.pc = "claim" /\ queue = "pump" /\ queue' = "pump"
    BY <1>2 DEF PumpClaims
  <2>3. pump' \in [pc : PumpPoint, token : Tokens \cup {NoToken}, complete : BOOLEAN]
    BY <2>1
  <2>4. pump'.pc = "settle" /\ pump'.token \in Tokens
    BY <2>1
  <2>5. QED
    BY <2>1, <2>2, <2>3, <2>4
<1>3. CASE PumpIdles
  BY <1>3 DEF PumpIdles, LoopReturns
<1>4. CASE PumpSettles
  <2>1. pump.pc = "settle" /\ pump.token \in Tokens /\ queue = "pump" /\ queue' = "pump"
    BY <1>4 DEF PumpSettles
  <2>2. PICK new \in SUBSET Chunk(pump.token) : SettleChunk(pump.token, new)
    BY <1>4 DEF PumpSettles
  <2>3. pump' \in [pc : PumpPoint, token : Tokens \cup {NoToken}, complete : BOOLEAN]
    BY <1>4 DEF PumpSettles
  <2>4. pump'.pc = "progress"
    BY <1>4 DEF PumpSettles
  <2>5. QED
    BY <2>1, <2>2, <2>3, <2>4
<1>5. CASE PumpPublishes
  BY <1>5 DEF PumpPublishes, LoopReturns
<1>6. CASE PumpThrows
  BY <1>6 DEF PumpThrows
<1>7. CASE FailureRead \/ FailureReleases \/ FailureChecks \/ FailurePauses \/ FailureFails
  BY <1>7 DEF FailureRead, FailureReleases, FailureChecks, FailurePauses, FailureFails
<1>8. CASE PumpReserves
  BY <1>8 DEF PumpReserves
<1>9. CASE PumpStops \/ PumpRestarts
  <2>1. /\ pump.pc \in {"restart", "backoff"}
        /\ UNCHANGED <<applyVars, queue>>
    BY <1>9 DEF PumpStops, PumpRestarts, Resolves
  <2>2. pump' = NoPump \/ pump' = [NoPump EXCEPT !.pc = "queued"]
    BY <1>9 DEF PumpStops, PumpRestarts
  <2>3. PumpInv'
    BY <2>1, <2>2, FreshPump
  <2>4. QED
    BY <2>1, <2>3
<1>10. QED
  BY <1>1, <1>2, <1>3, <1>4, <1>5, <1>6, <1>7, <1>8, <1>9 DEF PumpStep

(* Every step keeps PumpInv, implements a step of the apply, and if the     *)
(* apply may become active by it, Cubby does not hold the job queue.        *)
LEMMA DriverSteps ==
  ASSUME PumpInv, Next
  PROVE  /\ PumpInv'
         /\ [ApplyNext]_applyVars
         /\ queue' = "agent" => \/ queue = "agent"
                                \/ job.status \notin Active /\ UNCHANGED applyVars
         /\ queue = "agent" /\ job.status \notin Active => job' = job \/ queue' # "agent"
<1> USE DEF Aside, NoPump
<1>1. CASE PumpStep
  BY <1>1, PumpSteps DEF ApplyNext, ReleaseChunk, PauseApply, applyVars
<1>2. CASE WorkStep
  <2>1. PumpInv'
    BY <1>2, WorkSteps DEF PumpInv, PumpPoint
  <2>2. QED
    BY <1>2, <2>1, WorkSteps DEF ApplyNext, RecoverExpiredChunk, applyVars
<1>3. CASE RestoreStep \/ CommandStep \/ UserOpens \/ UserResumes \/ UserStops \/ Tidies
           \/ AlarmRings \/ \E t \in Tokens : TimePasses(t)
  <2>1. PumpInv'
    BY <1>3, HostSteps DEF PumpInv
  <2>2. QED
    BY <1>3, <2>1, HostSteps
       DEF ApplyNext, ReleaseChunk, PauseApply, ResumeApply, LeaseLapses, applyVars, Active
<1>4. CASE Crash \/ IdleStop \/ Wake
  <2>1. Aside => PumpInv'
    BY DEF PumpInv
  <2>2. pump' = NoPump /\ queue' = "free" => PumpInv'
    BY FreshPump
  <2>3. PumpInv'
    BY <1>4, <2>1, <2>2, WorkerSteps
  <2>4. QED
    BY <1>4, <2>3, WorkerSteps DEF applyVars
<1>5. CASE UserApplies
  BY <1>5 DEF UserApplies, HostOnly, PumpInv, ApplyNext
<1>6. CASE AgentChecks
  BY <1>6 DEF AgentChecks, PumpInv
<1>7. CASE AgentWrites
  BY <1>7 DEF AgentWrites, PumpInv, ApplyNext
<1>8. QED
  BY <1>1, <1>2, <1>3, <1>4, <1>5, <1>6, <1>7 DEF Next

(* PumpInv holds in every reachable state. *)
LEMMA PumpInvariant == Spec => []PumpInv
<1>1. RecoveryInit => PumpInv
  BY DEF RecoveryInit, PumpInv, NoPump, PumpPoint
<1>2. PumpInv /\ [Next]_vars => PumpInv'
  <2>1. PumpInv /\ UNCHANGED vars => PumpInv'
    BY DEF vars, drivers, PumpInv
  <2>2. QED
    BY <2>1, DriverSteps
<1>3. QED
  BY <1>1, <1>2, PTL DEF Spec

(* Whatever crashes, fails, is joined, restored or restarted, the drivers   *)
(* do to the durable apply only what its operations do.                     *)
THEOREM DriversImplementApply == Spec => ApplySpec
<1>1. RecoveryInit => ApplyInit
  BY DEF RecoveryInit
<1>2. PumpInv /\ [Next]_vars => [ApplyNext]_applyVars
  <2>1. UNCHANGED vars => UNCHANGED applyVars
    BY DEF vars
  <2>2. QED
    BY <2>1, DriverSteps
<1>3. QED
  BY <1>1, <1>2, PumpInvariant, PTL DEF Spec, ApplySpec

(* Cubby's tag writes and an apply exclude each other. *)
THEOREM CubbyIsKeptOut == Spec => []AgentKeepsOut
<1>1. RecoveryInit => AgentKeepsOut
  BY DEF RecoveryInit, AgentKeepsOut
<1>2. PumpInv /\ AgentKeepsOut /\ [Next]_vars => AgentKeepsOut'
  <2>1. AgentKeepsOut /\ UNCHANGED vars => AgentKeepsOut'
    BY DEF vars, drivers, applyVars, AgentKeepsOut
  <2>2. ASSUME PumpInv, AgentKeepsOut, Next PROVE AgentKeepsOut'
    BY <2>2, DriverSteps DEF AgentKeepsOut, applyVars
  <2>3. QED
    BY <2>1, <2>2
<1>3. QED
  BY <1>1, <1>2, PumpInvariant, PTL DEF Spec

(* Under the drivers, a pause is kept: none of the races between the pump,  *)
(* the recovery, a restore and the user loses it.                           *)
THEOREM DriversKeepPause == Spec => PauseKept
BY DriversImplementApply, PauseIsKept

-----------------------------------------------------------------------------
(* The types of the drivers. *)

(* The recovery queue holds each kind of work at most once. *)
WorkLists == {<<>>, <<"start">>, <<"recover">>, <<"start", "recover">>, <<"recover", "start">>}

WorkTyped ==
  /\ work \in WorkLists
  /\ point \in WorkPoint /\ (point = "none" <=> work = <<>>)

(* What the drivers keep beside the pump and the recovery queue. *)
HostTyped ==
  /\ {up, alarm, known, owned} \subseteq BOOLEAN
  /\ queue \in {"free", "pump", "agent"}
  /\ tidy \in {"none", "read", "arm", "clear"}
  /\ flight \in {"none", "release", "read", "start", "done"}
  /\ user \in {"none", "restore", "pause", "start"}
  /\ crashes \in 0..MaxCrashes /\ errors \in 0..MaxErrors

(* The keys in each of those lists. *)
LEMMA KeysOfWork ==
  /\ Range(<<>>) = {} /\ Range(<<"start">>) = {"start"} /\ Range(<<"recover">>) = {"recover"}
  /\ Range(<<"start", "recover">>) = {"start", "recover"}
  /\ Range(<<"recover", "start">>) = {"start", "recover"}
<1>1. DOMAIN <<>> = {} /\ DOMAIN <<"start">> = {1} /\ DOMAIN <<"recover">> = {1}
  OBVIOUS
<1>2. DOMAIN <<"start", "recover">> = {1, 2} /\ DOMAIN <<"recover", "start">> = {1, 2}
  OBVIOUS
<1>3. QED
  BY <1>1, <1>2 DEF Range

(* What queueing and ending work make of those lists. *)
LEMMA WorkListSteps ==
  /\ \A key : Append(<<>>, key) = <<key>>
  /\ Append(<<"start">>, "recover") = <<"start", "recover">>
  /\ Append(<<"recover">>, "start") = <<"recover", "start">>
  /\ Len(<<"start">>) = 1 /\ Tail(<<"start">>) = <<>>
  /\ Len(<<"recover">>) = 1 /\ Tail(<<"recover">>) = <<>>
  /\ Len(<<"start", "recover">>) = 2 /\ Tail(<<"start", "recover">>) = <<"recover">>
  /\ Len(<<"recover", "start">>) = 2 /\ Tail(<<"recover", "start">>) = <<"start">>
<1>1. \A key : Append(<<>>, key) = <<key>>
  OBVIOUS
<1>2. Append(<<"start">>, "recover") = <<"start", "recover">>
  <2>1. PICK s, l : s = Append(<<"start">>, "recover") /\ l = <<"start", "recover">>
    OBVIOUS
  <2>2. s \in Seq({"start", "recover"}) /\ Len(s) = 2 /\ s[1] = "start" /\ s[2] = "recover"
    BY <2>1
  <2>3. l \in Seq({"start", "recover"}) /\ Len(l) = 2 /\ l[1] = "start" /\ l[2] = "recover"
    BY <2>1
  <2>4. \A i \in 1..Len(s) : s[i] = l[i]
    BY <2>2, <2>3
  <2>5. s = l
    BY <2>2, <2>3, <2>4, SeqEqual
  <2>6. QED
    BY <2>1, <2>5
<1>3. Append(<<"recover">>, "start") = <<"recover", "start">>
  <2>1. PICK s, l : s = Append(<<"recover">>, "start") /\ l = <<"recover", "start">>
    OBVIOUS
  <2>2. s \in Seq({"start", "recover"}) /\ Len(s) = 2 /\ s[1] = "recover" /\ s[2] = "start"
    BY <2>1
  <2>3. l \in Seq({"start", "recover"}) /\ Len(l) = 2 /\ l[1] = "recover" /\ l[2] = "start"
    BY <2>1
  <2>4. \A i \in 1..Len(s) : s[i] = l[i]
    BY <2>2, <2>3
  <2>5. s = l
    BY <2>2, <2>3, <2>4, SeqEqual
  <2>6. QED
    BY <2>1, <2>5
<1>4. Len(<<"start">>) = 1 /\ Tail(<<"start">>) = <<>>
  OBVIOUS
<1>5. Len(<<"recover">>) = 1 /\ Tail(<<"recover">>) = <<>>
  OBVIOUS
<1>6. Len(<<"start", "recover">>) = 2 /\ Tail(<<"start", "recover">>) = <<"recover">>
  OBVIOUS
<1>7. Len(<<"recover", "start">>) = 2 /\ Tail(<<"recover", "start">>) = <<"start">>
  OBVIOUS
<1>8. QED
  BY <1>1, <1>2, <1>3, <1>4, <1>5, <1>6, <1>7

(* Joining or queueing work keeps the list one of those. *)
LEMMA EnqueueTyped ==
  ASSUME WorkTyped, NEW key \in {"start", "recover"}, Enqueue(key)
  PROVE  WorkTyped'
<1>1. CASE key \in Range(work)
  BY <1>1 DEF Enqueue, WorkTyped
<1>2. CASE key \notin Range(work)
  <2>1. work' = Append(work, key) /\ point' = IF work = <<>> THEN "begin" ELSE point
    BY <1>2 DEF Enqueue
  <2>2. work \in {<<>>, <<"start">>, <<"recover">>}
    BY <1>2, KeysOfWork DEF WorkTyped, WorkLists
  <2>3. work = <<>> => work' = <<key>>
    BY <2>1, WorkListSteps
  <2>4. work = <<"start">> => work' = <<"start", "recover">>
    <3>1. work = <<"start">> => key = "recover"
      BY <1>2, KeysOfWork
    <3>2. QED
      BY <2>1, <3>1, WorkListSteps
  <2>5. work = <<"recover">> => work' = <<"recover", "start">>
    <3>1. work = <<"recover">> => key = "start"
      BY <1>2, KeysOfWork
    <3>2. QED
      BY <2>1, <3>1, WorkListSteps
  <2>6. work' \in WorkLists /\ work' # <<>>
    BY <2>2, <2>3, <2>4, <2>5 DEF WorkLists
  <2>7. point' \in WorkPoint /\ point' # "none"
    BY <2>1 DEF WorkTyped, WorkPoint
  <2>8. QED
    BY <2>6, <2>7 DEF WorkTyped
<1>3. QED
  BY <1>1, <1>2

(* Starting and recovering join or queue. *)
LEMMA StartsTyped ==
  ASSUME WorkTyped, StartWork \/ RecoverWork
  PROVE  WorkTyped'
BY EnqueueTyped DEF StartWork, RecoverWork, WorkTyped

(* Ending the active work leaves the rest of the list. *)
LEMMA EndTyped ==
  ASSUME WorkTyped, work # <<>>, EndWork
  PROVE  WorkTyped' /\ owned' \in BOOLEAN
<1>1. /\ work = <<"start">> \/ work = <<"recover">> => work' = <<>> /\ Len(work) = 1
      /\ work = <<"start", "recover">> => work' = <<"recover">> /\ Len(work) = 2
      /\ work = <<"recover", "start">> => work' = <<"start">> /\ Len(work) = 2
  BY WorkListSteps DEF EndWork
<1>2. point' = IF Len(work) = 1 THEN "none" ELSE "begin"
  BY DEF EndWork
<1>3. work \in WorkLists
  BY DEF WorkTyped
<1>4. work \in {<<"start">>, <<"recover">>} \/ Len(work) = 2
  BY <1>1, <1>3 DEF WorkLists
<1>5. work' \in {<<>>, <<"recover">>, <<"start">>} /\ (work' = <<>> <=> Len(work) = 1)
  <2>1. CASE work \in {<<"start">>, <<"recover">>}
    BY <1>1, <2>1
  <2>2. <<>> # <<"start">> /\ <<>> # <<"recover">>
    OBVIOUS
  <2>3. CASE work \notin {<<"start">>, <<"recover">>}
    <3>1. work = <<"start", "recover">> \/ work = <<"recover", "start">>
      BY <1>3, <2>3 DEF WorkLists
    <3>2. QED
      BY <1>1, <2>2, <3>1
  <2>4. QED
    BY <2>1, <2>3
<1>6. point' \in WorkPoint /\ (point' = "none" <=> Len(work) = 1)
  BY <1>2 DEF WorkPoint
<1>7. owned' \in BOOLEAN
  BY DEF EndWork
<1>8. QED
  BY <1>5, <1>6, <1>7 DEF WorkTyped, WorkLists

(* Going on to another point of the active work. *)
LEMMA ContinueTyped ==
  ASSUME WorkTyped, work # <<>>, NEW p \in WorkPoint \ {"none"}, Continue(p)
  PROVE  WorkTyped'
BY DEF Continue, WorkTyped

(* A failing call stays within its bound. *)
LEMMA ErrorTyped ==
  ASSUME HostTyped, Error
  PROVE  errors' \in 0..MaxErrors
BY RecoveryConstants DEF HostTyped, Error, RecoveryConstants

(* A step of the recovery keeps the types. *)
LEMMA WorkTypes ==
  ASSUME WorkTyped, HostTyped, WorkStep
  PROVE  WorkTyped' /\ HostTyped'
<1>1. work # <<>>
  BY DEF WorkTyped, WorkStep, WorkBegins, WorkRearms, WorkExpires, WorkRereads, WorkPumps,
         WorkReconciles, WorkEnds, WorkFails, At
<1>2. Recoverable \in BOOLEAN
  BY DEF Recoverable
<1>3. CASE WorkBegins
  <2>1. \E p \in WorkPoint \ {"none"} : Continue(p)
    BY <1>3 DEF WorkBegins, WorkPoint
  <2>2. owned' \in BOOLEAN
    BY <1>2, <1>3 DEF WorkBegins
  <2>3. QED
    BY <1>1, <1>3, <2>1, <2>2, ContinueTyped DEF WorkBegins, HostTyped
<1>4. CASE WorkRearms
  <2>1. WorkTyped' /\ owned' \in BOOLEAN
    BY <1>1, <1>4, EndTyped, ContinueTyped DEF WorkRearms, HostTyped, WorkPoint
  <2>2. QED
    BY <1>4, <2>1 DEF WorkRearms, HostTyped
<1>5. CASE WorkExpires
  BY <1>1, <1>5, ContinueTyped DEF WorkExpires, HostTyped, WorkPoint
<1>6. CASE WorkRereads
  BY <1>1, <1>2, <1>6, ContinueTyped DEF WorkRereads, HostTyped, WorkPoint
<1>7. CASE WorkPumps
  BY <1>1, <1>7, ContinueTyped DEF WorkPumps, HostTyped, WorkPoint
<1>8. CASE WorkReconciles
  BY <1>1, <1>8, ContinueTyped DEF WorkReconciles, HostTyped, WorkPoint
<1>9. CASE WorkEnds
  BY <1>1, <1>9, EndTyped DEF WorkEnds, HostTyped
<1>10. CASE WorkFails
  BY <1>1, <1>10, EndTyped, ErrorTyped DEF WorkFails, HostTyped
<1>11. QED
  BY <1>3, <1>4, <1>5, <1>6, <1>7, <1>8, <1>9, <1>10 DEF WorkStep

(* An execution that resolves moves the work that waits for it. *)
LEMMA ResolvesTyped ==
  ASSUME WorkTyped, HostTyped, Resolves, errors' \in 0..MaxErrors
  PROVE  WorkTyped' /\ HostTyped'
<1>1. WorkTyped'
  BY ContinueTyped DEF Resolves, WorkPoint, WorkTyped
<1>2. QED
  BY <1>1 DEF Resolves, HostTyped

(* A step of the pump keeps the types. *)
LEMMA PumpTypes ==
  ASSUME WorkTyped, HostTyped, PumpStep
  PROVE  WorkTyped' /\ HostTyped'
<1>1. CASE PumpStops \/ PumpRestarts
  <2>1. errors' \in 0..MaxErrors
    BY <1>1, ErrorTyped DEF PumpStops, PumpRestarts, HostTyped
  <2>2. QED
    BY <1>1, <2>1, ResolvesTyped DEF PumpStops, PumpRestarts
<1>2. CASE ~ (PumpStops \/ PumpRestarts)
  <2>1. PumpOnly
    BY <1>2 DEF PumpStep, PumpEnters, PumpClaims, PumpIdles, PumpSettles, PumpPublishes, PumpThrows,
                FailureRead, FailureReleases, FailureChecks, FailurePauses, FailureFails,
                PumpReserves
  <2>2. queue' \in {queue, "free", "pump"} /\ tidy' \in {tidy, "read"}
    BY <1>2 DEF PumpStep, PumpEnters, PumpClaims, PumpIdles, PumpSettles, PumpPublishes, PumpThrows,
                FailureRead, FailureReleases, FailureChecks, FailurePauses, FailureFails,
                PumpReserves, LoopReturns
  <2>3. errors' \in 0..MaxErrors
    BY <1>2, ErrorTyped
       DEF PumpStep, PumpEnters, PumpClaims, PumpIdles, PumpSettles, PumpPublishes, PumpThrows,
           FailureRead, FailureReleases, FailureChecks, FailurePauses, FailureFails,
           PumpReserves, HostTyped
  <2>4. QED
    BY <2>1, <2>2, <2>3 DEF PumpOnly, WorkTyped, HostTyped
<1>3. QED
  BY <1>1, <1>2

(* A step of the host, of a page, of Cubby, of the alarm or of time keeps   *)
(* the types.                                                                *)
LEMMA HostTypes ==
  ASSUME WorkTyped, HostTyped,
         \/ RestoreStep \/ CommandStep \/ Tidies
         \/ UserOpens \/ UserApplies \/ UserResumes \/ UserStops
         \/ AgentChecks \/ AgentWrites
         \/ \E t \in Tokens : TimePasses(t)
  PROVE  WorkTyped' /\ HostTyped'
<1>1. CASE RestoreStep
  BY <1>1, StartsTyped
     DEF RestoreStep, RestoreReleases, RestoreReads, RestoreStarts, HostOnly, HostTyped, WorkTyped
<1>2. CASE CommandStep
  BY <1>2, StartsTyped
     DEF CommandStep, UserStarts, UserRestored, UserPauses, HostOnly, HostTyped, WorkTyped
<1>3. CASE Tidies
  BY <1>3 DEF Tidies, HostTyped, WorkTyped
<1>4. CASE UserOpens \/ UserApplies \/ UserResumes \/ UserStops
  BY <1>4 DEF UserOpens, UserApplies, UserResumes, UserStops, BeginRestore, HostOnly, HostTyped,
              WorkTyped
<1>5. CASE AgentChecks \/ AgentWrites
  BY <1>5 DEF AgentChecks, AgentWrites, HostTyped, WorkTyped
<1>6. CASE \E t \in Tokens : TimePasses(t)
  BY <1>6, ErrorTyped DEF TimePasses, HostTyped, WorkTyped
<1>7. QED
  BY <1>1, <1>2, <1>3, <1>4, <1>5, <1>6

(* The worker's deaths and starts, and the alarm that starts it, keep them. *)
LEMMA WorkerTypes ==
  ASSUME WorkTyped, HostTyped, Crash \/ IdleStop \/ Wake \/ AlarmRings
  PROVE  WorkTyped' /\ HostTyped'
<1>1. CASE Crash \/ IdleStop
  <2>1. crashes' \in 0..MaxCrashes
    BY <1>1, RecoveryConstants DEF Crash, IdleStop, HostTyped, RecoveryConstants
  <2>2. QED
    BY <1>1, <2>1
       DEF Crash, IdleStop, Forgotten, HostTyped, WorkTyped, WorkLists, WorkPoint
<1>2. CASE Wake \/ AlarmRings
  <2>1. alarm' \in BOOLEAN
    BY <1>2 DEF Wake, AlarmRings, HostTyped
  <2>2. CASE Started
    BY <2>1, <2>2 DEF Started, HostTyped, WorkTyped, WorkLists, WorkPoint
  <2>3. CASE ~ Started
    BY <1>2, <2>1, <2>3, StartsTyped DEF Wake, AlarmRings, HostTyped
  <2>4. QED
    BY <2>2, <2>3
<1>3. QED
  BY <1>1, <1>2

(* The pump, the recovery queue, restores and commands keep their types in  *)
(* every reachable state; each kind of work is queued at most once.         *)
THEOREM RecoveryTypeCorrect == Spec => []RecoveryTypeOK
<1>1. RecoveryInit => WorkTyped /\ HostTyped
  <2>1. RecoveryInit => WorkTyped
    BY DEF RecoveryInit, WorkTyped, WorkLists, WorkPoint
  <2>2. RecoveryInit => HostTyped
    <3>1. RecoveryInit => crashes \in 0..MaxCrashes /\ errors \in 0..MaxErrors
      BY RecoveryConstants DEF RecoveryInit, RecoveryConstants
    <3>2. RecoveryInit => {up, alarm, known, owned} \subseteq BOOLEAN
      BY DEF RecoveryInit
    <3>3. RecoveryInit => queue = "free" /\ tidy = "none" /\ flight = "none" /\ user = "none"
      BY DEF RecoveryInit
    <3>4. QED
      BY <3>1, <3>2, <3>3 DEF HostTyped
  <2>3. QED
    BY <2>1, <2>2
<1>2. WorkTyped /\ HostTyped /\ [Next]_vars => WorkTyped' /\ HostTyped'
  <2>1. ASSUME WorkTyped, HostTyped, UNCHANGED vars PROVE WorkTyped' /\ HostTyped'
    BY <2>1 DEF vars, drivers, WorkTyped, HostTyped
  <2>2. ASSUME WorkTyped, HostTyped, Next PROVE WorkTyped' /\ HostTyped'
    BY <2>2, WorkTypes, PumpTypes, HostTypes, WorkerTypes DEF Next
  <2>3. QED
    BY <2>1, <2>2
<1>3. ApplyTypeOK /\ PumpInv /\ WorkTyped /\ HostTyped => RecoveryTypeOK
  BY DEF PumpInv, WorkTyped, HostTyped, WorkLists, RecoveryTypeOK
<1>4. QED
  BY <1>1, <1>2, <1>3, PumpInvariant, DriversImplementApply, ApplyTypeCorrect, PTL DEF Spec

=============================================================================
