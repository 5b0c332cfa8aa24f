------------------------ MODULE OrganizeLedgerProofs ------------------------
(***************************************************************************)
(* The safety of the durable analysis ledger, for every scope, page size,   *)
(* budget and set of lease tokens.  The five invariants of OrganizeLedger   *)
(* hold together: none is inductive alone.  The frontier needs the leased   *)
(* rows to be a page at the cursor, the page needs the cursor to divide the *)
(* rows, and the status needs both.                                         *)
(***************************************************************************)
EXTENDS OrganizeLedger, AnalysisRangesProofs, TLAPS, SequenceTheorems

LedgerInv ==
  /\ LedgerTypeOK
  /\ LedgerFrontier
  /\ StatusMatchesCoverage
  /\ OneLeasedPage
  /\ WorklistAtCursor

-----------------------------------------------------------------------------
(* A worklist stays typed when its head is dropped, as a checkpoint does. *)
LEMMA RestTyped ==
  ASSUME NEW rs \in Seq(RangeRecord)
  PROVE  Rest(rs) \in Seq(RangeRecord)
BY HeadTailProperties, Zenon DEF Rest

(* Two elements in front of a sequence. *)
LEMMA PairPrefix ==
  ASSUME NEW S, NEW a \in S, NEW b \in S, NEW r \in Seq(S)
  PROVE  /\ << a, b >> \o r \in Seq(S)
         /\ 1 \in DOMAIN (<< a, b >> \o r)
         /\ (<< a, b >> \o r)[1] = a
<1>1. /\ << a, b >> \in Seq(S)
      /\ Len(<< a, b >>) = 2
      /\ << a, b >>[1] = a
  OBVIOUS
<1> DEFINE h == << a, b >>
<1> HIDE DEF h
<1>2. h \in Seq(S) /\ Len(h) = 2 /\ h[1] = a
  BY <1>1 DEF h
<1>3. /\ h \o r \in Seq(S)
      /\ Len(h \o r) = Len(h) + Len(r)
      /\ Len(r) \in Nat
      /\ \A i \in 1..(Len(h) + Len(r)) : i <= Len(h) => (h \o r)[i] = h[i]
  BY <1>2, ConcatProperties, LenProperties
<1>4. 1 \in DOMAIN (h \o r) /\ (h \o r)[1] = a
  BY <1>2, <1>3, LenProperties
<1>5. QED
  BY <1>3, <1>4 DEF h

(* Splitting a page of more than one repository gives two ranges inside the *)
(* scope, one level deeper than the range that was split.                   *)
LEMMA SplitTyped ==
  ASSUME NEW rs \in Seq(RangeRecord), NEW s \in 0..ItemCount, NEW e \in 0..ItemCount,
         e - s > 1,
         ValidRanges(SplitHead(rs, s, e), s)
  PROVE  SplitHead(rs, s, e) \in Seq(RangeRecord)
<1> DEFINE mid == s + (e - s) \div 2
           first == PendingRange(s, mid, SplitDepth(rs))
           second == PendingRange(mid, e, SplitDepth(rs))
           halves == << first, second >>
<1>1. Rest(rs) \in Seq(RangeRecord)
  BY RestTyped
<1>2. SplitHead(rs, s, e) = halves \o Rest(rs)
  BY DEF SplitHead
<1>3. mid \in 0..ItemCount
  BY WorklistConstants, SMT DEF WorklistConstants
<1>4. SplitDepth(rs) \in 1..MaxDepth
  <2>1. /\ 1 \in DOMAIN SplitHead(rs, s, e)
        /\ SplitHead(rs, s, e)[1] = first
    <3> DEFINE T == RangeRecord \cup {first, second}
    <3>1. Rest(rs) \in Seq(T)
      BY <1>1, SeqMonotonic
    <3>2. first \in T /\ second \in T
      OBVIOUS
    <3> HIDE DEF first, second, T
    <3>3. QED
      BY <1>2, <3>1, <3>2, PairPrefix
  <2>2. first.depth \in 1..MaxDepth
    BY <2>1, Zenon DEF ValidRanges
  <2>3. QED
    BY <2>2 DEF PendingRange
<1>5. first \in RangeRecord /\ second \in RangeRecord
  BY <1>3, <1>4 DEF PendingRange, RangeRecord
<1>6. QED
  <2> HIDE DEF first, second
  <2> QED BY <1>1, <1>2, <1>5, PairPrefix

-----------------------------------------------------------------------------
(* The leased rows have one holder, so either no lease or every lease has   *)
(* expired, and a token that still owns rows owns all the leased ones.      *)
LEMMA OneHolder ==
  ASSUME LedgerTypeOK, OneLeasedPage
  PROVE  /\ LeasedExpired = {} \/ LeasedExpired = RowsIn("leased")
         /\ \A t \in Tokens : Claimed(t) = {} \/ Claimed(t) = RowsIn("leased")
<1>1. CASE RowsIn("leased") = {}
  BY <1>1 DEF LeasedExpired, Claimed, RowsIn
<1>2. CASE RowsIn("leased") # {}
  <2>1. PICK t0 \in Tokens : Claimed(t0) = RowsIn("leased")
    BY <1>2 DEF OneLeasedPage
  <2>2. \A i \in RowsIn("leased") : lease[i] = t0
    BY <2>1 DEF Claimed
  <2>3. QED
    BY <2>2 DEF LeasedExpired, Claimed, RowsIn
<1>3. QED
  BY <1>1, <1>2

(* Freeing either no row or all leased rows leaves every part of the        *)
(* invariant that speaks of the rows.                                       *)
LEMMA Freeing ==
  ASSUME LedgerInv, NEW S, S = {} \/ S = RowsIn("leased"), Freed(S)
  PROVE  /\ row' \in [Rows -> RowState]
         /\ lease' \in [Rows -> Tokens \cup {NoToken}]
         /\ \A i \in Rows : row[i] \in {"settled", "failed"} => row'[i] = row[i]
         /\ \A i \in Rows : row[i] \in {"pending", "leased"} => row'[i] \in {"pending", "leased"}
         /\ RowsIn("failed")' = RowsIn("failed")
         /\ Complete(row) => Complete(row')
         /\ job' = job => OneLeasedPage'
         /\ S = RowsIn("leased") => /\ RowsIn("leased")' = {}
                                    /\ \A i \in Rows : lease'[i] = NoToken
<1> USE DEF LedgerInv, LedgerTypeOK
<1>1. /\ row' \in [Rows -> RowState]
      /\ lease' \in [Rows -> Tokens \cup {NoToken}]
      /\ \A i \in Rows : /\ row'[i] = IF i \in S THEN "pending" ELSE row[i]
                        /\ lease'[i] = IF i \in S THEN NoToken ELSE lease[i]
  BY DEF Freed, RowState
<1>2. \A i \in S : i \in Rows /\ row[i] = "leased"
  BY DEF RowsIn
<1>3. RowsIn("failed")' = RowsIn("failed")
  BY <1>1, <1>2 DEF RowsIn
<1>4. Complete(row) => Complete(row')
  BY <1>1, <1>2 DEF Complete
<1>5. S = RowsIn("leased") => /\ RowsIn("leased")' = {}
                             /\ \A i \in Rows : lease'[i] = NoToken
  BY <1>1 DEF RowsIn, OneLeasedPage
<1>6. ASSUME job' = job
      PROVE  OneLeasedPage'
  <2>1. CASE S = {}
    <3>1. row' = row /\ lease' = lease
      BY <1>1, <2>1
    <3>2. QED
      BY <1>6, <3>1 DEF OneLeasedPage, RowsIn, Claimed, ClaimsPage
  <2>2. CASE S = RowsIn("leased")
    BY <1>5, <2>2 DEF OneLeasedPage, RowsIn
  <2>3. QED
    BY <2>1, <2>2
<1>7. QED
  BY <1>1, <1>2, <1>3, <1>4, <1>5, <1>6

-----------------------------------------------------------------------------
(* Each operation keeps the invariant.                                      *)

LEMMA InitInv == LedgerInit => LedgerInv
<1> SUFFICES ASSUME LedgerInit PROVE LedgerInv
  OBVIOUS
<1> USE WorklistConstants, LedgerConstants DEF LedgerInit, WorklistConstants, LedgerConstants
<1>1. LedgerTypeOK
  BY DEF LedgerTypeOK, JobRecord, JobStatus, RowState, Usage, NoUsage
<1>2. LedgerFrontier
  BY DEF LedgerFrontier, Rows
<1>3. StatusMatchesCoverage
  BY DEF StatusMatchesCoverage, RowsIn, Complete, Rows
<1>4. OneLeasedPage
  BY DEF OneLeasedPage, RowsIn
<1>5. WorklistAtCursor
  BY DEF WorklistAtCursor, ValidRanges, MaxRanges
<1>6. QED
  BY <1>1, <1>2, <1>3, <1>4, <1>5 DEF LedgerInv

(* Freeing no row or all leased ones without touching the job. *)
LEMMA FreeingInv ==
  ASSUME LedgerInv, NEW S, S = {} \/ S = RowsIn("leased"), Freed(S),
         job' = job, expired' = expired
  PROVE  LedgerInv'
<1>1. LedgerTypeOK'
  BY Freeing DEF LedgerInv, LedgerTypeOK
<1>2. LedgerFrontier'
  BY Freeing, Zenon DEF LedgerInv, LedgerFrontier
<1>3. StatusMatchesCoverage'
  BY Freeing, Zenon DEF LedgerInv, StatusMatchesCoverage
<1>4. OneLeasedPage'
  BY Freeing, Zenon
<1>5. WorklistAtCursor'
  BY DEF LedgerInv, WorklistAtCursor
<1>6. QED
  BY <1>1, <1>2, <1>3, <1>4, <1>5 DEF LedgerInv

LEMMA ReserveRefusedInv ==
  ASSUME LedgerInv, NEW t, NEW g, NEW u, NEW s, NEW e, ReserveRefused(t, g, u, s, e)
  PROVE  LedgerInv'
BY OneHolder, FreeingInv DEF ReserveRefused, LedgerInv

LEMMA ReleasePageInv ==
  ASSUME LedgerInv, NEW t \in Tokens, ReleasePage(t)
  PROVE  LedgerInv'
BY OneHolder, FreeingInv DEF ReleasePage, LedgerInv

LEMMA RecoverExpiredLeasesInv ==
  ASSUME LedgerInv, RecoverExpiredLeases
  PROVE  LedgerInv'
BY OneHolder, FreeingInv DEF RecoverExpiredLeases, LedgerInv

LEMMA ReleaseJobLeasesInv ==
  ASSUME LedgerInv, ReleaseJobLeases
  PROVE  LedgerInv'
BY FreeingInv DEF ReleaseJobLeases

(* Operations that change only the job record, and neither its cursor nor   *)
(* its worklist, or only the clock.                                         *)
LEMMA JobOnlyInv ==
  ASSUME LedgerInv, UNCHANGED <<row, lease>>, LedgerTypeOK', StatusMatchesCoverage',
         job'.next = job.next, job'.ranges = job.ranges
  PROVE  LedgerInv'
<1>1. LedgerFrontier' /\ WorklistAtCursor'
  BY DEF LedgerInv, LedgerFrontier, WorklistAtCursor
<1>2. OneLeasedPage'
  BY DEF LedgerInv, OneLeasedPage, RowsIn, Claimed, ClaimsPage
<1>3. QED
  BY <1>1, <1>2 DEF LedgerInv

LEMMA ReserveAttemptInv ==
  ASSUME LedgerInv, NEW t, NEW g, NEW u, ReserveAttempt(t, g, u)
  PROVE  LedgerInv'
<1>1. LedgerTypeOK'
  BY DEF LedgerInv, LedgerTypeOK, ReserveAttempt, JobRecord, Usage
<1>2. StatusMatchesCoverage'
  BY DEF LedgerInv, LedgerTypeOK, JobRecord, StatusMatchesCoverage, ReserveAttempt, RowsIn, Complete
<1>3. job'.next = job.next /\ job'.ranges = job.ranges
  BY DEF LedgerInv, LedgerTypeOK, JobRecord, ReserveAttempt
<1>4. QED
  BY <1>1, <1>2, <1>3, JobOnlyInv DEF ReserveAttempt

LEMMA BindProviderInv ==
  ASSUME LedgerInv, NEW p \in Providers, NEW g, BindProvider(p, g)
  PROVE  LedgerInv'
<1>1. LedgerTypeOK'
  BY DEF LedgerInv, LedgerTypeOK, BindProvider, JobRecord
<1>2. StatusMatchesCoverage'
  BY DEF LedgerInv, LedgerTypeOK, JobRecord, StatusMatchesCoverage, BindProvider, RowsIn, Complete
<1>3. job'.next = job.next /\ job'.ranges = job.ranges
  BY DEF LedgerInv, LedgerTypeOK, JobRecord, BindProvider
<1>4. QED
  BY <1>1, <1>2, <1>3, JobOnlyInv DEF BindProvider

LEMMA CancelJobInv ==
  ASSUME LedgerInv, CancelJob
  PROVE  LedgerInv'
<1>1. LedgerTypeOK'
  BY DEF LedgerInv, LedgerTypeOK, CancelJob, JobRecord, JobStatus
<1>2. job'.next = job.next /\ job'.ranges = job.ranges /\ job'.status = "cancelled"
  BY DEF LedgerInv, LedgerTypeOK, JobRecord, CancelJob
<1>3. QED
  BY <1>1, <1>2, JobOnlyInv DEF CancelJob, StatusMatchesCoverage

LEMMA CompleteWithoutApplyInv ==
  ASSUME LedgerInv, CompleteWithoutApply
  PROVE  LedgerInv'
<1>1. LedgerTypeOK'
  BY DEF LedgerInv, LedgerTypeOK, CompleteWithoutApply, JobRecord, JobStatus
<1>2. job'.next = job.next /\ job'.ranges = job.ranges /\ job'.status = "completed"
  BY DEF LedgerInv, LedgerTypeOK, JobRecord, CompleteWithoutApply
<1>3. StatusMatchesCoverage'
  BY <1>2 DEF CompleteWithoutApply, StatusMatchesCoverage, Complete
<1>4. QED
  BY <1>1, <1>2, <1>3, JobOnlyInv DEF CompleteWithoutApply

LEMMA LeaseExpiresInv ==
  ASSUME LedgerInv, NEW t \in Tokens, LeaseExpires(t)
  PROVE  LedgerInv'
<1>1. LedgerTypeOK'
  BY DEF LedgerInv, LedgerTypeOK, LeaseExpires
<1>2. StatusMatchesCoverage'
  BY DEF LedgerInv, StatusMatchesCoverage, LeaseExpires, RowsIn, Complete
<1>3. QED
  BY <1>1, <1>2, JobOnlyInv DEF LeaseExpires

(* A page is reserved only where every leased row, if any, has expired.     *)
LEMMA ReservePageInv ==
  ASSUME LedgerInv, NEW t \in Tokens, NEW g, NEW u, NEW s, NEW e \in 1..ItemCount,
         ReservePage(t, g, u, s, e)
  PROVE  LedgerInv'
<1> USE DEF LedgerInv
<1>0. /\ job.status = "analyzing" /\ s = job.next /\ s < e /\ e - s <= PageMax
      /\ IsHead(job.ranges, s, e)
      /\ s \in Rows /\ Page(s, e) \subseteq Rows
      /\ \A i \in Page(s, e) : row[i] = "pending" \/ i \in LeasedExpired
  BY WorklistConstants
  DEF WorklistConstants, ReservePage, CanReserve, ReserveArguments, LedgerTypeOK, JobRecord, Rows, Page
<1>1. LeasedExpired = RowsIn("leased")
  <2>1. CASE RowsIn("leased") = {}
    BY <2>1 DEF LeasedExpired
  <2>2. CASE RowsIn("leased") # {}
    <3>1. PICK t0 \in Tokens, e0 \in (job.next + 1)..ItemCount :
            Claimed(t0) = RowsIn("leased") /\ ClaimsPage(t0, e0)
      BY <2>2 DEF OneLeasedPage
    <3>2. s \in RowsIn("leased")
      BY <1>0, <3>1 DEF ClaimsPage, Page, LedgerTypeOK, JobRecord
    <3>3. s \in LeasedExpired
      BY <1>0, <3>2 DEF Page, RowsIn, Rows
    <3>4. QED
      BY <3>3, OneHolder
  <2>3. QED
    BY <2>1, <2>2
<1>2. \A i \in Rows :
        /\ row'[i] = IF i \in Page(s, e) THEN "leased"
                     ELSE IF i \in RowsIn("leased") THEN "pending" ELSE row[i]
        /\ lease'[i] = IF i \in Page(s, e) THEN t
                       ELSE IF i \in RowsIn("leased") THEN NoToken ELSE lease[i]
  BY <1>1 DEF ReservePage
<1>3. job'.status = job.status /\ job'.next = job.next /\ job'.ranges = job.ranges
  BY DEF ReservePage, LedgerTypeOK, JobRecord
<1>4. LedgerTypeOK'
  <2>1. job' \in JobRecord
    BY DEF ReservePage, LedgerTypeOK, JobRecord, Usage
  <2>2. row' \in [Rows -> RowState]
    BY DEF ReservePage, LedgerTypeOK, RowState
  <2>3. lease' \in [Rows -> Tokens \cup {NoToken}]
    BY DEF ReservePage, LedgerTypeOK
  <2>4. expired' \subseteq Tokens
    BY DEF ReservePage, LedgerTypeOK
  <2>5. QED
    BY <2>1, <2>2, <2>3, <2>4 DEF LedgerTypeOK
<1>5. LedgerFrontier'
  BY <1>0, <1>2, <1>3 DEF LedgerFrontier, Rows, Page, LedgerTypeOK, JobRecord, RowsIn
<1>6. StatusMatchesCoverage'
  BY <1>0, <1>2, <1>3 DEF StatusMatchesCoverage, RowsIn
<1>7. /\ RowsIn("leased")' = Page(s, e)
      /\ Claimed(t)' = Page(s, e)
  BY <1>0, <1>2 DEF RowsIn, Claimed
<1>8. OneLeasedPage'
  <2>1. \A i \in Rows : row'[i] = "leased" <=> lease'[i] # NoToken
    BY <1>2, LedgerConstants DEF OneLeasedPage, LedgerConstants, RowsIn
  <2>2. e \in (job'.next + 1)..ItemCount /\ e - job'.next <= PageMax
    BY <1>0, <1>3 DEF LedgerTypeOK, JobRecord
  <2>3. ClaimsPage(t, e)' /\ IsHead(job'.ranges, job'.next, e)
    BY <1>0, <1>3, <1>7, <2>2 DEF ClaimsPage, LedgerTypeOK, JobRecord
  <2>4. QED
    BY <1>7, <2>1, <2>2, <2>3 DEF OneLeasedPage
<1>9. WorklistAtCursor'
  BY <1>3 DEF WorklistAtCursor
<1>10. QED
  BY <1>4, <1>5, <1>6, <1>8, <1>9

(* The holder of a page holds all the leased rows. *)
LEMMA HolderOwnsAll ==
  ASSUME LedgerInv, NEW t \in Tokens, NEW g, NEW e \in 1..ItemCount, HoldsPage(t, g, e)
  PROVE  /\ Claimed(t) = RowsIn("leased")
         /\ Claimed(t) = Page(job.next, e)
         /\ job.status = "analyzing"
         /\ job.next \in 0..ItemCount /\ job.next < e /\ e - job.next \in Nat
         /\ job.next \in Claimed(t)
<1>1. /\ Claimed(t) = Page(job.next, e)
      /\ job.status = "analyzing"
      /\ job.next \in 0..ItemCount /\ job.next < e
  BY DEF HoldsPage, ClaimsPage, LedgerInv, LedgerTypeOK, JobRecord
<1>2. job.next \in Claimed(t) /\ e - job.next \in Nat
  BY <1>1 DEF Page
<1>3. QED
  BY <1>1, <1>2, OneHolder DEF LedgerInv

(* The outcomes of a checkpoint cover the leased page, so the rows before   *)
(* the new cursor have an outcome, and the job reviews, blocks or goes on   *)
(* by what the rows say.                                                    *)
LEMMA CheckpointPageInv ==
  ASSUME LedgerInv, NEW t \in Tokens, NEW g, NEW e \in 1..ItemCount,
         NEW failed, NEW n \in Nat,
         CheckpointPage(t, g, e, failed, WorklistAfter(failed), Consumed(job.usage, n))
  PROVE  LedgerInv'
<1> DEFINE rs == WorklistAfter(failed)
<1>1. /\ HoldsPage(t, g, e)
      /\ failed \subseteq Claimed(t)
      /\ ValidRanges(rs, e)
      /\ Complete(Outcomes(t, failed)) => e = ItemCount
      /\ row' = Outcomes(t, failed)
  BY DEF CheckpointPage, CanCheckpoint
<1>2. /\ Claimed(t) = RowsIn("leased")
      /\ Claimed(t) = Page(job.next, e)
      /\ job.status = "analyzing"
      /\ job.next \in 0..ItemCount /\ job.next < e
  BY <1>1, HolderOwnsAll
<1>3. \A i \in Rows :
        /\ row'[i] = IF i \in failed THEN "failed"
                     ELSE IF i \in RowsIn("leased") THEN "settled" ELSE row[i]
        /\ lease'[i] = IF i \in RowsIn("leased") THEN NoToken ELSE lease[i]
  BY <1>1, <1>2 DEF CheckpointPage, Outcomes
<1>4. /\ job'.next = e /\ job'.ranges = rs
      /\ job'.status = IF failed # {} THEN "analysis_blocked"
                       ELSE IF Complete(row') THEN "review" ELSE "analyzing"
  BY <1>1 DEF CheckpointPage, LedgerInv, LedgerTypeOK, JobRecord
<1>5. LedgerTypeOK'
  <2>1. rs \in Seq(RangeRecord)
    BY RestTyped DEF WorklistAfter, LedgerInv, LedgerTypeOK, JobRecord
  <2>2. Consumed(job.usage, n) \in Usage
    <3>1. job.usage \in Usage
      BY DEF LedgerInv, LedgerTypeOK, JobRecord
    <3>2. QED
      BY <3>1 DEF Consumed, Usage
  <2> DEFINE used == Consumed(job.usage, n)
             st == IF failed # {} THEN "analysis_blocked"
                   ELSE IF Complete(row') THEN "review" ELSE "analyzing"
  <2>3. job' \in JobRecord
    <3>1. job' = [job EXCEPT !.next = e, !.ranges = rs, !.usage = used, !.status = st]
      BY <1>1 DEF CheckpointPage
    <3>2. st \in JobStatus
      BY DEF JobStatus
    <3>3. job \in JobRecord /\ e \in 0..ItemCount
      BY DEF LedgerInv, LedgerTypeOK
    <3>4. \A r \in JobRecord, x \in 0..ItemCount, q \in Seq(RangeRecord), u \in Usage, z \in JobStatus :
            [r EXCEPT !.next = x, !.ranges = q, !.usage = u, !.status = z] \in JobRecord
      BY DEF JobRecord
    <3> HIDE DEF rs, used, st
    <3>5. used \in Usage
      BY <2>2 DEF used
    <3>6. QED
      BY <2>1, <3>1, <3>2, <3>3, <3>4, <3>5, Zenon
  <2>4. row' \in [Rows -> RowState]
    BY <1>1 DEF Outcomes, LedgerInv, LedgerTypeOK, RowState
  <2>5. lease' \in [Rows -> Tokens \cup {NoToken}]
    BY DEF CheckpointPage, LedgerInv, LedgerTypeOK
  <2>6. QED
    BY <2>3, <2>4, <2>5 DEF CheckpointPage, LedgerInv, LedgerTypeOK
<1>6. LedgerFrontier'
  BY <1>1, <1>2, <1>3, <1>4 DEF LedgerInv, LedgerTypeOK, LedgerFrontier, Rows, Page, RowsIn
<1>7. RowsIn("failed")' = failed
  BY <1>1, <1>2, <1>3 DEF LedgerInv, StatusMatchesCoverage, RowsIn
<1>8. StatusMatchesCoverage'
  <2>1. CASE failed # {}
    BY <1>4, <1>7, <2>1 DEF StatusMatchesCoverage
  <2>2. CASE failed = {} /\ Complete(row')
    BY <1>4, <2>2 DEF StatusMatchesCoverage, Complete
  <2>3. CASE failed = {} /\ ~Complete(row')
    <3>1. PICK i \in Rows : row'[i] # "settled"
      BY <2>3 DEF Complete
    <3>2. ~(i < e)
      BY <1>4, <1>6, <1>7, <2>3, <3>1 DEF LedgerFrontier, RowsIn
    <3>3. e < ItemCount
      BY <3>1, <3>2, WorklistConstants DEF Rows, WorklistConstants
    <3>4. QED
      BY <1>4, <1>7, <2>3, <3>3 DEF StatusMatchesCoverage
  <2>4. QED
    BY <2>1, <2>2, <2>3
<1>9. OneLeasedPage'
  <2>1. RowsIn("leased")' = {}
    BY <1>3 DEF RowsIn
  <2>2. \A i \in Rows : lease'[i] = NoToken
    BY <1>3 DEF LedgerInv, OneLeasedPage, RowsIn
  <2>3. QED
    BY <2>1, <2>2 DEF OneLeasedPage, RowsIn
<1>10. WorklistAtCursor'
  BY <1>1, <1>4 DEF WorklistAtCursor
<1>11. QED
  BY <1>5, <1>6, <1>8, <1>9, <1>10 DEF LedgerInv

(* Freeing the leased rows while the job changes only its worklist. *)
LEMMA SplitPageInv ==
  ASSUME LedgerInv, NEW t \in Tokens, NEW g, NEW e \in 1..ItemCount, SplitPage(t, g, e)
  PROVE  LedgerInv'
<1> DEFINE rs == SplitHead(job.ranges, job.next, e)
<1>1. /\ HoldsPage(t, g, e) /\ e - job.next > 1
      /\ ValidRanges(rs, job.next)
      /\ Freed(Claimed(t))
      /\ job' = [job EXCEPT !.ranges = rs]
      /\ expired' = expired
  BY DEF SplitPage, CanSplit
<1>2. Claimed(t) = RowsIn("leased") /\ job.status = "analyzing"
  BY <1>1, HolderOwnsAll
<1>3. /\ job.next \in 0..ItemCount
      /\ job.ranges \in Seq(RangeRecord)
      /\ e \in 0..ItemCount
  BY DEF LedgerInv, LedgerTypeOK, JobRecord
<1>4. rs \in Seq(RangeRecord)
  BY <1>1, <1>3, SplitTyped, Zenon
<1> HIDE DEF rs
<1>5. /\ job' \in JobRecord
      /\ job'.status = job.status /\ job'.next = job.next /\ job'.ranges = rs
  BY <1>1, <1>4 DEF LedgerInv, LedgerTypeOK, JobRecord
<1>6. LedgerTypeOK'
  BY <1>1, <1>2, <1>5, Freeing DEF LedgerInv, LedgerTypeOK
<1>7. LedgerFrontier'
  BY <1>1, <1>2, <1>5, Freeing, Zenon DEF LedgerInv, LedgerFrontier
<1>8. StatusMatchesCoverage'
  BY <1>1, <1>2, <1>5, Freeing, Zenon DEF LedgerInv, StatusMatchesCoverage
<1>9. OneLeasedPage'
  BY <1>1, <1>2, Freeing DEF OneLeasedPage, RowsIn
<1>10. WorklistAtCursor'
  BY <1>1, <1>5 DEF WorklistAtCursor
<1>11. QED
  BY <1>6, <1>7, <1>8, <1>9, <1>10 DEF LedgerInv

(* Rewinding the ledger to s frees every row from s on, and all leased rows *)
(* are among them.                                                          *)
LEMMA Rewinding ==
  ASSUME LedgerInv, NEW s \in 0..ItemCount, s < ItemCount, s <= job.next,
         Freed({i \in Rows : i >= s}),
         job' \in JobRecord, job'.status = "analyzing", job'.next = s, job'.ranges = <<>>,
         expired' = expired,
         \A i \in RowsIn("failed") : i >= s
  PROVE  LedgerInv'
<1>1. /\ row' \in [Rows -> RowState]
      /\ lease' \in [Rows -> Tokens \cup {NoToken}]
      /\ \A i \in Rows : /\ row'[i] = IF i >= s THEN "pending" ELSE row[i]
                        /\ lease'[i] = IF i >= s THEN NoToken ELSE lease[i]
  BY DEF Freed, LedgerInv, LedgerTypeOK, RowState
<1>2. \A i \in Rows : i < s => row[i] \in {"settled", "failed"} /\ lease[i] = NoToken
  BY DEF LedgerInv, LedgerTypeOK, LedgerFrontier, OneLeasedPage, JobRecord, Rows
<1>3. \A i \in Rows : i >= s \/ i < s
  BY DEF Rows
<1>4. LedgerTypeOK'
  BY <1>1 DEF LedgerInv, LedgerTypeOK
<1>5. LedgerFrontier'
  BY <1>1, <1>2 DEF LedgerFrontier, Rows
<1>6. RowsIn("failed")' = {} /\ RowsIn("leased")' = {}
  BY <1>1, <1>2 DEF RowsIn, Rows
<1>7. StatusMatchesCoverage'
  BY <1>6 DEF StatusMatchesCoverage
<1>8. OneLeasedPage'
  BY <1>1, <1>2, <1>3, <1>6 DEF OneLeasedPage, RowsIn
<1>9. WorklistAtCursor'
  BY DEF WorklistAtCursor, ValidRanges, MaxRanges
<1>10. QED
  BY <1>4, <1>5, <1>7, <1>8, <1>9 DEF LedgerInv

LEMMA AdvanceRunInv ==
  ASSUME LedgerInv, NEW s \in 0..ItemCount, NEW rs, AdvanceRun(job.generation, s, rs)
  PROVE  LedgerInv'
<1>1. /\ job.status = "analyzing" /\ s <= job.next
      /\ IF s < job.next THEN rs = <<>> ELSE rs = job.ranges
      /\ Freed(IF s < job.next THEN {i \in Rows : i >= s} ELSE {})
      /\ expired' = expired
      /\ job.generation < MaxGeneration
  BY DEF AdvanceRun, CanAdvance
<1>2. job.next \in 0..ItemCount /\ job.next < ItemCount /\ RowsIn("failed") = {}
  BY <1>1 DEF LedgerInv, LedgerTypeOK, JobRecord, StatusMatchesCoverage
<1>3. rs \in Seq(RangeRecord)
  <2>1. job.ranges \in Seq(RangeRecord)
    BY DEF LedgerInv, LedgerTypeOK, JobRecord
  <2>2. <<>> \in Seq(RangeRecord)
    OBVIOUS
  <2>3. QED
    BY <1>1, <2>1, <2>2, Zenon
<1>4. /\ job' \in JobRecord /\ job'.status = "analyzing"
      /\ job'.next = s /\ job'.ranges = rs
  <2>1. NoUsage \in Usage
    BY DEF NoUsage, Usage
  <2>2. job.generation + 1 \in 1..MaxGeneration
    BY <1>1, LedgerConstants DEF LedgerConstants, LedgerInv, LedgerTypeOK, JobRecord
  <2>3. job' = [job EXCEPT !.generation = job.generation + 1, !.usage = NoUsage,
                           !.next = s, !.ranges = rs]
    BY DEF AdvanceRun
  <2>4. job \in JobRecord
    BY DEF LedgerInv, LedgerTypeOK
  <2>5. \A q \in Seq(RangeRecord), u \in Usage, g \in 1..MaxGeneration :
          LET r == [job EXCEPT !.generation = g, !.usage = u, !.next = s, !.ranges = q]
          IN  r \in JobRecord /\ r.status = job.status /\ r.next = s /\ r.ranges = q
    BY <2>4 DEF JobRecord
  <2>6. job' \in JobRecord /\ job'.status = job.status /\ job'.next = s /\ job'.ranges = rs
    BY <1>3, <2>1, <2>2, <2>3, <2>5
  <2>7. QED
    BY <1>1, <2>6
<1>5. CASE s < job.next
  <2>1. s < ItemCount /\ s <= job.next
    BY <1>2, <1>5, WorklistConstants DEF WorklistConstants
  <2>2. Freed({i \in Rows : i >= s}) /\ rs = <<>>
    BY <1>1, <1>5
  <2>3. \A i \in RowsIn("failed") : i >= s
    BY <1>2
  <2>4. QED
    BY <1>1, <1>4, <2>1, <2>2, <2>3, Rewinding
<1>6. CASE ~(s < job.next)
  <2>1. s = job.next /\ rs = job.ranges /\ Freed({})
    BY <1>1, <1>2, <1>6
  <2>2. row' = row /\ lease' = lease
    <3>1. \A i \in Rows : i \notin {}
      OBVIOUS
    <3>2. QED
      BY <2>1, <3>1 DEF Freed, LedgerInv, LedgerTypeOK
  <2>3. LedgerTypeOK'
    BY <1>1, <1>4, <2>2 DEF LedgerInv, LedgerTypeOK
  <2>4. StatusMatchesCoverage'
    BY <1>2, <1>4, <2>1, <2>2 DEF StatusMatchesCoverage, RowsIn
  <2>5. QED
    BY <1>4, <2>1, <2>2, <2>3, <2>4, JobOnlyInv
<1>7. QED
  BY <1>5, <1>6

LEMMA RetryFromFirstFailureInv ==
  ASSUME LedgerInv, RetryFromFirstFailure
  PROVE  LedgerInv'
<1>1. PICK f \in Rows :
        /\ FirstFailed(f)
        /\ Freed({i \in Rows : i >= f})
        /\ job' = [job EXCEPT !.status = "analyzing", !.next = f, !.ranges = <<>>]
  BY DEF RetryFromFirstFailure
<1>2. f \in 0..ItemCount /\ f < ItemCount
  BY WorklistConstants DEF WorklistConstants, Rows
<1>3. f <= job.next
  BY <1>1, <1>2 DEF FirstFailed, LedgerInv, LedgerTypeOK, JobRecord, LedgerFrontier
<1>4. \A i \in RowsIn("failed") : i >= f
  BY <1>1, <1>2 DEF FirstFailed, RowsIn, Rows
<1>5. /\ job' \in JobRecord /\ job'.status = "analyzing"
      /\ job'.next = f /\ job'.ranges = <<>>
  <2>1. job \in JobRecord /\ "analyzing" \in JobStatus
    BY DEF LedgerInv, LedgerTypeOK, JobStatus
  <2>2. <<>> \in Seq(RangeRecord)
    OBVIOUS
  <2>3. \A q \in Seq(RangeRecord), z \in JobStatus :
          LET r == [job EXCEPT !.status = z, !.next = f, !.ranges = q]
          IN  r \in JobRecord /\ r.status = z /\ r.next = f /\ r.ranges = q
    BY <1>2, <2>1 DEF JobRecord
  <2>4. QED
    BY <1>1, <2>1, <2>2, <2>3
<1>6. QED
  BY <1>1, <1>2, <1>3, <1>4, <1>5, Rewinding DEF RetryFromFirstFailure

-----------------------------------------------------------------------------
LEMMA StepInv == LedgerInv /\ [LedgerNext]_ledgerVars => LedgerInv'
<1> SUFFICES ASSUME LedgerInv, [LedgerNext]_ledgerVars PROVE LedgerInv'
  OBVIOUS
<1>1. ASSUME NEW t \in Tokens, TokenStep(t) PROVE LedgerInv'
  <2>1. ASSUME NEW e \in 1..ItemCount, PageStep(t, e) PROVE LedgerInv'
    <3>1. CASE ReservePage(t, job.generation, job.usage, job.next, e)
      BY <3>1, ReservePageInv
    <3>2. CASE ReserveRefused(t, job.generation, job.usage, job.next, e)
      BY <3>2, ReserveRefusedInv
    <3>3. CASE SplitPage(t, job.generation, e)
      BY <3>3, SplitPageInv
    <3>4. ASSUME NEW failed \in SUBSET Claimed(t),
                 CheckpointPage(t, job.generation, e, failed, WorklistAfter(failed),
                                Consumed(job.usage, e - job.next))
          PROVE  LedgerInv'
      <4>1. HoldsPage(t, job.generation, e)
        BY <3>4 DEF CheckpointPage, CanCheckpoint
      <4>2. e - job.next \in Nat
        BY <4>1, HolderOwnsAll
      <4>3. QED
        BY <3>4, <4>2, CheckpointPageInv
    <3>5. QED
      BY <2>1, <3>1, <3>2, <3>3, <3>4 DEF PageStep
  <2>2. CASE ReserveAttempt(t, job.generation, job.usage)
    BY <2>2, ReserveAttemptInv
  <2>3. CASE ReleasePage(t)
    BY <2>3, ReleasePageInv
  <2>4. CASE LeaseExpires(t)
    BY <2>4, LeaseExpiresInv
  <2>5. QED
    BY <1>1, <2>1, <2>2, <2>3, <2>4 DEF TokenStep
<1>2. CASE JobStep
  <2>1. ASSUME NEW s \in 0..ItemCount,
               AdvanceRun(job.generation, s, IF s = job.next THEN job.ranges ELSE <<>>)
        PROVE  LedgerInv'
    BY <2>1, AdvanceRunInv
  <2>2. ASSUME NEW p \in Providers, BindProvider(p, job.generation)
        PROVE  LedgerInv'
    BY <2>2, BindProviderInv
  <2>3. CASE RetryFromFirstFailure
    BY <2>3, RetryFromFirstFailureInv
  <2>4. CASE RecoverExpiredLeases
    BY <2>4, RecoverExpiredLeasesInv
  <2>5. CASE ReleaseJobLeases
    BY <2>5, ReleaseJobLeasesInv
  <2>6. CASE CancelJob
    BY <2>6, CancelJobInv
  <2>7. CASE CompleteWithoutApply
    BY <2>7, CompleteWithoutApplyInv
  <2>8. QED
    BY <1>2, <2>1, <2>2, <2>3, <2>4, <2>5, <2>6, <2>7 DEF JobStep
<1>3. CASE UNCHANGED ledgerVars
  BY <1>3 DEF ledgerVars, LedgerInv, LedgerTypeOK, LedgerFrontier, StatusMatchesCoverage,
              OneLeasedPage, WorklistAtCursor, RowsIn, Claimed, ClaimsPage
<1>4. QED
  BY <1>1, <1>2, <1>3 DEF LedgerNext

(* Every ledger a store can produce satisfies the inductive invariant. *)
THEOREM LedgerInvariant == LedgerSpec => []LedgerInv
BY InitInv, StepInv, PTL DEF LedgerSpec

(* The ledger is well typed. *)
THEOREM LedgerTypeCorrect == LedgerSpec => []LedgerTypeOK
<1>1. LedgerInv => LedgerTypeOK
  BY DEF LedgerInv
<1>2. QED
  BY <1>1, LedgerInvariant, PTL

(* The cursor divides the rows with an outcome from the rows without one,   *)
(* so resuming at it neither skips a repository nor pays for one twice.     *)
THEOREM FrontierHolds == LedgerSpec => []LedgerFrontier
<1>1. LedgerInv => LedgerFrontier
  BY DEF LedgerInv
<1>2. QED
  BY <1>1, LedgerInvariant, PTL

(* The status of a job is what its rows say. *)
THEOREM StatusIsCoverage == LedgerSpec => []StatusMatchesCoverage
<1>1. LedgerInv => StatusMatchesCoverage
  BY DEF LedgerInv
<1>2. QED
  BY <1>1, LedgerInvariant, PTL

(* The leased rows are one page at the cursor, held by one token. *)
THEOREM OnePageIsLeased == LedgerSpec => []OneLeasedPage
<1>1. LedgerInv => OneLeasedPage
  BY DEF LedgerInv
<1>2. QED
  BY <1>1, LedgerInvariant, PTL

(* The stored worklist always passes validateAnalysisRanges at the cursor. *)
THEOREM WorklistStaysAtCursor == LedgerSpec => []WorklistAtCursor
<1>1. LedgerInv => WorklistAtCursor
  BY DEF LedgerInv
<1>2. QED
  BY <1>1, LedgerInvariant, PTL

-----------------------------------------------------------------------------
(* What a step may do to the rows: outside of a checkpoint and of a rewind, *)
(* rows only move between pending and leased.                               *)
MovesLeases ==
  \A i \in Rows : row'[i] # row[i] =>
    row[i] \in {"pending", "leased"} /\ row'[i] \in {"pending", "leased"}

LEMMA FreedMoves ==
  ASSUME LedgerTypeOK, NEW S, \A i \in S : row[i] = "leased", Freed(S)
  PROVE  MovesLeases
BY DEF MovesLeases, Freed, LedgerTypeOK

LEMMA ReserveMoves ==
  ASSUME LedgerTypeOK, NEW t, NEW g, NEW u, NEW s, NEW e, ReservePage(t, g, u, s, e)
  PROVE  MovesLeases
BY DEF MovesLeases, ReservePage, CanReserve, LeasedExpired, RowsIn, LedgerTypeOK

LEMMA PageMoves ==
  ASSUME LedgerTypeOK, NEW t \in Tokens, NEW e, PageStep(t, e)
  PROVE  \/ MovesLeases
         \/ \E failed \in SUBSET Claimed(t) :
              CheckpointPage(t, job.generation, e, failed, WorklistAfter(failed),
                             Consumed(job.usage, e - job.next))
<1>1. CASE ReservePage(t, job.generation, job.usage, job.next, e)
  BY <1>1, ReserveMoves
<1>2. CASE ReserveRefused(t, job.generation, job.usage, job.next, e)
  BY <1>2, FreedMoves DEF ReserveRefused, LeasedExpired, RowsIn
<1>3. CASE SplitPage(t, job.generation, e)
  BY <1>3, FreedMoves DEF SplitPage, Claimed
<1>4. QED
  BY <1>1, <1>2, <1>3 DEF PageStep

LEMMA TokenMoves ==
  ASSUME LedgerTypeOK, NEW t \in Tokens, TokenStep(t)
  PROVE  \/ MovesLeases
         \/ \E e \in 1..ItemCount : \E failed \in SUBSET Claimed(t) :
              CheckpointPage(t, job.generation, e, failed, WorklistAfter(failed),
                             Consumed(job.usage, e - job.next))
<1>1. CASE \E e \in 1..ItemCount : PageStep(t, e)
  BY <1>1, PageMoves
<1>2. CASE ReserveAttempt(t, job.generation, job.usage)
  BY <1>2 DEF ReserveAttempt, MovesLeases
<1>3. CASE ReleasePage(t)
  BY <1>3, FreedMoves DEF ReleasePage, Claimed
<1>4. CASE LeaseExpires(t)
  BY <1>4 DEF LeaseExpires, MovesLeases
<1>5. QED
  BY <1>1, <1>2, <1>3, <1>4 DEF TokenStep

LEMMA JobMoves ==
  ASSUME LedgerTypeOK, JobStep
  PROVE  \/ MovesLeases
         \/ \E s \in 0..ItemCount :
              AdvanceRun(job.generation, s, IF s = job.next THEN job.ranges ELSE <<>>)
         \/ RetryFromFirstFailure
<1>1. CASE \E p \in Providers : BindProvider(p, job.generation)
  BY <1>1 DEF BindProvider, MovesLeases
<1>2. CASE RecoverExpiredLeases
  BY <1>2, FreedMoves DEF RecoverExpiredLeases, LeasedExpired, RowsIn
<1>3. CASE ReleaseJobLeases
  BY <1>3, FreedMoves DEF ReleaseJobLeases, RowsIn
<1>4. CASE CancelJob \/ CompleteWithoutApply
  BY <1>4 DEF CancelJob, CompleteWithoutApply, MovesLeases
<1>5. QED
  BY <1>1, <1>2, <1>3, <1>4 DEF JobStep

(* A checkpoint gives outcomes to leased rows and leaves the others. *)
LEMMA CheckpointMoves ==
  ASSUME LedgerInv, NEW t \in Tokens, NEW e \in 1..ItemCount, NEW failed, NEW u,
         CheckpointPage(t, job.generation, e, failed, WorklistAfter(failed), u)
  PROVE  /\ \A i \in Rows : row'[i] # row[i] => row[i] = "leased" /\ lease[i] \notin expired
         /\ RowsIn("leased") \cap RowsIn("leased")' = {}
         /\ job'.generation = job.generation
<1>1. /\ HoldsPage(t, job.generation, e)
      /\ failed \subseteq Claimed(t)
      /\ row' = Outcomes(t, failed)
  BY DEF CheckpointPage, CanCheckpoint
<1>2. Claimed(t) = RowsIn("leased") /\ t \notin expired
  BY <1>1, HolderOwnsAll DEF HoldsPage
<1>3. \A i \in Rows : row'[i] # row[i] => i \in Claimed(t)
  BY <1>1, <1>2 DEF Outcomes
<1>4. \A i \in RowsIn("leased") : row'[i] # "leased"
  BY <1>1, <1>2 DEF Outcomes, RowsIn
<1>5. job'.generation = job.generation
  BY DEF CheckpointPage, LedgerInv, LedgerTypeOK, JobRecord
<1>6. QED
  BY <1>2, <1>3, <1>4, <1>5 DEF Claimed, RowsIn

(* A rewind returns the rows from the new cursor on to pending. *)
LEMMA AdvanceMoves ==
  ASSUME LedgerInv, NEW s \in 0..ItemCount, NEW rs, AdvanceRun(job.generation, s, rs)
  PROVE  /\ \A i \in Rows : row'[i] # row[i] => row'[i] = "pending" /\ job'.next <= i
         /\ job'.generation > job.generation
<1>1. Freed(IF s < job.next THEN {i \in Rows : i >= s} ELSE {})
  BY DEF AdvanceRun
<1>2. \A i \in Rows : row'[i] # row[i] => row'[i] = "pending" /\ s <= i
  BY <1>1 DEF Freed, LedgerInv, LedgerTypeOK, Rows
<1>3. job'.next = s /\ job'.generation = job.generation + 1 /\ job.generation \in Nat
  BY DEF AdvanceRun, LedgerInv, LedgerTypeOK, JobRecord
<1>4. QED
  BY <1>2, <1>3

LEMMA RetryMoves ==
  ASSUME LedgerInv, RetryFromFirstFailure
  PROVE  /\ \A i \in Rows : row'[i] # row[i] => row'[i] = "pending" /\ job'.next <= i
         /\ job.status = "analysis_blocked"
<1>1. PICK f \in Rows :
        /\ Freed({i \in Rows : i >= f})
        /\ job' = [job EXCEPT !.status = "analyzing", !.next = f, !.ranges = <<>>]
  BY DEF RetryFromFirstFailure
<1>2. job'.next = f
  BY <1>1 DEF LedgerInv, LedgerTypeOK, JobRecord
<1>3. \A i \in Rows : row'[i] # row[i] => row'[i] = "pending" /\ f <= i
  BY <1>1 DEF Freed, LedgerInv, LedgerTypeOK, Rows
<1>4. QED
  BY <1>2, <1>3 DEF RetryFromFirstFailure

(* Analysis that was paid for is kept: no crash, recovery, takeover or      *)
(* stale worker takes a settled outcome back.                               *)
THEOREM SettledRowsAreKept == LedgerSpec => SettledKept
<1> DEFINE A == \A i \in Rows : row[i] = "settled" /\ row'[i] # "settled" =>
                  /\ job'.next <= i
                  /\ job.status = "analysis_blocked" \/ job'.generation > job.generation
<1>1. LedgerInv /\ [LedgerNext]_ledgerVars => [A]_ledgerVars
  <2> SUFFICES ASSUME LedgerInv, LedgerNext PROVE A
    OBVIOUS
  <2>1. CASE MovesLeases
    BY <2>1 DEF MovesLeases
  <2>2. ASSUME NEW t \in Tokens, NEW e \in 1..ItemCount, NEW failed \in SUBSET Claimed(t),
               CheckpointPage(t, job.generation, e, failed, WorklistAfter(failed),
                              Consumed(job.usage, e - job.next))
        PROVE  A
    BY <2>2, CheckpointMoves
  <2>3. ASSUME NEW s \in 0..ItemCount,
               AdvanceRun(job.generation, s, IF s = job.next THEN job.ranges ELSE <<>>)
        PROVE  A
    BY <2>3, AdvanceMoves
  <2>4. CASE RetryFromFirstFailure
    BY <2>4, RetryMoves
  <2>5. QED
    BY <2>1, <2>2, <2>3, <2>4, TokenMoves, JobMoves DEF LedgerNext, LedgerInv
<1>2. QED
  BY <1>1, LedgerInvariant, PTL DEF LedgerSpec, SettledKept

(* Only the holder of a live lease gives a row its outcome, for the whole   *)
(* page it leased and at the generation that leased it.                     *)
THEOREM OutcomesAreLeased == LedgerSpec => OutcomesComeFromTheLease
<1> DEFINE A == \A i \in Rows :
                  row[i] \in {"pending", "leased"} /\ row'[i] \in {"settled", "failed"} =>
                    /\ row[i] = "leased" /\ lease[i] \notin expired
                    /\ RowsIn("leased") \cap RowsIn("leased")' = {}
                    /\ job'.generation = job.generation
<1>1. LedgerInv /\ [LedgerNext]_ledgerVars => [A]_ledgerVars
  <2> SUFFICES ASSUME LedgerInv, LedgerNext PROVE A
    OBVIOUS
  <2>1. CASE MovesLeases
    BY <2>1 DEF MovesLeases
  <2>2. ASSUME NEW t \in Tokens, NEW e \in 1..ItemCount, NEW failed \in SUBSET Claimed(t),
               CheckpointPage(t, job.generation, e, failed, WorklistAfter(failed),
                              Consumed(job.usage, e - job.next))
        PROVE  A
    BY <2>2, CheckpointMoves
  <2>3. ASSUME NEW s \in 0..ItemCount,
               AdvanceRun(job.generation, s, IF s = job.next THEN job.ranges ELSE <<>>)
        PROVE  A
    BY <2>3, AdvanceMoves
  <2>4. CASE RetryFromFirstFailure
    BY <2>4, RetryMoves
  <2>5. QED
    BY <2>1, <2>2, <2>3, <2>4, TokenMoves, JobMoves DEF LedgerNext, LedgerInv
<1>2. QED
  BY <1>1, LedgerInvariant, PTL DEF LedgerSpec, OutcomesComeFromTheLease

-----------------------------------------------------------------------------
(* The limits of the worklist are out of reach.                             *)

(* What the split worklist of the job looks like. *)
JobShape == Worklist(job.ranges, job.next)

(* A page that is held is the head of the worklist, or a first page that    *)
(* fits the page limit.                                                     *)
LEMMA HeldPageSplits ==
  ASSUME PageMax <= BatchMax, LedgerInv,
         NEW t \in Tokens, NEW g, NEW e \in 1..ItemCount, HoldsPage(t, g, e)
  PROVE  /\ IsHead(job.ranges, job.next, e)
         /\ e - job.next > 1 => Splittable(job.ranges, job.next, e)
         /\ e \in 0..ItemCount /\ e \in Nat /\ job.next \in Nat
<1>1. /\ Claimed(t) = Page(job.next, e) /\ Claimed(t) = RowsIn("leased")
      /\ job.next \in 0..ItemCount /\ job.next < e /\ job.next \in Claimed(t)
  BY HolderOwnsAll
<1>2. PICK t2 \in Tokens, f \in (job.next + 1)..ItemCount :
        /\ Claimed(t2) = RowsIn("leased") /\ ClaimsPage(t2, f)
        /\ f - job.next <= PageMax /\ IsHead(job.ranges, job.next, f)
  BY <1>1 DEF LedgerInv, OneLeasedPage
<1>3. Page(job.next, f) = Page(job.next, e)
  BY <1>1, <1>2 DEF ClaimsPage
<1>4. f = e
  <2>1. /\ job.next \in Nat /\ e \in Nat /\ f \in Nat /\ job.next < e /\ job.next < f
    BY <1>1, <1>2, WorklistConstants DEF WorklistConstants
  <2>2. PICK n : n = job.next
    OBVIOUS
  <2>3. n..(f - 1) = n..(e - 1)
    BY <1>3, <2>2 DEF Page
  <2>4. e - 1 \in n..(e - 1) /\ f - 1 \in n..(f - 1)
    BY <2>1, <2>2
  <2>5. e - 1 \in n..(f - 1) /\ f - 1 \in n..(e - 1)
    BY <2>3, <2>4
  <2>6. QED
    BY <2>1, <2>2, <2>5
<1>5. e - job.next <= BatchMax
  BY <1>1, <1>2, <1>4, WorklistConstants DEF WorklistConstants, BatchMax
<1>6. QED
  BY <1>1, <1>2, <1>4, <1>5, WorklistConstants DEF WorklistConstants, IsHead, Splittable

(* What a checkpoint leaves of the worklist starts at the next page. *)
LEMMA RestAfterPage ==
  ASSUME NEW rs, NEW from \in Nat, Worklist(rs, from), NEW to \in Nat, IsHead(rs, from, to)
  PROVE  Worklist(Rest(rs), to)
<1>1. CASE rs = <<>>
  BY <1>1, EmptyIsWorklist DEF Rest
<1>2. CASE rs # <<>>
  BY <1>2, RestIsWorklist DEF IsHead
<1>3. QED
  BY <1>1, <1>2

(* Every transaction leaves the worklist as it is, splits its head, drops   *)
(* its head with the page, or drops it altogether.                          *)
LEMMA ShapeStep ==
  ASSUME PageMax <= BatchMax, LedgerInv, JobShape, [LedgerNext]_ledgerVars
  PROVE  JobShape'
<1> USE DEF JobShape
<1>1. ASSUME job'.ranges = job.ranges, job'.next = job.next PROVE JobShape'
  BY <1>1
<1>2. ASSUME NEW next \in Nat, job'.next = next, job'.ranges = <<>> PROVE JobShape'
  BY <1>2, EmptyIsWorklist
<1>3. job \in JobRecord
  BY DEF LedgerInv, LedgerTypeOK
<1>4. ASSUME NEW t \in Tokens, NEW e \in 1..ItemCount, SplitPage(t, job.generation, e)
      PROVE  JobShape'
  <2>1. HoldsPage(t, job.generation, e) /\ e - job.next > 1
    BY <1>4 DEF SplitPage, CanSplit
  <2>2. Splittable(job.ranges, job.next, e) /\ e \in 0..ItemCount /\ job.next \in Nat
    BY <2>1, HeldPageSplits
  <2>3. PICK rs : rs = SplitHead(job.ranges, job.next, e)
    OBVIOUS
  <2>4. Worklist(rs, job.next)
    BY <2>2, <2>3, SplitIsWorklist
  <2>5. job' = [job EXCEPT !.ranges = rs]
    BY <1>4, <2>3 DEF SplitPage
  <2>6. job'.ranges = rs /\ job'.next = job.next
    BY <1>3, <2>5 DEF JobRecord
  <2>7. QED
    BY <2>4, <2>6
<1>5. ASSUME NEW t \in Tokens, NEW e \in 1..ItemCount, NEW failed \in SUBSET Claimed(t),
             NEW u, CheckpointPage(t, job.generation, e, failed, WorklistAfter(failed), u)
      PROVE  JobShape'
  <2>1. HoldsPage(t, job.generation, e)
    BY <1>5 DEF CheckpointPage, CanCheckpoint
  <2>2. IsHead(job.ranges, job.next, e) /\ e \in Nat /\ job.next \in Nat
    BY <2>1, HeldPageSplits
  <2>3. PICK rs : rs = WorklistAfter(failed)
    OBVIOUS
  <2>4. Worklist(rs, e)
    BY <2>2, <2>3, RestAfterPage, EmptyIsWorklist DEF WorklistAfter
  <2>5. job'.ranges = rs /\ job'.next = e
    BY <1>3, <1>5, <2>3 DEF CheckpointPage, JobRecord
  <2>6. QED
    BY <2>4, <2>5
<1>6. ASSUME NEW s \in 0..ItemCount,
             AdvanceRun(job.generation, s, IF s = job.next THEN job.ranges ELSE <<>>)
      PROVE  JobShape'
  <2>1. PICK rs : rs = IF s = job.next THEN job.ranges ELSE <<>>
    OBVIOUS
  <2>2. job'.next = s /\ job'.ranges = rs
    BY <1>3, <1>6, <2>1 DEF AdvanceRun, JobRecord
  <2>3. s \in Nat
    BY WorklistConstants DEF WorklistConstants
  <2>4. QED
    BY <1>1, <1>2, <2>1, <2>2, <2>3
<1>7. CASE RetryFromFirstFailure
  <2>1. PICK f \in Rows :
          job' = [job EXCEPT !.status = "analyzing", !.next = f, !.ranges = <<>>]
    BY <1>7 DEF RetryFromFirstFailure
  <2>2. job'.next = f /\ job'.ranges = <<>> /\ f \in Nat
    BY <1>3, <2>1 DEF JobRecord, Rows
  <2>3. QED
    BY <1>2, <2>2
<1>8. ASSUME NEW t \in Tokens, TokenStep(t) PROVE JobShape'
  <2>1. ASSUME NEW e \in 1..ItemCount, PageStep(t, e) PROVE JobShape'
    <3>1. CASE ReservePage(t, job.generation, job.usage, job.next, e)
      BY <1>1, <1>3, <3>1 DEF ReservePage, JobRecord
    <3>2. CASE ReserveRefused(t, job.generation, job.usage, job.next, e)
      BY <1>1, <3>2 DEF ReserveRefused
    <3>3. QED
      BY <1>4, <1>5, <2>1, <3>1, <3>2 DEF PageStep
  <2>2. CASE ReserveAttempt(t, job.generation, job.usage)
    BY <1>1, <1>3, <2>2 DEF ReserveAttempt, JobRecord
  <2>3. CASE ReleasePage(t) \/ LeaseExpires(t)
    BY <1>1, <2>3 DEF ReleasePage, LeaseExpires
  <2>4. QED
    BY <1>8, <2>1, <2>2, <2>3 DEF TokenStep
<1>9. CASE JobStep
  <2>1. ASSUME NEW p \in Providers, BindProvider(p, job.generation) PROVE JobShape'
    BY <1>1, <1>3, <2>1 DEF BindProvider, JobRecord
  <2>2. CASE RecoverExpiredLeases \/ ReleaseJobLeases
    BY <1>1, <2>2 DEF RecoverExpiredLeases, ReleaseJobLeases
  <2>3. CASE CancelJob \/ CompleteWithoutApply
    BY <1>1, <1>3, <2>3 DEF CancelJob, CompleteWithoutApply, JobRecord
  <2>4. QED
    BY <1>6, <1>7, <1>9, <2>1, <2>2, <2>3 DEF JobStep
<1>10. CASE UNCHANGED ledgerVars
  BY <1>1, <1>10 DEF ledgerVars
<1>11. QED
  BY <1>8, <1>9, <1>10 DEF LedgerNext

(* A worklist of that shape is accepted, split or shortened. *)
LEMMA ShapeIsAccepted ==
  ASSUME PageMax <= BatchMax, LedgerInv, JobShape
  PROVE  HoldersAreAccepted
<1>1. SUFFICES ASSUME NEW t \in Tokens, NEW e \in 1..ItemCount, HoldsPage(t, job.generation, e)
               PROVE  /\ e - job.next > 1 => CanSplit(t, job.generation, e)
                      /\ \A failed \in SUBSET Claimed(t) :
                           CanCheckpoint(t, job.generation, e, failed, WorklistAfter(failed))
  BY DEF HoldersAreAccepted
<1>2. /\ IsHead(job.ranges, job.next, e)
      /\ e - job.next > 1 => Splittable(job.ranges, job.next, e)
      /\ e \in 0..ItemCount /\ e \in Nat /\ job.next \in Nat
  BY <1>1, HeldPageSplits
<1>3. ValidRanges(job.ranges, job.next)
  BY DEF LedgerInv, WorklistAtCursor
<1>4. ASSUME e - job.next > 1 PROVE CanSplit(t, job.generation, e)
  <2>1. Worklist(SplitHead(job.ranges, job.next, e), job.next)
    BY <1>2, <1>4, SplitIsWorklist DEF JobShape
  <2>2. ValidRanges(SplitHead(job.ranges, job.next, e), job.next)
    BY <1>2, <2>1, WorklistIsValid
  <2>3. QED
    BY <1>1, <1>2, <1>3, <1>4, <2>2 DEF CanSplit
<1>5. ASSUME NEW failed \in SUBSET Claimed(t)
      PROVE  CanCheckpoint(t, job.generation, e, failed, WorklistAfter(failed))
  <2>1. Worklist(WorklistAfter(failed), e)
    BY <1>2, RestAfterPage, EmptyIsWorklist DEF WorklistAfter, JobShape
  <2>2. ValidRanges(WorklistAfter(failed), e)
    BY <1>2, <2>1, WorklistIsValid
  <2>3. ASSUME Complete(Outcomes(t, failed)) PROVE e = ItemCount
    <3>1. SUFFICES ASSUME e < ItemCount PROVE FALSE
      BY <1>2, WorklistConstants DEF WorklistConstants
    <3>2. e \in Rows /\ job.next < e
      BY <1>1, <1>2, <3>1, HolderOwnsAll, WorklistConstants DEF Rows, WorklistConstants
    <3>3. e \notin Claimed(t)
      BY <1>1, <1>2, HolderOwnsAll DEF Page
    <3>4. Outcomes(t, failed)[e] = row[e] /\ Outcomes(t, failed)[e] = "settled"
      BY <2>3, <3>2, <3>3 DEF Outcomes, Complete
    <3>5. row[e] \in {"pending", "leased"}
      BY <1>2, <3>2 DEF LedgerInv, LedgerFrontier
    <3>6. QED
      BY <3>4, <3>5
  <2>4. QED
    BY <1>1, <1>2, <1>3, <2>2, <2>3 DEF CanCheckpoint, IsHead
<1>6. QED
  BY <1>4, <1>5

(* The limits of the worklist are never met: for every scope and every page *)
(* limit up to the code's 50, it is accepted at the cursor, and who holds a *)
(* page can split it and store it.                                          *)
THEOREM WorklistStaysValid ==
  ASSUME PageMax <= BatchMax
  PROVE  LedgerSpec => []WorklistIsAccepted
<1>1. LedgerInit => JobShape
  BY EmptyIsWorklist DEF LedgerInit, JobShape
<1>2. LedgerInv /\ JobShape /\ [LedgerNext]_ledgerVars => JobShape'
  BY ShapeStep
<1>3. LedgerInv /\ JobShape => WorklistIsAccepted
  BY ShapeIsAccepted DEF LedgerInv, WorklistIsAccepted
<1>4. QED
  BY <1>1, <1>2, <1>3, LedgerInvariant, PTL DEF LedgerSpec

=============================================================================
