--------------------------- MODULE OrganizeLedger ---------------------------
(***************************************************************************)
(* The durable analysis ledger of one Organize job (storage/                *)
(* organize-job-store.ts).  The job record holds the cursor, the worklist   *)
(* of split pages, the run generation and the budget used by it; one row    *)
(* per repository of the frozen scope holds its analysis state and lease.   *)
(*                                                                          *)
(* Every operation below is one IndexedDB read-write transaction, hence one *)
(* action.  A transaction that throws changes nothing and is not a step.    *)
(* Callers are not modelled here: any caller may try any operation at any   *)
(* time with any lease token, also one it should have forgotten.            *)
(* OrganizeScheduler restricts them to what the executions really call.     *)
(*                                                                          *)
(* Abstractions.  An outcome is `settled' or `failed'; which of the five    *)
(* settled states a row takes is not told apart.  The `retry' outcome of    *)
(* the store has no caller outside the tests and is left out.  The clock    *)
(* is the set of leases that have expired.  Callers read the job revision   *)
(* just before a call and read it again when it was stale, so a call that   *)
(* commits is one that saw the current revision: the revision is left out,  *)
(* and giving up after three stale reads is a failed call.                  *)
(***************************************************************************)
EXTENDS AnalysisRanges, FiniteSets

CONSTANTS Tokens,         \* lease tokens, one per page holder
          NoToken,
          Providers,      \* AI service bindings
          NoProvider,
          MaxBatches,     \* RunBudget.maxAnalyzerBatches
          MaxAttempts,    \* RunBudget.maxProviderAttempts
          MaxPositions,   \* RunBudget.maxConsumedFrozenPositions
          MaxGeneration   \* bound on run generations

ASSUME LedgerConstants ==
  /\ NoToken \notin Tokens
  /\ NoProvider \notin Providers
  /\ MaxGeneration \in Nat \ {0}
  /\ {MaxBatches, MaxAttempts, MaxPositions} \subseteq Nat \ {0}

Rows      == 0..(ItemCount - 1)
Page(s, e) == s..(e - 1)

RowState  == {"pending", "leased", "settled", "failed"}
JobStatus == {"analyzing", "analysis_blocked", "review", "completed", "cancelled"}

Usage   == [batches : Nat, attempts : Nat, consumed : Nat]
NoUsage == [batches |-> 0, attempts |-> 0, consumed |-> 0]

VARIABLES
  job,      \* organizeJobs: status, generation, cursor, worklist, usage, binding
  row,      \* organizeItems[i].analysisState
  lease,    \* organizeItems[i].leaseToken
  expired   \* tokens whose leaseExpiresAt has passed

ledgerVars == <<job, row, lease, expired>>

JobRecord ==
  [status : JobStatus, generation : 1..MaxGeneration, next : 0..ItemCount,
   ranges : Seq(RangeRecord), usage : Usage, binding : Providers \cup {NoProvider}]

(* The stored job and rows keep their types, so that no transaction writes *)
(* a cursor, a charge or an attempt number beyond the limits of the job.    *)
LedgerTypeOK ==
  /\ job \in JobRecord
  /\ row \in [Rows -> RowState]
  /\ lease \in [Rows -> Tokens \cup {NoToken}]
  /\ expired \subseteq Tokens

-----------------------------------------------------------------------------
(* claimedAnalysisRows: what a token still owns, whoever presents it. *)
Claimed(t) == {i \in Rows : row[i] = "leased" /\ lease[i] = t}

(* The rows a token owns are the page [next, e). *)
ClaimsPage(t, e) == e > job.next /\ e <= ItemCount /\ Claimed(t) = Page(job.next, e)

RowsIn(st) == {i \in Rows : row[i] = st}

Unresolved == RowsIn("pending") \cup RowsIn("leased")

(* coverageForJob(...).complete *)
Complete(r) == \A i \in Rows : r[i] = "settled"

(* An analysis row after resetAnalysisRow / clearAnalysisLease. *)
Freed(S) ==
  /\ row'   = [i \in Rows |-> IF i \in S THEN "pending" ELSE row[i]]
  /\ lease' = [i \in Rows |-> IF i \in S THEN NoToken ELSE lease[i]]

LeasedExpired == {i \in RowsIn("leased") : lease[i] \in expired}

-----------------------------------------------------------------------------
(* createOrganizeJob, or activateOrganizePreflight of a prepared one: an     *)
(* empty scope has nothing to analyse.                                       *)
LedgerInit ==
  /\ job = [status |-> IF ItemCount = 0 THEN "review" ELSE "analyzing",
            generation |-> 1, next |-> 0, ranges |-> <<>>,
            usage |-> NoUsage, binding |-> NoProvider]
  /\ row = [i \in Rows |-> "pending"]
  /\ lease = [i \in Rows |-> NoToken]
  /\ expired = {}

(* reserveOrganizeAnalysisPage for the page [s, e): expired leases anywhere  *)
(* return to pending first, then the page is leased and its batch charged.   *)
ReserveArguments(t, g, used, s, e) ==
  /\ job.generation = g
  /\ job.status = "analyzing"
  /\ used = job.usage
  /\ s = job.next /\ s < e /\ e <= ItemCount /\ e - s <= PageMax
  /\ ValidRanges(job.ranges, job.next)
  /\ IsHead(job.ranges, s, e)

CanReserve(t, g, used, s, e) ==
  /\ ReserveArguments(t, g, used, s, e)
  /\ \A i \in Page(s, e) : row[i] = "pending" \/ i \in LeasedExpired

ReservePage(t, g, used, s, e) ==
  /\ CanReserve(t, g, used, s, e)
  /\ row' = [i \in Rows |->
              IF i \in Page(s, e) THEN "leased"
              ELSE IF i \in LeasedExpired THEN "pending" ELSE row[i]]
  /\ lease' = [i \in Rows |->
              IF i \in Page(s, e) THEN t
              ELSE IF i \in LeasedExpired THEN NoToken ELSE lease[i]]
  /\ expired' = expired \ {t}
  /\ job' = [job EXCEPT !.usage.batches = @ + 1]

(* The same call when the job left `analyzing' or another unexpired lease    *)
(* covers the page: it returns null, keeping the recovery of expired rows    *)
(* it made on the way.                                                       *)
CanRefuse(t, g, used, s, e) ==
  \/ job.generation = g /\ job.status # "analyzing"
  \/ /\ ReserveArguments(t, g, used, s, e)
     /\ \E i \in Page(s, e) : row[i] = "leased" /\ i \notin LeasedExpired

ReserveRefused(t, g, used, s, e) ==
  /\ CanRefuse(t, g, used, s, e)
  /\ Freed(IF job.status = "analyzing" THEN LeasedExpired ELSE {})
  /\ UNCHANGED <<job, expired>>

(* Mutants: the store does not look at the lease's expiry, or at the rows the *)
(* token owns.                                                               *)
HoldsPageExpired(t, g, e) ==
  /\ job.generation = g
  /\ job.status = "analyzing"
  /\ ClaimsPage(t, e)

HoldsNoPage(t, g, e) ==
  /\ job.generation = g
  /\ job.status = "analyzing"
  /\ t \notin expired

(* reserveOrganizeAnalysisProviderAttempt: one paid request is charged       *)
(* before it is sent and the page's lease renewed.                           *)
HoldsPage(t, g, e) ==
  /\ job.generation = g
  /\ job.status = "analyzing"
  /\ ClaimsPage(t, e)
  /\ t \notin expired

CanAttempt(t, g, used) ==
  /\ used = job.usage
  /\ \E e \in 1..ItemCount : HoldsPage(t, g, e)

ReserveAttempt(t, g, used) ==
  /\ CanAttempt(t, g, used)
  /\ job' = [job EXCEPT !.usage.attempts = @ + 1]
  /\ UNCHANGED <<row, lease, expired>>

(* releaseOrganizeAnalysisPage: checks neither the run identity nor that the *)
(* lease is unexpired; it only frees what the token still owns.          *)
CanRelease(t) == job.status = "analyzing" /\ Claimed(t) # {}

ReleasePage(t) ==
  /\ CanRelease(t)
  /\ Freed(Claimed(t))
  /\ UNCHANGED <<job, expired>>

(* checkpointOrganizeAnalysisPage: the whole page gets its outcomes and the  *)
(* cursor passes it; `failed' is the set of rows whose analysis failed.      *)
Outcomes(t, failed) ==
  [i \in Rows |-> IF i \in failed THEN "failed"
                  ELSE IF i \in Claimed(t) THEN "settled" ELSE row[i]]

WorklistAfter(failed) == IF failed # {} THEN <<>> ELSE Rest(job.ranges)

CanCheckpoint(t, g, e, failed, rs) ==
  /\ HoldsPage(t, g, e)
  /\ failed \subseteq Claimed(t)
  /\ ValidRanges(job.ranges, job.next)
  /\ job.ranges # <<>> => job.ranges[1].end = e
  /\ rs = WorklistAfter(failed)
  /\ ValidRanges(rs, e)
  /\ Complete(Outcomes(t, failed)) => e = ItemCount

(* Mutant: a failed row does not block the job. *)
CheckpointPageUnblocked(t, g, e, failed, rs, used) ==
  /\ CanCheckpoint(t, g, e, failed, rs)
  /\ row' = Outcomes(t, failed)
  /\ lease' = [i \in Rows |-> IF i \in Claimed(t) THEN NoToken ELSE lease[i]]
  /\ job' = [job EXCEPT !.next = e, !.ranges = rs, !.usage = used,
                        !.status = IF e = ItemCount THEN "review" ELSE "analyzing"]
  /\ UNCHANGED expired

CheckpointPage(t, g, e, failed, rs, used) ==
  /\ CanCheckpoint(t, g, e, failed, rs)
  /\ row' = Outcomes(t, failed)
  /\ lease' = [i \in Rows |-> IF i \in Claimed(t) THEN NoToken ELSE lease[i]]
  /\ job' = [job EXCEPT !.next = e, !.ranges = rs, !.usage = used,
                        !.status = IF failed # {} THEN "analysis_blocked"
                                   ELSE IF Complete(Outcomes(t, failed)) THEN "review"
                                   ELSE "analyzing"]
  /\ UNCHANGED expired

(* splitOrganizeAnalysisPage: the page returns to pending as two halves. *)
CanSplit(t, g, e) ==
  /\ HoldsPage(t, g, e)
  /\ e - job.next > 1
  /\ ValidRanges(job.ranges, job.next)
  /\ IsHead(job.ranges, job.next, e)
  /\ ValidRanges(SplitHead(job.ranges, job.next, e), job.next)

SplitPage(t, g, e) ==
  /\ CanSplit(t, g, e)
  /\ Freed(Claimed(t))
  /\ job' = [job EXCEPT !.ranges = SplitHead(job.ranges, job.next, e)]
  /\ UNCHANGED expired

(* bindOrganizeJobProvider: checks the identity, but no revision. *)
CanBind(g) ==
  /\ job.generation = g
  /\ job.status \in {"analyzing", "analysis_blocked", "review"}
  /\ job.binding = NoProvider

BindProvider(p, g) ==
  /\ CanBind(g)
  /\ job' = [job EXCEPT !.binding = p]
  /\ UNCHANGED <<row, lease, expired>>

(* advanceOrganizeJobRun to the child generation of g: the budget starts     *)
(* over, and a start before the cursor rewinds the ledger to it.             *)
CanAdvance(g, s, rs) ==
  /\ job.status = "analyzing"
  /\ ~Complete(row)
  /\ job.generation = g
  /\ ValidRanges(rs, s)
  /\ s <= job.next
  /\ IF s < job.next THEN rs = <<>>
     ELSE ValidRanges(job.ranges, job.next) /\ rs = job.ranges

(* Mutants: a rewinding continuation resets no row, or keeps the worklist of *)
(* the cursor it leaves.                                                     *)
AdvanceRunKeepsRows(g, s, rs) ==
  /\ g < MaxGeneration
  /\ CanAdvance(g, s, rs)
  /\ job' = [job EXCEPT !.generation = g + 1, !.usage = NoUsage, !.next = s, !.ranges = rs]
  /\ UNCHANGED <<row, lease, expired>>

AdvanceRunKeepsWorklist(g, s, rs) ==
  /\ g < MaxGeneration
  /\ CanAdvance(g, s, rs)
  /\ Freed(IF s < job.next THEN {i \in Rows : i >= s} ELSE {})
  /\ job' = [job EXCEPT !.generation = g + 1, !.usage = NoUsage, !.next = s]
  /\ UNCHANGED expired

AdvanceRun(g, s, rs) ==
  /\ g < MaxGeneration
  /\ CanAdvance(g, s, rs)
  /\ Freed(IF s < job.next THEN {i \in Rows : i >= s} ELSE {})
  /\ job' = [job EXCEPT !.generation = g + 1, !.usage = NoUsage,
                        !.next = s, !.ranges = rs]
  /\ UNCHANGED expired

(* retryOrganizeAnalysisFromFirstFailure *)
FirstFailed(i) == row[i] = "failed" /\ \A k \in Rows : row[k] = "failed" => i <= k

(* Mutant: the retry resets the whole ledger instead of the failed suffix. *)
RetryResetsAll ==
  /\ job.status = "analysis_blocked"
  /\ \E f \in Rows :
       /\ FirstFailed(f)
       /\ Freed(Rows)
       /\ job' = [job EXCEPT !.status = "analyzing", !.next = f, !.ranges = <<>>]
  /\ UNCHANGED expired

RetryFromFirstFailure ==
  /\ job.status = "analysis_blocked"
  /\ \E f \in Rows :
       /\ FirstFailed(f)
       /\ Freed({i \in Rows : i >= f})
       /\ job' = [job EXCEPT !.status = "analyzing", !.next = f, !.ranges = <<>>]
  /\ UNCHANGED expired

(* recoverExpiredOrganizeLeases, for an analysis job *)
RecoverExpiredLeases ==
  /\ job.status \in {"analyzing", "analysis_blocked"}
  /\ LeasedExpired # {}
  /\ Freed(LeasedExpired)
  /\ UNCHANGED <<job, expired>>

(* releaseOrganizeJobLeases: every lease goes, expired or not. *)
ReleaseJobLeases ==
  /\ job.status \in {"analyzing", "analysis_blocked"}
  /\ RowsIn("leased") # {}
  /\ Freed(RowsIn("leased"))
  /\ UNCHANGED <<job, expired>>

(* cancelOrganizeJob, before an apply exists: rows keep their leases. *)
CancelJob ==
  /\ job.status \in {"analyzing", "analysis_blocked", "review"}
  /\ job' = [job EXCEPT !.status = "cancelled"]
  /\ UNCHANGED <<row, lease, expired>>

(* completeOrganizeJobWithoutApply: a review with nothing actionable. *)
CompleteWithoutApply ==
  /\ job.status = "review"
  /\ Complete(row)
  /\ job' = [job EXCEPT !.status = "completed"]
  /\ UNCHANGED <<row, lease, expired>>

(* The clock passes the leaseExpiresAt of a page somebody still holds. *)
LeaseExpires(t) ==
  /\ t \notin expired
  /\ Claimed(t) # {}
  /\ expired' = expired \cup {t}
  /\ UNCHANGED <<job, row, lease>>

-----------------------------------------------------------------------------
(* The usage a caller presents: reserveAnalyzerBatch and                     *)
(* reserveProviderAttempt admit within the budget, and a checkpoint adds the *)
(* page through consumeFrozenPositions, which throws beyond it.              *)
BatchAdmitted(u)      == u.batches < MaxBatches
AttemptAdmitted(u)    == u.attempts < MaxAttempts
Consumed(u, n)        == [u EXCEPT !.consumed = @ + n]
ConsumptionAllowed(u, n) == u.consumed + n <= MaxPositions

(* A caller of the job's generation working on the page [job.next, e). *)
PageStep(t, e) ==
  \/ /\ BatchAdmitted(job.usage)
     /\ \/ ReservePage(t, job.generation, job.usage, job.next, e)
        \/ ReserveRefused(t, job.generation, job.usage, job.next, e)
  \/ SplitPage(t, job.generation, e)
  \/ /\ ConsumptionAllowed(job.usage, e - job.next)
     /\ \E failed \in SUBSET Claimed(t) :
          CheckpointPage(t, job.generation, e, failed, WorklistAfter(failed),
                         Consumed(job.usage, e - job.next))

TokenStep(t) ==
  \/ \E e \in 1..ItemCount : PageStep(t, e)
  \/ AttemptAdmitted(job.usage) /\ ReserveAttempt(t, job.generation, job.usage)
  \/ ReleasePage(t)
  \/ LeaseExpires(t)

JobStep ==
  \/ \E s \in 0..ItemCount :
       AdvanceRun(job.generation, s, IF s = job.next THEN job.ranges ELSE <<>>)
  \/ \E p \in Providers : BindProvider(p, job.generation)
  \/ RetryFromFirstFailure
  \/ RecoverExpiredLeases
  \/ ReleaseJobLeases
  \/ CancelJob
  \/ CompleteWithoutApply

LedgerNext == (\E t \in Tokens : TokenStep(t)) \/ JobStep

LedgerSpec == LedgerInit /\ [][LedgerNext]_ledgerVars

-----------------------------------------------------------------------------
(* The cursor divides the ledger: everything before it has an outcome,      *)
(* nothing from it on has one.  Resuming at the cursor therefore neither    *)
(* skips a repository nor pays for one twice, whatever crashed before.      *)
LedgerFrontier ==
  \A i \in Rows : row[i] \in (IF i < job.next THEN {"settled", "failed"}
                                              ELSE {"pending", "leased"})

(* The status is what the rows say: an analysing job has work left and no   *)
(* failure, a blocked one has a failure to retry, and a review has every    *)
(* row of the frozen scope settled.                                         *)
StatusMatchesCoverage ==
  /\ job.status = "analyzing" =>
       /\ job.next < ItemCount
       /\ RowsIn("failed") = {}
  /\ job.status = "analysis_blocked" => RowsIn("failed") # {}
  /\ job.status \in {"review", "completed"} => Complete(row)

(* One page at a time: the leased rows are exactly a page at the cursor, of *)
(* an admissible size, held by a single token, and it is the head of the    *)
(* worklist when there is one.  A second holder would be paid for the same  *)
(* repositories.                                                            *)
OneLeasedPage ==
  /\ \A i \in Rows : row[i] = "leased" <=> lease[i] # NoToken
  /\ RowsIn("leased") # {} =>
       \E t \in Tokens, e \in (job.next + 1)..ItemCount :
         /\ Claimed(t) = RowsIn("leased")
         /\ ClaimsPage(t, e)
         /\ e - job.next <= PageMax
         /\ IsHead(job.ranges, job.next, e)

(* The stored worklist is one validateAnalysisRanges accepts, and it starts *)
(* at the cursor: a worklist left behind by a cursor that moved back or     *)
(* forth would make every later transaction of the job throw.               *)
WorklistAtCursor == ValidRanges(job.ranges, job.next)

(* Who holds a live lease is never refused for the worklist: a page of      *)
(* several repositories can always be split, and any outcome of the page    *)
(* stored.                                                                  *)
HoldersAreAccepted ==
  \A t \in Tokens, e \in 1..ItemCount :
    HoldsPage(t, job.generation, e) =>
      /\ e - job.next > 1 => CanSplit(t, job.generation, e)
      /\ \A failed \in SUBSET Claimed(t) :
           CanCheckpoint(t, job.generation, e, failed, WorklistAfter(failed))

(* The worklist is accepted now and whatever its holder does next.          *)
(* validateAnalysisRanges throws beyond seven ranges or depth six and on    *)
(* ranges that do not tile from the cursor; a legal job that met it would   *)
(* throw on the same page at every resume.                                  *)
WorklistIsAccepted == WorklistAtCursor /\ HoldersAreAccepted

(* Analysis that was paid for is kept: a settled row loses its outcome only *)
(* when a user retries from a failure in front of it, or a continuation     *)
(* rewinds to a start in front of it.  No crash, lease recovery, takeover   *)
(* or stale worker does that.                                               *)
SettledKept ==
  [][\A i \in Rows : row[i] = "settled" /\ row'[i] # "settled" =>
       /\ job'.next <= i
       /\ job.status = "analysis_blocked" \/ job'.generation > job.generation]_ledgerVars

(* Only the holder of a live lease gives a row its outcome, and it does so  *)
(* for the whole page it leased, at the generation that leased it.          *)
OutcomesComeFromTheLease ==
  [][\A i \in Rows :
       row[i] \in {"pending", "leased"} /\ row'[i] \in {"settled", "failed"} =>
         /\ row[i] = "leased" /\ lease[i] \notin expired
         /\ RowsIn("leased") \cap RowsIn("leased")' = {}
         /\ job'.generation = job.generation]_ledgerVars
=============================================================================
