---------------------------- MODULE OrganizeApply ----------------------------
(***************************************************************************)
(* The durable Apply of one Organize job (storage/organize-job-store.ts):   *)
(* the rows a user approved in the review are sealed, leased in chunks and  *)
(* written to the tags, each after a comparison with what was reviewed.     *)
(*                                                                          *)
(* As in OrganizeLedger, each operation is one IndexedDB transaction, one   *)
(* that throws is no step, and any caller may try anything at any time with *)
(* any lease token.  ApplyRecovery restricts them to the real callers.      *)
(*                                                                          *)
(* Abstractions.  The taxonomy fingerprint covers the modification times of *)
(* tags and tag definitions, so it never returns to an earlier value: it is *)
(* a version number.  Whatever makes a row unfit for its approved tags      *)
(* (gone, tombstoned, changed source, excluded tag) is one state of its     *)
(* repository.  Fingerprints in the form that predates validation, which    *)
(* the store does not compare, are left out.                                *)
(***************************************************************************)
EXTENDS Integers, FiniteSets

CONSTANTS RowCount,   \* selected rows at most
          ChunkMax,   \* ORGANIZE_APPLY_CHUNK_MAX
          Tokens,     \* lease tokens
          NoToken,
          MaxEdits    \* bound on edits by others, of the taxonomy and of repositories

ASSUME ApplyConstants ==
  /\ RowCount \in Nat
  /\ ChunkMax \in Nat \ {0}
  /\ NoToken \notin Tokens
  /\ MaxEdits \in Nat

Rows    == 1..RowCount
Active  == {"apply_sealed", "applying", "paused"}
Written == {"changed", "unchanged", "skipped"}

VARIABLES
  job,       \* organizeJobs: status and pauseRequested
  apply,     \* organizeApplies: status and expectedTaxonomyFingerprint
  row,       \* organizeApplyRows[i].state; "none": not selected
  lease,     \* organizeApplyRows[i].leaseToken
  lapsed,    \* tokens of leases whose leaseExpiresAt has passed
  taxonomy,  \* version of the current taxonomy
  repo,      \* repository i as it was reviewed, or not
  edits      \* taxonomy edits by others so far

applyVars == <<job, apply, row, lease, lapsed, taxonomy, repo, edits>>

Frozen == 0   \* the taxonomy the analysis was made with

Chunk(t)   == {i \in Rows : row[i] = "leased" /\ lease[i] = t}
Leased     == {i \in Rows : row[i] = "leased"}
Lapsed     == {i \in Leased : lease[i] \in lapsed}
Open(r)    == {i \in Rows : r[i] \in {"pending", "leased"}}

(* The stored job, apply and rows keep their types.                         *)
ApplyTypeOK ==
  /\ job \in [status : Active \cup {"review", "completed"}, pauseRequested : BOOLEAN]
  /\ apply \in [status : {"none", "sealed", "applying", "completed"}, expected : Nat]
  /\ row \in [Rows -> Written \cup {"none", "pending", "leased"}]
  /\ lease \in [Rows -> Tokens \cup {NoToken}]
  /\ lapsed \subseteq {lease[i] : i \in Leased}
  /\ taxonomy \in Nat
  /\ repo \in [Rows -> {"reviewed", "unfit"}]
  /\ edits \in 0..MaxEdits

-----------------------------------------------------------------------------
(* Mutant: the pending rows come in the opposite order. *)
Highest(S, k) == {i \in S : Cardinality({j \in S : j > i}) < k}

Lowest(S, k) == {i \in S : Cardinality({j \in S : j < i}) < k}

Free(S) ==
  /\ row'   = [i \in Rows |-> IF i \in S THEN "pending" ELSE row[i]]
  /\ lease' = [i \in Rows |-> IF i \in S THEN NoToken ELSE lease[i]]
  /\ lapsed' = lapsed \ {lease[i] : i \in S}

ApplyInit ==
  /\ job = [status |-> "review", pauseRequested |-> FALSE]
  /\ apply = [status |-> "none", expected |-> Frozen]
  /\ row = [i \in Rows |-> "none"]
  /\ lease = [i \in Rows |-> NoToken]
  /\ lapsed = {}
  /\ taxonomy = Frozen
  /\ repo = [i \in Rows |-> "reviewed"]
  /\ edits = 0

(* sealOrganizeApply: the first n rows stand for the selected ones. *)
SealApply(n) ==
  /\ job.status = "review"
  /\ row' = [i \in Rows |-> IF i <= n THEN "pending" ELSE "none"]
  /\ apply' = [status |-> IF n = 0 THEN "completed" ELSE "sealed", expected |-> Frozen]
  /\ job' = [status |-> IF n = 0 THEN "completed" ELSE "apply_sealed", pauseRequested |-> FALSE]
  /\ UNCHANGED <<lease, lapsed, taxonomy, repo, edits>>

(* claimOrganizeApplyChunk returns rows, and not null. *)
CanClaim ==
  /\ apply.status \in {"sealed", "applying"}
  /\ job.status # "paused" /\ ~ job.pauseRequested
  /\ Leased = Lapsed
  /\ \E i \in Rows : row[i] = "pending" \/ i \in Lapsed

ClaimChunk(t) ==
  LET chunk == Lowest({i \in Rows : row[i] = "pending"} \cup Lapsed, ChunkMax) IN
  /\ CanClaim
  /\ row' = [i \in Rows |-> IF i \in chunk THEN "leased"
                            ELSE IF i \in Lapsed THEN "pending" ELSE row[i]]
  /\ lease' = [i \in Rows |-> IF i \in chunk THEN t
                              ELSE IF i \in Lapsed THEN NoToken ELSE lease[i]]
  /\ lapsed' = {}
  /\ apply' = [apply EXCEPT !.status = "applying"]
  /\ job' = [job EXCEPT !.status = "applying"]
  /\ UNCHANGED <<taxonomy, repo, edits>>

(* Mutant: the apply does not expect the taxonomy its own chunk wrote. *)
ExpectedUnchanged(after) == apply.expected

(* The taxonomy the next chunk must find: the current one, unless it had     *)
(* already been changed by others, which is remembered.                      *)
ExpectedAfter(after) == IF taxonomy = apply.expected THEN after ELSE apply.expected

(* A row is written only against the taxonomy and source it was reviewed by. *)
Fit(i) == taxonomy = apply.expected /\ repo[i] = "reviewed"

CanSettle(t) == apply.status = "applying" /\ Chunk(t) # {} /\ t \notin lapsed

(* settleOrganizeApplyChunk; a fit row whose repository carries the tags     *)
(* already is unchanged.                                                     *)
SettleChunk(t, new) ==
  LET chunk == Chunk(t)
      after == IF new = {} THEN taxonomy ELSE taxonomy + 1 IN
  /\ CanSettle(t)
  /\ new \subseteq {i \in chunk : Fit(i)}
  /\ row' = [i \in Rows |->
               CASE i \notin chunk -> row[i]
                 [] i \in new      -> "changed"
                 [] i \in chunk \ new -> IF Fit(i) THEN "unchanged" ELSE "skipped"]
  /\ lease' = [i \in Rows |-> IF i \in chunk THEN NoToken ELSE lease[i]]
  /\ taxonomy' = after
  /\ apply' = [status |-> IF Open(row') = {} THEN "completed" ELSE "sealed",
               expected |-> ExpectedAfter(after)]
  /\ job' = [status |-> IF Open(row') = {} THEN "completed"
                        ELSE IF job.pauseRequested THEN "paused" ELSE "apply_sealed",
             pauseRequested |-> FALSE]
  /\ UNCHANGED <<lapsed, repo, edits>>

(* Mutant: the pause does not wait for the leased chunk. *)
PauseAtOnce ==
  /\ job.status \in Active
  /\ job' = [status |-> "paused", pauseRequested |-> FALSE]
  /\ UNCHANGED <<apply, row, lease, lapsed, taxonomy, repo, edits>>

(* requestOrganizeApplyPause: at once, or when the leased chunk has settled. *)
PauseApply ==
  /\ job.status \in Active
  /\ job' = [status |-> IF Leased = {} THEN "paused" ELSE job.status,
             pauseRequested |-> Leased # {}]
  /\ UNCHANGED <<apply, row, lease, lapsed, taxonomy, repo, edits>>

ResumeApply ==
  /\ job.status = "paused"
  /\ job' = [status |-> "apply_sealed", pauseRequested |-> FALSE]
  /\ UNCHANGED <<apply, row, lease, lapsed, taxonomy, repo, edits>>

(* The apply half of recoverExpiredOrganizeLeases.  A requested pause takes  *)
(* effect and stays requested.                                               *)
RecoverExpiredChunk ==
  /\ job.status \in Active /\ Lapsed # {}
  /\ Free(Lapsed)
  /\ apply' = [apply EXCEPT !.status = "sealed"]
  /\ job' = [job EXCEPT !.status = IF job.pauseRequested THEN "paused" ELSE "apply_sealed"]
  /\ UNCHANGED <<taxonomy, repo, edits>>

(* Mutant: a pause requested before the release is forgotten. *)
StatusAfterReleaseForgets == "apply_sealed"

(* Mutant: the job is given the status of the apply. *)
StatusOfTheApply == "sealed"

StatusAfterRelease == IF job.pauseRequested THEN "paused" ELSE "apply_sealed"

(* The apply half of releaseOrganizeJobLeases: every lease, lapsed or not.   *)
ReleaseChunk ==
  /\ job.status \in Active /\ Leased # {}
  /\ Free(Leased)
  /\ apply' = [apply EXCEPT !.status = "sealed"]
  /\ job' = [status |-> StatusAfterRelease, pauseRequested |-> FALSE]
  /\ UNCHANGED <<taxonomy, repo, edits>>

-----------------------------------------------------------------------------
(* Others: time, the user's own tag edits, star sync, Gist pulls. *)
LeaseLapses(t) ==
  /\ Chunk(t) # {} /\ t \notin lapsed
  /\ lapsed' = lapsed \cup {t}
  /\ UNCHANGED <<job, apply, row, lease, taxonomy, repo, edits>>

EditTaxonomy ==
  /\ edits < MaxEdits
  /\ edits' = edits + 1 /\ taxonomy' = taxonomy + 1
  /\ UNCHANGED <<job, apply, row, lease, lapsed, repo>>

EditRepository(i) ==
  /\ repo[i] = "reviewed" /\ Cardinality({j \in Rows : repo[j] = "unfit"}) < MaxEdits
  /\ repo' = [repo EXCEPT ![i] = "unfit"]
  /\ UNCHANGED <<job, apply, row, lease, lapsed, taxonomy, edits>>

ApplyNext ==
  \/ \E n \in 0..RowCount : SealApply(n)
  \/ \E t \in Tokens :
       \/ ClaimChunk(t)
       \/ \E new \in SUBSET Chunk(t) : SettleChunk(t, new)
       \/ LeaseLapses(t)
  \/ PauseApply \/ ResumeApply \/ RecoverExpiredChunk \/ ReleaseChunk
  \/ EditTaxonomy
  \/ \E i \in Rows : EditRepository(i)

ApplySpec == ApplyInit /\ [][ApplyNext]_applyVars

-----------------------------------------------------------------------------
(* The apply goes through its rows in order, one chunk at a time: rows with  *)
(* an outcome come first, then the leased chunk of a single token, then the  *)
(* rows still to do.  No restart, release or expiry opens a second chunk or  *)
(* leaves a hole behind.                                                     *)
Stage(st) == CASE st \in Written -> 1 [] st = "leased" -> 2 [] st = "pending" -> 3
               [] st = "none" -> 4

ChunksInOrder ==
  /\ \A i, j \in Rows : i < j => Stage(row[i]) <= Stage(row[j])
  /\ Leased # {} => \E t \in Tokens : Chunk(t) = Leased
  /\ Cardinality(Leased) <= ChunkMax

(* Job, apply and rows, three records written by eight transactions, tell    *)
(* the same story: both are applying exactly while a chunk is leased, both   *)
(* are completed exactly when no row is open, and a pause is requested only  *)
(* of a chunk under way or already in effect.                                *)
StatusMatchesRows ==
  /\ apply.status = "applying" <=> Leased # {}
  /\ job.status = "applying" <=> Leased # {}
  /\ job.status = "completed" <=> apply.status = "completed"
  /\ job.status \in Active <=> Open(row) # {}
  /\ job.pauseRequested => Leased # {} \/ job.status = "paused"

(* A pause, once asked for, stays until the user resumes or the last chunk   *)
(* completes the apply, and until then no further row is claimed, whatever   *)
(* crashes, expires or is released in between.                               *)
PauseAsked == job.pauseRequested \/ job.status = "paused"

PauseKept ==
  [][PauseAsked /\ ~ ResumeApply =>
       /\ (job'.pauseRequested \/ job'.status \in {"paused", "completed"})
       /\ \A i \in Rows : row[i] = "pending" => row'[i] = "pending"]_applyVars

(* Each row is decided once, by the holder of its live lease, and skipped    *)
(* exactly when something it was reviewed by has been changed by others: the *)
(* taxonomy since the analysis, or its own repository.  What the apply wrote *)
(* itself in earlier chunks does not count.                                  *)
DecidedByReview ==
  [][\A i \in Rows :
       /\ row[i] \in Written => row'[i] = row[i]
       /\ row[i] \notin Written /\ row'[i] \in Written =>
            /\ row[i] = "leased" /\ lease[i] \notin lapsed
            /\ row'[i] = "skipped" <=> (edits > 0 \/ repo[i] = "unfit")]_applyVars
=============================================================================
