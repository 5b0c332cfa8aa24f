# Verification of the background of Better GitHub Stars Manager

A browser extension that mirrors a user's GitHub stars into IndexedDB and lets an
AI service propose tags for them.  Its background worker (Manifest V3) may be
stopped by the browser at any await and started again by an alarm or a page, so
everything that matters is a protocol between durable records and executions that
come and go.  This directory models that protocol in TLA+, checks it with TLC and
proves its core with TLAPS.  Paths below are relative to the extension's source
directory (`src/src/...` in `PROJECT.json`).

## The system

| Component | State it keeps | Operations | What is hard, and what must hold |
|---|---|---|---|
| **Organize durable store** (`storage/organize-job-store.ts`) | one job per controller slot: status, revision, run generation, cursor, split worklist, budget used; one row per repository of the frozen scope with its outcome and lease; a sealed apply with its rows | one IndexedDB transaction each: reserve, charge, checkpoint, split, release, recover, continue, retry, cancel, seal, claim, settle, pause, resume, dismiss | any caller may be stale; a crash falls between two transactions. Rows, cursor, worklist and status must describe one prefix, and paid results must survive |
| **Organize analysis scheduler** (`background/organize-analysis-runner.ts`, `bgsm-agent/organize-job.ts`, `bgsm-agent/run-budget.ts`) | executions with a copy of the analysis state, tokens, wall-deadline timers | schedule, revoke, plan, reserve, call the AI, split, checkpoint, exhaust, continue as a child | an execution is overtaken while its store call is in flight. No repository paid for twice, the budget bounds what is sent, analysis ends |
| **Organize host, controller, ports** (`background/organize-job-host.ts`, `organize-job-controller.ts`, ...) | in-memory runs, restore flights, port ownership, mutation tail | attach, take control, continue, stop, restore, publish | restore against a running execution; a restore never discards a healthy job |
| **Durable job pump and recovery** (`background/durable-job-pump.ts`, `durable-job-recovery.ts`, `organize-apply-*.ts`, `organize-analysis-recovery.ts`) | executions by operation, a keyed queue of work, one alarm | start, recover, arm, reconcile | joins, restarts, pauses and alarms race. Approved work is never stranded |
| **Job queue and schedules** (`background/serialized-runner.ts`, `scheduled-refresh.ts`) | a FIFO of promises; a daily one-shot alarm | run, arm, fire | a failing or aborted job must not block or overtake the rest |
| **Agent sessions and attempts** (`storage/agent-session-store.ts`, `background/agent-attempt-coordinator.ts`, `bgsm-agent-turn-*.ts`) | sessions, turns, attempts and their checkpoints | begin, checkpoint, recover, commit, cancel | a worker dies in a turn; the attempt is recovered once |
| **Agent harness** (`agent-harness/*`) | the loop's transcript, budgets, a suspended turn, an execution ledger | step, run tools, suspend, resume | tool calls at most once, budgets, no endless loop |
| **Agent tools and authorization** (`bgsm-agent/tools.ts`, `authorization.ts`, `compaction.ts`) | candidate grants, compacted context | validate, authorize, compact | mostly pure; driven by the harness |
| **Sign-in** (`auth/*`) | one encrypted credential | save, probe, clear | no protocol of its own |
| **Watch** (`background/watch-refresh.ts`, `storage/watch-store.ts`) | cursors, page sets, quota | refresh, load older, mutate a thread | an account switch or a mutation during a refresh |
| **Radar and recommendations** (`background/radar-refresh.ts`, `recommendation-refresh.ts`) | snapshots, coalesced requests, schedule | refresh, clear, switch account | a stale refresh replaces a newer snapshot |
| **Star sync, tags, Gist** (`api/github-star-source.ts`, `storage/idb-tag-store.ts`, `sync/gist-tag-store.ts`) | stars, tags, dirty outbox | sync, edit, push, pull, merge | an edit during a push; merge by modification time |
| **User interface** (`ui`, `content`, `popup`, ...) | React state | render | presentation of the above; not modelled |

Interaction.  Pages talk to the host over ports; the host calls the store and the
scheduler; the scheduler calls the store and the AI service; the recovery alarms
and the host's restore start executions; star sync, tag writes, the seal of an
apply and the apply pump share one FIFO job queue.  The only state that survives the
worker is the store's and the alarms.

## Modules

Written so far (`->` reads "extends"):

    AnalysisRanges                      the split worklist's operators
      <- AnalysisRangesProofs           lemmas: what splitting and settling keep of a worklist
      <- OrganizeLedger                 the analysis half of the durable store
           <- OrganizeLedgerProofs      (with AnalysisRangesProofs) theorems about OrganizeLedger
           <- OrganizeScheduler         executions, restore, alarm, user, worker
                <- MCScheduler          symmetry for TLC
                <- OrganizeSchedulerProofs  (with OrganizeLedgerProofs) it implements the ledger
    OrganizeApply                       the apply half of the durable store
      <- ApplyRecovery                  pump, recovery queue, alarm, restore, user, Cubby
           <- OrganizeApplyProofs       theorems about both; the drivers implement the apply
    OrganizeSlot                        preflight, start, control and dismissal of the one run
      <- OrganizeSlotProofs             theorems about OrganizeSlot
    TurnContract                        what the agent promises about its turns
    AgentTurns                          attempts, turns, workers and pages; implements TurnContract
      <- MCAgent                        pages draw identifiers in order
      <- AgentTurnsProofs               theorems about AgentTurns and its contract
    TagSync                             local edits, outbox, job queue, push, pull, Gist
      <- TagSyncProofs                  theorems about TagSync
    WatchInbox                          the notification inbox and GitHub
      <- WatchInboxProofs               theorems about WatchInbox

**AnalysisRanges** translates `validateAnalysisRanges` (the store) and the range
arithmetic of `splitFrozenOrganizeAnalysisPage`.  The limits (seven ranges, depth
six) are the code's; the page limit (50) and the scope are constants.

**OrganizeLedger** is the durable store of an analysing job.  State: `job` (status,
generation, cursor, worklist, usage, provider binding), `row` and `lease` (one per
repository) and `expired`, the tokens whose lease has run out.  One action per
transaction: `ReservePage` / `ReserveRefused` (`reserveOrganizeAnalysisPage`),
`ReserveAttempt`, `CheckpointPage`, `SplitPage`, `ReleasePage`,
`RecoverExpiredLeases`, `ReleaseJobLeases`, `BindProvider`, `AdvanceRun`,
`RetryFromFirstFailure`, `CancelJob`, `CompleteWithoutApply`.  Its callers are the
most general ones: any token at any time.  It is at once the specification that the
scheduler must implement and the one the theorems are about.

**OrganizeScheduler** is what really calls the store.  An execution is a record of
its local variables and a program point, one point per await; a step runs from one
await to the next, as JavaScript does.  `current` is the set of executions that hold
the token of their run (`executionTokens`); an execution that lost it still commits
the store call it has issued and then stops.  Beside the executions run a restore
(`flight`), the analysis recovery alarm (`alarm`), a user who opens pages, retries,
continues and stops (`user`), and the worker's death (`Crash`), lease expiry
(`Expiry`), the wall deadline (`DeadlinePasses`) and failing calls, which share the
bound `MaxFaults`.  A job can be cancelled by the user (`UserStops`), by a provider
that is gone when an execution is set up (`SetupFails`, only if nothing was analysed,
which is what `OnlyFreshJobsAreCancelled` is about) and by a restore that finds a
checkpoint corrupt (`RestoreDiscards`, which also takes a job that has come to its
review since the restore began: the host tests the status it read before).

**OrganizeApply** is the durable apply of one job.  State: `job` (status,
`pauseRequested`), `apply` (status, expected taxonomy), `row` and `lease` per
selected repository, `lapsed` leases, and what others may change: `taxonomy` and
`repo`.  One action per transaction: `SealApply`, `ClaimChunk`, `SettleChunk`,
`PauseApply`, `ResumeApply`, `RecoverExpiredChunk`, `ReleaseChunk`; the rest are
time and edits by others.  As in the ledger, any caller may try anything.

**ApplyRecovery** is who really calls it.  `pump` is the loop of
`createDurableJobPump` with its failure handler and restart reservation, one point
per await; `work` is the keyed queue of `createDurableJobRecovery`, of which the
head is active and at `point`; `alarm` is Chrome's one-shot alarm; `tidy` is the
reconcile a completed pump does not wait for; `flight` is the restore of a job that
the controller does not remember (`known`); `user` is a command between its awaits;
`queue` is the job queue.  A page opens, approves, resumes and stops; Cubby writes
tags; the worker crashes, is stopped when idle and is started again.

**OrganizeSlot** is who may start, control and end the one organize run.  `status`,
`owner`, `origin` and `revision` are the stored jobs (a job stands for its preflight
token), `sessions` the stored conversations, `live` the connection registry, `pending`
the reservation of the slot in the worker's memory.  A page's message passes its checks
in one step and commits its transaction in a later one (`handler`): `Requests` then
`Freezes`, `Starts` then `Replaces` and `Activates` (or `StartThrows`, which gives the
reservation back and leaves what was cancelled cancelled), `TakesControl` then `TakesOver`,
`Commanded` then `Stops`, `Retries` or `Reviews`, `Dismisses` then `DismissesNow`.
Messages follow one another (`TailFree`); the scheduler's mutations (`mutation`, with
their three attempts), lease recovery, the deletion of a conversation, preflights that
expire, ports that break and the worker's death come in between.

**TagSync** follows one repository's tags and the tag metadata on several devices.
`store[d]` holds a stamp per layer (manual, automatic and dismissed tags; `row` for
notes and favorite, which share the row's mtime; `meta`), because only stamps decide
what a push, a merge or an outbox does.  `outbox` is the durable dirty outbox with
the version of each key, `dirty` the marks in the worker's memory, `queue` the
serialized runner.  Each kind of edit is one transaction (`Edit`) over the layers
that the operator named after it says it may write; a push goes through
`PushBegins`, `PushEnsures` or `PushUnbinds` and `PushCreates`, `PushBuilds`,
`PushPatches`, `PushClears`, a pull through `PullBegins`, `PullReads`, `PullMerges`,
`PullPuts`, `PullReadsMeta`, `PullMeta`, one step per await.  A request may fail
before or after GitHub has carried it out, a Gist may be deleted, and a worker may
die, which loses its queue and its marks but not its outbox.

**AgentTurns** is one conversation with Cubby.  `rows[a]` is the durable attempt
(state, recovery class, lease by worker epoch, receipt of its answer), `turns[a]`,
`seen`, `completed` and `held` the registry of the turn port in the worker's memory,
`runs[a]` the turn service with the one write its tools make.  Pages `Start`,
`Stop`, `Acknowledge`, `Inspect`, `DismissRetry`, `Abandon` and `DeleteSession`; a
turn goes `Load`, `Admit`, `Prepare`, its tool call through the execution ledger and
the job queue (`CallTool` ... `CallReturns`), `EndEpisodes`, `Commit` or `Settle`.
`Crash` starts a new epoch: the rows stay, and a page's inspection decides whether
the new worker may go on (read-only attempts, `Restore`) or the user must decide.

**TurnContract** is the abstract specification: attempts are new, open, offered for
a retry, lost or closed; one is open at a time, one that wrote is never offered, and
a retry takes the offer away.  `AgentTurns!ContractSpec` instantiates it with a
refinement mapping of rows and leases to phases.

**WatchInbox** is the account-wide cache of notification threads.  `cred` is the stored
credential (account, token, whether it opens Watch): a token saved again for the same
account is another credential and ends the work of the old one.  `db` is the state
row (account, scan status, boundary, next page, validator, cooldown), `rows` the
cached threads, `job` the job of the queue that runs, with its local variables, and
`flight[c]` where the operation of each caller (manual refresh, load older, done,
disconnect, clear, the scheduled poll, the credential listener) stands.  GitHub is
`inbox`, `version` and `modified`: the listing of a boundary, newest first, page by
page, and the Last-Modified header.  Each batch freezes or continues a scan, fetches
pages, validates its last one, and commits, merges, restarts or records a failure.
`StartDone` marks any set of threads; each is deleted on GitHub by itself (`Deletes`,
`DeleteFails`), and `AppliesDone` removes the rows of those that were.

### Abstractions

* An outcome is `settled` or `failed`; the five kinds of settled rows are not told
  apart.  The store's `retry` outcome and its batch calls have no caller in the
  source and are left out.
* The revision is left out: callers re-read it up to three times, so a call that
  commits saw the current one; giving up is a failed call.
* Outbound bytes and output tokens bound the number of requests as
  `maxProviderAttempts` does, and are folded into `MaxAttempts`.
* IndexedDB commits outstanding calls in any order in the model (the real order is
  one of them), except that a restore's transactions do not overtake a user's
  continuation that was issued before it.
* Timers are on time: the wall deadline (300 s) aborts a request before the lease it
  renewed (360 s) runs out.  `Expiry` therefore does not strike a request that a
  current execution still waits for.
* The continuation's and the restore's seed are the arguments of the execution they
  start; a user's Stop cancels the job, and the abort it sends as well is a
  revocation as any other.
* The controller's in-memory state `failed` is its state before.
* The taxonomy fingerprint covers modification times and never returns to an earlier
  value: it is a version number.  Everything that makes a repository unfit for its
  approved tags is one state; the reason for a skip is not kept.
* In `ApplyRecovery` the job queue is a lock without order, there is one apply, a
  fit row is always changed, and the backoff has no length.  Edits by the user, syncs
  and Gist pulls touch nothing the drivers read; they are steps of `OrganizeApply`.
* A restore that throws, and failures to publish a job's state to pages, leave the
  durable apply as it is and are left out; a failing call of the pump, of its failure
  handler or of recovery work is a step (`MaxErrors`).

* In `OrganizeSlot` a page is a controller with its conversation, analysis is steps
  that move the job's revision and status, and `sealed` stands for the whole apply.  The
  revision a page sends is the one its check reads: a message with another is refused
  there and changes nothing.
* In `TagSync` there is one repository, the contents of layers are their stamps, and
  the devices start as copies of one profile that is bound to a Gist.  Timestamps
  are readings of a clock per device: edits within one reading tie, and the clocks
  of two devices need not agree.  Metadata that tie are ordered by their contents,
  so either may win.
* In `AgentTurns` a turn makes at most one kind of write, by one call identity; the
  transcript is a revision and whether it holds repository code (which makes the
  next turn read-only).  Failing IndexedDB writes share the bound `MaxFaults`.
* In `WatchInbox` a timestamp, a validator and a change on GitHub are versions of one
  counter, so every change has its own and moves the validator; GitHub always sends
  Last-Modified.  The contents of the scope and of subjects are left out.

## Checks

Every run is a row of `PROJECT.json`; every property has a mutant of the code that
breaks it.

| Run | Question | Instance, and why it is enough |
|---|---|---|
| `ledger` | do rows, cursor, worklist, status and leases agree whatever callers do, and can a holder always split or store its page? | 4 repositories, pages of 3 (so that a half is itself split), 2 tokens, 2 generations: two holders, a stale one, a takeover after expiry, a rewind |
| `scheduler` | is at most one current execution waiting for the AI service, and is everything sent charged? | 2 executions at a time, since a race for the AI service has two sides: a revoked execution beside the restored one, a child beside either; pages of one, 2 batches and requests per generation, so that a page can be retried; 2 generations; 1 fault of any kind anywhere |
| `scheduler_live` | are the executions' steps ledger steps, does a provider that is gone cancel only a job without results, does a request leave only for the leased page at the head of the worklist, and does analysis end? | 2 executions without symmetry, a page of two that splits, 1 batch and 1 request per generation, so that its halves are read by a generation that continues; 1 fault |
| `slot` | can two runs hold the slot, a start keep its reservation, a run lose its conversation, or a page command a run that another one took over? | 2 pages and 2 preflights, so that a takeover, a replacement and a repeated start meet; 5 revisions of a job and 2 faults (crash, broken port, deleted conversation) anywhere |
| `recovery` | do the chunks, statuses, pauses and skipped rows of the apply hold together under its drivers, and does an approved apply end? | 3 rows in chunks of up to 2 (a full chunk and a last one, with a pause or a crash between them), 1 crash, 1 failing call or suspended lease, 1 edit; idle stops, wakes, alarms and commands without bound |
| `tags` | is a local edit ever forgotten, does a pull ever go back, does every job end? | 2 devices with 2 jobs each and 2 clock readings (ties and skew), 3 Gists (the bound one and one recreated by each device), 1 fault anywhere; one edit of the assignment and one of the metadata, because only the stamps they leave matter |
| `agent` | can a prompt write twice, a row be taken away under a turn, or an attempt stay open? | 3 attempts (a prompt, its retry and another page's prompt), 1 worker death, 1 failing write |
| `watch` | do rows stay with their account, does a scan remove a thread of its boundary, does what is marked done stay done, does a refresh end and a scan converge? | 2 threads on pages of one, so that a change shifts pages between requests; batches of 1 page, 1 restart, 1 change of the credential (the other account with or without the scope, a new token, or none; tokens without the scope are the other account's, `Unscoped`), 1 command and 1 fault, each at any point; 2 changes on GitHub, in the inbox of one of the two accounts (`Busy`) |
| `scheduler_deadline` | (violation) does a progressing generation always continue? | see Findings |
| `scheduler_restore` | (violation) does a restore ever discard a healthy job? | see Findings |
| `recovery_alarm` | (violation) does an alarm during a live pump leave the next wake armed? | see Findings |
| `watch_sweep` | (violation) is every swept thread gone from the inbox? | see Findings |

`CHECK_DEADLOCK FALSE` where the system may stop: a cancelled or completed job, a
deleted conversation and a used-up number of jobs have no next step.  `MCAgent` lets
the pages draw attempt identifiers in order (`DrawnInOrder`): they are random and
interchangeable, and a symmetry set would be unsound for the liveness property.

**Fairness.**  `AnalysisEnds` assumes weak fairness of each execution, of the
restore, of the recovery and of the user commands that are already under way: an
awaited promise settles and the JavaScript runtime then runs its continuation.  The
recovery of an analysing job that does not run is fair too: its one-shot alarm is
re-armed whenever a run or a recovery ends, and a worker that died without an armed
alarm recovers the job when it is started again, which the extension's periodic
refresh alarms (`background/scheduled-refresh.ts`) see to.  `ApplyEnds` states the
same assumptions one by one: recovery work, pump, restore, commands and a Cubby
write under way go on; an armed alarm rings; the lease of a pump that is gone
lapses; an idle worker is stopped, and a stopped one is started by some event.
Nothing is assumed of the user's decisions, of crashes or of answers being
successful.  An exhausted generation that never moved its cursor waits for the user
by design (`OutOfBudget`), and so does a paused apply.

`JobsLeaveTheQueue` assumes that the job at the head of a living worker's queue goes
on: a transaction commits and a request is answered or fails.  `AttemptsEnd` assumes
that a living worker runs its turns (strong fairness for leaving the loop, which has
a step limit), drops ended turns nobody acknowledges after the grace of five seconds,
and that a page that shows the conversation asks for its active turn.  `RefreshEnds`
and `InboxConverges` assume that the queue is never stuck, that the poll's alarm rings
every minute and that a cooldown ends.

**Findings.**  Four checks disagree with what the repository says.

1. `scheduler_deadline`: when the wall deadline strikes in the middle of a page, the
   budget is exhausted with an analysis state that still says `analyzing`; the
   automatic continuation throws, and only the recovery alarm resumes the job.
2. `scheduler_restore`: a restore reads the job and the rows in two transactions; a
   page checkpointed in between makes a healthy job look corrupt, and the host
   cancels and dismisses it, even if that page was the last and the job is in review.
3. `recovery_alarm`: an alarm that rings while recovery work waits for its pump joins
   that work and arms nothing.  A worker that dies later in the same pump has no
   alarm to bring it back.
4. `watch_sweep`: the boundary of an inbox scan is frozen before its first page is
   fetched.  A thread updated between the two is outside the boundary, and the
   validator of that page already covers its update: the scan completes and sweeps
   the row of a thread that is still in the inbox, until the inbox changes again.

Observations that no run states:

* After a worker restart, a page that reopens the job releases the chunk of the pump
  that the recovery has just started (`organize-job-host.ts:1834`); the pump fails and
  pauses the apply with the message of a storage error.  Nothing is lost: the user
  can continue.
* A start that replaces the page's own blocked run cancels it
  (`organize-job-host.ts:883`) before the preflight is activated (line 894), which can
  still fail because the preflight has expired; then neither run is left.  The interface
  does not offer a preflight while it shows a blocked run.
* `createOrganizePreflight` removes every finished run when a scope is merely frozen
  (`organize-job-store.ts:323`), although the interface speaks of a result that is kept
  until it is dismissed or a new run replaces it; a test expects the removal.
* The Gist id lives in the profile (`auth/auth-store.ts`) and only creating a Gist sets
  it.  A second fresh installation has none: its pull returns nothing and its push
  creates another Gist, although the options speak of cross-device sync.  `TagSync`
  starts from copies of one bound profile.
* A push replaces the whole Gist without looking at its stamps, so a device that has
  not pulled overwrites newer rows there; they come back when their owner pushes
  again, which its next edit makes it do.
* A read-only attempt whose settlement fails keeps this worker's lease until the
  worker dies; the conversation refuses other turns until then.
* `docs/en/watch-strategy.md:74` says that Refresh makes no request during the cooldown;
  the code ignores the cooldown for a manual refresh, and a test says so.
* A first page without a Last-Modified header in a scan of several batches leaves a
  validator that no later batch can satisfy; only a done, a disconnect or another
  account resets it.

`ApplyEnds` holds in spite of 3 and of a resume that is lost because it joins work
that has already found nothing to do: the next start of the worker recovers both.
How long that takes is not modelled.

## Proofs

`OrganizeLedgerProofs` proves, for every scope, page size, set of tokens, provider
set and budget, every invariant and action property that the run `ledger` checks,
its type correctness, and that at most one page is leased:
`LedgerTypeCorrect`, `FrontierHolds`, `StatusIsCoverage`, `OnePageIsLeased`,
`WorklistStaysAtCursor`, `WorklistStaysValid`, `SettledRowsAreKept`,
`OutcomesAreLeased`.

`WorklistStaysValid` (`WorklistIsAccepted`) says that the limits of the worklist are
out of reach; its one further assumption is that a page has at most 50 positions, as
in the code.  `JobShape`, built from the lemmas of `AnalysisRangesProofs`, says why:
a range at depth d holds at most 25, 13, 7, 4, 2, 1 repositories, so a range of the
deepest level holds one and is never split (`HalvesFit`), and depths fall by one at
every range after the second, so seven ranges are the most (`WorklistIsValid`).
`SplitIsWorklist` and `RestIsWorklist` keep that shape through a split and a settled
page.

The inductive invariant of the others is `LedgerInv`, the conjunction of the five invariants.
None of them is inductive alone: the frontier needs the leased rows to be a page at
the cursor (or a checkpoint could leave a gap), the leased page needs the frontier
(or a reservation could overlap an old lease) and the worklist at the cursor (or a
split would cut a range that is not its head), and the status needs the frontier.
`StepInv` has one lemma per transaction; the operations that only free leases share
`FreeingInv`, those that rewind share `Rewinding`.  The two action properties follow
from `LedgerInv` and from lemmas on which transactions move a row out of or into an
outcome.  The assumptions are `WorklistConstants` and `LedgerConstants`, which TLC
evaluates in every run.

`OrganizeSchedulerProofs` proves every safety property of the runs `scheduler` and
`scheduler_live`, for every number of executions, scope, page size, budget and number
of faults: that each step of the scheduler is an operation of the ledger or leaves it
alone (`SchedulerImplementsLedger`: `Spec => LedgerSpec`, so all of the above holds
under it), that one request waits at a time (`RequestsAreSingle`), that what is sent is
charged (`SentIsCharged`), that a planned page is the whole head of the worklist
(`PlansAreHeads`), that a request leaves only for the leased page
(`RequestsAreCovered`), and that apart from the user's stop and a checkpoint found
corrupt only a job without results is cancelled (`FreshJobsOnly`).  The last is not a
consequence of the refinement, for the ledger lets anybody cancel: that a fresh job has
no results is the frontier, and that nobody waits for its answer is that a run has one
current execution, the one that is being set up.

None of this is inductive, because the store does not check all of it: it compares
the usage, cursor and page it is shown, but neither the positions that a checkpoint
consumes nor whether another execution waits for an answer.  The inductive invariant
`SchedInv` says who may be where, and with which copy of the job:

* an execution that still leases its page has the cursor and the usage of the job
  (`InStep`, in `Slot`), and no other copy is ever ahead of it (`Within`), so an
  execution that was overtaken presents something that the store refuses;
* the positions of a worklist fit the rest of the budget (`Chain`), so no window cuts
  its head;
* once a generation may be left (`Doomed`: a continuation is under way or remembered,
  the job is blocked, or a revoked execution still leases a page) it has been charged
  for something, so that the copy of a child is behind, and none of its current
  executions can pay any more (`DoomInv`): none holds a page, and what one would
  reserve is refused as stale or finds the budget exhausted (`Dead`);
* a revoked execution that still leases a page (`Orphan`) is gone before the restore
  that revoked it reads the job (`OrphansAreReleased`);
* what a restore read before the job was blocked is stale (`SeedInv`), and each run
  has at most one current execution (`OneCurrent`).

The proof has one lemma per action (`...Keeps`).  Those that move one execution go
through `WorkerKeeps`, those that leave the job as it is through `QuietWorker`, and
those that start an execution through `StartKeeps`; `ReserveEffect`, `AttemptEffect`,
`SplitEffect`, `CheckpointEffect`, `AdvanceEffect` and `RetryEffect` say what each
transaction leaves behind.  `SchedTypeCorrect`, for pages up to 50, adds `ShapeInv`:
every copy has the shape of `JobShape`, and whoever has planned a first page has
planned one that fits the page limit.  The assumptions are those of the ledger and
`SchedulerConstants`.

`OrganizeApplyProofs` proves every safety property that the run `recovery` checks, for
every number of rows, chunk size, set of tokens and number of edits.  Its inductive
invariant `ApplyInv` adds two facts to the three invariants: the apply expects the
current taxonomy exactly while nobody else has edited it (`OwnChangesExpected`, from
which "skipped exactly when others changed it" follows), and nothing is applied
during the review.  That a claimed chunk is a non-empty, bounded front part of the
open rows is the lemma `LowestIsAFront`, from the library's facts about cardinality.

The same module proves that the drivers implement the apply
(`DriversImplementApply`: `Spec => ApplySpec`; the drivers call the transactions of the
apply, so no run repeats it), so the theorems above hold of them,
as `DriversKeepPause` shows for the pause; that Cubby's writes and an apply
exclude each other (`CubbyIsKeptOut`); and that the drivers keep their types
(`RecoveryTypeCorrect`), of which the part that could fail is the recovery's queue: no
work is queued twice, and some of it is in progress exactly while the queue is not
empty.  All need `PumpInv`: the pump is in its loop exactly while it holds the job
queue, and settles with a token it claimed with.

The assumptions are `ApplyConstants` and `RecoveryConstants`.

`OrganizeSlotProofs` proves the three properties of the run `slot` for any number of
pages, jobs, revisions and faults: one run at a time and no reservation left behind
(`SlotTypeCorrect`), runs keep their conversations (`RunsHaveSessions`), only the owner
commands (`OwnerCommands`).  Its inductive invariant `SlotInv` is what the queue of
messages is for: one message is in hand at a time (`OneMessage`), so what its checks
found of owners and connections is still true at its transaction (`ChecksLast`), while
the job's status and revision may have moved and are checked again there.  That a
preflight is at its first revision (`PreflightsAreFresh`) keeps an activation below the
model's bound.  The assumption is `SlotAssumption`; the lemmas `MovesKeepStore`,
`DeletionsKeepStore` and `UntouchedStore` cover the store, `NextMessage`,
`MessageOver` and `BesideMessages` the worker, once for all the actions that share them.

`AgentTurnsProofs` proves every safety property of the run `agent` for any number of
attempts, crashes and faults: types (`AgentTypeCorrect`), the lease of whoever runs
(`RunnersHoldLeases`), the offered retry (`RetriesAreCurrent`), one write per prompt
(`PromptsWriteOnce`), and that the turns implement `TurnContract` (`TurnsKeepContract`:
`AgentSpec => ContractSpec`, each action an action of the contract or a stutter).  None
but the types is inductive.  The inductive invariant `AgentInv` adds what the code relies
on across a restart: an attempt that wrote is never new or offered again
(`WritersAreKnown`), the ledger of a turn knows of every write (`LedgerCounts`), no worker
begins an attempt again that may write (`WritersRunOnce`: the registry in memory and the
epoch of the lease together), the other attempts of a prompt that is offered or runs did
not write (`OthersDidNotWrite`), and a turn's class follows whether repository code is in
the transcript (`ClassIsCode`).

`TagSyncProofs` proves every safety property of the run `tags` for any devices, Gists,
jobs and faults: types, no edit forgotten (`EditsAreNotForgotten`), a push that skips has
nothing to send (`SkippedPushes`), a pull that never replaces a newer layer
(`PullsGoForward`).  The inductive invariant `SyncInv` says why: whoever is between two
steps is the head of the serialized queue (`Serial`), so what a push noted of the outbox
(`NotedNow`), what it is about to send (`BuiltNow`) and what a pull compared with
(`SeenNow`) is still the store; and whatever a Gist or a pull holds was sent
(`GistsWereSent`, `PulledWereSent`, `PatchedWereSent`).

`WatchInboxProofs` proves every safety property of the run `watch` for any accounts,
threads, page sizes, batch sizes and bounds: types (`WatchTypeCorrect`), the rows' account
(`RowsKeepTheirAccount`), the sweep (`SweepsKeepBoundary`), the marks (`MarksStayDone`).
The inductive invariant `WatchInv` is about numeric pages that shift while they are read.
The pages before page p are `Reached`: the threads of the window with fewer than
(p - 1) * PageSize newer ones.  As long as the inbox is as it was at the first page, a
scan has seen what its pages reach (`ScanSaw`, and `JobSaw` for a batch in hand), and
`NextPage` says that one page more reaches one page further, or the end.  The commit that
sweeps comes only after the first page proved unchanged, so it keeps the whole window;
`ScanAfterNews` is the other side, that any news makes the validator stale.  A mark is set
by a job of the same queue, so no page read before it is in hand when it is set
(`OneJob`, and `Marker` for the answers of the several deletions), and what is in hand is
newer than every mark (`NewsIsNewer`, `ReadIsNewer`).

The assumptions are `AgentAssumption`, `SyncAssumption` (the edits that may be submitted
are edits the store knows, `EditKinds`) and `WatchAssumption` (versions 1 and 2 are those
the inboxes start with, so there are two).

Model-checked only: the liveness properties (`AnalysisEnds`, `ApplyEnds`,
`AttemptsEnd`, `JobsLeaveTheQueue`, `RefreshEnds`, `InboxConverges`), which are out of
the prover's reach, as are the four violations.  Every invariant and every other
action property that a passing run checks is a theorem.

## Not modelled, and the plan

Not modelled because they keep no protocol state: sign-in, the user interface (a third
of the source), observability, prompts and parsing of model output, the agent's tools
(input validation), the release and diagnostics scripts.  Radar and recommendations
replace a snapshot as a whole in one job that looks at the account before it writes.

Not modelled inside modelled components: pruning, damaged records and artifacts of
conversations, the checkpoints of read-only turns, tombstone limits of the turn
registry; the contents of the Watch scope, subject details, read marks and the status
projection; row-level `upsert`, recategorisation and backfill of stars; the loop's
budgets and the suspended turn of the harness.
