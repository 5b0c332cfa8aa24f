-------------------------- MODULE OrganizeScheduler --------------------------
(***************************************************************************)
(* The executions that drive an OrganizeLedger inside one extension worker  *)
(* (background/organize-analysis-runner.ts and the durable callbacks of     *)
(* organize-job-host.ts), and what restarts them: the recovery alarm, the   *)
(* restore of a durable job, the user's Continue, and the worker's death.   *)
(*                                                                          *)
(* An execution is a JavaScript async function: it runs atomically from one *)
(* await to the next, and re-checks after each await that it is still the   *)
(* current execution of its run.  A store call it has issued is committed   *)
(* whether or not it is still current by then.  Revocation, the restore and *)
(* other executions interleave at every await.                              *)
(***************************************************************************)
EXTENDS OrganizeLedger

CONSTANT MaxFaults   \* bound on crashes, expiries, conflicts and errors

ASSUME SchedulerConstants == MaxFaults \in Nat

VARIABLES
  exec,      \* per slot: an execution's local variables, or Off
  current,   \* slots whose token executionTokens still holds for their run
  settled,   \* settledRunIds, by generation
  memory,    \* in-memory analysis state of the job's run, by generation
  flight,    \* restoreDurableOrganizeJob in progress
  alarm,     \* the recovery alarm's handler
  user,      \* continueBgsmOrganizeJob in progress
  late,      \* the wall deadline of the current generation has passed
  sent,      \* provider requests sent in the current generation
  faults,    \* environment events so far
  discarded  \* a restore judged the stored checkpoint invalid

schedVars == <<exec, current, settled, memory, flight, alarm, user, late, sent,
               faults, discarded>>
vars == <<ledgerVars, schedVars>>

Generations == 1..MaxGeneration

(* Awaits on a store call that presents the run's identity and usage. *)
CallPoints == {"reserve", "attempt", "checkpoint", "split"}
Points == CallPoints \cup
  {"off", "setup", "bind", "plan", "page", "answer", "release", "exhaust", "advance", "spawn"}

NoPage == 0

Off == [pc |-> "off", generation |-> 1, start |-> 0, next |-> 0, ranges |-> <<>>,
        usage |-> NoUsage, page |-> NoPage, failed |-> {}, attempt |-> 0,
        timer |-> "unset", status |-> "analyzing", then |-> "off"]

Local == [pc : Points, generation : Generations, start : 0..ItemCount,
          next : 0..ItemCount, ranges : Seq(RangeRecord), usage : Usage,
          page : 0..ItemCount,              \* pendingBatchEndFrozenIndex
          failed : SUBSET Rows,             \* outcomes of the page being checkpointed
          attempt : 0..2,
          timer : {"unset", "armed", "fired"},   \* this execution's wall deadline
          status : {"analyzing", "analysis_blocked", "budget_exhausted"},
          then : {"off", "exhaust"}]        \* where to go after the release

MemoryState == {"none", "analyzing", "analysis_blocked", "budget_exhausted"}
FlightPoint == {"none", "release", "readJob", "readItems", "schedule"}
UserPoint   == {"none", "opening", "retried", "advance", "spawn"}

NoFlight == [pc |-> "none", seed |-> Off, status |-> "analyzing"]
NoUser   == [pc |-> "none", generation |-> 1, next |-> 0, ranges |-> <<>>]

Running(g) == \E x \in current : exec[x].generation = g

(* A slot whose execution has ended and whose lease is gone. *)
Idle(x) == exec[x].pc = "off" /\ x \notin current /\ Claimed(x) = {}

Goto(x, p)  == exec' = [exec EXCEPT ![x].pc = p]
Become(x, l) == exec' = [exec EXCEPT ![x] = l]

(* The execution's promise settles: its run may not be scheduled again      *)
(* until a restore seeds it.  A revoked execution leaves nothing behind.    *)
End(x) ==
  /\ Become(x, Off)
  /\ current' = current \ {x}
  /\ settled' = IF x \in current THEN settled \cup {exec[x].generation} ELSE settled

Fault == faults < MaxFaults /\ faults' = faults + 1

-----------------------------------------------------------------------------
SchedInit ==
  /\ LedgerInit
  /\ exec = [x \in Tokens |-> Off]
  /\ current = {} /\ settled = {}
  /\ memory = [g \in Generations |-> "none"]
  /\ flight = NoFlight
  /\ alarm = "idle"
  /\ user = NoUser
  /\ late = FALSE /\ sent = 0 /\ faults = 0 /\ discarded = FALSE

(* scheduleRun: at most one execution per run, and none for a settled run. *)
CanSchedule(g) == g \notin settled /\ ~Running(g)

Schedule(l) ==
  IF CanSchedule(l.generation)
  THEN \E x \in Tokens :
         /\ Idle(x)
         /\ exec' = [exec EXCEPT ![x] = [l EXCEPT !.pc = "setup"]]
         /\ current' = current \cup {x}
  ELSE UNCHANGED <<exec, current>>

-----------------------------------------------------------------------------
(* Execution x.  createAnalyzer returned and the job's provider binding was *)
(* read: bind it, accept it, or fail on a different provider.  A provider   *)
(* setup failure of a job that never analysed anything cancels the job.     *)
Setup(x) ==
  LET l == exec[x]
      known == job.generation = l.generation IN
  /\ l.pc = "setup" /\ x \in current
  /\ \/ known /\ job.binding = NoProvider /\ Goto(x, "bind")
     \/ (~known \/ job.binding # NoProvider) /\ Goto(x, "plan")
  /\ UNCHANGED <<ledgerVars, current, settled, memory, flight, alarm, user, late,
                 sent, faults, discarded>>

(* Mutant: a job that analyses is taken for one that has just begun. *)
FreshWhileAnalyzing(l) == job.generation = l.generation /\ job.status = "analyzing"

(* providerSetupFailed, when the configured AI service is gone or is not    *)
(* the one the job is bound to.  Its read and its cancellation are two       *)
(* transactions, the second issued as soon as the first has answered: one    *)
(* step here, for no page is asked for and settled in between.               *)
FreshJob(l) ==
  /\ job.generation = l.generation /\ job.status = "analyzing"
  /\ job.next = 0 /\ job.usage.consumed = 0

SetupFails(x) ==
  /\ \/ exec[x].pc = "setup" /\ x \in current /\ Fault
     \/ exec[x].pc = "bind" /\ ~ CanBind(exec[x].generation) /\ UNCHANGED faults
  /\ IF x \in current /\ FreshJob(exec[x]) THEN CancelJob ELSE UNCHANGED ledgerVars
  /\ End(x)
  /\ UNCHANGED <<memory, flight, alarm, user, late, sent, discarded>>

Bind(x) ==
  /\ exec[x].pc = "bind"
  /\ \E p \in Providers : BindProvider(p, exec[x].generation)
  /\ IF x \in current THEN Goto(x, "plan") /\ UNCHANGED <<current, settled>>
                      ELSE End(x)
  /\ UNCHANGED <<memory, flight, alarm, user, late, sent, faults, discarded>>

(* Mutant: the number of batches is not limited. *)
ExhaustedIgnoringBatches(u) ==
  u.attempts >= MaxAttempts \/ u.consumed >= MaxPositions \/ (late /\ u.attempts > 0)

(* planNextBatch, from the execution's own copy of the analysis state. *)
Exhausted(u) ==
  \/ u.batches >= MaxBatches
  \/ u.attempts >= MaxAttempts
  \/ u.consumed >= MaxPositions
  \/ late /\ u.attempts > 0

Least(a, b) == IF a < b THEN a ELSE b

(* Mutant: the window ignores the worklist. *)
WindowIgnoringRanges(l) ==
  Least(PageMax, Least(MaxPositions - l.usage.consumed, ItemCount - l.next))

Window(l) ==
  Least(IF l.ranges # <<>> THEN Size(l.ranges[1]) ELSE PageMax,
        Least(MaxPositions - l.usage.consumed, ItemCount - l.next))

Plan(x) ==
  LET l == exec[x] IN
  /\ l.pc = "plan" /\ x \in current
  /\ l.status = "analyzing" /\ l.next < ItemCount /\ l.timer # "fired"
  /\ IF Exhausted(l.usage)
     THEN Become(x, [l EXCEPT !.pc = "exhaust", !.status = "budget_exhausted"])
     ELSE Become(x, [l EXCEPT !.pc = "reserve", !.page = l.next + Window(l),
                              !.usage.batches = @ + 1])
  /\ UNCHANGED <<ledgerVars, current, settled, memory, flight, alarm, user, late,
                 sent, faults, discarded>>

(* Nothing left to schedule: a blocked analysis waits for the user; a       *)
(* covered scope is a review, or completes when nothing is actionable.      *)
Finish(x) ==
  LET l == exec[x] IN
  /\ l.pc = "plan" /\ x \in current
  /\ l.status = "analysis_blocked" \/ l.next = ItemCount
  /\ l.timer # "fired"
  /\ \/ UNCHANGED ledgerVars
     \/ l.status = "analyzing" /\ job.generation = l.generation /\ CompleteWithoutApply
  /\ End(x)
  /\ memory' = [memory EXCEPT ![l.generation] =
                  IF l.status = "analysis_blocked" THEN "analysis_blocked" ELSE @]
  /\ UNCHANGED <<flight, alarm, user, late, sent, faults, discarded>>

(* The deadline timer fired while a page was being stored: the loop ends    *)
(* without exhausting the budget.                                           *)
LoopAborted(x) ==
  /\ exec[x].pc = "plan" /\ x \in current /\ exec[x].timer = "fired"
  /\ End(x)
  /\ UNCHANGED <<ledgerVars, memory, flight, alarm, user, late, sent, faults, discarded>>

(* The catch block: when the wall deadline fired the page is released and   *)
(* the budget exhausted, otherwise the run fails; both release the page.    *)
(* A revoked execution returns at once.                                     *)
Throw(x) ==
  IF x \in current
  THEN /\ Become(x, [exec[x] EXCEPT !.pc = "release",
                                    !.then = IF exec[x].timer = "fired" THEN "exhaust"
                                            ELSE "off"])
       /\ UNCHANGED <<current, settled>>
  ELSE End(x)

(* What an execution does after the await of a committed call. *)
Resume(x, l) ==
  IF x \in current THEN Become(x, l) /\ UNCHANGED <<current, settled>> ELSE End(x)

PreviousBatch(u) == [u EXCEPT !.batches = @ - 1]

Reserve(x) ==
  LET l == exec[x] IN
  /\ l.pc = "reserve"
  /\ ReservePage(x, l.generation, PreviousBatch(l.usage), l.next, l.page)
  /\ Resume(x, [l EXCEPT !.pc = "page", !.attempt = 0])
  /\ UNCHANGED <<memory, flight, alarm, user, late, sent, faults, discarded>>

(* Another lease covers the page: the execution ends without a word. *)
ReserveNull(x) ==
  LET l == exec[x] IN
  /\ l.pc = "reserve"
  /\ ReserveRefused(x, l.generation, PreviousBatch(l.usage), l.next, l.page)
  /\ End(x)
  /\ UNCHANGED <<memory, flight, alarm, user, late, sent, faults, discarded>>

(* Every repository of the page is gone: no provider is needed. *)
LocalOnly(x) ==
  LET l == exec[x] IN
  /\ l.pc = "page" /\ x \in current /\ l.attempt = 0 /\ l.timer # "fired"
  /\ Become(x, [l EXCEPT !.pc = "checkpoint", !.failed = {}])
  /\ UNCHANGED <<ledgerVars, current, settled, memory, flight, alarm, user, late,
                 sent, faults, discarded>>

(* reserveRunProviderAttempt: the batch limits no longer count, the attempt *)
(* limit and the deadline do.                                               *)
PrepareAttempt(x) ==
  LET l == exec[x]
      spent == l.usage.attempts >= MaxAttempts \/ (late /\ l.usage.attempts > 0) IN
  /\ l.pc = "page" /\ x \in current /\ l.timer # "fired"
  /\ IF spent
     THEN Become(x, [l EXCEPT !.pc = "release", !.then = "exhaust",
                              !.status = "budget_exhausted"])
     ELSE Become(x, [l EXCEPT !.pc = "attempt"])
  /\ UNCHANGED <<ledgerVars, current, settled, memory, flight, alarm, user, late,
                 sent, faults, discarded>>

(* Mutant: the second request for a page is not charged. *)
AttemptRetriedFree(x) ==
  LET l == exec[x]
      charged == IF l.attempt = 0 THEN 1 ELSE 0 IN
  /\ l.pc = "attempt"
  /\ IF l.attempt = 0 THEN ReserveAttempt(x, l.generation, l.usage)
                      ELSE CanAttempt(x, l.generation, l.usage) /\ UNCHANGED ledgerVars
  /\ Resume(x, [l EXCEPT !.pc = "answer", !.usage.attempts = @ + charged, !.attempt = @ + 1,
                         !.timer = IF @ = "unset" THEN "armed" ELSE @])
  /\ sent' = IF x \in current THEN sent + 1 ELSE sent
  /\ UNCHANGED <<memory, flight, alarm, user, late, faults, discarded>>

(* The request leaves once its charge is durable; a revoked execution's     *)
(* request is aborted before it leaves.                                     *)
Attempt(x) ==
  LET l == exec[x] IN
  /\ l.pc = "attempt"
  /\ ReserveAttempt(x, l.generation, l.usage)
  /\ Resume(x, [l EXCEPT !.pc = "answer", !.usage.attempts = @ + 1, !.attempt = @ + 1,
                         !.timer = IF @ = "unset" THEN "armed" ELSE @])
  /\ sent' = IF x \in current THEN sent + 1 ELSE sent
  /\ UNCHANGED <<memory, flight, alarm, user, late, faults, discarded>>

(* The provider answers, is retried once, or fails for good: a page of      *)
(* several repositories may be split, a page may be degraded to             *)
(* insufficient evidence, or its live rows fail.                            *)
Answer(x) ==
  LET l == exec[x] IN
  /\ l.pc = "answer" /\ x \in current /\ l.timer # "fired"
  /\ \/ Become(x, [l EXCEPT !.pc = "checkpoint", !.failed = {}])
     \/ l.attempt < 2 /\ Goto(x, "page")
     \/ l.page - l.next > 1 /\ Become(x, [l EXCEPT !.pc = "split"])
     \/ \E f \in SUBSET Page(l.next, l.page) \ {{}} :
          Become(x, [l EXCEPT !.pc = "checkpoint", !.failed = f])
  /\ UNCHANGED <<ledgerVars, current, settled, memory, flight, alarm, user, late,
                 sent, faults, discarded>>

(* The deadline timer aborts the page being loaded or the request in        *)
(* flight.  The analysis state is still `analyzing' when it reaches         *)
(* exhaustAndMaybeContinue.                                                 *)
PageAborted(x) ==
  /\ exec[x].pc \in {"page", "answer"} /\ x \in current /\ exec[x].timer = "fired"
  /\ Become(x, [exec[x] EXCEPT !.pc = "release", !.then = "exhaust"])
  /\ UNCHANGED <<ledgerVars, current, settled, memory, flight, alarm, user, late,
                 sent, faults, discarded>>

Split(x) ==
  LET l == exec[x] IN
  /\ l.pc = "split"
  /\ SplitPage(x, l.generation, l.page)
  /\ Resume(x, [l EXCEPT !.pc = "plan", !.page = NoPage,
                         !.ranges = SplitHead(l.ranges, l.next, l.page)])
  /\ UNCHANGED <<memory, flight, alarm, user, late, sent, faults, discarded>>

AfterPage(l) == IF l.failed # {} THEN <<>> ELSE Rest(l.ranges)

Checkpoint(x) ==
  LET l == exec[x]
      used == Consumed(l.usage, l.page - l.next) IN
  /\ l.pc = "checkpoint"
  /\ CheckpointPage(x, l.generation, l.page, l.failed, AfterPage(l), used)
  /\ Resume(x, [l EXCEPT !.pc = "plan", !.next = l.page, !.page = NoPage,
                         !.ranges = AfterPage(l), !.usage = used, !.failed = {},
                         !.status = IF l.failed # {} THEN "analysis_blocked" ELSE @])
  /\ UNCHANGED <<memory, flight, alarm, user, late, sent, faults, discarded>>

(* A call the store rejects for what it presents, or that throws because     *)
(* the run is gone.                                                          *)
Rejected(x) ==
  LET l == exec[x] IN
  CASE l.pc = "reserve" ->
         ~ CanReserve(x, l.generation, PreviousBatch(l.usage), l.next, l.page)
         /\ ~ CanRefuse(x, l.generation, PreviousBatch(l.usage), l.next, l.page)
    [] l.pc = "attempt" -> ~ CanAttempt(x, l.generation, l.usage)
    [] l.pc = "checkpoint" ->
         ~ CanCheckpoint(x, l.generation, l.page, l.failed, AfterPage(l))
    [] l.pc = "split" -> ~ CanSplit(x, l.generation, l.page)

(* mutateCurrentOrganizeRun gives up after three stale revisions; storage    *)
(* errors end the same way.                                                  *)
CallFails(x) ==
  /\ exec[x].pc \in CallPoints
  /\ \/ Rejected(x) /\ UNCHANGED faults
     \/ Fault
  /\ Throw(x)
  /\ UNCHANGED <<ledgerVars, memory, flight, alarm, user, late, sent, discarded>>

TimerFires(x) ==
  /\ exec[x].timer = "armed" /\ late
  /\ exec' = [exec EXCEPT ![x].timer = "fired"]
  /\ UNCHANGED <<ledgerVars, current, settled, memory, flight, alarm, user, late, sent,
                 faults, discarded>>

(* Loading the page, or anything else on the way, throws. *)
Error(x) ==
  /\ exec[x].pc = "page" /\ x \in current
  /\ Fault /\ Throw(x)
  /\ UNCHANGED <<ledgerVars, memory, flight, alarm, user, late, sent, discarded>>

Release(x) ==
  LET l == exec[x] IN
  /\ l.pc = "release" /\ x \in current
  /\ IF CanRelease(x) THEN ReleasePage(x) ELSE UNCHANGED ledgerVars
  /\ IF l.then = "exhaust" THEN Goto(x, "exhaust") /\ UNCHANGED <<current, settled>>
                           ELSE End(x)
  /\ UNCHANGED <<memory, flight, alarm, user, late, sent, faults, discarded>>

(* exhaustAndMaybeContinue: a generation that moved the cursor continues as *)
(* its child, provided its state says the budget is exhausted:              *)
(* resumeOrganizeJobRunAnalysisState refuses any other.                     *)
Exhaust(x) ==
  LET l == exec[x] IN
  /\ l.pc = "exhaust" /\ x \in current
  /\ memory' = [memory EXCEPT ![l.generation] = l.status]
  /\ IF l.next > l.start /\ l.status = "budget_exhausted"
     THEN Goto(x, "advance") /\ UNCHANGED <<current, settled>>
     ELSE End(x)
  /\ UNCHANGED <<ledgerVars, flight, alarm, user, late, sent, faults, discarded>>

(* A new generation starts with an empty budget and an unstarted clock. *)
NewGeneration == late' = FALSE /\ sent' = 0

Advance(x) ==
  LET l == exec[x] IN
  /\ l.pc = "advance"
  /\ \/ /\ AdvanceRun(l.generation, l.next, l.ranges)
        /\ NewGeneration
        /\ Resume(x, [l EXCEPT !.pc = "spawn"])
     \/ /\ ~ CanAdvance(l.generation, l.next, l.ranges) \/ l.generation = MaxGeneration
        /\ End(x)
        /\ UNCHANGED <<ledgerVars, late, sent>>
  /\ UNCHANGED <<memory, flight, alarm, user, faults, discarded>>

Child(g, s, rs) == [Off EXCEPT !.generation = g + 1, !.start = s, !.next = s, !.ranges = rs]

(* The parent schedules its child and its own promise settles; the child     *)
(* takes over the slot, whose page was released before.                      *)
Spawn(x) ==
  LET l == exec[x]
      child == Child(l.generation, l.next, l.ranges) IN
  /\ l.pc = "spawn" /\ x \in current
  /\ memory' = [memory EXCEPT ![child.generation] = "analyzing"]
  /\ settled' = settled \cup {l.generation}
  /\ IF CanSchedule(child.generation)
     THEN Become(x, [child EXCEPT !.pc = "setup"]) /\ UNCHANGED current
     ELSE Become(x, Off) /\ current' = current \ {x}
  /\ UNCHANGED <<ledgerVars, flight, alarm, user, late, sent, faults, discarded>>

-----------------------------------------------------------------------------
(* restoreDurableOrganizeJob.  It first revokes the run's execution, then   *)
(* releases every lease, reads the job and its rows in two transactions,    *)
(* and schedules an execution from what it read.                            *)
Restorable == job.status \in {"analyzing", "analysis_blocked"}

(* A revoked execution does nothing more than the store call it has issued. *)
RevokeRun(g) ==
  /\ exec' = [x \in Tokens |->
                IF exec[x].generation = g /\ exec[x].pc \notin CallPoints \cup {"bind", "advance"}
                THEN Off ELSE exec[x]]
  /\ current' = {x \in current : exec[x].generation # g}
  /\ settled' = settled \ {g}
  /\ memory' = [memory EXCEPT ![g] = "none"]

BeginRestore ==
  /\ flight.pc = "none" /\ Restorable
  /\ RevokeRun(job.generation)
  /\ flight' = [NoFlight EXCEPT !.pc = "release"]

RestoreRelease ==
  /\ flight.pc = "release"
  /\ IF RowsIn("leased") # {} /\ job.status \in {"analyzing", "analysis_blocked"}
     THEN ReleaseJobLeases ELSE UNCHANGED ledgerVars
  /\ flight' = [flight EXCEPT !.pc = "readJob"]
  /\ UNCHANGED <<exec, current, settled, memory, alarm, user, late, sent, faults, discarded>>

(* Mutant: the durable status is taken over as it is. *)
RestoredStatusCopied == job.status

(* buildRestoredOrganizeAnalysisState *)
RestoredStatus ==
  CASE job.status \in {"review", "completed"} -> "review"
    [] job.status = "analysis_blocked"        -> "analysis_blocked"
    [] OTHER                                  -> "analyzing"

RestoreReadJob ==
  /\ flight.pc = "readJob"
  /\ flight' = [pc |-> "readItems", status |-> RestoredStatus,
                seed |-> [Off EXCEPT !.generation = job.generation, !.next = job.next,
                                     !.ranges = job.ranges, !.usage = job.usage]]
  /\ UNCHANGED <<ledgerVars, exec, current, settled, memory, alarm, user, late, sent,
                 faults, discarded>>

(* validateAnalysisUniverses and restoreOrganizeJobRunAnalysisState: the    *)
(* rows with an outcome are the prefix up to the cursor read before.        *)
RowsMatch(f) ==
  /\ \A i \in Rows : row[i] \in {"settled", "failed"} <=> i < f.seed.next
  /\ f.status = "analysis_blocked" => RowsIn("failed") # {}
  /\ f.status = "review" => Complete(row)

RestoreReadItems ==
  /\ flight.pc = "readItems" /\ RowsMatch(flight)
  /\ flight' = [flight EXCEPT !.pc = "schedule"]
  /\ UNCHANGED <<ledgerVars, exec, current, settled, memory, alarm, user, late, sent,
                 faults, discarded>>

(* An inconsistent checkpoint is classified as a broken invariant: the job  *)
(* is cancelled and dismissed.  Only a job that was analysing or blocked is, *)
(* but that was asked of the job found before the flight: one that has come *)
(* to its review meanwhile goes too.  The executions that the host revokes   *)
(* once more are left: they no longer find their job.                       *)
RestoreDiscards ==
  /\ flight.pc = "readItems" /\ ~ RowsMatch(flight)
  /\ IF job.status \in {"completed", "cancelled"} THEN UNCHANGED <<ledgerVars, discarded>>
                                                  ELSE CancelJob /\ discarded' = TRUE
  /\ flight' = NoFlight
  /\ UNCHANGED <<exec, current, settled, memory, alarm, user, late, sent, faults>>

(* IndexedDB runs transactions on the same stores in the order they were     *)
(* issued.  Calls commit in any order here, with one exception: a restore    *)
(* revokes the run in memory first, so it began after a user's advance that  *)
(* is outstanding, and its transactions do not overtake that one.            *)
RestoreSchedule ==
  LET g == flight.seed.generation IN
  /\ flight.pc = "schedule" /\ user.pc # "advance"
  /\ flight' = NoFlight
  /\ memory' = [memory EXCEPT ![g] = IF flight.status = "review" THEN @ ELSE flight.status]
  /\ settled' = settled \ {g}
  /\ IF flight.status = "analyzing" /\ ~ Running(g)
     THEN \E x \in Tokens :
            /\ Idle(x)
            /\ exec' = [exec EXCEPT ![x] = [flight.seed EXCEPT !.pc = "setup"]]
            /\ current' = current \cup {x}
     ELSE UNCHANGED <<exec, current>>
  /\ UNCHANGED <<ledgerVars, alarm, user, late, sent, faults, discarded>>

(* Mutant: the alarm only looks for leases that have expired. *)
AlarmFiresOnExpiry ==
  /\ alarm = "idle" /\ job.status = "analyzing" /\ ~ Running(job.generation)
  /\ LeasedExpired # {} /\ RecoverExpiredLeases
  /\ alarm' = "checked"
  /\ UNCHANGED <<exec, current, settled, memory, flight, user, late, sent, faults, discarded>>

(* The recovery alarm: recoverOnce finds the job analysing and not running, *)
(* recovers expired leases, and pumps.  The pump forces a restore, or joins  *)
(* the one in progress, and lasts as long as the execution it starts; an     *)
(* alarm that rings meanwhile joins it, and its end re-arms the alarm.  The  *)
(* step also stands for the same recovery when a worker is started.          *)
AlarmFires ==
  /\ alarm = "idle" /\ job.status = "analyzing" /\ ~ Running(job.generation)
  /\ alarm' = "checked"
  /\ IF LeasedExpired # {} THEN RecoverExpiredLeases ELSE UNCHANGED ledgerVars
  /\ UNCHANGED <<exec, current, settled, memory, flight, user, late, sent, faults, discarded>>

AlarmPumps ==
  /\ alarm = "checked"
  /\ IF job.status = "analyzing"
     THEN /\ alarm' = "pumping"
          /\ IF flight.pc = "none" THEN BeginRestore
                                  ELSE UNCHANGED <<exec, current, settled, memory, flight>>
     ELSE alarm' = "idle" /\ UNCHANGED <<exec, current, settled, memory, flight>>
  /\ UNCHANGED <<ledgerVars, user, late, sent, faults, discarded>>

AlarmReturns ==
  /\ alarm = "pumping" /\ flight.pc = "none" /\ ~ Running(job.generation)
  /\ alarm' = "idle"
  /\ UNCHANGED <<ledgerVars, exec, current, settled, memory, flight, user, late, sent,
                 faults, discarded>>

(* A page asks for the active job: restored unless it is in memory, or its  *)
(* memory says blocked while the durable job is analysing.  The page's       *)
(* messages are handled one after another.                                   *)
UserOpens ==
  /\ user.pc = "none"
  /\ \/ memory[job.generation] = "none"
     \/ job.status = "analyzing" /\ memory[job.generation] = "analysis_blocked"
  /\ BeginRestore
  /\ user' = [user EXCEPT !.pc = "opening"]
  /\ UNCHANGED <<ledgerVars, alarm, late, sent, faults, discarded>>

UserOpened ==
  /\ user.pc = "opening" /\ flight.pc = "none"
  /\ user' = NoUser
  /\ UNCHANGED <<ledgerVars, exec, current, settled, memory, flight, alarm, late, sent,
                 faults, discarded>>

(* continueBgsmOrganizeJob on a blocked or a budget-exhausted run.  A        *)
(* blocked job is retried first; the run must still be blocked in memory     *)
(* when the retry returns, or the continuation is refused.                   *)
UserRetries ==
  /\ user.pc = "none" /\ memory[job.generation] = "analysis_blocked"
  /\ RetryFromFirstFailure
  /\ user' = [pc |-> "retried", generation |-> job.generation,
              next |-> job'.next, ranges |-> <<>>]
  /\ UNCHANGED <<exec, current, settled, memory, flight, alarm, late, sent, faults, discarded>>

(* Mutant: the continuation does not look at the run again. *)
UserResumesBlindly ==
  /\ user.pc = "retried"
  /\ user' = [user EXCEPT !.pc = "advance"]
  /\ UNCHANGED <<ledgerVars, exec, current, settled, memory, flight, alarm, late, sent,
                 faults, discarded>>

UserResumes ==
  /\ user.pc = "retried"
  /\ user' = IF memory[user.generation] = "analysis_blocked"
             THEN [user EXCEPT !.pc = "advance"] ELSE NoUser
  /\ UNCHANGED <<ledgerVars, exec, current, settled, memory, flight, alarm, late, sent,
                 faults, discarded>>

UserContinues ==
  /\ user.pc = "none" /\ memory[job.generation] = "budget_exhausted"
  /\ job.status = "analyzing"
  /\ user' = [pc |-> "advance", generation |-> job.generation,
              next |-> job.next, ranges |-> job.ranges]
  /\ UNCHANGED <<ledgerVars, exec, current, settled, memory, flight, alarm, late, sent,
                 faults, discarded>>

UserAdvances ==
  /\ user.pc = "advance"
  /\ \/ /\ AdvanceRun(user.generation, user.next, user.ranges)
        /\ NewGeneration
        /\ user' = [user EXCEPT !.pc = "spawn"]
     \/ /\ \/ ~ CanAdvance(user.generation, user.next, user.ranges)
           \/ user.generation = MaxGeneration
        /\ user' = NoUser
        /\ UNCHANGED <<ledgerVars, late, sent>>
  /\ UNCHANGED <<exec, current, settled, memory, flight, alarm, faults, discarded>>

UserSchedules ==
  /\ user.pc = "spawn"
  /\ user' = NoUser
  /\ memory' = [memory EXCEPT ![user.generation + 1] = "analyzing"]
  /\ Schedule(Child(user.generation, user.next, user.ranges))
  /\ UNCHANGED <<ledgerVars, settled, flight, alarm, late, sent, faults, discarded>>

UserStops ==
  /\ user.pc = "none" /\ CancelJob
  /\ UNCHANGED schedVars

-----------------------------------------------------------------------------
(* The environment. *)
Crash ==
  /\ Fault
  /\ exec' = [x \in Tokens |-> Off]
  /\ current' = {} /\ settled' = {}
  /\ memory' = [g \in Generations |-> "none"]
  /\ flight' = NoFlight /\ alarm' = "idle" /\ user' = NoUser
  /\ UNCHANGED <<ledgerVars, late, sent, discarded>>

(* A lease is renewed for 360 s when a request is charged, and the wall      *)
(* deadline aborts the request within 300 s: no lease expires under a        *)
(* request its execution still waits for.                                    *)
Expiry(x) ==
  /\ ~ (x \in current /\ exec[x].pc = "answer")
  /\ Fault /\ LeaseExpires(x)
  /\ UNCHANGED <<exec, current, settled, memory, flight, alarm, user, late, sent, discarded>>

DeadlinePasses ==
  /\ Fault /\ ~ late /\ job.usage.attempts > 0
  /\ late' = TRUE
  /\ UNCHANGED <<ledgerVars, exec, current, settled, memory, flight, alarm, user, sent, discarded>>

-----------------------------------------------------------------------------
ExecutionStep(x) ==
  \/ Setup(x) \/ SetupFails(x) \/ Bind(x) \/ Plan(x) \/ Finish(x) \/ LoopAborted(x)
  \/ Reserve(x) \/ ReserveNull(x) \/ LocalOnly(x)
  \/ PrepareAttempt(x) \/ Attempt(x) \/ Answer(x) \/ PageAborted(x)
  \/ Split(x) \/ Checkpoint(x) \/ CallFails(x) \/ Error(x) \/ TimerFires(x)
  \/ Release(x) \/ Exhaust(x) \/ Advance(x) \/ Spawn(x)

RestoreStep ==
  RestoreRelease \/ RestoreReadJob \/ RestoreReadItems \/ RestoreDiscards \/ RestoreSchedule

AlarmStep == AlarmFires \/ AlarmPumps \/ AlarmReturns

UserStep ==
  \/ UserOpens \/ UserOpened \/ UserRetries \/ UserResumes \/ UserContinues
  \/ UserAdvances \/ UserSchedules \/ UserStops

EnvironmentStep == Crash \/ DeadlinePasses \/ \E x \in Tokens : Expiry(x)

Next ==
  \/ \E x \in Tokens : ExecutionStep(x)
  \/ RestoreStep \/ AlarmStep \/ UserStep \/ EnvironmentStep

Spec == SchedInit /\ [][Next]_vars

-----------------------------------------------------------------------------
(* Executions, restores, commands and the alarm keep their types.          *)
SchedTypeOK ==
  /\ LedgerTypeOK
  /\ exec \in [Tokens -> Local]
  /\ current \subseteq Tokens
  /\ settled \subseteq Generations
  /\ memory \in [Generations -> MemoryState]
  /\ flight.pc \in FlightPoint /\ flight.seed \in Local
  /\ alarm \in {"idle", "checked", "pumping"}
  /\ user.pc \in UserPoint /\ user.generation \in Generations
  /\ late \in BOOLEAN /\ sent \in Nat /\ faults \in 0..MaxFaults
  /\ discarded \in BOOLEAN

(* The user is not charged twice for the same repositories: however many     *)
(* executions, alarms and pages are alive, one of them at most waits for an  *)
(* answer of the AI service.                                                 *)
OnePaidRequest == Cardinality({x \in current : exec[x].pc = "answer"}) <= 1

(* A request leaves only for the page its execution has leased, at the       *)
(* cursor and with the budget of the durable job, even if the execution was  *)
(* seeded from a checkpoint that has been overtaken.                         *)
RequestsCoverTheLease ==
  [][\A x \in current : exec[x].pc = "attempt" /\ exec'[x].pc = "answer" =>
       /\ Claimed(x) = Page(exec[x].next, exec[x].page)
       /\ exec[x].next = job.next
       /\ exec'[x].usage = job'.usage]_vars

(* Every request sent to the AI service is charged to the generation's       *)
(* durable budget, so a worker that dies cannot hide what it spent, and the  *)
(* budget bounds what is really sent.                                        *)
RequestsAreCharged == sent <= job.usage.attempts /\ job.usage.attempts <= MaxAttempts

(* The page planned is the head of the worklist, whole: the position budget  *)
(* never cuts a half in two, which the store would refuse.                   *)
PlannedPageIsTheHead ==
  \A x \in Tokens : exec[x].pc = "reserve" =>
    IsHead(exec[x].ranges, exec[x].next, exec[x].page)

(* Restoring a job never takes a healthy checkpoint for a corrupt one.  The *)
(* ledger invariants make every stored state a valid checkpoint, so a       *)
(* restore that cancels the job as corrupt has read a state that was never  *)
(* stored.                                                                  *)
NeverDiscardsHealthy == ~ discarded

(* Analysis that was paid for is not thrown away by what the user did not     *)
(* ask for: apart from the user's stop and a checkpoint found corrupt, a job *)
(* is cancelled only while no repository has an outcome and no execution     *)
(* waits for the AI service.  So a provider that is gone when an execution   *)
(* is set up costs nothing, whatever generation and continuation came before.*)
OnlyFreshJobsAreCancelled ==
  [][job.status # "cancelled" /\ job'.status = "cancelled" =>
       \/ UserStops \/ RestoreDiscards
       \/ /\ RowsIn("settled") = {} /\ RowsIn("failed") = {}
          /\ \A x \in current : exec[x].pc # "answer"]_vars

(* A generation that moved the cursor before its budget ran out goes on as   *)
(* its child.                                                                *)
ExhaustedGenerationContinues ==
  [][\A x \in current :
       exec[x].pc = "exhaust" /\ exec[x].next > exec[x].start
         => exec'[x].pc # "off" \/ exec[x].generation \notin settled']_vars

(* The runtime runs what is ready: an async function goes on once its await  *)
(* has settled, a restore and a recovery finish, and while a job analyses    *)
(* and does not run a recovery follows: the one-shot alarm is re-armed       *)
(* whenever a run or a recovery ends, and a dead worker recovers when it is  *)
(* started again, by that alarm or by any other event.  The user owes        *)
(* nothing, and nothing has to go wrong.                                     *)
Fairness ==
  /\ \A x \in Tokens : WF_vars(ExecutionStep(x))
  /\ WF_vars(RestoreStep)
  /\ WF_vars(AlarmStep)
  /\ WF_vars(UserOpened \/ UserResumes \/ UserAdvances \/ UserSchedules)

FairSpec == Spec /\ Fairness

(* A run whose budget ran out before it moved the cursor waits for the user, *)
(* by design; the bound on generations stops the others.                     *)
OutOfBudget == Exhausted(job.usage) /\ (job.next = 0 \/ job.generation = MaxGeneration)

(* Analysis is never stranded: whatever dies, loses its lease or overtakes   *)
(* whom, an analysing job reaches a review, a failure to retry, a            *)
(* cancellation, or the end of its budget.                                   *)
AnalysisEnds == []<>(job.status # "analyzing" \/ OutOfBudget)
=============================================================================
