----------------------------- MODULE AgentTurns -----------------------------
(* The turns of one conversation with the agent: the durable session and its *)
(* attempt rows, the registry of turns in the memory of the background       *)
(* worker, the turn a worker runs, one action per await, and the pages that  *)
(* start, stop, acknowledge and inspect turns.  A worker may die at any      *)
(* point; what it held in memory goes with it.                               *)
(*                                                                           *)
(* A turn makes one write, by a tool call that waits for its turn in the job *)
(* queue; the answers, the transcripts and the other tools are left out.     *)
EXTENDS Integers, FiniteSets

CONSTANTS Attempts,    \* identifiers of turn attempts, drawn by the pages
          NoAttempt,
          MaxCrashes,  \* bound: workers that die
          MaxFaults    \* bound: writes of IndexedDB that fail

ASSUME AgentAssumption ==
  /\ NoAttempt \notin Attempts
  /\ MaxCrashes \in Nat /\ MaxFaults \in Nat

VARIABLES
  exists,    \* the session record is in IndexedDB
  revision,  \* its revision: the answers committed so far
  code,      \* its transcript holds repository code
  rows,      \* rows[a]: the durable attempt row
  launch,    \* launch[a]: what the page asked for
  epoch,     \* the worker that lives: executionEpochId
  turns,     \* turns[a]: the attempt in the registry of the worker
  seen,      \* tombstones of the registry
  completed, \* highestCompletedBaseRevision of the registry
  held,      \* the attempt a recovery has claimed and not yet restored
  runs,      \* runs[a]: the local state of the turn service
  writes,    \* history: times the write of the attempt took effect
  crashes, faults

session == <<exists, revision, code>>
registry == <<turns, seen, completed, held>>
bounds == <<crashes, faults>>
vars == <<session, rows, launch, epoch, registry, runs, writes, bounds>>

NoLaunch == [base |-> -1, source |-> NoAttempt, prompt |-> NoAttempt]
NoRow == [state |-> "none", class |-> "write", lease |-> 0, receipt |-> 0]
NoTurn == [state |-> "none", owns |-> FALSE, restored |-> FALSE, applied |-> FALSE]
NoRun == [pc |-> "idle", loaded |-> 0, class |-> "write", abort |-> FALSE,
          effect |-> "none", reason |-> "none", throws |-> FALSE]

RowStates == {"none", "running", "retryable", "committed", "terminal", "uncertain"}
TurnStates == {"none", "active", "terminal", "acked"}
Points == {"idle", "load", "admit", "prepare", "episodes", "commit", "settle", "fence"}
Effects == {"none", "authorized", "started", "written", "committed", "failed", "unknown"}
Reasons == {"none", "final_answer", "failed", "aborted"}

Active(a) == rows[a].state \in {"running", "uncertain"}
Retryable(a) == rows[a].state = "retryable"

(* The registry holds one attempt of a conversation at a time.               *)
Registered == {a \in Attempts : turns[a].state # "none"}

AgentInit ==
  /\ exists = TRUE /\ revision = 0 /\ code = FALSE
  /\ rows = [a \in Attempts |-> NoRow]
  /\ launch = [a \in Attempts |-> NoLaunch]
  /\ epoch = 1
  /\ turns = [a \in Attempts |-> NoTurn]
  /\ seen = {} /\ completed = -1 /\ held = NoAttempt
  /\ runs = [a \in Attempts |-> NoRun]
  /\ writes = [a \in Attempts |-> 0]
  /\ crashes = 0 /\ faults = 0

-----------------------------------------------------------------------------
(* A page starts a turn, or sends the same start again after it lost its     *)
(* connection.  The revision it saw may be stale; a retry names its source.  *)
Launches(a) ==
  IF launch[a] # NoLaunch THEN {launch[a]}
  ELSE [base : 0..revision, source : {NoAttempt}, prompt : {a}] \cup
       UNION {[base : 0..revision, source : {s}, prompt : {launch[s].prompt}] :
              s \in {b \in Attempts : rows[b].state # "none"}}

Admitted(a, l) ==
  held = NoAttempt /\ a \notin seen /\ l.base > completed /\ Registered = {}

Begin(a, restored) ==
  /\ turns' = [turns EXCEPT ![a] =
       [NoTurn EXCEPT !.state = "active", !.owns = restored, !.restored = restored]]
  /\ runs' = [runs EXCEPT ![a] = [NoRun EXCEPT !.pc = "load"]]

Start(a) ==
  /\ \E l \in Launches(a) : Admitted(a, l) /\ launch' = [launch EXCEPT ![a] = l]
  /\ Begin(a, FALSE)
  /\ UNCHANGED <<session, rows, epoch, seen, completed, held, writes, bounds>>

(* The stop came while the admission awaited the clean-up of an earlier one. *)
StartStopped(a) ==
  /\ seen # {}
  /\ \E l \in Launches(a) : Admitted(a, l) /\ launch' = [launch EXCEPT ![a] = l]
  /\ turns' = [turns EXCEPT ![a] = [NoTurn EXCEPT !.state = "terminal"]]
  /\ UNCHANGED <<session, rows, epoch, seen, completed, held, runs, writes, bounds>>

(* Stop, or the watchdog of the turn. *)
Stop(a) ==
  /\ runs[a].pc # "idle" /\ ~ runs[a].abort
  /\ runs' = [runs EXCEPT ![a].abort = TRUE]
  /\ UNCHANGED <<session, rows, launch, epoch, registry, writes, bounds>>

(* The page has the end of the turn: the registry remembers it.              *)
Acknowledge(a) ==
  /\ turns[a].state = "terminal"
  /\ turns' = [turns EXCEPT ![a].state = "acked"]
  /\ seen' = seen \cup {a}
  /\ completed' = IF turns[a].applied /\ launch[a].base > completed THEN launch[a].base ELSE completed
  /\ UNCHANGED <<session, rows, launch, epoch, held, runs, writes, bounds>>

(* releaseAgentSessionTurnLease answers for an attempt that held a lease.    *)
Released(a) ==
  turns[a].owns =>
    exists /\ rows[a].state # "none" /\ (rows[a].receipt > 0 \/ rows[a].lease = 0)

Finalize(a) ==
  /\ turns[a].state \in {"terminal", "acked"} /\ Released(a)
  /\ turns' = [turns EXCEPT ![a] = NoTurn]
  /\ seen' = seen \cup {a}
  /\ UNCHANGED <<session, rows, launch, epoch, completed, held, runs, writes, bounds>>

-----------------------------------------------------------------------------
(* The turn a worker runs.  Its end is reported to the registry; a restored  *)
(* turn that threw is fenced first.                                          *)
Ends(a, applied) ==
  /\ turns' = [turns EXCEPT ![a].state = "terminal", ![a].applied = applied]
  /\ runs' = [runs EXCEPT ![a] = NoRun]
  /\ UNCHANGED <<seen, completed, held>>

Throws(a) ==
  IF turns[a].restored
  THEN runs' = [runs EXCEPT ![a] = [NoRun EXCEPT !.pc = "fence"]] /\ UNCHANGED registry
  ELSE Ends(a, FALSE)

(* A row keeps no lease once it no longer runs.                              *)
Ended(row, state) == [row EXCEPT !.state = state, !.lease = 0]
Uncertain(row) == Ended(row, "uncertain")

(* The claim of this worker on a read-only attempt is taken back.            *)
Claimed(a) ==
  exists /\ rows[a].state = "running" /\ rows[a].class = "read" /\ rows[a].lease = epoch
RolledBack(a) == IF Claimed(a) THEN [rows EXCEPT ![a] = Uncertain(@)] ELSE rows

Fence(a) ==
  /\ runs[a].pc = "fence"
  /\ rows' = RolledBack(a)
  /\ Ends(a, FALSE)
  /\ UNCHANGED <<session, launch, epoch, writes, bounds>>

(* What was committed is replayed; otherwise the transcript decides whether  *)
(* the turn may write.                                                       *)
Load(a) ==
  /\ runs[a].pc = "load"
  /\ IF ~ exists THEN Throws(a)
     ELSE IF rows[a].receipt > 0 THEN Ends(a, TRUE)
     ELSE /\ runs' = [runs EXCEPT ![a].pc = "admit", ![a].loaded = revision,
                                  ![a].class = IF code THEN "read" ELSE "write"]
          /\ UNCHANGED registry
  /\ UNCHANGED <<session, rows, launch, epoch, writes, bounds>>

(* A row left by an earlier start of the same attempt: only a read-only one  *)
(* passes from worker to worker.  Mutant: any one does.                      *)
ResumableByAnyone(a) == rows[a].state = "running"

Resumable(a) ==
  rows[a].state = "running" /\ (rows[a].class = "read" \/ rows[a].lease = epoch)

(* The base revision at which the retry of a row would start.                *)
DraftBase(a) == IF rows[a].receipt > 0 THEN rows[a].receipt ELSE launch[a].base

(* A retry takes exactly the one offer there is.                             *)
SourceStands(l) ==
  l.source # NoAttempt =>
    /\ Retryable(l.source)
    /\ launch[l.source].prompt = l.prompt
    /\ DraftBase(l.source) = l.base
    /\ \A b \in Attempts : Retryable(b) => b = l.source

Admissible(a) ==
  /\ launch[a].base = revision
  /\ \A b \in Attempts : ~ Active(b)
  /\ SourceStands(launch[a])

(* Offers that are not taken are superseded.  Mutant: they stand.            *)
AdmittedKeepsOffers(a) ==
  [rows EXCEPT ![a] = [state |-> "running", class |-> runs[a].class, lease |-> epoch, receipt |-> 0]]

AdmittedRows(a) ==
  [b \in Attempts |->
     IF b = a THEN [state |-> "running", class |-> runs[a].class, lease |-> epoch, receipt |-> 0]
     ELSE IF Retryable(b) THEN Ended(rows[b], "terminal") ELSE rows[b]]

Acquires(a) ==
  /\ turns' = [turns EXCEPT ![a].owns = TRUE]
  /\ runs' = [runs EXCEPT ![a].pc = IF runs[a].loaded = launch[a].base THEN "prepare" ELSE "settle",
                          ![a].reason = "failed", ![a].throws = runs[a].loaded # launch[a].base]
  /\ UNCHANGED <<seen, completed, held>>

Admit(a) ==
  /\ runs[a].pc = "admit"
  /\ \/ exists /\ rows[a].receipt > 0 /\ Ends(a, TRUE) /\ UNCHANGED rows
     \/ /\ exists /\ rows[a].receipt = 0 /\ Resumable(a)
        /\ rows' = [rows EXCEPT ![a].lease = epoch] /\ Acquires(a)
     \/ /\ exists /\ rows[a].state = "none" /\ Admissible(a)
        /\ rows' = AdmittedRows(a) /\ Acquires(a)
     \/ /\ \/ ~ exists
           \/ rows[a].state # "none" /\ rows[a].receipt = 0 /\ ~ Resumable(a)
           \/ rows[a].state = "none" /\ ~ Admissible(a)
        /\ Throws(a) /\ UNCHANGED rows
  /\ UNCHANGED <<session, launch, epoch, writes, bounds>>

Leaves(a, reason, throws) ==
  /\ runs' = [runs EXCEPT ![a].pc = "settle", ![a].reason = reason, ![a].throws = throws]
  /\ UNCHANGED registry

(* Provider, scope and tools are prepared; a read-only turn claims its row   *)
(* once more.                                                                *)
Prepare(a) ==
  /\ runs[a].pc = "prepare"
  /\ \/ runs[a].abort /\ Leaves(a, "aborted", FALSE) /\ UNCHANGED rows
     \/ Leaves(a, "failed", TRUE) /\ UNCHANGED rows
     \/ /\ ~ runs[a].abort
        /\ IF runs[a].class = "read"
           THEN /\ exists /\ rows[a].state = "running"
                /\ rows' = [rows EXCEPT ![a].lease = epoch]
           ELSE UNCHANGED rows
        /\ runs' = [runs EXCEPT ![a].pc = "episodes"]
        /\ UNCHANGED registry
  /\ UNCHANGED <<session, launch, epoch, writes, bounds>>

-----------------------------------------------------------------------------
(* The write: the ledger knows its state, the job queue runs it, and the     *)
(* tool's answer tells whether something changed.                            *)
SetEffect(a, effect) ==
  /\ runs' = [runs EXCEPT ![a].effect = effect]
  /\ UNCHANGED <<session, rows, launch, epoch, registry, bounds>>

(* A write whose outcome is not known is never executed again; one that took *)
(* effect is answered from the ledger.  Mutant: what is unknown is retried.  *)
MayExecuteUnknown(a) == runs[a].effect \in {"none", "failed", "unknown"}
MayExecute(a) == runs[a].effect \in {"none", "failed"}

CallTool(a) ==
  /\ runs[a].pc = "episodes" /\ runs[a].class = "write"
  /\ ~ runs[a].abort /\ MayExecute(a)
  /\ SetEffect(a, "authorized") /\ UNCHANGED writes

(* Stopped in the queue, refused by the tool, or an Organize apply is on.    *)
JobRefuses(a) ==
  /\ runs[a].pc = "episodes" /\ runs[a].effect = "authorized"
  /\ SetEffect(a, "failed") /\ UNCHANGED writes

(* The queue looks at the stop before the job, not after it.                 *)
JobStarts(a) ==
  /\ runs[a].pc = "episodes" /\ runs[a].effect = "authorized"
  /\ SetEffect(a, "started") /\ UNCHANGED writes

JobWrites(a) ==
  /\ runs[a].pc = "episodes" /\ runs[a].effect = "started"
  /\ writes' = [writes EXCEPT ![a] = @ + 1]
  /\ SetEffect(a, "written")

(* The write answers that there was nothing it could change.                 *)
JobFindsNothing(a) ==
  /\ runs[a].pc = "episodes" /\ runs[a].effect = "started"
  /\ SetEffect(a, "failed") /\ UNCHANGED writes

(* An error after the start leaves the outcome unknown. *)
CallThrows(a) ==
  /\ runs[a].pc = "episodes" /\ runs[a].effect \in {"started", "written"}
  /\ SetEffect(a, "unknown") /\ UNCHANGED writes

CallReturns(a) ==
  /\ runs[a].pc = "episodes" /\ runs[a].effect = "written"
  /\ SetEffect(a, "committed") /\ UNCHANGED writes

(* writeSettlement of the ledger: none and all_failed are safe to retry.     *)
Unsafe(a) == runs[a].effect \notin {"none", "failed"}

(* The loop ends once its tool calls have ended: with an answer to commit,   *)
(* with nothing to commit, or with an error.                                 *)
EndEpisodes(a) ==
  /\ runs[a].pc = "episodes"
  /\ runs[a].effect \notin {"authorized", "started", "written"}
  /\ \E reason \in (IF runs[a].abort THEN {"final_answer", "aborted"} ELSE {"final_answer", "failed"}) :
       \/ /\ runs' = [runs EXCEPT ![a].pc = "commit", ![a].reason = reason]
          /\ UNCHANGED registry
       \/ Leaves(a, reason, FALSE)
       \/ reason = "failed" /\ Leaves(a, reason, TRUE)
  /\ UNCHANGED <<session, rows, launch, epoch, writes, bounds>>

-----------------------------------------------------------------------------
(* The end of an attempt, durably.                                           *)
MayRetry(a) == runs[a].reason # "final_answer" /\ ~ Unsafe(a)

Outcome(a) ==
  IF MayRetry(a) THEN "retryable"
  ELSE IF runs[a].reason = "final_answer" THEN "committed" ELSE "terminal"

CommitStands(a) ==
  /\ exists /\ rows[a].state # "none" /\ rows[a].receipt = 0
  /\ revision = launch[a].base /\ rows[a].lease = epoch

Fault == faults < MaxFaults /\ faults' = faults + 1

(* The answer, its receipt and the new revision are one transaction.         *)
Commit(a) ==
  /\ runs[a].pc = "commit"
  /\ \/ /\ CommitStands(a)
        /\ revision' = revision + 1
        /\ code' \in {code, TRUE}
        /\ rows' = [rows EXCEPT ![a] = [Ended(@, Outcome(a)) EXCEPT !.receipt = revision + 1]]
        /\ Ends(a, TRUE)
        /\ UNCHANGED <<exists, faults>>
     \/ /\ \/ ~ CommitStands(a) /\ UNCHANGED faults
           \/ Fault
        /\ Leaves(a, "failed", TRUE)
        /\ UNCHANGED <<session, rows>>
  /\ UNCHANGED <<launch, epoch, writes, crashes>>

SettleStands(a) == exists /\ rows[a].state = "running" /\ rows[a].lease = epoch

(* Mutant: the lease stays with the attempt. *)
SettledKeepsLease(a) ==
  [rows[a] EXCEPT !.state = IF MayRetry(a) THEN "retryable" ELSE "terminal"]

Settled(a) == Ended(rows[a], IF MayRetry(a) THEN "retryable" ELSE "terminal")

(* An attempt that has ended already is left as it is; one that belongs to   *)
(* nobody or to another worker is an error, as is a failing database.        *)
Settle(a) ==
  /\ runs[a].pc = "settle"
  /\ \/ /\ SettleStands(a)
        /\ rows' = [rows EXCEPT ![a] = Settled(a)]
        /\ IF runs[a].throws THEN Throws(a) ELSE Ends(a, FALSE)
        /\ UNCHANGED faults
     \/ /\ exists /\ rows[a].state \notin {"none", "running"}
        /\ IF runs[a].throws THEN Throws(a) ELSE Ends(a, FALSE)
        /\ UNCHANGED <<rows, faults>>
     \/ /\ \/ ~ exists /\ UNCHANGED faults
           \/ rows[a].state = "none" /\ UNCHANGED faults
           \/ rows[a].state = "running" /\ rows[a].lease # epoch /\ UNCHANGED faults
           \/ Fault
        /\ Throws(a) /\ UNCHANGED rows
  /\ UNCHANGED <<session, launch, epoch, writes, crashes>>

-----------------------------------------------------------------------------
(* Recovery: a page asks for the active turn, the registry answers for its   *)
(* own attempts.  Mutant: only for those that have ended.                    *)
AnsweringEnded == {a \in Attempts : turns[a].state = "terminal"}
Answering == {a \in Attempts : turns[a].state \in {"active", "terminal"}}

(* Only then the durable rows are looked at: a read-only attempt is claimed  *)
(* for this worker, one that may have written is left to the user.  Mutant:  *)
(* it is left as it is.                                                      *)
InspectReadOnly(a) ==
  /\ Answering = {} /\ held = NoAttempt /\ exists /\ rows[a].state = "running"
  /\ rows[a].class = "read"
  /\ rows' = [rows EXCEPT ![a].lease = epoch] /\ held' = a
  /\ UNCHANGED <<session, launch, epoch, turns, seen, completed, runs, writes, bounds>>

Inspect(a) ==
  /\ Answering = {} /\ held = NoAttempt /\ exists /\ rows[a].state = "running"
  /\ IF rows[a].class = "read"
     THEN rows' = [rows EXCEPT ![a].lease = epoch] /\ held' = a
     ELSE rows' = [rows EXCEPT ![a] = Uncertain(@)] /\ UNCHANGED held
  /\ UNCHANGED <<session, launch, epoch, turns, seen, completed, runs, writes, bounds>>

Restore(a) ==
  /\ held = a /\ held' = NoAttempt
  /\ \/ /\ Registered \ {a} # {} \/ (turns[a].state = "none" /\ a \in seen)
        /\ rows' = RolledBack(a)
        /\ UNCHANGED <<turns, runs>>
     \/ /\ Registered = {a} /\ UNCHANGED <<rows, turns, runs>>
     \/ /\ Registered = {} /\ a \notin seen
        /\ Begin(a, TRUE) /\ UNCHANGED rows
  /\ UNCHANGED <<session, launch, epoch, seen, completed, writes, bounds>>

-----------------------------------------------------------------------------
(* The user: drops an offered retry, gives up an attempt whose end is not    *)
(* known, deletes the conversation.                                          *)
DismissRetry(a) ==
  /\ exists /\ Retryable(a)
  /\ rows' = [rows EXCEPT ![a] = Ended(@, "terminal")]
  /\ UNCHANGED <<session, launch, epoch, registry, runs, writes, bounds>>

Abandon(a) ==
  /\ exists /\ rows[a].state = "uncertain"
  /\ rows' = [rows EXCEPT ![a] = Ended(@, "terminal")]
  /\ UNCHANGED <<session, launch, epoch, registry, runs, writes, bounds>>

(* A conversation whose attempt runs in this worker stays.                   *)
Deletable == \A a \in Attempts : ~ (Active(a) /\ rows[a].lease = epoch)

DeleteSession ==
  /\ exists /\ Deletable
  /\ exists' = FALSE
  /\ rows' = [a \in Attempts |-> NoRow]
  /\ UNCHANGED <<revision, code, launch, epoch, registry, runs, writes, bounds>>

Crash ==
  /\ crashes < MaxCrashes /\ crashes' = crashes + 1
  /\ epoch' = epoch + 1
  /\ turns' = [a \in Attempts |-> NoTurn]
  /\ runs' = [a \in Attempts |-> NoRun]
  /\ seen' = {} /\ completed' = -1 /\ held' = NoAttempt
  /\ UNCHANGED <<session, rows, launch, writes, faults>>

RunStep(a) ==
  \/ Load(a) \/ Admit(a) \/ Prepare(a)
  \/ CallTool(a) \/ JobRefuses(a) \/ JobStarts(a) \/ JobWrites(a) \/ JobFindsNothing(a)
  \/ CallThrows(a) \/ CallReturns(a)
  \/ EndEpisodes(a) \/ Commit(a) \/ Settle(a) \/ Fence(a)

AgentNext ==
  \/ \E a \in Attempts :
       \/ Start(a) \/ StartStopped(a) \/ Stop(a) \/ Acknowledge(a) \/ Finalize(a)
       \/ RunStep(a) \/ Inspect(a) \/ Restore(a) \/ DismissRetry(a) \/ Abandon(a)
  \/ DeleteSession \/ Crash

AgentSpec == AgentInit /\ [][AgentNext]_vars

(* A live worker runs its turns, whose loop has a step limit, and drops what *)
(* nobody listens to; a page that shows the conversation inspects it.        *)
AgentFairness ==
  /\ WF_vars(\E a \in Attempts : RunStep(a)) /\ SF_vars(\E a \in Attempts : EndEpisodes(a))
  /\ WF_vars(\E a \in Attempts : Finalize(a))
  /\ WF_vars(\E a \in Attempts : Inspect(a)) /\ WF_vars(\E a \in Attempts : Restore(a))
FairAgentSpec == AgentSpec /\ AgentFairness

-----------------------------------------------------------------------------
AgentTypeOK ==
  /\ exists \in BOOLEAN /\ code \in BOOLEAN /\ revision \in Nat /\ epoch \in Nat \ {0}
  /\ rows \in [Attempts -> [state : RowStates, class : {"read", "write"}, lease : Nat, receipt : Nat]]
  /\ \A a \in Attempts : rows[a].lease # 0 => rows[a].state = "running"
  /\ launch \in [Attempts -> [base : Nat \cup {-1}, source : Attempts \cup {NoAttempt},
                              prompt : Attempts \cup {NoAttempt}]]
  /\ turns \in [Attempts -> [state : TurnStates, owns : BOOLEAN, restored : BOOLEAN, applied : BOOLEAN]]
  /\ seen \subseteq Attempts /\ completed \in Nat \cup {-1} /\ held \in Attempts \cup {NoAttempt}
  /\ runs \in [Attempts -> [pc : Points, loaded : Nat, class : {"read", "write"}, abort : BOOLEAN,
                            effect : Effects, reason : Reasons, throws : BOOLEAN]]
  /\ writes \in [Attempts -> Nat]
  /\ crashes \in 0..MaxCrashes /\ faults \in 0..MaxFaults

(* A turn that prepares, runs its tools or commits is the one attempt of the *)
(* conversation that is active, and holds the lease of the living worker: no *)
(* page can take the row away under it by inspecting, deleting or retrying.  *)
RunnerHoldsLease == \A a \in Attempts :
  runs[a].pc \in {"prepare", "episodes", "commit"} =>
    /\ exists /\ rows[a].state = "running" /\ rows[a].lease = epoch
    /\ \A b \in Attempts \ {a} : ~ Active(b) /\ runs[b].pc = "idle"

(* A retry that is offered can be taken: it is the only one, nothing else is *)
(* active, and it continues from the answer committed last.                  *)
RetryIsCurrent == \A a \in Attempts : Retryable(a) =>
  /\ DraftBase(a) = revision
  /\ \A b \in Attempts \ {a} : ~ Retryable(b) /\ ~ Active(b)

(* However often the worker dies, the user stops or retries and the tool     *)
(* fails, what a prompt asks to write is written once.                       *)
Wrote == {a \in Attempts : writes[a] > 0}
PromptWritesOnce ==
  /\ \A a \in Attempts : writes[a] <= 1
  /\ \A a, b \in Wrote : launch[a].prompt = launch[b].prompt => a = b

(* The turns keep the contract: a row and what its attempt wrote.            *)
Phase(a) ==
  IF ~ exists THEN "closed"
  ELSE CASE rows[a].state = "none" -> "new"
         [] rows[a].state = "running" -> "open"
         [] rows[a].state = "retryable" -> "offered"
         [] rows[a].state = "uncertain" -> "lost"
         [] OTHER -> "closed"

Contract == INSTANCE TurnContract WITH
  phase <- [a \in Attempts |-> Phase(a)],
  prompt <- [a \in Attempts |-> launch[a].prompt],
  wrote <- Wrote
ContractSpec == Contract!ContractSpec

(* An attempt that runs durably ends, also when its worker dies.  There is   *)
(* one at a time, and each runs once: it is enough that again and again none *)
(* is left running with nobody who runs it or has reported its end.          *)
AttemptsEnd == []<> \A a \in Attempts :
  rows[a].state = "running" => turns[a].state \in {"terminal", "acked"}
=============================================================================
