---------------------------- MODULE ApplyRecovery ----------------------------
(***************************************************************************)
(* What drives an OrganizeApply inside the extension worker: the pump       *)
(* (background/durable-job-pump.ts), the recovery queue and its alarm       *)
(* (durable-job-recovery.ts), the restore of a durable job and the user's   *)
(* commands (organize-job-host.ts), Cubby's own tag writes, and the job     *)
(* queue they share (serialized-runner.ts).  The worker dies, is stopped    *)
(* when idle, and is woken by its alarms or by any other event.             *)
(*                                                                          *)
(* One step runs from one await to the next.  Only the store's records and  *)
(* the alarm survive the worker.                                            *)
(*                                                                          *)
(* Abstractions.  The job queue is a lock: its order is not kept.  There is *)
(* one job, hence one operation id.  Length of backoff is not modelled.     *)
(* Edits by the user and by syncs touch nothing the drivers read; they are  *)
(* steps of OrganizeApply and are left out here.                            *)
(***************************************************************************)
EXTENDS OrganizeApply, Sequences, Functions

CONSTANTS MaxCrashes,  \* bound on deaths of the worker at work
          MaxErrors    \* bound on failing calls and leases lost to a suspension

ASSUME RecoveryConstants == MaxCrashes \in Nat /\ MaxErrors \in Nat

VARIABLES
  up,       \* the worker runs
  alarm,    \* the one-shot recovery alarm is armed
  known,    \* the controller has the job's run in memory
  pump,     \* the pump's execution of this apply
  queue,    \* job queue: who holds it
  work,     \* queuedWork: keys in order; the first is active
  point,    \* where the active work is
  owned,    \* activeOperationId is set
  tidy,     \* the reconcile that a completed pump leaves running
  flight,   \* restoreDurableOrganizeJob in progress
  user,     \* the user's command in progress
  crashes, errors

drivers == <<up, alarm, known, pump, queue, work, point, owned, tidy, flight, user,
             crashes, errors>>
vars == <<applyVars, drivers>>

NoPump == [pc |-> "off", token |-> NoToken, complete |-> FALSE]

PumpPoint == {"off", "queued", "claim", "settle", "progress", "failed", "release", "check",
              "pause", "restart", "backoff"}
WorkPoint == {"none", "begin", "rearm", "expire", "reread", "arm", "pump", "reconcile",
              "rearmed", "clear"}

(* getRecoverableApply *)
Recoverable == job.status \in {"apply_sealed", "applying"}

(* The pump, the recovery queue, restores and commands keep their types.    *)
RecoveryTypeOK ==
  /\ ApplyTypeOK
  /\ {up, alarm, known, owned} \subseteq BOOLEAN
  /\ pump \in [pc : PumpPoint, token : Tokens \cup {NoToken}, complete : BOOLEAN]
  /\ queue \in {"free", "pump", "agent"}
  /\ work \in {<<>>, <<"start">>, <<"recover">>, <<"start", "recover">>, <<"recover", "start">>}
  /\ point \in WorkPoint /\ (point = "none" <=> work = <<>>)
  /\ tidy \in {"none", "read", "arm", "clear"}
  /\ flight \in {"none", "release", "read", "start", "done"}
  /\ user \in {"none", "restore", "pause", "start"}
  /\ crashes \in 0..MaxCrashes /\ errors \in 0..MaxErrors

Error == errors < MaxErrors /\ errors' = errors + 1

RecoveryInit ==
  /\ ApplyInit
  /\ up = TRUE /\ alarm = FALSE /\ known = TRUE
  /\ pump = NoPump /\ queue = "free"
  /\ work = <<>> /\ point = "none" /\ owned = FALSE
  /\ tidy = "none" /\ flight = "none" /\ user = "none"
  /\ crashes = 0 /\ errors = 0

-----------------------------------------------------------------------------
(* The recovery queue. *)

(* Mutant: every call queues work of its own. *)
EnqueueAlways(key) ==
  /\ work' = Append(work, key)
  /\ point' = IF work = <<>> THEN "begin" ELSE point

(* enqueue: work already queued under the key is joined; work begins at once *)
(* when nothing is before it.                                                *)
Enqueue(key) ==
  IF key \in Range(work) THEN UNCHANGED <<work, point>>
  ELSE /\ work' = Append(work, key)
       /\ point' = IF work = <<>> THEN "begin" ELSE point

(* start: joins active work for the same apply. *)
StartWork == IF owned THEN UNCHANGED <<work, point>> ELSE Enqueue("start")

(* recover: joins any active start. *)
RecoverWork ==
  IF work # <<>> /\ Head(work) = "start" THEN UNCHANGED <<work, point>> ELSE Enqueue("recover")

EndWork ==
  /\ work' = Tail(work)
  /\ point' = IF Len(work) = 1 THEN "none" ELSE "begin"
  /\ owned' = FALSE

At(p) == up /\ point = p

Continue(p) == point' = p /\ UNCHANGED work

(* The first read of either kind of work. *)
WorkBegins ==
  /\ At("begin")
  /\ IF Head(work) = "start"
     THEN /\ Continue(IF Recoverable THEN "arm" ELSE "reconcile")
          /\ owned' = Recoverable
     ELSE /\ Continue(IF Recoverable THEN "rearm" ELSE "clear")
          /\ owned' = FALSE
  /\ UNCHANGED <<applyVars, up, alarm, known, pump, queue, tidy, flight, user, crashes,
                 errors>>

(* recoverOnce arms the alarm and leaves a live pump alone. *)
WorkRearms ==
  /\ At("rearm")
  /\ alarm' = TRUE
  /\ IF pump.pc # "off" THEN EndWork ELSE Continue("expire") /\ UNCHANGED owned
  /\ UNCHANGED <<applyVars, up, known, pump, queue, tidy, flight, user, crashes, errors>>

(* Mutant: a wake pumps without recovering expired leases. *)
WorkExpiresNothing ==
  /\ At("expire")
  /\ UNCHANGED applyVars
  /\ Continue("reread")
  /\ UNCHANGED <<up, alarm, known, pump, queue, owned, tidy, flight, user, crashes,
                 errors>>

WorkExpires ==
  /\ At("expire")
  /\ IF job.status \in Active /\ Lapsed # {} THEN RecoverExpiredChunk ELSE UNCHANGED applyVars
  /\ Continue("reread")
  /\ UNCHANGED <<up, alarm, known, pump, queue, owned, tidy, flight, user, crashes,
                 errors>>

WorkRereads ==
  /\ At("reread")
  /\ Continue(IF Recoverable THEN "arm" ELSE "clear")
  /\ owned' = Recoverable
  /\ UNCHANGED <<applyVars, up, alarm, known, pump, queue, tidy, flight, user, crashes,
                 errors>>

(* startOnce arms the alarm, starts the pump or joins it, and waits.         *)
WorkPumps ==
  /\ At("arm")
  /\ alarm' = TRUE
  /\ pump' = IF pump.pc = "off" THEN [NoPump EXCEPT !.pc = "queued"] ELSE pump
  /\ Continue("pump")
  /\ UNCHANGED <<applyVars, up, known, queue, owned, tidy, flight, user, crashes, errors>>

(* reconcile: the read, and then the alarm. *)
WorkReconciles ==
  /\ At("reconcile")
  /\ Continue(IF Recoverable THEN "rearmed" ELSE "clear")
  /\ UNCHANGED <<applyVars, up, alarm, known, pump, queue, owned, tidy, flight, user, crashes,
                 errors>>

WorkEnds ==
  /\ At("rearmed") \/ At("clear")
  /\ alarm' = (point = "rearmed")
  /\ EndWork
  /\ UNCHANGED <<applyVars, up, known, pump, queue, tidy, flight, user, crashes, errors>>

WorkFails ==
  /\ up /\ point \in {"begin", "expire", "reread", "reconcile"}
  /\ Error /\ EndWork
  /\ UNCHANGED <<applyVars, up, alarm, known, pump, queue, tidy, flight, user, crashes>>

(* onComplete: void reconcile(). *)
Tidies ==
  /\ up
  /\ \/ tidy = "read" /\ tidy' = (IF Recoverable THEN "arm" ELSE "clear") /\ UNCHANGED alarm
     \/ tidy \in {"arm", "clear"} /\ tidy' = "none" /\ alarm' = (tidy = "arm")
  /\ UNCHANGED <<applyVars, up, known, pump, queue, work, point, owned, flight, user, crashes,
                 errors>>

-----------------------------------------------------------------------------
(* The pump. *)
PumpAt(p) == up /\ pump.pc = p

PumpGoes(p) == pump' = [pump EXCEPT !.pc = p]

PumpOnly == UNCHANGED <<up, alarm, known, work, point, owned, flight, user, crashes>>

PumpEnters ==
  /\ PumpAt("queued") /\ queue = "free"
  /\ queue' = "pump"
  /\ PumpGoes("claim")
  /\ UNCHANGED <<applyVars, tidy, errors>> /\ PumpOnly

PumpClaims ==
  /\ PumpAt("claim")
  /\ \E t \in Tokens :
       /\ ClaimChunk(t)
       /\ pump' = [pump EXCEPT !.pc = "settle", !.token = t]
  /\ UNCHANGED <<queue, tidy, errors>> /\ PumpOnly

(* claim returned null, or the last chunk has been published: the loop ends. *)
LoopReturns ==
  /\ queue' = "free"
  /\ pump' = [NoPump EXCEPT !.pc = "restart"]

PumpIdles ==
  /\ PumpAt("claim") /\ ~ CanClaim
  /\ LoopReturns
  /\ UNCHANGED <<applyVars, tidy, errors>> /\ PumpOnly

PumpSettles ==
  /\ PumpAt("settle")
  /\ SettleChunk(pump.token, {i \in Chunk(pump.token) : Fit(i)})
  /\ pump' = [pump EXCEPT !.pc = "progress", !.token = NoToken,
                          !.complete = (apply'.status = "completed")]
  /\ UNCHANGED <<queue, tidy, errors>> /\ PumpOnly

PumpPublishes ==
  /\ PumpAt("progress")
  /\ IF pump.complete THEN LoopReturns /\ tidy' = "read"
                      ELSE PumpGoes("claim") /\ UNCHANGED <<queue, tidy>>
  /\ UNCHANGED <<applyVars, errors>> /\ PumpOnly

(* A call of the loop throws: a settlement without its lease, or any call.   *)
PumpThrows ==
  /\ up /\ pump.pc \in {"claim", "settle", "progress"}
  /\ \/ pump.pc = "settle" /\ ~ CanSettle(pump.token) /\ UNCHANGED errors
     \/ Error
  /\ queue' = "free"
  /\ pump' = [NoPump EXCEPT !.pc = "failed"]
  /\ UNCHANGED <<applyVars, tidy>> /\ PumpOnly

(* recoverOrganizeApplyPumpFailure: release the leases, pause the apply.     *)
FailureRead ==
  /\ PumpAt("failed")
  /\ PumpGoes(IF job.status \in Active THEN "release" ELSE "restart")
  /\ UNCHANGED <<applyVars, queue, tidy, errors>> /\ PumpOnly

FailureReleases ==
  /\ PumpAt("release")
  /\ IF job.status \in Active /\ Leased # {} THEN ReleaseChunk ELSE UNCHANGED applyVars
  /\ PumpGoes("check")
  /\ UNCHANGED <<queue, tidy, errors>> /\ PumpOnly

FailureChecks ==
  /\ PumpAt("check")
  /\ PumpGoes(IF job.status = "paused" THEN "restart" ELSE "pause")
  /\ UNCHANGED <<applyVars, queue, tidy, errors>> /\ PumpOnly

FailurePauses ==
  /\ PumpAt("pause")
  /\ IF job.status \in Active THEN PauseApply ELSE UNCHANGED applyVars
  /\ PumpGoes("restart")
  /\ UNCHANGED <<queue, tidy, errors>> /\ PumpOnly

FailureFails ==
  /\ up /\ pump.pc \in {"failed", "release", "check", "pause"}
  /\ Error
  /\ PumpGoes("restart")
  /\ UNCHANGED <<applyVars, queue, tidy>> /\ PumpOnly

(* The execution's promise resolves, and with it the work that waits for it. *)
Resolves ==
  /\ IF point = "pump" THEN Continue("reconcile") ELSE UNCHANGED <<work, point>>
  /\ UNCHANGED <<applyVars, up, alarm, known, queue, owned, tidy, flight, user, crashes>>

ShouldRestart == apply.status = "sealed" /\ job.status = "apply_sealed"

(* The finally block: asked twice, around the backoff after a failure, and   *)
(* with the execution still registered.                                      *)
PumpReserves ==
  /\ PumpAt("restart") /\ ShouldRestart
  /\ PumpGoes("backoff")
  /\ UNCHANGED <<applyVars, queue, tidy, errors>> /\ PumpOnly

PumpStops ==
  /\ up /\ pump.pc \in {"restart", "backoff"}
  /\ \/ ~ ShouldRestart /\ UNCHANGED errors
     \/ Error
  /\ pump' = NoPump
  /\ Resolves

PumpRestarts ==
  /\ PumpAt("backoff") /\ ShouldRestart
  /\ pump' = [NoPump EXCEPT !.pc = "queued"]
  /\ UNCHANGED errors
  /\ Resolves

-----------------------------------------------------------------------------
(* The host. *)
HostOnly == UNCHANGED <<up, alarm, pump, queue, owned, tidy, crashes, errors>>

BeginRestore == flight' = IF flight = "none" THEN "release" ELSE flight

(* A page attaches to a job this worker does not remember. *)
UserOpens ==
  /\ up /\ ~ known /\ flight = "none" /\ job.status # "completed"
  /\ BeginRestore
  /\ UNCHANGED <<applyVars, known, work, point, user>> /\ HostOnly

RestoreReleases ==
  /\ up /\ flight = "release"
  /\ IF job.status \in Active /\ Leased # {} THEN ReleaseChunk ELSE UNCHANGED applyVars
  /\ flight' = "read"
  /\ UNCHANGED <<known, work, point, user>> /\ HostOnly

RestoreReads ==
  /\ up /\ flight = "read"
  /\ flight' = IF Recoverable THEN "start" ELSE "done"
  /\ UNCHANGED <<applyVars, known, work, point, user>> /\ HostOnly

RestoreStarts ==
  /\ up /\ flight \in {"start", "done"}
  /\ known' = TRUE /\ flight' = "none"
  /\ IF flight = "start" THEN StartWork ELSE UNCHANGED <<work, point>>
  /\ UNCHANGED <<applyVars, user>> /\ HostOnly

(* Mutant: the seal does not wait for the job queue. *)
UserAppliesAtOnce ==
  /\ up /\ user = "none"
  /\ \E n \in 0..RowCount : SealApply(n)
  /\ user' = "start"
  /\ UNCHANGED <<known, work, point, flight>> /\ HostOnly

(* The seal runs in the job queue; the pump is started when it returns.      *)
UserApplies ==
  /\ up /\ user = "none" /\ queue = "free"
  /\ \E n \in 0..RowCount : SealApply(n)
  /\ user' = "start"
  /\ UNCHANGED <<known, work, point, flight>> /\ HostOnly

UserResumes ==
  /\ up /\ user = "none"
  /\ ResumeApply
  /\ user' = "start"
  /\ UNCHANGED <<known, work, point, flight>> /\ HostOnly

UserStarts ==
  /\ up /\ user = "start"
  /\ user' = "none"
  /\ StartWork
  /\ UNCHANGED <<applyVars, known, flight>> /\ HostOnly

(* Stop restores a job that is not in memory first, then requests the pause. *)
UserStops ==
  /\ up /\ user = "none" /\ job.status \in Active
  /\ IF known THEN user' = "pause" /\ UNCHANGED flight
              ELSE user' = "restore" /\ BeginRestore
  /\ UNCHANGED <<applyVars, known, work, point>> /\ HostOnly

UserRestored ==
  /\ up /\ user = "restore" /\ flight = "none"
  /\ user' = "pause"
  /\ UNCHANGED <<applyVars, known, work, point, flight>> /\ HostOnly

UserPauses ==
  /\ up /\ user = "pause"
  /\ user' = "none"
  /\ IF job.status \in Active THEN PauseApply ELSE UNCHANGED applyVars
  /\ UNCHANGED <<known, work, point, flight>> /\ HostOnly

(* A tag write of Cubby holds the job queue from its check to its end.       *)
AgentChecks ==
  /\ up /\ queue = "free" /\ job.status \notin Active
  /\ queue' = "agent"
  /\ UNCHANGED <<applyVars, up, alarm, known, pump, work, point, owned, tidy, flight, user, crashes,
                 errors>>

AgentWrites ==
  /\ up /\ queue = "agent"
  /\ queue' = "free"
  /\ EditTaxonomy \/ UNCHANGED applyVars
  /\ UNCHANGED <<up, alarm, known, pump, work, point, owned, tidy, flight, user, crashes,
                 errors>>

-----------------------------------------------------------------------------
(* The worker. *)
Forgotten ==
  /\ up' = FALSE /\ known' = FALSE
  /\ pump' = NoPump /\ queue' = "free"
  /\ work' = <<>> /\ point' = "none" /\ owned' = FALSE
  /\ tidy' = "none" /\ flight' = "none" /\ user' = "none"
  /\ UNCHANGED <<applyVars, alarm, errors>>

Crash == up /\ crashes < MaxCrashes /\ crashes' = crashes + 1 /\ Forgotten

(* The browser stops a worker that does nothing. *)
IdleStop ==
  /\ up /\ pump.pc = "off" /\ queue = "free" /\ work = <<>>
  /\ tidy = "none" /\ flight = "none" /\ user = "none"
  /\ Forgotten /\ UNCHANGED crashes

(* Any event starts the worker, which installs the recovery: runInBackground. *)
Started ==
  /\ up' = TRUE
  /\ work' = <<"recover">> /\ point' = "begin"
  /\ UNCHANGED <<applyVars, known, pump, queue, owned, tidy, flight, user, crashes,
                 errors>>

Wake == ~ up /\ Started /\ UNCHANGED alarm

AlarmRings ==
  /\ alarm /\ alarm' = FALSE
  /\ \/ ~ up /\ Started
     \/ /\ up /\ RecoverWork
        /\ UNCHANGED <<applyVars, up, known, pump, queue, owned, tidy, flight, user,
                       crashes, errors>>

(* A lease lapses under a live pump only if the machine was suspended.       *)
Held(t) == up /\ pump.pc = "settle" /\ pump.token = t

TimePasses(t) ==
  /\ LeaseLapses(t)
  /\ IF Held(t) THEN Error ELSE UNCHANGED errors
  /\ UNCHANGED <<up, alarm, known, pump, queue, work, point, owned, tidy, flight, user,
                 crashes>>

-----------------------------------------------------------------------------
WorkStep ==
  \/ WorkBegins \/ WorkRearms \/ WorkExpires \/ WorkRereads \/ WorkPumps
  \/ WorkReconciles \/ WorkEnds \/ WorkFails

PumpStep ==
  \/ PumpEnters \/ PumpClaims \/ PumpIdles \/ PumpSettles \/ PumpPublishes \/ PumpThrows
  \/ FailureRead \/ FailureReleases \/ FailureChecks \/ FailurePauses \/ FailureFails
  \/ PumpReserves \/ PumpStops \/ PumpRestarts

RestoreStep == RestoreReleases \/ RestoreReads \/ RestoreStarts

CommandStep == UserStarts \/ UserRestored \/ UserPauses

Next ==
  \/ WorkStep \/ Tidies \/ PumpStep \/ RestoreStep \/ CommandStep
  \/ UserOpens \/ UserApplies \/ UserResumes \/ UserStops
  \/ AgentChecks \/ AgentWrites
  \/ Crash \/ IdleStop \/ Wake \/ AlarmRings
  \/ \E t \in Tokens : TimePasses(t)

Spec == RecoveryInit /\ [][Next]_vars

(* What has been started goes on: promises settle, armed alarms ring, time   *)
(* passes, an idle worker is stopped, and a stopped one is started again by  *)
(* some event (the periodic refresh alarms never cease).  The user owes      *)
(* nothing.                                                                  *)
Fairness ==
  /\ WF_vars(WorkStep) /\ WF_vars(Tidies) /\ WF_vars(PumpStep)
  /\ WF_vars(RestoreStep) /\ WF_vars(CommandStep) /\ WF_vars(AgentWrites)
  /\ WF_vars(IdleStop) /\ WF_vars(Wake) /\ WF_vars(AlarmRings)
  /\ \A t \in Tokens : WF_vars(~ Held(t) /\ TimePasses(t))

FairSpec == Spec /\ Fairness

(* An approved apply is never stranded: it is completed or waits for a user  *)
(* who can resume it, whatever crashes, fails, lapses or is paused.          *)
ApplyEnds == Recoverable ~> ~ Recoverable

(* Cubby's own tag writes and an apply exclude each other: none begins or is *)
(* under way while an apply is sealed, running or paused.                    *)
AgentKeepsOut == queue = "agent" => job.status \notin Active

(* An alarm that rings during a live pump leaves the next wake armed: when   *)
(* the recovery has nothing left to do but to wait for the pump, the alarm   *)
(* is set.                                                                   *)
NextWakeArmed == up /\ point = "pump" /\ Len(work) = 1 => alarm
=============================================================================
