---------------------------- MODULE OrganizeSlot ----------------------------
(* The one slot of the whole-library organize run: who asks for it, who      *)
(* starts in it, who controls what runs there.  Pages send messages over     *)
(* their ports; the background worker handles them one after the other and   *)
(* awaits a store transaction between its check and its write, while         *)
(* analysis, recovery, the deletion of conversations and failing ports go on *)
(* beside the handler.                                                       *)
(*                                                                           *)
(* A page is a controller with its conversation.  A job stands for its       *)
(* preflight token too: one token is issued with each job.  "sealed" stands  *)
(* for apply_sealed, applying and paused, whose inside is OrganizeApply.     *)
EXTENDS Integers, FiniteSets

CONSTANTS Pages, NoPage,
          Jobs, NoJob,
          MaxRevision,   \* bound: revisions of a job
          MaxFaults      \* bound: crashes, broken ports, deleted conversations

ASSUME SlotAssumption ==
  /\ IsFiniteSet(Pages) /\ NoPage \notin Pages
  /\ IsFiniteSet(Jobs) /\ NoJob \notin Jobs
  /\ MaxRevision \in Nat \ {0, 1} /\ MaxFaults \in Nat

VARIABLES
  status,    \* status[j]: the stored job; "unused" before it, "deleted" after
  owner,     \* owner[j]: the page that controls it
  origin,    \* origin[j]: the page that asked for it
  revision,  \* revision[j]
  expired,   \* expired: the jobs whose preflight is past its time to live
  sessions,  \* the pages whose conversation is stored
  live,      \* the pages with a connected port in the registry
  pending,   \* pendingDurableOrganizeJobId
  handler,   \* handler[p]: the message of p being handled, after its checks
  mutation,  \* a scheduler mutation between its read and its transaction
  faults

vars == <<status, owner, origin, revision, expired, sessions, live, pending,
          handler, mutation, faults>>

jobs == <<status, owner, origin, revision, expired>>
worker == <<pending, handler, mutation>>

Analysed == {"analyzing", "blocked", "review"}
Started == Analysed \cup {"sealed"}
Terminal == {"completed", "cancelled"}
Statuses == {"unused", "ready", "deleted"} \cup Started \cup Terminal

NoMessage == [at |-> "idle", job |-> NoJob, other |-> NoJob, revision |-> 0]
NoMutation == [job |-> NoJob, revision |-> 0, attempt |-> 0]
Points == {"idle", "freeze", "replace", "activate", "takeover",
           "stop", "retry", "select", "seal", "dismiss"}

SlotInit ==
  /\ status = [j \in Jobs |-> "unused"]
  /\ owner = [j \in Jobs |-> NoPage] /\ origin = [j \in Jobs |-> NoPage]
  /\ revision = [j \in Jobs |-> 0]
  /\ expired = {}
  /\ sessions = Pages /\ live = {}
  /\ pending = NoJob
  /\ handler = [p \in Pages |-> NoMessage]
  /\ mutation = NoMutation
  /\ faults = 0

(* The jobs findActiveJob finds: a preflight does not hold the slot, a       *)
(* terminal job has left it.                                                 *)
Active == {j \in Jobs : status[j] \in Started}

(* Every stored change of a job counts: the only thing a page or a mutation  *)
(* that read it before can notice.                                           *)
Moves(j, s) ==
  /\ revision[j] < MaxRevision
  /\ status' = [status EXCEPT ![j] = s]
  /\ revision' = [revision EXCEPT ![j] = @ + 1]

Fault == faults < MaxFaults /\ faults' = faults + 1

-----------------------------------------------------------------------------
(* Messages.  A handler runs to its end before the next one begins.         *)

(* Mutant: the messages of each port queue up by themselves. *)
PortTailFree(p) == handler[p] = NoMessage

(* organizeJobRunMutationTail: one message of all ports at a time. *)
TailFree(p) == \A q \in Pages : handler[q] = NoMessage

(* The message binds its port, and goes on to a later transaction.           *)
Handles(p, message) ==
  /\ TailFree(p)
  /\ live' = live \cup {p}
  /\ handler' = [handler EXCEPT ![p] = message]

To(at, j) == [at |-> at, job |-> j, other |-> NoJob, revision |-> revision[j]]

Ends(p) == handler' = [handler EXCEPT ![p] = NoMessage]

(* A message that only reads, or that its handler refuses. *)
Connects(p) ==
  /\ p \notin live
  /\ Handles(p, NoMessage)
  /\ UNCHANGED <<jobs, sessions, pending, mutation, faults>>

(* A disconnected port, or a page that says so: settled in the queue too.    *)
Leaves(p) ==
  /\ TailFree(p)
  /\ p \in live
  /\ live' = live \ {p}
  /\ UNCHANGED <<jobs, sessions, worker, faults>>

(* A post to a port that is gone marks it disconnected at once.              *)
PortBreaks(p) ==
  /\ p \in live
  /\ live' = live \ {p}
  /\ Fault
  /\ UNCHANGED <<jobs, sessions, worker>>

-----------------------------------------------------------------------------
(* Preflights.                                                              *)

CanReplace(j, p) == status[j] = "blocked" /\ owner[j] = p

(* requestBgsmOrganizeJobPreflight: refused while a run holds the slot or is *)
(* starting, unless the run is blocked and the page's own.                   *)
Requests(p, j) ==
  /\ status[j] = "unused"
  /\ pending = NoJob /\ \A a \in Active : CanReplace(a, p)
  /\ Handles(p, To("freeze", j))
  /\ UNCHANGED <<jobs, sessions, pending, mutation, faults>>

Obsolete(p) == {j \in Jobs : status[j] = "ready" /\ (j \in expired \/ owner[j] = p)}

(* createOrganizePreflight: the page's earlier preflights, the expired ones  *)
(* and every terminal job go as the new one comes.                           *)
Freezes(p) ==
  LET new == handler[p].job
      gone == Obsolete(p) \cup {j \in Jobs : status[j] \in Terminal}
  IN
  /\ handler[p].at = "freeze"
  /\ p \in sessions /\ status[new] = "unused"
  /\ status' = [j \in Jobs |-> IF j = new THEN "ready"
                               ELSE IF j \in gone THEN "deleted" ELSE status[j]]
  /\ owner' = [owner EXCEPT ![new] = p]
  /\ origin' = [origin EXCEPT ![new] = p]
  /\ revision' = [revision EXCEPT ![new] = 1]
  /\ Ends(p)
  /\ UNCHANGED <<expired, sessions, live, pending, mutation, faults>>

(* The scope, the taxonomy or the configuration cannot be read, or the       *)
(* conversation is gone.                                                     *)
FreezeFails(p) ==
  /\ handler[p].at = "freeze"
  /\ Ends(p)
  /\ UNCHANGED <<jobs, sessions, live, pending, mutation, faults>>

(* cancelBgsmOrganizeJobPreflight. *)
CancelsPreflight(p, j) ==
  /\ status[j] = "ready" /\ owner[j] = p
  /\ status' = [status EXCEPT ![j] = "deleted"]
  /\ Handles(p, NoMessage)
  /\ UNCHANGED <<owner, origin, revision, expired, sessions, pending, mutation, faults>>

Expires(j) ==
  /\ status[j] = "ready" /\ j \notin expired
  /\ expired' = expired \cup {j}
  /\ UNCHANGED <<status, owner, origin, revision, sessions, live, worker, faults>>

-----------------------------------------------------------------------------
(* Starting.                                                                *)

(* The jobs in the way of j: a repeated start finds its own job in the slot. *)
Others(j) == Active \ {j}

(* startBgsmOrganizeJob: the token is looked up and the slot inspected; the  *)
(* slot is reserved in memory unless the job is there already.               *)
Starts(p, j) ==
  /\ status[j] \notin {"unused", "deleted"} /\ origin[j] = p
  /\ \A a \in Others(j) : CanReplace(a, p)
  /\ pending \in {NoJob, j}
  /\ pending' = IF j \in Active THEN pending ELSE j
  /\ IF Others(j) = {}
     THEN Handles(p, To("activate", j))
     ELSE \E a \in Others(j) :
            Handles(p, [at |-> "replace", job |-> j, other |-> a, revision |-> revision[j]])
  /\ UNCHANGED <<jobs, sessions, mutation, faults>>

(* Mutant: only a start that succeeded gives the reservation back. *)
ReservationKept(p) == pending

(* The finally block of the start gives its reservation back.               *)
ReservationAfter(p) == IF pending = handler[p].job THEN NoJob ELSE pending

(* cancelOrganizeJob: a started job that is neither terminal nor sealed.     *)
Cancels(j) == status[j] \in Analysed /\ Moves(j, "cancelled")

(* The blocked job makes room, in a transaction of its own.  Only messages   *)
(* move a blocked job, so the handler finds it as it was.                    *)
Replaces(p) ==
  /\ handler[p].at = "replace"
  /\ Cancels(handler[p].other)
  /\ handler' = [handler EXCEPT ![p].at = "activate"]
  /\ UNCHANGED <<owner, origin, expired, sessions, live, pending, mutation, faults>>

(* activateOrganizePreflight: the token is consumed, by its owner, in time,  *)
(* with the slot free.                                                       *)
Activates(p) ==
  LET j == handler[p].job
      gone == {t \in Jobs : status[t] \in Terminal}
  IN
  /\ handler[p].at = "activate"
  /\ status[j] = "ready" /\ owner[j] = p /\ j \notin expired
  /\ Active = {}
  /\ status' = [t \in Jobs |-> IF t = j THEN "analyzing"
                               ELSE IF t \in gone THEN "deleted" ELSE status[t]]
  /\ revision' = [revision EXCEPT ![j] = @ + 1]
  /\ pending' = ReservationAfter(p)
  /\ Ends(p)
  /\ UNCHANGED <<owner, origin, expired, sessions, live, mutation, faults>>

(* The token is expired: the preflight goes, and the start has failed.      *)
ActivatesLate(p) ==
  LET j == handler[p].job IN
  /\ handler[p].at = "activate"
  /\ status[j] = "ready" /\ owner[j] = p /\ j \in expired
  /\ status' = [status EXCEPT ![j] = "deleted"]
  /\ pending' = ReservationAfter(p)
  /\ Ends(p)
  /\ UNCHANGED <<owner, origin, revision, expired, sessions, live, mutation, faults>>

(* Already started, or refused: another's job, a consumed token of a run     *)
(* that has ended, a slot that is taken.                                     *)
ActivatesNothing(p) ==
  LET j == handler[p].job IN
  /\ handler[p].at = "activate"
  /\ \/ status[j] # "ready" \/ owner[j] # p
     \/ j \notin expired /\ Active # {}
  /\ pending' = ReservationAfter(p)
  /\ Ends(p)
  /\ UNCHANGED <<jobs, sessions, live, mutation, faults>>

(* The cancellation, its publication or the activation throws: the start is  *)
(* over, what it has cancelled stays cancelled, the reservation is given back.*)
StartThrows(p) ==
  /\ handler[p].at \in {"replace", "activate"}
  /\ pending' = ReservationAfter(p)
  /\ Ends(p)
  /\ UNCHANGED <<jobs, sessions, live, mutation, faults>>

-----------------------------------------------------------------------------
(* Control.  The page saw some revision: only a message that saw the present *)
(* one passes the check, so the others need no step.                         *)

(* takeControlBgsmOrganizeJob: offered to a page for a run it was shown.     *)
TakesControl(p, j) ==
  /\ j \in Active
  /\ owner[j] \notin live \cup {p}
  /\ Handles(p, To("takeover", j))
  /\ UNCHANGED <<jobs, sessions, pending, mutation, faults>>

(* Mutant: the conversation is taken to exist since its page sent a message. *)
SessionAssumed(p) == TRUE

SessionExists(p) == p \in sessions

Unchanged(p) == revision[handler[p].job] = handler[p].revision

(* takeControlOrganizeJob *)
TakesOver(p) ==
  LET j == handler[p].job IN
  /\ handler[p].at = "takeover"
  /\ Unchanged(p) /\ j \in Active /\ SessionExists(p)
  /\ Moves(j, status[j])
  /\ owner' = [owner EXCEPT ![j] = p]
  /\ Ends(p)
  /\ UNCHANGED <<origin, expired, sessions, live, pending, mutation, faults>>

Commands == {<<"stop", "analyzing">>, <<"stop", "blocked">>, <<"stop", "review">>,
             <<"retry", "blocked">>, <<"select", "review">>, <<"seal", "review">>}

(* requireOrganizeOwnerMutation: the owner, connected, for a run that goes   *)
(* on.  (A stop of a sealed run pauses it and leaves the slot alone.)        *)
Commanded(p, j, command) ==
  /\ owner[j] = p
  /\ <<command, status[j]>> \in Commands
  /\ Handles(p, To(command, j))
  /\ UNCHANGED <<jobs, sessions, pending, mutation, faults>>

(* cancelOrganizeJob, whatever the analysis has made of the job meanwhile.   *)
Stops(p) ==
  /\ handler[p].at = "stop"
  /\ Cancels(handler[p].job)
  /\ Ends(p)
  /\ UNCHANGED <<owner, origin, expired, sessions, live, pending, mutation, faults>>

(* retryOrganizeAnalysisFromFirstFailure *)
Retries(p) ==
  /\ handler[p].at = "retry"
  /\ status[handler[p].job] = "blocked"
  /\ Moves(handler[p].job, "analyzing")
  /\ Ends(p)
  /\ UNCHANGED <<owner, origin, expired, sessions, live, pending, mutation, faults>>

(* updateOrganizeSelection and sealOrganizeApply; an apply of no rows is     *)
(* complete at once.                                                         *)
Reviews(p) ==
  LET j == handler[p].job IN
  /\ handler[p].at \in {"select", "seal"}
  /\ Unchanged(p) /\ status[j] = "review"
  /\ \E s \in IF handler[p].at = "seal" THEN {"sealed", "completed"} ELSE {"review"} :
       Moves(j, s)
  /\ Ends(p)
  /\ UNCHANGED <<owner, origin, expired, sessions, live, pending, mutation, faults>>

(* dismissBgsmTerminalOrganizeJob, from any page that sees the result.       *)
Dismisses(p, j) ==
  /\ status[j] \in Terminal
  /\ Handles(p, To("dismiss", j))
  /\ UNCHANGED <<jobs, sessions, pending, mutation, faults>>

DismissesNow(p) ==
  LET j == handler[p].job IN
  /\ handler[p].at = "dismiss"
  /\ Unchanged(p) /\ status[j] \in Terminal
  /\ status' = [status EXCEPT ![j] = "deleted"]
  /\ Ends(p)
  /\ UNCHANGED <<owner, origin, revision, expired, sessions, live, pending, mutation, faults>>

(* What the job has become refuses the write; the message gets an error.     *)
Refused(p) ==
  LET j == handler[p].job IN
  /\ \/ handler[p].at \in {"select", "seal"} /\ ~ (Unchanged(p) /\ status[j] = "review")
     \/ handler[p].at = "takeover" /\ ~ (Unchanged(p) /\ j \in Active /\ SessionExists(p))
     \/ handler[p].at = "stop" /\ status[j] \notin Analysed
  /\ Ends(p)
  /\ UNCHANGED <<jobs, sessions, live, pending, mutation, faults>>

-----------------------------------------------------------------------------
(* Beside the handlers.                                                     *)

(* mutateCurrentOrganizeRun: the run is read, its mutation follows.         *)
MutationReads(j) ==
  /\ mutation = NoMutation
  /\ status[j] = "analyzing"
  /\ mutation' = [job |-> j, revision |-> revision[j], attempt |-> 1]
  /\ UNCHANGED <<jobs, sessions, live, pending, handler, faults>>

(* A page is reserved, charged, released or settled, and with the last one   *)
(* the analysis is blocked or ready for review.                              *)
Mutates ==
  LET j == mutation.job IN
  /\ j # NoJob
  /\ revision[j] = mutation.revision /\ status[j] = "analyzing"
  /\ \E s \in Analysed : Moves(j, s)
  /\ mutation' = NoMutation
  /\ UNCHANGED <<owner, origin, expired, sessions, live, pending, handler, faults>>

(* A stale revision is read again, twice; the third time it is an error.     *)
MutationIsStale ==
  LET j == mutation.job IN
  /\ j # NoJob
  /\ status[j] # "deleted" /\ revision[j] # mutation.revision
  /\ mutation' = IF mutation.attempt < 3
                 THEN [mutation EXCEPT !.revision = revision[j], !.attempt = @ + 1]
                 ELSE NoMutation
  /\ UNCHANGED <<jobs, sessions, live, pending, handler, faults>>

(* The run has left the analysis, or is gone. *)
MutationEnds ==
  LET j == mutation.job IN
  /\ j # NoJob
  /\ \/ status[j] = "deleted"
     \/ revision[j] = mutation.revision /\ status[j] # "analyzing"
  /\ mutation' = NoMutation
  /\ UNCHANGED <<jobs, sessions, live, pending, handler, faults>>

(* Expired leases are taken back, the provider cannot be set up before the   *)
(* first page, a review without proposals or an apply is completed.          *)
RunGoesOn(j) ==
  /\ \/ status[j] = "analyzing" /\ \E s \in {"analyzing", "cancelled"} : Moves(j, s)
     \/ status[j] \in {"review", "sealed"} /\ Moves(j, "completed")
  /\ UNCHANGED <<owner, origin, expired, sessions, live, worker, faults>>

(* deleteAgentSession: blocked by every linked job that is neither terminal  *)
(* nor an expired preflight; those go with the conversation.                 *)
SessionDeleted(p) ==
  LET linked == {j \in Jobs : p \in {owner[j], origin[j]}
                                /\ status[j] \in Started \cup {"ready"}}
  IN
  /\ p \in sessions
  /\ \A j \in linked : status[j] = "ready" /\ j \in expired
  /\ status' = [j \in Jobs |-> IF j \in linked THEN "deleted" ELSE status[j]]
  /\ sessions' = sessions \ {p}
  /\ Fault
  /\ UNCHANGED <<owner, origin, revision, expired, live, worker>>

(* The worker ends: what it held in memory is gone, what it stored is not.   *)
Crash ==
  /\ pending' = NoJob
  /\ handler' = [p \in Pages |-> NoMessage]
  /\ mutation' = NoMutation
  /\ live' = {}
  /\ Fault
  /\ UNCHANGED <<jobs, sessions>>

Message(p) ==
  \/ Connects(p) \/ Leaves(p)
  \/ \E j \in Jobs : Requests(p, j) \/ CancelsPreflight(p, j) \/ Starts(p, j)
                     \/ TakesControl(p, j) \/ Dismisses(p, j)
  \/ \E j \in Jobs, c \in Commands : Commanded(p, j, c[1])

Handling(p) ==
  \/ Freezes(p) \/ FreezeFails(p)
  \/ Replaces(p) \/ Activates(p) \/ ActivatesLate(p) \/ ActivatesNothing(p)
  \/ StartThrows(p)
  \/ TakesOver(p) \/ Stops(p) \/ Retries(p) \/ Reviews(p) \/ DismissesNow(p) \/ Refused(p)

Beside ==
  \/ \E j \in Jobs : Expires(j) \/ MutationReads(j) \/ RunGoesOn(j)
  \/ Mutates \/ MutationIsStale \/ MutationEnds
  \/ \E p \in Pages : PortBreaks(p) \/ SessionDeleted(p)
  \/ Crash

Next == (\E p \in Pages : Message(p) \/ Handling(p)) \/ Beside

Spec == SlotInit /\ [][Next]_vars

-----------------------------------------------------------------------------
(* One run at a time: the store never holds two started jobs, and the slot   *)
(* is not refused for a start that is over: a reservation belongs to a start *)
(* that is still being handled.                                              *)
SlotTypeOK ==
  /\ status \in [Jobs -> Statuses]
  /\ owner \in [Jobs -> Pages \cup {NoPage}] /\ origin \in [Jobs -> Pages \cup {NoPage}]
  /\ revision \in [Jobs -> 0..MaxRevision]
  /\ expired \subseteq Jobs /\ sessions \subseteq Pages /\ live \subseteq Pages
  /\ handler \in [Pages -> [at : Points, job : Jobs \cup {NoJob},
                            other : Jobs \cup {NoJob}, revision : 0..MaxRevision]]
  /\ mutation \in [job : Jobs \cup {NoJob}, revision : 0..MaxRevision, attempt : 0..3]
  /\ faults \in 0..MaxFaults
  /\ \A j, k \in Jobs : {status[j], status[k]} \subseteq Started => j = k
  /\ pending # NoJob =>
       \E p \in Pages : handler[p].job = pending /\ handler[p].at \in {"replace", "activate"}

(* A run is always controlled, and was asked for, from a conversation that   *)
(* exists: no takeover hands it to one deleted while the takeover was on its *)
(* way, and no deletion takes the conversation of a run away.                *)
OwnersHaveSessions ==
  \A j \in Jobs : status[j] \in Started \cup {"ready"} =>
    {owner[j], origin[j]} \subseteq sessions

(* Control changes hands only when the owner's page is gone, and no mutation *)
(* of the analysis gives it back; a command takes effect only while its page *)
(* still is the owner; and a repeated start never cancels the run it started.*)
OnlyTheOwnerCommands ==
  [][/\ \A j \in Jobs : status[j] \in Started /\ owner'[j] # owner[j] => owner[j] \notin live
     /\ \A p \in Pages :
          /\ handler[p].at \in {"stop", "retry", "select", "seal", "replace"}
          /\ handler'[p] # handler[p]
          => \A j \in Jobs : revision'[j] # revision[j] =>
               owner[j] = p /\ (handler[p].at = "replace" => j # handler[p].job)]_vars
=============================================================================
