--------------------------- MODULE AgentTurnsProofs ---------------------------
(***************************************************************************)
(* The turns of a conversation, for any number of attempts, crashes and     *)
(* failing writes: the registry of a worker holds one attempt, the durable  *)
(* rows one active attempt, and the two together keep a prompt from being   *)
(* written twice.                                                           *)
(***************************************************************************)
EXTENDS AgentTurns, TLAPS

-----------------------------------------------------------------------------
(* Types. *)

RowRecord == [state : RowStates, class : {"read", "write"}, lease : Nat, receipt : Nat]
LaunchRecord == [base : Nat \cup {-1}, source : Attempts \cup {NoAttempt},
                 prompt : Attempts \cup {NoAttempt}]
TurnRecord == [state : TurnStates, owns : BOOLEAN, restored : BOOLEAN, applied : BOOLEAN]
RunRecord == [pc : Points, loaded : Nat, class : {"read", "write"}, abort : BOOLEAN,
              effect : Effects, reason : Reasons, throws : BOOLEAN]

DurableTypes ==
  /\ exists \in BOOLEAN /\ code \in BOOLEAN /\ revision \in Nat
  /\ rows \in [Attempts -> RowRecord]
  /\ \A a \in Attempts : rows[a].lease # 0 => rows[a].state = "running"
  /\ launch \in [Attempts -> LaunchRecord]
  /\ writes \in [Attempts -> Nat]

WorkerTypes ==
  /\ epoch \in Nat \ {0}
  /\ turns \in [Attempts -> TurnRecord]
  /\ seen \subseteq Attempts /\ completed \in Nat \cup {-1} /\ held \in Attempts \cup {NoAttempt}
  /\ runs \in [Attempts -> RunRecord]
  /\ crashes \in 0..MaxCrashes /\ faults \in 0..MaxFaults

-----------------------------------------------------------------------------
(* The registry of the worker. *)

OneRegistered == \A a, b \in Registered : a = b

RunsAreActive == \A a \in Attempts : runs[a].pc # "idle" => turns[a].state = "active"

(* A recovery that holds an attempt excludes every turn but ended ones.      *)
HeldAlone == held # NoAttempt => Answering = {}

RegistryInv == OneRegistered /\ RunsAreActive /\ HeldAlone

-----------------------------------------------------------------------------
(* The durable rows. *)

DeletedIsEmpty == ~ exists => \A a \in Attempts : rows[a].state = "none"

LeasesPast == \A a \in Attempts : rows[a].lease <= epoch

(* An active attempt was admitted at the present revision, and alone.        *)
ActiveIsCurrent == \A a \in Attempts : Active(a) =>
  /\ rows[a].receipt = 0 /\ launch[a].base = revision
  /\ \A b \in Attempts \ {a} : ~ Active(b)

RowsInv == DeletedIsEmpty /\ LeasesPast /\ ActiveIsCurrent /\ RetryIsCurrent

Prepared == {"admit", "prepare", "episodes", "commit", "settle"}

(* A turn may write exactly while no repository code is in the transcript.   *)
ClassIsCode == \A a \in Attempts :
  /\ rows[a].class = "read" => code
  /\ runs[a].pc \in Prepared => (runs[a].class = "read" <=> code)

-----------------------------------------------------------------------------
(* What the pages asked for. *)

LaunchesAsk == \A a \in Attempts :
  /\ launch[a] # NoLaunch =>
       /\ launch[a].base # -1 /\ launch[a].prompt # NoAttempt
       /\ launch[a].source = NoAttempt => launch[a].prompt = a
  /\ rows[a].state # "none" => launch[a] # NoLaunch

PromptsWereTried == \A a \in Attempts :
  exists /\ launch[a].prompt \notin {a, NoAttempt} => rows[launch[a].prompt].state # "none"

LaunchInv == LaunchesAsk /\ PromptsWereTried

-----------------------------------------------------------------------------
(* The writes. *)

Unwritten == {"none", "authorized", "started", "failed"}

(* An attempt that wrote is never new or offered again.                      *)
WritersAreKnown == \A a \in Attempts : writes[a] > 0 =>
  /\ launch[a] # NoLaunch
  /\ exists => rows[a].state \notin {"none", "retryable"} /\ rows[a].class = "write"

(* The ledger of a turn knows of every write of its attempt.                 *)
LedgerCounts == \A a \in Attempts :
  /\ runs[a].effect # "none" => runs[a].class = "write" /\ runs[a].pc # "load"
  /\ runs[a].pc \in Prepared \ {"admit"} /\ runs[a].effect \in Unwritten => writes[a] = 0

(* No worker begins an attempt again that may write.                         *)
WritersRunOnce == \A a \in Attempts :
  rows[a].state = "running" /\ rows[a].class = "write" /\ rows[a].lease = epoch =>
    a \in seen \cup Registered /\ runs[a].pc \notin {"load", "admit"}

(* The prompt of an attempt that runs or is offered was not written by any   *)
(* other attempt.                                                            *)
OthersDidNotWrite == \A a, b \in Attempts :
  /\ rows[a].state \in {"running", "retryable"}
  /\ launch[b].prompt = launch[a].prompt /\ b # a
  => writes[b] = 0

WriteInv ==
  /\ WritersAreKnown /\ LedgerCounts /\ WritersRunOnce /\ OthersDidNotWrite
  /\ PromptWritesOnce

AgentInv ==
  /\ DurableTypes /\ WorkerTypes
  /\ RegistryInv /\ RowsInv /\ RunnerHoldsLease /\ ClassIsCode
  /\ LaunchInv /\ WriteInv

-----------------------------------------------------------------------------
(* The empty records. *)
LEMMA EmptyRecords ==
  /\ NoRow \in RowRecord /\ NoTurn \in TurnRecord /\ NoRun \in RunRecord
  /\ NoLaunch \in LaunchRecord
BY DEF NoRow, NoTurn, NoRun, NoLaunch, RowRecord, TurnRecord, RunRecord, LaunchRecord,
       RowStates, TurnStates, Points, Effects, Reasons

(* The first worker finds an empty conversation. *)
LEMMA AgentInitInv == AgentInit => AgentInv
<1>1. SUFFICES ASSUME AgentInit PROVE AgentInv
  OBVIOUS
<1>2. DurableTypes /\ WorkerTypes
  <2>1. NoRow.lease = 0
    BY DEF NoRow
  <2>2. DurableTypes
    BY <1>1, <2>1, EmptyRecords DEF DurableTypes, AgentInit
  <2>3. WorkerTypes
    BY <1>1, EmptyRecords, AgentAssumption DEF WorkerTypes, AgentInit, AgentAssumption
  <2>4. QED BY <2>2, <2>3
<1>3. RegistryInv /\ RowsInv /\ RunnerHoldsLease /\ ClassIsCode
  BY <1>1
  DEF AgentInit, RegistryInv, OneRegistered, RunsAreActive, HeldAlone, Registered,
      RowsInv, DeletedIsEmpty, LeasesPast, ActiveIsCurrent, RetryIsCurrent, Active, Retryable,
      RunnerHoldsLease, ClassIsCode, Prepared, NoRow, NoTurn, NoRun
<1>4. LaunchInv /\ WriteInv
  BY <1>1
  DEF AgentInit, LaunchInv, LaunchesAsk, PromptsWereTried, WriteInv, WritersAreKnown,
      LedgerCounts, WritersRunOnce, OthersDidNotWrite, PromptWritesOnce, Wrote,
      NoRow, NoRun, NoLaunch, Unwritten
<1>5. QED BY <1>2, <1>3, <1>4 DEF AgentInv

-----------------------------------------------------------------------------
(* The shapes of the changes. *)

(* A row that has ended keeps its class and its receipt. *)
LEMMA EndedRow ==
  \A r \in RowRecord, s \in RowStates :
    /\ Ended(r, s) \in RowRecord
    /\ Ended(r, s).state = s /\ Ended(r, s).lease = 0
    /\ Ended(r, s).class = r.class /\ Ended(r, s).receipt = r.receipt
BY DEF Ended, RowRecord

(* A leased row changes only its lease, an answered one only its receipt. *)
Leased(r, n) == [r EXCEPT !.lease = n]
Answered(r, n) == [r EXCEPT !.receipt = n]

(* What these changes leave of a row. *)
LEMMA RowFields ==
  \A r \in RowRecord, n \in Nat :
    /\ Leased(r, n) \in RowRecord /\ Answered(r, n) \in RowRecord
    /\ Leased(r, n).lease = n /\ Leased(r, n).state = r.state
    /\ Leased(r, n).class = r.class /\ Leased(r, n).receipt = r.receipt
    /\ Answered(r, n).lease = r.lease /\ Answered(r, n).state = r.state
    /\ Answered(r, n).class = r.class /\ Answered(r, n).receipt = n
BY DEF RowRecord, Leased, Answered

(* One attempt in memory changes. *)
OneRun(a) ==
  /\ turns' \in [Attempts -> TurnRecord] /\ runs' \in [Attempts -> RunRecord]
  /\ \A b \in Attempts \ {a} : turns'[b] = turns[b] /\ runs'[b] = runs[b]

(* A turn begins anew. *)
LEMMA BeginForm ==
  ASSUME WorkerTypes, NEW a \in Attempts, NEW restored \in BOOLEAN, Begin(a, restored)
  PROVE  /\ OneRun(a)
         /\ turns'[a].state = "active"
         /\ runs'[a].pc = "load" /\ runs'[a].effect = "none"
<1>1. [NoTurn EXCEPT !.state = "active", !.owns = restored, !.restored = restored] \in TurnRecord
  BY DEF NoTurn, TurnRecord, TurnStates
<1>2. [NoRun EXCEPT !.pc = "load"] \in RunRecord
  BY DEF NoRun, RunRecord, Points, Effects, Reasons
<1>3. OneRun(a)
  BY <1>1, <1>2 DEF Begin, WorkerTypes, OneRun
<1>4. QED BY <1>3 DEF Begin, WorkerTypes, NoTurn, NoRun

(* A turn has ended, and its page may be told. *)
LEMMA EndsForm ==
  ASSUME WorkerTypes, NEW a \in Attempts, NEW applied \in BOOLEAN, Ends(a, applied)
  PROVE  /\ OneRun(a)
         /\ turns'[a].state = "terminal" /\ runs'[a] = NoRun
         /\ UNCHANGED <<seen, completed, held>>
<1>1. turns' = [turns EXCEPT ![a] = [turns[a] EXCEPT !.state = "terminal", !.applied = applied]]
  BY DEF Ends
<1>2. [turns[a] EXCEPT !.state = "terminal", !.applied = applied] \in TurnRecord
  BY DEF WorkerTypes, TurnRecord, TurnStates
<1>3. OneRun(a)
  BY <1>1, <1>2, EmptyRecords DEF Ends, WorkerTypes, OneRun
<1>4. turns'[a].state = "terminal"
  BY <1>1 DEF WorkerTypes, TurnRecord
<1>5. QED BY <1>3, <1>4 DEF Ends, WorkerTypes

(* A turn has thrown: it has ended, or a restored one is to be fenced. *)
LEMMA ThrowsForm ==
  ASSUME WorkerTypes, NEW a \in Attempts, Throws(a)
  PROVE  /\ OneRun(a)
         /\ \/ turns'[a].state = "terminal" /\ runs'[a] = NoRun
            \/ turns' = turns /\ runs'[a].pc = "fence" /\ runs'[a].effect = "none"
         /\ UNCHANGED <<seen, completed, held>>
<1>1. CASE turns[a].restored
  <2>1. [NoRun EXCEPT !.pc = "fence"] \in RunRecord
    BY DEF NoRun, RunRecord, Points, Effects, Reasons
  <2>2. OneRun(a)
    BY <1>1, <2>1 DEF Throws, registry, WorkerTypes, OneRun
  <2>3. QED BY <1>1, <2>2 DEF Throws, registry, WorkerTypes, NoRun
<1>2. CASE ~ turns[a].restored
  BY <1>2, EndsForm DEF Throws
<1>3. QED BY <1>1, <1>2

(* The fields of a run that move on. *)
RunMoved(r, n, pc) ==
  n \in RunRecord /\ n.pc = pc /\ n.class = r.class /\ n.effect = r.effect

(* A run that moves keeps its class and its effect. *)
LEMMA RunFields ==
  \A r \in RunRecord, pc \in Points, reason \in Reasons, throws \in BOOLEAN :
    /\ RunMoved(r, [r EXCEPT !.pc = pc, !.reason = reason, !.throws = throws], pc)
    /\ RunMoved(r, [r EXCEPT !.pc = pc, !.reason = reason], pc)
    /\ RunMoved(r, [r EXCEPT !.pc = pc], pc)
<1>1. SUFFICES ASSUME NEW r \in RunRecord, NEW pc \in Points, NEW reason \in Reasons,
                      NEW throws \in BOOLEAN
               PROVE  /\ RunMoved(r, [r EXCEPT !.pc = pc, !.reason = reason, !.throws = throws], pc)
                      /\ RunMoved(r, [r EXCEPT !.pc = pc, !.reason = reason], pc)
                      /\ RunMoved(r, [r EXCEPT !.pc = pc], pc)
  OBVIOUS
<1>2. RunMoved(r, [r EXCEPT !.pc = pc, !.reason = reason, !.throws = throws], pc)
  BY DEF RunMoved, RunRecord
<1>3. RunMoved(r, [r EXCEPT !.pc = pc, !.reason = reason], pc)
  BY DEF RunMoved, RunRecord
<1>4. RunMoved(r, [r EXCEPT !.pc = pc], pc)
  BY DEF RunMoved, RunRecord
<1>5. QED BY <1>2, <1>3, <1>4

(* A run that moves on, seen from the whole worker. *)
LEMMA RunForm ==
  ASSUME WorkerTypes, NEW a \in Attempts, NEW pc \in Points, NEW reason \in Reasons,
         NEW throws \in BOOLEAN,
         \/ runs' = [runs EXCEPT ![a].pc = pc, ![a].reason = reason, ![a].throws = throws]
         \/ runs' = [runs EXCEPT ![a].pc = pc, ![a].reason = reason]
         \/ runs' = [runs EXCEPT ![a].pc = pc]
  PROVE  /\ runs' \in [Attempts -> RunRecord]
         /\ runs'[a].pc = pc /\ runs'[a].class = runs[a].class /\ runs'[a].effect = runs[a].effect
         /\ \A b \in Attempts \ {a} : runs'[b] = runs[b]
<1>1. runs[a] \in RunRecord
  BY DEF WorkerTypes
<1>2. PICK n : runs' = [runs EXCEPT ![a] = n] /\ RunMoved(runs[a], n, pc)
  <2>1. \/ runs' = [runs EXCEPT ![a] =
              [runs[a] EXCEPT !.pc = pc, !.reason = reason, !.throws = throws]]
        \/ runs' = [runs EXCEPT ![a] = [runs[a] EXCEPT !.pc = pc, !.reason = reason]]
        \/ runs' = [runs EXCEPT ![a] = [runs[a] EXCEPT !.pc = pc]]
    OBVIOUS
  <2>2. QED BY <1>1, <2>1, RunFields
<1>3. QED BY <1>2 DEF WorkerTypes, RunMoved

(* The admission passed. *)
LEMMA AcquiresForm ==
  ASSUME WorkerTypes, NEW a \in Attempts, Acquires(a)
  PROVE  /\ OneRun(a)
         /\ turns'[a].state = turns[a].state
         /\ runs'[a].pc \in {"prepare", "settle"}
         /\ runs'[a].class = runs[a].class /\ runs'[a].effect = runs[a].effect
         /\ UNCHANGED <<seen, completed, held>>
<1>1. PICK throws \in BOOLEAN : throws = (runs[a].loaded # launch[a].base)
  OBVIOUS
<1>2. PICK pc \in Points : pc = IF runs[a].loaded = launch[a].base THEN "prepare" ELSE "settle"
  BY DEF Points
<1>3. runs' = [runs EXCEPT ![a].pc = pc, ![a].reason = "failed", ![a].throws = throws]
  BY <1>1, <1>2 DEF Acquires
<1>4. "failed" \in Reasons
  BY DEF Reasons
<1>5. /\ runs' \in [Attempts -> RunRecord]
      /\ runs'[a].pc = pc /\ runs'[a].class = runs[a].class /\ runs'[a].effect = runs[a].effect
      /\ \A b \in Attempts \ {a} : runs'[b] = runs[b]
  BY <1>3, <1>4, RunForm
<1>6. turns' = [turns EXCEPT ![a] = [turns[a] EXCEPT !.owns = TRUE]]
  BY DEF Acquires
<1>7. [turns[a] EXCEPT !.owns = TRUE] \in TurnRecord
  BY DEF WorkerTypes, TurnRecord
<1>8. turns'[a].state = turns[a].state
  BY <1>6 DEF WorkerTypes, TurnRecord
<1>9. QED BY <1>2, <1>5, <1>6, <1>7, <1>8 DEF WorkerTypes, OneRun, Acquires

(* The transcript is loaded. *)
Loaded(r, n, class) == [r EXCEPT !.pc = "admit", !.loaded = n, !.class = class]

(* A run that has loaded its attempt is one of these. *)
LEMMA LoadForm ==
  ASSUME WorkerTypes, DurableTypes, NEW a \in Attempts,
         runs' = [runs EXCEPT ![a].pc = "admit", ![a].loaded = revision,
                              ![a].class = IF code THEN "read" ELSE "write"]
  PROVE  /\ runs' \in [Attempts -> RunRecord]
         /\ runs'[a].pc = "admit" /\ runs'[a].effect = runs[a].effect
         /\ runs'[a].class = "read" <=> code
         /\ \A b \in Attempts \ {a} : runs'[b] = runs[b]
<1>1. PICK class \in {"read", "write"} : class = IF code THEN "read" ELSE "write"
  OBVIOUS
<1>2. runs[a] \in RunRecord /\ revision \in Nat /\ code \in BOOLEAN
  BY DEF WorkerTypes, DurableTypes
<1>3. Loaded(runs[a], revision, class) \in RunRecord
  BY <1>2 DEF RunRecord, Points, Loaded
<1>4. /\ Loaded(runs[a], revision, class).pc = "admit"
      /\ Loaded(runs[a], revision, class).class = class
      /\ Loaded(runs[a], revision, class).effect = runs[a].effect
  BY <1>2 DEF RunRecord, Loaded
<1>5. runs' = [runs EXCEPT ![a] = Loaded(runs[a], revision, class)]
  BY <1>1 DEF Loaded
<1>6. PICK m \in RunRecord : /\ runs' = [runs EXCEPT ![a] = m] /\ m.pc = "admit"
                             /\ m.class = class /\ m.effect = runs[a].effect
  BY <1>3, <1>4, <1>5
<1>7. runs \in [Attempts -> RunRecord]
  BY DEF WorkerTypes
<1>8. /\ runs' \in [Attempts -> RunRecord] /\ runs'[a] = m
      /\ \A b \in Attempts \ {a} : runs'[b] = runs[b]
  BY <1>6, <1>7
<1>9. class = "read" <=> code
  BY <1>1, <1>2
<1>10. QED BY <1>6, <1>8, <1>9

(* The ledger of a turn changes. *)
LEMMA SetEffectForm ==
  ASSUME WorkerTypes, NEW a \in Attempts, NEW effect \in Effects, SetEffect(a, effect)
  PROVE  /\ runs' \in [Attempts -> RunRecord]
         /\ runs'[a].pc = runs[a].pc /\ runs'[a].class = runs[a].class
         /\ runs'[a].effect = effect
         /\ \A b \in Attempts \ {a} : runs'[b] = runs[b]
<1>1. runs' = [runs EXCEPT ![a] = [runs[a] EXCEPT !.effect = effect]]
  BY DEF SetEffect
<1>2. [runs[a] EXCEPT !.effect = effect] \in RunRecord
  BY DEF WorkerTypes, RunRecord
<1>3. QED BY <1>1, <1>2 DEF WorkerTypes, RunRecord

(* A turn is told to stop. *)
LEMMA StopForm ==
  ASSUME WorkerTypes, NEW a \in Attempts, Stop(a)
  PROVE  /\ runs' \in [Attempts -> RunRecord]
         /\ runs'[a].pc = runs[a].pc /\ runs'[a].class = runs[a].class
         /\ runs'[a].effect = runs[a].effect
         /\ \A b \in Attempts \ {a} : runs'[b] = runs[b]
<1>1. runs' = [runs EXCEPT ![a] = [runs[a] EXCEPT !.abort = TRUE]]
  BY DEF Stop
<1>2. [runs[a] EXCEPT !.abort = TRUE] \in RunRecord
  BY DEF WorkerTypes, RunRecord
<1>3. QED BY <1>1, <1>2 DEF WorkerTypes, RunRecord

(* One row changes: its lease, or it ends. *)
OneRow(a) ==
  /\ rows' \in [Attempts -> RowRecord]
  /\ rows'[a].lease # 0 => rows'[a].state = "running"
  /\ rows'[a].class = rows[a].class
  /\ \A b \in Attempts \ {a} : rows'[b] = rows[b]

(* A lease that is given changes one row. *)
LEMMA LeaseForm ==
  ASSUME DurableTypes, NEW a \in Attempts, rows[a].state = "running", epoch \in Nat,
         rows' = [rows EXCEPT ![a].lease = epoch]
  PROVE  /\ OneRow(a)
         /\ rows'[a].state = "running" /\ rows'[a].lease = epoch
         /\ rows'[a].receipt = rows[a].receipt
<1>1. rows' = [rows EXCEPT ![a] = Leased(rows[a], epoch)] /\ rows[a] \in RowRecord
  BY DEF DurableTypes, Leased
<1>2. PICK r \in RowRecord :
        /\ rows' = [rows EXCEPT ![a] = r]
        /\ r.lease = epoch /\ r.state = rows[a].state
        /\ r.class = rows[a].class /\ r.receipt = rows[a].receipt
  BY <1>1, RowFields
<1>3. QED BY <1>2 DEF DurableTypes, OneRow

(* So does the end of an attempt. *)
LEMMA EndedForm ==
  ASSUME DurableTypes, NEW a \in Attempts, NEW s \in RowStates,
         rows' = [rows EXCEPT ![a] = Ended(rows[a], s)]
  PROVE  /\ OneRow(a)
         /\ rows'[a].state = s /\ rows'[a].lease = 0
         /\ rows'[a].receipt = rows[a].receipt
BY EndedRow DEF DurableTypes, OneRow

(* The rows after an admission: the attempt runs, offers are withdrawn. *)
LEMMA AdmittedForm ==
  ASSUME DurableTypes, WorkerTypes, NEW a \in Attempts, rows' = AdmittedRows(a)
  PROVE  /\ rows' \in [Attempts -> RowRecord]
         /\ rows'[a].state = "running" /\ rows'[a].class = runs[a].class
         /\ rows'[a].lease = epoch /\ rows'[a].receipt = 0
         /\ \A b \in Attempts \ {a} :
              /\ rows'[b].class = rows[b].class
              /\ IF Retryable(b) THEN rows'[b].state = "terminal" /\ rows'[b].lease = 0
                                 ELSE rows'[b] = rows[b]
<1>1. PICK r \in RowRecord : /\ r = [state |-> "running", class |-> runs[a].class,
                                      lease |-> epoch, receipt |-> 0]
  BY DEF WorkerTypes, RunRecord, RowRecord, RowStates
<1>2. rows' = [b \in Attempts |-> IF b = a THEN r
                                 ELSE IF Retryable(b) THEN Ended(rows[b], "terminal") ELSE rows[b]]
  BY <1>1 DEF AdmittedRows
<1>3. "terminal" \in RowStates
  BY DEF RowStates
<1>4. \A b \in Attempts : /\ rows[b] \in RowRecord
                          /\ Ended(rows[b], "terminal") \in RowRecord
                          /\ Ended(rows[b], "terminal").state = "terminal"
                          /\ Ended(rows[b], "terminal").lease = 0
                          /\ Ended(rows[b], "terminal").class = rows[b].class
  BY <1>3, EndedRow DEF DurableTypes
<1>5. QED BY <1>1, <1>2, <1>4

(* The end of an attempt with an answer. *)
LEMMA CommitForm ==
  ASSUME DurableTypes, NEW a \in Attempts,
         rows' = [rows EXCEPT ![a] = [Ended(@, Outcome(a)) EXCEPT !.receipt = revision + 1]]
  PROVE  /\ OneRow(a)
         /\ rows'[a].state = Outcome(a) /\ rows'[a].lease = 0
         /\ rows'[a].receipt = revision + 1
<1>1. PICK s \in RowStates : s = Outcome(a)
  BY DEF Outcome, RowStates
<1>2. PICK r \in RowRecord : /\ r = Ended(rows[a], s) /\ r.state = s /\ r.lease = 0
                             /\ r.class = rows[a].class
  BY EndedRow DEF DurableTypes
<1>3. PICK n \in Nat : n = revision + 1
  BY DEF DurableTypes
<1>4. rows' = [rows EXCEPT ![a] = Answered(r, n)]
  BY <1>1, <1>2, <1>3 DEF Answered
<1>5. PICK q \in RowRecord : /\ q = Answered(r, n) /\ q.state = s /\ q.lease = 0
                             /\ q.class = rows[a].class /\ q.receipt = n
  BY <1>2, RowFields
<1>6. QED BY <1>1, <1>3, <1>4, <1>5 DEF DurableTypes, OneRow

(* A recovery that gives a row back. *)
LEMMA RolledBackForm ==
  ASSUME DurableTypes, NEW a \in Attempts, rows' = RolledBack(a)
  PROVE  /\ OneRow(a)
         /\ \/ rows' = rows
            \/ /\ Claimed(a) /\ rows'[a].state = "uncertain" /\ rows'[a].lease = 0
               /\ rows'[a].receipt = rows[a].receipt
<1>1. CASE Claimed(a)
  <2>1. rows' = [rows EXCEPT ![a] = Ended(rows[a], "uncertain")] /\ "uncertain" \in RowStates
    BY <1>1 DEF RolledBack, Uncertain, RowStates
  <2>2. QED BY <1>1, <2>1, EndedForm
<1>2. CASE ~ Claimed(a)
  BY <1>2 DEF RolledBack, DurableTypes, OneRow
<1>3. QED BY <1>1, <1>2

-----------------------------------------------------------------------------
(* Types are kept by every action. *)
LEMMA DurableTypesStep ==
  ASSUME DurableTypes, WorkerTypes, AgentNext
  PROVE  DurableTypes'
<1>1. ASSUME NEW a \in Attempts, Start(a) \/ StartStopped(a) PROVE DurableTypes'
  <2>1. \A l \in Launches(a) : l \in LaunchRecord
    BY DEF Launches, LaunchRecord, DurableTypes
  <2>2. PICK l \in LaunchRecord : launch' = [launch EXCEPT ![a] = l]
    BY <1>1, <2>1 DEF Start, StartStopped
  <2>3. QED BY <1>1, <2>2 DEF Start, StartStopped, session, DurableTypes
<1>2. ASSUME UNCHANGED <<session, rows, launch>>, writes' \in [Attempts -> Nat]
      PROVE  DurableTypes'
  BY <1>2 DEF DurableTypes, session
<1>3. ASSUME NEW a \in Attempts,
             \/ Stop(a) \/ Acknowledge(a) \/ Finalize(a) \/ Load(a) \/ CallTool(a)
             \/ JobRefuses(a) \/ JobStarts(a) \/ JobFindsNothing(a) \/ CallThrows(a)
             \/ CallReturns(a) \/ EndEpisodes(a)
      PROVE  DurableTypes'
  <2>1. UNCHANGED <<session, rows, launch, writes>>
    BY <1>3
    DEF Stop, Acknowledge, Finalize, Load, CallTool, JobRefuses, JobStarts, JobFindsNothing,
        CallThrows, CallReturns, EndEpisodes, SetEffect
  <2>2. QED BY <1>2, <2>1 DEF DurableTypes
<1>4. ASSUME NEW a \in Attempts, rows' = rows \/ OneRow(a),
             exists' = exists, revision' \in Nat, code' \in BOOLEAN, UNCHANGED <<launch, writes>>
      PROVE  DurableTypes'
  BY <1>4 DEF DurableTypes, OneRow
<1>5. exists \in BOOLEAN /\ revision \in Nat /\ code \in BOOLEAN /\ epoch \in Nat
  BY DEF DurableTypes, WorkerTypes
<1>6. {"terminal", "uncertain", "retryable"} \subseteq RowStates
  BY DEF RowStates
<1>7. ASSUME NEW a \in Attempts, Admit(a) PROVE DurableTypes'
  <2>1. UNCHANGED <<session, launch, writes>>
    BY <1>7 DEF Admit
  <2>2. CASE rows' = rows
    BY <1>4, <1>5, <2>1, <2>2 DEF session
  <2>3. CASE rows[a].state = "running" /\ rows' = [rows EXCEPT ![a].lease = epoch]
    BY <1>4, <1>5, <2>1, <2>3, LeaseForm DEF session
  <2>4. CASE rows' = AdmittedRows(a)
    BY <2>1, <2>4, AdmittedForm DEF DurableTypes, session
  <2>5. QED BY <1>7, <2>2, <2>3, <2>4 DEF Admit, Resumable
<1>8. ASSUME NEW a \in Attempts, Prepare(a) PROVE DurableTypes'
  <2>1. UNCHANGED <<session, launch, writes>>
    BY <1>8 DEF Prepare
  <2>2. \/ rows' = rows
        \/ rows[a].state = "running" /\ rows' = [rows EXCEPT ![a].lease = epoch]
    BY <1>8 DEF Prepare
  <2>3. QED BY <1>4, <1>5, <2>1, <2>2, LeaseForm DEF session
<1>9. ASSUME NEW a \in Attempts, Inspect(a) PROVE DurableTypes'
  <2>1. UNCHANGED <<session, launch, writes>>
    BY <1>9 DEF Inspect
  <2>2. \/ rows' = [rows EXCEPT ![a] = Ended(rows[a], "uncertain")]
        \/ rows[a].state = "running" /\ rows' = [rows EXCEPT ![a].lease = epoch]
    BY <1>9 DEF Inspect, Uncertain
  <2>3. QED BY <1>4, <1>5, <1>6, <2>1, <2>2, LeaseForm, EndedForm DEF session
<1>10. ASSUME NEW a \in Attempts, Fence(a) \/ Restore(a) PROVE DurableTypes'
  <2>1. UNCHANGED <<session, launch, writes>>
    BY <1>10 DEF Fence, Restore
  <2>2. rows' = rows \/ rows' = RolledBack(a)
    BY <1>10 DEF Fence, Restore
  <2>3. QED BY <1>4, <1>5, <2>1, <2>2, RolledBackForm DEF session
<1>11. ASSUME NEW a \in Attempts, DismissRetry(a) \/ Abandon(a) PROVE DurableTypes'
  <2>1. UNCHANGED <<session, launch, writes>>
    BY <1>11 DEF DismissRetry, Abandon
  <2>2. rows' = [rows EXCEPT ![a] = Ended(rows[a], "terminal")]
    BY <1>11 DEF DismissRetry, Abandon
  <2>3. QED BY <1>4, <1>5, <1>6, <2>1, <2>2, EndedForm DEF session
<1>12. ASSUME NEW a \in Attempts, Commit(a) PROVE DurableTypes'
  <2>1. /\ exists' = exists /\ revision' \in {revision, revision + 1} /\ code' \in {code, TRUE}
        /\ UNCHANGED <<launch, writes>>
    BY <1>12 DEF Commit, session
  <2>2. \/ rows' = rows
        \/ rows' = [rows EXCEPT ![a] = [Ended(@, Outcome(a)) EXCEPT !.receipt = revision + 1]]
    BY <1>12 DEF Commit
  <2>3. revision' \in Nat
    BY <1>5, <2>1
  <2>4. code' \in BOOLEAN
    BY <1>5, <2>1, Zenon
  <2>5. QED BY <1>4, <2>1, <2>2, <2>3, <2>4, CommitForm
<1>13. ASSUME NEW a \in Attempts, Settle(a) PROVE DurableTypes'
  <2>1. UNCHANGED <<session, launch, writes>>
    BY <1>13 DEF Settle
  <2>2. \/ rows' = rows
        \/ rows' = [rows EXCEPT ![a] = Ended(rows[a], "retryable")]
        \/ rows' = [rows EXCEPT ![a] = Ended(rows[a], "terminal")]
    BY <1>13 DEF Settle, Settled
  <2>3. QED BY <1>4, <1>5, <1>6, <2>1, <2>2, EndedForm DEF session
<1>14. CASE DeleteSession
  <2>1. NoRow.lease = 0
    BY DEF NoRow
  <2>2. QED BY <1>14, <2>1, EmptyRecords DEF DeleteSession, DurableTypes
<1>15. ASSUME NEW a \in Attempts, JobWrites(a) PROVE DurableTypes'
  <2>1. UNCHANGED <<session, rows, launch>> /\ writes' = [writes EXCEPT ![a] = @ + 1]
    BY <1>15 DEF JobWrites, SetEffect
  <2>2. writes' \in [Attempts -> Nat]
    BY <2>1 DEF DurableTypes
  <2>3. QED BY <1>2, <2>1, <2>2
<1>16. CASE Crash
  BY <1>2, <1>16 DEF Crash, DurableTypes
<1>17. QED
  BY <1>1, <1>3, <1>7, <1>8, <1>9, <1>10, <1>11, <1>12, <1>13, <1>14, <1>15, <1>16
  DEF AgentNext, RunStep

(* A step of a living worker counts at most one failing write. *)
Counted == crashes' = crashes /\ (faults' = faults \/ Fault)

(* Nothing but a crash ends a worker. *)
LEMMA SameWorker ==
  ASSUME AgentNext, ~ Crash
  PROVE  epoch' = epoch /\ Counted
<1>1. CASE DeleteSession
  BY <1>1 DEF DeleteSession, Counted, bounds
<1>2. ASSUME NEW a \in Attempts,
             \/ Start(a) \/ StartStopped(a) \/ Stop(a) \/ Acknowledge(a) \/ Finalize(a)
             \/ Inspect(a) \/ Restore(a) \/ DismissRetry(a) \/ Abandon(a)
      PROVE  epoch' = epoch /\ Counted
  BY <1>2 DEF Start, StartStopped, Stop, Acknowledge, Finalize, Inspect, Restore, DismissRetry,
              Abandon, Counted, bounds
<1>3. ASSUME NEW a \in Attempts,
             \/ Load(a) \/ Admit(a) \/ Prepare(a) \/ EndEpisodes(a) \/ Fence(a)
             \/ CallTool(a) \/ JobRefuses(a) \/ JobStarts(a) \/ JobWrites(a)
             \/ JobFindsNothing(a) \/ CallThrows(a) \/ CallReturns(a)
      PROVE  epoch' = epoch /\ Counted
  BY <1>3 DEF Load, Admit, Prepare, EndEpisodes, Fence, CallTool, JobRefuses, JobStarts, JobWrites,
              JobFindsNothing, CallThrows, CallReturns, SetEffect, Counted, bounds
<1>4. ASSUME NEW a \in Attempts, Commit(a) \/ Settle(a)
      PROVE  epoch' = epoch /\ Counted
  BY <1>4 DEF Commit, Settle, Counted
<1>5. QED BY <1>1, <1>2, <1>3, <1>4 DEF AgentNext, RunStep

(* What the worker holds in memory. *)
LEMMA WorkerTypesStep ==
  ASSUME DurableTypes, WorkerTypes, AgentNext
  PROVE  WorkerTypes'
<1>. SUFFICES ASSUME ~ Crash PROVE WorkerTypes'
  <2>1. CASE Crash
    <3>1. crashes' \in 0..MaxCrashes /\ faults' \in 0..MaxFaults /\ epoch' \in Nat \ {0}
      BY <2>1, AgentAssumption DEF Crash, WorkerTypes, AgentAssumption
    <3>2. QED BY <2>1, <3>1, EmptyRecords DEF Crash, WorkerTypes
  <2>2. QED BY <2>1
<1>1. ASSUME turns' \in [Attempts -> TurnRecord], runs' \in [Attempts -> RunRecord],
             seen' \subseteq Attempts, completed' \in Nat \cup {-1},
             held' \in Attempts \cup {NoAttempt}
      PROVE  WorkerTypes'
  <2>1. epoch' = epoch /\ Counted
    BY SameWorker
  <2>2. crashes' \in 0..MaxCrashes /\ faults' \in 0..MaxFaults
    BY <2>1, AgentAssumption DEF WorkerTypes, Counted, Fault, AgentAssumption
  <2>3. QED BY <1>1, <2>1, <2>2 DEF WorkerTypes
<1>2. /\ seen \subseteq Attempts /\ completed \in Nat \cup {-1}
      /\ held \in Attempts \cup {NoAttempt}
      /\ turns \in [Attempts -> TurnRecord] /\ runs \in [Attempts -> RunRecord]
  BY DEF WorkerTypes
<1>3. /\ {"admit", "prepare", "episodes", "commit", "settle"} \subseteq Points
      /\ {"failed", "final_answer", "aborted"} \subseteq Reasons
      /\ {"authorized", "started", "failed", "written", "committed", "unknown"} \subseteq Effects
  BY DEF Points, Reasons, Effects
<1>4. ASSUME NEW a \in Attempts, Start(a) PROVE WorkerTypes'
  <2>1. Begin(a, FALSE) /\ UNCHANGED <<epoch, seen, completed, held, bounds>>
    BY <1>4 DEF Start
  <2>2. QED BY <1>1, <1>2, <2>1, BeginForm DEF OneRun
<1>5. ASSUME NEW a \in Attempts, StartStopped(a) PROVE WorkerTypes'
  <2>1. [NoTurn EXCEPT !.state = "terminal"] \in TurnRecord
    BY DEF NoTurn, TurnRecord, TurnStates
  <2>2. turns' \in [Attempts -> TurnRecord]
    BY <1>2, <1>5, <2>1 DEF StartStopped
  <2>3. QED BY <1>1, <1>2, <1>5, <2>2 DEF StartStopped
<1>6. ASSUME NEW a \in Attempts, Stop(a) PROVE WorkerTypes'
  <2>1. UNCHANGED <<epoch, registry, bounds>>
    BY <1>6 DEF Stop
  <2>2. QED BY <1>1, <1>2, <1>6, <2>1, StopForm DEF registry
<1>7. ASSUME NEW a \in Attempts, Acknowledge(a) PROVE WorkerTypes'
  <2>1. \A t \in TurnRecord : [t EXCEPT !.state = "acked"] \in TurnRecord
    BY DEF TurnRecord, TurnStates
  <2>2. turns' = [turns EXCEPT ![a] = [turns[a] EXCEPT !.state = "acked"]]
    BY <1>7 DEF Acknowledge
  <2>3. turns' \in [Attempts -> TurnRecord]
    BY <1>2, <2>1, <2>2
  <2>4. completed' \in Nat \cup {-1}
    BY <1>2, <1>7 DEF Acknowledge, DurableTypes, LaunchRecord
  <2>5. QED BY <1>1, <1>2, <1>7, <2>3, <2>4 DEF Acknowledge
<1>8. ASSUME NEW a \in Attempts, Finalize(a) PROVE WorkerTypes'
  BY <1>1, <1>2, <1>8, EmptyRecords DEF Finalize
<1>9. ASSUME NEW a \in Attempts,
             runs' = runs \/ (\E effect \in Effects : SetEffect(a, effect)),
             UNCHANGED registry
      PROVE  WorkerTypes'
  BY <1>1, <1>2, <1>9, SetEffectForm DEF registry
<1>10. ASSUME NEW a \in Attempts,
              \/ CallTool(a) \/ JobRefuses(a) \/ JobStarts(a) \/ JobWrites(a)
              \/ JobFindsNothing(a) \/ CallThrows(a) \/ CallReturns(a)
       PROVE  WorkerTypes'
  <2>1. \E effect \in Effects : SetEffect(a, effect)
    BY <1>3, <1>10 DEF CallTool, JobRefuses, JobStarts, JobWrites, JobFindsNothing, CallThrows,
                       CallReturns
  <2>2. UNCHANGED registry
    BY <2>1 DEF SetEffect
  <2>3. QED BY <1>9, <2>1, <2>2
<1>11. ASSUME NEW a \in Attempts,
              \/ OneRun(a) /\ UNCHANGED <<seen, completed, held>>
              \/ runs' \in [Attempts -> RunRecord] /\ UNCHANGED registry
       PROVE  WorkerTypes'
  BY <1>1, <1>2, <1>11 DEF OneRun, registry
<1>12. ASSUME NEW a \in Attempts, NEW reason \in Reasons, NEW throws \in BOOLEAN,
              Leaves(a, reason, throws)
       PROVE  runs' \in [Attempts -> RunRecord] /\ UNCHANGED registry
  BY <1>3, <1>12, RunForm DEF Leaves
<1>13. ASSUME NEW a \in Attempts, Load(a) PROVE WorkerTypes'
  <2>2. CASE Throws(a) \/ Ends(a, TRUE)
    BY <1>11, <2>2, ThrowsForm, EndsForm
  <2>3. CASE runs' = [runs EXCEPT ![a].pc = "admit", ![a].loaded = revision,
                              ![a].class = IF code THEN "read" ELSE "write"] /\ UNCHANGED registry
    BY <1>11, <2>3, LoadForm
  <2>4. QED BY <1>13, <2>2, <2>3 DEF Load
<1>14. ASSUME NEW a \in Attempts, Admit(a) PROVE WorkerTypes'
  <2>1. Throws(a) \/ Ends(a, TRUE) \/ Acquires(a)
    BY <1>14 DEF Admit
  <2>2. QED BY <1>11, <2>1, ThrowsForm, EndsForm, AcquiresForm
<1>15. ASSUME NEW a \in Attempts, Fence(a) PROVE WorkerTypes'
  BY <1>11, <1>15, EndsForm DEF Fence
<1>16. ASSUME NEW a \in Attempts, Prepare(a) PROVE WorkerTypes'
  <2>2. \/ Leaves(a, "aborted", FALSE) \/ Leaves(a, "failed", TRUE)
        \/ runs' = [runs EXCEPT ![a].pc = "episodes"] /\ UNCHANGED registry
    BY <1>16 DEF Prepare
  <2>3. runs' \in [Attempts -> RunRecord] /\ UNCHANGED registry
    BY <1>3, <1>12, <2>2, RunForm
  <2>4. QED BY <1>11, <2>3
<1>17. ASSUME NEW a \in Attempts, EndEpisodes(a) PROVE WorkerTypes'
  <2>2. PICK reason \in Reasons :
           \/ runs' = [runs EXCEPT ![a].pc = "commit", ![a].reason = reason] /\ UNCHANGED registry
           \/ Leaves(a, reason, FALSE) \/ Leaves(a, reason, TRUE)
    BY <1>3, <1>17 DEF EndEpisodes
  <2>3. runs' \in [Attempts -> RunRecord] /\ UNCHANGED registry
    BY <1>3, <1>12, <2>2, RunForm
  <2>4. QED BY <1>11, <2>3
<1>18. ASSUME NEW a \in Attempts, Commit(a) PROVE WorkerTypes'
  <2>2. Ends(a, TRUE) \/ Leaves(a, "failed", TRUE)
    BY <1>18 DEF Commit
  <2>3. QED BY <1>3, <1>11, <1>12, <2>2, EndsForm
<1>19. ASSUME NEW a \in Attempts, Settle(a) PROVE WorkerTypes'
  <2>2. Ends(a, FALSE) \/ Throws(a)
    BY <1>19 DEF Settle
  <2>3. QED BY <1>11, <2>2, EndsForm, ThrowsForm
<1>20. ASSUME NEW a \in Attempts, Inspect(a) PROVE WorkerTypes'
  BY <1>1, <1>2, <1>20 DEF Inspect
<1>21. ASSUME NEW a \in Attempts, Restore(a) PROVE WorkerTypes'
  <2>1. UNCHANGED <<epoch, seen, completed, bounds>> /\ held' = NoAttempt
    BY <1>21 DEF Restore
  <2>2. UNCHANGED <<turns, runs>> \/ Begin(a, TRUE)
    BY <1>21 DEF Restore
  <2>3. QED BY <1>1, <1>2, <2>1, <2>2, BeginForm DEF OneRun
<1>22. ASSUME NEW a \in Attempts, DismissRetry(a) \/ Abandon(a) PROVE WorkerTypes'
  BY <1>9, <1>22 DEF DismissRetry, Abandon
<1>23. CASE DeleteSession
  BY <1>1, <1>2, <1>23 DEF DeleteSession, registry
<1>25. QED
  BY <1>4, <1>5, <1>6, <1>7, <1>8, <1>10, <1>13, <1>14, <1>15, <1>16, <1>17, <1>18, <1>19,
     <1>20, <1>21, <1>22, <1>23
  DEF AgentNext, RunStep

-----------------------------------------------------------------------------
(* What is durable: the rows, what was asked for and what was written. *)
Durable ==
  /\ RowsInv /\ LaunchInv
  /\ WritersAreKnown /\ OthersDidNotWrite /\ PromptWritesOnce

(* A step in memory, or a new worker, leaves it as it is. *)
LEMMA DurableFrame ==
  ASSUME DurableTypes, WorkerTypes, Durable,
         UNCHANGED <<exists, revision, rows, launch, writes>>, epoch' \in Nat, epoch' >= epoch
  PROVE  Durable'
<1>1. LeasesPast'
  BY DEF Durable, RowsInv, LeasesPast, DurableTypes, WorkerTypes, RowRecord
<1>2. DeletedIsEmpty' /\ ActiveIsCurrent' /\ RetryIsCurrent'
  BY DEF Durable, RowsInv, DeletedIsEmpty, ActiveIsCurrent, RetryIsCurrent, Active, Retryable,
         DraftBase
<1>3. LaunchInv'
  BY DEF Durable, LaunchInv, LaunchesAsk, PromptsWereTried
<1>4. WritersAreKnown' /\ OthersDidNotWrite' /\ PromptWritesOnce'
  BY DEF Durable, WritersAreKnown, OthersDidNotWrite, PromptWritesOnce, Wrote
<1>5. QED BY <1>1, <1>2, <1>3, <1>4 DEF Durable, RowsInv

(* So does a new lease, and the end of an attempt. *)
LEMMA DurableEnd ==
  ASSUME DurableTypes, WorkerTypes, Durable, NEW a \in Attempts, OneRow(a),
         exists, UNCHANGED <<exists, revision, launch, writes, epoch>>,
         rows'[a].receipt = rows[a].receipt, rows'[a].lease <= epoch,
         \/ rows'[a].state = rows[a].state
         \/ rows'[a].state = "terminal" /\ rows[a].state # "none"
         \/ rows'[a].state = "uncertain" /\ rows[a].state = "running"
         \/ rows'[a].state = "retryable" /\ rows[a].state = "running" /\ writes[a] = 0
  PROVE  Durable'
<1>1. /\ \A b \in Attempts \ {a} : rows'[b] = rows[b]
      /\ rows'[a].class = rows[a].class
  BY DEF OneRow
<1>2. /\ \A b \in Attempts : rows'[b].receipt = rows[b].receipt
      /\ \A b \in Attempts : rows'[b].state = "none" <=> rows[b].state = "none"
      /\ \A b \in Attempts : rows'[b].class = rows[b].class
  BY <1>1
<1>3. \A b \in Attempts : Active(b)' => Active(b)
  BY <1>1 DEF Active
<1>4. \A b \in Attempts : Retryable(b)' => Retryable(b) \/ (b = a /\ Active(a) /\ writes[a] = 0)
  BY <1>1 DEF Retryable, Active
<1>5. ~ (Retryable(a)' /\ Active(a)')
  BY DEF Retryable, Active
<1>6. LeasesPast'
  BY <1>1 DEF Durable, RowsInv, LeasesPast
<1>7. DeletedIsEmpty'
  BY DEF DeletedIsEmpty
<1>8. ActiveIsCurrent'
  BY <1>2, <1>3 DEF Durable, RowsInv, ActiveIsCurrent
<1>9. \A b \in Attempts : DraftBase(b)' = DraftBase(b)
  BY <1>2 DEF DraftBase
<1>10. RetryIsCurrent'
  <2>1. SUFFICES ASSUME NEW b \in Attempts, Retryable(b)'
                 PROVE  /\ DraftBase(b) = revision
                        /\ \A c \in Attempts \ {b} : ~ Retryable(c)' /\ ~ Active(c)'
    BY <1>9 DEF RetryIsCurrent
  <2>2. CASE Retryable(b)
    BY <1>3, <1>4, <2>2 DEF Durable, RowsInv, RetryIsCurrent
  <2>3. CASE b = a /\ Active(a)
    BY <1>3, <1>4, <2>3 DEF Durable, RowsInv, RetryIsCurrent, ActiveIsCurrent, DraftBase
  <2>4. QED BY <1>4, <2>1, <2>2, <2>3
<1>11. LaunchInv'
  <2>1. LaunchesAsk'
    BY <1>2 DEF Durable, LaunchInv, LaunchesAsk
  <2>2. \A b \in Attempts : launch[b].prompt \in Attempts \cup {NoAttempt}
    BY DEF DurableTypes, LaunchRecord
  <2>3. PromptsWereTried'
    BY <1>2, <2>2 DEF Durable, LaunchInv, PromptsWereTried
  <2>4. QED BY <2>1, <2>3 DEF LaunchInv
<1>12. WritersAreKnown'
  <2>1. SUFFICES ASSUME NEW b \in Attempts, writes[b] > 0
                 PROVE  /\ launch[b] # NoLaunch
                        /\ rows'[b].state \notin {"none", "retryable"} /\ rows'[b].class = "write"
    BY DEF WritersAreKnown
  <2>2. /\ launch[b] # NoLaunch
        /\ rows[b].state \notin {"none", "retryable"} /\ rows[b].class = "write"
    BY <2>1 DEF Durable, WritersAreKnown
  <2>3. QED BY <1>2, <1>4, <2>1, <2>2 DEF Retryable
<1>13. OthersDidNotWrite'
  BY <1>1 DEF Durable, OthersDidNotWrite
<1>14. PromptWritesOnce'
  BY DEF Durable, PromptWritesOnce, Wrote
<1>15. QED BY <1>6, <1>7, <1>8, <1>10, <1>11, <1>12, <1>13, <1>14 DEF Durable, RowsInv

(* A page that asks for a turn. *)
LEMMA DurableStart ==
  ASSUME DurableTypes, WorkerTypes, Durable, NEW a \in Attempts, NEW l \in Launches(a),
         launch' = [launch EXCEPT ![a] = l],
         UNCHANGED <<exists, revision, rows, writes, epoch>>
  PROVE  Durable'
<1>1. CASE launch[a] # NoLaunch
  <2>1. launch' = launch
    BY <1>1 DEF Launches, DurableTypes
  <2>2. QED BY <2>1, DurableFrame DEF WorkerTypes
<1>2. CASE launch[a] = NoLaunch
  <2>1. rows[a].state = "none" /\ writes[a] = 0
    BY <1>2 DEF Durable, LaunchInv, LaunchesAsk, WritersAreKnown, DurableTypes
  <2>2. /\ l.base \in 0..revision
        /\ \/ l.source = NoAttempt /\ l.prompt = a
           \/ \E s \in Attempts : /\ l.source = s /\ l.prompt = launch[s].prompt
                                 /\ rows[s].state # "none"
    BY <1>2 DEF Launches
  <2>3. launch'[a] = l /\ \A b \in Attempts \ {a} : launch'[b] = launch[b]
    BY DEF DurableTypes
  <2>4. l.base # -1 /\ l.prompt # NoAttempt /\ (l.source = NoAttempt => l.prompt = a)
    BY <2>2, AgentAssumption DEF Durable, LaunchInv, LaunchesAsk, AgentAssumption, DurableTypes
  <2>5. l # NoLaunch
    BY <2>4 DEF NoLaunch
  <2>6. RowsInv'
    BY <2>1, <2>3
    DEF Durable, RowsInv, DeletedIsEmpty, LeasesPast, ActiveIsCurrent, RetryIsCurrent, Active,
        Retryable, DraftBase
  <2>7. LaunchesAsk'
    BY <2>3, <2>4, <2>5 DEF Durable, LaunchInv, LaunchesAsk
  <2>8. PromptsWereTried'
    <3>1. exists /\ l.prompt \notin {a, NoAttempt} => rows[l.prompt].state # "none"
      BY <2>2 DEF Durable, LaunchInv, PromptsWereTried
    <3>2. QED BY <2>3, <3>1 DEF Durable, LaunchInv, PromptsWereTried
  <2>9. WritersAreKnown' /\ OthersDidNotWrite' /\ PromptWritesOnce'
    BY <2>1, <2>3 DEF Durable, WritersAreKnown, OthersDidNotWrite, PromptWritesOnce, Wrote
  <2>10. QED BY <2>6, <2>7, <2>8, <2>9 DEF Durable, LaunchInv
<1>3. QED BY <1>1, <1>2

(* A new attempt, or the retry of one that is offered, begins to run. *)
LEMMA DurableAdmit ==
  ASSUME DurableTypes, WorkerTypes, Durable, NEW a \in Attempts,
         exists, rows[a].state = "none", Admissible(a), rows' = AdmittedRows(a),
         UNCHANGED <<exists, revision, launch, writes, epoch>>
  PROVE  Durable'
<1>1. /\ rows'[a].state = "running" /\ rows'[a].lease = epoch /\ rows'[a].receipt = 0
      /\ \A b \in Attempts \ {a} :
           /\ rows'[b].class = rows[b].class
           /\ IF Retryable(b) THEN rows'[b].state = "terminal" /\ rows'[b].lease = 0
                              ELSE rows'[b] = rows[b]
  BY AdmittedForm
<1>2. /\ launch[a].base = revision /\ \A b \in Attempts : ~ Active(b)
      /\ launch[a] # NoLaunch /\ writes[a] = 0
  <2>1. launch[a].base = revision /\ \A b \in Attempts : ~ Active(b)
    BY DEF Admissible
  <2>2. launch[a] # NoLaunch
    BY <2>1 DEF NoLaunch, DurableTypes
  <2>3. QED BY <2>1, <2>2 DEF Durable, WritersAreKnown, DurableTypes
<1>3. \A b \in Attempts \ {a} :
        /\ rows'[b].state = "none" <=> rows[b].state = "none"
        /\ ~ Active(b)' /\ ~ Retryable(b)'
        /\ rows'[b].lease <= rows[b].lease
  BY <1>1, <1>2 DEF Active, Retryable, DurableTypes, RowRecord
<1>4. ~ Retryable(a)'
  BY <1>1 DEF Retryable
<1>5. LeasesPast'
  BY <1>1, <1>3, AdmittedForm DEF Durable, RowsInv, LeasesPast, DurableTypes, WorkerTypes, RowRecord
<1>6. DeletedIsEmpty' /\ ActiveIsCurrent' /\ RetryIsCurrent'
  BY <1>1, <1>2, <1>3, <1>4 DEF DeletedIsEmpty, ActiveIsCurrent, RetryIsCurrent
<1>7. LaunchesAsk'
  BY <1>2, <1>3 DEF Durable, LaunchInv, LaunchesAsk
<1>8. PromptsWereTried'
  <2>1. \A b \in Attempts : launch[b].prompt \in Attempts \cup {NoAttempt}
    BY DEF DurableTypes, LaunchRecord
  <2>2. QED BY <1>1, <1>3, <2>1 DEF Durable, LaunchInv, PromptsWereTried
<1>9. \A b \in Attempts \ {a} : launch[b].prompt = launch[a].prompt => writes[b] = 0
  <2>1. SUFFICES ASSUME NEW b \in Attempts \ {a}, launch[b].prompt = launch[a].prompt
                 PROVE  writes[b] = 0
    OBVIOUS
  <2>2. CASE launch[a].source = NoAttempt
    <3>1. launch[b].prompt = a
      BY <1>2, <2>1, <2>2 DEF Durable, LaunchInv, LaunchesAsk
    <3>2. rows[launch[b].prompt].state # "none"
      BY <3>1, AgentAssumption DEF Durable, LaunchInv, PromptsWereTried, AgentAssumption
    <3>3. QED BY <3>1, <3>2
  <2>3. CASE launch[a].source # NoAttempt
    <3>1. PICK s \in Attempts : s = launch[a].source
      BY <2>3 DEF DurableTypes, LaunchRecord
    <3>2. Retryable(s) /\ launch[s].prompt = launch[a].prompt
      BY <2>3, <3>1 DEF Admissible, SourceStands
    <3>3. CASE b = s
      BY <3>2, <3>3 DEF Durable, WritersAreKnown, Retryable, DurableTypes
    <3>4. CASE b # s
      BY <2>1, <3>2, <3>4 DEF Durable, OthersDidNotWrite, Retryable
    <3>5. QED BY <3>3, <3>4
  <2>4. QED BY <2>2, <2>3
<1>10. WritersAreKnown'
  <2>1. SUFFICES ASSUME NEW b \in Attempts, writes[b] > 0
                 PROVE  /\ launch[b] # NoLaunch
                        /\ rows'[b].state \notin {"none", "retryable"} /\ rows'[b].class = "write"
    BY DEF WritersAreKnown
  <2>2. /\ launch[b] # NoLaunch /\ b # a
        /\ rows[b].state \notin {"none", "retryable"} /\ rows[b].class = "write"
    BY <1>2, <2>1 DEF Durable, WritersAreKnown
  <2>3. QED BY <1>1, <2>2 DEF Retryable
<1>11. OthersDidNotWrite'
  <2>1. \A b \in Attempts \ {a} : rows'[b].state \notin {"running", "retryable"}
    BY <1>3 DEF Active, Retryable
  <2>2. QED BY <1>9, <2>1 DEF OthersDidNotWrite
<1>12. PromptWritesOnce'
  BY DEF Durable, PromptWritesOnce, Wrote
<1>13. QED BY <1>5, <1>6, <1>7, <1>8, <1>10, <1>11, <1>12 DEF Durable, RowsInv, LaunchInv

(* The answer is committed: the one active attempt ends at a new revision. *)
LEMMA DurableCommit ==
  ASSUME DurableTypes, WorkerTypes, Durable, NEW a \in Attempts,
         exists, rows[a].state = "running",
         Outcome(a) = "retryable" => writes[a] = 0,
         rows' = [rows EXCEPT ![a] = [Ended(@, Outcome(a)) EXCEPT !.receipt = revision + 1]],
         revision' = revision + 1,
         UNCHANGED <<exists, launch, writes, epoch>>
  PROVE  Durable'
<1>1. /\ \A b \in Attempts \ {a} : rows'[b] = rows[b]
      /\ rows'[a].class = rows[a].class
      /\ rows'[a].state = Outcome(a) /\ rows'[a].lease = 0 /\ rows'[a].receipt = revision + 1
  BY CommitForm DEF OneRow
<1>2. Outcome(a) \in {"retryable", "committed", "terminal"}
  BY DEF Outcome
<1>3. /\ \A b \in Attempts : rows'[b].state = "none" <=> rows[b].state = "none"
      /\ \A b \in Attempts : rows'[b].class = rows[b].class
  BY <1>1, <1>2
<1>4. Active(a)
  BY DEF Active
<1>5. \A b \in Attempts : ~ Active(b)'
  BY <1>1, <1>2, <1>4 DEF Durable, RowsInv, ActiveIsCurrent, Active
<1>6. \A b \in Attempts \ {a} : ~ Retryable(b) /\ ~ Retryable(b)'
  BY <1>1, <1>4 DEF Durable, RowsInv, RetryIsCurrent, Retryable
<1>7. LeasesPast'
  BY <1>1 DEF Durable, RowsInv, LeasesPast, WorkerTypes
<1>8. DeletedIsEmpty' /\ ActiveIsCurrent'
  BY <1>5 DEF DeletedIsEmpty, ActiveIsCurrent
<1>9. RetryIsCurrent'
  <2>1. DraftBase(a)' = revision'
    BY <1>1 DEF DraftBase, DurableTypes
  <2>2. QED BY <1>5, <1>6, <2>1 DEF RetryIsCurrent
<1>10. LaunchInv'
  <2>1. LaunchesAsk'
    BY <1>3 DEF Durable, LaunchInv, LaunchesAsk
  <2>2. \A b \in Attempts : launch[b].prompt \in Attempts \cup {NoAttempt}
    BY DEF DurableTypes, LaunchRecord
  <2>3. PromptsWereTried'
    BY <1>3, <2>2 DEF Durable, LaunchInv, PromptsWereTried
  <2>4. QED BY <2>1, <2>3 DEF LaunchInv
<1>11. WritersAreKnown'
  <2>1. SUFFICES ASSUME NEW b \in Attempts, writes[b] > 0
                 PROVE  /\ launch[b] # NoLaunch
                        /\ rows'[b].state \notin {"none", "retryable"} /\ rows'[b].class = "write"
    BY DEF WritersAreKnown
  <2>2. /\ launch[b] # NoLaunch
        /\ rows[b].state \notin {"none", "retryable"} /\ rows[b].class = "write"
    BY <2>1 DEF Durable, WritersAreKnown
  <2>3. QED BY <1>1, <1>3, <2>1, <2>2
<1>12. OthersDidNotWrite'
  BY <1>1 DEF Durable, OthersDidNotWrite
<1>13. PromptWritesOnce'
  BY DEF Durable, PromptWritesOnce, Wrote
<1>14. QED BY <1>7, <1>8, <1>9, <1>10, <1>11, <1>12, <1>13 DEF Durable, RowsInv

(* The tool writes, for the first time for its prompt. *)
LEMMA DurableWrite ==
  ASSUME DurableTypes, WorkerTypes, Durable, NEW a \in Attempts,
         exists, rows[a].state = "running", rows[a].class = "write", writes[a] = 0,
         writes' = [writes EXCEPT ![a] = @ + 1],
         UNCHANGED <<exists, revision, rows, launch, epoch>>
  PROVE  Durable'
<1>1. writes'[a] = 1 /\ \A b \in Attempts \ {a} : writes'[b] = writes[b]
  BY DEF DurableTypes
<1>2. RowsInv'
  BY DEF Durable, RowsInv, DeletedIsEmpty, LeasesPast, ActiveIsCurrent, RetryIsCurrent, Active,
         Retryable, DraftBase
<1>3. LaunchInv'
  BY DEF Durable, LaunchInv, LaunchesAsk, PromptsWereTried
<1>4. WritersAreKnown'
  BY <1>1 DEF Durable, WritersAreKnown, LaunchInv, LaunchesAsk
<1>5. \A b \in Attempts \ {a} : ~ Active(b) /\ ~ Retryable(b)
  BY DEF Durable, RowsInv, ActiveIsCurrent, RetryIsCurrent, Active
<1>6. OthersDidNotWrite'
  <2>1. \A b \in Attempts \ {a} : rows[b].state \notin {"running", "retryable"}
    BY <1>5 DEF Active, Retryable
  <2>2. QED BY <1>1, <2>1 DEF Durable, OthersDidNotWrite
<1>7. PromptWritesOnce'
  <2>1. \A b \in Attempts \ {a} : launch[b].prompt = launch[a].prompt => writes[b] = 0
    BY DEF Durable, OthersDidNotWrite
  <2>2. \A b \in Attempts : writes'[b] <= 1
    BY <1>1 DEF Durable, PromptWritesOnce
  <2>3. ASSUME NEW b \in Wrote', NEW c \in Wrote', launch[b].prompt = launch[c].prompt
        PROVE  b = c
    <3>1. b \in Attempts /\ c \in Attempts /\ writes'[b] > 0 /\ writes'[c] > 0
      BY DEF Wrote
    <3>2. CASE b = a \/ c = a
      BY <1>1, <2>1, <2>3, <3>1, <3>2
    <3>3. CASE b # a /\ c # a
      BY <1>1, <2>3, <3>1, <3>3 DEF Durable, PromptWritesOnce, Wrote
    <3>4. QED BY <3>2, <3>3
  <2>4. QED BY <2>2, <2>3 DEF PromptWritesOnce
<1>8. QED BY <1>2, <1>3, <1>4, <1>6, <1>7 DEF Durable

(* The conversation is deleted. *)
LEMMA DurableDelete ==
  ASSUME DurableTypes, WorkerTypes, Durable,
         ~ exists', rows' = [a \in Attempts |-> NoRow],
         UNCHANGED <<revision, launch, writes, epoch>>
  PROVE  Durable'
<1>1. \A a \in Attempts : rows'[a].state = "none" /\ rows'[a].lease = 0
  BY DEF NoRow
<1>2. RowsInv'
  BY <1>1 DEF RowsInv, DeletedIsEmpty, LeasesPast, ActiveIsCurrent, RetryIsCurrent, Active,
              Retryable, WorkerTypes
<1>3. LaunchInv'
  BY <1>1 DEF Durable, LaunchInv, LaunchesAsk, PromptsWereTried
<1>4. WritersAreKnown' /\ OthersDidNotWrite' /\ PromptWritesOnce'
  BY <1>1 DEF Durable, WritersAreKnown, OthersDidNotWrite, PromptWritesOnce, Wrote
<1>5. QED BY <1>2, <1>3, <1>4 DEF Durable

-----------------------------------------------------------------------------
(* What is in memory. *)
Running == {"prepare", "episodes", "commit"}

(* Where a turn goes by a step of its own: it is over, or to be fenced, or   *)
(* one of the points further on.                                             *)
Over(a) ==
  /\ turns'[a].state = "terminal" /\ runs'[a].pc = "idle" /\ runs'[a].effect = "none"

Fenced(a) ==
  /\ turns'[a].state = turns[a].state /\ runs'[a].pc = "fence" /\ runs'[a].effect = "none"

HasLoaded(a) ==
  /\ turns'[a].state = turns[a].state /\ rows' = rows
  /\ runs[a].pc = "load" /\ runs'[a].pc = "admit"
  /\ runs'[a].effect = runs[a].effect /\ (runs'[a].class = "read" <=> code)

HasAcquired(a) ==
  /\ turns'[a].state = turns[a].state
  /\ runs[a].pc = "admit" /\ runs'[a].pc \in {"prepare", "settle"}
  /\ runs'[a].class = runs[a].class /\ runs'[a].effect = runs[a].effect

Goes(a) ==
  /\ turns'[a].state = turns[a].state
  /\ runs[a].pc \in Running /\ runs'[a].pc \in Running \cup {"settle"}
  /\ runs'[a].class = runs[a].class
  /\ runs'[a].effect # "none" => runs[a].effect # "none" \/ runs[a].class = "write"
  /\ runs'[a].effect \in Unwritten => runs[a].effect \in Unwritten /\ writes' = writes

Advance(a) ==
  /\ OneRun(a) /\ UNCHANGED <<seen, completed, held>> /\ runs[a].pc # "idle"
  /\ Over(a) \/ Fenced(a) \/ HasLoaded(a) \/ HasAcquired(a) \/ Goes(a)

(* Every step of a run is one of the advances. *)
LEMMA Advances ==
  ASSUME DurableTypes, WorkerTypes, NEW a \in Attempts, RunStep(a)
  PROVE  Advance(a)
<1>1. NoRun.pc = "idle" /\ NoRun.effect = "none"
  BY DEF NoRun
<1>2. ASSUME \/ \E applied \in BOOLEAN : Ends(a, applied)
             \/ Throws(a),
             runs[a].pc # "idle"
      PROVE  Advance(a)
  BY <1>1, <1>2, EndsForm, ThrowsForm DEF Advance, Over, Fenced
<1>3. /\ {"admit", "prepare", "episodes", "commit", "settle"} \subseteq Points
      /\ {"failed", "final_answer", "aborted"} \subseteq Reasons
      /\ {"authorized", "started", "failed", "written", "committed", "unknown"} \subseteq Effects
  BY DEF Points, Reasons, Effects
<1>4. runs \in [Attempts -> RunRecord] /\ turns \in [Attempts -> TurnRecord]
  BY DEF WorkerTypes
<1>5. CASE Load(a)
  <2>1. runs[a].pc = "load" /\ runs[a].pc # "idle" /\ rows' = rows
    BY <1>5 DEF Load
  <2>2. CASE Throws(a) \/ Ends(a, TRUE)
    BY <1>2, <2>1, <2>2
  <2>3. CASE runs' = [runs EXCEPT ![a].pc = "admit", ![a].loaded = revision,
                              ![a].class = IF code THEN "read" ELSE "write"] /\ UNCHANGED registry
    BY <1>4, <2>1, <2>3, LoadForm DEF Advance, HasLoaded, OneRun, registry
  <2>4. QED BY <1>5, <2>2, <2>3 DEF Load
<1>6. CASE Admit(a)
  <2>1. runs[a].pc = "admit" /\ runs[a].pc # "idle"
    BY <1>6 DEF Admit
  <2>2. CASE Throws(a) \/ Ends(a, TRUE)
    BY <1>2, <2>1, <2>2
  <2>3. CASE Acquires(a)
    BY <2>1, <2>3, AcquiresForm DEF Advance, HasAcquired
  <2>4. QED BY <1>6, <2>2, <2>3 DEF Admit
<1>7. ASSUME NEW pc \in {"episodes", "commit", "settle"}, NEW reason \in Reasons,
             NEW throws \in BOOLEAN,
             \/ runs' = [runs EXCEPT ![a].pc = pc, ![a].reason = reason, ![a].throws = throws]
             \/ runs' = [runs EXCEPT ![a].pc = pc, ![a].reason = reason]
             \/ runs' = [runs EXCEPT ![a].pc = pc],
             UNCHANGED registry, UNCHANGED writes, runs[a].pc \in Running
      PROVE  Advance(a)
  <2>1. /\ runs' \in [Attempts -> RunRecord]
        /\ runs'[a].pc = pc /\ runs'[a].class = runs[a].class /\ runs'[a].effect = runs[a].effect
        /\ \A b \in Attempts \ {a} : runs'[b] = runs[b]
    <3>1. pc \in Points
      BY <1>3
    <3>2. CASE runs' = [runs EXCEPT ![a].pc = pc, ![a].reason = reason, ![a].throws = throws]
      BY <3>1, <3>2, RunForm
    <3>3. CASE runs' = [runs EXCEPT ![a].pc = pc, ![a].reason = reason]
      BY <3>1, <3>3, RunForm
    <3>4. CASE runs' = [runs EXCEPT ![a].pc = pc]
      BY <3>1, <3>4, RunForm
    <3>5. QED BY <1>7, <3>2, <3>3, <3>4
  <2>2. UNCHANGED <<turns, seen, completed, held>>
    BY <1>7 DEF registry
  <2>3. Goes(a)
    BY <1>7, <2>1, <2>2 DEF Goes, Running
  <2>4. OneRun(a)
    BY <1>4, <2>1, <2>2 DEF OneRun
  <2>5. QED BY <1>7, <2>2, <2>3, <2>4 DEF Advance, Running
<1>8. CASE Prepare(a)
  <2>1. runs[a].pc \in Running /\ UNCHANGED writes
    BY <1>8 DEF Prepare, Running
  <2>2. CASE Leaves(a, "aborted", FALSE) \/ Leaves(a, "failed", TRUE)
    BY <1>3, <1>7, <2>1, <2>2 DEF Leaves
  <2>3. CASE runs' = [runs EXCEPT ![a].pc = "episodes"] /\ UNCHANGED registry
    BY <1>3, <1>7, <2>1, <2>3
  <2>4. QED BY <1>8, <2>2, <2>3 DEF Prepare
<1>9. CASE EndEpisodes(a)
  <2>1. runs[a].pc \in Running /\ UNCHANGED writes
    BY <1>9 DEF EndEpisodes, Running
  <2>2. PICK reason \in Reasons :
           \/ runs' = [runs EXCEPT ![a].pc = "commit", ![a].reason = reason] /\ UNCHANGED registry
           \/ Leaves(a, reason, FALSE) \/ Leaves(a, reason, TRUE)
    BY <1>3, <1>9 DEF EndEpisodes
  <2>3. QED BY <1>7, <2>1, <2>2 DEF Leaves
<1>10. CASE Commit(a)
  <2>1. runs[a].pc \in Running /\ runs[a].pc # "idle" /\ UNCHANGED writes
    BY <1>10 DEF Commit, Running
  <2>2. CASE Ends(a, TRUE)
    BY <1>2, <2>1, <2>2
  <2>3. CASE Leaves(a, "failed", TRUE)
    BY <1>3, <1>7, <2>1, <2>3 DEF Leaves
  <2>4. QED BY <1>10, <2>2, <2>3 DEF Commit
<1>11. CASE Settle(a)
  BY <1>2, <1>11 DEF Settle
<1>12. CASE Fence(a)
  BY <1>2, <1>12 DEF Fence
<1>13. ASSUME NEW effect \in Effects, SetEffect(a, effect), runs[a].pc = "episodes",
              runs[a].effect # "none" \/ runs[a].class = "write",
              effect \in Unwritten => runs[a].effect \in Unwritten /\ writes' = writes
       PROVE  Advance(a)
  <2>1. /\ runs' \in [Attempts -> RunRecord]
        /\ runs'[a].pc = runs[a].pc /\ runs'[a].class = runs[a].class
        /\ runs'[a].effect = effect
        /\ \A b \in Attempts \ {a} : runs'[b] = runs[b]
    BY <1>13, SetEffectForm
  <2>2. UNCHANGED <<turns, seen, completed, held>>
    BY <1>13 DEF SetEffect, registry
  <2>3. Goes(a)
    BY <1>13, <2>1, <2>2 DEF Goes, Running
  <2>4. OneRun(a)
    BY <1>4, <2>1, <2>2 DEF OneRun
  <2>5. QED BY <1>13, <2>2, <2>3, <2>4 DEF Advance
<1>14. CASE CallTool(a)
  BY <1>3, <1>13, <1>14 DEF CallTool, MayExecute, Unwritten
<1>15. CASE JobRefuses(a)
  BY <1>3, <1>13, <1>15 DEF JobRefuses, Unwritten
<1>16. CASE JobStarts(a)
  BY <1>3, <1>13, <1>16 DEF JobStarts, Unwritten
<1>17. CASE JobWrites(a)
  BY <1>3, <1>13, <1>17 DEF JobWrites, Unwritten
<1>18. CASE JobFindsNothing(a)
  BY <1>3, <1>13, <1>18 DEF JobFindsNothing, Unwritten
<1>19. CASE CallThrows(a)
  BY <1>3, <1>13, <1>19 DEF CallThrows, Unwritten
<1>20. CASE CallReturns(a)
  BY <1>3, <1>13, <1>20 DEF CallReturns, Unwritten
<1>21. QED
  BY <1>5, <1>6, <1>8, <1>9, <1>10, <1>11, <1>12, <1>14, <1>15, <1>16, <1>17, <1>18, <1>19, <1>20
  DEF RunStep

(* A turn that runs is the one the registry holds. *)
LEMMA Alone ==
  ASSUME RegistryInv, NEW a \in Attempts, runs[a].pc # "idle"
  PROVE  /\ turns[a].state = "active" /\ Registered = {a} /\ held = NoAttempt
         /\ \A b \in Attempts \ {a} : turns[b].state = "none" /\ runs[b].pc = "idle"
<1>1. turns[a].state = "active" /\ a \in Registered /\ a \in Answering
  BY DEF RegistryInv, RunsAreActive, Registered, Answering
<1>2. Registered = {a}
  BY <1>1 DEF RegistryInv, OneRegistered, Registered
<1>3. held = NoAttempt
  BY <1>1 DEF RegistryInv, HeldAlone
<1>4. \A b \in Attempts \ {a} : turns[b].state = "none"
  BY <1>2 DEF Registered
<1>5. QED BY <1>1, <1>2, <1>3, <1>4 DEF RegistryInv, RunsAreActive

(* The registry is kept by every action. *)
LEMMA RegistryStep ==
  ASSUME DurableTypes, WorkerTypes, RegistryInv, AgentNext
  PROVE  RegistryInv'
<1>1. ASSUME NEW a \in Attempts, held' = NoAttempt,
             \A b \in Attempts \ {a} : turns'[b].state = "none" /\ runs'[b].pc = "idle",
             runs'[a].pc # "idle" => turns'[a].state = "active"
      PROVE  RegistryInv'
  BY <1>1 DEF RegistryInv, OneRegistered, RunsAreActive, HeldAlone, Registered
<1>2. turns \in [Attempts -> TurnRecord] /\ runs \in [Attempts -> RunRecord]
  BY DEF WorkerTypes
<1>3. ASSUME NEW a \in Attempts, RunStep(a) PROVE RegistryInv'
  <2>1. Advance(a)
    BY <1>3, Advances
  <2>2. runs[a].pc # "idle"
    BY <2>1 DEF Advance
  <2>3. /\ turns[a].state = "active" /\ held = NoAttempt
        /\ \A b \in Attempts \ {a} : turns[b].state = "none" /\ runs[b].pc = "idle"
    BY <2>2, Alone
  <2>4. /\ held' = NoAttempt
        /\ \A b \in Attempts \ {a} : turns'[b] = turns[b] /\ runs'[b] = runs[b]
    BY <2>1, <2>3 DEF Advance, OneRun
  <2>5. runs'[a].pc # "idle" => turns'[a].state = "active"
    BY <2>1, <2>3 DEF Advance, Over, Fenced, HasLoaded, HasAcquired, Goes
  <2>6. QED BY <1>1, <2>3, <2>4, <2>5
<1>4. ASSUME NEW a \in Attempts, Start(a) \/ StartStopped(a) PROVE RegistryInv'
  <2>1. held = NoAttempt /\ held' = held /\ Registered = {}
    BY <1>4 DEF Start, StartStopped, Admitted
  <2>2. \A b \in Attempts : turns[b].state = "none" /\ runs[b].pc = "idle"
    BY <2>1 DEF Registered, RegistryInv, RunsAreActive
  <2>3. CASE Start(a)
    <3>1. Begin(a, FALSE)
      BY <2>3 DEF Start
    <3>2. OneRun(a) /\ turns'[a].state = "active"
      BY <3>1, BeginForm
    <3>3. QED BY <1>1, <2>1, <2>2, <3>2 DEF OneRun
  <2>4. CASE StartStopped(a)
    BY <1>1, <1>2, <2>1, <2>2, <2>4 DEF StartStopped
  <2>5. QED BY <1>4, <2>3, <2>4
<1>5. ASSUME NEW a \in Attempts, Stop(a) PROVE RegistryInv'
  <2>1. /\ turns[a].state = "active" /\ held = NoAttempt
        /\ \A b \in Attempts \ {a} : turns[b].state = "none" /\ runs[b].pc = "idle"
    BY <1>5, Alone DEF Stop
  <2>2. turns' = turns /\ held' = held /\ \A b \in Attempts \ {a} : runs'[b] = runs[b]
    BY <1>5, StopForm DEF Stop, registry
  <2>3. QED BY <1>1, <2>1, <2>2
<1>6. ASSUME NEW a \in Attempts, Acknowledge(a) \/ Finalize(a) PROVE RegistryInv'
  <2>1. /\ turns[a].state \in {"terminal", "acked"} /\ a \in Registered
        /\ runs' = runs /\ held' = held
    BY <1>6 DEF Acknowledge, Finalize, Registered
  <2>2. runs[a].pc = "idle"
    BY <2>1 DEF RegistryInv, RunsAreActive
  <2>3. /\ turns'[a].state \in {"acked", "none"}
        /\ \A b \in Attempts \ {a} : turns'[b] = turns[b]
    <3>1. CASE Acknowledge(a)
      BY <1>2, <3>1 DEF Acknowledge, TurnRecord
    <3>2. CASE Finalize(a)
      BY <1>2, <3>2 DEF Finalize, NoTurn
    <3>3. QED BY <1>6, <3>1, <3>2
  <2>4. \A b \in Attempts \ {a} : turns[b].state = "none"
    BY <2>1 DEF RegistryInv, OneRegistered, Registered
  <2>5. OneRegistered'
    BY <2>3, <2>4 DEF OneRegistered, Registered
  <2>6. RunsAreActive'
    BY <2>1, <2>2, <2>3 DEF RegistryInv, RunsAreActive
  <2>7. HeldAlone'
    BY <2>1, <2>3, <2>4 DEF HeldAlone, Answering
  <2>8. QED BY <2>5, <2>6, <2>7 DEF RegistryInv
<1>7. ASSUME NEW a \in Attempts, Inspect(a) PROVE RegistryInv'
  BY <1>7 DEF Inspect, RegistryInv, OneRegistered, RunsAreActive, HeldAlone, Registered, Answering
<1>8. ASSUME UNCHANGED <<turns, runs>>, held' \in {held, NoAttempt} PROVE RegistryInv'
  BY <1>8 DEF RegistryInv, OneRegistered, RunsAreActive, HeldAlone, Registered, Answering
<1>9. ASSUME NEW a \in Attempts, Restore(a) PROVE RegistryInv'
  <2>1. held' = NoAttempt
    BY <1>9 DEF Restore
  <2>2. CASE UNCHANGED <<turns, runs>>
    BY <1>8, <2>1, <2>2
  <2>3. CASE Registered = {} /\ Begin(a, TRUE)
    <3>1. \A b \in Attempts : turns[b].state = "none" /\ runs[b].pc = "idle"
      BY <2>3 DEF Registered, RegistryInv, RunsAreActive
    <3>2. OneRun(a) /\ turns'[a].state = "active"
      BY <2>3, BeginForm
    <3>3. QED BY <1>1, <2>1, <3>1, <3>2 DEF OneRun
  <2>4. QED BY <1>9, <2>2, <2>3 DEF Restore
<1>10. ASSUME NEW a \in Attempts, DismissRetry(a) \/ Abandon(a) PROVE RegistryInv'
  BY <1>8, <1>10 DEF DismissRetry, Abandon, registry
<1>11. CASE DeleteSession
  BY <1>8, <1>11 DEF DeleteSession, registry
<1>12. CASE Crash
  BY <1>12 DEF Crash, NoTurn, NoRun, RegistryInv, OneRegistered, RunsAreActive, HeldAlone,
               Registered
<1>13. QED
  BY <1>3, <1>4, <1>5, <1>6, <1>7, <1>9, <1>10, <1>11, <1>12 DEF AgentNext

-----------------------------------------------------------------------------
(* What is durable is kept by every action. *)
LEMMA DurableStep ==
  ASSUME AgentInv, AgentNext
  PROVE  Durable'
<1>1. /\ DurableTypes /\ WorkerTypes /\ RegistryInv /\ Durable
      /\ RunnerHoldsLease /\ ClassIsCode /\ LedgerCounts /\ WritersRunOnce
  BY DEF AgentInv, WriteInv, Durable
<1>2. epoch \in Nat /\ code \in BOOLEAN /\ writes \in [Attempts -> Nat]
  BY <1>1 DEF WorkerTypes, DurableTypes
<1>3. CASE Crash
  <2>1. epoch' \in Nat /\ epoch' >= epoch
    BY <1>2, <1>3 DEF Crash
  <2>2. QED BY <1>1, <1>3, <2>1, DurableFrame DEF Crash, session
<1>4. CASE DeleteSession
  BY <1>1, <1>4, DurableDelete DEF DeleteSession
<1>5. ASSUME UNCHANGED <<exists, revision, rows, launch, writes>>, epoch' = epoch PROVE Durable'
  BY <1>1, <1>2, <1>5, DurableFrame
<1>6. ASSUME NEW a \in Attempts, Start(a) \/ StartStopped(a) PROVE Durable'
  <2>1. PICK l \in Launches(a) : launch' = [launch EXCEPT ![a] = l]
    BY <1>6 DEF Start, StartStopped
  <2>2. UNCHANGED <<exists, revision, rows, writes, epoch>>
    BY <1>6 DEF Start, StartStopped, session
  <2>3. QED BY <1>1, <2>1, <2>2, DurableStart
<1>7. ASSUME NEW a \in Attempts,
             \/ Stop(a) \/ Acknowledge(a) \/ Finalize(a) \/ Load(a) \/ CallTool(a)
             \/ JobRefuses(a) \/ JobStarts(a) \/ JobFindsNothing(a) \/ CallThrows(a)
             \/ CallReturns(a) \/ EndEpisodes(a)
      PROVE  Durable'
  <2>1. UNCHANGED <<session, rows, launch, writes, epoch>>
    BY <1>7
    DEF Stop, Acknowledge, Finalize, Load, CallTool, JobRefuses, JobStarts, JobFindsNothing,
        CallThrows, CallReturns, EndEpisodes, SetEffect
  <2>2. QED BY <1>5, <2>1 DEF session
<1>8. ASSUME NEW a \in Attempts, JobWrites(a) PROVE Durable'
  <2>1. /\ runs[a].pc = "episodes" /\ runs[a].effect = "started"
        /\ writes' = [writes EXCEPT ![a] = @ + 1]
        /\ UNCHANGED <<session, rows, launch, epoch>>
    BY <1>8 DEF JobWrites, SetEffect
  <2>2. exists /\ rows[a].state = "running"
    BY <1>1, <2>1 DEF RunnerHoldsLease
  <2>3. rows[a].class = "write"
    <3>1. runs[a].class = "write"
      BY <1>1, <2>1 DEF LedgerCounts
    <3>2. ~ code
      BY <1>1, <2>1, <3>1 DEF ClassIsCode, Prepared
    <3>3. rows[a].class # "read"
      BY <1>1, <3>2 DEF ClassIsCode
    <3>4. QED BY <1>1, <3>3 DEF DurableTypes, RowRecord
  <2>4. writes[a] = 0
    BY <1>1, <2>1 DEF LedgerCounts, Prepared, Unwritten
  <2>5. QED BY <1>1, <2>1, <2>2, <2>3, <2>4, DurableWrite DEF session
<1>9. ASSUME NEW a \in Attempts, rows[a].state = "running", exists,
             rows' = [rows EXCEPT ![a].lease = epoch],
             UNCHANGED <<exists, revision, launch, writes, epoch>>
      PROVE  Durable'
  <2>1. /\ OneRow(a) /\ rows'[a].state = "running" /\ rows'[a].lease = epoch
        /\ rows'[a].receipt = rows[a].receipt
    BY <1>1, <1>2, <1>9, LeaseForm
  <2>2. rows'[a].lease <= epoch
    BY <1>2, <2>1
  <2>3. QED BY <1>1, <1>9, <2>1, <2>2, DurableEnd
<1>10. ASSUME NEW a \in Attempts, NEW s \in RowStates, exists,
              rows' = [rows EXCEPT ![a] = Ended(rows[a], s)],
              \/ s = "terminal" /\ rows[a].state # "none"
              \/ s = "uncertain" /\ rows[a].state = "running"
              \/ s = "retryable" /\ rows[a].state = "running" /\ writes[a] = 0,
              UNCHANGED <<exists, revision, launch, writes, epoch>>
      PROVE  Durable'
  <2>1. /\ OneRow(a) /\ rows'[a].state = s /\ rows'[a].lease = 0
        /\ rows'[a].receipt = rows[a].receipt
    BY <1>1, <1>10, EndedForm
  <2>2. rows'[a].lease <= epoch
    BY <1>2, <2>1
  <2>3. QED BY <1>1, <1>10, <2>1, <2>2, DurableEnd
<1>11. {"terminal", "uncertain", "retryable"} \subseteq RowStates
  BY DEF RowStates
<1>12. ASSUME NEW a \in Attempts, Admit(a) PROVE Durable'
  <2>1. UNCHANGED <<exists, revision, launch, writes, epoch>>
    BY <1>12 DEF Admit, session
  <2>2. CASE rows' = rows
    BY <1>5, <2>1, <2>2
  <2>3. CASE exists /\ Resumable(a) /\ rows' = [rows EXCEPT ![a].lease = epoch]
    BY <1>9, <2>1, <2>3 DEF Resumable
  <2>4. CASE exists /\ rows[a].state = "none" /\ Admissible(a) /\ rows' = AdmittedRows(a)
    BY <1>1, <2>1, <2>4, DurableAdmit
  <2>5. QED BY <1>12, <2>2, <2>3, <2>4 DEF Admit
<1>13. ASSUME NEW a \in Attempts, Prepare(a) PROVE Durable'
  <2>1. UNCHANGED <<exists, revision, launch, writes, epoch>>
    BY <1>13 DEF Prepare, session
  <2>2. \/ rows' = rows
        \/ exists /\ rows[a].state = "running" /\ rows' = [rows EXCEPT ![a].lease = epoch]
    BY <1>13 DEF Prepare
  <2>3. QED BY <1>5, <1>9, <2>1, <2>2
<1>14. ASSUME NEW a \in Attempts, runs[a].pc \in Prepared \ {"admit"}, MayRetry(a)
       PROVE  writes[a] = 0
  BY <1>1, <1>14 DEF MayRetry, Unsafe, LedgerCounts, Unwritten
<1>15. ASSUME NEW a \in Attempts, Commit(a) PROVE Durable'
  <2>1. UNCHANGED <<exists, launch, writes, epoch>> /\ runs[a].pc = "commit"
    BY <1>15 DEF Commit, session
  <2>2. CASE UNCHANGED <<session, rows>>
    BY <1>5, <2>1, <2>2 DEF session
  <2>3. CASE /\ CommitStands(a) /\ revision' = revision + 1
             /\ rows' = [rows EXCEPT ![a] = [Ended(@, Outcome(a)) EXCEPT !.receipt = revision + 1]]
    <3>1. exists /\ rows[a].state = "running"
      BY <1>1, <2>1 DEF RunnerHoldsLease
    <3>2. Outcome(a) = "retryable" => writes[a] = 0
      BY <1>14, <2>1 DEF Outcome, Prepared
    <3>3. QED BY <1>1, <2>1, <2>3, <3>1, <3>2, DurableCommit
  <2>4. QED BY <1>15, <2>2, <2>3 DEF Commit
<1>16. ASSUME NEW a \in Attempts, Settle(a) PROVE Durable'
  <2>1. UNCHANGED <<exists, revision, launch, writes, epoch>> /\ runs[a].pc = "settle"
    BY <1>16 DEF Settle, session
  <2>2. CASE rows' = rows
    BY <1>5, <2>1, <2>2
  <2>3. CASE SettleStands(a) /\ rows' = [rows EXCEPT ![a] = Settled(a)]
    <3>1. exists /\ rows[a].state = "running"
      BY <2>3 DEF SettleStands
    <3>2. CASE MayRetry(a)
      <4>1. writes[a] = 0
        BY <1>14, <2>1, <3>2 DEF Prepared
      <4>2. rows' = [rows EXCEPT ![a] = Ended(rows[a], "retryable")]
        BY <2>3, <3>2 DEF Settled
      <4>3. QED BY <1>10, <1>11, <2>1, <3>1, <4>1, <4>2
    <3>3. CASE ~ MayRetry(a)
      <4>1. rows' = [rows EXCEPT ![a] = Ended(rows[a], "terminal")]
        BY <2>3, <3>3 DEF Settled
      <4>2. QED BY <1>10, <1>11, <2>1, <3>1, <4>1
    <3>4. QED BY <3>2, <3>3
  <2>4. QED BY <1>16, <2>2, <2>3 DEF Settle
<1>17. ASSUME NEW a \in Attempts, Fence(a) \/ Restore(a) PROVE Durable'
  <2>1. UNCHANGED <<exists, revision, launch, writes, epoch>>
    BY <1>17 DEF Fence, Restore, session
  <2>2. CASE rows' = rows
    BY <1>5, <2>1, <2>2
  <2>3. CASE Claimed(a) /\ rows' = [rows EXCEPT ![a] = Ended(rows[a], "uncertain")]
    BY <1>10, <1>11, <2>1, <2>3 DEF Claimed
  <2>4. QED BY <1>17, <2>2, <2>3 DEF Fence, Restore, RolledBack, Uncertain
<1>18. ASSUME NEW a \in Attempts, Inspect(a) PROVE Durable'
  <2>1. UNCHANGED <<exists, revision, launch, writes, epoch>>
    BY <1>18 DEF Inspect, session
  <2>2. /\ exists /\ rows[a].state = "running"
        /\ \/ rows' = [rows EXCEPT ![a].lease = epoch]
           \/ rows' = [rows EXCEPT ![a] = Ended(rows[a], "uncertain")]
    BY <1>18 DEF Inspect, Uncertain
  <2>3. QED BY <1>9, <1>10, <1>11, <2>1, <2>2
<1>19. ASSUME NEW a \in Attempts, DismissRetry(a) \/ Abandon(a) PROVE Durable'
  <2>1. UNCHANGED <<exists, revision, launch, writes, epoch>>
    BY <1>19 DEF DismissRetry, Abandon, session
  <2>2. /\ exists /\ rows[a].state # "none"
        /\ rows' = [rows EXCEPT ![a] = Ended(rows[a], "terminal")]
    BY <1>19 DEF DismissRetry, Abandon, Retryable
  <2>3. QED BY <1>10, <1>11, <2>1, <2>2
<1>20. QED
  BY <1>3, <1>4, <1>6, <1>7, <1>8, <1>12, <1>13, <1>15, <1>16, <1>17, <1>18, <1>19
  DEF AgentNext, RunStep

-----------------------------------------------------------------------------
(* Nothing runs while the registry is empty or a recovery looks at the rows. *)
LEMMA NobodyRuns ==
  ASSUME RegistryInv, Registered = {} \/ Answering = {} \/ held # NoAttempt
  PROVE  \A a \in Attempts : runs[a].pc = "idle"
BY DEF RegistryInv, RunsAreActive, HeldAlone, Registered, Answering

(* A step of a turn leaves the other turns idle. *)
LEMMA OthersIdle ==
  ASSUME DurableTypes, WorkerTypes, RegistryInv, NEW a \in Attempts, RunStep(a)
  PROVE  /\ runs[a].pc # "idle" /\ Registered = {a} /\ held = NoAttempt
         /\ \A b \in Attempts \ {a} :
              turns'[b] = turns[b] /\ runs'[b] = runs[b] /\ runs[b].pc = "idle"
BY Advances, Alone DEF Advance, OneRun

(* A turn that runs holds its lease, whatever else happens. *)
LEMMA LeaseStep ==
  ASSUME AgentInv, AgentNext
  PROVE  RunnerHoldsLease'
<1>1. /\ DurableTypes /\ WorkerTypes /\ RegistryInv /\ RunnerHoldsLease
      /\ epoch \in Nat
  BY DEF AgentInv, WorkerTypes
<1>2. ASSUME \A a \in Attempts : runs'[a].pc \notin Running PROVE RunnerHoldsLease'
  BY <1>2 DEF RunnerHoldsLease, Running
<1>3. CASE Crash
  <2>1. \A a \in Attempts : runs'[a].pc = "idle"
    BY <1>3 DEF Crash, NoRun
  <2>2. QED BY <1>2, <2>1 DEF Running
<1>4. epoch' = epoch \/ Crash
  BY SameWorker
<1>5. ASSUME NEW a \in Attempts, epoch' = epoch,
             \A b \in Attempts \ {a} : runs'[b].pc = "idle",
             runs'[a].pc \in Running =>
               /\ exists' /\ rows'[a].state = "running" /\ rows'[a].lease = epoch
               /\ \A b \in Attempts \ {a} : ~ Active(b)'
      PROVE  RunnerHoldsLease'
  BY <1>5 DEF RunnerHoldsLease, Running
<1>6. ASSUME NEW a \in Attempts, RunStep(a) PROVE RunnerHoldsLease'
  <2>1. /\ runs[a].pc # "idle"
        /\ \A b \in Attempts \ {a} : runs'[b] = runs[b] /\ runs[b].pc = "idle"
    BY <1>1, <1>6, OthersIdle
  <2>2. Advance(a)
    BY <1>1, <1>6, Advances
  <2>3. CASE runs'[a].pc \notin Running
    BY <1>2, <2>1, <2>3 DEF Running
  <2>4. CASE runs'[a].pc \in Running
    <3>1. epoch' = epoch
      BY <1>6 DEF RunStep, Load, Admit, Prepare, CallTool, JobRefuses, JobStarts, JobWrites,
                  JobFindsNothing, CallThrows, CallReturns, EndEpisodes, Commit, Settle, Fence,
                  SetEffect
    <3>2. \/ HasAcquired(a) /\ runs[a].pc = "admit"
          \/ Goes(a) /\ runs[a].pc \in Running
      BY <2>2, <2>4 DEF Advance, Over, Fenced, HasLoaded, HasAcquired, Goes, Running
    <3>3. ASSUME runs[a].pc \in Running, exists' = exists,
                 rows' = rows \/ rows' = [rows EXCEPT ![a].lease = epoch]
          PROVE  RunnerHoldsLease'
      <4>1. /\ exists /\ rows[a].state = "running" /\ rows[a].lease = epoch
            /\ \A b \in Attempts \ {a} : ~ Active(b)
        BY <1>1, <3>3 DEF RunnerHoldsLease, Running
      <4>2. /\ rows'[a].state = "running" /\ rows'[a].lease = epoch
            /\ \A b \in Attempts \ {a} : rows'[b] = rows[b]
        BY <1>1, <3>3, <4>1, LeaseForm DEF OneRow
      <4>3. QED BY <1>5, <2>1, <3>1, <3>3, <4>1, <4>2 DEF Active
    <3>4. CASE runs[a].pc = "admit" /\ HasAcquired(a)
      <4>1. exists' = exists /\ Admit(a)
        BY <1>6, <3>4
        DEF RunStep, Load, Admit, Prepare, CallTool, JobRefuses, JobStarts, JobWrites,
            JobFindsNothing, CallThrows, CallReturns, EndEpisodes, Commit, Settle, Fence, session
      <4>2. CASE /\ exists /\ rows[a].state = "running"
                 /\ rows' = [rows EXCEPT ![a].lease = epoch]
        <5>1. /\ rows'[a].state = "running" /\ rows'[a].lease = epoch
              /\ \A b \in Attempts \ {a} : rows'[b] = rows[b]
          BY <1>1, <4>2, LeaseForm DEF OneRow
        <5>2. \A b \in Attempts \ {a} : ~ Active(b)
          BY <4>2 DEF AgentInv, RowsInv, ActiveIsCurrent, Active
        <5>3. QED BY <1>5, <2>1, <3>1, <4>1, <4>2, <5>1, <5>2 DEF Active
      <4>3. CASE exists /\ Admissible(a) /\ rows' = AdmittedRows(a)
        <5>1. /\ rows'[a].state = "running" /\ rows'[a].lease = epoch
              /\ \A b \in Attempts \ {a} : rows'[b].state = "terminal" \/ rows'[b] = rows[b]
          BY <1>1, <4>3, AdmittedForm
        <5>2. \A b \in Attempts : ~ Active(b)
          BY <4>3 DEF Admissible
        <5>3. QED BY <1>5, <2>1, <3>1, <4>1, <4>3, <5>1, <5>2 DEF Active
      <4>4. CASE Throws(a) \/ Ends(a, TRUE)
        <5>1. NoRun.pc = "idle"
          BY DEF NoRun
        <5>2. runs'[a].pc \in {"idle", "fence"}
          BY <1>1, <4>4, <5>1, ThrowsForm, EndsForm
        <5>3. QED BY <2>4, <5>2 DEF Running
      <4>5. QED BY <4>1, <4>2, <4>3, <4>4 DEF Admit, Resumable
    <3>5. CASE runs[a].pc \in Running /\ Goes(a)
      <4>1. CASE Prepare(a)
        BY <3>3, <3>5, <4>1 DEF Prepare, session
      <4>2. CASE \/ CallTool(a) \/ JobRefuses(a) \/ JobStarts(a) \/ JobWrites(a)
                 \/ JobFindsNothing(a) \/ CallThrows(a) \/ CallReturns(a) \/ EndEpisodes(a)
        BY <3>3, <3>5, <4>2
        DEF CallTool, JobRefuses, JobStarts, JobWrites, JobFindsNothing, CallThrows, CallReturns,
            EndEpisodes, SetEffect, session
      <4>3. CASE Commit(a)
        <5>1. CASE Ends(a, TRUE)
          <6>1. NoRun.pc = "idle"
            BY DEF NoRun
          <6>2. runs'[a].pc = "idle"
            BY <1>1, <5>1, <6>1, EndsForm
          <6>3. QED BY <2>4, <6>2 DEF Running
        <5>2. CASE Leaves(a, "failed", TRUE)
          <6>1. {"settle"} \subseteq Points /\ {"failed"} \subseteq Reasons
            BY DEF Points, Reasons
          <6>2. runs'[a].pc = "settle"
            BY <1>1, <5>2, <6>1, RunForm DEF Leaves
          <6>3. QED BY <2>4, <6>2 DEF Running
        <5>3. QED BY <4>3, <5>1, <5>2 DEF Commit
      <4>4. QED
        BY <1>6, <3>5, <4>1, <4>2, <4>3 DEF RunStep, Load, Admit, Settle, Fence, Running
    <3>6. QED BY <3>2, <3>4, <3>5
  <2>5. QED BY <2>3, <2>4
<1>7. ASSUME NEW a \in Attempts, Start(a) \/ StartStopped(a) PROVE RunnerHoldsLease'
  <2>1. Registered = {}
    BY <1>7 DEF Start, StartStopped, Admitted
  <2>2. \A b \in Attempts : runs[b].pc = "idle"
    BY <1>1, <2>1, NobodyRuns
  <2>3. \A b \in Attempts : runs'[b].pc \in {"idle", "load"}
    <3>1. CASE Start(a)
      <4>1. OneRun(a) /\ runs'[a].pc = "load"
        BY <1>1, <3>1, BeginForm DEF Start
      <4>2. QED BY <2>2, <4>1 DEF OneRun
    <3>2. CASE StartStopped(a)
      BY <2>2, <3>2 DEF StartStopped
    <3>3. QED BY <1>7, <3>1, <3>2
  <2>4. QED BY <1>2, <2>3 DEF Running
<1>8. ASSUME NEW a \in Attempts, Stop(a) \/ Acknowledge(a) \/ Finalize(a)
      PROVE  RunnerHoldsLease'
  <2>1. \A b \in Attempts : runs'[b].pc = runs[b].pc
    BY <1>1, <1>8, StopForm DEF Acknowledge, Finalize
  <2>2. UNCHANGED <<exists, rows, epoch>>
    BY <1>8 DEF Stop, Acknowledge, Finalize, session
  <2>3. QED BY <1>1, <2>1, <2>2 DEF RunnerHoldsLease, Active
<1>9. ASSUME NEW a \in Attempts, Inspect(a) PROVE RunnerHoldsLease'
  <2>1. \A b \in Attempts : runs[b].pc = "idle"
    BY <1>1, <1>9, NobodyRuns DEF Inspect
  <2>2. QED BY <1>2, <1>9, <2>1 DEF Inspect, Running
<1>10. ASSUME NEW a \in Attempts, Restore(a) PROVE RunnerHoldsLease'
  <2>1. held # NoAttempt
    BY <1>10, AgentAssumption DEF Restore, AgentAssumption
  <2>2. \A b \in Attempts : runs[b].pc = "idle"
    BY <1>1, <2>1, NobodyRuns
  <2>3. \A b \in Attempts : runs'[b].pc \in {"idle", "load"}
    <3>1. CASE Begin(a, TRUE)
      <4>1. OneRun(a) /\ runs'[a].pc = "load"
        BY <1>1, <3>1, BeginForm
      <4>2. QED BY <2>2, <4>1 DEF OneRun
    <3>2. CASE runs' = runs
      BY <2>2, <3>2
    <3>3. QED BY <1>10, <3>1, <3>2 DEF Restore
  <2>4. QED BY <1>2, <2>3 DEF Running
<1>11. ASSUME NEW a \in Attempts, DismissRetry(a) \/ Abandon(a) PROVE RunnerHoldsLease'
  <2>1. /\ rows[a].state # "running" /\ UNCHANGED <<exists, epoch, runs>>
        /\ rows' = [rows EXCEPT ![a] = Ended(rows[a], "terminal")]
    BY <1>11 DEF DismissRetry, Abandon, Retryable, session
  <2>2. /\ rows'[a].state = "terminal" /\ \A b \in Attempts \ {a} : rows'[b] = rows[b]
    BY <1>1, <2>1, EndedForm DEF OneRow, RowStates
  <2>3. QED BY <1>1, <2>1, <2>2 DEF RunnerHoldsLease, Active
<1>12. CASE DeleteSession
  <2>1. \A a \in Attempts : runs[a].pc \notin Running
    BY <1>1, <1>12 DEF DeleteSession, Deletable, RunnerHoldsLease, Active, Running
  <2>2. QED BY <1>2, <1>12, <2>1 DEF DeleteSession
<1>13. QED
  BY <1>3, <1>6, <1>7, <1>8, <1>9, <1>10, <1>11, <1>12 DEF AgentNext

-----------------------------------------------------------------------------
(* What a step of a turn does to the rows: it gives no other attempt a row   *)
(* that runs.                                                                *)
RowsKept(a) ==
  /\ \A b \in Attempts \ {a} :
       /\ rows'[b].class = rows[b].class
       /\ rows'[b] = rows[b] \/ rows'[b].state = "terminal"
  /\ \/ rows'[a].class = rows[a].class
     \/ runs[a].pc = "admit" /\ rows'[a].class = runs[a].class

(* A step of a run changes its own row only. *)
LEMMA RunStepRows ==
  ASSUME DurableTypes, WorkerTypes, NEW a \in Attempts, RunStep(a)
  PROVE  RowsKept(a)
<1>1. CASE rows' = rows \/ OneRow(a)
  BY <1>1 DEF RowsKept, OneRow
<1>2. CASE \/ Load(a) \/ CallTool(a) \/ JobRefuses(a) \/ JobStarts(a) \/ JobWrites(a)
           \/ JobFindsNothing(a) \/ CallThrows(a) \/ CallReturns(a) \/ EndEpisodes(a)
  BY <1>1, <1>2
  DEF Load, CallTool, JobRefuses, JobStarts, JobWrites, JobFindsNothing, CallThrows, CallReturns,
      EndEpisodes, SetEffect
<1>3. {"terminal", "retryable"} \subseteq RowStates /\ epoch \in Nat
  BY DEF RowStates, WorkerTypes
<1>4. CASE Admit(a)
  <2>1. CASE rows[a].state = "running" /\ rows' = [rows EXCEPT ![a].lease = epoch]
    BY <1>1, <1>3, <2>1, LeaseForm
  <2>2. CASE rows' = AdmittedRows(a)
    BY <1>4, <2>2, AdmittedForm DEF RowsKept, Admit
  <2>3. QED BY <1>1, <1>4, <2>1, <2>2 DEF Admit, Resumable
<1>5. CASE Prepare(a)
  BY <1>1, <1>3, <1>5, LeaseForm DEF Prepare
<1>6. CASE Commit(a)
  BY <1>1, <1>6, CommitForm DEF Commit
<1>7. CASE Settle(a)
  <2>1. \/ rows' = rows
        \/ rows' = [rows EXCEPT ![a] = Ended(rows[a], "retryable")]
        \/ rows' = [rows EXCEPT ![a] = Ended(rows[a], "terminal")]
    BY <1>7 DEF Settle, Settled
  <2>2. QED BY <1>1, <1>3, <2>1, EndedForm
<1>8. CASE Fence(a)
  BY <1>1, <1>8, RolledBackForm DEF Fence
<1>9. QED BY <1>2, <1>4, <1>5, <1>6, <1>7, <1>8 DEF RunStep

(* It learns of repository code only as it ends. *)
LEMMA RunStepCode ==
  ASSUME DurableTypes, WorkerTypes, NEW a \in Attempts, RunStep(a)
  PROVE  code' = code \/ (code' /\ runs'[a].pc = "idle")
<1>1. CASE Commit(a)
  <2>1. CASE UNCHANGED session
    BY <2>1 DEF session
  <2>2. CASE Ends(a, TRUE) /\ code' \in {code, TRUE}
    <3>1. NoRun.pc = "idle"
      BY DEF NoRun
    <3>2. runs'[a].pc = "idle"
      BY <2>2, <3>1, EndsForm
    <3>3. code' = code \/ code'
      BY <2>2, Zenon
    <3>4. QED BY <3>2, <3>3
  <2>3. QED BY <1>1, <2>1, <2>2 DEF Commit
<1>2. CASE ~ Commit(a)
  <2>1. UNCHANGED session
    BY <1>2 DEF RunStep, Load, Admit, Prepare, CallTool, JobRefuses, JobStarts, JobWrites,
                JobFindsNothing, CallThrows, CallReturns, EndEpisodes, Settle, Fence, SetEffect
  <2>2. QED BY <2>1 DEF session
<1>3. QED BY <1>1, <1>2

(* The class of an attempt follows the transcript. *)
LEMMA ClassStep ==
  ASSUME AgentInv, AgentNext
  PROVE  ClassIsCode'
<1>1. DurableTypes /\ WorkerTypes /\ RegistryInv /\ ClassIsCode
  BY DEF AgentInv
<1>2. ASSUME code' = code,
             \A a \in Attempts : rows'[a].class = "read" => rows[a].class = "read",
             \A a \in Attempts : runs'[a].pc \in Prepared =>
               runs[a].pc \in Prepared /\ runs'[a].class = runs[a].class
      PROVE  ClassIsCode'
  BY <1>1, <1>2 DEF ClassIsCode
<1>3. ASSUME NEW a \in Attempts, RunStep(a) PROVE ClassIsCode'
  <2>1. /\ code' = code \/ (code' /\ runs'[a].pc = "idle")
        /\ RowsKept(a) /\ Advance(a)
    BY <1>1, <1>3, RunStepRows, RunStepCode, Advances
  <2>2. \A b \in Attempts \ {a} : runs'[b].pc = "idle"
    BY <1>1, <1>3, OthersIdle
  <2>3. ASSUME NEW b \in Attempts, rows'[b].class = "read" PROVE code'
    BY <1>1, <2>1, <2>3 DEF ClassIsCode, RowsKept, Prepared
  <2>4. runs'[a].pc \in Prepared => (runs'[a].class = "read" <=> code')
    BY <1>1, <2>1 DEF ClassIsCode, Advance, Over, Fenced, HasLoaded, HasAcquired, Goes, Prepared,
                      Running
  <2>5. QED BY <2>2, <2>3, <2>4 DEF ClassIsCode, Prepared
<1>4. ASSUME NEW a \in Attempts, Begin(a, FALSE) \/ Begin(a, TRUE), UNCHANGED <<code, rows>>
      PROVE  ClassIsCode'
  <2>1. OneRun(a) /\ runs'[a].pc = "load"
    BY <1>1, <1>4, BeginForm
  <2>2. QED BY <1>2, <1>4, <2>1 DEF OneRun, Prepared
<1>5. ASSUME NEW a \in Attempts, Start(a) PROVE ClassIsCode'
  BY <1>4, <1>5 DEF Start, session
<1>6. ASSUME NEW a \in Attempts, Stop(a) PROVE ClassIsCode'
  BY <1>1, <1>2, <1>6, StopForm DEF Stop, session
<1>7. ASSUME NEW a \in Attempts, StartStopped(a) \/ Acknowledge(a) \/ Finalize(a)
      PROVE  ClassIsCode'
  BY <1>2, <1>7 DEF StartStopped, Acknowledge, Finalize, session
<1>8. {"terminal", "uncertain"} \subseteq RowStates /\ epoch \in Nat
  BY DEF RowStates, WorkerTypes, AgentInv
<1>9. ASSUME NEW a \in Attempts, Inspect(a) PROVE ClassIsCode'
  <2>1. OneRow(a)
    BY <1>1, <1>8, <1>9, LeaseForm, EndedForm DEF Inspect, Uncertain
  <2>2. QED BY <1>2, <1>9, <2>1 DEF Inspect, OneRow, session
<1>10. ASSUME NEW a \in Attempts, DismissRetry(a) \/ Abandon(a) PROVE ClassIsCode'
  <2>1. OneRow(a) /\ UNCHANGED <<code, runs>>
    BY <1>1, <1>8, <1>10, EndedForm DEF DismissRetry, Abandon, session
  <2>2. QED BY <1>2, <2>1 DEF OneRow
<1>11. ASSUME NEW a \in Attempts, Restore(a) PROVE ClassIsCode'
  <2>1. CASE Begin(a, TRUE) /\ UNCHANGED rows
    BY <1>4, <1>11, <2>1 DEF Restore, session
  <2>2. CASE (rows' = RolledBack(a) \/ rows' = rows) /\ UNCHANGED runs
    <3>1. \A b \in Attempts : rows'[b].class = rows[b].class
      BY <1>1, <2>2, RolledBackForm DEF OneRow
    <3>2. QED BY <1>2, <1>11, <2>2, <3>1 DEF Restore, session
  <2>3. QED BY <1>11, <2>1, <2>2 DEF Restore
<1>12. CASE DeleteSession
  <2>1. \A a \in Attempts : rows'[a].class = "write"
    BY <1>12 DEF DeleteSession, NoRow
  <2>2. QED BY <1>2, <1>12, <2>1 DEF DeleteSession
<1>13. CASE Crash
  <2>1. \A a \in Attempts : runs'[a].pc = "idle"
    BY <1>13 DEF Crash, NoRun
  <2>2. QED BY <1>2, <1>13, <2>1 DEF Crash, session, Prepared
<1>14. QED
  BY <1>3, <1>5, <1>6, <1>7, <1>9, <1>10, <1>11, <1>12, <1>13 DEF AgentNext

(* The ledger of a turn knows what its attempt has written. *)
LEMMA LedgerStep ==
  ASSUME AgentInv, AgentNext
  PROVE  LedgerCounts'
<1>1. DurableTypes /\ WorkerTypes /\ RegistryInv /\ LedgerCounts /\ writes \in [Attempts -> Nat]
  BY DEF AgentInv, WriteInv, DurableTypes
<1>2. ASSUME UNCHANGED writes,
             \A b \in Attempts :
               \/ runs'[b].effect = "none" /\ runs'[b].pc \in {"idle", "load"}
               \/ /\ runs'[b].effect = runs[b].effect /\ runs'[b].pc = runs[b].pc
                  /\ runs'[b].class = runs[b].class
      PROVE  LedgerCounts'
  BY <1>1, <1>2 DEF LedgerCounts, Prepared
<1>3. ASSUME NEW a \in Attempts, RunStep(a) PROVE LedgerCounts'
  <2>1. /\ Advance(a)
        /\ \A b \in Attempts \ {a} : runs'[b] = runs[b] /\ runs[b].pc = "idle"
    BY <1>1, <1>3, Advances, OthersIdle
  <2>2. ASSUME NEW b \in Attempts \ {a}
        PROVE  /\ runs'[b].effect # "none" => runs'[b].class = "write" /\ runs'[b].pc # "load"
               /\ runs'[b].pc \notin Prepared
    BY <1>1, <2>1 DEF LedgerCounts, Prepared
  <2>3. runs'[a].effect # "none" => runs'[a].class = "write" /\ runs'[a].pc # "load"
    BY <1>1, <2>1 DEF LedgerCounts, Advance, Over, Fenced, HasLoaded, HasAcquired, Goes, Running
  <2>4. ASSUME runs'[a].pc \in Prepared \ {"admit"}, runs'[a].effect \in Unwritten
        PROVE  writes'[a] = 0
    <3>1. HasAcquired(a) \/ Goes(a)
      BY <2>1, <2>4 DEF Advance, Over, Fenced, HasLoaded, Prepared
    <3>2. CASE Goes(a)
      BY <1>1, <2>4, <3>2 DEF Goes, LedgerCounts, Prepared, Running
    <3>3. CASE HasAcquired(a)
      <4>1. runs[a].pc = "admit"
        BY <3>3 DEF HasAcquired
      <4>2. Admit(a)
        BY <1>3, <4>1
        DEF RunStep, Load, Prepare, CallTool, JobRefuses, JobStarts, JobWrites, JobFindsNothing,
            CallThrows, CallReturns, EndEpisodes, Commit, Settle, Fence
      <4>3. writes' = writes
        BY <4>2 DEF Admit
      <4>4. ASSUME exists, rows[a].state = "none" PROVE writes[a] = 0
        BY <1>1, <4>4 DEF AgentInv, WriteInv, WritersAreKnown
      <4>5. ASSUME exists, Resumable(a) PROVE writes[a] = 0
        <5>1. rows[a].class # "write"
          BY <4>1, <4>5 DEF Resumable, AgentInv, WriteInv, WritersRunOnce
        <5>2. QED BY <1>1, <4>5, <5>1 DEF AgentInv, WriteInv, WritersAreKnown
      <4>6. CASE Throws(a) \/ Ends(a, TRUE)
        <5>1. NoRun.pc = "idle"
          BY DEF NoRun
        <5>2. runs'[a].pc \in {"idle", "fence"}
          BY <1>1, <4>6, <5>1, ThrowsForm, EndsForm
        <5>3. QED BY <2>4, <5>2 DEF Prepared
      <4>7. QED BY <4>2, <4>3, <4>4, <4>5, <4>6 DEF Admit
    <3>4. QED BY <3>1, <3>2, <3>3
  <2>5. QED BY <2>2, <2>3, <2>4 DEF LedgerCounts
<1>4. ASSUME NEW a \in Attempts, Begin(a, FALSE) \/ Begin(a, TRUE), UNCHANGED writes
      PROVE  LedgerCounts'
  <2>1. OneRun(a) /\ runs'[a].pc = "load" /\ runs'[a].effect = "none"
    BY <1>1, <1>4, BeginForm
  <2>2. QED BY <1>2, <1>4, <2>1 DEF OneRun
<1>5. ASSUME NEW a \in Attempts, Start(a) PROVE LedgerCounts'
  BY <1>4, <1>5 DEF Start
<1>6. ASSUME NEW a \in Attempts, Stop(a) PROVE LedgerCounts'
  BY <1>1, <1>2, <1>6, StopForm DEF Stop
<1>7. ASSUME NEW a \in Attempts,
             \/ StartStopped(a) \/ Acknowledge(a) \/ Finalize(a) \/ Inspect(a)
             \/ DismissRetry(a) \/ Abandon(a)
      PROVE  LedgerCounts'
  BY <1>2, <1>7 DEF StartStopped, Acknowledge, Finalize, Inspect, DismissRetry, Abandon
<1>8. ASSUME NEW a \in Attempts, Restore(a) PROVE LedgerCounts'
  BY <1>2, <1>4, <1>8 DEF Restore
<1>9. CASE DeleteSession
  BY <1>2, <1>9 DEF DeleteSession
<1>10. CASE Crash
  <2>1. \A a \in Attempts : runs'[a].effect = "none" /\ runs'[a].pc = "idle"
    BY <1>10 DEF Crash, NoRun
  <2>2. QED BY <1>2, <1>10, <2>1 DEF Crash
<1>11. QED
  BY <1>3, <1>5, <1>6, <1>7, <1>8, <1>9, <1>10 DEF AgentNext

(* An attempt that may write and holds the lease of this worker. *)
MayWrite(a) == rows[a].state = "running" /\ rows[a].class = "write" /\ rows[a].lease = epoch

(* No worker begins an attempt again that may write. *)
LEMMA WritersStep ==
  ASSUME AgentInv, AgentNext
  PROVE  WritersRunOnce'
<1>1. DurableTypes /\ WorkerTypes /\ RegistryInv
  BY DEF AgentInv
<1>2. \A a \in Attempts :
        MayWrite(a) => a \in seen \cup Registered /\ runs[a].pc \notin {"load", "admit"}
  BY DEF AgentInv, WriteInv, WritersRunOnce, MayWrite
<1>3. SUFFICES ASSUME NEW b \in Attempts, MayWrite(b)'
               PROVE  b \in seen' \cup Registered' /\ runs'[b].pc \notin {"load", "admit"}
  BY DEF WritersRunOnce, MayWrite
<1>4. b \in Registered' <=> turns'[b].state # "none"
  BY DEF Registered
<1>5. turns \in [Attempts -> TurnRecord] /\ runs \in [Attempts -> RunRecord] /\ epoch \in Nat
  BY <1>1 DEF WorkerTypes
<1>6. CASE Crash
  <2>1. rows[b].lease <= epoch /\ rows[b].lease \in Nat
    BY <1>1 DEF AgentInv, RowsInv, LeasesPast, DurableTypes, RowRecord
  <2>2. rows[b].lease = epoch + 1
    BY <1>3, <1>6 DEF Crash, MayWrite
  <2>3. QED BY <1>5, <2>1, <2>2
<1>7. CASE DeleteSession
  BY <1>3, <1>7 DEF DeleteSession, MayWrite, NoRow
<1>8. ASSUME MayWrite(b), UNCHANGED <<turns, seen>>, runs'[b].pc = runs[b].pc
      PROVE  b \in seen' \cup Registered' /\ runs'[b].pc \notin {"load", "admit"}
  BY <1>2, <1>8 DEF Registered
<1>9. ASSUME NEW a \in Attempts, RunStep(a)
      PROVE  b \in seen' \cup Registered' /\ runs'[b].pc \notin {"load", "admit"}
  <2>1. /\ Advance(a) /\ RowsKept(a) /\ Registered = {a}
        /\ \A c \in Attempts \ {a} : turns'[c] = turns[c] /\ runs'[c] = runs[c]
    BY <1>1, <1>9, Advances, RunStepRows, OthersIdle
  <2>2. seen' = seen
    BY <2>1 DEF Advance
  <2>3. epoch' = epoch
    BY <1>9 DEF RunStep, Load, Admit, Prepare, CallTool, JobRefuses, JobStarts, JobWrites,
                JobFindsNothing, CallThrows, CallReturns, EndEpisodes, Commit, Settle, Fence,
                SetEffect
  <2>4. CASE b # a
    <3>1. MayWrite(b)
      BY <1>3, <2>1, <2>3, <2>4 DEF RowsKept, MayWrite
    <3>2. QED BY <1>2, <1>4, <2>1, <2>2, <2>4, <3>1 DEF Registered
  <2>5. CASE b = a
    <3>1. turns'[a].state # "none"
      BY <2>1 DEF Advance, Over, Fenced, HasLoaded, HasAcquired, Goes, Registered
    <3>2. HasLoaded(a) => MayWrite(a) /\ runs[a].pc = "load"
      BY <1>3, <2>3, <2>5 DEF HasLoaded, MayWrite
    <3>3. runs'[a].pc \notin {"load", "admit"}
      BY <1>2, <2>1, <3>2 DEF Advance, Over, Fenced, HasAcquired, Goes, Running
    <3>4. QED BY <1>4, <2>5, <3>1, <3>3
  <2>6. QED BY <2>4, <2>5
<1>10. ASSUME NEW a \in Attempts, Registered = {}, a \notin seen,
              Begin(a, FALSE) \/ Begin(a, TRUE), MayWrite(b), seen' = seen
       PROVE  b \in seen' \cup Registered' /\ runs'[b].pc \notin {"load", "admit"}
  <2>1. OneRun(a)
    BY <1>1, <1>10, BeginForm
  <2>2. b # a
    BY <1>2, <1>10
  <2>3. runs'[b] = runs[b] /\ b \in seen
    BY <1>2, <1>10, <2>1, <2>2 DEF OneRun
  <2>4. QED BY <1>2, <1>10, <2>3
<1>11. ASSUME NEW a \in Attempts, Start(a) \/ StartStopped(a)
       PROVE  b \in seen' \cup Registered' /\ runs'[b].pc \notin {"load", "admit"}
  <2>1. /\ Registered = {} /\ a \notin seen /\ seen' = seen /\ MayWrite(b)
    BY <1>3, <1>11 DEF Start, StartStopped, Admitted, MayWrite
  <2>2. CASE Start(a)
    BY <1>10, <2>1, <2>2 DEF Start
  <2>3. CASE StartStopped(a)
    BY <1>2, <2>1, <2>3 DEF StartStopped
  <2>4. QED BY <1>11, <2>2, <2>3
<1>12. ASSUME NEW a \in Attempts, Stop(a) \/ DismissRetry(a) \/ Abandon(a) \/ Inspect(a)
       PROVE  b \in seen' \cup Registered' /\ runs'[b].pc \notin {"load", "admit"}
  <2>1. UNCHANGED <<turns, seen, epoch>> /\ runs'[b].pc = runs[b].pc
    BY <1>1, <1>12, StopForm DEF Stop, DismissRetry, Abandon, Inspect, registry
  <2>2. MayWrite(b)
    <3>1. CASE Stop(a)
      BY <1>3, <2>1, <3>1 DEF Stop, MayWrite
    <3>2. {"terminal", "uncertain"} \subseteq RowStates
      BY DEF RowStates
    <3>3. ASSUME NEW st \in RowStates, st # "running",
                 rows' = [rows EXCEPT ![a] = Ended(rows[a], st)]
          PROVE  MayWrite(b)
      BY <1>1, <1>3, <2>1, <3>3, EndedForm DEF OneRow, MayWrite
    <3>4. CASE DismissRetry(a) \/ Abandon(a)
      BY <3>2, <3>3, <3>4 DEF DismissRetry, Abandon
    <3>5. CASE Inspect(a)
      <4>1. CASE rows[a].class = "read" /\ rows' = [rows EXCEPT ![a].lease = epoch]
        <5>1. OneRow(a)
          BY <1>1, <1>5, <3>5, <4>1, LeaseForm DEF Inspect
        <5>2. QED BY <1>3, <2>1, <4>1, <5>1 DEF OneRow, MayWrite
      <4>2. CASE rows' = [rows EXCEPT ![a] = Ended(rows[a], "uncertain")]
        BY <3>2, <3>3, <4>2
      <4>3. QED BY <3>5, <4>1, <4>2 DEF Inspect, Uncertain
    <3>6. QED BY <1>12, <3>1, <3>4, <3>5
  <2>3. QED BY <1>8, <2>1, <2>2
<1>13. ASSUME NEW a \in Attempts, Acknowledge(a) \/ Finalize(a)
       PROVE  b \in seen' \cup Registered' /\ runs'[b].pc \notin {"load", "admit"}
  <2>1. MayWrite(b) /\ runs' = runs /\ seen' = seen \cup {a}
    BY <1>3, <1>13 DEF Acknowledge, Finalize, MayWrite
  <2>2. b # a => turns'[b] = turns[b]
    BY <1>5, <1>13 DEF Acknowledge, Finalize
  <2>3. QED BY <1>2, <1>4, <2>1, <2>2 DEF Registered
<1>14. ASSUME NEW a \in Attempts, Restore(a)
       PROVE  b \in seen' \cup Registered' /\ runs'[b].pc \notin {"load", "admit"}
  <2>1. seen' = seen /\ epoch' = epoch
    BY <1>14 DEF Restore
  <2>2. MayWrite(b)
    <3>1. rows' = RolledBack(a) \/ rows' = rows
      BY <1>14 DEF Restore
    <3>2. \A c \in Attempts : rows'[c] = rows[c] \/ rows'[c].state = "uncertain"
      BY <1>1, <3>1, RolledBackForm DEF OneRow
    <3>3. QED BY <1>3, <2>1, <3>2 DEF MayWrite
  <2>3. CASE UNCHANGED <<turns, runs>>
    BY <1>8, <2>1, <2>2, <2>3
  <2>4. CASE Registered = {} /\ a \notin seen /\ Begin(a, TRUE)
    BY <1>10, <2>1, <2>2, <2>4
  <2>5. QED BY <1>14, <2>3, <2>4 DEF Restore
<1>15. QED
  BY <1>6, <1>7, <1>9, <1>11, <1>12, <1>13, <1>14 DEF AgentNext

-----------------------------------------------------------------------------
(* The invariant is inductive. *)
LEMMA AgentInvStep == AgentInv /\ [AgentNext]_vars => AgentInv'
<1>1. SUFFICES ASSUME AgentInv, [AgentNext]_vars PROVE AgentInv'
  OBVIOUS
<1>2. CASE AgentNext
  <2>1. DurableTypes' /\ WorkerTypes' /\ RegistryInv'
    BY <1>1, <1>2, DurableTypesStep, WorkerTypesStep, RegistryStep DEF AgentInv
  <2>2. RunnerHoldsLease' /\ ClassIsCode' /\ LedgerCounts' /\ WritersRunOnce' /\ Durable'
    BY <1>1, <1>2, DurableStep, LeaseStep, ClassStep, LedgerStep, WritersStep
  <2>3. QED BY <2>1, <2>2 DEF AgentInv, WriteInv, Durable
<1>3. CASE UNCHANGED vars
  <2>1. DurableTypes' /\ WorkerTypes'
    BY <1>1, <1>3 DEF AgentInv, vars, session, registry, bounds, DurableTypes, WorkerTypes
  <2>2. RegistryInv'
    BY <1>1, <1>3
    DEF AgentInv, vars, registry, RegistryInv, OneRegistered, RunsAreActive, HeldAlone, Registered,
        Answering
  <2>3. Durable'
    <3>1. UNCHANGED <<exists, revision, rows, launch, writes>> /\ epoch' = epoch
      BY <1>3 DEF vars, session
    <3>2. DurableTypes /\ WorkerTypes /\ Durable /\ epoch \in Nat
      BY <1>1 DEF AgentInv, WriteInv, Durable, WorkerTypes
    <3>3. QED BY <3>1, <3>2, DurableFrame
  <2>4. RunnerHoldsLease' /\ ClassIsCode'
    BY <1>1, <1>3 DEF AgentInv, vars, session, registry, RunnerHoldsLease, ClassIsCode, Active
  <2>5. LedgerCounts' /\ WritersRunOnce'
    BY <1>1, <1>3
    DEF AgentInv, WriteInv, vars, session, registry, LedgerCounts, WritersRunOnce, Registered
  <2>6. QED BY <2>1, <2>2, <2>3, <2>4, <2>5 DEF AgentInv, WriteInv, Durable
<1>4. QED BY <1>1, <1>2, <1>3

(* Every reachable state keeps it. *)
THEOREM AgentInvariant == AgentSpec => []AgentInv
BY AgentInitInv, AgentInvStep, PTL DEF AgentSpec

(* The types of the rows, the registry and the turns. *)
THEOREM AgentTypeCorrect == AgentSpec => []AgentTypeOK
<1>1. AgentInv => AgentTypeOK
  BY DEF AgentInv, DurableTypes, WorkerTypes, AgentTypeOK, RowRecord, LaunchRecord, TurnRecord,
         RunRecord
<1>2. QED BY <1>1, AgentInvariant, PTL

(* A turn that prepares, runs its tools or commits is the one active attempt *)
(* and holds the lease: no page takes the row away under it.                 *)
THEOREM RunnersHoldLeases == AgentSpec => []RunnerHoldsLease
<1>1. AgentInv => RunnerHoldsLease
  BY DEF AgentInv
<1>2. QED BY <1>1, AgentInvariant, PTL

(* An offered retry can be taken: it is alone, and starts at the present     *)
(* revision.                                                                 *)
THEOREM RetriesAreCurrent == AgentSpec => []RetryIsCurrent
<1>1. AgentInv => RetryIsCurrent
  BY DEF AgentInv, RowsInv
<1>2. QED BY <1>1, AgentInvariant, PTL

(* What a prompt asks to write is written once, however often workers die,   *)
(* turns are stopped or retried and tools fail.                              *)
THEOREM PromptsWriteOnce == AgentSpec => []PromptWritesOnce
<1>1. AgentInv => PromptWritesOnce
  BY DEF AgentInv, WriteInv
<1>2. QED BY <1>1, AgentInvariant, PTL

-----------------------------------------------------------------------------
(* The turns keep the contract. *)
Phases == [a \in Attempts |-> Phase(a)]
Prompts == [a \in Attempts |-> launch[a].prompt]

(* An empty conversation is one nobody has asked anything. *)
LEMMA ContractInit == AgentInit => Contract!ContractInit
<1>1. SUFFICES ASSUME AgentInit PROVE Contract!ContractInit
  OBVIOUS
<1>2. \A a \in Attempts : Phase(a) = "new" /\ launch[a].prompt = NoAttempt /\ writes[a] = 0
  BY <1>1 DEF AgentInit, Phase, NoRow, NoLaunch
<1>3. QED BY <1>2 DEF Contract!ContractInit, Wrote

(* What stands behind a phase. *)
LEMMA Phased ==
  ASSUME DurableTypes, NEW a \in Attempts
  PROVE  /\ Phase(a) = "new" <=> exists /\ rows[a].state = "none"
         /\ Phase(a) = "open" <=> exists /\ rows[a].state = "running"
         /\ Phase(a) = "offered" <=> exists /\ rows[a].state = "retryable"
         /\ Phase(a) = "lost" <=> exists /\ rows[a].state = "uncertain"
         /\ Phase(a) = "closed" <=> ~ exists \/ rows[a].state \in {"committed", "terminal"}
<1>1. rows[a].state \in RowStates
  BY DEF DurableTypes, RowRecord
<1>2. QED BY <1>1 DEF Phase, RowStates

(* Every action is one of the contract, or none. *)
LEMMA ContractStep ==
  ASSUME AgentInv, DurableTypes', AgentNext
  PROVE  Contract!ContractNext \/ UNCHANGED Contract!contract
<1>1. /\ DurableTypes /\ WorkerTypes /\ RunnerHoldsLease /\ LaunchInv
      /\ writes \in [Attempts -> Nat]
  BY DEF AgentInv, DurableTypes
<1>2. ASSUME \A a \in Attempts : Phase(a)' = Phase(a) /\ launch'[a].prompt = launch[a].prompt,
             writes' = writes
      PROVE  UNCHANGED Contract!contract
  BY <1>2 DEF Contract!contract, Wrote
<1>3. ASSUME exists' = exists, \A a \in Attempts : rows'[a].state = rows[a].state
      PROVE  \A a \in Attempts : Phase(a)' = Phase(a)
  BY <1>3 DEF Phase
<1>4. ASSUME NEW a \in Attempts, Start(a) \/ StartStopped(a)
      PROVE  Contract!ContractNext \/ UNCHANGED Contract!contract
  <2>1. PICK l \in Launches(a) : launch' = [launch EXCEPT ![a] = l]
    BY <1>4 DEF Start, StartStopped
  <2>2. UNCHANGED <<exists, rows, writes>>
    BY <1>4 DEF Start, StartStopped, session
  <2>3. \A b \in Attempts : Phase(b)' = Phase(b)
    BY <1>3, <2>2
  <2>4. launch'[a] = l /\ \A b \in Attempts \ {a} : launch'[b] = launch[b]
    BY <1>1, <2>1 DEF DurableTypes
  <2>5. CASE launch[a] # NoLaunch
    <3>1. l = launch[a]
      BY <2>5 DEF Launches
    <3>2. QED BY <1>2, <2>2, <2>3, <2>4, <3>1
  <2>6. CASE launch[a] = NoLaunch
    <3>1. launch[a].prompt = NoAttempt
      BY <2>6 DEF NoLaunch
    <3>2. l.prompt = a \/ \E s \in Attempts : l.prompt = launch[s].prompt /\ rows[s].state # "none"
      BY <2>6 DEF Launches
    <3>3. l.prompt \in Attempts
      BY <1>1, <3>2 DEF LaunchInv, LaunchesAsk, DurableTypes, LaunchRecord
    <3>4. Prompts' = [Prompts EXCEPT ![a] = l.prompt]
      BY <2>4 DEF Prompts
    <3>5. Contract!Ask(a, l.prompt)
      BY <2>2, <2>3, <3>1, <3>2, <3>4 DEF Contract!Ask, Prompts, Wrote
    <3>6. QED BY <3>3, <3>5 DEF Contract!ContractNext
  <2>7. QED BY <2>5, <2>6
<1>5. ASSUME NEW a \in Attempts,
             \/ Stop(a) \/ Acknowledge(a) \/ Finalize(a) \/ Load(a) \/ CallTool(a)
             \/ JobRefuses(a) \/ JobStarts(a) \/ JobFindsNothing(a) \/ CallThrows(a)
             \/ CallReturns(a) \/ EndEpisodes(a)
      PROVE  UNCHANGED Contract!contract
  <2>1. UNCHANGED <<session, rows, launch, writes>>
    BY <1>5
    DEF Stop, Acknowledge, Finalize, Load, CallTool, JobRefuses, JobStarts, JobFindsNothing,
        CallThrows, CallReturns, EndEpisodes, SetEffect
  <2>2. QED BY <1>2, <1>3, <2>1 DEF session
<1>6. ASSUME NEW a \in Attempts, JobWrites(a) PROVE Contract!ContractNext
  <2>1. /\ runs[a].pc = "episodes" /\ runs[a].effect = "started"
        /\ writes' = [writes EXCEPT ![a] = @ + 1] /\ UNCHANGED <<exists, rows, launch>>
    BY <1>6 DEF JobWrites, SetEffect, session
  <2>2. Phase(a) = "open"
    BY <1>1, <2>1, Phased DEF RunnerHoldsLease
  <2>3. writes[a] = 0
    BY <2>1 DEF AgentInv, WriteInv, LedgerCounts, Prepared, Unwritten
  <2>4. Wrote' = Wrote \cup {a} /\ a \notin Wrote
    BY <1>1, <2>1, <2>3 DEF Wrote
  <2>5. \A b \in Attempts : Phase(b)' = Phase(b)
    BY <1>3, <2>1
  <2>6. Contract!Write(a)
    BY <2>1, <2>2, <2>4, <2>5 DEF Contract!Write
  <2>7. QED BY <2>6 DEF Contract!ContractNext
<1>7. ASSUME NEW a \in Attempts, rows[a].state = "running", UNCHANGED <<exists, launch, writes>>,
             rows' = [rows EXCEPT ![a].lease = epoch]
      PROVE  UNCHANGED Contract!contract
  <2>1. OneRow(a) /\ rows'[a].state = "running"
    BY <1>1, <1>7, LeaseForm DEF WorkerTypes
  <2>2. QED BY <1>2, <1>3, <1>7, <2>1 DEF OneRow
<1>8. ASSUME NEW a \in Attempts, OneRow(a), exists, UNCHANGED <<exists, launch, writes>>,
             \/ rows[a].state = "running" /\ rows'[a].state \in {"committed", "terminal"}
             \/ rows[a].state = "running" /\ rows'[a].state = "retryable" /\ writes[a] = 0
             \/ rows[a].state = "running" /\ rows'[a].state = "uncertain"
             \/ rows[a].state \in {"retryable", "uncertain"} /\ rows'[a].state = "terminal"
      PROVE  Contract!ContractNext
  <2>1. \A b \in Attempts \ {a} : Phase(b)' = Phase(b)
    BY <1>8 DEF OneRow, Phase
  <2>2. /\ Phase(a)' = "closed" <=> rows'[a].state \in {"committed", "terminal"}
        /\ Phase(a)' = "offered" <=> rows'[a].state = "retryable"
        /\ Phase(a)' = "lost" <=> rows'[a].state = "uncertain"
    <3>1. rows'[a].state \in RowStates
      BY <1>8 DEF OneRow, RowRecord
    <3>2. QED BY <1>8, <3>1 DEF Phase, RowStates
  <2>3. Phases' = [Phases EXCEPT ![a] = Phase(a)']
    BY <2>1 DEF Phases
  <2>4. Wrote' = Wrote /\ Prompts' = Prompts
    BY <1>8 DEF Wrote, Prompts
  <2>5. CASE rows[a].state = "running" /\ rows'[a].state \in {"committed", "terminal"}
    <3>1. Phase(a) = "open" /\ Phase(a)' = "closed"
      BY <1>1, <1>8, <2>2, <2>5, Phased
    <3>2. Contract!End(a)
      BY <2>3, <2>4, <3>1 DEF Contract!End, Phases, Prompts
    <3>3. QED BY <3>2 DEF Contract!ContractNext
  <2>6. CASE rows[a].state = "running" /\ rows'[a].state = "retryable" /\ writes[a] = 0
    <3>1. Phase(a) = "open" /\ Phase(a)' = "offered" /\ a \notin Wrote
      BY <1>1, <1>8, <2>2, <2>6, Phased DEF Wrote
    <3>2. Contract!End(a)
      BY <2>3, <2>4, <3>1 DEF Contract!End, Phases, Prompts
    <3>3. QED BY <3>2 DEF Contract!ContractNext
  <2>7. CASE rows[a].state = "running" /\ rows'[a].state = "uncertain"
    <3>1. Phase(a) = "open" /\ Phase(a)' = "lost"
      BY <1>1, <1>8, <2>2, <2>7, Phased
    <3>2. Contract!Lose(a)
      BY <2>3, <2>4, <3>1 DEF Contract!Lose, Phases, Prompts
    <3>3. QED BY <3>2 DEF Contract!ContractNext
  <2>8. CASE rows[a].state \in {"retryable", "uncertain"} /\ rows'[a].state = "terminal"
    <3>1. Phase(a) \in {"offered", "lost"} /\ Phase(a)' = "closed"
      BY <1>1, <1>8, <2>2, <2>8, Phased
    <3>2. Contract!GiveUp(a)
      BY <2>3, <2>4, <3>1 DEF Contract!GiveUp, Phases, Prompts
    <3>3. QED BY <3>2 DEF Contract!ContractNext
  <2>9. QED BY <1>8, <2>5, <2>6, <2>7, <2>8
<1>9. {"retryable", "terminal", "uncertain"} \subseteq RowStates
  BY DEF RowStates
<1>10. ASSUME NEW a \in Attempts, runs[a].pc \in Prepared \ {"admit"}, MayRetry(a)
       PROVE  writes[a] = 0
  BY <1>10 DEF AgentInv, WriteInv, MayRetry, Unsafe, LedgerCounts, Unwritten
<1>11. ASSUME NEW a \in Attempts, Admit(a)
       PROVE  Contract!ContractNext \/ UNCHANGED Contract!contract
  <2>1. UNCHANGED <<exists, launch, writes>>
    BY <1>11 DEF Admit, session
  <2>2. CASE rows' = rows
    BY <1>2, <1>3, <2>1, <2>2
  <2>3. CASE rows[a].state = "running" /\ rows' = [rows EXCEPT ![a].lease = epoch]
    BY <1>7, <2>1, <2>3
  <2>4. CASE exists /\ rows[a].state = "none" /\ Admissible(a) /\ rows' = AdmittedRows(a)
    <3>1. /\ rows'[a].state = "running"
          /\ \A b \in Attempts \ {a} : IF Retryable(b) THEN rows'[b].state = "terminal"
                                                       ELSE rows'[b] = rows[b]
      BY <1>1, <2>4, AdmittedForm
    <3>2. Phase(a) = "new" /\ Phase(a)' = "open"
      BY <1>1, <2>1, <2>4, <3>1 DEF Phase
    <3>3. \A b \in Attempts \ {a} :
            Phase(b)' = IF Phase(b) = "offered" THEN "closed" ELSE Phase(b)
      BY <1>1, <2>1, <2>4, <3>1, Phased DEF Phase, Retryable
    <3>4. \A b \in Attempts : Phase(b) \notin {"open", "lost"}
      BY <1>1, <2>4, Phased DEF Admissible, Active
    <3>5. launch[a].prompt = a \/ \E b \in Attempts :
            Phase(b) = "offered" /\ launch[a].prompt = launch[b].prompt
      <4>1. launch[a] # NoLaunch
        BY <2>4 DEF Admissible, NoLaunch, AgentInv, DurableTypes
      <4>2. CASE launch[a].source = NoAttempt
        BY <1>1, <4>1, <4>2 DEF LaunchInv, LaunchesAsk
      <4>3. CASE launch[a].source # NoAttempt
        <5>1. PICK b \in Attempts : b = launch[a].source
          BY <1>1, <4>3 DEF DurableTypes, LaunchRecord
        <5>2. Retryable(b) /\ launch[b].prompt = launch[a].prompt
          BY <2>4, <4>3, <5>1 DEF Admissible, SourceStands
        <5>3. Phase(b) = "offered"
          BY <1>1, <2>4, <5>2, Phased DEF Retryable
        <5>4. QED BY <5>2, <5>3
      <4>4. QED BY <4>2, <4>3
    <3>6. Phases' = [b \in Attempts |->
            IF b = a THEN "open" ELSE IF Phases[b] = "offered" THEN "closed" ELSE Phases[b]]
      BY <3>2, <3>3 DEF Phases
    <3>7. Wrote' = Wrote /\ Prompts' = Prompts
      BY <2>1 DEF Wrote, Prompts
    <3>8. Contract!Open(a)
      BY <3>2, <3>4, <3>5, <3>6, <3>7 DEF Contract!Open, Phases, Prompts
    <3>9. QED BY <3>8 DEF Contract!ContractNext
  <2>5. QED BY <1>11, <2>2, <2>3, <2>4 DEF Admit, Resumable
<1>12. ASSUME NEW a \in Attempts, Prepare(a) PROVE UNCHANGED Contract!contract
  <2>1. /\ UNCHANGED <<exists, launch, writes>>
        /\ \/ rows' = rows
           \/ rows[a].state = "running" /\ rows' = [rows EXCEPT ![a].lease = epoch]
    BY <1>12 DEF Prepare, session
  <2>2. QED BY <1>2, <1>3, <1>7, <2>1
<1>13. ASSUME NEW a \in Attempts, Commit(a)
       PROVE  Contract!ContractNext \/ UNCHANGED Contract!contract
  <2>1. UNCHANGED <<exists, launch, writes>> /\ runs[a].pc = "commit"
    BY <1>13 DEF Commit, session
  <2>2. CASE rows' = rows
    BY <1>2, <1>3, <2>1, <2>2
  <2>3. CASE /\ CommitStands(a)
             /\ rows' = [rows EXCEPT ![a] = [Ended(@, Outcome(a)) EXCEPT !.receipt = revision + 1]]
    <3>1. exists /\ rows[a].state = "running"
      BY <1>1, <2>1 DEF RunnerHoldsLease
    <3>2. OneRow(a) /\ rows'[a].state = Outcome(a)
      BY <1>1, <2>3, CommitForm
    <3>3. \/ Outcome(a) \in {"committed", "terminal"}
          \/ Outcome(a) = "retryable" /\ writes[a] = 0
      BY <1>10, <2>1 DEF Outcome, Prepared
    <3>4. QED BY <1>8, <2>1, <3>1, <3>2, <3>3
  <2>4. QED BY <1>13, <2>2, <2>3 DEF Commit
<1>14. ASSUME NEW a \in Attempts, NEW s \in RowStates, exists,
              UNCHANGED <<exists, launch, writes>>,
              rows' = [rows EXCEPT ![a] = Ended(rows[a], s)],
              \/ rows[a].state = "running" /\ s = "terminal"
              \/ rows[a].state = "running" /\ s = "retryable" /\ writes[a] = 0
              \/ rows[a].state = "running" /\ s = "uncertain"
              \/ rows[a].state \in {"retryable", "uncertain"} /\ s = "terminal"
       PROVE  Contract!ContractNext
  <2>1. OneRow(a) /\ rows'[a].state = s
    BY <1>1, <1>14, EndedForm
  <2>2. QED BY <1>8, <1>14, <2>1
<1>15. ASSUME NEW a \in Attempts, Settle(a)
       PROVE  Contract!ContractNext \/ UNCHANGED Contract!contract
  <2>1. UNCHANGED <<exists, launch, writes>> /\ runs[a].pc = "settle"
    BY <1>15 DEF Settle, session
  <2>2. CASE rows' = rows
    BY <1>2, <1>3, <2>1, <2>2
  <2>3. CASE SettleStands(a) /\ rows' = [rows EXCEPT ![a] = Settled(a)]
    <3>1. exists /\ rows[a].state = "running"
      BY <2>3 DEF SettleStands
    <3>2. MayRetry(a) => writes[a] = 0
      BY <1>10, <2>1 DEF Prepared
    <3>3. CASE MayRetry(a)
      <4>1. rows' = [rows EXCEPT ![a] = Ended(rows[a], "retryable")]
        BY <2>3, <3>3 DEF Settled
      <4>2. QED BY <1>9, <1>14, <2>1, <3>1, <3>2, <3>3, <4>1
    <3>4. CASE ~ MayRetry(a)
      <4>1. rows' = [rows EXCEPT ![a] = Ended(rows[a], "terminal")]
        BY <2>3, <3>4 DEF Settled
      <4>2. QED BY <1>9, <1>14, <2>1, <3>1, <4>1
    <3>5. QED BY <3>3, <3>4
  <2>4. QED BY <1>15, <2>2, <2>3 DEF Settle
<1>16. ASSUME NEW a \in Attempts, Fence(a) \/ Restore(a)
       PROVE  Contract!ContractNext \/ UNCHANGED Contract!contract
  <2>1. UNCHANGED <<exists, launch, writes>>
    BY <1>16 DEF Fence, Restore, session
  <2>2. CASE rows' = rows
    BY <1>2, <1>3, <2>1, <2>2
  <2>3. CASE Claimed(a) /\ rows' = [rows EXCEPT ![a] = Ended(rows[a], "uncertain")]
    BY <1>9, <1>14, <2>1, <2>3 DEF Claimed
  <2>4. QED BY <1>16, <2>2, <2>3 DEF Fence, Restore, RolledBack, Uncertain
<1>17. ASSUME NEW a \in Attempts, Inspect(a)
       PROVE  Contract!ContractNext \/ UNCHANGED Contract!contract
  <2>1. UNCHANGED <<exists, launch, writes>>
    BY <1>17 DEF Inspect, session
  <2>2. /\ exists /\ rows[a].state = "running"
        /\ \/ rows' = [rows EXCEPT ![a].lease = epoch]
           \/ rows' = [rows EXCEPT ![a] = Ended(rows[a], "uncertain")]
    BY <1>17 DEF Inspect, Uncertain
  <2>3. QED BY <1>7, <1>9, <1>14, <2>1, <2>2
<1>18. ASSUME NEW a \in Attempts, DismissRetry(a) \/ Abandon(a) PROVE Contract!ContractNext
  <2>1. UNCHANGED <<exists, launch, writes>>
    BY <1>18 DEF DismissRetry, Abandon, session
  <2>2. /\ exists /\ rows[a].state \in {"retryable", "uncertain"}
        /\ rows' = [rows EXCEPT ![a] = Ended(rows[a], "terminal")]
    BY <1>18 DEF DismissRetry, Abandon, Retryable
  <2>3. QED BY <1>9, <1>14, <2>1, <2>2
<1>19. CASE DeleteSession
  <2>1. ~ exists' /\ UNCHANGED <<launch, writes>>
    BY <1>19 DEF DeleteSession
  <2>2. \A a \in Attempts : Phase(a)' = "closed"
    BY <2>1 DEF Phase
  <2>3. Contract!Erase
    BY <2>1, <2>2 DEF Contract!Erase, Wrote
  <2>4. QED BY <2>3 DEF Contract!ContractNext
<1>20. CASE Crash
  BY <1>2, <1>3, <1>20 DEF Crash, session
<1>21. QED
  BY <1>4, <1>5, <1>6, <1>11, <1>12, <1>13, <1>15, <1>16, <1>17, <1>18, <1>19, <1>20
  DEF AgentNext, RunStep

(* The turns of a conversation implement the contract: an attempt is tried   *)
(* alone, is offered again only if it wrote nothing, and one that was lost   *)
(* is left to the user.                                                      *)
THEOREM TurnsKeepContract == AgentSpec => ContractSpec
<1>1. AgentInv /\ AgentInv' /\ [AgentNext]_vars => [Contract!ContractNext]_(Contract!contract)
  <2>1. SUFFICES ASSUME AgentInv, AgentInv', [AgentNext]_vars
                 PROVE  [Contract!ContractNext]_(Contract!contract)
    OBVIOUS
  <2>2. CASE AgentNext
    BY <2>1, <2>2, ContractStep DEF AgentInv
  <2>3. CASE UNCHANGED vars
    BY <2>3 DEF vars, session, Contract!contract, Phase, Wrote
  <2>4. QED BY <2>1, <2>2, <2>3
<1>2. QED
  BY <1>1, ContractInit, AgentInvariant, PTL DEF AgentSpec, ContractSpec, Contract!ContractSpec
===============================================================================
