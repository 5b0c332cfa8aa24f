----------------------- MODULE OrganizeSchedulerProofs -----------------------
(***************************************************************************)
(* The executions do to the durable ledger only what its operations do, the *)
(* user pays for one request at a time, and every request is charged, for   *)
(* every scope, budget and number of executions.                            *)
(*                                                                          *)
(* The store compares what an execution presents with the job, but never    *)
(* the positions a checkpoint consumes, nor whether another execution waits *)
(* for an answer.  That both are right follows from who may be where: an    *)
(* execution that holds its page has the job's cursor and usage, and once a *)
(* generation may be left, none of its executions can pay any more.         *)
(***************************************************************************)
EXTENDS OrganizeScheduler, OrganizeLedgerProofs, FiniteSetTheorems

-----------------------------------------------------------------------------
(* What an execution holds. *)

(* The store bounds the depth of a range; a local worklist does not. *)
AnyRange == [start : Nat, end : Nat, depth : Nat]

AnyLocal ==
  [pc : Points, generation : Generations, start : 0..ItemCount, next : 0..ItemCount,
   ranges : Seq(AnyRange), usage : Usage, page : 0..ItemCount, failed : SUBSET Rows,
   attempt : 0..2, timer : {"unset", "armed", "fired"},
   status : {"analyzing", "analysis_blocked", "budget_exhausted"}, then : {"off", "exhaust"}]

Flight == [pc : FlightPoint, seed : AnyLocal, status : {"analyzing", "analysis_blocked", "review"}]
User == [pc : UserPoint, generation : Generations, next : 0..ItemCount, ranges : Seq(AnyRange)]

(* The ranges tile a segment from `from' that fits the position budget. *)
Chain(rs, from, room) ==
  \A k \in 1..Len(rs) :
    /\ rs[k].start = IF k = 1 THEN from ELSE rs[k - 1].end
    /\ rs[k].start < rs[k].end
    /\ rs[k].end <= ItemCount
    /\ rs[k].end <= from + room

Room(u) == MaxPositions - u.consumed

Holding == {"page", "attempt", "answer", "split", "checkpoint"}
Counted == {"setup", "bind", "plan", "reserve"} \cup Holding

(* What an execution knows by itself. *)
LocalInv(l) ==
  /\ Chain(l.ranges, l.next, Room(l.usage))
  /\ l.pc \in {"reserve"} \cup Holding =>
       /\ l.next < l.page /\ l.page <= l.next + Room(l.usage)
       /\ IsHead(l.ranges, l.next, l.page)
       /\ l.usage.batches >= 1
  /\ l.pc = "reserve" => l.usage.batches <= MaxBatches
  /\ l.pc \in {"page", "attempt"} => l.attempt <= 1
  /\ l.pc = "attempt" => l.usage.attempts < MaxAttempts
  /\ l.pc = "split" => l.page - l.next > 1
  /\ l.status = "analysis_blocked" => l.pc = "plan" /\ l.usage.batches >= 1
  /\ l.pc \in Counted => l.status # "budget_exhausted"
  /\ l.pc = "advance" => l.status = "budget_exhausted"

-----------------------------------------------------------------------------
(* What it knows of the job. *)

(* The batches it has been charged for: a batch is counted before. *)
Paid(l) == IF l.pc = "reserve" THEN l.usage.batches - 1 ELSE l.usage.batches

(* A copy of the usage is never ahead of the job. *)
Within(l) ==
  /\ Paid(l) <= job.usage.batches
  /\ l.usage.attempts <= job.usage.attempts
  /\ l.usage.consumed <= job.usage.consumed

(* It is behind: the store will refuse what is presented with it. *)
Stale(l) ==
  \/ Paid(l) < job.usage.batches
  \/ l.usage.attempts < job.usage.attempts
  \/ l.usage.consumed < job.usage.consumed

Ours(l) == l.generation = job.generation

(* Who still holds its page has the job's cursor and usage. *)
InStep(l, rows) ==
  l.next = job.next /\ l.usage = job.usage /\ rows = Page(l.next, l.page)

KnowsJob(l) ==
  /\ l.generation <= job.generation
  /\ l.pc = "spawn" => l.generation < job.generation
  /\ Ours(l) /\ l.pc \in Counted => Within(l)
  /\ Ours(l) /\ l.status = "budget_exhausted" => Exhausted(job.usage)

Slot(x, l) ==
  /\ l \in AnyLocal /\ LocalInv(l) /\ KnowsJob(l)
  /\ Ours(l) /\ l.pc \in Holding /\ Claimed(x) # {} => InStep(l, Claimed(x))

SlotsInv == exec \in [Tokens -> AnyLocal] /\ \A x \in Tokens : Slot(x, exec[x])

(* The job's own worklist fits what is left of its position budget. *)
JobFits == Chain(job.ranges, job.next, Room(job.usage))

(* What a restore has read, and what the user's command goes on with. *)
FlightInv ==
  /\ flight \in Flight
  /\ flight.seed.pc = "off" /\ flight.seed.status = "analyzing"
  /\ LocalInv(flight.seed) /\ flight.seed.generation <= job.generation
  /\ flight.seed.attempt = 0
  /\ Ours(flight.seed) => Within(flight.seed)

UserInv ==
  /\ user \in User
  /\ Chain(user.ranges, user.next, MaxPositions)
  /\ user.generation <= job.generation
  /\ user.pc = "spawn" => user.generation < job.generation

MemoryInv ==
  /\ memory \in [Generations -> MemoryState]
  /\ \A g \in Generations : g > job.generation => memory[g] = "none"

OtherTypes ==
  /\ current \subseteq Tokens /\ settled \subseteq Generations
  /\ alarm \in {"idle", "checked", "pumping"}
  /\ late \in BOOLEAN /\ sent \in Nat /\ faults \in 0..MaxFaults /\ discarded \in BOOLEAN

(* One execution of a run at a time is the current one. *)
OneCurrent == \A x, y \in current : exec[x].generation = exec[y].generation => x = y

-----------------------------------------------------------------------------
(* Who can still pay. *)

(* It cannot reserve a page any more, unless it is scheduled anew. *)
Dead(l) ==
  Ours(l) =>
    /\ l.pc \notin Holding
    /\ l.pc = "reserve" => Stale(l)
    /\ l.pc \in {"setup", "bind", "plan"} =>
         l.status = "analysis_blocked" \/ Stale(l) \/ Exhausted(job.usage)

(* A revoked execution that still holds its page, with a call outstanding. *)
Orphan(y) ==
  /\ y \notin current
  /\ exec[y].pc \in {"attempt", "split", "checkpoint"} /\ Ours(exec[y])
  /\ Claimed(y) # {} /\ job.status = "analyzing"

ReadBlocked ==
  /\ flight.pc \in {"readItems", "schedule"} /\ flight.status = "analysis_blocked"
  /\ Ours(flight.seed)

Leaving(l) == l.pc = "advance" /\ Ours(l)
UserLeaves == user.pc = "advance" /\ user.generation = job.generation
Remembered == memory[job.generation] \in {"analysis_blocked", "budget_exhausted"}

(* The generation may be left, or its page is out of its executions' hands. *)
Doomed ==
  \/ \E z \in Tokens : Leaving(exec[z])
  \/ UserLeaves \/ Remembered \/ ReadBlocked
  \/ job.status = "analysis_blocked"
  \/ \E y \in Tokens : Orphan(y)

Begun(u) == u.batches >= 1 \/ u.attempts >= 1 \/ u.consumed >= 1

DoomInv == Doomed => Begun(job.usage) /\ \A x \in current : Dead(exec[x])

(* What was read before the job was blocked is not scheduled to pay. *)
SeedInv ==
  /\ job.status = "analysis_blocked" /\ flight.pc \in {"readItems", "schedule"}
  /\ flight.status = "analyzing" /\ Ours(flight.seed)
  => Stale(flight.seed)

(* A restore releases the pages of those it has revoked before it reads. *)
OrphansAreReleased == (\E y \in Tokens : Orphan(y)) => flight.pc = "release"

(* Who waits for an answer is of the job's generation. *)
AnswersAreOurs == \A x \in current : exec[x].pc = "answer" => Ours(exec[x])

SchedInv ==
  /\ LedgerInv /\ SlotsInv /\ JobFits /\ FlightInv /\ UserInv /\ MemoryInv /\ OtherTypes
  /\ OneCurrent /\ DoomInv /\ SeedInv /\ OrphansAreReleased /\ AnswersAreOurs
  /\ RequestsAreCharged

-----------------------------------------------------------------------------
(* Worklists without a bound on their depth. *)

(* A range of the store is one of these. *)
LEMMA RangesAreRanges == Seq(RangeRecord) \subseteq Seq(AnyRange)
<1>1. RangeRecord \subseteq AnyRange
  BY WorklistConstants DEF RangeRecord, AnyRange, MaxDepth, WorklistConstants
<1>2. QED BY <1>1, SeqMonotonic

(* A stored worklist tiles the scope from the cursor. *)
LEMMA ValidIsChained ==
  ASSUME NEW rs \in Seq(RangeRecord), NEW from \in Nat, NEW room \in Int,
         ValidRanges(rs, from), \A k \in 1..Len(rs) : rs[k].end <= from + room
  PROVE  Chain(rs, from, room)
<1>1. DOMAIN rs = 1..Len(rs)
  BY LenProperties
<1>2. QED BY <1>1 DEF Chain, ValidRanges

(* No ranges. *)
LEMMA NoChain == \A from, room : Chain(<<>>, from, room)
<1>1. \A k \in 1..Len(<<>>) : FALSE
  OBVIOUS
<1>2. QED BY <1>1 DEF Chain

(* The ranges fit a larger budget. *)
LEMMA MoreRoom ==
  ASSUME NEW rs \in Seq(AnyRange), NEW from \in Nat, NEW room \in Int, NEW more \in Int,
         room <= more, Chain(rs, from, room)
  PROVE  Chain(rs, from, more)
<1>1. \A k \in 1..Len(rs) : rs[k] \in AnyRange
  BY ElementOfSeq
<1>2. \A k \in 1..Len(rs) : rs[k].end \in Nat
  BY <1>1 DEF AnyRange
<1>3. QED BY <1>2 DEF Chain

(* The first range of a worklist, and those behind it. *)
LEMMA HeadOfChain ==
  ASSUME NEW rs \in Seq(AnyRange), rs # <<>>, NEW from \in Nat, NEW room \in Int,
         Chain(rs, from, room)
  PROVE  /\ rs[1] \in AnyRange /\ rs[1].start = from /\ rs[1].end \in Nat
         /\ from < rs[1].end /\ rs[1].end <= ItemCount /\ rs[1].end <= from + room
<1>1. 1 \in 1..Len(rs)
  BY EmptySeq, LenProperties
<1>2. rs[1] \in AnyRange
  BY <1>1, ElementOfSeq
<1>3. QED BY <1>1, <1>2 DEF Chain, AnyRange

(* What is left of a worklist when its head is dropped. *)
LEMMA RestOfChain ==
  ASSUME NEW rs \in Seq(AnyRange), NEW from \in Nat, NEW room \in Int, Chain(rs, from, room),
         NEW to \in Nat, rs # <<>> => rs[1].end = to
  PROVE  Rest(rs) \in Seq(AnyRange) /\ Chain(Rest(rs), to, room - (to - from))
<1>1. CASE rs = <<>>
  BY <1>1, NoChain DEF Rest
<1>2. CASE rs # <<>>
  <2>1. /\ Rest(rs) = Tail(rs) /\ Tail(rs) \in Seq(AnyRange) /\ Len(rs) \in Nat \ {0}
        /\ Len(Tail(rs)) = Len(rs) - 1
        /\ \A k \in 1..Len(Tail(rs)) : Tail(rs)[k] = rs[k + 1]
    BY <1>2, HeadTailProperties, LenProperties, EmptySeq DEF Rest
  <2>2. \A k \in 1..Len(rs) : rs[k] \in AnyRange
    BY ElementOfSeq
  <2>3. ASSUME NEW k \in 1..Len(Tail(rs))
        PROVE  /\ Tail(rs)[k].start = IF k = 1 THEN to ELSE Tail(rs)[k - 1].end
               /\ Tail(rs)[k].start < Tail(rs)[k].end
               /\ Tail(rs)[k].end <= ItemCount
               /\ Tail(rs)[k].end <= to + (room - (to - from))
    <3>1. k + 1 \in 1..Len(rs) /\ Tail(rs)[k] = rs[k + 1] /\ k + 1 # 1 /\ (k + 1) - 1 = k
      BY <2>1
    <3>2. /\ rs[k + 1].start = rs[k].end /\ rs[k + 1].start < rs[k + 1].end
          /\ rs[k + 1].end <= ItemCount /\ rs[k + 1].end <= from + room
      BY <3>1 DEF Chain
    <3>3. rs[k + 1].end \in Nat
      BY <2>2, <3>1 DEF AnyRange
    <3>4. rs[k].end = IF k = 1 THEN to ELSE Tail(rs)[k - 1].end
      <4>1. CASE k = 1
        BY <1>2, <4>1
      <4>2. CASE k # 1
        <5>1. k - 1 \in 1..Len(Tail(rs)) /\ (k - 1) + 1 = k
          BY <2>1, <4>2
        <5>2. Tail(rs)[k - 1] = rs[(k - 1) + 1]
          BY <2>1, <5>1
        <5>3. QED BY <4>2, <5>1, <5>2
      <4>3. QED BY <4>1, <4>2
    <3>5. QED BY <3>1, <3>2, <3>3, <3>4
  <2>4. QED BY <2>1, <2>3 DEF Chain
<1>3. QED BY <1>1, <1>2

(* Two elements in front of a sequence, element by element. *)
LEMMA PairElements ==
  ASSUME NEW S, NEW a \in S, NEW b \in S, NEW r \in Seq(S)
  PROVE  /\ << a, b >> \o r \in Seq(S)
         /\ Len(r) \in Nat /\ Len(<< a, b >> \o r) = Len(r) + 2
         /\ (<< a, b >> \o r)[1] = a /\ (<< a, b >> \o r)[2] = b
         /\ \A k \in 1..Len(r) : (<< a, b >> \o r)[k + 2] = r[k]
<1> DEFINE h == << a, b >>
<1>1. h \in Seq(S) /\ Len(h) = 2 /\ h[1] = a /\ h[2] = b
  OBVIOUS
<1> HIDE DEF h
<1>2. /\ h \o r \in Seq(S)
      /\ Len(h \o r) = Len(h) + Len(r) /\ Len(r) \in Nat
      /\ \A k \in 1..(Len(h) + Len(r)) :
           (h \o r)[k] = IF k <= Len(h) THEN h[k] ELSE r[k - Len(h)]
  BY <1>1, ConcatProperties, LenProperties
<1>3. (h \o r)[1] = a /\ (h \o r)[2] = b
  BY <1>1, <1>2
<1>4. ASSUME NEW k \in 1..Len(r) PROVE (h \o r)[k + 2] = r[k]
  <2>1. k + 2 \in 1..(Len(h) + Len(r)) /\ ~ (k + 2 <= Len(h)) /\ (k + 2) - Len(h) = k
    BY <1>1, <1>2
  <2>2. (h \o r)[k + 2] = r[(k + 2) - Len(h)]
    BY <1>2, <2>1
  <2>3. QED BY <2>1, <2>2
<1>5. QED
  BY <1>1, <1>2, <1>3, <1>4 DEF h

(* The halves of a page of several repositories, in front of the rest. *)
LEMMA SplitOfChain ==
  ASSUME NEW rs \in Seq(AnyRange), NEW s \in Nat, NEW e \in Nat, NEW room \in Int,
         Chain(rs, s, room), IsHead(rs, s, e), e - s > 1, e <= ItemCount, e <= s + room
  PROVE  SplitHead(rs, s, e) \in Seq(AnyRange) /\ Chain(SplitHead(rs, s, e), s, room)
<1> DEFINE half == s + (e - s) \div 2
           first == PendingRange(s, half, SplitDepth(rs))
           second == PendingRange(half, e, SplitDepth(rs))
           new == SplitHead(rs, s, e)
           rest == Rest(rs)
<1>1. half \in Nat /\ s < half /\ half < e
  OBVIOUS
<1>2. SplitDepth(rs) \in Nat
  <2>1. CASE rs = <<>>
    BY <2>1 DEF SplitDepth
  <2>2. CASE rs # <<>>
    BY <2>2, HeadOfChain DEF SplitDepth, AnyRange
  <2>3. QED BY <2>1, <2>2
<1>3. /\ first \in AnyRange /\ first.start = s /\ first.end = half
      /\ second \in AnyRange /\ second.start = half /\ second.end = e
  BY <1>1, <1>2 DEF PendingRange, AnyRange
<1>4. rs # <<>> => rs[1].end = e
  BY DEF IsHead
<1>5. rest \in Seq(AnyRange) /\ Chain(rest, e, room - (e - s))
  BY <1>4, RestOfChain
<1>6. new = << first, second >> \o rest
  BY DEF SplitHead
<1> HIDE DEF first, second, new, rest, half
<1>7. /\ new \in Seq(AnyRange) /\ Len(rest) \in Nat /\ Len(new) = Len(rest) + 2
      /\ new[1] = first /\ new[2] = second
      /\ \A k \in 1..Len(rest) : new[k + 2] = rest[k]
  BY <1>3, <1>5, <1>6, PairElements
<1>8. \A k \in 1..Len(rest) : rest[k] \in AnyRange /\ rest[k].end \in Nat
  <2>1. \A k \in 1..Len(rest) : rest[k] \in AnyRange
    BY <1>5, ElementOfSeq
  <2>2. QED BY <2>1 DEF AnyRange
<1>9. ASSUME NEW k \in 1..Len(new)
      PROVE  /\ new[k].start = IF k = 1 THEN s ELSE new[k - 1].end
             /\ new[k].start < new[k].end
             /\ new[k].end <= ItemCount
             /\ new[k].end <= s + room
  <2>1. CASE k = 1
    <3>1. half <= ItemCount /\ half <= s + room
      BY <1>1, WorklistConstants DEF WorklistConstants
    <3>2. QED BY <1>1, <1>3, <1>7, <2>1, <3>1
  <2>2. CASE k = 2
    BY <1>1, <1>3, <1>7, <2>2
  <2>3. CASE k # 1 /\ k # 2
    <3>1. PICK q \in 1..Len(rest) : k = q + 2
      <4>1. k - 2 \in 1..Len(rest) /\ k = (k - 2) + 2
        BY <1>7, <2>3
      <4>2. QED BY <4>1
    <3>2. /\ rest[q].start = IF q = 1 THEN e ELSE rest[q - 1].end
          /\ rest[q].start < rest[q].end /\ rest[q].end <= ItemCount
          /\ rest[q].end <= e + (room - (e - s))
      BY <1>5 DEF Chain
    <3>3. rest[q].end <= s + room
      BY <1>8, <3>2
    <3>4. new[k] = rest[q] /\ k - 1 = q + 1
      BY <1>7, <3>1
    <3>5. (IF q = 1 THEN e ELSE rest[q - 1].end) = new[q + 1].end
      <4>1. CASE q = 1
        BY <1>3, <1>7, <4>1
      <4>2. CASE q # 1
        <5>1. q - 1 \in 1..Len(rest) /\ (q - 1) + 2 = q + 1
          BY <1>7, <4>2
        <5>2. new[(q - 1) + 2] = rest[q - 1]
          BY <1>7, <5>1
        <5>3. QED BY <4>2, <5>1, <5>2
      <4>3. QED BY <4>1, <4>2
    <3>6. QED BY <2>3, <3>2, <3>3, <3>4, <3>5
  <2>4. QED BY <2>1, <2>2, <2>3
<1>10. Chain(new, s, room)
  BY <1>9 DEF Chain
<1>11. QED BY <1>7, <1>10 DEF new

-----------------------------------------------------------------------------
(* What the operations of the ledger change. *)

(* The limits are numbers, and there is room for a page. *)
LEMMA Bounds ==
  /\ ItemCount \in Nat /\ PageMax \in Nat /\ PageMax >= 1
  /\ MaxBatches \in Nat /\ MaxBatches >= 1
  /\ MaxAttempts \in Nat /\ MaxAttempts >= 1
  /\ MaxPositions \in Nat /\ MaxPositions >= 1
  /\ MaxGeneration \in Nat /\ MaxGeneration >= 1
  /\ NoToken \notin Tokens /\ MaxFaults \in Nat
BY WorklistConstants, LedgerConstants, SchedulerConstants
   DEF WorklistConstants, LedgerConstants, SchedulerConstants

(* The job is a record of numbers. *)
LEMMA JobFields ==
  ASSUME LedgerInv
  PROVE  /\ job \in JobRecord /\ job.generation \in Generations
         /\ job.next \in 0..ItemCount /\ job.next \in Nat
         /\ job.usage \in Usage /\ job.usage.batches \in Nat
         /\ job.usage.attempts \in Nat /\ job.usage.consumed \in Nat
         /\ job.ranges \in Seq(RangeRecord) /\ job.ranges \in Seq(AnyRange)
         /\ Room(job.usage) \in Int
<1>1. job \in JobRecord
  BY DEF LedgerInv, LedgerTypeOK
<1>2. /\ job.generation \in Generations /\ job.next \in 0..ItemCount
      /\ job.usage \in Usage /\ job.ranges \in Seq(RangeRecord)
  BY <1>1 DEF JobRecord, Generations
<1>3. job.ranges \in Seq(AnyRange)
  BY <1>2, RangesAreRanges
<1>4. QED BY <1>1, <1>2, <1>3, Bounds DEF Usage, Room

(* The cursor, the usage and the worklist stay, and a page is kept or lost. *)
SameJob ==
  /\ job'.generation = job.generation /\ job'.usage = job.usage
  /\ job'.next = job.next /\ job'.ranges = job.ranges

Quiet ==
  /\ SameJob
  /\ job'.status = "analyzing" => job.status = "analyzing"
  /\ job'.status = "analysis_blocked" => job.status = "analysis_blocked"
  /\ \A y \in Tokens : Claimed(y)' = {} \/ Claimed(y)' = Claimed(y)

(* Rows that nobody writes. *)
LEMMA SameRows ==
  ASSUME UNCHANGED <<row, lease>>
  PROVE  \A y \in Tokens : Claimed(y)' = Claimed(y)
BY DEF Claimed

(* All leased rows are freed, or none. *)
LEMMA FreedClaims ==
  ASSUME LedgerInv, NEW S, S = {} \/ S = RowsIn("leased"), Freed(S)
  PROVE  /\ \A y \in Tokens : Claimed(y)' = {} \/ Claimed(y)' = Claimed(y)
         /\ S = RowsIn("leased") => \A y \in Tokens : Claimed(y)' = {}
<1>1. CASE S = {}
  <2>1. \A i \in Rows : row'[i] = row[i] /\ lease'[i] = lease[i]
    BY <1>1 DEF Freed
  <2>2. \A y \in Tokens : Claimed(y)' = Claimed(y)
    BY <2>1 DEF Claimed
  <2>3. S = RowsIn("leased") => \A y \in Tokens : Claimed(y) = {}
    BY <1>1 DEF Claimed, RowsIn
  <2>4. QED BY <2>2, <2>3
<1>2. CASE S = RowsIn("leased")
  <2>1. RowsIn("leased")' = {}
    BY <1>2, Freeing
  <2>2. \A y \in Tokens : Claimed(y)' = {}
    BY <2>1 DEF Claimed, RowsIn
  <2>3. QED BY <2>2
<1>3. QED BY <1>1, <1>2

(* Steps that are no step of the ledger. *)
LEMMA StutterIsQuiet == ASSUME UNCHANGED ledgerVars PROVE Quiet
BY SameRows DEF ledgerVars, Quiet, SameJob

(* Leases that end move nothing else. *)
LEMMA FreeingIsQuiet ==
  ASSUME LedgerInv, NEW S, S = {} \/ S = RowsIn("leased"), Freed(S), job' = job
  PROVE  Quiet
BY FreedClaims DEF Quiet, SameJob

(* A refused reservation only frees pages. *)
LEMMA RefusalIsQuiet ==
  ASSUME LedgerInv, NEW t, NEW g, NEW u, NEW s, NEW e, ReserveRefused(t, g, u, s, e)
  PROVE  Quiet
BY OneHolder, FreeingIsQuiet DEF ReserveRefused, LedgerInv

(* So does the release of a page. *)
LEMMA ReleaseIsQuiet ==
  ASSUME LedgerInv, NEW t \in Tokens, ReleasePage(t)
  PROVE  Quiet
BY OneHolder, FreeingIsQuiet DEF ReleasePage, LedgerInv

(* So does the recovery of expired leases. *)
LEMMA RecoveryIsQuiet ==
  ASSUME LedgerInv, RecoverExpiredLeases
  PROVE  Quiet
BY OneHolder, FreeingIsQuiet DEF RecoverExpiredLeases, LedgerInv

(* A restore releases every page. *)
LEMMA JobReleaseIsQuiet ==
  ASSUME LedgerInv, ReleaseJobLeases
  PROVE  Quiet /\ \A y \in Tokens : Claimed(y)' = {}
BY FreeingIsQuiet, FreedClaims DEF ReleaseJobLeases

(* A job that is cancelled or completed does not come to analyse. *)
LEMMA StatusIsQuiet ==
  ASSUME LedgerInv, CancelJob \/ CompleteWithoutApply
  PROVE  Quiet
<1>1. /\ UNCHANGED <<row, lease>>
      /\ \E s \in {"cancelled", "completed"} : job' = [job EXCEPT !.status = s]
  BY DEF CancelJob, CompleteWithoutApply
<1>2. SameJob /\ job'.status \in {"cancelled", "completed"}
  BY <1>1, JobFields DEF SameJob, JobRecord
<1>3. QED BY <1>1, <1>2, SameRows DEF Quiet

(* Binding a provider changes nothing else. *)
LEMMA BindIsQuiet ==
  ASSUME LedgerInv, NEW p \in Providers, NEW g, BindProvider(p, g)
  PROVE  Quiet
<1>1. UNCHANGED <<row, lease>> /\ job' = [job EXCEPT !.binding = p]
  BY DEF BindProvider
<1>2. SameJob /\ job'.status = job.status
  BY <1>1, JobFields DEF SameJob, JobRecord
<1>3. QED BY <1>1, <1>2, SameRows DEF Quiet

(* Nor does the expiry of a lease. *)
LEMMA ExpiryIsQuiet ==
  ASSUME NEW t, LeaseExpires(t)
  PROVE  Quiet
BY SameRows DEF LeaseExpires, Quiet, SameJob

(* The generation stays, and its usage never shrinks. *)
Grows ==
  /\ job'.generation = job.generation
  /\ job'.usage.batches >= job.usage.batches
  /\ job'.usage.attempts >= job.usage.attempts
  /\ job'.usage.consumed >= job.usage.consumed

(* A page is reserved: its batch is charged, and nobody else holds a row. *)
LEMMA ReserveEffect ==
  ASSUME LedgerInv, NEW t \in Tokens, NEW g, NEW u, NEW s, NEW e \in 0..ItemCount,
         ReservePage(t, g, u, s, e)
  PROVE  /\ job.generation = g /\ job.status = "analyzing" /\ u = job.usage /\ s = job.next
         /\ s < e
         /\ job'.generation = job.generation /\ job'.status = job.status
         /\ job'.next = job.next /\ job'.ranges = job.ranges
         /\ job'.usage = [job.usage EXCEPT !.batches = job.usage.batches + 1]
         /\ job'.usage.batches = job.usage.batches + 1
         /\ job'.usage.attempts = job.usage.attempts
         /\ job'.usage.consumed = job.usage.consumed
         /\ Claimed(t)' = Page(s, e)
         /\ \A y \in Tokens \ {t} : Claimed(y)' = {}
<1>1. /\ job.generation = g /\ job.status = "analyzing" /\ u = job.usage /\ s = job.next
      /\ s < e /\ e <= ItemCount
      /\ \A i \in Page(s, e) : row[i] = "pending" \/ i \in LeasedExpired
  BY DEF ReservePage, CanReserve, ReserveArguments
<1>2. job' = [job EXCEPT !.usage = [job.usage EXCEPT !.batches = job.usage.batches + 1]]
  BY DEF ReservePage
<1>3. /\ job'.generation = job.generation /\ job'.status = job.status
      /\ job'.next = job.next /\ job'.ranges = job.ranges
      /\ job'.usage = [job.usage EXCEPT !.batches = job.usage.batches + 1]
  BY <1>2, JobFields DEF JobRecord
<1>4. /\ job'.usage.batches = job.usage.batches + 1
      /\ job'.usage.attempts = job.usage.attempts
      /\ job'.usage.consumed = job.usage.consumed
  BY <1>3, JobFields DEF Usage
<1>5. s \in Nat /\ Page(s, e) \subseteq Rows /\ s \in Page(s, e)
  BY <1>1, JobFields, Bounds DEF Page, Rows
<1>6. \A i \in Rows :
        /\ row'[i] = IF i \in Page(s, e) THEN "leased"
                     ELSE IF i \in LeasedExpired THEN "pending" ELSE row[i]
        /\ lease'[i] = IF i \in Page(s, e) THEN t
                       ELSE IF i \in LeasedExpired THEN NoToken ELSE lease[i]
  BY DEF ReservePage
<1>7. LeasedExpired = RowsIn("leased")
  <2>1. CASE s \in LeasedExpired
    BY <2>1, OneHolder DEF LedgerInv
  <2>2. CASE s \notin LeasedExpired
    <3>1. row[s] = "pending"
      BY <1>1, <1>5, <2>2
    <3>2. RowsIn("leased") = {}
      <4>1. SUFFICES ASSUME RowsIn("leased") # {} PROVE FALSE
        OBVIOUS
      <4>2. PICK t0 \in Tokens, e0 \in (job.next + 1)..ItemCount :
              Claimed(t0) = RowsIn("leased") /\ ClaimsPage(t0, e0)
        BY <4>1 DEF LedgerInv, OneLeasedPage
      <4>3. s \in Claimed(t0)
        BY <1>1, <1>5, <4>2 DEF ClaimsPage, Page
      <4>4. QED BY <3>1, <4>3 DEF Claimed
    <3>3. QED BY <3>2 DEF LeasedExpired
  <2>3. QED BY <2>1, <2>2
<1>8. \A i \in Rows : row'[i] = "leased" <=> i \in Page(s, e)
  BY <1>6, <1>7 DEF RowsIn
<1>9. Claimed(t)' = Page(s, e)
  BY <1>5, <1>6, <1>8 DEF Claimed
<1>10. \A y \in Tokens \ {t} : Claimed(y)' = {}
  BY <1>6, <1>8 DEF Claimed
<1>11. QED BY <1>1, <1>3, <1>4, <1>9, <1>10

(* A token that holds the page holds all leased rows. *)
LEMMA HolderIsAlone ==
  ASSUME LedgerInv, NEW t \in Tokens, Claimed(t) # {}
  PROVE  Claimed(t) = RowsIn("leased") /\ \A y \in Tokens \ {t} : Claimed(y) = {}
<1>1. Claimed(t) = RowsIn("leased")
  BY OneHolder DEF LedgerInv
<1>2. \A i \in RowsIn("leased") : lease[i] = t
  BY <1>1 DEF Claimed
<1>3. QED BY <1>1, <1>2 DEF Claimed, RowsIn

(* A page that is held begins at the cursor, and its rows tell its end. *)
LEMMA HeldPage ==
  ASSUME LedgerInv, NEW t \in Tokens, NEW g, NEW e \in Nat, HoldsPage(t, g, e)
  PROVE  /\ job.generation = g /\ job.status = "analyzing" /\ t \notin expired
         /\ Claimed(t) = Page(job.next, e) /\ Claimed(t) # {}
         /\ job.next < e /\ e <= ItemCount
<1>1. /\ job.generation = g /\ job.status = "analyzing" /\ t \notin expired
      /\ e > job.next /\ e <= ItemCount /\ Claimed(t) = Page(job.next, e)
  BY DEF HoldsPage, ClaimsPage
<1>2. job.next \in Page(job.next, e)
  BY <1>1, JobFields DEF Page
<1>3. QED BY <1>1, <1>2

(* A request is charged to the holder of the page. *)
LEMMA AttemptEffect ==
  ASSUME LedgerInv, NEW t \in Tokens, NEW g, NEW u, ReserveAttempt(t, g, u)
  PROVE  /\ job.generation = g /\ job.status = "analyzing" /\ u = job.usage
         /\ Claimed(t) # {} /\ \E e \in 1..ItemCount : HoldsPage(t, g, e)
         /\ job'.generation = job.generation /\ job'.status = job.status
         /\ job'.next = job.next /\ job'.ranges = job.ranges
         /\ job'.usage = [job.usage EXCEPT !.attempts = job.usage.attempts + 1]
         /\ job'.usage.batches = job.usage.batches
         /\ job'.usage.attempts = job.usage.attempts + 1
         /\ job'.usage.consumed = job.usage.consumed
         /\ \A y \in Tokens : Claimed(y)' = Claimed(y)
<1>1. PICK e \in 1..ItemCount : HoldsPage(t, g, e)
  BY DEF ReserveAttempt, CanAttempt
<1>2. job.generation = g /\ job.status = "analyzing" /\ Claimed(t) # {}
  BY <1>1, HeldPage
<1>3. u = job.usage /\ UNCHANGED <<row, lease>>
  BY DEF ReserveAttempt, CanAttempt
<1>4. job' = [job EXCEPT !.usage = [job.usage EXCEPT !.attempts = job.usage.attempts + 1]]
  BY DEF ReserveAttempt
<1>5. /\ job'.generation = job.generation /\ job'.status = job.status
      /\ job'.next = job.next /\ job'.ranges = job.ranges
      /\ job'.usage = [job.usage EXCEPT !.attempts = job.usage.attempts + 1]
  BY <1>4, JobFields DEF JobRecord
<1>6. /\ job'.usage.batches = job.usage.batches
      /\ job'.usage.attempts = job.usage.attempts + 1
      /\ job'.usage.consumed = job.usage.consumed
  BY <1>5, JobFields DEF Usage
<1>7. QED BY <1>1, <1>2, <1>3, <1>5, <1>6, SameRows

(* A split frees the page and keeps the charge. *)
LEMMA SplitEffect ==
  ASSUME LedgerInv, NEW t \in Tokens, NEW g, NEW e \in Nat, SplitPage(t, g, e)
  PROVE  /\ HoldsPage(t, g, e) /\ e - job.next > 1 /\ IsHead(job.ranges, job.next, e)
         /\ job'.generation = job.generation /\ job'.status = job.status
         /\ job'.next = job.next /\ job'.usage = job.usage
         /\ job'.ranges = SplitHead(job.ranges, job.next, e)
         /\ \A y \in Tokens : Claimed(y)' = {}
<1>1. /\ HoldsPage(t, g, e) /\ e - job.next > 1 /\ IsHead(job.ranges, job.next, e)
      /\ Freed(Claimed(t)) /\ job' = [job EXCEPT !.ranges = SplitHead(job.ranges, job.next, e)]
  BY DEF SplitPage, CanSplit
<1>2. Claimed(t) = RowsIn("leased")
  BY <1>1, HeldPage, HolderIsAlone
<1>3. \A y \in Tokens : Claimed(y)' = {}
  BY <1>1, <1>2, FreedClaims
<1>4. /\ job'.generation = job.generation /\ job'.status = job.status
      /\ job'.next = job.next /\ job'.usage = job.usage
      /\ job'.ranges = SplitHead(job.ranges, job.next, e)
  BY <1>1, JobFields DEF JobRecord
<1>5. QED BY <1>1, <1>3, <1>4

(* A checkpoint takes the page, moves the cursor behind it and stores the   *)
(* usage it is given.                                                       *)
LEMMA CheckpointEffect ==
  ASSUME LedgerInv, NEW t \in Tokens, NEW g, NEW e \in Nat, NEW failed, NEW rs,
         NEW used, CheckpointPage(t, g, e, failed, rs, used)
  PROVE  /\ HoldsPage(t, g, e) /\ failed \subseteq Claimed(t)
         /\ rs = WorklistAfter(failed)
         /\ job.ranges # <<>> => job.ranges[1].end = e
         /\ job'.generation = job.generation /\ job'.usage = used
         /\ job'.next = e /\ job'.ranges = rs
         /\ job'.status \in {"analyzing", "analysis_blocked", "review"}
         /\ failed = {} => job'.status # "analysis_blocked"
         /\ \A y \in Tokens : Claimed(y)' = {}
<1>1. /\ HoldsPage(t, g, e) /\ failed \subseteq Claimed(t)
      /\ rs = WorklistAfter(failed)
      /\ row' = Outcomes(t, failed)
  BY DEF CheckpointPage, CanCheckpoint
<1>2. job.ranges # <<>> => job.ranges[1].end = e
  BY DEF CheckpointPage, CanCheckpoint
<1>3. PICK s \in {"analyzing", "analysis_blocked", "review"} :
        /\ failed = {} => s # "analysis_blocked"
        /\ job' = [job EXCEPT !.next = e, !.ranges = rs, !.usage = used, !.status = s]
  BY DEF CheckpointPage
<1>4. /\ job'.generation = job.generation /\ job'.usage = used
      /\ job'.next = e /\ job'.ranges = rs /\ job'.status = s
  BY <1>3, JobFields DEF JobRecord
<1>5. Claimed(t) = RowsIn("leased")
  BY <1>1, HeldPage, HolderIsAlone
<1>6. \A i \in Rows : row'[i] # "leased"
  BY <1>1, <1>5 DEF Outcomes, RowsIn
<1>7. \A y \in Tokens : Claimed(y)' = {}
  BY <1>6 DEF Claimed
<1>8. QED BY <1>1, <1>2, <1>3, <1>4, <1>7

(* A new generation starts where the caller says, at the cursor or before. *)
LEMMA AdvanceEffect ==
  ASSUME LedgerInv, NEW g, NEW s \in 0..ItemCount, NEW rs, AdvanceRun(g, s, rs)
  PROVE  /\ job.generation = g /\ job.generation < MaxGeneration /\ s <= job.next
         /\ job.status = "analyzing"
         /\ rs = IF s = job.next THEN job.ranges ELSE <<>>
         /\ job'.generation = job.generation + 1 /\ job'.status = job.status
         /\ job'.next = s /\ job'.ranges = rs /\ job'.usage = NoUsage
<1>1. /\ job.generation = g /\ g < MaxGeneration /\ s <= job.next
      /\ job.status = "analyzing"
      /\ IF s < job.next THEN rs = <<>> ELSE rs = job.ranges
      /\ job' = [job EXCEPT !.generation = g + 1, !.usage = NoUsage, !.next = s, !.ranges = rs]
  BY DEF AdvanceRun, CanAdvance
<1>2. rs = IF s = job.next THEN job.ranges ELSE <<>>
  BY <1>1, JobFields
<1>3. /\ job'.generation = g + 1 /\ job'.status = job.status
      /\ job'.next = s /\ job'.ranges = rs /\ job'.usage = NoUsage
  BY <1>1, JobFields DEF JobRecord
<1>4. QED BY <1>1, <1>2, <1>3

(* A retry goes back to a row before the cursor, and nobody keeps a page. *)
LEMMA RetryEffect ==
  ASSUME LedgerInv, RetryFromFirstFailure
  PROVE  /\ job.status = "analysis_blocked" /\ job'.status = "analyzing"
         /\ job'.generation = job.generation /\ job'.usage = job.usage
         /\ job'.next \in 0..ItemCount /\ job'.ranges = <<>>
         /\ \A y \in Tokens : Claimed(y)' = {}
<1>1. PICK f \in Rows :
        /\ FirstFailed(f) /\ Freed({i \in Rows : i >= f})
        /\ job' = [job EXCEPT !.status = "analyzing", !.next = f, !.ranges = <<>>]
  BY DEF RetryFromFirstFailure
<1>2. /\ job'.status = "analyzing" /\ job'.next = f /\ job'.ranges = <<>>
      /\ job'.generation = job.generation /\ job'.usage = job.usage
  BY <1>1, JobFields DEF JobRecord
<1>3. f < job.next /\ f \in 0..ItemCount
  BY <1>1, JobFields, Bounds DEF FirstFailed, LedgerInv, LedgerFrontier, Rows
<1>4. \A i \in Rows : row[i] = "leased" => i >= f
  BY <1>3, JobFields DEF LedgerInv, LedgerFrontier, Rows
<1>5. \A i \in Rows : row'[i] # "leased"
  BY <1>1, <1>4 DEF Freed
<1>6. \A y \in Tokens : Claimed(y)' = {}
  BY <1>5 DEF Claimed
<1>7. job.status = "analysis_blocked"
  BY DEF RetryFromFirstFailure
<1>8. QED BY <1>2, <1>3, <1>6, <1>7

-----------------------------------------------------------------------------
(* What a step leaves of an execution that does not take it. *)

(* The rows of a token are lost, or kept with the cursor and the usage. *)
KeepsPage(y) ==
  \/ Claimed(y)' = {}
  \/ Claimed(y)' = Claimed(y) /\ job'.next = job.next /\ job'.usage = job.usage

(* The job is typed after a step, too. *)
LEMMA LedgerTypedLater ==
  ASSUME LedgerInv'
  PROVE  /\ job'.generation \in Generations /\ job'.generation \in Nat
         /\ job'.next \in 0..ItemCount /\ job'.next \in Nat
         /\ job'.usage \in Usage /\ job'.usage.batches \in Nat
         /\ job'.usage.attempts \in Nat /\ job'.usage.consumed \in Nat
         /\ Room(job'.usage) \in Int
<1>1. job' \in JobRecord
  BY DEF LedgerInv, LedgerTypeOK
<1>2. job'.generation \in Generations /\ job'.next \in 0..ItemCount /\ job'.usage \in Usage
  BY <1>1 DEF JobRecord, Generations
<1>3. QED BY <1>2, Bounds DEF Usage, Room, Generations

(* The numbers of an execution. *)
LEMMA LocalFields ==
  ASSUME NEW l \in AnyLocal
  PROVE  /\ l.pc \in Points /\ l.generation \in Generations /\ l.generation \in Nat
         /\ l.next \in 0..ItemCount /\ l.next \in Nat
         /\ l.page \in 0..ItemCount /\ l.page \in Nat
         /\ l.ranges \in Seq(AnyRange) /\ l.usage \in Usage
         /\ l.usage.batches \in Nat /\ l.usage.attempts \in Nat /\ l.usage.consumed \in Nat
         /\ Room(l.usage) \in Int /\ Paid(l) \in Int
<1>1. /\ l.pc \in Points /\ l.generation \in Generations /\ l.next \in 0..ItemCount
      /\ l.page \in 0..ItemCount /\ l.ranges \in Seq(AnyRange) /\ l.usage \in Usage
  BY DEF AnyLocal
<1>2. l.usage.batches \in Nat /\ l.usage.attempts \in Nat /\ l.usage.consumed \in Nat
  BY <1>1 DEF Usage
<1>3. l.generation \in Nat
  BY <1>1, Bounds DEF Generations
<1>4. QED BY <1>1, <1>2, <1>3, Bounds DEF Room, Paid

(* A budget that is exhausted stays so. *)
LEMMA ExhaustedStays ==
  ASSUME LedgerInv, LedgerInv', Grows, late => late', Exhausted(job.usage)
  PROVE  Exhausted(job.usage)'
<1>1. /\ job.usage.batches \in Nat /\ job.usage.attempts \in Nat /\ job.usage.consumed \in Nat
  BY JobFields
<1>2. /\ job'.usage.batches \in Nat /\ job'.usage.attempts \in Nat /\ job'.usage.consumed \in Nat
  BY JobFields, LedgerTypedLater
<1>3. QED BY <1>1, <1>2, Bounds DEF Grows, Exhausted

(* A copy that was behind stays behind, and none comes to be ahead. *)
LEMMA CopiesFallBehind ==
  ASSUME LedgerInv, LedgerInv', Grows, NEW l \in AnyLocal
  PROVE  (Within(l) => Within(l)') /\ (Stale(l) => Stale(l)')
<1>1. PICK bb, aa, cc : /\ bb = job'.usage.batches /\ aa = job'.usage.attempts
                        /\ cc = job'.usage.consumed
  OBVIOUS
<1>2. bb \in Nat /\ aa \in Nat /\ cc \in Nat
  BY <1>1, LedgerTypedLater
<1>3. PICK b0, a0, c0 : b0 = job.usage.batches /\ a0 = job.usage.attempts /\ c0 = job.usage.consumed
  OBVIOUS
<1>4. b0 \in Nat /\ a0 \in Nat /\ c0 \in Nat
  BY <1>3, JobFields
<1>5. bb >= b0 /\ aa >= a0 /\ cc >= c0
  BY <1>1, <1>3 DEF Grows
<1>6. Paid(l) \in Int /\ l.usage.attempts \in Nat /\ l.usage.consumed \in Nat
  BY LocalFields
<1>7. /\ Within(l) <=> Paid(l) <= b0 /\ l.usage.attempts <= a0 /\ l.usage.consumed <= c0
      /\ Stale(l) <=> Paid(l) < b0 \/ l.usage.attempts < a0 \/ l.usage.consumed < c0
  BY <1>3 DEF Within, Stale
<1>8. /\ Within(l)' <=> Paid(l) <= bb /\ l.usage.attempts <= aa /\ l.usage.consumed <= cc
      /\ Stale(l)' <=> Paid(l) < bb \/ l.usage.attempts < aa \/ l.usage.consumed < cc
  BY <1>1 DEF Within, Stale, Paid
<1>9. QED BY <1>2, <1>4, <1>5, <1>6, <1>7, <1>8

(* Who does not take the step keeps its slot: it lost its page, or kept it. *)
LEMMA SlotKept ==
  ASSUME LedgerInv, LedgerInv', Grows, late => late',
         NEW y \in Tokens, NEW l, Slot(y, l), KeepsPage(y)
  PROVE  Slot(y, l)'
<1>1. l \in AnyLocal /\ LocalInv(l) /\ KnowsJob(l)
  BY DEF Slot
<1>2. KnowsJob(l)'
  <2>1. Within(l) => Within(l)'
    BY <1>1, CopiesFallBehind
  <2>2. Exhausted(job.usage) => Exhausted(job.usage)'
    BY ExhaustedStays
  <2>3. QED BY <1>1, <2>1, <2>2 DEF KnowsJob, Ours, Grows
<1>3. Ours(l)' /\ l.pc \in Holding /\ Claimed(y)' # {} => InStep(l, Claimed(y))'
  BY DEF Slot, Ours, Grows, KeepsPage, InStep
<1>4. QED BY <1>1, <1>2, <1>3 DEF Slot, LocalInv

(* Another generation has begun. *)
LEMMA SlotOfThePast ==
  ASSUME LedgerInv, job'.generation = job.generation + 1,
         NEW y \in Tokens, NEW l, Slot(y, l)
  PROVE  Slot(y, l)' /\ ~ Ours(l)' /\ l.generation < job'.generation
<1>1. l \in AnyLocal /\ LocalInv(l) /\ KnowsJob(l)
  BY DEF Slot
<1>2. l.generation < job'.generation /\ l.generation # job'.generation
  BY <1>1, LocalFields, JobFields, Bounds DEF KnowsJob, Generations
<1>3. ~ Ours(l)'
  BY <1>2 DEF Ours
<1>4. KnowsJob(l)'
  BY <1>1, <1>2, <1>3, LocalFields, JobFields, Bounds DEF KnowsJob, Generations
<1>5. QED BY <1>1, <1>2, <1>3, <1>4 DEF Slot, LocalInv

(* Who cannot pay does not come to be able to by what others do. *)
LEMMA DeadStays ==
  ASSUME LedgerInv, LedgerInv', Grows, late => late', NEW l \in AnyLocal, Dead(l)
  PROVE  Dead(l)'
<1>1. Stale(l) => Stale(l)'
  BY CopiesFallBehind
<1>2. Exhausted(job.usage) => Exhausted(job.usage)'
  BY ExhaustedStays
<1>3. QED BY <1>1, <1>2 DEF Dead, Ours, Grows

(* An empty slot. *)
LEMMA OffSlot ==
  ASSUME LedgerInv, NEW y \in Tokens
  PROVE  Slot(y, Off) /\ Off \in AnyLocal /\ Off.pc = "off"
<1>1. Off \in AnyLocal /\ Off.pc = "off" /\ Off.status = "analyzing" /\ Off.generation = 1
      /\ Off.ranges = <<>>
  BY Bounds DEF Off, AnyLocal, Points, CallPoints, Generations, NoUsage, Usage, NoPage
<1>2. LocalInv(Off)
  <2>1. Chain(Off.ranges, Off.next, Room(Off.usage))
    BY <1>1, NoChain
  <2>2. QED BY <1>1, <2>1 DEF LocalInv, Holding, Counted
<1>3. KnowsJob(Off)
  BY <1>1, JobFields, Bounds DEF KnowsJob, Counted, Holding, Generations
<1>4. QED BY <1>1, <1>2, <1>3 DEF Slot, Holding

-----------------------------------------------------------------------------
(* Steps of one execution. *)

(* A slot after the step, by the name of what it holds then. *)
LEMMA SlotNamed ==
  ASSUME NEW y, NEW l, exec'[y] = l
  PROVE  Slot(y, exec[y])' <=> Slot(y, l)'
BY DEF Slot, LocalInv, KnowsJob, Ours, Within, Paid, Exhausted, InStep, Claimed

(* Likewise for who cannot pay. *)
LEMMA DeadNamed ==
  ASSUME NEW y, NEW l, exec'[y] = l
  PROVE  Dead(exec[y])' <=> Dead(l)'
BY DEF Dead, Ours, Stale, Paid, Exhausted

(* Execution x goes on with l, ends, or only its timer fires. *)
Moves(x, l) ==
  /\ Become(x, l)
  /\ \/ x \in current /\ current' = current /\ l.generation = exec[x].generation
     \/ current' = current \ {x} /\ l = Off
     \/ /\ x \notin current /\ current' = current
        /\ l.pc = exec[x].pc /\ l.generation = exec[x].generation
  /\ settled' \subseteq Generations
  /\ UNCHANGED <<flight, user, alarm, late, discarded>>

(* What it does to the job. *)
Charges(x) ==
  /\ Grows
  /\ \A y \in Tokens \ {x} : KeepsPage(y)
  /\ job'.status = "analyzing" => job.status = "analyzing"
  /\ job'.status = "analysis_blocked" =>
       job.status = "analysis_blocked" \/ job'.usage.consumed > job.usage.consumed

(* The generation comes to where it may be left. *)
Dooms(x, l) ==
  \/ Leaving(l)' /\ ~ Leaving(exec[x])
  \/ Remembered' /\ ~ Remembered
  \/ job'.status = "analysis_blocked" /\ job.status # "analysis_blocked"

(* Execution x comes to hold l, the others keep what they hold. *)
LEMMA MovedSlots ==
  ASSUME SchedInv, NEW x \in Tokens, NEW l, Become(x, l)
  PROVE  exec'[x] = l /\ \A y \in Tokens \ {x} : exec'[y] = exec[y]
<1>1. exec \in [Tokens -> AnyLocal]
  BY DEF SchedInv, SlotsInv
<1>2. QED BY <1>1 DEF Become

(* All slots are right after a step of one execution. *)
LEMMA MovedSlotsInv ==
  ASSUME SchedInv, LedgerInv', NEW x \in Tokens, NEW l, Moves(x, l), Charges(x), Slot(x, l)'
  PROVE  SlotsInv'
<1>1. exec \in [Tokens -> AnyLocal] /\ l \in AnyLocal
  BY DEF SchedInv, SlotsInv, Slot
<1>2. exec' \in [Tokens -> AnyLocal]
  BY <1>1 DEF Moves, Become
<1>3. Slot(x, exec[x])'
  BY MovedSlots, SlotNamed DEF Moves
<1>4. ASSUME NEW y \in Tokens \ {x} PROVE Slot(y, exec[y])'
  <2>1. PICK k : k = exec[y]
    OBVIOUS
  <2>2. Slot(y, k)
    BY <2>1 DEF SchedInv, SlotsInv
  <2>3. Slot(y, k)'
    BY <2>2, SlotKept DEF SchedInv, Charges, Moves
  <2>4. exec'[y] = k
    BY <2>1, MovedSlots DEF Moves
  <2>5. QED BY <2>3, <2>4, SlotNamed
<1>5. QED BY <1>2, <1>3, <1>4 DEF SlotsInv

(* What a restore has read falls behind, and never ahead. *)
LEMMA FlightKept ==
  ASSUME LedgerInv, LedgerInv', Grows, FlightInv, UNCHANGED flight
  PROVE  FlightInv' /\ (Stale(flight.seed) => Stale(flight.seed)')
<1>1. PICK f : f = flight.seed
  OBVIOUS
<1>2. f \in AnyLocal
  BY <1>1 DEF FlightInv, Flight
<1>3. (Within(f) => Within(f)') /\ (Stale(f) => Stale(f)')
  BY <1>2, CopiesFallBehind
<1>4. f = flight'.seed
  BY <1>1
<1>5. Within(flight.seed)' <=> Within(f)'
  BY <1>4 DEF Within, Paid
<1>6. Stale(flight.seed)' <=> Stale(f)'
  BY <1>4 DEF Stale, Paid
<1>7. Ours(flight.seed)' <=> Ours(flight.seed)
  BY DEF Ours, Grows
<1>8. LocalInv(flight.seed)' <=> LocalInv(flight.seed)
  BY DEF LocalInv
<1>9. QED BY <1>1, <1>3, <1>5, <1>6, <1>7, <1>8 DEF FlightInv, Grows

(* The token of an execution is given back, never taken, by its own steps. *)
LEMMA MovedCurrent ==
  ASSUME SchedInv, NEW x \in Tokens, NEW l, Moves(x, l)
  PROVE  /\ current' \subseteq current /\ current \subseteq Tokens
         /\ \A y \in Tokens \ {x} : y \in current' <=> y \in current
         /\ \A y \in current' : exec'[y].generation = exec[y].generation
<1>1. current \subseteq Tokens
  BY DEF SchedInv, OtherTypes
<1>2. /\ current' \subseteq current
      /\ \A y \in Tokens \ {x} : y \in current' <=> y \in current
      /\ x \in current' => l.generation = exec[x].generation
  BY DEF Moves
<1>3. ASSUME NEW y \in current' PROVE exec'[y].generation = exec[y].generation
  <2>1. CASE y = x
    BY <1>2, <2>1, MovedSlots DEF Moves
  <2>2. CASE y # x
    BY <1>1, <1>2, <2>2, MovedSlots DEF Moves
  <2>3. QED BY <2>1, <2>2
<1>4. QED BY <1>1, <1>2, <1>3

(* A run does not get a second current execution by the step of one. *)
LEMMA MovedOneCurrent ==
  ASSUME SchedInv, NEW x \in Tokens, NEW l, Moves(x, l)
  PROVE  OneCurrent'
<1>1. ASSUME NEW y \in current', NEW z \in current',
             exec'[y].generation = exec'[z].generation
      PROVE  y = z
  <2>1. y \in current /\ z \in current /\ exec[y].generation = exec[z].generation
    BY <1>1, MovedCurrent
  <2>2. QED BY <2>1 DEF SchedInv, OneCurrent
<1>2. QED BY <1>1 DEF OneCurrent

(* No execution comes to be revoked with its page by the step of one. *)
LEMMA MovedOrphans ==
  ASSUME SchedInv, NEW x \in Tokens, NEW l, Moves(x, l), Charges(x), NEW y \in Tokens,
         Orphan(y)', y = x /\ Claimed(x)' # {} => Claimed(x) # {} \/ x \in current' \/ l = Off
  PROVE  Orphan(y)
<1>1. /\ y \notin current' /\ exec'[y].pc \in {"attempt", "split", "checkpoint"}
      /\ exec'[y].generation = job'.generation
      /\ Claimed(y)' # {} /\ job'.status = "analyzing"
  BY DEF Orphan, Ours
<1>2. job'.generation = job.generation /\ job.status = "analyzing"
  BY <1>1 DEF Charges, Grows
<1>3. CASE y # x
  <2>1. y \notin current /\ exec[y] = exec'[y]
    BY <1>1, <1>3, MovedCurrent, MovedSlots DEF Moves
  <2>2. Claimed(y) # {}
    BY <1>1, <1>3 DEF Charges, KeepsPage
  <2>3. QED BY <1>1, <1>2, <2>1, <2>2 DEF Orphan, Ours
<1>4. CASE y = x
  <2>1. exec'[x] = l
    BY MovedSlots DEF Moves
  <2>2. l # Off
    BY <1>1, <1>4, <2>1 DEF Off
  <2>3. x \notin current /\ l.pc = exec[x].pc /\ l.generation = exec[x].generation
    BY <1>1, <1>4, <2>2 DEF Moves
  <2>4. Claimed(x) # {}
    BY <1>1, <1>4, <2>2
  <2>5. QED BY <1>1, <1>2, <1>4, <2>1, <2>3, <2>4 DEF Orphan, Ours
<1>5. QED BY <1>3, <1>4

(* Begun is forever, within a generation. *)
LEMMA BegunStays ==
  ASSUME LedgerInv, LedgerInv', Grows, Begun(job.usage)
  PROVE  Begun(job.usage)'
<1>1. /\ job.usage.batches \in Nat /\ job.usage.attempts \in Nat /\ job.usage.consumed \in Nat
  BY JobFields
<1>2. /\ job'.usage.batches \in Nat /\ job'.usage.attempts \in Nat /\ job'.usage.consumed \in Nat
  BY LedgerTypedLater
<1>3. QED BY <1>1, <1>2 DEF Grows, Begun

(* An exhausted budget has been used. *)
LEMMA ExhaustedIsBegun ==
  ASSUME LedgerInv, Exhausted(job.usage)
  PROVE  Begun(job.usage)
<1>1. /\ job.usage.batches \in Nat /\ job.usage.attempts \in Nat /\ job.usage.consumed \in Nat
  BY JobFields
<1>2. QED BY <1>1, Bounds DEF Exhausted, Begun

(* A cause to leave the generation was there, or the step has brought it. *)
LEMMA MovedDoom ==
  ASSUME SchedInv, LedgerInv', NEW x \in Tokens, NEW l, Moves(x, l), Charges(x), Doomed',
         Claimed(x)' # {} => Claimed(x) # {} \/ x \in current' \/ l = Off
  PROVE  Doomed \/ Dooms(x, l)
<1>1. job'.generation = job.generation
  BY DEF Charges, Grows
<1>2. CASE \E z \in Tokens : Leaving(exec[z])'
  <2>1. PICK z \in Tokens : Leaving(exec[z])'
    BY <1>2
  <2>2. exec'[z].pc = "advance" /\ exec'[z].generation = job.generation
    BY <1>1, <2>1 DEF Leaving, Ours
  <2>3. CASE z = x
    <3>1. exec'[x] = l
      BY MovedSlots DEF Moves
    <3>2. Leaving(l)'
      BY <1>1, <2>2, <2>3, <3>1 DEF Leaving, Ours
    <3>3. QED BY <3>2 DEF Dooms, Doomed
  <2>4. CASE z # x
    BY <2>2, <2>4, MovedSlots DEF Moves, Doomed, Leaving, Ours
  <2>5. QED BY <2>3, <2>4
<1>3. CASE UserLeaves'
  BY <1>1, <1>3 DEF UserLeaves, Doomed, Moves
<1>4. CASE Remembered'
  BY <1>4 DEF Dooms, Doomed
<1>5. CASE ReadBlocked'
  BY <1>1, <1>5 DEF ReadBlocked, Ours, Doomed, Moves
<1>6. CASE job'.status = "analysis_blocked"
  BY <1>6 DEF Dooms, Doomed
<1>7. CASE \E y \in Tokens : Orphan(y)'
  BY <1>7, MovedOrphans DEF Doomed
<1>8. QED BY <1>2, <1>3, <1>4, <1>5, <1>6, <1>7 DEF Doomed

(* Two of the same generation are not both current. *)
LEMMA OthersAreDead ==
  ASSUME SchedInv, NEW x \in Tokens, Ours(exec[x]), x \in current \/ Orphan(x)
  PROVE  \A y \in current \ {x} : Dead(exec[y])
<1>1. CASE x \in current
  <2>1. \A y \in current \ {x} : ~ Ours(exec[y])
    BY <1>1 DEF SchedInv, OneCurrent, Ours
  <2>2. QED BY <2>1 DEF Dead
<1>2. CASE Orphan(x)
  BY <1>2 DEF SchedInv, DoomInv, Doomed
<1>3. QED BY <1>1, <1>2

(* A generation that may be left stays without executions that can pay. *)
LEMMA MovedDoomInv ==
  ASSUME SchedInv, LedgerInv', NEW x \in Tokens, NEW l, Moves(x, l), Charges(x),
         l \in AnyLocal,
         Claimed(x)' # {} => Claimed(x) # {} \/ x \in current' \/ l = Off,
         Dead(exec[x]) /\ x \in current' => Dead(l)',
         Dooms(x, l) => /\ Begun(job.usage)' /\ Ours(exec[x]) /\ (x \in current \/ Orphan(x))
                        /\ x \in current' => Dead(l)'
  PROVE  DoomInv'
<1> SUFFICES ASSUME Doomed'
             PROVE  Begun(job.usage)' /\ \A y \in current' : Dead(exec[y])'
  BY DEF DoomInv
<1>1. Doomed \/ Dooms(x, l)
  BY MovedDoom
<1>2. Begun(job.usage)'
  BY <1>1, BegunStays DEF SchedInv, DoomInv, Charges
<1>3. ASSUME NEW y \in current' PROVE Dead(exec[y])'
  <2>1. y \in current /\ y \in Tokens
    BY MovedCurrent
  <2>2. CASE y # x
    <3>1. Dead(exec[y])
      BY <1>1, <2>1, <2>2, OthersAreDead DEF SchedInv, DoomInv, Orphan
    <3>2. PICK k : k = exec[y]
      OBVIOUS
    <3>3. k \in AnyLocal /\ Dead(k)
      BY <2>1, <3>1, <3>2 DEF SchedInv, SlotsInv
    <3>4. Dead(k)'
      BY <3>3, DeadStays DEF SchedInv, Charges, Moves
    <3>5. exec'[y] = k
      BY <2>1, <2>2, <3>2, MovedSlots DEF Moves
    <3>6. QED BY <3>4, <3>5, DeadNamed
  <2>3. CASE y = x
    <3>1. Dead(l)'
      BY <1>1, <2>1, <2>3 DEF SchedInv, DoomInv
    <3>2. QED BY <2>3, <3>1, MovedSlots, DeadNamed DEF Moves
  <2>4. QED BY <2>2, <2>3
<1>4. QED BY <1>2, <1>3

(* What was read before the job came to be blocked is behind. *)
LEMMA MovedSeedInv ==
  ASSUME SchedInv, LedgerInv', NEW x \in Tokens, NEW l, Moves(x, l), Charges(x)
  PROVE  SeedInv'
<1> SUFFICES ASSUME job'.status = "analysis_blocked", Ours(flight.seed)',
                    flight.pc \in {"readItems", "schedule"}, flight.status = "analyzing"
             PROVE  Stale(flight.seed)'
  BY DEF SeedInv, Moves
<1>1. Ours(flight.seed)
  BY DEF Ours, Charges, Grows, Moves
<1>2. CASE job.status = "analysis_blocked"
  <2>1. Stale(flight.seed)
    BY <1>1, <1>2 DEF SchedInv, SeedInv
  <2>2. QED BY <2>1, FlightKept DEF SchedInv, Charges, Moves
<1>3. CASE job.status # "analysis_blocked"
  <2>1. job'.usage.consumed > job.usage.consumed
    BY <1>3 DEF Charges
  <2>2. Within(flight.seed) /\ flight.seed \in AnyLocal
    BY <1>1 DEF SchedInv, FlightInv, Flight
  <2>3. PICK f : f = flight.seed
    OBVIOUS
  <2>4. f.usage.consumed <= job.usage.consumed /\ f \in AnyLocal
    BY <2>2, <2>3 DEF Within
  <2>5. f.usage.consumed \in Nat /\ job.usage.consumed \in Nat /\ job'.usage.consumed \in Nat
    BY <2>4, LocalFields, JobFields, LedgerTypedLater DEF SchedInv
  <2>6. f.usage.consumed < job'.usage.consumed
    BY <2>1, <2>4, <2>5
  <2>7. flight'.seed = f
    BY <2>3 DEF Moves
  <2>8. QED BY <2>6, <2>7 DEF Stale
<1>4. QED BY <1>2, <1>3

(* What a step of one execution has to show. *)
LEMMA WorkerKeeps ==
  ASSUME SchedInv, [LedgerNext]_ledgerVars, NEW x \in Tokens, NEW l, Moves(x, l), Charges(x),
         Slot(x, l)', JobFits', MemoryInv', RequestsAreCharged', sent' \in Nat,
         faults' \in 0..MaxFaults,
         Claimed(x)' # {} => Claimed(x) # {} \/ x \in current' \/ l = Off,
         Dead(exec[x]) /\ x \in current' => Dead(l)',
         Dooms(x, l) => /\ Begun(job.usage)' /\ Ours(exec[x])
                        /\ x \in current \/ Orphan(x)
                        /\ x \in current' => Dead(l)',
         x \in current' /\ l.pc = "answer" => Ours(l)
  PROVE  SchedInv'
<1>1. LedgerInv'
  BY StepInv DEF SchedInv
<1>2. SlotsInv' /\ l \in AnyLocal
  BY <1>1, MovedSlotsInv DEF Slot
<1>3. FlightInv'
  BY <1>1, FlightKept DEF SchedInv, Moves, Charges
<1>4. UserInv'
  BY DEF SchedInv, UserInv, Moves, Charges, Grows
<1>5. OtherTypes'
  BY MovedCurrent DEF SchedInv, OtherTypes, Moves
<1>6. OneCurrent' /\ DoomInv' /\ SeedInv'
  BY <1>1, <1>2, MovedOneCurrent, MovedDoomInv, MovedSeedInv
<1>7. OrphansAreReleased'
  BY MovedOrphans DEF SchedInv, OrphansAreReleased, Moves
<1>8. AnswersAreOurs'
  <2>1. ASSUME NEW y \in current', exec'[y].pc = "answer"
        PROVE  exec'[y].generation = job'.generation
    <3>1. y \in current /\ y \in Tokens /\ job'.generation = job.generation
      BY MovedCurrent DEF Charges, Grows
    <3>2. CASE y = x
      BY <2>1, <3>1, <3>2, MovedSlots DEF Moves, Ours
    <3>3. CASE y # x
      BY <2>1, <3>1, <3>3, MovedSlots DEF Moves, Ours, SchedInv, AnswersAreOurs
    <3>4. QED BY <3>2, <3>3
  <2>2. QED BY <2>1 DEF AnswersAreOurs, Ours
<1>9. QED BY <1>1, <1>2, <1>3, <1>4, <1>5, <1>6, <1>7, <1>8 DEF SchedInv

(* A step that leaves the job's cursor, usage and worklist alone. *)
LEMMA QuietCharges ==
  ASSUME LedgerInv, LedgerInv', Quiet, NEW x
  PROVE  /\ Charges(x) /\ Grows /\ \A y \in Tokens : KeepsPage(y)
         /\ Claimed(x)' # {} /\ x \in Tokens => Claimed(x) # {}
<1>1. Grows
  BY JobFields DEF Quiet, SameJob, Grows
<1>2. \A y \in Tokens : KeepsPage(y)
  BY DEF Quiet, SameJob, KeepsPage
<1>3. QED BY <1>1, <1>2 DEF Charges, Quiet

(* The job keeps its worklist. *)
LEMMA QuietJobFits ==
  ASSUME JobFits, SameJob
  PROVE  JobFits'
BY DEF JobFits, SameJob, Room

(* The memory is of no later generation. *)
LEMMA QuietMemory ==
  ASSUME MemoryInv, SameJob, UNCHANGED memory
  PROVE  MemoryInv'
BY DEF MemoryInv, SameJob

(* A step of one execution that leaves the job alone. *)
LEMMA QuietWorker ==
  ASSUME SchedInv, [LedgerNext]_ledgerVars, Quiet, NEW x \in Tokens, NEW l, Moves(x, l),
         Slot(x, l), UNCHANGED <<memory, sent>>, faults' \in 0..MaxFaults,
         l.pc = "advance" => exec[x].pc = "advance",
         x \in current' /\ l.pc = "answer" => Ours(l),
         Dead(exec[x]) /\ x \in current' => Dead(l)
  PROVE  SchedInv'
<1>1. LedgerInv /\ LedgerInv'
  BY StepInv DEF SchedInv
<1>2. /\ Charges(x) /\ Grows /\ KeepsPage(x)
      /\ Claimed(x)' # {} => Claimed(x) # {}
  BY <1>1, QuietCharges
<1>3. late => late'
  BY DEF Moves
<1>4. Slot(x, l)' /\ l \in AnyLocal
  BY <1>1, <1>2, <1>3, SlotKept DEF Slot
<1>5. JobFits' /\ MemoryInv'
  BY QuietJobFits, QuietMemory DEF SchedInv, Quiet
<1>6. RequestsAreCharged' /\ sent' \in Nat
  BY DEF SchedInv, RequestsAreCharged, Quiet, SameJob, OtherTypes
<1>7. Dead(exec[x]) /\ x \in current' => Dead(l)'
  BY <1>1, <1>2, <1>3, <1>4, DeadStays
<1>8. ~ Dooms(x, l)
  <2>1. Remembered' => Remembered
    BY DEF Remembered, Quiet, SameJob
  <2>2. SUFFICES ASSUME Leaving(l)' PROVE Leaving(exec[x])
    BY <2>1 DEF Dooms, Quiet
  <2>3. l.pc = "advance" /\ l.generation = job.generation
    BY <2>2 DEF Leaving, Ours, Quiet, SameJob
  <2>4. l # Off
    BY <2>3 DEF Off
  <2>5. QED BY <2>3, <2>4 DEF Leaving, Ours, Moves
<1>9. QED BY <1>2, <1>4, <1>5, <1>6, <1>7, <1>8, WorkerKeeps

-----------------------------------------------------------------------------
(* The steps of an execution that leave the job alone. *)

(* Its own generation's job is never behind what an execution has. *)
LEMMA OwnSlot ==
  ASSUME SchedInv, NEW x \in Tokens
  PROVE  /\ exec[x] \in AnyLocal /\ LocalInv(exec[x]) /\ KnowsJob(exec[x])
         /\ Slot(x, exec[x])
BY DEF SchedInv, SlotsInv, Slot

(* Another place in the program, with the page and the usage it had. *)
Alike(k, l) ==
  /\ l \in AnyLocal
  /\ l.generation = k.generation /\ l.next = k.next /\ l.ranges = k.ranges
  /\ l.usage = k.usage /\ l.page = k.page

(* A slot that differs in the place only. *)
LEMMA AlikeSlot ==
  ASSUME SchedInv, NEW x \in Tokens, NEW l, Alike(exec[x], l),
         l.pc \in Holding => exec[x].pc \in Holding,
         l.pc \in Counted => exec[x].pc \in Counted /\ exec[x].pc # "reserve",
         l.pc = "reserve" => exec[x].pc = "reserve",
         l.pc \in {"page", "attempt"} => l.attempt <= 1,
         l.pc = "attempt" => l.usage.attempts < MaxAttempts,
         l.pc = "split" => l.page - l.next > 1,
         l.pc \notin {"advance", "spawn"},
         l.status = "analysis_blocked" => l.pc = "plan" /\ exec[x].status = l.status,
         l.pc \in Counted => l.status # "budget_exhausted",
         Ours(l) /\ l.status = "budget_exhausted" => Exhausted(job.usage)
  PROVE  Slot(x, l)
<1>1. /\ exec[x] \in AnyLocal /\ LocalInv(exec[x]) /\ KnowsJob(exec[x]) /\ Slot(x, exec[x])
  BY OwnSlot
<1>2. l.pc # "reserve"
  BY DEF Counted
<1>3. LocalInv(l)
  BY <1>1, <1>2 DEF LocalInv, Alike
<1>4. Ours(l) <=> Ours(exec[x])
  BY DEF Ours, Alike
<1>5. KnowsJob(l)
  BY <1>1, <1>2, <1>4 DEF KnowsJob, Alike, Within, Paid
<1>6. Ours(l) /\ l.pc \in Holding /\ Claimed(x) # {} => InStep(l, Claimed(x))
  BY <1>1, <1>4 DEF Slot, InStep, Alike
<1>7. QED BY <1>3, <1>5, <1>6 DEF Slot, Alike

(* It ends. *)
LEMMA EndsQuietly ==
  ASSUME SchedInv, [LedgerNext]_ledgerVars, Quiet, NEW x \in Tokens, End(x),
         UNCHANGED <<memory, flight, alarm, user, late, sent, discarded>>,
         faults' \in 0..MaxFaults
  PROVE  SchedInv'
<1>1. Slot(x, Off) /\ Off.pc = "off"
  BY OffSlot DEF SchedInv
<1>2. settled' \subseteq Generations
  BY OwnSlot, LocalFields DEF End, SchedInv, OtherTypes
<1>3. Moves(x, Off) /\ x \notin current'
  BY <1>2 DEF Moves, End
<1>4. QED BY <1>1, <1>3, QuietWorker

(* It goes on. *)
LEMMA GoesOnQuietly ==
  ASSUME SchedInv, [LedgerNext]_ledgerVars, Quiet, NEW x \in Tokens, NEW l, Slot(x, l),
         Become(x, l), x \in current, l.generation = exec[x].generation,
         UNCHANGED <<current, settled, memory, flight, alarm, user, late, sent, discarded>>,
         faults' \in 0..MaxFaults,
         l.pc = "advance" => exec[x].pc = "advance",
         l.pc = "answer" => Ours(l),
         Dead(exec[x]) => Dead(l)
  PROVE  SchedInv'
<1>1. Moves(x, l)
  BY DEF Moves, SchedInv, OtherTypes
<1>2. QED BY <1>1, QuietWorker

(* Faults are counted within their bound. *)
LEMMA FaultTyped ==
  ASSUME SchedInv, Fault \/ UNCHANGED faults
  PROVE  faults' \in 0..MaxFaults
BY Bounds DEF SchedInv, OtherTypes, Fault

(* Setup. *)
LEMMA SetupKeeps ==
  ASSUME SchedInv, NEW x \in Tokens, Setup(x)
  PROVE  [LedgerNext]_ledgerVars /\ SchedInv'
<1> DEFINE k == exec[x]
<1>1. PICK p \in {"bind", "plan"} : Become(x, [k EXCEPT !.pc = p])
  BY DEF Setup, Goto, Become
<1>2. PICK l : l = [k EXCEPT !.pc = p]
  OBVIOUS
<1>3. /\ k.pc = "setup" /\ x \in current /\ UNCHANGED ledgerVars
      /\ UNCHANGED <<current, settled, memory, flight, alarm, user, late, sent, faults, discarded>>
  BY DEF Setup
<1>4. k \in AnyLocal /\ LocalInv(k) /\ KnowsJob(k)
  BY OwnSlot
<1>5. Alike(k, l) /\ l.pc = p /\ l.status = k.status /\ l.attempt = k.attempt
  BY <1>2, <1>4 DEF Alike, AnyLocal, Points
<1>6. Slot(x, l)
  <2>1. k.status = "analyzing"
    BY <1>3, <1>4 DEF LocalInv, Counted, AnyLocal
  <2>2. QED BY <1>3, <1>5, <2>1, AlikeSlot DEF Holding, Counted
<1>7. Dead(k) => Dead(l)
  BY <1>3, <1>5 DEF Dead, Ours, Alike, Stale, Paid, Holding
<1>8. Quiet /\ faults' \in 0..MaxFaults
  BY <1>3, StutterIsQuiet, FaultTyped
<1>9. SchedInv'
  BY <1>1, <1>2, <1>3, <1>5, <1>6, <1>7, <1>8, GoesOnQuietly DEF Alike
<1>10. QED BY <1>3, <1>9

(* Operations that keep the ledger's promises are steps of it. *)
LEMMA LedgerSteps ==
  ASSUME NEW t \in Tokens
  PROVE  /\ UNCHANGED ledgerVars => [LedgerNext]_ledgerVars
         /\ CancelJob \/ CompleteWithoutApply => [LedgerNext]_ledgerVars
         /\ ReleasePage(t) \/ LeaseExpires(t) => [LedgerNext]_ledgerVars
BY DEF LedgerNext, TokenStep, JobStep

(* A setup that fails. *)
LEMMA SetupFailsKeeps ==
  ASSUME SchedInv, NEW x \in Tokens, SetupFails(x)
  PROVE  [LedgerNext]_ledgerVars /\ SchedInv'
<1>1. CancelJob \/ UNCHANGED ledgerVars
  BY DEF SetupFails
<1>2. [LedgerNext]_ledgerVars
  BY <1>1, LedgerSteps
<1>3. Quiet
  BY <1>1, StutterIsQuiet, StatusIsQuiet DEF SchedInv
<1>4. faults' \in 0..MaxFaults
  BY FaultTyped DEF SetupFails
<1>5. QED BY <1>2, <1>3, <1>4, EndsQuietly DEF SetupFails

(* The binding. *)
LEMMA BindKeeps ==
  ASSUME SchedInv, NEW x \in Tokens, Bind(x)
  PROVE  [LedgerNext]_ledgerVars /\ SchedInv'
<1> DEFINE k == exec[x]
<1>1. PICK p \in Providers : BindProvider(p, k.generation)
  BY DEF Bind
<1>2. [LedgerNext]_ledgerVars
  <2>1. job.generation = k.generation
    BY <1>1 DEF BindProvider, CanBind
  <2>2. BindProvider(p, job.generation)
    BY <1>1, <2>1
  <2>3. QED BY <2>2 DEF LedgerNext, JobStep
<1>3. Quiet
  BY <1>1, BindIsQuiet DEF SchedInv
<1>4. /\ k.pc = "bind" /\ UNCHANGED <<memory, flight, alarm, user, late, sent, faults, discarded>>
      /\ IF x \in current THEN Goto(x, "plan") /\ UNCHANGED <<current, settled>> ELSE End(x)
  BY DEF Bind
<1>5. faults' \in 0..MaxFaults
  BY <1>4, FaultTyped
<1>6. CASE x \notin current
  BY <1>2, <1>3, <1>4, <1>5, <1>6, EndsQuietly
<1>7. CASE x \in current
  <2>1. PICK l : l = [k EXCEPT !.pc = "plan"]
    OBVIOUS
  <2>2. k \in AnyLocal /\ LocalInv(k) /\ KnowsJob(k)
    BY OwnSlot
  <2>3. Alike(k, l) /\ l.pc = "plan" /\ l.status = k.status
    BY <2>1, <2>2 DEF Alike, AnyLocal, Points
  <2>4. k.status = "analyzing"
    BY <1>4, <2>2 DEF LocalInv, Counted, AnyLocal
  <2>5. Slot(x, l)
    BY <1>4, <2>3, <2>4, AlikeSlot DEF Holding, Counted
  <2>6. Dead(k) => Dead(l)
    BY <1>4, <2>3 DEF Dead, Ours, Alike, Stale, Paid, Holding
  <2>7. Become(x, l) /\ UNCHANGED <<current, settled>>
    BY <1>4, <1>7, <2>1 DEF Goto, Become
  <2>8. QED BY <1>2, <1>3, <1>4, <1>5, <1>7, <2>3, <2>5, <2>6, <2>7, GoesOnQuietly DEF Alike
<1>8. QED BY <1>2, <1>6, <1>7

(* The loop that the deadline ends. *)
LEMMA LoopAbortedKeeps ==
  ASSUME SchedInv, NEW x \in Tokens, LoopAborted(x)
  PROVE  [LedgerNext]_ledgerVars /\ SchedInv'
<1>1. UNCHANGED ledgerVars /\ Quiet /\ faults' \in 0..MaxFaults
  BY StutterIsQuiet, FaultTyped DEF LoopAborted
<1>2. QED BY <1>1, EndsQuietly DEF LoopAborted

(* The window of a page that is planned. *)
LEMMA Planned ==
  ASSUME NEW k \in AnyLocal, Chain(k.ranges, k.next, Room(k.usage)), k.next < ItemCount,
         k.usage.consumed < MaxPositions
  PROVE  /\ Window(k) \in Nat /\ Window(k) >= 1
         /\ k.next + Window(k) \in 0..ItemCount /\ Window(k) <= Room(k.usage)
         /\ IsHead(k.ranges, k.next, k.next + Window(k))
<1>1. /\ k.next \in Nat /\ k.ranges \in Seq(AnyRange) /\ k.usage.consumed \in Nat
      /\ Room(k.usage) \in Int
  BY LocalFields
<1>2. PICK m \in Nat : m = Least(MaxPositions - k.usage.consumed, ItemCount - k.next)
  <2>1. MaxPositions - k.usage.consumed \in Nat /\ ItemCount - k.next \in Nat
    BY <1>1, Bounds
  <2>2. QED BY <2>1 DEF Least
<1>3. m >= 1 /\ m <= Room(k.usage) /\ k.next + m <= ItemCount
  BY <1>1, <1>2, Bounds DEF Least, Room
<1>4. CASE k.ranges = <<>>
  <2>1. Window(k) = Least(PageMax, m)
    BY <1>2, <1>4 DEF Window
  <2>2. Window(k) \in Nat /\ Window(k) >= 1 /\ Window(k) <= m
    BY <1>3, <2>1, Bounds DEF Least
  <2>3. IsHead(k.ranges, k.next, k.next + Window(k))
    BY <1>4 DEF IsHead
  <2>4. QED BY <1>1, <1>3, <2>2, <2>3, Bounds
<1>5. CASE k.ranges # <<>>
  <2>1. /\ k.ranges[1].start = k.next /\ k.ranges[1].end \in Nat
        /\ k.next < k.ranges[1].end /\ k.ranges[1].end <= ItemCount
        /\ k.ranges[1].end <= k.next + Room(k.usage)
    BY <1>1, <1>5, HeadOfChain
  <2>2. Size(k.ranges[1]) = k.ranges[1].end - k.next
    BY <2>1 DEF Size
  <2>3. Size(k.ranges[1]) <= m
    <3>1. Size(k.ranges[1]) <= Room(k.usage) /\ Size(k.ranges[1]) <= ItemCount - k.next
      BY <1>1, <2>1, <2>2, Bounds
    <3>2. m = Room(k.usage) \/ m = ItemCount - k.next
      BY <1>2 DEF Least, Room
    <3>3. QED BY <3>1, <3>2
  <2>4. Window(k) = Least(Size(k.ranges[1]), m)
    BY <1>2, <1>5 DEF Window
  <2>5. Window(k) = k.ranges[1].end - k.next
    <3>1. k.ranges[1].end - k.next \in Int
      BY <1>1, <2>1
    <3>2. QED BY <2>2, <2>3, <2>4, <3>1 DEF Least
  <2>6. k.next + Window(k) = k.ranges[1].end
    BY <1>1, <2>1, <2>5
  <2>7. IsHead(k.ranges, k.next, k.next + Window(k))
    BY <2>1, <2>6 DEF IsHead
  <2>8. QED BY <1>1, <1>3, <2>1, <2>5, <2>6, <2>7, Bounds
<1>6. QED BY <1>4, <1>5

(* A copy that is not behind tells whether the budget is exhausted. *)
LEMMA CopiesAgree ==
  ASSUME LedgerInv, NEW k \in AnyLocal, Within(k), Paid(k) = k.usage.batches
  PROVE  /\ Exhausted(k.usage) => Exhausted(job.usage)
         /\ Exhausted(job.usage) => Exhausted(k.usage) \/ Stale(k)
<1>1. /\ k.usage.batches \in Nat /\ k.usage.attempts \in Nat /\ k.usage.consumed \in Nat
      /\ job.usage.batches \in Nat /\ job.usage.attempts \in Nat /\ job.usage.consumed \in Nat
  BY LocalFields, JobFields
<1>2. /\ k.usage.batches <= job.usage.batches /\ k.usage.attempts <= job.usage.attempts
      /\ k.usage.consumed <= job.usage.consumed
  BY DEF Within
<1>3. Exhausted(k.usage) => Exhausted(job.usage)
  BY <1>1, <1>2, Bounds DEF Exhausted
<1>4. ~ Stale(k) => /\ k.usage.batches = job.usage.batches
                    /\ k.usage.attempts = job.usage.attempts
                    /\ k.usage.consumed = job.usage.consumed
  BY <1>1, <1>2 DEF Stale
<1>5. ~ Stale(k) /\ Exhausted(job.usage) => Exhausted(k.usage)
  BY <1>4 DEF Exhausted
<1>6. QED BY <1>3, <1>5

(* The page that is planned, and its batch. *)
Planning(k) == [k EXCEPT !.pc = "reserve", !.page = k.next + Window(k),
                         !.usage = [k.usage EXCEPT !.batches = k.usage.batches + 1]]

(* The execution that has planned a page may reserve it. *)
LEMMA PlanningSlot ==
  ASSUME SchedInv, NEW x \in Tokens, NEW k, k = exec[x], NEW l, l = Planning(k),
         k.pc = "plan", k.status = "analyzing", k.next < ItemCount, ~ Exhausted(k.usage)
  PROVE  /\ Slot(x, l) /\ l.pc = "reserve" /\ l.generation = k.generation
         /\ Dead(k) => Dead(l)
<1>1. k \in AnyLocal /\ LocalInv(k) /\ KnowsJob(k) /\ LedgerInv
  BY OwnSlot DEF SchedInv
<1>2. /\ k.usage \in Usage /\ k.usage.batches \in Nat /\ k.usage.consumed \in Nat
      /\ k.usage.attempts \in Nat /\ k.next \in Nat /\ Room(k.usage) \in Int
  BY <1>1, LocalFields
<1>3. k.usage.batches < MaxBatches /\ k.usage.consumed < MaxPositions
  BY <1>2, Bounds DEF Exhausted
<1>4. /\ Window(k) \in Nat /\ Window(k) >= 1 /\ k.next + Window(k) \in 0..ItemCount
      /\ Window(k) <= Room(k.usage) /\ IsHead(k.ranges, k.next, k.next + Window(k))
  BY <1>1, <1>3, Planned DEF LocalInv
<1>5. [k.usage EXCEPT !.batches = k.usage.batches + 1] \in Usage
  BY <1>2 DEF Usage
<1>6. /\ l \in AnyLocal /\ l.pc = "reserve" /\ l.generation = k.generation /\ l.next = k.next
      /\ l.ranges = k.ranges /\ l.status = k.status /\ l.page = k.next + Window(k)
      /\ l.usage = [k.usage EXCEPT !.batches = k.usage.batches + 1]
  BY <1>1, <1>4, <1>5 DEF Planning, AnyLocal, Points, CallPoints
<1>7. /\ l.usage.batches = k.usage.batches + 1 /\ l.usage.attempts = k.usage.attempts
      /\ l.usage.consumed = k.usage.consumed
  BY <1>2, <1>6 DEF Usage
<1>8. Room(l.usage) = Room(k.usage)
  BY <1>7 DEF Room
<1>9. Paid(l) = k.usage.batches /\ Paid(k) = k.usage.batches
  BY <1>2, <1>6, <1>7 DEF Paid
<1>10. LocalInv(l)
  <2>1. Chain(l.ranges, l.next, Room(l.usage))
    BY <1>1, <1>6, <1>8 DEF LocalInv
  <2>2. /\ l.next < l.page /\ l.page <= l.next + Room(l.usage)
        /\ IsHead(l.ranges, l.next, l.page)
    BY <1>2, <1>4, <1>6, <1>8
  <2>3. l.usage.batches >= 1 /\ l.usage.batches <= MaxBatches
    BY <1>2, <1>3, <1>7, Bounds
  <2>4. QED BY <1>6, <2>1, <2>2, <2>3 DEF LocalInv
<1>11. (Within(l) <=> Within(k)) /\ (Stale(l) <=> Stale(k)) /\ (Ours(l) <=> Ours(k))
  BY <1>6, <1>7, <1>9 DEF Within, Stale, Ours
<1>12. KnowsJob(l)
  BY <1>1, <1>6, <1>11 DEF KnowsJob, Counted
<1>13. Slot(x, l)
  BY <1>6, <1>10, <1>12 DEF Slot, Holding
<1>14. Dead(k) => Dead(l)
  <2>1. Ours(k) => Within(k)
    BY <1>1 DEF KnowsJob, Counted
  <2>2. Ours(k) /\ Exhausted(job.usage) => Stale(k)
    BY <1>1, <1>9, <2>1, CopiesAgree
  <2>3. QED BY <1>6, <1>11, <2>2 DEF Dead, Holding
<1>15. QED BY <1>6, <1>13, <1>14

(* Planning a page, or finding the budget exhausted. *)
LEMMA PlanKeeps ==
  ASSUME SchedInv, NEW x \in Tokens, Plan(x)
  PROVE  [LedgerNext]_ledgerVars /\ SchedInv'
<1>1. PICK k : k = exec[x]
  OBVIOUS
<1>2. /\ k.pc = "plan" /\ x \in current /\ k.status = "analyzing" /\ k.next < ItemCount
      /\ UNCHANGED ledgerVars
      /\ UNCHANGED <<current, settled, memory, flight, alarm, user, late, sent, faults, discarded>>
  BY <1>1 DEF Plan
<1>3. Quiet /\ faults' \in 0..MaxFaults
  BY <1>2, StutterIsQuiet, FaultTyped
<1>4. k \in AnyLocal /\ LocalInv(k) /\ KnowsJob(k) /\ LedgerInv
  BY <1>1, OwnSlot DEF SchedInv
<1>5. CASE Exhausted(k.usage)
  <2>1. PICK l : l = [k EXCEPT !.pc = "exhaust", !.status = "budget_exhausted"]
    OBVIOUS
  <2>2. Become(x, l)
    BY <1>1, <1>5, <2>1 DEF Plan
  <2>3. Alike(k, l) /\ l.pc = "exhaust" /\ l.status = "budget_exhausted"
    BY <1>4, <2>1 DEF Alike, AnyLocal, Points
  <2>4. Ours(k) => Exhausted(job.usage)
    BY <1>2, <1>4, <1>5, CopiesAgree DEF KnowsJob, Counted, Paid
  <2>5. Slot(x, l)
    BY <1>1, <2>3, <2>4, AlikeSlot DEF Holding, Counted, Ours, Alike
  <2>6. Dead(l)
    BY <2>3 DEF Dead, Holding
  <2>7. QED BY <1>1, <1>2, <1>3, <2>2, <2>3, <2>5, <2>6, GoesOnQuietly DEF Alike
<1>6. CASE ~ Exhausted(k.usage)
  <2>1. PICK l : l = Planning(k)
    OBVIOUS
  <2>2. Become(x, l)
    BY <1>1, <1>6, <2>1 DEF Plan, Planning
  <2>3. /\ Slot(x, l) /\ l.pc = "reserve" /\ l.generation = k.generation
        /\ Dead(k) => Dead(l)
    BY <1>1, <1>2, <1>6, <2>1, PlanningSlot
  <2>4. QED BY <1>1, <1>2, <1>3, <2>2, <2>3, GoesOnQuietly
<1>7. QED BY <1>5, <1>6

(* Who has left its page goes on to release it. *)
LEMMA LeavesPage ==
  ASSUME SchedInv, [LedgerNext]_ledgerVars, Quiet, NEW x \in Tokens, NEW k, k = exec[x],
         k.pc \in {"reserve"} \cup Holding, x \in current, NEW l, Become(x, l),
         Alike(k, l), l.pc = "release", l.status = k.status,
         UNCHANGED <<current, settled, memory, flight, alarm, user, late, sent, discarded>>,
         faults' \in 0..MaxFaults
  PROVE  SchedInv'
<1>1. k.status = "analyzing" /\ LocalInv(k)
  BY OwnSlot DEF LocalInv, Counted, Holding, AnyLocal
<1>2. Slot(x, l)
  BY <1>1, AlikeSlot DEF Holding, Counted
<1>3. Dead(l)
  BY DEF Dead, Holding
<1>4. QED BY <1>2, <1>3, GoesOnQuietly DEF Alike

(* The execution that releases its page next. *)
LEMMA ReleasingFields ==
  ASSUME NEW k \in AnyLocal, NEW t \in {"off", "exhaust"},
         NEW l, l = [k EXCEPT !.pc = "release", !.then = t]
  PROVE  Alike(k, l) /\ l.pc = "release" /\ l.status = k.status
<1>1. "release" \in Points
  BY DEF Points
<1>2. l \in AnyLocal
  BY <1>1 DEF AnyLocal
<1>3. /\ l.generation = k.generation /\ l.next = k.next /\ l.ranges = k.ranges
      /\ l.usage = k.usage /\ l.page = k.page
  BY DEF AnyLocal
<1>4. l.pc = "release" /\ l.status = k.status
  BY DEF AnyLocal
<1>5. QED BY <1>2, <1>3, <1>4 DEF Alike

(* A failure releases the page, or ends who was revoked. *)
LEMMA ThrowKeeps ==
  ASSUME SchedInv, NEW x \in Tokens, exec[x].pc \in CallPoints \cup {"page"}, Throw(x),
         UNCHANGED ledgerVars, Fault \/ UNCHANGED faults,
         UNCHANGED <<memory, flight, alarm, user, late, sent, discarded>>
  PROVE  [LedgerNext]_ledgerVars /\ SchedInv'
<1>1. /\ [LedgerNext]_ledgerVars /\ Quiet /\ faults' \in 0..MaxFaults
  BY LedgerSteps, StutterIsQuiet, FaultTyped
<1>2. CASE x \in current
  <2>1. PICK k, t : k = exec[x] /\ t = IF k.timer = "fired" THEN "exhaust" ELSE "off"
    OBVIOUS
  <2>2. k \in AnyLocal /\ t \in {"off", "exhaust"}
    BY <2>1, OwnSlot
  <2>3. PICK l : l = [k EXCEPT !.pc = "release", !.then = t]
    OBVIOUS
  <2>4. Become(x, l) /\ UNCHANGED <<current, settled>>
    BY <1>2, <2>1, <2>3 DEF Throw
  <2>5. k.pc \in {"reserve"} \cup Holding
    BY <2>1 DEF CallPoints, Holding
  <2>6. Alike(k, l) /\ l.pc = "release" /\ l.status = k.status
    BY <2>2, <2>3, ReleasingFields
  <2>7. SchedInv'
    BY <1>1, <1>2, <2>1, <2>4, <2>5, <2>6, LeavesPage
  <2>8. QED BY <1>1, <2>7
<1>3. CASE x \notin current
  BY <1>1, <1>3, EndsQuietly DEF Throw
<1>4. QED BY <1>2, <1>3

(* A store call that fails. *)
LEMMA CallFailsKeeps ==
  ASSUME SchedInv, NEW x \in Tokens, CallFails(x)
  PROVE  [LedgerNext]_ledgerVars /\ SchedInv'
BY ThrowKeeps DEF CallFails

(* A page that cannot be loaded. *)
LEMMA ErrorKeeps ==
  ASSUME SchedInv, NEW x \in Tokens, Error(x)
  PROVE  [LedgerNext]_ledgerVars /\ SchedInv'
BY ThrowKeeps DEF Error

(* A page that the deadline aborts. *)
LEMMA PageAbortedKeeps ==
  ASSUME SchedInv, NEW x \in Tokens, PageAborted(x)
  PROVE  [LedgerNext]_ledgerVars /\ SchedInv'
<1>1. /\ x \in current /\ exec[x].pc \in {"page", "answer"} /\ UNCHANGED ledgerVars
      /\ UNCHANGED <<current, settled, memory, flight, alarm, user, late, sent, faults, discarded>>
  BY DEF PageAborted
<1>2. /\ [LedgerNext]_ledgerVars /\ Quiet /\ faults' \in 0..MaxFaults
  BY <1>1, LedgerSteps, StutterIsQuiet, FaultTyped
<1>3. PICK k, l : k = exec[x] /\ l = [k EXCEPT !.pc = "release", !.then = "exhaust"]
  OBVIOUS
<1>4. k \in AnyLocal
  BY <1>3, OwnSlot
<1>5. Alike(k, l) /\ l.pc = "release" /\ l.status = k.status
  BY <1>3, <1>4, ReleasingFields
<1>6. Become(x, l)
  BY <1>3 DEF PageAborted
<1>7. SchedInv'
  BY <1>1, <1>2, <1>3, <1>5, <1>6, LeavesPage DEF Holding
<1>8. QED BY <1>2, <1>7

(* Who stays on its page does so with what it had. *)
LEMMA StaysOnPage ==
  ASSUME SchedInv, NEW x \in Tokens, NEW k, k = exec[x], NEW l, Become(x, l),
         k.pc \in Holding, x \in current, Alike(k, l), l.status = k.status,
         l.pc \in Holding \ {"answer"},
         l.pc \in {"page", "attempt"} => l.attempt <= 1,
         l.pc = "attempt" => l.usage.attempts < MaxAttempts,
         l.pc = "split" => l.page - l.next > 1,
         UNCHANGED ledgerVars, UNCHANGED faults,
         UNCHANGED <<current, settled, memory, flight, alarm, user, late, sent, discarded>>
  PROVE  [LedgerNext]_ledgerVars /\ SchedInv'
<1>1. [LedgerNext]_ledgerVars /\ Quiet /\ faults' \in 0..MaxFaults
  BY LedgerSteps, StutterIsQuiet, FaultTyped
<1>2. k.status = "analyzing"
  BY OwnSlot DEF LocalInv, Counted, Holding, AnyLocal
<1>3. Slot(x, l)
  BY <1>2, AlikeSlot DEF Holding, Counted
<1>4. Dead(k) => Dead(l)
  BY DEF Dead, Alike, Ours
<1>5. l.pc \notin {"answer", "advance"}
  BY DEF Holding
<1>6. SchedInv'
  BY <1>1, <1>3, <1>4, <1>5, GoesOnQuietly DEF Alike
<1>7. QED BY <1>1, <1>6

(* A page without a live repository. *)
LEMMA LocalOnlyKeeps ==
  ASSUME SchedInv, NEW x \in Tokens, LocalOnly(x)
  PROVE  [LedgerNext]_ledgerVars /\ SchedInv'
<1>1. PICK k, l : k = exec[x] /\ l = [k EXCEPT !.pc = "checkpoint", !.failed = {}]
  OBVIOUS
<1>2. k \in AnyLocal /\ k.pc = "page"
  BY <1>1, OwnSlot DEF LocalOnly
<1>3. Alike(k, l) /\ l.pc = "checkpoint" /\ l.status = k.status
  BY <1>1, <1>2 DEF Alike, AnyLocal, Points, CallPoints
<1>4. Become(x, l)
  BY <1>1 DEF LocalOnly
<1>5. QED BY <1>1, <1>2, <1>3, <1>4, StaysOnPage DEF LocalOnly, Holding

(* An attempt that is prepared, or has no budget left. *)
LEMMA PrepareAttemptKeeps ==
  ASSUME SchedInv, NEW x \in Tokens, PrepareAttempt(x)
  PROVE  [LedgerNext]_ledgerVars /\ SchedInv'
<1>1. PICK k : k = exec[x]
  OBVIOUS
<1>2. /\ k \in AnyLocal /\ LocalInv(k) /\ KnowsJob(k) /\ LedgerInv
      /\ k.pc = "page" /\ x \in current /\ UNCHANGED ledgerVars
      /\ UNCHANGED <<current, settled, memory, flight, alarm, user, late, sent, faults, discarded>>
  BY <1>1, OwnSlot DEF PrepareAttempt, SchedInv
<1>3. /\ [LedgerNext]_ledgerVars /\ Quiet /\ faults' \in 0..MaxFaults
  BY <1>2, LedgerSteps, StutterIsQuiet, FaultTyped
<1>4. k.usage.attempts \in Nat /\ job.usage.attempts \in Nat
  BY <1>2, LocalFields, JobFields
<1>5. CASE k.usage.attempts >= MaxAttempts \/ (late /\ k.usage.attempts > 0)
  <2>1. PICK l : l = [k EXCEPT !.pc = "release", !.then = "exhaust", !.status = "budget_exhausted"]
    OBVIOUS
  <2>2. Become(x, l)
    BY <1>1, <1>5, <2>1 DEF PrepareAttempt
  <2>3. Alike(k, l) /\ l.pc = "release" /\ l.status = "budget_exhausted"
    BY <1>2, <2>1 DEF Alike, AnyLocal, Points
  <2>4. Ours(k) => Exhausted(job.usage)
    <3>1. Ours(k) => k.usage.attempts <= job.usage.attempts
      BY <1>2 DEF KnowsJob, Within, Counted, Holding
    <3>2. QED BY <1>4, <1>5, <3>1, Bounds DEF Exhausted
  <2>5. Slot(x, l)
    BY <1>1, <2>3, <2>4, AlikeSlot DEF Holding, Counted, Ours, Alike
  <2>6. Dead(l)
    BY <2>3 DEF Dead, Holding
  <2>7. QED BY <1>1, <1>2, <1>3, <2>2, <2>3, <2>5, <2>6, GoesOnQuietly DEF Alike
<1>6. CASE ~ (k.usage.attempts >= MaxAttempts \/ (late /\ k.usage.attempts > 0))
  <2>1. PICK l : l = [k EXCEPT !.pc = "attempt"]
    OBVIOUS
  <2>2. Become(x, l)
    BY <1>1, <1>6, <2>1 DEF PrepareAttempt
  <2>3. Alike(k, l) /\ l.pc = "attempt" /\ l.status = k.status /\ l.attempt = k.attempt
    BY <1>2, <2>1 DEF Alike, AnyLocal, Points, CallPoints
  <2>4. l.attempt <= 1
    BY <1>2, <2>3 DEF LocalInv
  <2>5. l.usage.attempts < MaxAttempts
    BY <1>4, <1>6, <2>3, Bounds DEF Alike
  <2>6. QED BY <1>1, <1>2, <2>2, <2>3, <2>4, <2>5, StaysOnPage DEF Holding
<1>7. QED BY <1>5, <1>6

(* The answer of the provider. *)
LEMMA AnswerKeeps ==
  ASSUME SchedInv, NEW x \in Tokens, Answer(x)
  PROVE  [LedgerNext]_ledgerVars /\ SchedInv'
<1>1. PICK k : k = exec[x]
  OBVIOUS
<1>2. /\ k \in AnyLocal /\ LocalInv(k)
      /\ k.pc = "answer" /\ x \in current /\ UNCHANGED ledgerVars
      /\ UNCHANGED <<current, settled, memory, flight, alarm, user, late, sent, faults, discarded>>
  BY <1>1, OwnSlot DEF Answer
<1>3. PICK l : /\ Become(x, l)
               /\ \/ \E f \in SUBSET Page(k.next, k.page) :
                       l = [k EXCEPT !.pc = "checkpoint", !.failed = f]
                  \/ k.attempt < 2 /\ l = [k EXCEPT !.pc = "page"]
                  \/ k.page - k.next > 1 /\ l = [k EXCEPT !.pc = "split"]
  <2>1. CASE Become(x, [k EXCEPT !.pc = "checkpoint", !.failed = {}])
    <3>1. {} \in SUBSET Page(k.next, k.page)
      OBVIOUS
    <3>2. QED BY <2>1, <3>1
  <2>2. CASE k.attempt < 2 /\ Goto(x, "page")
    BY <1>1, <2>2 DEF Goto, Become
  <2>3. CASE k.page - k.next > 1 /\ Become(x, [k EXCEPT !.pc = "split"])
    BY <2>3
  <2>4. CASE \E f \in SUBSET Page(k.next, k.page) \ {{}} :
               Become(x, [k EXCEPT !.pc = "checkpoint", !.failed = f])
    BY <2>4
  <2>5. QED BY <1>1, <2>1, <2>2, <2>3, <2>4 DEF Answer
<1>4. Page(k.next, k.page) \subseteq Rows
  BY <1>2, LocalFields, Bounds DEF Page, Rows
<1>5. CASE \E f \in SUBSET Page(k.next, k.page) :
             l = [k EXCEPT !.pc = "checkpoint", !.failed = f]
  <2>1. PICK f \in SUBSET Rows : l = [k EXCEPT !.pc = "checkpoint", !.failed = f]
    BY <1>4, <1>5
  <2>2. Alike(k, l) /\ l.pc = "checkpoint" /\ l.status = k.status
    BY <1>2, <2>1 DEF Alike, AnyLocal, Points, CallPoints
  <2>3. QED BY <1>1, <1>2, <1>3, <2>2, StaysOnPage DEF Holding
<1>6. CASE k.attempt < 2 /\ l = [k EXCEPT !.pc = "page"]
  <2>1. Alike(k, l) /\ l.pc = "page" /\ l.status = k.status /\ l.attempt = k.attempt
    BY <1>2, <1>6 DEF Alike, AnyLocal, Points
  <2>2. l.attempt <= 1
    BY <1>2, <1>6, <2>1 DEF AnyLocal
  <2>3. QED BY <1>1, <1>2, <1>3, <2>1, <2>2, StaysOnPage DEF Holding
<1>7. CASE k.page - k.next > 1 /\ l = [k EXCEPT !.pc = "split"]
  <2>1. Alike(k, l) /\ l.pc = "split" /\ l.status = k.status
    BY <1>2, <1>7 DEF Alike, AnyLocal, Points, CallPoints
  <2>2. l.page - l.next > 1
    BY <1>7, <2>1 DEF Alike
  <2>3. QED BY <1>1, <1>2, <1>3, <2>1, <2>2, StaysOnPage DEF Holding
<1>8. QED BY <1>3, <1>5, <1>6, <1>7

(* The deadline timer. *)
LEMMA TimerFiresKeeps ==
  ASSUME SchedInv, NEW x \in Tokens, TimerFires(x)
  PROVE  [LedgerNext]_ledgerVars /\ SchedInv'
<1>1. PICK k, l : k = exec[x] /\ l = [k EXCEPT !.timer = "fired"]
  OBVIOUS
<1>2. k \in AnyLocal /\ LocalInv(k) /\ KnowsJob(k) /\ Slot(x, k)
  BY <1>1, OwnSlot
<1>3. /\ l \in AnyLocal /\ l.pc = k.pc /\ l.generation = k.generation /\ l.next = k.next
      /\ l.ranges = k.ranges /\ l.usage = k.usage /\ l.page = k.page /\ l.status = k.status
      /\ l.attempt = k.attempt
  BY <1>1, <1>2 DEF AnyLocal
<1>4. /\ UNCHANGED ledgerVars
      /\ UNCHANGED <<current, settled, memory, flight, alarm, user, late, sent, faults, discarded>>
  BY DEF TimerFires
<1>5. /\ [LedgerNext]_ledgerVars /\ Quiet /\ faults' \in 0..MaxFaults
  BY <1>4, LedgerSteps, StutterIsQuiet, FaultTyped
<1>6. Become(x, l)
  BY <1>1 DEF TimerFires, Become
<1>7. Moves(x, l)
  BY <1>1, <1>3, <1>4, <1>6 DEF Moves, SchedInv, OtherTypes
<1>8. (Ours(l) <=> Ours(k)) /\ (Paid(l) = Paid(k))
  BY <1>3 DEF Ours, Paid
<1>9. (Within(l) <=> Within(k)) /\ (Stale(l) <=> Stale(k))
  BY <1>3, <1>8 DEF Within, Stale
<1>10. Slot(x, l)
  BY <1>2, <1>3, <1>8, <1>9 DEF Slot, LocalInv, KnowsJob, InStep
<1>11. Dead(k) => Dead(l)
  BY <1>3, <1>8, <1>9 DEF Dead
<1>12. l.pc = "answer" /\ x \in current => Ours(l)
  BY <1>1, <1>3, <1>8 DEF SchedInv, AnswersAreOurs
<1>13. SchedInv'
  BY <1>1, <1>3, <1>4, <1>5, <1>7, <1>10, <1>11, <1>12, QuietWorker
<1>14. QED BY <1>5, <1>13

(* The release of a page. *)
LEMMA ReleaseKeeps ==
  ASSUME SchedInv, NEW x \in Tokens, Release(x)
  PROVE  [LedgerNext]_ledgerVars /\ SchedInv'
<1>1. PICK k : k = exec[x]
  OBVIOUS
<1>2. /\ k \in AnyLocal /\ LocalInv(k) /\ KnowsJob(k)
      /\ k.pc = "release" /\ x \in current
      /\ ReleasePage(x) \/ UNCHANGED ledgerVars
      /\ UNCHANGED <<memory, flight, alarm, user, late, sent, faults, discarded>>
  BY <1>1, OwnSlot DEF Release
<1>3. /\ [LedgerNext]_ledgerVars /\ Quiet /\ faults' \in 0..MaxFaults
  BY <1>2, LedgerSteps, StutterIsQuiet, ReleaseIsQuiet, FaultTyped DEF SchedInv
<1>4. CASE k.then = "exhaust"
  <2>1. PICK l : l = [k EXCEPT !.pc = "exhaust"]
    OBVIOUS
  <2>2. Become(x, l) /\ UNCHANGED <<current, settled>>
    BY <1>1, <1>4, <2>1 DEF Release, Goto, Become
  <2>3. Alike(k, l) /\ l.pc = "exhaust" /\ l.status = k.status
    BY <1>2, <2>1 DEF Alike, AnyLocal, Points
  <2>4. l.status # "analysis_blocked"
    BY <1>2, <2>3 DEF LocalInv
  <2>5. Ours(l) /\ l.status = "budget_exhausted" => Exhausted(job.usage)
    BY <1>2, <2>3 DEF KnowsJob, Ours, Alike
  <2>6. Slot(x, l)
    BY <1>1, <2>3, <2>4, <2>5, AlikeSlot DEF Holding, Counted
  <2>7. Dead(l)
    BY <2>3 DEF Dead, Holding
  <2>8. QED BY <1>1, <1>2, <1>3, <2>2, <2>3, <2>6, <2>7, GoesOnQuietly DEF Alike
<1>5. CASE k.then # "exhaust"
  BY <1>1, <1>2, <1>3, <1>5, EndsQuietly DEF Release
<1>6. QED BY <1>4, <1>5

(* A refusal of a call that presents the job's own state, or a stutter. *)
LEMMA ReserveNullKeeps ==
  ASSUME SchedInv, NEW x \in Tokens, ReserveNull(x)
  PROVE  [LedgerNext]_ledgerVars /\ SchedInv'
<1>1. PICK k : k = exec[x]
  OBVIOUS
<1>2. /\ k \in AnyLocal /\ LocalInv(k) /\ LedgerInv
      /\ k.pc = "reserve" /\ End(x)
      /\ ReserveRefused(x, k.generation, PreviousBatch(k.usage), k.next, k.page)
      /\ UNCHANGED <<memory, flight, alarm, user, late, sent, faults, discarded>>
  BY <1>1, OwnSlot DEF ReserveNull, SchedInv
<1>3. Quiet /\ faults' \in 0..MaxFaults
  BY <1>2, RefusalIsQuiet, FaultTyped
<1>4. [LedgerNext]_ledgerVars
  <2>1. CASE job.status # "analyzing"
    <3>1. Freed({}) /\ UNCHANGED <<job, expired>>
      BY <1>2, <2>1 DEF ReserveRefused
    <3>2. row' = row /\ lease' = lease
      BY <1>2, <3>1 DEF Freed, LedgerInv, LedgerTypeOK
    <3>3. QED BY <3>1, <3>2 DEF ledgerVars
  <2>2. CASE job.status = "analyzing"
    <3>1. ReserveArguments(x, k.generation, PreviousBatch(k.usage), k.next, k.page)
      BY <1>2, <2>2 DEF ReserveRefused, CanRefuse
    <3>2. /\ k.generation = job.generation /\ PreviousBatch(k.usage) = job.usage
          /\ k.next = job.next /\ k.next < k.page /\ k.page <= ItemCount
      BY <3>1 DEF ReserveArguments
    <3>3. ReserveRefused(x, job.generation, job.usage, job.next, k.page)
      BY <1>2, <3>2
    <3>4. k.page \in 1..ItemCount
      BY <1>2, <3>2, LocalFields
    <3>5. BatchAdmitted(job.usage)
      <4>1. k.usage \in Usage /\ k.usage.batches \in Nat /\ k.usage.batches <= MaxBatches
        BY <1>2, LocalFields DEF LocalInv
      <4>2. job.usage.batches = k.usage.batches - 1
        BY <3>2, <4>1 DEF PreviousBatch, Usage
      <4>3. QED BY <4>1, <4>2, Bounds DEF BatchAdmitted
    <3>6. QED BY <3>3, <3>4, <3>5 DEF LedgerNext, TokenStep, PageStep
  <2>3. QED BY <2>1, <2>2
<1>5. SchedInv'
  BY <1>2, <1>3, <1>4, EndsQuietly
<1>6. QED BY <1>4, <1>5

(* What an execution remembers of its run when it ends, or advances. *)
LEMMA RememberingKeeps ==
  ASSUME SchedInv, [LedgerNext]_ledgerVars, Quiet, NEW x \in Tokens, NEW k, k = exec[x],
         NEW l, Moves(x, l), Slot(x, l), Dead(l), l.pc # "answer", x \in current,
         NEW m \in MemoryState, memory' = [memory EXCEPT ![k.generation] = m],
         Ours(k) /\ (l.pc = "advance" \/ m \in {"analysis_blocked", "budget_exhausted"})
           => Begun(job.usage),
         UNCHANGED sent, faults' \in 0..MaxFaults
  PROVE  SchedInv'
<1>1. /\ LedgerInv /\ LedgerInv' /\ k \in AnyLocal /\ KnowsJob(k) /\ l \in AnyLocal
      /\ MemoryInv /\ job'.generation = job.generation
  BY StepInv, OwnSlot DEF SchedInv, Slot, Quiet, SameJob
<1>2. /\ k.generation \in Generations /\ k.generation \in Nat /\ k.generation <= job.generation
      /\ job.generation \in Generations
  BY <1>1, LocalFields, JobFields DEF KnowsJob
<1>3. /\ Charges(x) /\ Grows /\ KeepsPage(x)
      /\ Claimed(x)' # {} => Claimed(x) # {}
  BY <1>1, QuietCharges
<1>4. late => late'
  BY DEF Moves
<1>5. Slot(x, l)' /\ Dead(l)'
  BY <1>1, <1>3, <1>4, SlotKept, DeadStays
<1>6. JobFits'
  BY QuietJobFits DEF SchedInv, Quiet
<1>7. MemoryInv'
  <2>1. memory' \in [Generations -> MemoryState]
    BY <1>1 DEF MemoryInv
  <2>2. \A g \in Generations : g > job.generation => memory'[g] = "none"
    <3>1. \A g \in Generations : g > job.generation => g # k.generation
      BY <1>2, Bounds DEF Generations
    <3>2. QED BY <1>1, <3>1 DEF MemoryInv
  <2>3. QED BY <1>1, <2>1, <2>2 DEF MemoryInv
<1>8. RequestsAreCharged' /\ sent' \in Nat
  BY DEF SchedInv, RequestsAreCharged, Quiet, SameJob, OtherTypes
<1>9. Dooms(x, l) => Ours(k) /\ Begun(job.usage)
  <2>1. CASE Remembered' /\ ~ Remembered
    <3>1. /\ memory'[job.generation] \in {"analysis_blocked", "budget_exhausted"}
          /\ memory'[job.generation] # memory[job.generation]
      BY <1>1, <2>1 DEF Remembered
    <3>2. k.generation = job.generation /\ m \in {"analysis_blocked", "budget_exhausted"}
      BY <1>1, <1>2, <3>1 DEF MemoryInv
    <3>3. QED BY <3>2 DEF Ours
  <2>2. CASE Leaving(l)'
    <3>1. l.pc = "advance" /\ l.generation = job.generation
      BY <1>1, <2>2 DEF Leaving, Ours
    <3>2. l # Off
      BY <3>1 DEF Off
    <3>3. k.generation = job.generation
      BY <3>1, <3>2 DEF Moves
    <3>4. QED BY <3>1, <3>3 DEF Ours
  <2>3. QED BY <2>1, <2>2 DEF Dooms, Quiet
<1>10. Begun(job.usage) => Begun(job.usage)'
  BY <1>1, <1>3, BegunStays
<1>11. QED BY <1>3, <1>5, <1>6, <1>7, <1>8, <1>9, <1>10, WorkerKeeps

(* The end of an execution with nothing left to plan. *)
LEMMA FinishKeeps ==
  ASSUME SchedInv, NEW x \in Tokens, Finish(x)
  PROVE  [LedgerNext]_ledgerVars /\ SchedInv'
<1>1. PICK k : k = exec[x]
  OBVIOUS
<1>2. PICK m : m = IF k.status = "analysis_blocked" THEN "analysis_blocked"
                   ELSE memory[k.generation]
  OBVIOUS
<1>3. /\ k \in AnyLocal /\ LocalInv(k) /\ KnowsJob(k) /\ LedgerInv /\ MemoryInv
      /\ k.pc = "plan" /\ x \in current /\ End(x)
      /\ UNCHANGED <<flight, alarm, user, late, sent, faults, discarded>>
      /\ CompleteWithoutApply \/ UNCHANGED ledgerVars
  BY <1>1, OwnSlot DEF Finish, SchedInv
<1>4. memory' = [memory EXCEPT ![k.generation] = m]
  BY <1>1, <1>2 DEF Finish
<1>5. /\ [LedgerNext]_ledgerVars /\ Quiet /\ faults' \in 0..MaxFaults
  BY <1>3, LedgerSteps, StutterIsQuiet, StatusIsQuiet, FaultTyped
<1>6. k.generation \in Generations /\ k.usage.batches \in Nat /\ job.usage.batches \in Nat
  BY <1>3, LocalFields, JobFields
<1>7. m \in MemoryState
  BY <1>2, <1>3, <1>6 DEF MemoryInv, MemoryState
<1>8. Ours(k) /\ m \in {"analysis_blocked", "budget_exhausted"} => Begun(job.usage)
  <2>1. SUFFICES ASSUME Ours(k), m \in {"analysis_blocked", "budget_exhausted"}
                 PROVE  Begun(job.usage)
    OBVIOUS
  <2>2. CASE k.status = "analysis_blocked"
    <3>1. k.usage.batches >= 1 /\ Paid(k) = k.usage.batches /\ Paid(k) <= job.usage.batches
      BY <1>3, <2>1, <2>2 DEF LocalInv, Paid, KnowsJob, Within, Counted
    <3>2. QED BY <1>6, <3>1 DEF Begun
  <2>3. CASE k.status # "analysis_blocked"
    <3>1. Remembered
      BY <1>2, <2>1, <2>3 DEF Remembered, Ours
    <3>2. QED BY <3>1 DEF SchedInv, DoomInv, Doomed
  <2>4. QED BY <2>2, <2>3
<1>9. Slot(x, Off) /\ Off.pc = "off" /\ Dead(Off)
  BY <1>3, OffSlot DEF Dead, Holding
<1>10. Moves(x, Off)
  BY <1>1, <1>3, <1>6 DEF Moves, End, SchedInv, OtherTypes
<1>11. SchedInv'
  BY <1>1, <1>3, <1>4, <1>5, <1>7, <1>8, <1>9, <1>10, RememberingKeeps
<1>12. QED BY <1>5, <1>11

(* The end of a budget. *)
LEMMA ExhaustKeeps ==
  ASSUME SchedInv, NEW x \in Tokens, Exhaust(x)
  PROVE  [LedgerNext]_ledgerVars /\ SchedInv'
<1>1. PICK k : k = exec[x]
  OBVIOUS
<1>2. /\ k \in AnyLocal /\ LocalInv(k) /\ KnowsJob(k) /\ LedgerInv
      /\ k.pc = "exhaust" /\ x \in current /\ UNCHANGED ledgerVars
      /\ memory' = [memory EXCEPT ![k.generation] = k.status]
      /\ UNCHANGED <<flight, alarm, user, late, sent, faults, discarded>>
  BY <1>1, OwnSlot DEF Exhaust, SchedInv
<1>3. /\ [LedgerNext]_ledgerVars /\ Quiet /\ faults' \in 0..MaxFaults
  BY <1>2, LedgerSteps, StutterIsQuiet, FaultTyped
<1>4. k.status \in {"analyzing", "budget_exhausted"} /\ k.status \in MemoryState
      /\ k.generation \in Generations
  BY <1>2, LocalFields DEF LocalInv, AnyLocal, MemoryState
<1>5. Ours(k) /\ k.status = "budget_exhausted" => Begun(job.usage)
  BY <1>2, ExhaustedIsBegun DEF KnowsJob
<1>6. CASE k.next > k.start /\ k.status = "budget_exhausted"
  <2>1. PICK l : l = [k EXCEPT !.pc = "advance"]
    OBVIOUS
  <2>2. Become(x, l) /\ UNCHANGED <<current, settled>>
    BY <1>1, <1>6, <2>1 DEF Exhaust, Goto, Become
  <2>3. /\ l \in AnyLocal /\ l.pc = "advance" /\ l.generation = k.generation /\ l.next = k.next
        /\ l.ranges = k.ranges /\ l.usage = k.usage /\ l.status = k.status
    BY <1>2, <2>1 DEF AnyLocal, Points
  <2>4. Slot(x, l)
    BY <1>2, <1>6, <2>3 DEF Slot, LocalInv, KnowsJob, Holding, Counted, Ours
  <2>5. Dead(l)
    BY <2>3 DEF Dead, Holding
  <2>6. Moves(x, l)
    BY <1>1, <1>2, <2>2, <2>3 DEF Moves, SchedInv, OtherTypes
  <2>7. SchedInv'
    BY <1>1, <1>2, <1>3, <1>4, <1>5, <1>6, <2>3, <2>4, <2>5, <2>6, RememberingKeeps
  <2>8. QED BY <1>3, <2>7
<1>7. CASE ~ (k.next > k.start /\ k.status = "budget_exhausted")
  <2>1. End(x)
    BY <1>1, <1>7 DEF Exhaust
  <2>2. Slot(x, Off) /\ Off.pc = "off" /\ Dead(Off)
    BY <1>2, OffSlot DEF Dead, Holding
  <2>3. Moves(x, Off)
    BY <1>1, <1>2, <1>4, <2>1 DEF Moves, End, SchedInv, OtherTypes
  <2>4. SchedInv'
    BY <1>1, <1>2, <1>3, <1>4, <1>5, <2>2, <2>3, RememberingKeeps
  <2>5. QED BY <1>3, <2>4
<1>8. QED BY <1>6, <1>7

-----------------------------------------------------------------------------
(* The steps of an execution that are charged. *)

(* An empty slot after any step. *)
LEMMA OffSlotLater ==
  ASSUME LedgerInv', NEW y \in Tokens
  PROVE  Slot(y, Off)' /\ Dead(Off)'
<1>1. Off \in AnyLocal /\ Off.pc = "off" /\ Off.status = "analyzing" /\ Off.generation = 1
      /\ Off.ranges = <<>>
  BY Bounds DEF Off, AnyLocal, Points, CallPoints, Generations, NoUsage, Usage, NoPage
<1>2. LocalInv(Off)
  <2>1. Chain(Off.ranges, Off.next, Room(Off.usage))
    BY <1>1, NoChain
  <2>2. QED BY <1>1, <2>1 DEF LocalInv, Holding, Counted
<1>3. KnowsJob(Off)'
  BY <1>1, LedgerTypedLater, Bounds DEF KnowsJob, Counted, Holding, Generations
<1>4. QED BY <1>1, <1>2, <1>3 DEF Slot, Holding, LocalInv, Dead

(* After a call it goes on, or ends if it has been revoked meanwhile. *)
LEMMA ResumeMoves ==
  ASSUME SchedInv, NEW x \in Tokens, NEW l, l.generation = exec[x].generation,
         NEW n, n = (IF x \in current THEN l ELSE Off), Resume(x, l),
         UNCHANGED <<flight, alarm, user, late, discarded>>
  PROVE  Moves(x, n) /\ (x \in current' <=> x \in current)
<1>1. exec[x].generation \in Generations
  BY OwnSlot, LocalFields
<1>2. QED BY <1>1 DEF Resume, Moves, End, SchedInv, OtherTypes

(* A page is reserved: its batch is charged, and all other copies fall behind. *)
LEMMA ReserveKeeps ==
  ASSUME SchedInv, NEW x \in Tokens, Reserve(x)
  PROVE  [LedgerNext]_ledgerVars /\ SchedInv'
<1>1. PICK k, l : k = exec[x] /\ l = [k EXCEPT !.pc = "page", !.attempt = 0]
  OBVIOUS
<1>2. PICK n : n = IF x \in current THEN l ELSE Off
  OBVIOUS
<1>3. /\ k \in AnyLocal /\ LocalInv(k) /\ KnowsJob(k) /\ LedgerInv
      /\ k.pc = "reserve" /\ Resume(x, l)
      /\ ReservePage(x, k.generation, PreviousBatch(k.usage), k.next, k.page)
      /\ UNCHANGED <<memory, flight, alarm, user, late, sent, faults, discarded>>
  BY <1>1, OwnSlot DEF Reserve, SchedInv
<1>4. /\ k.usage \in Usage /\ k.usage.batches \in Nat /\ k.usage.batches <= MaxBatches
      /\ k.page \in 0..ItemCount /\ k.next \in Nat
  BY <1>3, LocalFields DEF LocalInv
<1>5. /\ Alike(k, l) /\ l.pc = "page" /\ l.status = k.status /\ l.attempt = 0
      /\ l.generation = k.generation
  <2>1. /\ l.pc = "page" /\ l.status = k.status /\ l.attempt = 0
        /\ l.generation = k.generation /\ l.next = k.next /\ l.ranges = k.ranges
        /\ l.usage = k.usage /\ l.page = k.page
    BY <1>1, <1>3 DEF AnyLocal
  <2>2. l \in AnyLocal
    <3>1. "page" \in Points /\ 0 \in 0..2
      BY DEF Points
    <3>2. QED BY <1>1, <1>3, <3>1 DEF AnyLocal
  <2>3. QED BY <2>1, <2>2 DEF Alike
<1>6. Moves(x, n) /\ (x \in current' <=> x \in current)
  BY <1>1, <1>2, <1>3, <1>5, ResumeMoves
<1>7. /\ job.generation = k.generation /\ job.status = "analyzing"
      /\ PreviousBatch(k.usage) = job.usage /\ k.next = job.next
      /\ k.next < k.page
      /\ job'.generation = job.generation /\ job'.status = job.status
      /\ job'.next = job.next /\ job'.ranges = job.ranges
      /\ job'.usage = [job.usage EXCEPT !.batches = job.usage.batches + 1]
      /\ job'.usage.batches = job.usage.batches + 1
      /\ job'.usage.attempts = job.usage.attempts
      /\ job'.usage.consumed = job.usage.consumed
      /\ Claimed(x)' = Page(k.next, k.page)
      /\ \A y \in Tokens \ {x} : Claimed(y)' = {}
  BY <1>3, <1>4, ReserveEffect
<1>8. /\ job.usage.batches = k.usage.batches - 1 /\ job'.usage = k.usage
      /\ job.usage.attempts = k.usage.attempts /\ job.usage.consumed = k.usage.consumed
  BY <1>4, <1>7 DEF PreviousBatch, Usage
<1>9. [LedgerNext]_ledgerVars
  <2>1. BatchAdmitted(job.usage)
    BY <1>4, <1>8, Bounds DEF BatchAdmitted
  <2>2. k.page \in 1..ItemCount
    BY <1>4, <1>7
  <2>3. ReservePage(x, job.generation, job.usage, job.next, k.page)
    BY <1>3, <1>7
  <2>4. QED BY <2>1, <2>2, <2>3 DEF LedgerNext, TokenStep, PageStep
<1>10. LedgerInv'
  BY <1>3, <1>9, StepInv
<1>11. Charges(x)
  <2>1. Grows
    BY <1>3, <1>7, JobFields DEF Grows
  <2>2. QED BY <1>7, <2>1 DEF Charges, KeepsPage
<1>12. Slot(x, n)'
  <2>1. CASE x \notin current
    BY <1>2, <1>10, <2>1, OffSlotLater
  <2>2. CASE x \in current
    <3>1. k.status = "analyzing"
      BY <1>3 DEF LocalInv, Counted, AnyLocal
    <3>2. LocalInv(l)
      BY <1>3, <1>5, <3>1 DEF LocalInv, Alike, Holding
    <3>3. Paid(l) = k.usage.batches
      BY <1>5 DEF Paid, Alike
    <3>4. Within(l)'
      BY <1>4, <1>5, <1>8, <3>3, <1>10, LedgerTypedLater DEF Within, Paid, Alike
    <3>5. KnowsJob(l)'
      BY <1>5, <1>7, <3>1, <3>4, <1>10, LedgerTypedLater DEF KnowsJob
    <3>6. InStep(l, Claimed(x))'
      BY <1>5, <1>7, <1>8 DEF InStep, Alike
    <3>7. Slot(x, l)'
      BY <1>5, <3>2, <3>5, <3>6 DEF Slot, LocalInv, Alike
    <3>8. QED BY <1>2, <2>2, <3>7
  <2>3. QED BY <2>1, <2>2
<1>13. JobFits'
  BY <1>7 DEF SchedInv, JobFits, Room
<1>14. MemoryInv' /\ RequestsAreCharged' /\ sent' \in Nat /\ faults' \in 0..MaxFaults
  BY <1>3, <1>7 DEF SchedInv, MemoryInv, RequestsAreCharged, OtherTypes
<1>15. ~ Dead(k)
  <2>1. Paid(k) = job.usage.batches
    BY <1>3, <1>8 DEF Paid
  <2>2. ~ Stale(k)
    BY <1>3, <1>8, <2>1, JobFields DEF Stale
  <2>3. QED BY <1>3, <1>7, <2>2 DEF Dead, Ours
<1>16. ~ Dooms(x, n)
  <2>1. n.pc # "advance"
    BY <1>2, <1>5 DEF Off
  <2>2. QED BY <1>3, <1>7, <2>1 DEF Dooms, Leaving, Remembered
<1>17. n.pc # "answer"
  BY <1>2, <1>5 DEF Off
<1>18. x \in current' \/ n = Off
  BY <1>2, <1>6
<1>19. SchedInv'
  BY <1>1, <1>6, <1>9, <1>11, <1>12, <1>13, <1>14, <1>15, <1>16, <1>17, <1>18, WorkerKeeps
<1>20. QED BY <1>9, <1>19

(* Who still holds its page knows the job. *)
LEMMA Holder ==
  ASSUME SchedInv, NEW x \in Tokens, NEW k, k = exec[x], k.pc \in Holding,
         NEW e \in Nat, HoldsPage(x, k.generation, e)
  PROVE  /\ Ours(k) /\ k.next = job.next /\ k.usage = job.usage
         /\ Claimed(x) = Page(k.next, k.page) /\ Claimed(x) # {}
         /\ job.status = "analyzing" /\ ~ Dead(k)
<1>1. /\ k.generation = job.generation /\ job.status = "analyzing" /\ Claimed(x) # {}
  BY HeldPage DEF SchedInv
<1>2. Ours(k)
  BY <1>1 DEF Ours
<1>3. InStep(k, Claimed(x))
  BY <1>1, <1>2 DEF SchedInv, SlotsInv, Slot
<1>4. QED BY <1>1, <1>2, <1>3 DEF InStep, Dead

(* The request of an execution that waits for an answer. *)
Asking(k) == [k EXCEPT !.pc = "answer",
                       !.usage = [k.usage EXCEPT !.attempts = k.usage.attempts + 1],
                       !.attempt = k.attempt + 1,
                       !.timer = IF k.timer = "unset" THEN "armed" ELSE k.timer]

(* The parts of that record. *)
LEMMA AskingFields ==
  ASSUME NEW k \in AnyLocal, LocalInv(k), k.pc = "attempt", NEW l, l = Asking(k)
  PROVE  /\ l \in AnyLocal /\ l.pc = "answer" /\ l.generation = k.generation
         /\ l.next = k.next /\ l.ranges = k.ranges /\ l.page = k.page /\ l.status = k.status
         /\ l.usage = [k.usage EXCEPT !.attempts = k.usage.attempts + 1]
         /\ l.usage.batches = k.usage.batches /\ l.usage.attempts = k.usage.attempts + 1
         /\ l.usage.consumed = k.usage.consumed
<1>1. /\ k.usage \in Usage /\ k.usage.attempts \in Nat /\ k.attempt \in 0..2 /\ k.attempt <= 1
  BY LocalFields DEF LocalInv, AnyLocal
<1>2. PICK u : u = [k.usage EXCEPT !.attempts = k.usage.attempts + 1]
  OBVIOUS
<1>3. /\ u \in Usage /\ u.batches = k.usage.batches /\ u.attempts = k.usage.attempts + 1
      /\ u.consumed = k.usage.consumed
  BY <1>1, <1>2 DEF Usage
<1>4. PICK a : a = k.attempt + 1
  OBVIOUS
<1>5. a \in 0..2
  BY <1>1, <1>4
<1>6. PICK t : t = IF k.timer = "unset" THEN "armed" ELSE k.timer
  OBVIOUS
<1>7. t \in {"unset", "armed", "fired"}
  BY <1>6 DEF AnyLocal
<1>8. l = [k EXCEPT !.pc = "answer", !.usage = u, !.attempt = a, !.timer = t]
  BY <1>2, <1>4, <1>6 DEF Asking
<1>9. "answer" \in Points
  BY DEF Points
<1>10. l \in AnyLocal
  BY <1>3, <1>5, <1>7, <1>8, <1>9 DEF AnyLocal
<1>11. /\ l.pc = "answer" /\ l.generation = k.generation /\ l.usage = u
       /\ l.next = k.next /\ l.ranges = k.ranges /\ l.page = k.page /\ l.status = k.status
  BY <1>8 DEF AnyLocal
<1>12. QED BY <1>2, <1>3, <1>10, <1>11

(* A request is charged, by who holds its page and knows the usage. *)
LEMMA AttemptKeeps ==
  ASSUME SchedInv, NEW x \in Tokens, Attempt(x)
  PROVE  [LedgerNext]_ledgerVars /\ SchedInv'
<1>1. PICK k, l : k = exec[x] /\ l = Asking(k)
  OBVIOUS
<1>2. PICK n : n = IF x \in current THEN l ELSE Off
  OBVIOUS
<1>3. /\ k \in AnyLocal /\ LocalInv(k) /\ KnowsJob(k) /\ LedgerInv
      /\ k.pc = "attempt" /\ ReserveAttempt(x, k.generation, k.usage)
      /\ UNCHANGED <<memory, flight, alarm, user, late, faults, discarded>>
  BY <1>1, OwnSlot DEF Attempt, SchedInv
<1>4. Resume(x, l)
  BY <1>1 DEF Attempt, Asking
<1>5. /\ l \in AnyLocal /\ l.pc = "answer" /\ l.generation = k.generation
      /\ l.next = k.next /\ l.ranges = k.ranges /\ l.page = k.page /\ l.status = k.status
      /\ l.usage = [k.usage EXCEPT !.attempts = k.usage.attempts + 1]
      /\ l.usage.batches = k.usage.batches /\ l.usage.attempts = k.usage.attempts + 1
      /\ l.usage.consumed = k.usage.consumed
  BY <1>1, <1>3, AskingFields
<1>6. Moves(x, n) /\ (x \in current' <=> x \in current)
  BY <1>1, <1>2, <1>3, <1>4, <1>5, ResumeMoves
<1>7. /\ job.generation = k.generation /\ k.usage = job.usage
      /\ Claimed(x) # {} /\ \E e \in 1..ItemCount : HoldsPage(x, k.generation, e)
      /\ job'.generation = job.generation /\ job'.status = job.status
      /\ job'.next = job.next /\ job'.ranges = job.ranges
      /\ job'.usage = [job.usage EXCEPT !.attempts = job.usage.attempts + 1]
      /\ job'.usage.batches = job.usage.batches
      /\ job'.usage.attempts = job.usage.attempts + 1
      /\ job'.usage.consumed = job.usage.consumed
      /\ \A y \in Tokens : Claimed(y)' = Claimed(y)
  BY <1>3, AttemptEffect
<1>8. /\ k.next = job.next /\ Claimed(x) = Page(k.next, k.page) /\ ~ Dead(k)
      /\ job.status = "analyzing"
  <2>1. PICK e \in 1..ItemCount : HoldsPage(x, k.generation, e)
    BY <1>7
  <2>2. e \in Nat
    BY Bounds
  <2>3. QED BY <1>1, <1>3, <2>1, <2>2, Holder DEF Holding
<1>9. k.usage.attempts \in Nat /\ k.usage.attempts < MaxAttempts /\ l.usage = job'.usage
  BY <1>3, <1>5, <1>7, LocalFields DEF LocalInv
<1>10. [LedgerNext]_ledgerVars
  <2>1. ReserveAttempt(x, job.generation, job.usage)
    BY <1>3, <1>7
  <2>2. AttemptAdmitted(job.usage)
    BY <1>7, <1>9 DEF AttemptAdmitted
  <2>3. QED BY <2>1, <2>2 DEF LedgerNext, TokenStep
<1>11. LedgerInv'
  BY <1>3, <1>10, StepInv
<1>12. Charges(x)
  <2>1. Grows
    BY <1>3, <1>7, JobFields DEF Grows
  <2>2. ASSUME NEW y \in Tokens \ {x} PROVE KeepsPage(y)
    <3>1. Claimed(y) = {}
      BY <1>3, <1>7, HolderIsAlone
    <3>2. QED BY <1>7, <3>1 DEF KeepsPage
  <2>3. QED BY <1>7, <2>1, <2>2 DEF Charges
<1>13. Slot(x, n)'
  <2>1. CASE x \notin current
    BY <1>2, <1>11, <2>1, OffSlotLater
  <2>2. CASE x \in current
    <3>1. k.status = "analyzing"
      BY <1>3 DEF LocalInv, Counted, Holding, AnyLocal
    <3>2. Room(l.usage) = Room(k.usage)
      BY <1>5 DEF Room
    <3>3. LocalInv(l)
      BY <1>3, <1>5, <3>1, <3>2 DEF LocalInv, Holding
    <3>4. Within(l)'
      <4>1. Paid(l) = l.usage.batches
        BY <1>5 DEF Paid
      <4>2. /\ Paid(l) <= job'.usage.batches /\ l.usage.attempts <= job'.usage.attempts
            /\ l.usage.consumed <= job'.usage.consumed
        BY <1>9, <1>11, <4>1, LedgerTypedLater
      <4>3. QED BY <4>2 DEF Within, Paid
    <3>5. KnowsJob(l)'
      BY <1>5, <1>7, <3>1, <3>4, <1>11, LedgerTypedLater DEF KnowsJob
    <3>6. InStep(l, Claimed(x))'
      BY <1>5, <1>7, <1>8, <1>9 DEF InStep
    <3>7. Slot(x, l)'
      BY <1>5, <3>3, <3>5, <3>6 DEF Slot, LocalInv
    <3>8. QED BY <1>2, <2>2, <3>7
  <2>3. QED BY <2>1, <2>2
<1>14. JobFits'
  BY <1>7 DEF SchedInv, JobFits, Room
<1>15. MemoryInv' /\ faults' \in 0..MaxFaults
  BY <1>3, <1>7 DEF SchedInv, MemoryInv, OtherTypes
<1>16. RequestsAreCharged' /\ sent' \in Nat
  <2>1. sent' = sent + 1 \/ sent' = sent
    BY DEF Attempt
  <2>2. sent \in Nat /\ sent <= job.usage.attempts
    BY DEF SchedInv, OtherTypes, RequestsAreCharged
  <2>3. QED BY <1>7, <1>9, <2>1, <2>2, Bounds DEF RequestsAreCharged
<1>17. ~ Dooms(x, n)
  <2>1. n.pc # "advance"
    BY <1>2, <1>5 DEF Off
  <2>2. QED BY <1>3, <1>7, <2>1 DEF Dooms, Leaving, Remembered
<1>18. x \in current' => Ours(n)
  BY <1>2, <1>5, <1>6, <1>7 DEF Ours
<1>19. SchedInv'
  BY <1>1, <1>6, <1>7, <1>8, <1>10, <1>12, <1>13, <1>14, <1>15, <1>16, <1>17, <1>18, WorkerKeeps
<1>20. QED BY <1>10, <1>19

(* After a page was split. *)
Splitting(k) == [k EXCEPT !.pc = "plan", !.page = NoPage,
                          !.ranges = SplitHead(k.ranges, k.next, k.page)]

(* The parts of that record. *)
LEMMA SplittingFields ==
  ASSUME NEW k \in AnyLocal, LocalInv(k), k.pc = "split", NEW l, l = Splitting(k)
  PROVE  /\ l \in AnyLocal /\ LocalInv(l) /\ l.pc = "plan" /\ l.generation = k.generation
         /\ l.next = k.next /\ l.usage = k.usage /\ l.status = k.status
         /\ k.status = "analyzing"
<1>1. PICK rs : rs = SplitHead(k.ranges, k.next, k.page)
  OBVIOUS
<1>2. /\ k.next \in Nat /\ k.page \in Nat /\ Room(k.usage) \in Int /\ k.page <= ItemCount
      /\ k.ranges \in Seq(AnyRange)
  BY LocalFields, Bounds
<1>3. rs \in Seq(AnyRange) /\ Chain(rs, k.next, Room(k.usage))
  BY <1>1, <1>2, SplitOfChain DEF LocalInv, Holding
<1>4. "plan" \in Points /\ NoPage \in 0..ItemCount
  BY Bounds DEF Points, NoPage
<1>5. l = [k EXCEPT !.pc = "plan", !.page = NoPage, !.ranges = rs]
  BY <1>1 DEF Splitting
<1>6. l \in AnyLocal
  BY <1>3, <1>4, <1>5 DEF AnyLocal
<1>7. /\ l.pc = "plan" /\ l.generation = k.generation
      /\ l.next = k.next /\ l.usage = k.usage /\ l.status = k.status /\ l.ranges = rs
  BY <1>5 DEF AnyLocal
<1>8. k.status = "analyzing"
  BY DEF LocalInv, Counted, Holding, AnyLocal
<1>9. LocalInv(l)
  BY <1>3, <1>7, <1>8 DEF LocalInv, Holding
<1>10. QED BY <1>6, <1>7, <1>8, <1>9

(* A page is split by who holds it. *)
LEMMA SplitKeeps ==
  ASSUME SchedInv, NEW x \in Tokens, Split(x)
  PROVE  [LedgerNext]_ledgerVars /\ SchedInv'
<1>1. PICK k, l : k = exec[x] /\ l = Splitting(k)
  OBVIOUS
<1>2. PICK n : n = IF x \in current THEN l ELSE Off
  OBVIOUS
<1>3. /\ k \in AnyLocal /\ LocalInv(k) /\ KnowsJob(k) /\ LedgerInv
      /\ k.pc = "split" /\ SplitPage(x, k.generation, k.page)
      /\ UNCHANGED <<memory, flight, alarm, user, late, sent, faults, discarded>>
  BY <1>1, OwnSlot DEF Split, SchedInv
<1>4. Resume(x, l)
  BY <1>1 DEF Split, Splitting
<1>5. /\ l \in AnyLocal /\ LocalInv(l) /\ l.pc = "plan" /\ l.generation = k.generation
      /\ l.next = k.next /\ l.usage = k.usage /\ l.status = k.status
      /\ k.status = "analyzing"
  BY <1>1, <1>3, SplittingFields
<1>6. Moves(x, n) /\ (x \in current' <=> x \in current)
  BY <1>1, <1>2, <1>3, <1>4, <1>5, ResumeMoves
<1>7. k.page \in Nat /\ k.page \in 0..ItemCount /\ k.next \in Nat
  BY <1>3, LocalFields
<1>8. /\ HoldsPage(x, k.generation, k.page)
      /\ k.page - job.next > 1 /\ IsHead(job.ranges, job.next, k.page)
      /\ job'.generation = job.generation /\ job'.status = job.status
      /\ job'.next = job.next /\ job'.usage = job.usage
      /\ job'.ranges = SplitHead(job.ranges, job.next, k.page)
      /\ \A y \in Tokens : Claimed(y)' = {}
  BY <1>3, <1>7, SplitEffect
<1>9. /\ Ours(k) /\ k.next = job.next /\ k.usage = job.usage /\ ~ Dead(k)
  BY <1>1, <1>3, <1>7, <1>8, Holder DEF Holding
<1>10. [LedgerNext]_ledgerVars
  <2>1. SplitPage(x, job.generation, k.page)
    BY <1>3, <1>9 DEF Ours
  <2>2. k.page \in 1..ItemCount
    BY <1>3, <1>7 DEF LocalInv, Holding
  <2>3. QED BY <2>1, <2>2 DEF LedgerNext, TokenStep, PageStep
<1>11. LedgerInv'
  BY <1>3, <1>10, StepInv
<1>12. Charges(x)
  <2>1. Grows
    BY <1>3, <1>8, JobFields DEF Grows
  <2>2. QED BY <1>8, <2>1 DEF Charges, KeepsPage
<1>13. Slot(x, n)'
  <2>1. CASE x \notin current
    BY <1>2, <1>11, <2>1, OffSlotLater
  <2>2. CASE x \in current
    <3>1. Within(l)
      <4>1. Paid(l) = job.usage.batches
        BY <1>5, <1>9 DEF Paid
      <4>2. QED BY <1>3, <1>5, <1>9, <4>1, JobFields DEF Within
    <3>2. KnowsJob(l)
      BY <1>5, <1>9, <3>1, <1>3, JobFields, Bounds DEF KnowsJob, Ours, Generations
    <3>3. Slot(x, l) /\ KeepsPage(x)
      <4>1. KeepsPage(x)
        BY <1>8 DEF KeepsPage
      <4>2. QED BY <1>5, <3>2, <4>1 DEF Slot, Holding
    <3>4. late => late'
      BY <1>3
    <3>5. Slot(x, l)'
      BY <1>3, <1>11, <1>12, <3>3, <3>4, SlotKept DEF Charges
    <3>6. QED BY <1>2, <2>2, <3>5
  <2>3. QED BY <2>1, <2>2
<1>14. JobFits'
  <2>1. /\ job.ranges \in Seq(AnyRange) /\ job.next \in Nat /\ Room(job.usage) \in Int
        /\ Chain(job.ranges, job.next, Room(job.usage))
    BY <1>3, JobFields DEF SchedInv, JobFits
  <2>2. k.page <= job.next + Room(job.usage)
    BY <1>3, <1>9 DEF LocalInv, Holding
  <2>3. k.page <= ItemCount
    BY <1>7, Bounds
  <2>4. Chain(SplitHead(job.ranges, job.next, k.page), job.next, Room(job.usage))
    BY <1>7, <1>8, <2>1, <2>2, <2>3, SplitOfChain
  <2>5. QED BY <1>8, <2>4 DEF JobFits, Room
<1>15. MemoryInv' /\ RequestsAreCharged' /\ sent' \in Nat /\ faults' \in 0..MaxFaults
  BY <1>3, <1>8 DEF SchedInv, MemoryInv, RequestsAreCharged, OtherTypes
<1>16. ~ Dooms(x, n)
  <2>1. n.pc # "advance"
    BY <1>2, <1>5 DEF Off
  <2>2. QED BY <1>3, <1>8, <2>1 DEF Dooms, Leaving, Remembered
<1>17. n.pc # "answer"
  BY <1>2, <1>5 DEF Off
<1>18. SchedInv'
  BY <1>1, <1>6, <1>8, <1>9, <1>10, <1>12, <1>13, <1>14, <1>15, <1>16, <1>17, WorkerKeeps
<1>19. QED BY <1>10, <1>18

(* After a page was stored. *)
Storing(k) ==
  [k EXCEPT !.pc = "plan", !.next = k.page, !.page = NoPage, !.ranges = AfterPage(k),
            !.usage = Consumed(k.usage, k.page - k.next), !.failed = {},
            !.status = IF k.failed # {} THEN "analysis_blocked" ELSE k.status]

(* The parts of that record. *)
LEMMA StoringFields ==
  ASSUME NEW k \in AnyLocal, LocalInv(k), k.pc = "checkpoint", NEW l, l = Storing(k),
         NEW used, used = Consumed(k.usage, k.page - k.next)
  PROVE  /\ l \in AnyLocal /\ LocalInv(l) /\ l.pc = "plan" /\ l.generation = k.generation
         /\ l.next = k.page /\ l.usage = used /\ l.ranges = AfterPage(k)
         /\ l.status = IF k.failed # {} THEN "analysis_blocked" ELSE "analyzing"
         /\ used \in Usage /\ used.batches = k.usage.batches /\ used.attempts = k.usage.attempts
         /\ used.consumed = k.usage.consumed + (k.page - k.next)
         /\ used.consumed > k.usage.consumed /\ used.consumed <= MaxPositions
         /\ used.batches >= 1
<1>1. /\ k.next \in Nat /\ k.page \in Nat /\ Room(k.usage) \in Int /\ k.page \in 0..ItemCount
      /\ k.ranges \in Seq(AnyRange) /\ k.usage \in Usage
      /\ k.usage.batches \in Nat /\ k.usage.consumed \in Nat
  BY LocalFields, Bounds
<1>2. /\ k.next < k.page /\ k.page <= k.next + Room(k.usage) /\ k.usage.batches >= 1
      /\ IsHead(k.ranges, k.next, k.page) /\ Chain(k.ranges, k.next, Room(k.usage))
  BY DEF LocalInv, Holding
<1>3. /\ used \in Usage /\ used.batches = k.usage.batches /\ used.attempts = k.usage.attempts
      /\ used.consumed = k.usage.consumed + (k.page - k.next)
  <2>1. k.usage.consumed + (k.page - k.next) \in Nat
    BY <1>1, <1>2
  <2>2. used = [k.usage EXCEPT !.consumed = k.usage.consumed + (k.page - k.next)]
    BY DEF Consumed
  <2>3. QED BY <1>1, <2>1, <2>2 DEF Usage
<1>4. used.consumed > k.usage.consumed /\ used.consumed <= MaxPositions
  <2>1. k.page <= k.next + (MaxPositions - k.usage.consumed)
    BY <1>2 DEF Room
  <2>2. QED BY <1>1, <1>2, <1>3, <2>1, Bounds
<1>5. Room(used) = Room(k.usage) - (k.page - k.next)
  <2>1. /\ Room(used) = MaxPositions - (k.usage.consumed + (k.page - k.next))
        /\ Room(k.usage) = MaxPositions - k.usage.consumed
    BY <1>3 DEF Room
  <2>2. PICK c, a, m : c = k.usage.consumed /\ a = k.page - k.next /\ m = MaxPositions
    OBVIOUS
  <2>3. c \in Int /\ a \in Int /\ m \in Int
    BY <1>1, <2>2, Bounds
  <2>4. m - (c + a) = (m - c) - a
    BY <2>3
  <2>5. QED BY <2>1, <2>2, <2>4
<1>6. AfterPage(k) \in Seq(AnyRange) /\ Chain(AfterPage(k), k.page, Room(used))
  <2>1. Rest(k.ranges) \in Seq(AnyRange) /\ Chain(Rest(k.ranges), k.page, Room(used))
    <3>1. k.ranges # <<>> => k.ranges[1].end = k.page
      BY <1>2 DEF IsHead
    <3>2. QED BY <1>1, <1>2, <1>5, <3>1, RestOfChain
  <2>2. QED BY <2>1, NoChain DEF AfterPage
<1>7. PICK rs, s : /\ rs = AfterPage(k)
                   /\ s = IF k.failed # {} THEN "analysis_blocked" ELSE k.status
  OBVIOUS
<1>8. k.status = "analyzing" /\ s \in {"analyzing", "analysis_blocked"}
  BY <1>7 DEF LocalInv, Counted, Holding, AnyLocal
<1>9. l = [k EXCEPT !.pc = "plan", !.next = k.page, !.page = NoPage, !.ranges = rs,
                    !.usage = used, !.failed = {}, !.status = s]
  BY <1>7 DEF Storing
<1>10. "plan" \in Points /\ NoPage \in 0..ItemCount /\ {} \in SUBSET Rows
  BY Bounds DEF Points, NoPage
<1>11. l \in AnyLocal
  <2>1. PICK p : p = k.page
    OBVIOUS
  <2>2. /\ p \in 0..ItemCount /\ rs \in Seq(AnyRange)
        /\ s \in {"analyzing", "analysis_blocked"} /\ used \in Usage
    BY <1>1, <1>3, <1>6, <1>7, <1>8, <2>1
  <2>3. PICK k1 : k1 = [k EXCEPT !.pc = "plan", !.next = p, !.page = NoPage]
    OBVIOUS
  <2>4. PICK k2 : k2 = [k1 EXCEPT !.ranges = rs, !.usage = used]
    OBVIOUS
  <2>5. l = [k2 EXCEPT !.failed = {}, !.status = s]
    BY <1>9, <2>1, <2>3, <2>4
  <2>6. k1 \in AnyLocal
    BY <1>10, <2>2, <2>3 DEF AnyLocal
  <2>7. k2 \in AnyLocal
    BY <2>2, <2>4, <2>6 DEF AnyLocal
  <2>8. QED BY <1>10, <2>2, <2>5, <2>7 DEF AnyLocal
<1>12. /\ l.pc = "plan" /\ l.generation = k.generation
       /\ l.next = k.page /\ l.usage = used /\ l.ranges = rs /\ l.status = s
  <2>1. l.pc = "plan" /\ l.generation = k.generation
    BY <1>9 DEF AnyLocal
  <2>2. l.next = k.page /\ l.usage = used
    BY <1>9 DEF AnyLocal
  <2>3. l.ranges = rs /\ l.status = s
    BY <1>9 DEF AnyLocal
  <2>4. QED BY <2>1, <2>2, <2>3
<1>13. LocalInv(l)
  <2>1. l.usage.batches >= 1
    BY <1>2, <1>3, <1>12
  <2>2. QED BY <1>6, <1>7, <1>8, <1>12, <2>1 DEF LocalInv, Holding
<1>14. QED BY <1>2, <1>3, <1>4, <1>7, <1>8, <1>11, <1>12, <1>13

(* The outcomes of a page are stored, with the positions it consumed. *)
LEMMA CheckpointKeeps ==
  ASSUME SchedInv, NEW x \in Tokens, Checkpoint(x)
  PROVE  [LedgerNext]_ledgerVars /\ SchedInv'
<1>1. PICK k, l, used : /\ k = exec[x] /\ l = Storing(k)
                        /\ used = Consumed(k.usage, k.page - k.next)
  OBVIOUS
<1>2. PICK n : n = IF x \in current THEN l ELSE Off
  OBVIOUS
<1>3. /\ k \in AnyLocal /\ LocalInv(k) /\ KnowsJob(k) /\ LedgerInv /\ k.pc = "checkpoint"
      /\ CheckpointPage(x, k.generation, k.page, k.failed, AfterPage(k), used)
      /\ UNCHANGED <<memory, flight, alarm, user, late, sent, faults, discarded>>
  BY <1>1, OwnSlot DEF Checkpoint, SchedInv
<1>4. Resume(x, l)
  BY <1>1 DEF Checkpoint, Storing
<1>5. /\ l \in AnyLocal /\ LocalInv(l) /\ l.pc = "plan" /\ l.generation = k.generation
      /\ l.next = k.page /\ l.usage = used /\ l.ranges = AfterPage(k)
      /\ l.status = IF k.failed # {} THEN "analysis_blocked" ELSE "analyzing"
      /\ used \in Usage /\ used.batches = k.usage.batches /\ used.attempts = k.usage.attempts
      /\ used.consumed = k.usage.consumed + (k.page - k.next)
      /\ used.consumed > k.usage.consumed /\ used.consumed <= MaxPositions
      /\ used.batches >= 1
  BY <1>1, <1>3, StoringFields
<1>6. Moves(x, n) /\ (x \in current' <=> x \in current)
  BY <1>1, <1>2, <1>3, <1>4, <1>5, ResumeMoves
<1>7. k.page \in Nat /\ k.page \in 0..ItemCount /\ k.next \in Nat /\ k.next < k.page
  BY <1>3, LocalFields DEF LocalInv, Holding
<1>8. /\ HoldsPage(x, k.generation, k.page) /\ k.failed \subseteq Claimed(x)
      /\ AfterPage(k) = WorklistAfter(k.failed)
      /\ job'.generation = job.generation /\ job'.usage = used
      /\ job'.next = k.page /\ job'.ranges = AfterPage(k)
      /\ job'.status \in {"analyzing", "analysis_blocked", "review"}
      /\ k.failed = {} => job'.status # "analysis_blocked"
      /\ \A y \in Tokens : Claimed(y)' = {}
  <2>1. PICK f, rs, g, p : f = k.failed /\ rs = AfterPage(k) /\ g = k.generation /\ p = k.page
    OBVIOUS
  <2>2. CheckpointPage(x, g, p, f, rs, used) /\ p \in Nat /\ LedgerInv
    BY <1>3, <1>7, <2>1
  <2>3. /\ HoldsPage(x, g, p) /\ f \subseteq Claimed(x)
        /\ rs = WorklistAfter(f)
        /\ job'.generation = job.generation /\ job'.usage = used
        /\ job'.next = p /\ job'.ranges = rs
        /\ job'.status \in {"analyzing", "analysis_blocked", "review"}
        /\ f = {} => job'.status # "analysis_blocked"
        /\ \A y \in Tokens : Claimed(y)' = {}
    BY <2>2, CheckpointEffect
  <2>4. QED BY <2>1, <2>3
<1>9. /\ Ours(k) /\ k.next = job.next /\ k.usage = job.usage /\ ~ Dead(k)
      /\ Claimed(x) # {} /\ job.status = "analyzing"
  BY <1>1, <1>3, <1>7, <1>8, Holder DEF Holding
<1>10. [LedgerNext]_ledgerVars
  <2>1. CheckpointPage(x, job.generation, k.page, k.failed, WorklistAfter(k.failed),
                       Consumed(job.usage, k.page - job.next))
    BY <1>1, <1>3, <1>8, <1>9 DEF Ours
  <2>2. k.page \in 1..ItemCount /\ k.failed \in SUBSET Claimed(x)
    BY <1>7, <1>8
  <2>3. ConsumptionAllowed(job.usage, k.page - job.next)
    BY <1>5, <1>9 DEF ConsumptionAllowed
  <2>4. QED BY <2>1, <2>2, <2>3 DEF LedgerNext, TokenStep, PageStep
<1>11. LedgerInv'
  BY <1>3, <1>10, StepInv
<1>12. Charges(x)
  <2>1. /\ job'.usage.batches = job.usage.batches /\ job'.usage.attempts = job.usage.attempts
        /\ job'.usage.consumed > job.usage.consumed
    BY <1>5, <1>8, <1>9
  <2>2. Grows
    BY <1>3, <1>8, <1>11, <2>1, JobFields, LedgerTypedLater DEF Grows
  <2>3. QED BY <1>8, <1>9, <2>1, <2>2 DEF Charges, KeepsPage
<1>13. Slot(x, l)'
  <2>1. Within(l)'
    <3>1. Paid(l) = used.batches
      BY <1>5 DEF Paid
    <3>2. /\ Paid(l) <= job'.usage.batches /\ l.usage.attempts <= job'.usage.attempts
          /\ l.usage.consumed <= job'.usage.consumed
      BY <1>5, <1>8, <1>11, <3>1, LedgerTypedLater
    <3>3. QED BY <3>2 DEF Within, Paid
  <2>2. l.status # "budget_exhausted"
    BY <1>5
  <2>3. l.generation = job'.generation
    BY <1>5, <1>8, <1>9 DEF Ours
  <2>4. KnowsJob(l)'
    BY <1>5, <1>11, <2>1, <2>2, <2>3, LedgerTypedLater DEF KnowsJob
  <2>5. QED BY <1>5, <2>4 DEF Slot, LocalInv, Holding
<1>14. Slot(x, n)'
  BY <1>2, <1>11, <1>13, OffSlotLater
<1>15. JobFits'
  <2>1. Chain(AfterPage(k), k.page, Room(used))
    BY <1>5 DEF LocalInv
  <2>2. QED BY <1>8, <2>1 DEF JobFits, Room
<1>16. MemoryInv' /\ RequestsAreCharged' /\ sent' \in Nat /\ faults' \in 0..MaxFaults
  BY <1>3, <1>5, <1>8, <1>9 DEF SchedInv, MemoryInv, RequestsAreCharged, OtherTypes
<1>17. x \in current \/ Orphan(x)
  BY <1>1, <1>3, <1>9 DEF Orphan
<1>18. Dooms(x, n) => job'.status = "analysis_blocked"
  <2>1. n.pc # "advance"
    BY <1>2, <1>5 DEF Off
  <2>2. QED BY <1>3, <1>8, <2>1 DEF Dooms, Leaving, Remembered
<1>19. job'.status = "analysis_blocked" => Begun(job.usage)' /\ (x \in current' => Dead(n)')
  <2>1. Begun(job.usage)'
    BY <1>5, <1>8 DEF Begun
  <2>2. job'.status = "analysis_blocked" => l.status = "analysis_blocked"
    BY <1>5, <1>8
  <2>3. job'.status = "analysis_blocked" => Dead(l)'
    BY <1>5, <2>2 DEF Dead, Holding
  <2>4. QED BY <1>2, <1>6, <2>1, <2>3
<1>20. n.pc # "answer"
  BY <1>2, <1>5 DEF Off
<1>21. SchedInv'
  BY <1>1, <1>6, <1>9, <1>10, <1>12, <1>14, <1>15, <1>16, <1>17, <1>18, <1>19, <1>20, WorkerKeeps
<1>22. QED BY <1>10, <1>21

-----------------------------------------------------------------------------
(* A new generation. *)

(* An execution of an older generation has nothing to do with the job. *)
LEMMA PastSlot ==
  ASSUME LedgerInv', NEW y \in Tokens, NEW l, l \in AnyLocal, LocalInv(l),
         l.generation < job'.generation
  PROVE  Slot(y, l)' /\ ~ Ours(l)'
<1>1. l.generation \in Nat /\ job'.generation \in Nat
  BY LocalFields, LedgerTypedLater
<1>2. l.generation # job'.generation /\ l.generation <= job'.generation
  BY <1>1
<1>3. ~ Ours(l)'
  BY <1>2 DEF Ours
<1>4. KnowsJob(l)'
  BY <1>2, <1>3 DEF KnowsJob
<1>5. QED BY <1>3, <1>4 DEF Slot, LocalInv

(* A generation is only left when none of its executions can pay, so nobody *)
(* waits for an answer.                                                     *)
LEMMA DoomedDoNotWait ==
  ASSUME SchedInv, Doomed, NEW y \in current
  PROVE  exec[y].pc # "answer"
<1>1. Dead(exec[y]) /\ (exec[y].pc = "answer" => Ours(exec[y]))
  BY DEF SchedInv, DoomInv, AnswersAreOurs
<1>2. QED BY <1>1 DEF Dead, Holding

(* Nobody is of the generation that begins. *)
LEMMA NewGenerationKeeps ==
  ASSUME SchedInv, [LedgerNext]_ledgerVars, Doomed,
         NEW g, NEW s \in 0..ItemCount, NEW rs, AdvanceRun(g, s, rs), NewGeneration,
         exec' \in [Tokens -> AnyLocal],
         \A y \in Tokens : LocalInv(exec'[y]) /\ exec'[y].generation <= job.generation,
         current' \subseteq current,
         \A y \in current' : /\ exec'[y].generation = exec[y].generation
                             /\ exec'[y].pc = "answer" => exec[y].pc = "answer",
         settled' \subseteq Generations, UserInv', user'.generation <= job.generation,
         UNCHANGED <<memory, flight, alarm, faults, discarded>>
  PROVE  SchedInv'
<1>1. /\ job'.generation = job.generation + 1 /\ s <= job.next /\ job'.status = "analyzing"
      /\ rs = IF s = job.next THEN job.ranges ELSE <<>>
      /\ job'.next = s /\ job'.ranges = rs /\ job'.usage = NoUsage
  BY AdvanceEffect DEF SchedInv
<1>2. /\ LedgerInv /\ LedgerInv' /\ job.generation \in Nat /\ job'.generation \in Nat
      /\ job'.generation \in Generations
  BY StepInv, JobFields, LedgerTypedLater, Bounds DEF SchedInv, Generations
<1>3. ASSUME NEW y \in Tokens PROVE Slot(y, exec[y])' /\ exec'[y].generation # job'.generation
  <2>1. PICK l : l = exec'[y]
    OBVIOUS
  <2>2. l \in AnyLocal /\ LocalInv(l) /\ l.generation <= job.generation
    BY <2>1
  <2>3. l.generation \in Nat
    BY <2>2, LocalFields
  <2>4. l.generation < job'.generation /\ l.generation # job'.generation
    BY <1>1, <1>2, <2>2, <2>3
  <2>5. Slot(y, l)'
    BY <1>2, <2>2, <2>4, PastSlot
  <2>6. QED BY <2>1, <2>4, <2>5, SlotNamed
<1>4. SlotsInv'
  BY <1>3 DEF SlotsInv
<1>5. JobFits'
  <2>1. Room(NoUsage) = MaxPositions /\ Room(job.usage) <= Room(NoUsage) /\ Room(NoUsage) \in Int
    BY <1>2, JobFields, Bounds DEF Room, NoUsage
  <2>2. Chain(job.ranges, job.next, Room(NoUsage))
    BY <1>2, <2>1, JobFields, MoreRoom DEF SchedInv, JobFits
  <2>3. Chain(rs, s, Room(NoUsage))
    BY <1>1, <2>2, NoChain
  <2>4. QED BY <1>1, <2>3 DEF JobFits, Room
<1>6. flight.seed \in AnyLocal /\ flight.seed.generation \in Nat
      /\ flight.seed.generation <= job.generation
  <2>1. flight.seed \in AnyLocal
    BY DEF SchedInv, FlightInv, Flight
  <2>2. QED BY <2>1, LocalFields DEF SchedInv, FlightInv
<1>7. flight'.seed.generation # job'.generation /\ flight'.seed.generation <= job'.generation
  BY <1>1, <1>2, <1>6
<1>8. FlightInv'
  BY <1>7 DEF SchedInv, FlightInv, Ours, LocalInv
<1>9. MemoryInv' /\ memory'[job'.generation] = "none"
  <2>1. \A h \in Generations : h > job'.generation => h > job.generation
    BY <1>1, <1>2, Bounds DEF Generations
  <2>2. job'.generation > job.generation
    BY <1>1, <1>2
  <2>3. QED BY <1>2, <2>1, <2>2 DEF SchedInv, MemoryInv
<1>10. OtherTypes'
  BY DEF SchedInv, OtherTypes, NewGeneration
<1>11. OneCurrent'
  BY DEF SchedInv, OneCurrent
<1>12. \A y \in Tokens : ~ Leaving(exec[y])' /\ ~ Orphan(y)'
  BY <1>3 DEF Leaving, Orphan, Ours
<1>13. ~ Doomed'
  <2>1. user'.generation # job'.generation
    <3>1. user'.generation \in Nat
      BY Bounds DEF UserInv, User, Generations
    <3>2. QED BY <1>1, <1>2, <3>1
  <2>2. ~ UserLeaves'
    BY <2>1 DEF UserLeaves
  <2>3. ~ ReadBlocked'
    BY <1>7 DEF ReadBlocked, Ours
  <2>4. ~ Remembered'
    BY <1>9 DEF Remembered
  <2>5. QED BY <1>1, <1>12, <2>2, <2>3, <2>4 DEF Doomed
<1>14. DoomInv' /\ OrphansAreReleased'
  BY <1>12, <1>13 DEF DoomInv, OrphansAreReleased
<1>15. SeedInv'
  BY <1>1 DEF SeedInv
<1>16. AnswersAreOurs'
  BY DoomedDoNotWait DEF AnswersAreOurs
<1>17. RequestsAreCharged'
  BY <1>1, Bounds DEF RequestsAreCharged, NewGeneration, NoUsage
<1>18. QED BY <1>2, <1>4, <1>5, <1>8, <1>9, <1>10, <1>11, <1>14, <1>15, <1>16, <1>17 DEF SchedInv

(* An execution leaves its generation, which is exhausted. *)
LEMMA AdvanceKeeps ==
  ASSUME SchedInv, NEW x \in Tokens, Advance(x)
  PROVE  [LedgerNext]_ledgerVars /\ SchedInv'
<1>1. PICK k, l : k = exec[x] /\ l = [k EXCEPT !.pc = "spawn"]
  OBVIOUS
<1>2. PICK n : n = IF x \in current THEN l ELSE Off
  OBVIOUS
<1>3. /\ k \in AnyLocal /\ LocalInv(k) /\ KnowsJob(k) /\ LedgerInv /\ k.pc = "advance"
      /\ UNCHANGED <<memory, flight, alarm, user, faults, discarded>>
  BY <1>1, OwnSlot DEF Advance, SchedInv
<1>4. /\ k.generation \in Nat /\ k.generation <= job.generation /\ job.generation \in Nat
      /\ k.next \in 0..ItemCount
  BY <1>3, LocalFields, JobFields, Bounds DEF KnowsJob, Generations
<1>5. CASE UNCHANGED <<ledgerVars, late, sent>> /\ End(x)
  <2>1. [LedgerNext]_ledgerVars /\ Quiet /\ faults' \in 0..MaxFaults
    BY <1>3, <1>5, LedgerSteps, StutterIsQuiet, FaultTyped
  <2>2. QED BY <1>3, <1>5, <2>1, EndsQuietly
<1>6. CASE AdvanceRun(k.generation, k.next, k.ranges) /\ NewGeneration /\ Resume(x, l)
  <2>1. Ours(k) /\ k.ranges = (IF k.next = job.next THEN job.ranges ELSE <<>>)
    BY <1>3, <1>4, <1>6, AdvanceEffect DEF Ours
  <2>2. [LedgerNext]_ledgerVars
    <3>1. AdvanceRun(job.generation, k.next, IF k.next = job.next THEN job.ranges ELSE <<>>)
      BY <1>6, <2>1 DEF Ours
    <3>2. QED BY <1>4, <3>1 DEF LedgerNext, JobStep
  <2>3. Doomed
    BY <1>1, <1>3, <2>1 DEF Doomed, Leaving
  <2>4. /\ l \in AnyLocal /\ LocalInv(l) /\ l.generation = k.generation /\ l.pc = "spawn"
    <3>1. /\ l \in AnyLocal /\ l.generation = k.generation /\ l.pc = "spawn"
          /\ l.ranges = k.ranges /\ l.next = k.next /\ l.usage = k.usage /\ l.status = k.status
      BY <1>1, <1>3 DEF AnyLocal, Points
    <3>2. QED BY <1>3, <3>1 DEF LocalInv, Holding, Counted
  <2>5. /\ Off \in AnyLocal /\ LocalInv(Off) /\ Off.generation = 1 /\ 1 <= job.generation
    <3>1. Slot(x, Off)
      BY <1>3, OffSlot
    <3>2. QED BY <1>3, <3>1, JobFields, Bounds DEF Slot, Off, Generations
  <2>6. /\ exec' = [exec EXCEPT ![x] = n] /\ current' \subseteq current
        /\ settled' \subseteq Generations /\ (x \in current' => n = l)
    <3>1. k.generation \in Generations
      BY <1>3, LocalFields
    <3>2. QED BY <1>1, <1>2, <1>6, <3>1 DEF Resume, Become, End, SchedInv, OtherTypes
  <2>7. /\ n \in AnyLocal /\ LocalInv(n) /\ n.generation <= job.generation
    BY <1>2, <1>4, <2>4, <2>5
  <2>8. exec \in [Tokens -> AnyLocal] /\ \A y \in Tokens : exec[y].generation <= job.generation
                                                         /\ LocalInv(exec[y])
    BY DEF SchedInv, SlotsInv, Slot, KnowsJob
  <2>9. /\ exec' \in [Tokens -> AnyLocal]
        /\ \A y \in Tokens : LocalInv(exec'[y]) /\ exec'[y].generation <= job.generation
    BY <2>6, <2>7, <2>8
  <2>10. \A y \in current' : /\ exec'[y].generation = exec[y].generation
                             /\ exec'[y].pc = "answer" => exec[y].pc = "answer"
    <3>1. current \subseteq Tokens
      BY DEF SchedInv, OtherTypes
    <3>2. QED BY <1>1, <2>4, <2>6, <2>8, <3>1
  <2>11. UserInv' /\ user'.generation <= job.generation
    <3>1. /\ user.generation \in Nat /\ user.generation <= job.generation
          /\ job'.generation = job.generation + 1
      BY <1>3, <1>4, <1>6, AdvanceEffect, Bounds DEF SchedInv, UserInv, User, Generations
    <3>2. user.generation <= job'.generation /\ user.generation < job'.generation
      BY <1>4, <3>1
    <3>3. QED BY <1>3, <3>1, <3>2 DEF SchedInv, UserInv
  <2>12. PICK g, s, rs : g = k.generation /\ s = k.next /\ rs = k.ranges
    OBVIOUS
  <2>13. SchedInv'
    BY <1>3, <1>4, <1>6, <2>2, <2>3, <2>6, <2>9, <2>10, <2>11, <2>12, NewGenerationKeeps
  <2>14. QED BY <2>2, <2>13
<1>7. QED BY <1>1, <1>5, <1>6 DEF Advance

(* The user's command leaves a generation that was remembered as stopped. *)
LEMMA UserBeginsGeneration ==
  ASSUME SchedInv, UserAdvances, AdvanceRun(user.generation, user.next, user.ranges),
         NewGeneration, user' = [user EXCEPT !.pc = "spawn"]
  PROVE  [LedgerNext]_ledgerVars /\ SchedInv'
<1>1. /\ user \in User /\ user.generation \in Nat /\ user.next \in 0..ItemCount /\ UserInv
      /\ user.ranges \in Seq(AnyRange) /\ user.generation <= job.generation /\ LedgerInv
      /\ UNCHANGED <<exec, current, settled, memory, flight, alarm, faults, discarded>>
      /\ user.pc = "advance"
  BY Bounds DEF SchedInv, UserInv, User, Generations, UserAdvances
<1>2. PICK g, s, rs : g = user.generation /\ s = user.next /\ rs = user.ranges
  OBVIOUS
<1>3. s \in 0..ItemCount /\ AdvanceRun(g, s, rs)
  BY <1>1, <1>2
<1>4. /\ job.generation = g /\ rs = (IF s = job.next THEN job.ranges ELSE <<>>)
      /\ job'.generation = job.generation + 1
  BY <1>1, <1>3, AdvanceEffect
<1>5. [LedgerNext]_ledgerVars
  <2>1. AdvanceRun(job.generation, s, IF s = job.next THEN job.ranges ELSE <<>>)
    BY <1>3, <1>4
  <2>2. QED BY <1>3, <2>1 DEF LedgerNext, JobStep
<1>6. Doomed
  BY <1>1, <1>2, <1>4 DEF Doomed, UserLeaves
<1>7. /\ exec' \in [Tokens -> AnyLocal]
      /\ \A y \in Tokens : LocalInv(exec'[y]) /\ exec'[y].generation <= job.generation
  BY <1>1 DEF SchedInv, SlotsInv, Slot, KnowsJob
<1>8. UserInv' /\ user'.generation <= job.generation
  <2>1. /\ user' \in User /\ user'.generation = user.generation /\ user'.next = user.next
        /\ user'.ranges = user.ranges /\ user'.pc = "spawn"
    BY <1>1 DEF User, UserPoint
  <2>2. user'.generation < job'.generation /\ user'.generation <= job'.generation
    BY <1>1, <1>4, <2>1, JobFields, Bounds DEF Generations
  <2>3. QED BY <1>1, <2>1, <2>2 DEF UserInv
<1>9. settled' \subseteq Generations /\ current' \subseteq current
  BY <1>1 DEF SchedInv, OtherTypes
<1>10. \A y \in current' : /\ exec'[y].generation = exec[y].generation
                           /\ exec'[y].pc = "answer" => exec[y].pc = "answer"
  BY <1>1
<1>11. SchedInv'
  BY <1>1, <1>3, <1>5, <1>6, <1>7, <1>8, <1>9, <1>10, NewGenerationKeeps
<1>12. QED BY <1>5, <1>11

-----------------------------------------------------------------------------
(* Steps of the others: restores, the alarm, the user, the environment. *)

(* The slots, when no execution moves. *)
LEMMA StillSlots ==
  ASSUME SchedInv, LedgerInv', Grows, late => late', UNCHANGED <<exec, current>>,
         \A y \in Tokens : KeepsPage(y)
  PROVE  /\ SlotsInv' /\ OneCurrent' /\ AnswersAreOurs'
         /\ \A y \in current : Dead(exec[y]) => Dead(exec[y])'
         /\ \A y \in Tokens : Leaving(exec[y])' <=> Leaving(exec[y])
<1>1. exec' \in [Tokens -> AnyLocal]
  BY DEF SchedInv, SlotsInv
<1>2. ASSUME NEW y \in Tokens
      PROVE  Slot(y, exec[y])' /\ (Dead(exec[y]) => Dead(exec[y])')
  <2>1. PICK k : k = exec[y]
    OBVIOUS
  <2>2. Slot(y, k) /\ k \in AnyLocal /\ exec'[y] = k
    BY <2>1 DEF SchedInv, SlotsInv
  <2>3. Slot(y, k)'
    BY <2>2, SlotKept DEF SchedInv
  <2>4. Dead(k) => Dead(k)'
    BY <2>2, DeadStays DEF SchedInv
  <2>5. QED BY <2>1, <2>2, <2>3, <2>4, SlotNamed, DeadNamed
<1>3. \A y \in Tokens : Leaving(exec[y])' <=> Leaving(exec[y])
  BY DEF Leaving, Ours, Grows
<1>4. OneCurrent' /\ AnswersAreOurs'
  BY DEF SchedInv, OneCurrent, AnswersAreOurs, Ours, Grows
<1>5. current \subseteq Tokens
  BY DEF SchedInv, OtherTypes
<1>6. QED BY <1>1, <1>2, <1>3, <1>4, <1>5 DEF SlotsInv

(* A step in which no execution moves, and the job keeps its usage. *)
LEMMA OthersKeep ==
  ASSUME SchedInv, [LedgerNext]_ledgerVars, Quiet, late => late',
         UNCHANGED <<exec, current, sent>>,
         FlightInv', UserInv', MemoryInv', OtherTypes', SeedInv',
         UserLeaves' \/ Remembered' \/ ReadBlocked' => Doomed,
         \A y \in Tokens : Orphan(y)' => flight'.pc = "release"
  PROVE  SchedInv'
<1>1. LedgerInv /\ LedgerInv'
  BY StepInv DEF SchedInv
<1>2. Grows /\ \A y \in Tokens : KeepsPage(y)
  BY <1>1, QuietCharges
<1>3. /\ SlotsInv' /\ OneCurrent' /\ AnswersAreOurs'
      /\ \A y \in current : Dead(exec[y]) => Dead(exec[y])'
      /\ \A y \in Tokens : Leaving(exec[y])' <=> Leaving(exec[y])
  BY <1>1, <1>2, StillSlots
<1>4. \A y \in Tokens : Orphan(y)' => Orphan(y)
  BY DEF Orphan, Ours, Quiet, SameJob
<1>5. Doomed' => Doomed
  <2>1. job'.status = "analysis_blocked" => Doomed
    BY DEF Quiet, Doomed
  <2>2. (\E z \in Tokens : Leaving(exec[z])') => Doomed
    BY <1>3 DEF Doomed
  <2>3. (\E y \in Tokens : Orphan(y)') => Doomed
    BY <1>4 DEF Doomed
  <2>4. Doomed' => \/ \E z \in Tokens : Leaving(exec[z])'
                   \/ UserLeaves' \/ Remembered' \/ ReadBlocked'
                   \/ job'.status = "analysis_blocked"
                   \/ \E y \in Tokens : Orphan(y)'
    BY DEF Doomed
  <2>5. QED BY <2>1, <2>2, <2>3, <2>4
<1>6. DoomInv'
  <2>1. Begun(job.usage) => Begun(job.usage)'
    BY <1>1, <1>2, BegunStays
  <2>2. QED BY <1>3, <1>5, <2>1 DEF SchedInv, DoomInv
<1>7. JobFits'
  BY QuietJobFits DEF SchedInv, Quiet
<1>8. OrphansAreReleased'
  BY DEF OrphansAreReleased
<1>9. RequestsAreCharged'
  BY DEF SchedInv, RequestsAreCharged, Quiet, SameJob
<1>10. QED BY <1>1, <1>3, <1>6, <1>7, <1>8, <1>9 DEF SchedInv

(* What is read or remembered, when nobody reads or forgets. *)
LEMMA QuietKeepers ==
  ASSUME SchedInv, LedgerInv', Quiet
  PROVE  /\ UNCHANGED flight => FlightInv' /\ SeedInv' /\ (ReadBlocked' => ReadBlocked)
         /\ UNCHANGED user => UserInv' /\ (UserLeaves' => UserLeaves)
         /\ UNCHANGED memory => MemoryInv' /\ (Remembered' => Remembered)
         /\ UNCHANGED <<exec, current>> => \A y \in Tokens : Orphan(y)' => Orphan(y)
<1>1. LedgerInv /\ Grows
  BY QuietCharges DEF SchedInv
<1>2. ASSUME UNCHANGED flight
      PROVE  FlightInv' /\ SeedInv' /\ (ReadBlocked' => ReadBlocked)
  <2>1. FlightInv' /\ (Stale(flight.seed) => Stale(flight.seed)')
    BY <1>1, <1>2, FlightKept DEF SchedInv
  <2>2. Ours(flight.seed)' <=> Ours(flight.seed)
    BY <1>2 DEF Ours, Quiet, SameJob
  <2>3. SeedInv'
    BY <1>2, <2>1, <2>2 DEF SchedInv, SeedInv, Quiet
  <2>4. ReadBlocked' => ReadBlocked
    BY <1>2, <2>2 DEF ReadBlocked
  <2>5. QED BY <2>1, <2>3, <2>4
<1>3. UNCHANGED user => UserInv' /\ (UserLeaves' => UserLeaves)
  BY DEF SchedInv, UserInv, UserLeaves, Quiet, SameJob
<1>4. UNCHANGED memory => MemoryInv' /\ (Remembered' => Remembered)
  BY DEF SchedInv, MemoryInv, Remembered, Quiet, SameJob
<1>5. UNCHANGED <<exec, current>> => \A y \in Tokens : Orphan(y)' => Orphan(y)
  BY DEF Orphan, Ours, Quiet, SameJob
<1>6. QED BY <1>2, <1>3, <1>4, <1>5

(* Nothing but the ledger, the clock or the alarm moves. *)
LEMMA LedgerOnlyKeeps ==
  ASSUME SchedInv, [LedgerNext]_ledgerVars, Quiet, late => late', late' \in BOOLEAN,
         alarm' \in {"idle", "checked", "pumping"}, Fault \/ UNCHANGED faults,
         UNCHANGED <<exec, current, settled, memory, flight, user, sent, discarded>>
  PROVE  SchedInv'
<1>1. LedgerInv'
  BY StepInv DEF SchedInv
<1>2. /\ FlightInv' /\ SeedInv' /\ (ReadBlocked' => ReadBlocked)
      /\ UserInv' /\ (UserLeaves' => UserLeaves)
      /\ MemoryInv' /\ (Remembered' => Remembered)
      /\ \A y \in Tokens : Orphan(y)' => Orphan(y)
  BY <1>1, QuietKeepers
<1>3. OtherTypes'
  BY FaultTyped DEF SchedInv, OtherTypes
<1>4. \A y \in Tokens : Orphan(y)' => flight'.pc = "release"
  BY <1>2 DEF SchedInv, OrphansAreReleased
<1>5. QED BY <1>2, <1>3, <1>4, OthersKeep DEF Doomed

(* The alarm rings. *)
LEMMA AlarmFiresKeeps ==
  ASSUME SchedInv, AlarmFires
  PROVE  [LedgerNext]_ledgerVars /\ SchedInv'
<1>1. RecoverExpiredLeases \/ UNCHANGED ledgerVars
  BY DEF AlarmFires
<1>2. [LedgerNext]_ledgerVars /\ Quiet
  BY <1>1, StutterIsQuiet, RecoveryIsQuiet DEF SchedInv, LedgerNext, JobStep
<1>3. SchedInv'
  BY <1>2, LedgerOnlyKeeps DEF AlarmFires, SchedInv, OtherTypes
<1>4. QED BY <1>2, <1>3

(* The alarm is armed again. *)
LEMMA AlarmReturnsKeeps ==
  ASSUME SchedInv, AlarmReturns
  PROVE  [LedgerNext]_ledgerVars /\ SchedInv'
<1>1. UNCHANGED ledgerVars
  BY DEF AlarmReturns
<1>2. [LedgerNext]_ledgerVars /\ Quiet
  BY <1>1, StutterIsQuiet
<1>3. SchedInv'
  BY <1>2, LedgerOnlyKeeps DEF AlarmReturns, SchedInv, OtherTypes
<1>4. QED BY <1>2, <1>3

(* The user cancels. *)
LEMMA UserStopsKeeps ==
  ASSUME SchedInv, UserStops
  PROVE  [LedgerNext]_ledgerVars /\ SchedInv'
<1>1. CancelJob /\ UNCHANGED schedVars
  BY DEF UserStops
<1>2. [LedgerNext]_ledgerVars /\ Quiet
  BY <1>1, StatusIsQuiet DEF SchedInv, LedgerNext, JobStep
<1>3. SchedInv'
  BY <1>1, <1>2, LedgerOnlyKeeps DEF schedVars, SchedInv, OtherTypes
<1>4. QED BY <1>2, <1>3

(* A lease expires. *)
LEMMA ExpiryKeeps ==
  ASSUME SchedInv, NEW x \in Tokens, Expiry(x)
  PROVE  [LedgerNext]_ledgerVars /\ SchedInv'
<1>1. LeaseExpires(x)
  BY DEF Expiry
<1>2. [LedgerNext]_ledgerVars /\ Quiet
  BY <1>1, LedgerSteps, ExpiryIsQuiet
<1>3. SchedInv'
  BY <1>2, LedgerOnlyKeeps DEF Expiry, SchedInv, OtherTypes
<1>4. QED BY <1>2, <1>3

(* The deadline passes. *)
LEMMA DeadlinePassesKeeps ==
  ASSUME SchedInv, DeadlinePasses
  PROVE  [LedgerNext]_ledgerVars /\ SchedInv'
<1>1. UNCHANGED ledgerVars
  BY DEF DeadlinePasses
<1>2. [LedgerNext]_ledgerVars /\ Quiet
  BY <1>1, StutterIsQuiet
<1>3. SchedInv'
  BY <1>2, LedgerOnlyKeeps DEF DeadlinePasses, SchedInv, OtherTypes
<1>4. QED BY <1>2, <1>3

(* Nothing happens. *)
LEMMA StutterKeeps ==
  ASSUME SchedInv, UNCHANGED vars
  PROVE  [LedgerNext]_ledgerVars /\ SchedInv'
<1>1. UNCHANGED ledgerVars /\ UNCHANGED schedVars
  BY DEF vars
<1>2. [LedgerNext]_ledgerVars /\ Quiet
  BY <1>1, StutterIsQuiet
<1>3. SchedInv'
  BY <1>1, <1>2, LedgerOnlyKeeps DEF schedVars, SchedInv, OtherTypes
<1>4. QED BY <1>2, <1>3

(* Only the user's command moves. *)
LEMMA UserOnlyKeeps ==
  ASSUME SchedInv, UNCHANGED ledgerVars, UserInv', UserLeaves' => Doomed,
         UNCHANGED <<exec, current, settled, memory, flight, alarm, late, sent, faults, discarded>>
  PROVE  [LedgerNext]_ledgerVars /\ SchedInv'
<1>1. [LedgerNext]_ledgerVars /\ Quiet
  BY StutterIsQuiet
<1>2. LedgerInv'
  BY <1>1, StepInv DEF SchedInv
<1>3. /\ FlightInv' /\ SeedInv' /\ (ReadBlocked' => ReadBlocked)
      /\ MemoryInv' /\ (Remembered' => Remembered)
      /\ \A y \in Tokens : Orphan(y)' => Orphan(y)
  BY <1>1, <1>2, QuietKeepers
<1>4. OtherTypes'
  BY DEF SchedInv, OtherTypes
<1>5. \A y \in Tokens : Orphan(y)' => flight'.pc = "release"
  BY <1>3 DEF SchedInv, OrphansAreReleased
<1>6. SchedInv'
  BY <1>1, <1>3, <1>4, <1>5, OthersKeep DEF Doomed
<1>7. QED BY <1>1, <1>6

(* No command. *)
LEMMA NoUserFits ==
  ASSUME LedgerInv', user' = NoUser
  PROVE  UserInv' /\ ~ UserLeaves'
<1>1. /\ user'.pc = "none" /\ user'.generation = 1 /\ user'.next = 0 /\ user'.ranges = <<>>
      /\ user' \in User
  BY Bounds DEF NoUser, User, UserPoint, Generations
<1>2. 1 <= job'.generation
  BY LedgerTypedLater, Bounds DEF Generations
<1>3. QED BY <1>1, <1>2, NoChain DEF UserInv, UserLeaves

(* A page is told of the job. *)
LEMMA UserOpenedKeeps ==
  ASSUME SchedInv, UserOpened
  PROVE  [LedgerNext]_ledgerVars /\ SchedInv'
<1>1. LedgerInv'
  BY StepInv DEF SchedInv, UserOpened
<1>2. QED BY <1>1, NoUserFits, UserOnlyKeeps DEF UserOpened

(* The continuation looks at the run again. *)
LEMMA UserResumesKeeps ==
  ASSUME SchedInv, UserResumes
  PROVE  [LedgerNext]_ledgerVars /\ SchedInv'
<1>1. LedgerInv' /\ UNCHANGED ledgerVars /\ UserInv /\ user \in User
  BY StepInv DEF SchedInv, UserResumes, UserInv
<1>2. CASE user' = NoUser
  BY <1>1, <1>2, NoUserFits, UserOnlyKeeps DEF UserResumes
<1>3. CASE memory[user.generation] = "analysis_blocked" /\ user' = [user EXCEPT !.pc = "advance"]
  <2>1. /\ user' \in User /\ user'.pc = "advance" /\ user'.generation = user.generation
        /\ user'.next = user.next /\ user'.ranges = user.ranges /\ job' = job
    BY <1>1, <1>3 DEF User, UserPoint, ledgerVars
  <2>2. UserInv'
    BY <1>1, <2>1 DEF UserInv
  <2>3. UserLeaves' => Doomed
    BY <1>3, <2>1 DEF UserLeaves, Doomed, Remembered
  <2>4. QED BY <1>1, <2>2, <2>3, UserOnlyKeeps DEF UserResumes
<1>4. QED BY <1>2, <1>3 DEF UserResumes

(* The user continues an exhausted run. *)
LEMMA UserContinuesKeeps ==
  ASSUME SchedInv, UserContinues
  PROVE  [LedgerNext]_ledgerVars /\ SchedInv'
<1>1. /\ LedgerInv /\ LedgerInv' /\ UNCHANGED ledgerVars /\ JobFits
      /\ memory[job.generation] = "budget_exhausted"
      /\ user' = [pc |-> "advance", generation |-> job.generation,
                  next |-> job.next, ranges |-> job.ranges]
  BY StepInv DEF SchedInv, UserContinues
<1>2. /\ job.generation \in Generations /\ job.generation \in Nat /\ job.next \in 0..ItemCount
      /\ job.next \in Nat /\ job.ranges \in Seq(AnyRange) /\ Room(job.usage) \in Int
      /\ job.usage.consumed \in Nat
  BY <1>1, JobFields, Bounds DEF Generations
<1>3. Chain(job.ranges, job.next, MaxPositions)
  <2>1. Room(job.usage) <= MaxPositions /\ MaxPositions \in Int
    BY <1>2, Bounds DEF Room
  <2>2. QED BY <1>1, <1>2, <2>1, MoreRoom DEF JobFits
<1>4. /\ user' \in User /\ user'.generation = job.generation /\ user'.pc = "advance"
      /\ user'.next = job.next /\ user'.ranges = job.ranges
  BY <1>1, <1>2 DEF User, UserPoint
<1>5. UserInv'
  BY <1>1, <1>2, <1>3, <1>4 DEF UserInv, ledgerVars
<1>6. Doomed
  BY <1>1 DEF Doomed, Remembered
<1>7. QED BY <1>1, <1>5, <1>6, UserOnlyKeeps DEF UserContinues

(* The continuation begins its generation, or is refused. *)
LEMMA UserAdvancesKeeps ==
  ASSUME SchedInv, UserAdvances
  PROVE  [LedgerNext]_ledgerVars /\ SchedInv'
<1>1. CASE UNCHANGED <<ledgerVars, late, sent>> /\ user' = NoUser
  <2>1. LedgerInv' /\ UNCHANGED ledgerVars
    BY <1>1, StepInv DEF SchedInv
  <2>2. QED BY <1>1, <2>1, NoUserFits, UserOnlyKeeps DEF UserAdvances
<1>2. CASE /\ AdvanceRun(user.generation, user.next, user.ranges)
           /\ NewGeneration /\ user' = [user EXCEPT !.pc = "spawn"]
  BY <1>2, UserBeginsGeneration
<1>3. QED BY <1>1, <1>2 DEF UserAdvances

(* A retry: the job analyses again, and nobody holds a page. *)
LEMMA UserRetriesKeeps ==
  ASSUME SchedInv, UserRetries
  PROVE  [LedgerNext]_ledgerVars /\ SchedInv'
<1>1. /\ RetryFromFirstFailure /\ LedgerInv
      /\ UNCHANGED <<exec, current, settled, memory, flight, alarm, late, sent, faults, discarded>>
      /\ user' = [pc |-> "retried", generation |-> job.generation,
                  next |-> job'.next, ranges |-> <<>>]
  BY DEF UserRetries, SchedInv
<1>2. [LedgerNext]_ledgerVars
  BY <1>1 DEF LedgerNext, JobStep
<1>3. LedgerInv'
  BY <1>1, <1>2, StepInv
<1>4. /\ job.status = "analysis_blocked" /\ job'.status = "analyzing"
      /\ job'.generation = job.generation /\ job'.usage = job.usage
      /\ job'.next \in 0..ItemCount /\ job'.ranges = <<>>
      /\ \A y \in Tokens : Claimed(y)' = {}
  BY <1>1, RetryEffect
<1>5. Grows /\ \A y \in Tokens : KeepsPage(y)
  BY <1>1, <1>4, JobFields DEF Grows, KeepsPage
<1>6. /\ SlotsInv' /\ OneCurrent' /\ AnswersAreOurs'
      /\ \A y \in current : Dead(exec[y]) => Dead(exec[y])'
  BY <1>1, <1>3, <1>5, StillSlots
<1>7. DoomInv'
  <2>1. Doomed
    BY <1>4 DEF Doomed
  <2>2. Begun(job.usage)' /\ \A y \in current : Dead(exec[y])'
    BY <1>1, <1>3, <1>5, <1>6, <2>1, BegunStays DEF SchedInv, DoomInv
  <2>3. QED BY <1>1, <2>2 DEF DoomInv
<1>8. FlightInv'
  BY <1>1, <1>3, <1>5, FlightKept DEF SchedInv
<1>9. UserInv'
  <2>1. /\ user' \in User /\ user'.pc = "retried" /\ user'.generation = job.generation
        /\ user'.ranges = <<>>
    BY <1>1, <1>4, JobFields DEF User, UserPoint
  <2>2. job.generation <= job'.generation
    BY <1>1, <1>4, JobFields, Bounds DEF Generations
  <2>3. QED BY <2>1, <2>2, NoChain DEF UserInv
<1>10. MemoryInv' /\ OtherTypes' /\ JobFits' /\ RequestsAreCharged'
  BY <1>1, <1>4, NoChain DEF SchedInv, MemoryInv, OtherTypes, JobFits, RequestsAreCharged
<1>11. SeedInv' /\ OrphansAreReleased'
  BY <1>4 DEF SeedInv, OrphansAreReleased, Orphan
<1>12. SchedInv'
  BY <1>3, <1>6, <1>7, <1>8, <1>9, <1>10, <1>11 DEF SchedInv
<1>13. QED BY <1>2, <1>12

(* Only the restore in progress moves. *)
LEMMA FlightOnlyKeeps ==
  ASSUME SchedInv, [LedgerNext]_ledgerVars, Quiet, FlightInv', SeedInv', ReadBlocked' => Doomed,
         \A y \in Tokens : ~ Orphan(y)', discarded' \in BOOLEAN,
         UNCHANGED <<exec, current, settled, memory, alarm, user, late, sent, faults>>
  PROVE  SchedInv'
<1>1. LedgerInv'
  BY StepInv DEF SchedInv
<1>2. /\ UserInv' /\ (UserLeaves' => UserLeaves)
      /\ MemoryInv' /\ (Remembered' => Remembered)
  BY <1>1, QuietKeepers
<1>3. OtherTypes'
  BY DEF SchedInv, OtherTypes
<1>4. QED BY <1>2, <1>3, OthersKeep DEF Doomed

(* Without a restore that has just begun nobody is revoked with its page. *)
LEMMA NoOrphans ==
  ASSUME SchedInv, LedgerInv', Quiet, UNCHANGED <<exec, current>>, flight.pc # "release"
  PROVE  \A y \in Tokens : ~ Orphan(y)'
BY QuietKeepers DEF SchedInv, OrphansAreReleased

(* A restore releases the pages of those it has revoked. *)
LEMMA RestoreReleaseKeeps ==
  ASSUME SchedInv, RestoreRelease
  PROVE  [LedgerNext]_ledgerVars /\ SchedInv'
<1>1. /\ flight.pc = "release" /\ flight' = [flight EXCEPT !.pc = "readJob"]
      /\ UNCHANGED <<exec, current, settled, memory, alarm, user, late, sent, faults, discarded>>
      /\ LedgerInv /\ FlightInv
  BY DEF RestoreRelease, SchedInv
<1>2. /\ ReleaseJobLeases \/ UNCHANGED ledgerVars
      /\ ReleaseJobLeases \/ RowsIn("leased") = {} \/ job.status # "analyzing"
  BY DEF RestoreRelease
<1>3. [LedgerNext]_ledgerVars /\ Quiet
  BY <1>1, <1>2, StutterIsQuiet, JobReleaseIsQuiet DEF LedgerNext, JobStep
<1>4. LedgerInv' /\ Grows
  BY <1>1, <1>3, StepInv, QuietCharges
<1>5. ASSUME NEW y \in Tokens PROVE ~ Orphan(y)'
  <2>1. CASE ReleaseJobLeases
    BY <1>1, <2>1, JobReleaseIsQuiet DEF Orphan
  <2>2. CASE UNCHANGED ledgerVars /\ RowsIn("leased") = {}
    <3>1. Claimed(y)' = {}
      BY <2>2, SameRows DEF Claimed, RowsIn, ledgerVars
    <3>2. QED BY <3>1 DEF Orphan
  <2>3. CASE UNCHANGED ledgerVars /\ job.status # "analyzing"
    BY <2>3 DEF Orphan, ledgerVars
  <2>4. QED BY <1>2, <2>1, <2>2, <2>3
<1>6. /\ flight' \in Flight /\ flight'.pc = "readJob" /\ flight'.seed = flight.seed
  BY <1>1 DEF FlightInv, Flight, FlightPoint
<1>7. FlightInv'
  <2>1. PICK f : f = flight.seed
    OBVIOUS
  <2>2. f \in AnyLocal /\ (Within(f) => Within(f)')
    BY <1>1, <1>4, <2>1, CopiesFallBehind DEF FlightInv, Flight
  <2>3. Ours(f)' <=> Ours(f)
    BY <1>4 DEF Ours, Grows
  <2>4. f.pc = "off" /\ f.status = "analyzing" /\ LocalInv(f) /\ f.attempt = 0
        /\ f.generation <= job'.generation /\ (Ours(f) => Within(f))
    BY <1>1, <1>4, <2>1 DEF FlightInv, Grows
  <2>5. flight'.seed = f
    BY <1>6, <2>1
  <2>6. Ours(flight.seed)' => Within(flight.seed)'
    BY <2>2, <2>3, <2>4, <2>5 DEF Ours, Within, Paid
  <2>7. QED BY <1>6, <2>4, <2>5, <2>6 DEF FlightInv, LocalInv
<1>8. SeedInv' /\ ~ ReadBlocked'
  BY <1>6 DEF SeedInv, ReadBlocked
<1>9. SchedInv'
  BY <1>1, <1>3, <1>5, <1>7, <1>8, FlightOnlyKeeps DEF SchedInv, OtherTypes
<1>10. QED BY <1>3, <1>9

(* No restore. *)
LEMMA NoFlightFits ==
  ASSUME LedgerInv', flight' = NoFlight
  PROVE  FlightInv' /\ SeedInv' /\ ~ ReadBlocked'
<1>1. Off \in AnyLocal /\ Off.pc = "off" /\ Off.status = "analyzing" /\ Off.generation = 1
      /\ Off.ranges = <<>> /\ Off.attempt = 0 /\ Off.usage = NoUsage
  BY Bounds DEF Off, AnyLocal, Points, CallPoints, Generations, NoUsage, Usage, NoPage
<1>2. LocalInv(Off)
  BY <1>1, NoChain DEF LocalInv, Holding, Counted
<1>3. /\ flight'.pc = "none" /\ flight'.seed = Off /\ flight' \in Flight
  BY <1>1 DEF NoFlight, Flight, FlightPoint
<1>4. 1 <= job'.generation
  BY LedgerTypedLater, Bounds DEF Generations
<1>5. Within(flight.seed)'
  <2>1. PICK f : f = Off
    OBVIOUS
  <2>2. f.usage = NoUsage /\ f.pc = "off" /\ flight'.seed = f
    BY <1>1, <1>3, <2>1
  <2>3. /\ Paid(f) <= job'.usage.batches /\ f.usage.attempts <= job'.usage.attempts
        /\ f.usage.consumed <= job'.usage.consumed
    BY <2>2, LedgerTypedLater DEF Paid, NoUsage
  <2>4. QED BY <2>2, <2>3 DEF Within, Paid
<1>6. QED BY <1>1, <1>2, <1>3, <1>4, <1>5 DEF FlightInv, SeedInv, ReadBlocked, LocalInv

(* A restore reads the job: a copy of it, that is not ahead. *)
LEMMA RestoreReadJobKeeps ==
  ASSUME SchedInv, RestoreReadJob
  PROVE  [LedgerNext]_ledgerVars /\ SchedInv'
<1>1. PICK f, st : /\ f = [Off EXCEPT !.generation = job.generation, !.next = job.next,
                                      !.ranges = job.ranges, !.usage = job.usage]
                   /\ st = RestoredStatus
  OBVIOUS
<1>2. /\ flight.pc = "readJob" /\ flight' = [pc |-> "readItems", status |-> st, seed |-> f]
      /\ UNCHANGED ledgerVars /\ LedgerInv /\ JobFits
      /\ UNCHANGED <<exec, current, settled, memory, alarm, user, late, sent, faults, discarded>>
  BY <1>1 DEF RestoreReadJob, SchedInv
<1>3. [LedgerNext]_ledgerVars /\ Quiet /\ UNCHANGED job
  BY <1>2, StutterIsQuiet DEF ledgerVars
<1>4. LedgerInv'
  BY <1>2, <1>3, StepInv
<1>5. \A y \in Tokens : ~ Orphan(y)'
  BY <1>2, <1>3, <1>4, NoOrphans
<1>6. /\ job.generation \in Generations /\ job.generation \in Nat
      /\ job.next \in 0..ItemCount /\ job.ranges \in Seq(AnyRange) /\ job.usage \in Usage
      /\ job.usage.batches \in Nat /\ job.usage.attempts \in Nat /\ job.usage.consumed \in Nat
  BY <1>2, JobFields, Bounds DEF Generations
<1>7. Off \in AnyLocal /\ Off.pc = "off" /\ Off.status = "analyzing" /\ Off.attempt = 0
  BY Bounds DEF Off, AnyLocal, Points, CallPoints, Generations, NoUsage, Usage, NoPage
<1>8. /\ f \in AnyLocal /\ f.pc = "off" /\ f.status = "analyzing" /\ f.attempt = 0
      /\ f.generation = job.generation /\ f.next = job.next /\ f.ranges = job.ranges
      /\ f.usage = job.usage
  BY <1>1, <1>6, <1>7 DEF AnyLocal
<1>9. LocalInv(f)
  BY <1>2, <1>8 DEF LocalInv, JobFits, Holding, Counted
<1>10. /\ st \in {"analyzing", "analysis_blocked", "review"}
       /\ st = "analysis_blocked" <=> job.status = "analysis_blocked"
  BY <1>1 DEF RestoredStatus
<1>11. /\ flight'.pc = "readItems" /\ flight'.seed = f /\ flight'.status = st
       /\ flight' \in Flight
  BY <1>2, <1>8, <1>10 DEF Flight, FlightPoint
<1>12. FlightInv'
  <2>1. Within(flight.seed)'
    <3>1. /\ Paid(f) <= job.usage.batches /\ f.usage.attempts <= job.usage.attempts
          /\ f.usage.consumed <= job.usage.consumed
      BY <1>6, <1>8 DEF Paid
    <3>2. QED BY <1>3, <1>11, <3>1 DEF Within, Paid
  <2>2. f.generation <= job'.generation
    BY <1>3, <1>6, <1>8
  <2>3. QED BY <1>8, <1>9, <1>11, <2>1, <2>2 DEF FlightInv, LocalInv
<1>13. SeedInv'
  BY <1>3, <1>10, <1>11 DEF SeedInv
<1>14. ReadBlocked' => Doomed
  BY <1>10, <1>11 DEF ReadBlocked, Doomed
<1>15. SchedInv'
  BY <1>2, <1>3, <1>5, <1>12, <1>13, <1>14, FlightOnlyKeeps DEF SchedInv, OtherTypes
<1>16. QED BY <1>3, <1>15

(* A restore reads the rows. *)
LEMMA RestoreReadItemsKeeps ==
  ASSUME SchedInv, RestoreReadItems
  PROVE  [LedgerNext]_ledgerVars /\ SchedInv'
<1>1. /\ flight.pc = "readItems" /\ flight' = [flight EXCEPT !.pc = "schedule"]
      /\ UNCHANGED ledgerVars /\ LedgerInv /\ FlightInv /\ SeedInv
      /\ UNCHANGED <<exec, current, settled, memory, alarm, user, late, sent, faults, discarded>>
  BY DEF RestoreReadItems, SchedInv
<1>2. [LedgerNext]_ledgerVars /\ Quiet /\ UNCHANGED job
  BY <1>1, StutterIsQuiet DEF ledgerVars
<1>3. LedgerInv'
  BY <1>1, <1>2, StepInv
<1>4. \A y \in Tokens : ~ Orphan(y)'
  BY <1>1, <1>2, <1>3, NoOrphans
<1>5. /\ flight'.pc = "schedule" /\ flight'.seed = flight.seed /\ flight'.status = flight.status
      /\ flight' \in Flight
  BY <1>1 DEF FlightInv, Flight, FlightPoint
<1>6. FlightInv'
  BY <1>1, <1>2, <1>5 DEF FlightInv, LocalInv, Ours, Within, Paid
<1>7. SeedInv'
  BY <1>1, <1>2, <1>5 DEF SeedInv, Ours, Stale, Paid
<1>8. ReadBlocked' => Doomed
  BY <1>1, <1>2, <1>5 DEF ReadBlocked, Doomed, Ours
<1>9. SchedInv'
  BY <1>1, <1>2, <1>4, <1>6, <1>7, <1>8, FlightOnlyKeeps DEF SchedInv, OtherTypes
<1>10. QED BY <1>2, <1>9

(* A restore discards what it has read. *)
LEMMA RestoreDiscardsKeeps ==
  ASSUME SchedInv, RestoreDiscards
  PROVE  [LedgerNext]_ledgerVars /\ SchedInv'
<1>1. /\ flight.pc = "readItems" /\ flight' = NoFlight /\ LedgerInv
      /\ CancelJob \/ UNCHANGED ledgerVars
      /\ discarded' \in BOOLEAN
      /\ UNCHANGED <<exec, current, settled, memory, alarm, user, late, sent, faults>>
  BY DEF RestoreDiscards, SchedInv, OtherTypes
<1>2. [LedgerNext]_ledgerVars /\ Quiet
  BY <1>1, StutterIsQuiet, StatusIsQuiet DEF LedgerNext, JobStep
<1>3. LedgerInv'
  BY <1>1, <1>2, StepInv
<1>4. \A y \in Tokens : ~ Orphan(y)'
  BY <1>1, <1>2, <1>3, NoOrphans
<1>5. SchedInv'
  BY <1>1, <1>2, <1>3, <1>4, NoFlightFits, FlightOnlyKeeps
<1>6. QED BY <1>2, <1>5

(* A restore begins: who is revoked with its page has paid for it. *)
LEMMA BeginRestoreKeeps ==
  ASSUME SchedInv, BeginRestore, UNCHANGED ledgerVars, UserInv', UserLeaves' => UserLeaves,
         alarm' \in {"idle", "checked", "pumping"},
         UNCHANGED <<late, sent, faults, discarded>>
  PROVE  [LedgerNext]_ledgerVars /\ SchedInv'
<1>1. /\ flight' = [NoFlight EXCEPT !.pc = "release"] /\ LedgerInv /\ UNCHANGED job
      /\ exec' = [x \in Tokens |->
                    IF exec[x].generation = job.generation
                       /\ exec[x].pc \notin CallPoints \cup {"bind", "advance"}
                    THEN Off ELSE exec[x]]
      /\ current' = {x \in current : exec[x].generation # job.generation}
      /\ settled' \subseteq Generations
      /\ memory' = [memory EXCEPT ![job.generation] = "none"]
  BY DEF BeginRestore, RevokeRun, SchedInv, OtherTypes, ledgerVars
<1>2. [LedgerNext]_ledgerVars /\ Quiet
  BY StutterIsQuiet
<1>3. LedgerInv' /\ \A y \in Tokens : Claimed(y)' = Claimed(y)
  BY <1>1, <1>2, StepInv, SameRows DEF ledgerVars
<1>4. ASSUME NEW y \in Tokens
      PROVE  Slot(y, exec[y])' /\ exec'[y] \in AnyLocal /\ (exec'[y] = exec[y] \/ exec'[y] = Off)
  <2>1. CASE exec'[y] = exec[y]
    <3>1. PICK k : k = exec[y]
      OBVIOUS
    <3>2. Slot(y, k) /\ KeepsPage(y) /\ Grows /\ (late => late')
      BY <1>1, <1>2, <1>3, <3>1, QuietCharges DEF SchedInv, SlotsInv
    <3>3. Slot(y, k)'
      BY <1>1, <1>3, <3>2, SlotKept
    <3>4. QED BY <2>1, <3>1, <3>2, <3>3, SlotNamed DEF Slot
  <2>2. CASE exec'[y] = Off
    BY <1>1, <1>3, <2>2, OffSlotLater, OffSlot, SlotNamed
  <2>3. QED BY <1>1, <2>1, <2>2
<1>5. SlotsInv'
  <2>1. exec' \in [Tokens -> AnyLocal]
    <3>1. exec' = [y \in Tokens |-> exec'[y]]
      BY <1>1
    <3>2. QED BY <1>4, <3>1
  <2>2. QED BY <1>4, <2>1 DEF SlotsInv
<1>6. /\ flight'.pc = "release" /\ flight'.seed = Off /\ flight'.status = "analyzing"
      /\ flight' \in Flight
  <2>1. Off \in AnyLocal
    BY Bounds DEF Off, AnyLocal, Points, CallPoints, Generations, NoUsage, Usage, NoPage
  <2>2. QED BY <1>1, <2>1 DEF NoFlight, Flight, FlightPoint
<1>7. FlightInv'
  <2>1. PICK f : f = Off
    OBVIOUS
  <2>2. /\ f.usage = NoUsage /\ f.pc = "off" /\ f.status = "analyzing" /\ f.generation = 1
        /\ f.attempt = 0 /\ f.ranges = <<>>
    BY <2>1 DEF Off
  <2>3. LocalInv(f)
    BY <2>2, NoChain DEF LocalInv, Holding, Counted
  <2>4. /\ Paid(f) <= job'.usage.batches /\ f.usage.attempts <= job'.usage.attempts
        /\ f.usage.consumed <= job'.usage.consumed /\ 1 <= job'.generation
    BY <1>3, <2>2, LedgerTypedLater, Bounds DEF Paid, NoUsage, Generations
  <2>5. Within(flight.seed)'
    BY <1>6, <2>1, <2>4 DEF Within, Paid
  <2>6. QED BY <1>6, <2>1, <2>2, <2>3, <2>4, <2>5 DEF FlightInv, LocalInv
<1>8. MemoryInv' /\ ~ Remembered'
  <2>1. job.generation \in Generations
    BY <1>1, JobFields
  <2>2. memory' \in [Generations -> MemoryState] /\ memory'[job.generation] = "none"
    BY <1>1, <2>1 DEF SchedInv, MemoryInv, MemoryState
  <2>3. \A g \in Generations : g > job.generation => memory'[g] = "none"
    BY <1>1 DEF SchedInv, MemoryInv
  <2>4. QED BY <1>1, <2>2, <2>3 DEF MemoryInv, Remembered
<1>9. OtherTypes'
  BY <1>1 DEF SchedInv, OtherTypes
<1>10. \A y \in current' : /\ y \in current /\ exec'[y] = exec[y]
                           /\ exec[y].generation # job.generation
  BY <1>1 DEF SchedInv, OtherTypes
<1>11. OneCurrent' /\ AnswersAreOurs'
  BY <1>1, <1>10 DEF SchedInv, OneCurrent, AnswersAreOurs, Ours
<1>12. SeedInv' /\ OrphansAreReleased' /\ ~ ReadBlocked'
  BY <1>6 DEF SeedInv, OrphansAreReleased, ReadBlocked
<1>13. ASSUME NEW y \in Tokens, Orphan(y)' PROVE Begun(job.usage)
  <2>1. /\ exec'[y].pc \in {"attempt", "split", "checkpoint"}
        /\ exec'[y].generation = job.generation /\ Claimed(y) # {}
    BY <1>1, <1>3, <1>13 DEF Orphan, Ours
  <2>2. PICK k : k = exec[y]
    OBVIOUS
  <2>3. exec'[y] = k
    BY <1>4, <2>1, <2>2 DEF Off
  <2>4. k.pc \in Holding /\ Slot(y, k) /\ Ours(k)
    BY <2>1, <2>2, <2>3 DEF Holding, SchedInv, SlotsInv, Ours
  <2>5. k.usage = job.usage /\ k.usage.batches >= 1
    BY <2>1, <2>4 DEF Slot, InStep, LocalInv
  <2>6. QED BY <2>5 DEF Begun
<1>14. DoomInv'
  <2>1. \A y \in current' : Dead(exec[y])'
    BY <1>1, <1>10 DEF Dead, Ours
  <2>2. \A z \in Tokens : Leaving(exec[z])' => Leaving(exec[z])
    BY <1>1, <1>4 DEF Leaving, Ours, Off
  <2>3. (\E z \in Tokens : Leaving(exec[z])') => Doomed
    BY <2>2 DEF Doomed
  <2>4. Doomed' => \/ \E z \in Tokens : Leaving(exec[z])'
                   \/ UserLeaves' \/ Remembered' \/ ReadBlocked'
                   \/ job'.status = "analysis_blocked"
                   \/ \E y \in Tokens : Orphan(y)'
    BY DEF Doomed
  <2>5. UserLeaves' \/ job'.status = "analysis_blocked" => Doomed
    BY <1>1 DEF Doomed
  <2>6. Doomed' => Begun(job.usage)
    BY <1>8, <1>12, <1>13, <2>3, <2>4, <2>5 DEF SchedInv, DoomInv
  <2>7. QED BY <1>1, <2>1, <2>6 DEF DoomInv, Begun
<1>15. JobFits' /\ RequestsAreCharged'
  BY <1>1 DEF SchedInv, JobFits, RequestsAreCharged
<1>16. SchedInv'
  BY <1>3, <1>5, <1>7, <1>8, <1>9, <1>11, <1>12, <1>14, <1>15 DEF SchedInv
<1>17. QED BY <1>2, <1>16

(* The alarm pumps: it begins a restore, joins one, or has nothing to do. *)
LEMMA AlarmPumpsKeeps ==
  ASSUME SchedInv, AlarmPumps
  PROVE  [LedgerNext]_ledgerVars /\ SchedInv'
<1>1. UNCHANGED <<ledgerVars, user, late, sent, faults, discarded>>
  BY DEF AlarmPumps
<1>2. [LedgerNext]_ledgerVars /\ Quiet
  BY <1>1, StutterIsQuiet
<1>3. UserInv' /\ (UserLeaves' => UserLeaves) /\ late' \in BOOLEAN
  BY <1>1 DEF SchedInv, UserInv, UserLeaves, ledgerVars, OtherTypes
<1>4. alarm' \in {"idle", "checked", "pumping"}
  BY DEF AlarmPumps
<1>5. CASE BeginRestore
  BY <1>1, <1>3, <1>4, <1>5, BeginRestoreKeeps
<1>6. CASE UNCHANGED <<exec, current, settled, memory, flight>>
  <2>1. SchedInv'
    BY <1>1, <1>2, <1>3, <1>4, <1>6, LedgerOnlyKeeps
  <2>2. QED BY <1>2, <2>1
<1>7. QED BY <1>5, <1>6 DEF AlarmPumps

(* A page asks for the job. *)
LEMMA UserOpensKeeps ==
  ASSUME SchedInv, UserOpens
  PROVE  [LedgerNext]_ledgerVars /\ SchedInv'
<1>1. /\ BeginRestore /\ user' = [user EXCEPT !.pc = "opening"] /\ UserInv
      /\ UNCHANGED <<ledgerVars, alarm, late, sent, faults, discarded>>
  BY DEF UserOpens, SchedInv
<1>2. /\ user' \in User /\ user'.pc = "opening" /\ user'.generation = user.generation
      /\ user'.next = user.next /\ user'.ranges = user.ranges
  BY <1>1 DEF UserInv, User, UserPoint
<1>3. UserInv' /\ ~ UserLeaves'
  BY <1>1, <1>2 DEF UserInv, UserLeaves, ledgerVars
<1>4. alarm' \in {"idle", "checked", "pumping"}
  BY <1>1 DEF SchedInv, OtherTypes
<1>5. QED BY <1>1, <1>3, <1>4, BeginRestoreKeeps

(* The worker dies: only the durable job is left. *)
LEMMA CrashKeeps ==
  ASSUME SchedInv, Crash
  PROVE  [LedgerNext]_ledgerVars /\ SchedInv'
<1>1. /\ exec' = [x \in Tokens |-> Off] /\ current' = {} /\ settled' = {}
      /\ memory' = [g \in Generations |-> "none"]
      /\ flight' = NoFlight /\ alarm' = "idle" /\ user' = NoUser
      /\ UNCHANGED <<ledgerVars, late, sent, discarded>> /\ LedgerInv
  BY DEF Crash, SchedInv
<1>2. [LedgerNext]_ledgerVars /\ UNCHANGED job
  BY <1>1 DEF ledgerVars
<1>3. LedgerInv'
  BY <1>1, <1>2, StepInv
<1>4. ASSUME NEW y \in Tokens PROVE Slot(y, exec[y])' /\ exec'[y].pc = "off"
  <2>1. PICK l : l = Off
    OBVIOUS
  <2>2. exec'[y] = l /\ Slot(y, l)' /\ l.pc = "off"
    BY <1>1, <1>3, <2>1, OffSlotLater, OffSlot
  <2>3. QED BY <2>2, SlotNamed
<1>5. SlotsInv'
  <2>1. exec' \in [Tokens -> AnyLocal]
    <3>1. \A y \in Tokens : Off \in AnyLocal
      BY <1>1, OffSlot
    <3>2. QED BY <1>1, <3>1
  <2>2. QED BY <1>4, <2>1 DEF SlotsInv
<1>6. FlightInv' /\ SeedInv' /\ ~ ReadBlocked'
  BY <1>1, <1>3, NoFlightFits
<1>7. UserInv' /\ ~ UserLeaves'
  BY <1>1, <1>3, NoUserFits
<1>8. MemoryInv' /\ ~ Remembered'
  <2>1. job'.generation \in Generations
    BY <1>3, LedgerTypedLater
  <2>2. QED BY <1>1, <2>1 DEF MemoryInv, Remembered, MemoryState
<1>9. faults' \in 0..MaxFaults
  BY FaultTyped DEF Crash
<1>10. OtherTypes'
  BY <1>1, <1>9 DEF SchedInv, OtherTypes
<1>11. \A y \in Tokens : ~ Leaving(exec[y])' /\ ~ Orphan(y)'
  BY <1>4 DEF Leaving, Orphan
<1>12. Doomed' => job.status = "analysis_blocked"
  BY <1>2, <1>6, <1>7, <1>8, <1>11 DEF Doomed
<1>13. DoomInv'
  BY <1>1, <1>2, <1>12 DEF DoomInv, SchedInv, Doomed, Begun
<1>14. OneCurrent' /\ AnswersAreOurs' /\ OrphansAreReleased'
  BY <1>1, <1>11 DEF OneCurrent, AnswersAreOurs, OrphansAreReleased
<1>15. JobFits' /\ RequestsAreCharged'
  BY <1>1, <1>2 DEF SchedInv, JobFits, RequestsAreCharged
<1>16. SchedInv'
  BY <1>3, <1>5, <1>6, <1>7, <1>8, <1>10, <1>13, <1>14, <1>15 DEF SchedInv
<1>17. QED BY <1>2, <1>16

-----------------------------------------------------------------------------
(* Executions that start. *)

(* An execution starts in slot x: it has paid for nothing it does not know  *)
(* of, and it is alone in its run.                                          *)
LEMMA StartKeeps ==
  ASSUME SchedInv, UNCHANGED ledgerVars, NEW x \in Tokens, NEW l, Slot(x, l), l.pc = "setup",
         Become(x, l), current' = current \cup {x},
         \A y \in current \ {x} : exec[y].generation # l.generation,
         UserLeaves' \/ Remembered' \/ ReadBlocked' => Doomed,
         Doomed /\ Doomed' => Dead(l),
         FlightInv', SeedInv', UserInv', MemoryInv', OtherTypes',
         flight' = flight \/ flight.pc # "release",
         UNCHANGED <<late, sent>>
  PROVE  [LedgerNext]_ledgerVars /\ SchedInv'
<1>1. [LedgerNext]_ledgerVars /\ Quiet /\ UNCHANGED <<job, row, lease>> /\ LedgerInv
  BY StutterIsQuiet DEF ledgerVars, SchedInv
<1>2. LedgerInv' /\ current \subseteq Tokens /\ l \in AnyLocal
  BY <1>1, StepInv DEF SchedInv, OtherTypes, Slot
<1>3. Grows /\ (late => late') /\ \A y \in Tokens : KeepsPage(y) /\ Claimed(y)' = Claimed(y)
  BY <1>1, <1>2, QuietCharges, SameRows
<1>4. exec'[x] = l /\ \A y \in Tokens \ {x} : exec'[y] = exec[y]
  BY MovedSlots
<1>5. ASSUME NEW y \in Tokens
      PROVE  /\ Slot(y, exec[y])'
             /\ (y = x => Dead(l)) /\ (y # x => Dead(exec[y])) => Dead(exec[y])'
  <2>1. PICK k : k = IF y = x THEN l ELSE exec[y]
    OBVIOUS
  <2>2. exec'[y] = k /\ Slot(y, k) /\ k \in AnyLocal
    BY <1>2, <1>4, <2>1 DEF SchedInv, SlotsInv
  <2>3. Slot(y, k)' /\ (Dead(k) => Dead(k)')
    BY <1>1, <1>2, <1>3, <2>2, SlotKept, DeadStays
  <2>4. QED BY <2>1, <2>2, <2>3, SlotNamed, DeadNamed
<1>6. SlotsInv'
  <2>1. exec' \in [Tokens -> AnyLocal]
    BY <1>2 DEF SchedInv, SlotsInv, Become
  <2>2. QED BY <1>5, <2>1 DEF SlotsInv
<1>7. OneCurrent'
  <2>1. ASSUME NEW y \in current', NEW z \in current',
               exec'[y].generation = exec'[z].generation
        PROVE  y = z
    <3>1. y \in Tokens /\ z \in Tokens
      BY <1>2
    <3>2. CASE y # x /\ z # x
      BY <1>4, <2>1, <3>1, <3>2 DEF SchedInv, OneCurrent
    <3>3. CASE y = x /\ z # x
      BY <1>4, <2>1, <3>1, <3>3
    <3>4. CASE y # x /\ z = x
      BY <1>4, <2>1, <3>1, <3>4
    <3>5. QED BY <3>2, <3>3, <3>4
  <2>2. QED BY <2>1 DEF OneCurrent
<1>8. \A y \in Tokens : Leaving(exec[y])' => Leaving(exec[y])
  <2>1. ASSUME NEW y \in Tokens, exec'[y].pc = "advance", exec'[y].generation = job.generation
        PROVE  exec[y].pc = "advance" /\ exec[y].generation = job.generation
    BY <1>4, <2>1
  <2>2. QED BY <1>1, <2>1 DEF Leaving, Ours
<1>9. \A y \in Tokens : Orphan(y)' => Orphan(y)
  <2>1. ASSUME NEW y \in Tokens, exec'[y].pc \in {"attempt", "split", "checkpoint"}
        PROVE  exec'[y] = exec[y]
    BY <1>4, <2>1
  <2>2. QED BY <1>1, <1>3, <2>1 DEF Orphan, Ours
<1>10. Doomed' => Doomed
  <2>1. (\E z \in Tokens : Leaving(exec[z])') => Doomed
    BY <1>8 DEF Doomed
  <2>2. (\E y \in Tokens : Orphan(y)') => Doomed
    BY <1>9 DEF Doomed
  <2>3. job'.status = "analysis_blocked" => Doomed
    BY <1>1 DEF Doomed
  <2>4. Doomed' => \/ \E z \in Tokens : Leaving(exec[z])'
                   \/ UserLeaves' \/ Remembered' \/ ReadBlocked'
                   \/ job'.status = "analysis_blocked"
                   \/ \E y \in Tokens : Orphan(y)'
    BY DEF Doomed
  <2>5. QED BY <2>1, <2>2, <2>3, <2>4
<1>11. DoomInv'
  <2>1. SUFFICES ASSUME Doomed'
                 PROVE  Begun(job.usage)' /\ \A y \in current' : Dead(exec[y])'
    BY DEF DoomInv
  <2>2. Begun(job.usage) /\ Dead(l) /\ \A y \in current : Dead(exec[y])
    BY <1>10, <2>1 DEF SchedInv, DoomInv
  <2>3. Begun(job.usage)'
    BY <1>1, <1>2, <1>3, <2>2, BegunStays
  <2>4. \A y \in current' : y \in Tokens /\ (y # x => y \in current)
    BY <1>2
  <2>5. QED BY <1>5, <2>2, <2>3, <2>4
<1>12. OrphansAreReleased'
  BY <1>9 DEF SchedInv, OrphansAreReleased
<1>13. AnswersAreOurs'
  <2>1. ASSUME NEW y \in current', exec'[y].pc = "answer"
        PROVE  exec'[y].generation = job.generation
    <3>1. y # x /\ y \in Tokens /\ y \in current
      BY <1>2, <1>4, <2>1
    <3>2. QED BY <1>4, <2>1, <3>1 DEF SchedInv, AnswersAreOurs, Ours
  <2>2. QED BY <1>1, <2>1 DEF AnswersAreOurs, Ours
<1>14. JobFits' /\ RequestsAreCharged'
  BY <1>1 DEF SchedInv, JobFits, RequestsAreCharged
<1>15. SchedInv'
  BY <1>2, <1>6, <1>7, <1>11, <1>12, <1>13, <1>14 DEF SchedInv
<1>16. QED BY <1>1, <1>15

(* The first execution of a new generation has an empty budget. *)
LEMMA NewChild ==
  ASSUME SchedInv, NEW g \in Generations, g < job.generation, NEW s \in 0..ItemCount,
         NEW rs \in Seq(AnyRange), Chain(rs, s, MaxPositions), NEW x \in Tokens,
         NEW c, c = [Child(g, s, rs) EXCEPT !.pc = "setup"]
  PROVE  /\ Slot(x, c) /\ c.pc = "setup" /\ c.generation = g + 1 /\ g + 1 \in Generations
         /\ g + 1 <= job.generation
         /\ Child(g, s, rs).generation = g + 1
         /\ Begun(job.usage) => Dead(c)
<1>1. LedgerInv /\ job.generation \in Generations
      /\ job.usage.batches \in Nat /\ job.usage.attempts \in Nat /\ job.usage.consumed \in Nat
  BY JobFields DEF SchedInv
<1>2. g + 1 \in Generations /\ g + 1 <= job.generation
  BY <1>1, Bounds DEF Generations
<1>3. Off \in AnyLocal /\ Off.usage = NoUsage /\ Off.status = "analyzing"
  BY Bounds DEF Off, AnyLocal, Points, CallPoints, Generations, NoUsage, Usage, NoPage
<1>4. /\ c \in AnyLocal /\ c.pc = "setup" /\ c.generation = g + 1 /\ c.next = s
      /\ c.ranges = rs /\ c.usage = NoUsage /\ c.status = "analyzing"
      /\ Child(g, s, rs).generation = g + 1
  <2>1. "setup" \in Points
    BY DEF Points
  <2>2. QED BY <1>2, <1>3, <2>1 DEF Child, AnyLocal
<1>5. LocalInv(c)
  <2>1. Room(c.usage) = MaxPositions
    BY <1>4, Bounds DEF Room, NoUsage
  <2>2. QED BY <1>4, <2>1 DEF LocalInv, Holding, Counted
<1>6. KnowsJob(c)
  <2>1. Within(c)
    BY <1>1, <1>4 DEF Within, Paid, NoUsage
  <2>2. QED BY <1>2, <1>4, <2>1 DEF KnowsJob
<1>7. Begun(job.usage) => Dead(c)
  <2>1. Begun(job.usage) => Stale(c)
    BY <1>1, <1>4 DEF Begun, Stale, Paid, NoUsage
  <2>2. QED BY <1>4, <2>1 DEF Dead, Holding
<1>8. QED BY <1>2, <1>4, <1>5, <1>6, <1>7 DEF Slot, Holding

(* The memory of the new generation says that it analyses. *)
LEMMA ChildMemory ==
  ASSUME SchedInv, UNCHANGED ledgerVars, NEW h \in Generations, h <= job.generation,
         memory' = [memory EXCEPT ![h] = "analyzing"]
  PROVE  MemoryInv' /\ (Remembered' => Remembered)
<1>1. UNCHANGED job /\ MemoryInv /\ job.generation \in Generations
  BY JobFields DEF ledgerVars, SchedInv
<1>2. memory' \in [Generations -> MemoryState]
  BY <1>1 DEF MemoryInv, MemoryState
<1>3. \A e \in Generations : e > job.generation => memory'[e] = "none"
  <2>1. \A e \in Generations : e > job.generation => e # h
    BY <1>1, Bounds DEF Generations
  <2>2. QED BY <1>1, <2>1 DEF MemoryInv
<1>4. memory'[job.generation] = "analyzing" \/ memory'[job.generation] = memory[job.generation]
  BY <1>1 DEF MemoryInv
<1>5. QED BY <1>1, <1>2, <1>3, <1>4 DEF MemoryInv, Remembered

(* The parent's child takes over its slot, or runs already. *)
LEMMA SpawnKeeps ==
  ASSUME SchedInv, NEW x \in Tokens, Spawn(x)
  PROVE  [LedgerNext]_ledgerVars /\ SchedInv'
<1>1. PICK k : k = exec[x]
  OBVIOUS
<1>2. PICK g, s, rs : g = k.generation /\ s = k.next /\ rs = k.ranges
  OBVIOUS
<1>3. PICK child, c : child = Child(g, s, rs) /\ c = [Child(g, s, rs) EXCEPT !.pc = "setup"]
  OBVIOUS
<1>4. /\ k \in AnyLocal /\ LocalInv(k) /\ KnowsJob(k) /\ LedgerInv
      /\ k.pc = "spawn" /\ x \in current
      /\ UNCHANGED <<ledgerVars, flight, alarm, user, late, sent, faults, discarded>>
      /\ memory' = [memory EXCEPT ![child.generation] = "analyzing"]
      /\ settled' = settled \cup {g}
  BY <1>1, <1>2, <1>3, OwnSlot DEF Spawn, SchedInv
<1>5. /\ g \in Generations /\ g < job.generation /\ s \in 0..ItemCount /\ rs \in Seq(AnyRange)
      /\ s \in Nat /\ k.usage.consumed \in Nat /\ Room(k.usage) \in Int
  BY <1>2, <1>4, LocalFields DEF KnowsJob
<1>6. Chain(rs, s, MaxPositions)
  <2>1. Room(k.usage) <= MaxPositions /\ MaxPositions \in Int
    BY <1>5, Bounds DEF Room
  <2>2. Chain(rs, s, Room(k.usage))
    BY <1>2, <1>4 DEF LocalInv
  <2>3. QED BY <1>5, <2>1, <2>2, MoreRoom
<1>7. /\ Slot(x, c) /\ c.pc = "setup" /\ c.generation = child.generation
      /\ child.generation = g + 1 /\ g + 1 \in Generations /\ g + 1 <= job.generation
      /\ Begun(job.usage) => Dead(c)
  BY <1>3, <1>5, <1>6, NewChild
<1>8. MemoryInv' /\ (Remembered' => Remembered)
  BY <1>4, <1>7, ChildMemory
<1>9. /\ [LedgerNext]_ledgerVars /\ Quiet /\ LedgerInv' /\ UNCHANGED job
  BY <1>4, StutterIsQuiet, StepInv DEF ledgerVars
<1>10. /\ FlightInv' /\ SeedInv' /\ (ReadBlocked' => ReadBlocked)
       /\ UserInv' /\ (UserLeaves' => UserLeaves)
  BY <1>4, <1>9, QuietKeepers
<1>11. current \subseteq Tokens /\ settled' \subseteq Generations
  BY <1>4, <1>5 DEF SchedInv, OtherTypes
<1>12. CASE CanSchedule(child.generation)
  <2>1. Become(x, c) /\ current' = current \cup {x}
    <3>1. c = [child EXCEPT !.pc = "setup"]
      BY <1>3
    <3>2. Become(x, [child EXCEPT !.pc = "setup"]) /\ UNCHANGED current
      BY <1>2, <1>1, <1>3, <1>12 DEF Spawn
    <3>3. QED BY <1>4, <3>1, <3>2
  <2>2. \A y \in current \ {x} : exec[y].generation # c.generation
    BY <1>7, <1>12 DEF CanSchedule, Running
  <2>3. OtherTypes'
    BY <1>4, <1>11, <2>1 DEF SchedInv, OtherTypes
  <2>4. Doomed => Dead(c)
    BY <1>7 DEF SchedInv, DoomInv
  <2>5. QED
    BY <1>4, <1>7, <1>8, <1>10, <2>1, <2>2, <2>3, <2>4, StartKeeps DEF Doomed
<1>13. CASE ~ CanSchedule(child.generation)
  <2>1. Become(x, Off) /\ current' = current \ {x}
    BY <1>1, <1>2, <1>3, <1>13 DEF Spawn
  <2>2. Moves(x, Off)
    BY <1>4, <1>11, <2>1 DEF Moves
  <2>3. /\ Charges(x) /\ (Claimed(x)' # {} => Claimed(x) # {})
    BY <1>4, <1>9, QuietCharges
  <2>4. Slot(x, Off)' /\ Dead(Off)' /\ Off.pc = "off"
    BY <1>4, <1>9, OffSlotLater, OffSlot
  <2>5. ~ Dooms(x, Off)
    BY <1>8, <1>9, <2>4 DEF Dooms, Leaving
  <2>6. JobFits' /\ RequestsAreCharged' /\ sent' \in Nat /\ faults' \in 0..MaxFaults
    BY <1>4, <1>9 DEF SchedInv, JobFits, RequestsAreCharged, OtherTypes
  <2>7. SchedInv'
    BY <1>8, <1>9, <2>2, <2>3, <2>4, <2>5, <2>6, WorkerKeeps
  <2>8. QED BY <1>9, <2>7
<1>14. QED BY <1>12, <1>13

(* The user's command schedules the first execution of its generation, or   *)
(* finds it running already.                                                *)
LEMMA UserSchedulesKeeps ==
  ASSUME SchedInv, UserSchedules
  PROVE  [LedgerNext]_ledgerVars /\ SchedInv'
<1>1. PICK g, s, rs : g = user.generation /\ s = user.next /\ rs = user.ranges
  OBVIOUS
<1>2. PICK child, c : child = Child(g, s, rs) /\ c = [Child(g, s, rs) EXCEPT !.pc = "setup"]
  OBVIOUS
<1>3. /\ user.pc = "spawn" /\ user' = NoUser /\ LedgerInv /\ UserInv /\ user \in User
      /\ memory' = [memory EXCEPT ![g + 1] = "analyzing"]
      /\ Schedule(child)
      /\ UNCHANGED <<ledgerVars, settled, flight, alarm, late, sent, faults, discarded>>
  BY <1>1, <1>2 DEF UserSchedules, SchedInv, UserInv
<1>4. /\ g \in Generations /\ g < job.generation /\ s \in 0..ItemCount /\ rs \in Seq(AnyRange)
      /\ Chain(rs, s, MaxPositions)
  BY <1>1, <1>3 DEF UserInv, User
<1>5. \A x \in Tokens :
        /\ Slot(x, c) /\ c.pc = "setup" /\ c.generation = child.generation
        /\ child.generation = g + 1 /\ g + 1 \in Generations /\ g + 1 <= job.generation
        /\ Begun(job.usage) => Dead(c)
  BY <1>2, <1>4, NewChild
<1>6. g + 1 \in Generations /\ g + 1 <= job.generation
  BY <1>3, <1>4, JobFields, Bounds DEF Generations
<1>7. MemoryInv' /\ (Remembered' => Remembered)
  BY <1>3, <1>6, ChildMemory
<1>8. /\ [LedgerNext]_ledgerVars /\ Quiet /\ LedgerInv' /\ UNCHANGED job
  BY <1>3, StutterIsQuiet, StepInv DEF ledgerVars
<1>9. /\ FlightInv' /\ SeedInv' /\ (ReadBlocked' => ReadBlocked)
      /\ UserInv' /\ ~ UserLeaves'
      /\ UNCHANGED <<exec, current>> => \A y \in Tokens : Orphan(y)' => Orphan(y)
  BY <1>3, <1>8, QuietKeepers, NoUserFits
<1>10. CASE CanSchedule(child.generation)
  <2>1. PICK x \in Tokens : /\ Idle(x) /\ Become(x, [child EXCEPT !.pc = "setup"])
                            /\ current' = current \cup {x}
    BY <1>3, <1>10 DEF Schedule, Become
  <2>2. Become(x, c)
    <3>1. c = [child EXCEPT !.pc = "setup"]
      BY <1>2
    <3>2. QED BY <2>1, <3>1
  <2>3. \A y \in current \ {x} : exec[y].generation # c.generation
    BY <1>5, <1>10 DEF CanSchedule, Running
  <2>4. OtherTypes'
    BY <1>3, <2>1 DEF SchedInv, OtherTypes
  <2>5. Doomed => Dead(c)
    BY <1>5, <2>1 DEF SchedInv, DoomInv
  <2>6. Slot(x, c) /\ c.pc = "setup"
    BY <1>5, <2>1
  <2>7. QED
    BY <1>3, <1>7, <1>9, <2>1, <2>2, <2>3, <2>4, <2>5, <2>6, StartKeeps DEF Doomed
<1>11. CASE ~ CanSchedule(child.generation)
  <2>1. UNCHANGED <<exec, current>>
    BY <1>3, <1>11 DEF Schedule
  <2>2. OtherTypes'
    BY <1>3, <2>1 DEF SchedInv, OtherTypes
  <2>3. \A y \in Tokens : Orphan(y)' => flight'.pc = "release"
    BY <1>3, <1>9, <2>1 DEF SchedInv, OrphansAreReleased
  <2>4. SchedInv'
    BY <1>3, <1>7, <1>8, <1>9, <2>1, <2>2, <2>3, OthersKeep DEF Doomed
  <2>5. QED BY <1>8, <2>4
<1>12. QED BY <1>10, <1>11

(* A restore schedules what it has read, if that may still be analysed. *)
LEMMA RestoreScheduleKeeps ==
  ASSUME SchedInv, RestoreSchedule
  PROVE  [LedgerNext]_ledgerVars /\ SchedInv'
<1>1. PICK f, g, c : f = flight.seed /\ g = f.generation /\ c = [f EXCEPT !.pc = "setup"]
  OBVIOUS
<1>2. /\ flight.pc = "schedule" /\ user.pc # "advance" /\ flight' = NoFlight
      /\ LedgerInv /\ FlightInv /\ flight \in Flight
      /\ memory' = [memory EXCEPT ![g] = IF flight.status = "review" THEN @ ELSE flight.status]
      /\ settled' = settled \ {g}
      /\ UNCHANGED <<ledgerVars, alarm, user, late, sent, faults, discarded>>
  BY <1>1 DEF RestoreSchedule, SchedInv, FlightInv
<1>3. /\ f \in AnyLocal /\ f.pc = "off" /\ f.status = "analyzing" /\ LocalInv(f)
      /\ f.generation <= job.generation /\ f.attempt = 0 /\ (Ours(f) => Within(f))
      /\ g \in Generations /\ g \in Nat
      /\ flight.status \in {"analyzing", "analysis_blocked", "review"}
  BY <1>1, <1>2, LocalFields DEF FlightInv, Flight
<1>4. /\ [LedgerNext]_ledgerVars /\ Quiet /\ LedgerInv' /\ UNCHANGED job
      /\ job.generation \in Generations /\ job.generation \in Nat
  BY <1>2, StutterIsQuiet, StepInv, JobFields, Bounds DEF ledgerVars, Generations
<1>5. FlightInv' /\ SeedInv' /\ ~ ReadBlocked'
  BY <1>2, <1>4, NoFlightFits
<1>6. UserInv' /\ ~ UserLeaves'
  BY <1>2, <1>4, QuietKeepers DEF UserLeaves
<1>7. MemoryInv'
  <2>1. memory \in [Generations -> MemoryState]
        /\ \A e \in Generations : e > job.generation => memory[e] = "none"
    BY DEF SchedInv, MemoryInv
  <2>2. memory' \in [Generations -> MemoryState]
    BY <1>2, <1>3, <2>1 DEF MemoryState
  <2>3. \A e \in Generations : e > job.generation => e # g
    BY <1>1, <1>3, <1>4, Bounds DEF Generations
  <2>4. \A e \in Generations : e > job.generation => memory'[e] = "none"
    BY <1>2, <2>1, <2>3
  <2>5. QED BY <1>4, <2>2, <2>4 DEF MemoryInv
<1>8. /\ Remembered' => Doomed
      /\ flight.status = "analyzing" /\ g = job.generation => ~ Remembered'
  <2>1. memory \in [Generations -> MemoryState]
    BY DEF SchedInv, MemoryInv
  <2>2. CASE g # job.generation \/ flight.status = "review"
    <3>1. memory'[job.generation] = memory[job.generation]
      BY <1>2, <1>3, <1>4, <2>1, <2>2
    <3>2. QED BY <1>4, <2>2, <3>1 DEF Remembered, Doomed
  <2>3. CASE g = job.generation /\ flight.status = "analyzing"
    <3>1. memory'[job.generation] = "analyzing"
      BY <1>2, <1>3, <1>4, <2>1, <2>3
    <3>2. QED BY <1>4, <3>1 DEF Remembered
  <2>4. CASE g = job.generation /\ flight.status = "analysis_blocked"
    <3>1. ReadBlocked
      BY <1>1, <1>2, <2>4 DEF ReadBlocked, Ours
    <3>2. QED BY <2>4, <3>1 DEF Doomed
  <2>5. QED BY <1>3, <2>2, <2>3, <2>4
<1>9. CASE flight.status = "analyzing" /\ ~ Running(g)
  <2>1. PICK x \in Tokens : /\ Idle(x) /\ Become(x, [flight.seed EXCEPT !.pc = "setup"])
                            /\ current' = current \cup {x}
    BY <1>1, <1>9 DEF RestoreSchedule, Become
  <2>2. Become(x, c)
    <3>1. c = [flight.seed EXCEPT !.pc = "setup"]
      BY <1>1
    <3>2. QED BY <2>1, <3>1
  <2>3. /\ c \in AnyLocal /\ c.pc = "setup" /\ c.generation = g /\ c.next = f.next
        /\ c.ranges = f.ranges /\ c.usage = f.usage /\ c.status = "analyzing"
    BY <1>1, <1>3 DEF AnyLocal, Points
  <2>4. (Within(f) => Within(c)) /\ (Stale(f) => Stale(c)) /\ (Ours(c) <=> Ours(f))
    BY <1>1, <1>3, <2>3 DEF Within, Stale, Paid, Ours
  <2>5. Slot(x, c)
    <3>1. LocalInv(c)
      BY <1>3, <2>3 DEF LocalInv, Holding, Counted
    <3>2. KnowsJob(c)
      BY <1>1, <1>3, <2>3, <2>4 DEF KnowsJob
    <3>3. QED BY <2>3, <3>1, <3>2 DEF Slot, Holding
  <2>6. \A y \in current \ {x} : exec[y].generation # c.generation
    BY <1>9, <2>3 DEF Running
  <2>7. OtherTypes'
    BY <1>2, <2>1 DEF SchedInv, OtherTypes
  <2>8. ASSUME Doomed' PROVE Dead(c)
    <3>1. SUFFICES ASSUME Ours(f) PROVE Stale(c) \/ Exhausted(job.usage)
      BY <2>3, <2>4 DEF Dead, Holding
    <3>2. ~ Remembered'
      BY <1>1, <1>8, <1>9, <3>1 DEF Ours
    <3>3. CASE \E z \in Tokens : Leaving(exec[z])'
      <4>1. PICK z \in Tokens : exec'[z].pc = "advance" /\ exec'[z].generation = job.generation
        BY <1>4, <3>3 DEF Leaving, Ours
      <4>2. exec'[z] = exec[z]
        BY <2>2, <2>3, <4>1, MovedSlots
      <4>3. PICK k : k = exec[z]
        OBVIOUS
      <4>4. k.pc = "advance" /\ Ours(k) /\ LocalInv(k) /\ KnowsJob(k)
        BY <4>1, <4>2, <4>3, OwnSlot DEF Ours
      <4>5. QED BY <4>4 DEF LocalInv, KnowsJob
    <3>4. CASE job'.status = "analysis_blocked"
      <4>1. Stale(flight.seed)
        BY <1>1, <1>2, <1>4, <1>9, <3>1, <3>4 DEF SchedInv, SeedInv
      <4>2. QED BY <1>1, <2>4, <4>1
    <3>5. CASE \E y \in Tokens : Orphan(y)'
      <4>1. PICK y \in Tokens : Orphan(y)'
        BY <3>5
      <4>2. /\ exec'[y].pc \in {"attempt", "split", "checkpoint"} /\ y \notin current
            /\ exec'[y].generation = job.generation /\ Claimed(y) # {}
            /\ job.status = "analyzing"
        BY <1>2, <1>4, <2>1, <4>1, SameRows DEF Orphan, Ours, ledgerVars
      <4>3. exec'[y] = exec[y]
        BY <2>2, <2>3, <4>2, MovedSlots
      <4>4. Orphan(y)
        BY <4>2, <4>3 DEF Orphan, Ours
      <4>5. QED BY <1>2, <4>4 DEF SchedInv, OrphansAreReleased
    <3>6. QED BY <1>5, <1>6, <2>8, <3>2, <3>3, <3>4, <3>5 DEF Doomed
  <2>9. QED
    BY <1>2, <1>5, <1>6, <1>7, <1>8, <2>1, <2>2, <2>3, <2>5, <2>6, <2>7, <2>8, StartKeeps
<1>10. CASE ~ (flight.status = "analyzing" /\ ~ Running(g))
  <2>1. UNCHANGED <<exec, current>>
    BY <1>1, <1>10 DEF RestoreSchedule
  <2>2. OtherTypes'
    BY <1>2, <2>1 DEF SchedInv, OtherTypes
  <2>3. \A y \in Tokens : ~ Orphan(y)'
    BY <1>2, <1>4, <2>1, NoOrphans
  <2>4. SchedInv'
    BY <1>2, <1>4, <1>5, <1>6, <1>7, <1>8, <2>1, <2>2, <2>3, OthersKeep
  <2>5. QED BY <1>4, <2>4
<1>11. QED BY <1>9, <1>10

-----------------------------------------------------------------------------
(* The theorems. *)

(* Before anything happens. *)
LEMMA SchedInitInv == SchedInit => SchedInv
<1> SUFFICES ASSUME SchedInit PROVE SchedInv
  OBVIOUS
<1>1. LedgerInv
  BY InitInv DEF SchedInit
<1>2. /\ exec = [x \in Tokens |-> Off] /\ current = {} /\ settled = {}
      /\ memory = [g \in Generations |-> "none"] /\ flight = NoFlight /\ alarm = "idle"
      /\ user = NoUser /\ late = FALSE /\ sent = 0 /\ faults = 0 /\ discarded = FALSE
  BY DEF SchedInit
<1>3. /\ job.status # "analysis_blocked" /\ job.generation = 1 /\ job.next = 0
      /\ job.ranges = <<>> /\ job.usage = NoUsage
  BY DEF SchedInit, LedgerInit
<1>4. Off \in AnyLocal /\ Off.pc = "off" /\ Off.status = "analyzing" /\ Off.generation = 1
      /\ Off.ranges = <<>> /\ Off.attempt = 0 /\ Off.usage = NoUsage
  BY Bounds DEF Off, AnyLocal, Points, CallPoints, Generations, NoUsage, Usage, NoPage
<1>5. SlotsInv
  <2>1. exec \in [Tokens -> AnyLocal]
    BY <1>2, <1>4
  <2>2. \A y \in Tokens : exec[y] = Off /\ Slot(y, Off)
    BY <1>1, <1>2, OffSlot
  <2>3. QED BY <2>1, <2>2 DEF SlotsInv
<1>6. FlightInv
  <2>1. flight.pc = "none" /\ flight.seed = Off /\ flight \in Flight
    BY <1>2, <1>4 DEF NoFlight, Flight, FlightPoint
  <2>2. LocalInv(Off)
    BY <1>4, NoChain DEF LocalInv, Holding, Counted
  <2>3. Within(Off)
    BY <1>3, <1>4 DEF Within, Paid, NoUsage
  <2>4. QED BY <1>3, <1>4, <2>1, <2>2, <2>3 DEF FlightInv
<1>7. UserInv
  <2>1. /\ user.pc = "none" /\ user.generation = 1 /\ user.next = 0 /\ user.ranges = <<>>
        /\ user \in User
    BY <1>2, Bounds DEF NoUser, User, UserPoint, Generations
  <2>2. QED BY <1>3, <2>1, NoChain DEF UserInv
<1>8. MemoryInv /\ ~ Remembered
  <2>1. job.generation \in Generations
    BY <1>1, JobFields
  <2>2. QED BY <1>2, <2>1 DEF MemoryInv, Remembered, MemoryState
<1>9. JobFits
  BY <1>3, NoChain DEF JobFits
<1>10. OtherTypes
  <2>1. current \subseteq Tokens /\ settled \subseteq Generations
    BY <1>2
  <2>2. sent \in Nat /\ faults \in 0..MaxFaults
    BY <1>2, Bounds
  <2>3. alarm \in {"idle", "checked", "pumping"} /\ late \in BOOLEAN /\ discarded \in BOOLEAN
    BY <1>2
  <2>4. QED BY <2>1, <2>2, <2>3 DEF OtherTypes
<1>11. ~ Doomed
  BY <1>2, <1>3, <1>4, <1>8
     DEF Doomed, Leaving, UserLeaves, ReadBlocked, Orphan, NoFlight, NoUser
<1>12. OneCurrent /\ DoomInv /\ SeedInv /\ OrphansAreReleased /\ AnswersAreOurs
  BY <1>2, <1>3, <1>4, <1>11
     DEF OneCurrent, DoomInv, SeedInv, OrphansAreReleased, AnswersAreOurs, Orphan
<1>13. RequestsAreCharged
  BY <1>2, <1>3, Bounds DEF RequestsAreCharged, NoUsage
<1>14. QED BY <1>1, <1>5, <1>6, <1>7, <1>8, <1>9, <1>10, <1>12, <1>13 DEF SchedInv

(* Every step is a step of the ledger or none, and keeps the invariant. *)
LEMMA SchedNext ==
  ASSUME SchedInv, [Next]_vars
  PROVE  [LedgerNext]_ledgerVars /\ SchedInv'
<1>1. ASSUME NEW x \in Tokens, ExecutionStep(x)
      PROVE  [LedgerNext]_ledgerVars /\ SchedInv'
  <2>1. CASE Setup(x) \/ SetupFails(x) \/ Bind(x) \/ Plan(x) \/ Finish(x) \/ LoopAborted(x)
    BY <2>1, SetupKeeps, SetupFailsKeeps, BindKeeps, PlanKeeps, FinishKeeps, LoopAbortedKeeps
  <2>2. CASE Reserve(x) \/ ReserveNull(x) \/ LocalOnly(x) \/ PrepareAttempt(x) \/ Attempt(x)
    BY <2>2, ReserveKeeps, ReserveNullKeeps, LocalOnlyKeeps, PrepareAttemptKeeps, AttemptKeeps
  <2>3. CASE Answer(x) \/ PageAborted(x) \/ Split(x) \/ Checkpoint(x)
    BY <2>3, AnswerKeeps, PageAbortedKeeps, SplitKeeps, CheckpointKeeps
  <2>4. CASE CallFails(x) \/ Error(x) \/ TimerFires(x) \/ Release(x)
    BY <2>4, CallFailsKeeps, ErrorKeeps, TimerFiresKeeps, ReleaseKeeps
  <2>5. CASE Exhaust(x) \/ Advance(x) \/ Spawn(x)
    BY <2>5, ExhaustKeeps, AdvanceKeeps, SpawnKeeps
  <2>6. QED BY <1>1, <2>1, <2>2, <2>3, <2>4, <2>5 DEF ExecutionStep
<1>2. CASE RestoreStep
  BY <1>2, RestoreReleaseKeeps, RestoreReadJobKeeps, RestoreReadItemsKeeps,
     RestoreDiscardsKeeps, RestoreScheduleKeeps DEF RestoreStep
<1>3. CASE AlarmStep
  BY <1>3, AlarmFiresKeeps, AlarmPumpsKeeps, AlarmReturnsKeeps DEF AlarmStep
<1>4. CASE UserStep
  <2>1. CASE UserOpens \/ UserOpened \/ UserRetries \/ UserResumes
    BY <2>1, UserOpensKeeps, UserOpenedKeeps, UserRetriesKeeps, UserResumesKeeps
  <2>2. CASE UserContinues \/ UserAdvances \/ UserSchedules \/ UserStops
    BY <2>2, UserContinuesKeeps, UserAdvancesKeeps, UserSchedulesKeeps, UserStopsKeeps
  <2>3. QED BY <1>4, <2>1, <2>2 DEF UserStep
<1>5. CASE EnvironmentStep
  BY <1>5, CrashKeeps, DeadlinePassesKeeps, ExpiryKeeps DEF EnvironmentStep
<1>6. CASE UNCHANGED vars
  BY <1>6, StutterKeeps
<1>7. QED BY <1>1, <1>2, <1>3, <1>4, <1>5, <1>6 DEF Next

(* The inductive invariant: who may be where, and with which usage. *)
THEOREM SchedInvariant == Spec => []SchedInv
<1>1. SchedInv /\ [Next]_vars => SchedInv'
  BY SchedNext
<1>2. QED BY <1>1, SchedInitInv, PTL DEF Spec

(* Whatever the executions, restores, alarms and pages do, in whatever      *)
(* order, and whoever dies: the durable job sees nothing but the operations *)
(* of the ledger, presented as the ledger expects them, so everything that  *)
(* is proved of it holds under this scheduler.                              *)
THEOREM SchedulerImplementsLedger == Spec => LedgerSpec
<1>1. SchedInit => LedgerInit
  BY DEF SchedInit
<1>2. SchedInv /\ [Next]_vars => [LedgerNext]_ledgerVars
  BY SchedNext
<1>3. QED BY <1>1, <1>2, SchedInvariant, PTL DEF Spec, LedgerSpec

(* The user is not charged twice for the same repositories: at most one of  *)
(* the executions alive waits for an answer of the AI service.              *)
THEOREM RequestsAreSingle == Spec => []OnePaidRequest
<1>1. SchedInv => OnePaidRequest
  <2> SUFFICES ASSUME SchedInv PROVE OnePaidRequest
    OBVIOUS
  <2>1. PICK S : S = {x \in current : exec[x].pc = "answer"}
    OBVIOUS
  <2>2. ASSUME NEW x \in S, NEW y \in S PROVE x = y
    <3>1. x \in current /\ y \in current /\ exec[x].pc = "answer" /\ exec[y].pc = "answer"
      BY <2>1, <2>2
    <3>2. QED BY <3>1 DEF SchedInv, AnswersAreOurs, OneCurrent, Ours
  <2>3. Cardinality(S) <= 1
    <3>1. CASE S = {}
      BY <3>1, FS_EmptySet
    <3>2. CASE S # {}
      <4>1. PICK x \in S : TRUE
        BY <3>2
      <4>2. S = {x}
        BY <2>2, <4>1
      <4>3. QED BY <4>2, FS_Singleton
    <3>3. QED BY <3>1, <3>2
  <2>4. QED BY <2>1, <2>3 DEF OnePaidRequest
<1>2. QED BY <1>1, SchedInvariant, PTL

(* A request that leaves is charged to the durable budget of its            *)
(* generation, which bounds what is sent.                                   *)
THEOREM SentIsCharged == Spec => []RequestsAreCharged
<1>1. SchedInv => RequestsAreCharged
  BY DEF SchedInv
<1>2. QED BY <1>1, SchedInvariant, PTL

(* A page is planned whole: no budget cuts the head of the worklist. *)
THEOREM PlansAreHeads == Spec => []PlannedPageIsTheHead
<1>1. SchedInv => PlannedPageIsTheHead
  <2> SUFFICES ASSUME SchedInv, NEW x \in Tokens, exec[x].pc = "reserve"
               PROVE  IsHead(exec[x].ranges, exec[x].next, exec[x].page)
    BY DEF PlannedPageIsTheHead
  <2>1. LocalInv(exec[x])
    BY OwnSlot
  <2>2. QED BY <2>1 DEF LocalInv
<1>2. QED BY <1>1, SchedInvariant, PTL

(* An execution is moved only by its own steps. *)
LEMMA StepMovesOne ==
  ASSUME SchedInv, NEW y \in Tokens, ExecutionStep(y), NEW x \in Tokens, x # y
  PROVE  exec'[x] = exec[x]
<1>1. \E l : Become(y, l)
  <2>1. CASE Setup(y) \/ SetupFails(y) \/ Bind(y) \/ Plan(y) \/ Finish(y) \/ LoopAborted(y)
    BY <2>1 DEF Setup, SetupFails, Bind, Plan, Finish, LoopAborted, End, Goto, Become
  <2>2. CASE Reserve(y) \/ ReserveNull(y) \/ LocalOnly(y) \/ PrepareAttempt(y) \/ Attempt(y)
    BY <2>2 DEF Reserve, ReserveNull, LocalOnly, PrepareAttempt, Attempt, Resume, End, Become
  <2>3. CASE Answer(y) \/ PageAborted(y) \/ Split(y) \/ Checkpoint(y)
    BY <2>3 DEF Answer, PageAborted, Split, Checkpoint, Resume, End, Goto, Become
  <2>4. CASE CallFails(y) \/ Error(y) \/ TimerFires(y) \/ Release(y)
    BY <2>4 DEF CallFails, Error, TimerFires, Release, Throw, End, Goto, Become
  <2>5. CASE Exhaust(y) \/ Advance(y) \/ Spawn(y)
    BY <2>5 DEF Exhaust, Advance, Spawn, Resume, End, Goto, Become
  <2>6. QED BY <2>1, <2>2, <2>3, <2>4, <2>5 DEF ExecutionStep
<1>2. QED BY <1>1, MovedSlots

(* Only the charge of an attempt makes an execution wait for an answer. *)
LEMMA OnlyAttemptAsks ==
  ASSUME SchedInv, Next, NEW x \in Tokens, exec[x].pc = "attempt", exec'[x].pc = "answer"
  PROVE  Attempt(x)
<1>1. PICK k : k = exec[x]
  OBVIOUS
<1>2. k \in AnyLocal /\ k.pc = "attempt" /\ exec'[x] # k /\ exec'[x] # Off
  BY <1>1, OwnSlot DEF Off
<1>3. ASSUME NEW y \in Tokens, ExecutionStep(y) PROVE Attempt(x)
  <2>1. y = x
    BY <1>1, <1>2, <1>3, StepMovesOne
  <2>2. ~ Setup(x) /\ ~ Plan(x) /\ ~ Finish(x) /\ ~ LoopAborted(x) /\ ~ Bind(x)
    BY <1>1, <1>2 DEF Setup, Plan, Finish, LoopAborted, Bind
  <2>3. ~ SetupFails(x) /\ ~ Reserve(x) /\ ~ ReserveNull(x) /\ ~ LocalOnly(x)
        /\ ~ PrepareAttempt(x)
    BY <1>1, <1>2 DEF SetupFails, Reserve, ReserveNull, LocalOnly, PrepareAttempt
  <2>4. ~ Answer(x) /\ ~ PageAborted(x) /\ ~ Split(x) /\ ~ Checkpoint(x) /\ ~ Error(x)
    BY <1>1, <1>2 DEF Answer, PageAborted, Split, Checkpoint, Error
  <2>5. ~ Release(x) /\ ~ Exhaust(x) /\ ~ Advance(x) /\ ~ Spawn(x)
    BY <1>1, <1>2 DEF Release, Exhaust, Advance, Spawn
  <2>6. ~ CallFails(x)
    <3>1. SUFFICES ASSUME Throw(x) PROVE FALSE
      BY DEF CallFails
    <3>2. CASE x \in current
      <4>1. PICK l : /\ Become(x, l)
                     /\ l = [k EXCEPT !.pc = "release",
                                      !.then = IF k.timer = "fired" THEN "exhaust" ELSE "off"]
        BY <1>1, <3>1, <3>2 DEF Throw
      <4>2. l.pc = "release" /\ exec'[x] = l
        BY <1>2, <4>1, MovedSlots DEF AnyLocal
      <4>3. QED BY <4>2
    <3>3. CASE x \notin current
      <4>1. exec'[x] = Off
        BY <3>1, <3>3, MovedSlots DEF Throw, End
      <4>2. QED BY <1>2, <4>1
    <3>4. QED BY <3>2, <3>3
  <2>7. ~ TimerFires(x)
    <3>1. SUFFICES ASSUME TimerFires(x) PROVE FALSE
      OBVIOUS
    <3>2. PICK l : Become(x, l) /\ l = [k EXCEPT !.timer = "fired"]
      BY <1>1, <3>1 DEF TimerFires, Become
    <3>3. l.pc = k.pc /\ exec'[x] = l
      BY <1>2, <3>2, MovedSlots DEF AnyLocal
    <3>4. QED BY <1>2, <3>3
  <2>8. QED
    BY <1>3, <2>1, <2>2, <2>3, <2>4, <2>5, <2>6, <2>7 DEF ExecutionStep
<1>4. ~ BeginRestore
  BY <1>1, <1>2 DEF BeginRestore, RevokeRun
<1>5. ASSUME NEW y \in Tokens, NEW l, Become(y, l), l.pc = "setup" PROVE FALSE
  BY <1>1, <1>2, <1>5, MovedSlots
<1>6. ~ RestoreStep
  <2>1. ~ RestoreSchedule
    <3>1. SUFFICES ASSUME RestoreSchedule PROVE FALSE
      OBVIOUS
    <3>2. ~ UNCHANGED exec
      BY <1>1, <1>2
    <3>3. PICK y \in Tokens : Become(y, [flight.seed EXCEPT !.pc = "setup"])
      BY <3>1, <3>2 DEF RestoreSchedule, Become
    <3>4. [flight.seed EXCEPT !.pc = "setup"].pc = "setup"
      BY DEF SchedInv, FlightInv, Flight, AnyLocal
    <3>5. QED BY <1>5, <3>3, <3>4
  <2>2. QED
    BY <1>1, <1>2, <2>1
       DEF RestoreStep, RestoreRelease, RestoreReadJob, RestoreReadItems, RestoreDiscards
<1>7. ~ AlarmStep
  BY <1>1, <1>2, <1>4 DEF AlarmStep, AlarmFires, AlarmPumps, AlarmReturns
<1>8. ~ UserStep
  <2>1. ~ UserSchedules
    <3>1. SUFFICES ASSUME UserSchedules PROVE FALSE
      OBVIOUS
    <3>2. PICK c : c = Child(user.generation, user.next, user.ranges)
      OBVIOUS
    <3>3. ~ UNCHANGED exec
      BY <1>1, <1>2
    <3>4. PICK y \in Tokens : Become(y, [c EXCEPT !.pc = "setup"])
      BY <3>1, <3>2, <3>3 DEF UserSchedules, Schedule, Become
    <3>5. [c EXCEPT !.pc = "setup"].pc = "setup"
      BY <3>2 DEF Child, Off
    <3>6. QED BY <1>5, <3>4, <3>5
  <2>2. QED
    BY <1>1, <1>2, <1>4, <2>1
       DEF UserStep, UserOpens, UserOpened, UserRetries, UserResumes, UserContinues,
           UserAdvances, UserStops, schedVars
<1>9. ~ EnvironmentStep
  BY <1>1, <1>2 DEF EnvironmentStep, Crash, DeadlinePasses, Expiry
<1>10. QED BY <1>3, <1>6, <1>7, <1>8, <1>9 DEF Next

(* A request leaves only for the page its execution has leased, at the      *)
(* durable cursor, with the durable usage, even if the execution was seeded *)
(* from a checkpoint that has been overtaken since.                         *)
THEOREM RequestsAreCovered == Spec => RequestsCoverTheLease
<1> DEFINE A == \A x \in current : exec[x].pc = "attempt" /\ exec'[x].pc = "answer" =>
                  /\ Claimed(x) = Page(exec[x].next, exec[x].page)
                  /\ exec[x].next = job.next
                  /\ exec'[x].usage = job'.usage
<1>1. SchedInv /\ [Next]_vars => [A]_vars
  <2> SUFFICES ASSUME SchedInv, Next, NEW x \in current,
                      exec[x].pc = "attempt", exec'[x].pc = "answer"
               PROVE  /\ Claimed(x) = Page(exec[x].next, exec[x].page)
                      /\ exec[x].next = job.next
                      /\ exec'[x].usage = job'.usage
    OBVIOUS
  <2>1. x \in Tokens
    BY DEF SchedInv, OtherTypes
  <2>2. Attempt(x)
    BY <2>1, OnlyAttemptAsks
  <2>3. PICK k, l : k = exec[x] /\ l = Asking(k)
    OBVIOUS
  <2>4. /\ k \in AnyLocal /\ LocalInv(k) /\ LedgerInv /\ k.pc = "attempt"
        /\ ReserveAttempt(x, k.generation, k.usage) /\ Resume(x, l)
    BY <2>1, <2>2, <2>3, OwnSlot DEF Attempt, Asking, SchedInv
  <2>5. PICK e \in 1..ItemCount : HoldsPage(x, k.generation, e)
    BY <2>1, <2>4, AttemptEffect
  <2>6. e \in Nat
    BY Bounds
  <2>7. k.next = job.next /\ k.usage = job.usage /\ Claimed(x) = Page(k.next, k.page)
    BY <2>1, <2>3, <2>4, <2>5, <2>6, Holder DEF Holding
  <2>8. exec'[x] = l
    BY <2>1, <2>4, MovedSlots DEF Resume
  <2>9. l.usage = job'.usage
    <3>1. l.usage = [k.usage EXCEPT !.attempts = k.usage.attempts + 1]
      BY <2>3, <2>4, AskingFields
    <3>2. job'.usage = [job.usage EXCEPT !.attempts = job.usage.attempts + 1]
      BY <2>1, <2>4, AttemptEffect
    <3>3. QED BY <2>7, <3>1, <3>2
  <2>10. QED BY <2>3, <2>7, <2>8, <2>9
<1>2. QED BY <1>1, SchedInvariant, PTL DEF Spec, RequestsCoverTheLease

(* No transaction but a cancellation leaves a job cancelled. *)
LEMMA OnlyCancelCancels ==
  ASSUME job \in JobRecord, job.status # "cancelled", job'.status = "cancelled"
  PROVE  /\ ~ UNCHANGED job
         /\ \A t, g, u, s, e : ~ ReservePage(t, g, u, s, e) /\ ~ ReserveRefused(t, g, u, s, e)
         /\ \A t, g, u : ~ ReserveAttempt(t, g, u)
         /\ \A t, g, e : ~ SplitPage(t, g, e)
         /\ \A t, g, e, f, rs, u : ~ CheckpointPage(t, g, e, f, rs, u)
         /\ \A p, g : ~ BindProvider(p, g)
         /\ \A g, s, rs : ~ AdvanceRun(g, s, rs)
         /\ \A t : ~ ReleasePage(t) /\ ~ LeaseExpires(t)
         /\ ~ RetryFromFirstFailure /\ ~ RecoverExpiredLeases /\ ~ ReleaseJobLeases
         /\ ~ CompleteWithoutApply
<1>1. ASSUME NEW t, NEW g, NEW u, NEW s, NEW e
      PROVE  ~ ReservePage(t, g, u, s, e) /\ ~ ReserveRefused(t, g, u, s, e)
  BY DEF ReservePage, ReserveRefused, JobRecord
<1>2. ASSUME NEW t, NEW g, NEW u PROVE ~ ReserveAttempt(t, g, u)
  BY DEF ReserveAttempt, JobRecord
<1>3. ASSUME NEW t, NEW g, NEW e PROVE ~ SplitPage(t, g, e)
  BY DEF SplitPage, JobRecord
<1>4. ASSUME NEW t, NEW g, NEW e, NEW f, NEW rs, NEW u PROVE ~ CheckpointPage(t, g, e, f, rs, u)
  BY DEF CheckpointPage, JobRecord
<1>5. ASSUME NEW p, NEW g PROVE ~ BindProvider(p, g)
  BY DEF BindProvider, JobRecord
<1>6. ASSUME NEW g, NEW s, NEW rs PROVE ~ AdvanceRun(g, s, rs)
  BY DEF AdvanceRun, JobRecord
<1>7. ~ RetryFromFirstFailure
  BY DEF RetryFromFirstFailure, JobRecord
<1>8. ~ CompleteWithoutApply
  BY DEF CompleteWithoutApply, JobRecord
<1>9. ~ UNCHANGED job
  OBVIOUS
<1>10. /\ \A t : ~ ReleasePage(t) /\ ~ LeaseExpires(t)
       /\ ~ RecoverExpiredLeases /\ ~ ReleaseJobLeases
  BY <1>9 DEF ReleasePage, LeaseExpires, RecoverExpiredLeases, ReleaseJobLeases
<1>11. QED
  BY <1>1, <1>2, <1>3, <1>4, <1>5, <1>6, <1>7, <1>8, <1>9, <1>10

(* A job is cancelled by whoever sets up its execution, by the user or by a *)
(* restore.                                                                 *)
LEMMA WhoCancels ==
  ASSUME SchedInv, Next, job.status # "cancelled", job'.status = "cancelled",
         ~ UserStops, ~ RestoreDiscards
  PROVE  \E x \in Tokens : SetupFails(x) /\ x \in current /\ FreshJob(exec[x])
<1>1. job \in JobRecord
  BY DEF SchedInv, LedgerInv, LedgerTypeOK
<1>2. ~ UNCHANGED ledgerVars
  BY <1>1, OnlyCancelCancels DEF ledgerVars
<1>3. ASSUME NEW x \in Tokens, ExecutionStep(x)
      PROVE  SetupFails(x) /\ x \in current /\ FreshJob(exec[x])
  <2>1. ~ Setup(x) /\ ~ Plan(x) /\ ~ LoopAborted(x) /\ ~ LocalOnly(x) /\ ~ PrepareAttempt(x)
        /\ ~ Answer(x)
    BY <1>2 DEF Setup, Plan, LoopAborted, LocalOnly, PrepareAttempt, Answer
  <2>2. ~ PageAborted(x) /\ ~ CallFails(x) /\ ~ Error(x) /\ ~ TimerFires(x)
        /\ ~ Exhaust(x) /\ ~ Spawn(x)
    BY <1>2 DEF PageAborted, CallFails, Error, TimerFires, Exhaust, Spawn
  <2>3. ~ Finish(x) /\ ~ Bind(x) /\ ~ Reserve(x) /\ ~ ReserveNull(x) /\ ~ Attempt(x)
    BY <1>1, <1>2, OnlyCancelCancels DEF Finish, Bind, Reserve, ReserveNull, Attempt
  <2>4. ~ Split(x) /\ ~ Checkpoint(x) /\ ~ Release(x) /\ ~ Advance(x)
    BY <1>1, <1>2, OnlyCancelCancels DEF Split, Checkpoint, Release, Advance
  <2>5. SetupFails(x)
    BY <1>3, <2>1, <2>2, <2>3, <2>4 DEF ExecutionStep
  <2>6. QED BY <1>2, <2>5 DEF SetupFails
<1>4. ~ RestoreStep
  BY <1>1, <1>2, OnlyCancelCancels
     DEF RestoreStep, RestoreRelease, RestoreReadJob, RestoreReadItems, RestoreSchedule
<1>5. ~ AlarmStep
  BY <1>1, <1>2, OnlyCancelCancels DEF AlarmStep, AlarmFires, AlarmPumps, AlarmReturns
<1>6. ~ UserStep
  <2>1. ~ UserRetries /\ ~ UserAdvances
    BY <1>1, <1>2, OnlyCancelCancels DEF UserRetries, UserAdvances
  <2>2. QED
    BY <1>2, <2>1
       DEF UserStep, UserOpens, UserOpened, UserResumes, UserContinues, UserSchedules
<1>7. ~ EnvironmentStep
  BY <1>1, <1>2, OnlyCancelCancels DEF EnvironmentStep, Crash, DeadlinePasses, Expiry
<1>8. QED BY <1>3, <1>4, <1>5, <1>6, <1>7 DEF Next

(* A provider that is gone cancels only a job that has paid for nothing, and *)
(* whose one current execution is the one that was being set up.             *)
THEOREM FreshJobsOnly == Spec => OnlyFreshJobsAreCancelled
<1>1. SchedInv /\ [Next]_vars =>
        [job.status # "cancelled" /\ job'.status = "cancelled" =>
           \/ UserStops \/ RestoreDiscards
           \/ /\ RowsIn("settled") = {} /\ RowsIn("failed") = {}
              /\ \A x \in current : exec[x].pc # "answer"]_vars
  <2> SUFFICES ASSUME SchedInv, Next, job.status # "cancelled", job'.status = "cancelled",
                      ~ UserStops, ~ RestoreDiscards
               PROVE  /\ RowsIn("settled") = {} /\ RowsIn("failed") = {}
                      /\ \A y \in current : exec[y].pc # "answer"
    OBVIOUS
  <2>1. PICK x \in Tokens : SetupFails(x) /\ x \in current /\ FreshJob(exec[x])
    BY WhoCancels
  <2>2. RowsIn("settled") = {} /\ RowsIn("failed") = {}
    <3>1. job.next = 0 /\ LedgerFrontier
      BY <2>1 DEF FreshJob, SchedInv, LedgerInv
    <3>2. \A i \in Rows : row[i] \in {"pending", "leased"}
      BY <3>1, Bounds DEF LedgerFrontier, Rows
    <3>3. QED BY <3>2 DEF RowsIn
  <2>3. ASSUME NEW y \in current, exec[y].pc = "answer" PROVE FALSE
    <3>1. exec[y].generation = exec[x].generation
      BY <2>1, <2>3 DEF SchedInv, AnswersAreOurs, Ours, FreshJob
    <3>2. y = x
      BY <2>1, <3>1 DEF SchedInv, OneCurrent
    <3>3. QED BY <2>1, <2>3, <3>2 DEF SetupFails
  <2>4. QED BY <2>2, <2>3
<1>2. QED BY <1>1, SchedInvariant, PTL DEF Spec, OnlyFreshJobsAreCancelled

-----------------------------------------------------------------------------
(* Every copy of the worklist stays within the limits of the validators.    *)

(* Who has planned a page and not yet left it. *)
Paged == {"reserve"} \cup Holding

(* The copy has the shape, and a first page fits the page limit. *)
Fits(l) ==
  /\ Worklist(l.ranges, l.next)
  /\ l.pc \in Paged /\ l.ranges = <<>> => l.page - l.next <= PageMax

ShapeInv ==
  /\ JobShape
  /\ \A x \in Tokens : Fits(exec[x])
  /\ Worklist(flight.seed.ranges, flight.seed.next)
  /\ Worklist(user.ranges, user.next)

(* Whoever has no worklist fits, and so does whoever goes elsewhere with it. *)
LEMMA OffFits == Fits(Off)
BY EmptyIsWorklist DEF Fits, Off, Paged, Holding

(* The same worklist and page at another place. *)
Carries(k, l) ==
  /\ l.ranges = k.ranges /\ l.next = k.next
  /\ l.pc \in Paged => k.pc \in Paged /\ l.page = k.page

LEMMA CarriedFits ==
  ASSUME NEW k, NEW l, Fits(k), Carries(k, l)
  PROVE  Fits(l)
BY DEF Fits, Carries

(* The copies of the others do not change. *)
LEMMA CopiesFit ==
  ASSUME SchedInv, \A y \in Tokens : Fits(exec[y]),
         NEW x \in Tokens, NEW l, Become(x, l), Fits(l)
  PROVE  \A y \in Tokens : Fits(exec'[y])
BY MovedSlots

(* A window without a worklist is a page at most. *)
LEMMA WindowOfPage ==
  ASSUME NEW k \in AnyLocal, k.ranges = <<>>, k.next < ItemCount
  PROVE  Window(k) \in Int /\ Window(k) <= PageMax
<1>1. k.next \in Nat /\ k.usage.consumed \in Nat
  BY LocalFields
<1>2. PICK a, b, c : a = PageMax /\ b = MaxPositions - k.usage.consumed /\ c = ItemCount - k.next
  OBVIOUS
<1>3. a \in Int /\ b \in Int /\ c \in Int
  BY <1>1, <1>2, Bounds
<1>4. Window(k) = Least(a, Least(b, c))
  BY <1>2 DEF Window
<1>5. QED BY <1>2, <1>3, <1>4 DEF Least

(* An execution's own step that takes its copy along. *)
LEMMA CarryingSteps ==
  ASSUME SchedInv, NEW x \in Tokens, NEW k, k = exec[x], Fits(k),
         \/ Setup(x) \/ SetupFails(x) \/ Bind(x) \/ Finish(x) \/ LoopAborted(x)
         \/ Reserve(x) \/ ReserveNull(x) \/ LocalOnly(x) \/ PrepareAttempt(x) \/ Attempt(x)
         \/ Answer(x) \/ PageAborted(x) \/ CallFails(x) \/ Error(x) \/ TimerFires(x)
         \/ Release(x) \/ Exhaust(x) \/ Advance(x)
  PROVE  \E l : Become(x, l) /\ Fits(l)
<1>1. k \in AnyLocal
  BY OwnSlot
<1>2. ASSUME NEW l, Carries(k, l), Become(x, l) PROVE \E n : Become(x, n) /\ Fits(n)
  BY <1>2, CarriedFits
<1>3. ASSUME End(x) PROVE \E n : Become(x, n) /\ Fits(n)
  BY <1>3, OffFits DEF End
<1>4. ASSUME NEW p \in Points \ Paged, Goto(x, p) PROVE \E n : Become(x, n) /\ Fits(n)
  <2>1. PICK l : l = [k EXCEPT !.pc = p]
    OBVIOUS
  <2>2. Become(x, l)
    BY <1>4, <2>1 DEF Goto, Become
  <2>3. Carries(k, l)
    BY <1>1, <1>4, <2>1 DEF Carries, AnyLocal
  <2>4. QED BY <1>2, <2>2, <2>3
<1>5. ASSUME NEW l, Carries(k, l), Resume(x, l) PROVE \E n : Become(x, n) /\ Fits(n)
  BY <1>2, <1>3, <1>5 DEF Resume
<1>6. ASSUME Throw(x) PROVE \E n : Become(x, n) /\ Fits(n)
  <2>1. PICK t : t = IF k.timer = "fired" THEN "exhaust" ELSE "off"
    OBVIOUS
  <2>2. PICK l : l = [k EXCEPT !.pc = "release", !.then = t]
    OBVIOUS
  <2>3. Carries(k, l)
    BY <1>1, <2>2 DEF Carries, AnyLocal, Paged, Holding
  <2>4. x \in current => Become(x, l)
    BY <1>6, <2>1, <2>2 DEF Throw
  <2>5. x \notin current => End(x)
    BY <1>6 DEF Throw
  <2>6. QED BY <1>2, <1>3, <2>3, <2>4, <2>5
<1>7. CASE Setup(x) \/ SetupFails(x)
  <2>1. {"bind", "plan"} \subseteq Points \ Paged
    BY DEF Points, Paged, Holding
  <2>2. QED BY <1>3, <1>4, <1>7, <2>1 DEF Setup, SetupFails
<1>8. CASE Bind(x)
  <2>1. "plan" \in Points \ Paged
    BY DEF Points, Paged, Holding
  <2>2. QED BY <1>3, <1>4, <1>8, <2>1 DEF Bind
<1>9. CASE Finish(x) \/ LoopAborted(x) \/ ReserveNull(x)
  BY <1>3, <1>9 DEF Finish, LoopAborted, ReserveNull
<1>10. CASE Reserve(x)
  <2>1. PICK l : l = [k EXCEPT !.pc = "page", !.attempt = 0]
    OBVIOUS
  <2>2. k.pc = "reserve" /\ Resume(x, l)
    BY <1>10, <2>1 DEF Reserve
  <2>3. Carries(k, l)
    BY <1>1, <2>1, <2>2 DEF Carries, AnyLocal, Paged
  <2>4. QED BY <1>5, <2>2, <2>3
<1>11. CASE LocalOnly(x)
  <2>1. PICK l : l = [k EXCEPT !.pc = "checkpoint", !.failed = {}]
    OBVIOUS
  <2>2. k.pc = "page" /\ Become(x, l)
    BY <1>11, <2>1 DEF LocalOnly
  <2>3. Carries(k, l)
    BY <1>1, <2>1, <2>2 DEF Carries, AnyLocal, Paged, Holding
  <2>4. QED BY <1>2, <2>2, <2>3
<1>12. CASE PrepareAttempt(x)
  <2>1. PICK l, m : /\ l = [k EXCEPT !.pc = "release", !.then = "exhaust",
                                     !.status = "budget_exhausted"]
                    /\ m = [k EXCEPT !.pc = "attempt"]
    OBVIOUS
  <2>2. k.pc = "page" /\ (Become(x, l) \/ Become(x, m))
    BY <1>12, <2>1 DEF PrepareAttempt
  <2>3. Carries(k, l)
    BY <1>1, <2>1 DEF Carries, AnyLocal, Paged, Holding
  <2>4. Carries(k, m)
    BY <1>1, <2>1, <2>2 DEF Carries, AnyLocal, Paged, Holding
  <2>5. QED BY <1>2, <2>2, <2>3, <2>4
<1>13. CASE Attempt(x)
  <2>1. PICK l : l = Asking(k)
    OBVIOUS
  <2>2. k.pc = "attempt" /\ Resume(x, l) /\ LocalInv(k)
    BY <1>13, <2>1, OwnSlot DEF Attempt, Asking
  <2>3. Carries(k, l)
    BY <1>1, <2>1, <2>2, AskingFields DEF Carries, Paged, Holding
  <2>4. QED BY <1>5, <2>2, <2>3
<1>14. CASE Answer(x)
  <2>1. k.pc = "answer"
    BY <1>14, Zenon DEF Answer
  <2>2. ASSUME NEW f, Become(x, [k EXCEPT !.pc = "checkpoint", !.failed = f])
        PROVE  \E n : Become(x, n) /\ Fits(n)
    <3>1. PICK l : l = [k EXCEPT !.pc = "checkpoint", !.failed = f]
      OBVIOUS
    <3>2. Carries(k, l)
      BY <1>1, <2>1, <3>1 DEF Carries, AnyLocal, Paged, Holding
    <3>3. QED BY <1>2, <2>2, <3>1, <3>2
  <2>3. ASSUME NEW p \in Holding, Become(x, [k EXCEPT !.pc = p])
        PROVE  \E n : Become(x, n) /\ Fits(n)
    <3>1. PICK l : l = [k EXCEPT !.pc = p]
      OBVIOUS
    <3>2. Carries(k, l)
      BY <1>1, <2>1, <3>1 DEF Carries, AnyLocal, Paged, Holding
    <3>3. QED BY <1>2, <2>3, <3>1, <3>2
  <2>4. \/ Become(x, [k EXCEPT !.pc = "checkpoint", !.failed = {}])
        \/ Goto(x, "page")
        \/ Become(x, [k EXCEPT !.pc = "split"])
        \/ \E f : Become(x, [k EXCEPT !.pc = "checkpoint", !.failed = f])
    BY <1>14, Zenon DEF Answer
  <2>a. Goto(x, "page") => Become(x, [k EXCEPT !.pc = "page"])
    BY DEF Goto, Become
  <2>b. "page" \in Holding /\ "split" \in Holding
    BY DEF Holding
  <2>5. QED BY <2>2, <2>3, <2>4, <2>a, <2>b, Zenon
<1>15. CASE PageAborted(x)
  <2>1. PICK l : l = [k EXCEPT !.pc = "release", !.then = "exhaust"]
    OBVIOUS
  <2>2. Become(x, l)
    BY <1>15, <2>1 DEF PageAborted
  <2>3. Carries(k, l)
    BY <1>1, <2>1 DEF Carries, AnyLocal, Paged, Holding
  <2>4. QED BY <1>2, <2>2, <2>3
<1>16. CASE CallFails(x) \/ Error(x)
  BY <1>6, <1>16 DEF CallFails, Error
<1>17. CASE TimerFires(x)
  <2>1. PICK l : l = [k EXCEPT !.timer = "fired"]
    OBVIOUS
  <2>2. Become(x, l)
    BY <1>17, <2>1 DEF TimerFires, Become
  <2>3. Carries(k, l)
    BY <1>1, <2>1 DEF Carries, AnyLocal
  <2>4. QED BY <1>2, <2>2, <2>3
<1>18. CASE Release(x) \/ Exhaust(x)
  <2>1. {"exhaust", "advance"} \subseteq Points \ Paged
    BY DEF Points, Paged, Holding
  <2>2. QED BY <1>3, <1>4, <1>18, <2>1 DEF Release, Exhaust
<1>19. CASE Advance(x)
  <2>1. PICK l : l = [k EXCEPT !.pc = "spawn"]
    OBVIOUS
  <2>2. Resume(x, l) \/ End(x)
    BY <1>19, <2>1 DEF Advance
  <2>3. Carries(k, l)
    BY <1>1, <2>1 DEF Carries, AnyLocal, Paged, Holding
  <2>4. QED BY <1>3, <1>5, <2>2, <2>3
<1>20. QED
  BY <1>7, <1>8, <1>9, <1>10, <1>11, <1>12, <1>13, <1>14, <1>15, <1>16, <1>17, <1>18, <1>19

(* Going on after a call with a copy that fits. *)
LEMMA ResumedFits ==
  ASSUME NEW x, NEW l, Resume(x, l), Fits(l)
  PROVE  \E n : Become(x, n) /\ Fits(n)
BY OffFits DEF Resume, End

(* A page is planned: without a worklist it fits the page limit. *)
LEMMA PlanFits ==
  ASSUME SchedInv, NEW x \in Tokens, NEW k, k = exec[x], Fits(k), Plan(x)
  PROVE  \E n : Become(x, n) /\ Fits(n)
<1>1. k \in AnyLocal /\ k.next \in Nat /\ k.next < ItemCount
  BY OwnSlot, LocalFields DEF Plan
<1>2. PICK l, m : /\ l = [k EXCEPT !.pc = "exhaust", !.status = "budget_exhausted"]
                  /\ m = Planning(k)
  OBVIOUS
<1>3. Become(x, l) \/ Become(x, m)
  BY <1>2 DEF Plan, Planning
<1>4. Carries(k, l)
  BY <1>1, <1>2 DEF Carries, AnyLocal, Paged, Holding
<1>5. m.ranges = k.ranges /\ m.next = k.next /\ m.page = k.next + Window(k)
  BY <1>1, <1>2 DEF Planning, AnyLocal
<1>6. PICK w, n, e : w = Window(k) /\ n = k.next /\ e = n + w
  OBVIOUS
<1>7. Fits(m)
  <2>1. m.page = e /\ m.next = n /\ m.ranges = k.ranges
    BY <1>5, <1>6
  <2>2. k.ranges = <<>> => e - n <= PageMax
    <3>1. n \in Nat /\ PageMax \in Nat
      BY <1>1, <1>6, Bounds
    <3>2. k.ranges = <<>> => w \in Int /\ w <= PageMax
      BY <1>1, <1>6, WindowOfPage
    <3>3. QED BY <1>6, <3>1, <3>2
  <2>3. Worklist(k.ranges, k.next)
    BY DEF Fits
  <2>4. QED BY <1>6, <2>1, <2>2, <2>3, Zenon DEF Fits
<1>8. QED BY <1>3, <1>4, <1>7, CarriedFits

(* A page is split: it is the head of the worklist or a first page, so that *)
(* its halves are small enough for their depth.                             *)
LEMMA SplitFits ==
  ASSUME PageMax <= BatchMax, SchedInv, NEW x \in Tokens, NEW k, k = exec[x], Fits(k), Split(x)
  PROVE  \E n : Become(x, n) /\ Fits(n)
<1>1. k \in AnyLocal /\ LocalInv(k) /\ k.pc = "split"
  BY OwnSlot DEF Split
<1>2. k.next \in Nat /\ k.page \in Nat /\ k.page \in 0..ItemCount
  BY <1>1, LocalFields
<1>3. k.page - k.next > 1 /\ IsHead(k.ranges, k.next, k.page)
  BY <1>1 DEF LocalInv, Holding
<1>4. k.ranges = <<>> => k.page - k.next <= PageMax
  BY <1>1 DEF Fits, Paged, Holding
<1>5. Splittable(k.ranges, k.next, k.page)
  BY <1>2, <1>3, <1>4, Bounds DEF Splittable, IsHead, BatchMax
<1>6. PICK rs : rs = SplitHead(k.ranges, k.next, k.page)
  OBVIOUS
<1>7. Worklist(rs, k.next)
  BY <1>2, <1>5, <1>6, SplitIsWorklist DEF Fits
<1>8. PICK l : l = [k EXCEPT !.pc = "plan", !.page = NoPage, !.ranges = rs]
  OBVIOUS
<1>9. Resume(x, l)
  BY <1>6, <1>8 DEF Split
<1>10. l.pc = "plan" /\ l.ranges = rs /\ l.next = k.next
  BY <1>1, <1>8 DEF AnyLocal
<1>11. Fits(l)
  BY <1>7, <1>10 DEF Fits, Paged, Holding
<1>12. QED BY <1>9, <1>11, ResumedFits

(* A page is stored: what remains of the worklist begins behind it. *)
LEMMA CheckpointFits ==
  ASSUME SchedInv, NEW x \in Tokens, NEW k, k = exec[x], Fits(k), Checkpoint(x)
  PROVE  \E n : Become(x, n) /\ Fits(n)
<1>1. k \in AnyLocal /\ LocalInv(k) /\ k.pc = "checkpoint"
  BY OwnSlot DEF Checkpoint
<1>2. k.next \in Nat /\ k.page \in Nat /\ IsHead(k.ranges, k.next, k.page)
  BY <1>1, LocalFields DEF LocalInv, Holding
<1>3. Worklist(AfterPage(k), k.page)
  BY <1>2, RestAfterPage, EmptyIsWorklist DEF Fits, AfterPage
<1>4. PICK l, used : l = Storing(k) /\ used = Consumed(k.usage, k.page - k.next)
  OBVIOUS
<1>5. Resume(x, l)
  BY <1>4 DEF Checkpoint, Storing
<1>6. l.pc = "plan" /\ l.next = k.page /\ l.ranges = AfterPage(k)
  BY <1>1, <1>4, StoringFields
<1>7. Fits(l)
  BY <1>3, <1>6 DEF Fits, Paged, Holding
<1>8. QED BY <1>5, <1>7, ResumedFits

(* An execution starts with a worklist: that of its parent, of the command  *)
(* or of the job a restore has read.                                        *)
LEMMA ChildFits ==
  ASSUME NEW g, NEW s, NEW rs, Worklist(rs, s), NEW c, c = [Child(g, s, rs) EXCEPT !.pc = "setup"]
  PROVE  Fits(c)
<1>1. c.pc = "setup" /\ c.next = s /\ c.ranges = rs
  BY DEF Child, Off
<1>2. QED BY <1>1 DEF Fits, Paged, Holding

LEMMA SpawnFits ==
  ASSUME SchedInv, NEW x \in Tokens, NEW k, k = exec[x], Fits(k), Spawn(x)
  PROVE  \E n : Become(x, n) /\ Fits(n)
<1>1. PICK g, s, rs : g = k.generation /\ s = k.next /\ rs = k.ranges
  OBVIOUS
<1>2. PICK c : c = [Child(g, s, rs) EXCEPT !.pc = "setup"]
  OBVIOUS
<1>3. Become(x, c) \/ Become(x, Off)
  BY <1>1, <1>2 DEF Spawn
<1>4. Fits(c)
  BY <1>1, <1>2, ChildFits DEF Fits
<1>5. QED BY <1>3, <1>4, OffFits

(* An execution's own step leaves copies that fit. *)
LEMMA ExecutionsFit ==
  ASSUME PageMax <= BatchMax, SchedInv, \A y \in Tokens : Fits(exec[y]),
         NEW x \in Tokens, ExecutionStep(x)
  PROVE  \A y \in Tokens : Fits(exec'[y])
<1>1. PICK k : k = exec[x]
  OBVIOUS
<1>2. Fits(k)
  BY <1>1
<1>3. \E n : Become(x, n) /\ Fits(n)
  <2>1. CASE Plan(x) \/ Split(x) \/ Checkpoint(x) \/ Spawn(x)
    BY <1>1, <1>2, <2>1, PlanFits, SplitFits, CheckpointFits, SpawnFits
  <2>2. CASE ~ (Plan(x) \/ Split(x) \/ Checkpoint(x) \/ Spawn(x))
    BY <1>1, <1>2, <2>2, CarryingSteps DEF ExecutionStep
  <2>3. QED BY <2>1, <2>2
<1>4. QED BY <1>3, CopiesFit

(* An execution's own step does not touch the restore or the command. *)
LEMMA ExecutionsKeepOthers ==
  ASSUME NEW x, ExecutionStep(x)
  PROVE  UNCHANGED <<flight, user>>
<1>1. CASE Setup(x) \/ SetupFails(x) \/ Bind(x) \/ Plan(x) \/ Finish(x) \/ LoopAborted(x)
  BY <1>1 DEF Setup, SetupFails, Bind, Plan, Finish, LoopAborted
<1>2. CASE Reserve(x) \/ ReserveNull(x) \/ LocalOnly(x) \/ PrepareAttempt(x) \/ Attempt(x)
  BY <1>2 DEF Reserve, ReserveNull, LocalOnly, PrepareAttempt, Attempt
<1>3. CASE Answer(x) \/ PageAborted(x) \/ Split(x) \/ Checkpoint(x)
  <2>1. UNCHANGED <<ledgerVars, current, settled, memory, flight, alarm, user, late, sent,
                    faults, discarded>>
        \/ UNCHANGED <<memory, flight, alarm, user, late, sent, faults, discarded>>
    BY <1>3, Zenon DEF Answer, PageAborted, Split, Checkpoint
  <2>2. QED BY <2>1
<1>4. CASE CallFails(x) \/ Error(x) \/ TimerFires(x) \/ Release(x)
  BY <1>4 DEF CallFails, Error, TimerFires, Release
<1>5. CASE Exhaust(x) \/ Advance(x) \/ Spawn(x)
  BY <1>5 DEF Exhaust, Advance, Spawn
<1>6. QED BY <1>1, <1>2, <1>3, <1>4, <1>5 DEF ExecutionStep

(* A restore that begins revokes executions and has read nothing yet. *)
LEMMA BeginRestoreFits ==
  ASSUME ShapeInv, BeginRestore
  PROVE  (\A y \in Tokens : Fits(exec'[y])) /\ Worklist(flight'.seed.ranges, flight'.seed.next)
<1>1. \A y \in Tokens : exec'[y] = Off \/ exec'[y] = exec[y]
  BY DEF BeginRestore, RevokeRun
<1>2. flight'.seed = Off
  BY DEF BeginRestore, NoFlight
<1>3. QED BY <1>1, <1>2, OffFits DEF ShapeInv, Fits

LEMMA RestoresFit ==
  ASSUME SchedInv, ShapeInv, RestoreStep
  PROVE  /\ \A y \in Tokens : Fits(exec'[y])
         /\ Worklist(flight'.seed.ranges, flight'.seed.next)
         /\ UNCHANGED user
<1>1. CASE RestoreRelease \/ RestoreReadItems
  <2>1. flight'.seed = flight.seed /\ UNCHANGED <<exec, user>>
    <3>1. flight \in Flight
      BY DEF SchedInv, FlightInv
    <3>2. QED BY <1>1, <3>1 DEF RestoreRelease, RestoreReadItems, Flight
  <2>2. QED BY <2>1 DEF ShapeInv
<1>2. CASE RestoreReadJob
  <2>1. flight'.seed = [Off EXCEPT !.generation = job.generation, !.next = job.next,
                                   !.ranges = job.ranges, !.usage = job.usage]
        /\ UNCHANGED <<exec, user>>
    BY <1>2 DEF RestoreReadJob
  <2>2. flight'.seed.ranges = job.ranges /\ flight'.seed.next = job.next
    BY <2>1 DEF Off
  <2>3. QED BY <2>1, <2>2 DEF ShapeInv, JobShape
<1>3. CASE RestoreDiscards
  <2>1. flight'.seed = Off /\ UNCHANGED <<exec, user>>
    BY <1>3 DEF RestoreDiscards, NoFlight
  <2>2. QED BY <2>1, OffFits DEF ShapeInv, Fits
<1>4. CASE RestoreSchedule
  <2>1. flight'.seed = Off /\ UNCHANGED user
    BY <1>4 DEF RestoreSchedule, NoFlight
  <2>2. PICK f, c : f = flight.seed /\ c = [f EXCEPT !.pc = "setup"]
    OBVIOUS
  <2>3. UNCHANGED exec \/ \E x \in Tokens : Become(x, c)
    BY <1>4, <2>2 DEF RestoreSchedule, Become
  <2>4. f \in AnyLocal
    BY <2>2 DEF SchedInv, FlightInv, Flight
  <2>5. c.pc = "setup" /\ c.ranges = f.ranges /\ c.next = f.next
    BY <2>2, <2>4 DEF AnyLocal
  <2>6. Fits(c)
    BY <2>2, <2>5 DEF ShapeInv, Fits, Paged, Holding
  <2>7. \A y \in Tokens : Fits(exec'[y])
    BY <2>3, <2>6, CopiesFit DEF ShapeInv
  <2>8. QED BY <2>1, <2>7, OffFits DEF Fits
<1>5. QED BY <1>1, <1>2, <1>3, <1>4 DEF RestoreStep

LEMMA AlarmsFit ==
  ASSUME ShapeInv, AlarmStep
  PROVE  /\ \A y \in Tokens : Fits(exec'[y])
         /\ Worklist(flight'.seed.ranges, flight'.seed.next)
         /\ UNCHANGED user
<1>1. CASE BeginRestore
  BY <1>1, BeginRestoreFits DEF AlarmStep, AlarmFires, AlarmPumps, AlarmReturns
<1>2. CASE ~ BeginRestore
  <2>1. UNCHANGED <<exec, flight, user>>
    BY <1>2 DEF AlarmStep, AlarmFires, AlarmPumps, AlarmReturns
  <2>2. QED BY <2>1 DEF ShapeInv
<1>3. QED BY <1>1, <1>2

LEMMA UsersFit ==
  ASSUME SchedInv, ShapeInv, UserStep
  PROVE  /\ \A y \in Tokens : Fits(exec'[y])
         /\ Worklist(flight'.seed.ranges, flight'.seed.next)
         /\ Worklist(user'.ranges, user'.next)
<1>1. user \in User
  BY DEF SchedInv, UserInv
<1>2. ASSUME user' = NoUser PROVE Worklist(user'.ranges, user'.next)
  BY <1>2, EmptyIsWorklist DEF NoUser
<1>3. ASSUME NEW p, user' = [user EXCEPT !.pc = p] PROVE Worklist(user'.ranges, user'.next)
  <2>1. user'.ranges = user.ranges /\ user'.next = user.next
    BY <1>1, <1>3 DEF User
  <2>2. QED BY <2>1 DEF ShapeInv
<1>4. CASE UserOpens
  <2>1. BeginRestore /\ user' = [user EXCEPT !.pc = "opening"]
    BY <1>4 DEF UserOpens
  <2>2. QED BY <1>3, <2>1, BeginRestoreFits
<1>5. CASE UserOpened \/ UserResumes \/ UserAdvances
  <2>1. UNCHANGED <<exec, flight>>
        /\ (user' = NoUser \/ \E p : user' = [user EXCEPT !.pc = p])
    BY <1>5 DEF UserOpened, UserResumes, UserAdvances
  <2>2. QED BY <1>2, <1>3, <2>1 DEF ShapeInv
<1>6. CASE UserRetries
  <2>1. UNCHANGED <<exec, flight>> /\ user'.ranges = <<>>
    BY <1>6 DEF UserRetries
  <2>2. QED BY <2>1, EmptyIsWorklist DEF ShapeInv
<1>7. CASE UserContinues
  <2>1. UNCHANGED <<exec, flight>> /\ user'.ranges = job.ranges /\ user'.next = job.next
    BY <1>7 DEF UserContinues
  <2>2. QED BY <2>1 DEF ShapeInv, JobShape
<1>8. CASE UserStops
  BY <1>8 DEF UserStops, schedVars, ShapeInv
<1>9. CASE UserSchedules
  <2>1. UNCHANGED flight /\ user' = NoUser
    BY <1>9 DEF UserSchedules
  <2>2. PICK g, s, rs : g = user.generation /\ s = user.next /\ rs = user.ranges
    OBVIOUS
  <2>3. PICK c : c = [Child(g, s, rs) EXCEPT !.pc = "setup"]
    OBVIOUS
  <2>4. UNCHANGED exec \/ \E x \in Tokens : Become(x, c)
    BY <1>9, <2>2, <2>3 DEF UserSchedules, Schedule, Become
  <2>5. Fits(c)
    BY <2>2, <2>3, ChildFits DEF ShapeInv
  <2>6. \A y \in Tokens : Fits(exec'[y])
    BY <2>4, <2>5, CopiesFit DEF ShapeInv
  <2>7. QED BY <1>2, <2>1, <2>6 DEF ShapeInv
<1>10. QED BY <1>4, <1>5, <1>6, <1>7, <1>8, <1>9 DEF UserStep

(* Every step keeps every copy within the limits. *)
LEMMA ShapeNext ==
  ASSUME PageMax <= BatchMax, SchedInv, ShapeInv, [Next]_vars
  PROVE  ShapeInv'
<1>1. JobShape'
  BY SchedNext, ShapeStep DEF SchedInv, ShapeInv
<1>2. ASSUME UNCHANGED <<exec, flight, user>> PROVE ShapeInv'
  BY <1>1, <1>2 DEF ShapeInv, Fits
<1>3. ASSUME NEW x \in Tokens, ExecutionStep(x) PROVE ShapeInv'
  <2>1. UNCHANGED <<flight, user>>
    BY <1>3, ExecutionsKeepOthers
  <2>2. \A y \in Tokens : Fits(exec'[y])
    BY <1>3, ExecutionsFit DEF ShapeInv
  <2>3. QED BY <1>1, <2>1, <2>2 DEF ShapeInv, Fits
<1>4. CASE RestoreStep
  BY <1>1, <1>4, RestoresFit DEF ShapeInv, Fits
<1>5. CASE AlarmStep
  BY <1>1, <1>5, AlarmsFit DEF ShapeInv, Fits
<1>6. CASE UserStep
  BY <1>1, <1>6, UsersFit DEF ShapeInv, Fits
<1>7. CASE EnvironmentStep
  <2>1. CASE Crash
    <3>1. /\ \A y \in Tokens : exec'[y] = Off
          /\ flight'.seed = Off /\ user'.ranges = <<>>
      BY <2>1 DEF Crash, NoFlight, NoUser
    <3>2. QED BY <1>1, <3>1, OffFits, EmptyIsWorklist DEF ShapeInv, Fits
  <2>2. CASE ~ Crash
    BY <1>2, <1>7, <2>2 DEF EnvironmentStep, DeadlinePasses, Expiry
  <2>3. QED BY <2>1, <2>2
<1>8. CASE UNCHANGED vars
  BY <1>2, <1>8 DEF vars, schedVars
<1>9. QED BY <1>3, <1>4, <1>5, <1>6, <1>7, <1>8 DEF Next

(* With pages of at most 50 positions no copy of the job, of an execution,   *)
(* of a restore or of a command ever leaves its types: no split is deeper   *)
(* than the validators accept.                                              *)
THEOREM SchedTypeCorrect == ASSUME PageMax <= BatchMax PROVE Spec => []SchedTypeOK
<1>1. SchedInit => SchedInv /\ ShapeInv
  <2> SUFFICES ASSUME SchedInit PROVE ShapeInv
    BY SchedInitInv
  <2>2. /\ job.ranges = <<>> /\ flight.seed = Off /\ user.ranges = <<>>
        /\ \A x \in Tokens : exec[x] = Off
    BY DEF SchedInit, LedgerInit, NoFlight, NoUser
  <2>3. QED BY <2>2, OffFits, EmptyIsWorklist DEF ShapeInv, JobShape, Fits
<1>2. (SchedInv /\ ShapeInv) /\ [Next]_vars => (SchedInv /\ ShapeInv)'
  BY SchedNext, ShapeNext
<1>3. SchedInv /\ ShapeInv => SchedTypeOK
  <2> SUFFICES ASSUME SchedInv, ShapeInv PROVE SchedTypeOK
    OBVIOUS
  <2>1. ASSUME NEW l \in AnyLocal, Worklist(l.ranges, l.next) PROVE l \in Local
    BY <2>1 DEF AnyLocal, Local, Worklist
  <2>2. exec \in [Tokens -> Local]
    <3>1. exec \in [Tokens -> AnyLocal]
      BY DEF SchedInv, SlotsInv
    <3>2. \A x \in Tokens : exec[x] \in Local
      BY <2>1, <3>1 DEF ShapeInv, Fits
    <3>3. QED BY <3>1, <3>2
  <2>3. flight.pc \in FlightPoint /\ flight.seed \in Local
    BY <2>1 DEF SchedInv, FlightInv, Flight, ShapeInv
  <2>4. user.pc \in UserPoint /\ user.generation \in Generations
    BY DEF SchedInv, UserInv, User
  <2>5. LedgerTypeOK
    BY DEF SchedInv, LedgerInv
  <2>6. memory \in [Generations -> MemoryState]
    BY DEF SchedInv, MemoryInv
  <2>7. QED BY <2>2, <2>3, <2>4, <2>5, <2>6 DEF SchedTypeOK, SchedInv, OtherTypes
<1>4. QED BY <1>1, <1>2, <1>3, PTL DEF Spec

=============================================================================
