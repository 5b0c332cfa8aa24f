---------------------------- MODULE WatchInboxProofs ----------------------------
(***************************************************************************)
(* The Watch inbox for any accounts, threads, page sizes and bounds: cached *)
(* rows are those of the recorded account, a scan that completes keeps what *)
(* its boundary holds, and what was marked done stays done.  The argument   *)
(* rests on the serialized queue and on the validator: as long as the inbox *)
(* is unchanged since the first page, the pages read so far are a prefix of *)
(* what the boundary holds.                                                 *)
(***************************************************************************)
EXTENDS WatchInbox, TLAPS, FiniteSetTheorems

-----------------------------------------------------------------------------
(* Types.  Every version that anything remembers has been used. *)

Past == 0 .. version
Owners == Accounts \cup {NoAccount}
Statuses == {"pending", "scanning", "partial", "complete"}

RowRecord == [owner : Owners, at : Past, seen : BOOLEAN]
StateRecord == [account : Owners, status : Statuses, before : Past, page : PageNumbers,
                modified : Past, cooling : BOOLEAN]
FlightRecord == [pc : FlightPoints, auth : Auths, restarts : 0 .. RestartLimit,
                 threads : SUBSET Threads, marked : SUBSET Threads]
JobRecord == [by : Callers \cup {Nobody}, pc : JobPoints, head : BOOLEAN, before : Past,
              page : PageNumbers, pages : PageNumbers, got : [Threads -> Past],
              next : PageNumbers, modified : Past]

RemoteTypes ==
  /\ version \in Nat
  /\ inbox \in [Accounts -> [Threads -> Past]] /\ done \in [Accounts -> [Threads -> Past]]
  /\ modified \in [Accounts -> Past]

StoreTypes == cred \in Auths /\ db \in StateRecord /\ rows \in [Threads -> RowRecord]

WorkerTypes == flight \in [Callers -> FlightRecord] /\ job \in JobRecord

BoundTypes ==
  /\ used \in [switches : Nat, commands : 0 .. MaxUses]
  /\ faults \in 0 .. MaxFaults

-----------------------------------------------------------------------------
(* The queue. *)

Runners == {"refresh", "poll", "older", "disconnect", "clear"}

(* The job that runs is its caller's, and no mark is set beside it.          *)
OneJob ==
  /\ job # NoJob => /\ job.by \in Runners /\ job.pc # "none" /\ flight[job.by].pc = "job"
                    /\ ~ Marking
  /\ flight["listener"].pc \in {"idle", "reconcile"}

(* What is marked or read is the inbox of somebody.                          *)
MarkHasAccount == Marking => flight["done"].auth.login \in Accounts
JobHasAccount == job # NoJob /\ job.pc # "wipe" => Auth.login \in Accounts

(* A refresh starts over a few times.                                        *)
RestartsLeft ==
  /\ job.by = "refresh" => ~ job.head
  /\ job.by = "refresh" /\ job.pc = "restart" => flight["refresh"].restarts < RestartLimit

(* A batch has pages to read, a scan that starts reads the first, and the    *)
(* head of a converged inbox is no batch of a scan.                          *)
PagesLeft ==
  /\ job.pc = "start" => job.page = 1 /\ job.next = 1 /\ job.pages = 0
  /\ job.pc = "fetch" => job.pages < (IF job.head THEN 1 ELSE BatchPages)
  /\ job.pc \in {"validate", "commit"} => ~ job.head

QueueInv == OneJob /\ MarkHasAccount /\ JobHasAccount /\ RestartsLeft /\ PagesLeft

-----------------------------------------------------------------------------
(* The scan. *)

(* The threads on the pages before page p. *)
Reached(a, before, p) ==
  {t \in Window(a, before) : Cardinality(Newer(a, before, t)) < (p - 1) * PageSize}

Saw == {t \in Threads : rows[t].seen}
Got == {t \in Threads : job.got[t] # 0}

ScanHasPlace == Scanning(db) => db.account \in Accounts /\ db.page >= 1

(* A scan whose inbox has not changed since its first page has seen the      *)
(* pages before the one it stands at.                                        *)
ScanSaw ==
  Scanning(db) /\ modified[db.account] = db.modified =>
    Reached(db.account, db.before, db.page) \subseteq Saw

Reads == ~ job.head /\ job.pc \in {"fetch", "validate", "commit"}

JobStands ==
  Reads => /\ Stands /\ job.page >= 1
           /\ job.pc = "fetch" => job.next >= job.page
           /\ job.pc = "validate" => job.next = 0

ReadSoFar(a) == IF job.next = 0 THEN Window(a, job.before) ELSE Reached(a, job.before, job.next)

JobSaw ==
  Reads /\ (modified[Auth.login] = Validator \/ (job.pc = "commit" /\ job.next = 0)) =>
    ReadSoFar(Auth.login) \subseteq Saw \cup Got

ScanInv == ScanHasPlace /\ ScanSaw /\ JobStands /\ JobSaw

-----------------------------------------------------------------------------
(* What was marked done. *)

NewsIsNewer ==
  \A a \in Accounts : \A t \in Threads : inbox[a][t] # 0 => inbox[a][t] > done[a][t]
ReadIsNewer == \A t \in Got : job.got[t] > done[Auth.login][t]

WatchInv ==
  /\ RemoteTypes /\ StoreTypes /\ WorkerTypes /\ BoundTypes
  /\ QueueInv /\ RowsHaveTheirAccount /\ ScanInv
  /\ NewsIsNewer /\ ReadIsNewer

-----------------------------------------------------------------------------
(* The operators. *)

(* There are finitely many threads and pages. *)
LEMMA Bounds ==
  /\ Cardinality(Threads) \in Nat /\ Cardinality(Threads) >= 1
  /\ PageSize \in Nat /\ PageSize >= 1 /\ BatchPages \in Nat /\ BatchPages >= 1
  /\ RestartLimit \in Nat /\ MaxVersion \in Nat /\ MaxVersion >= 2 /\ MaxUses \in Nat
  /\ MaxFaults \in Nat
  /\ 0 \in PageNumbers /\ 1 \in PageNumbers /\ PageNumbers \subseteq Nat
  /\ 0 .. BatchPages \subseteq PageNumbers
<1>1. Cardinality(Threads) \in Nat
  BY WatchAssumption, FS_CardinalityType DEF WatchAssumption
<1>2. Cardinality(Threads) # 0
  BY WatchAssumption, FS_EmptySet DEF WatchAssumption
<1>3. /\ PageSize \in Nat /\ PageSize >= 1 /\ BatchPages \in Nat /\ BatchPages >= 1
      /\ RestartLimit \in Nat /\ MaxVersion \in Nat /\ MaxVersion >= 2 /\ MaxUses \in Nat
      /\ MaxFaults \in Nat
  BY WatchAssumption DEF WatchAssumption
<1>4. QED BY <1>1, <1>2, <1>3 DEF PageNumbers

(* A window is finite, and its newer threads are fewer than its threads. *)
LEMMA Ranks ==
  ASSUME NEW a, NEW before
  PROVE  /\ Cardinality(Window(a, before)) \in Nat
         /\ Cardinality(Window(a, before)) <= Cardinality(Threads)
         /\ \A t \in Window(a, before) :
              /\ Cardinality(Newer(a, before, t)) \in Nat
              /\ ~ (inbox[a][t] > inbox[a][t]) =>
                   Cardinality(Newer(a, before, t)) < Cardinality(Window(a, before))
<1>1. IsFiniteSet(Threads) /\ Window(a, before) \in SUBSET Threads
  BY WatchAssumption DEF WatchAssumption, Window
<1>2. /\ IsFiniteSet(Window(a, before))
      /\ Cardinality(Window(a, before)) <= Cardinality(Threads)
  BY <1>1, FS_Subset
<1>3. Cardinality(Window(a, before)) \in Nat
  BY <1>2, FS_CardinalityType
<1>4. ASSUME NEW t \in Window(a, before)
      PROVE  /\ Cardinality(Newer(a, before, t)) \in Nat
             /\ ~ (inbox[a][t] > inbox[a][t]) =>
                  Cardinality(Newer(a, before, t)) < Cardinality(Window(a, before))
  <2>1. Newer(a, before, t) \in SUBSET Window(a, before)
    BY DEF Newer
  <2>2. /\ IsFiniteSet(Newer(a, before, t))
        /\ Cardinality(Newer(a, before, t)) <= Cardinality(Window(a, before))
        /\ Cardinality(Window(a, before)) = Cardinality(Newer(a, before, t)) =>
             Window(a, before) = Newer(a, before, t)
    BY <1>2, <2>1, FS_Subset
  <2>3. Cardinality(Newer(a, before, t)) \in Nat
    BY <2>2, FS_CardinalityType
  <2>4. ~ (inbox[a][t] > inbox[a][t]) => Window(a, before) # Newer(a, before, t)
    BY DEF Newer
  <2>5. QED BY <1>3, <2>2, <2>3, <2>4
<1>5. QED BY <1>2, <1>3, <1>4

(* Nothing comes before the first page. *)
LEMMA FirstPage == \A a, before : Reached(a, before, 1) = {}
<1>1. SUFFICES ASSUME NEW a, NEW before, NEW t \in Window(a, before)
               PROVE  ~ (Cardinality(Newer(a, before, t)) < (1 - 1) * PageSize)
  BY DEF Reached
<1>2. (1 - 1) * PageSize = 0
  BY Bounds
<1>3. Cardinality(Newer(a, before, t)) \in Nat
  BY Ranks
<1>4. QED BY <1>2, <1>3

(* A page more is reached by reading it, and the last one reaches the end. *)
LEMMA NextPage ==
  ASSUME RemoteTypes, NEW a \in Accounts, NEW before \in Nat, NEW p \in Nat, p >= 1
  PROVE  /\ Reached(a, before, p + 1) \subseteq Reached(a, before, p) \cup Page(a, before, p)
         /\ ~ HasNext(a, before, p) =>
              Window(a, before) \subseteq Reached(a, before, p) \cup Page(a, before, p)
         /\ HasNext(a, before, p) => p < Cardinality(Threads)
<1> DEFINE size == Cardinality(Window(a, before))
           rank(t) == Cardinality(Newer(a, before, t))
           first == (p - 1) * PageSize
           second == (p + 1 - 1) * PageSize
           last == p * PageSize
<1>1. PageSize \in Nat /\ PageSize >= 1
  BY Bounds
<1>2. /\ first \in Nat /\ last = first + PageSize /\ last >= p
      /\ second = first + PageSize
  BY <1>1
<1>3. size \in Nat /\ size <= Cardinality(Threads) /\ Cardinality(Threads) \in Nat
  BY Ranks, Bounds
<1>4. \A t \in Window(a, before) : rank(t) \in Nat /\ rank(t) < size
  <2>1. \A t \in Threads : inbox[a][t] \in Nat
    BY DEF RemoteTypes, Past
  <2>2. \A t \in Window(a, before) : ~ (inbox[a][t] > inbox[a][t])
    BY <2>1 DEF Window
  <2>3. QED BY <2>2, Ranks
<1>5. \A t \in Window(a, before) :
        /\ t \in Reached(a, before, p) <=> rank(t) < first
        /\ t \in Reached(a, before, p + 1) <=> rank(t) < first + PageSize
        /\ t \in Page(a, before, p) <=> rank(t) \in first .. first + PageSize - 1
  <2>1. SUFFICES ASSUME NEW t \in Window(a, before)
                 PROVE  /\ t \in Reached(a, before, p) <=> rank(t) < first
                        /\ t \in Reached(a, before, p + 1) <=> rank(t) < first + PageSize
                        /\ t \in Page(a, before, p) <=> rank(t) \in first .. first + PageSize - 1
    OBVIOUS
  <2>2. t \in Reached(a, before, p) <=> rank(t) < first
    BY DEF Reached
  <2>3. t \in Reached(a, before, p + 1) <=> rank(t) < second
    BY DEF Reached
  <2>4. t \in Page(a, before, p) <=> rank(t) \in first .. last - 1
    BY DEF Page
  <2> HIDE DEF first, second, last, rank
  <2>5. QED BY <1>1, <1>2, <1>4, <2>2, <2>3, <2>4
<1>6. HasNext(a, before, p) <=> size > first + PageSize
  <2>1. HasNext(a, before, p) <=> size > last
    BY DEF HasNext
  <2> HIDE DEF first, second, last, size
  <2>2. QED BY <1>2, <2>1
<1>7. \A t \in Window(a, before) : rank(t) < first + PageSize =>
        t \in Reached(a, before, p) \cup Page(a, before, p)
  <2> HIDE DEF first, second, last, rank
  <2>1. QED BY <1>1, <1>2, <1>4, <1>5
<1>8. Reached(a, before, p + 1) \subseteq Window(a, before)
  BY DEF Reached
<1>9. ASSUME ~ HasNext(a, before, p)
      PROVE  Window(a, before) \subseteq Reached(a, before, p) \cup Page(a, before, p)
  <2> HIDE DEF first, second, last, rank, size
  <2>1. \A t \in Window(a, before) : rank(t) < first + PageSize
    BY <1>1, <1>2, <1>3, <1>4, <1>6, <1>9
  <2>2. QED BY <1>7, <2>1
<1>10. ASSUME HasNext(a, before, p) PROVE p < Cardinality(Threads)
  <2> HIDE DEF first, second, last, size
  <2>1. QED BY <1>1, <1>2, <1>3, <1>6, <1>10
<1>11. QED BY <1>5, <1>7, <1>8, <1>9, <1>10

-----------------------------------------------------------------------------
(* The shapes of the steps. *)

(* Records are typed alike while no version is used. *)
LEMMA SamePast ==
  ASSUME version' = version
  PROVE  /\ Past' = Past /\ RowRecord' = RowRecord /\ StateRecord' = StateRecord
         /\ JobRecord' = JobRecord
BY DEF Past, RowRecord, StateRecord, JobRecord

(* What nobody and an idle caller hold. *)
LEMMA Empties ==
  ASSUME RemoteTypes
  PROVE  /\ NoJob \in JobRecord /\ NoJob.by = Nobody /\ NoJob.pc = "none"
         /\ \A t \in Threads : NoJob.got[t] = 0
         /\ Idle \in FlightRecord /\ Idle.pc = "idle"
         /\ NoRows \in [Threads -> RowRecord] /\ Present(NoRows) = {}
         /\ NoFetch \in [Threads -> Past]
<1>1. 0 \in Past /\ 0 \in PageNumbers /\ 0 \in 0 .. RestartLimit
  BY Bounds DEF RemoteTypes, Past
<1>2. NoFetch \in [Threads -> Past] /\ \A t \in Threads : NoFetch[t] = 0
  BY <1>1 DEF NoFetch
<1>3. NoJob \in JobRecord /\ NoJob.by = Nobody /\ NoJob.pc = "none" /\ NoJob.got = NoFetch
  BY <1>1, <1>2 DEF NoJob, JobRecord, JobPoints
<1>4. Idle \in FlightRecord /\ Idle.pc = "idle"
  <2>1. SignedOut \in Auths
    BY WatchAssumption DEF WatchAssumption, SignedOut, Auths
  <2>2. QED BY <1>1, <2>1 DEF Idle, FlightRecord, FlightPoints
<1>5. NoRow \in RowRecord
  BY <1>1 DEF NoRow, RowRecord, Owners
<1>6. NoRows \in [Threads -> RowRecord] /\ Present(NoRows) = {}
  BY <1>5 DEF NoRows, Present
<1>7. QED BY <1>2, <1>3, <1>4, <1>6

(* A caller moves on beside the job that runs. *)
LEMMA FlightStep ==
  ASSUME WatchInv, NEW c \in Callers, NEW f \in FlightRecord, flight' = [flight EXCEPT ![c] = f],
         UNCHANGED <<inbox, version, modified, db, rows, job, done>>,
         cred' \in Auths, BoundTypes',
         job # NoJob => c # job.by,
         c = "done" /\ f.pc \in {"delete", "apply"} => job = NoJob /\ f.auth.login \in Accounts,
         c = "listener" => f.pc \in {"idle", "reconcile"}
  PROVE  WatchInv'
<1>1. /\ Past' = Past /\ RowRecord' = RowRecord /\ StateRecord' = StateRecord
      /\ JobRecord' = JobRecord
  BY SamePast
<1>2. flight \in [Callers -> FlightRecord] /\ job \in JobRecord /\ RemoteTypes
  BY DEF WatchInv, WorkerTypes
<1>3. flight'[c] = f /\ \A e \in Callers : e # c => flight'[e] = flight[e]
  BY <1>2
<1>4. RemoteTypes' /\ StoreTypes' /\ WorkerTypes'
  BY <1>1, <1>2 DEF WatchInv, RemoteTypes, StoreTypes, WorkerTypes
<1>5. MarkHasAccount'
  BY <1>3 DEF WatchInv, QueueInv, MarkHasAccount, Marking
<1>6. CASE job = NoJob
  <2>1. /\ job.by = Nobody /\ job.pc = "none" /\ \A t \in Threads : job.got[t] = 0
        /\ job' = NoJob /\ job'.by = Nobody /\ job'.pc = "none"
        /\ \A t \in Threads : job'.got[t] = 0
    BY <1>2, <1>6, Empties
  <2>2. QueueInv'
    <3>1. OneJob'
      BY <1>3, <2>1 DEF WatchInv, QueueInv, OneJob, Callers, Commands
    <3>2. JobHasAccount' /\ RestartsLeft' /\ PagesLeft'
      BY <2>1 DEF JobHasAccount, RestartsLeft, PagesLeft, Nobody
    <3>3. QED BY <1>5, <3>1, <3>2 DEF QueueInv
  <2>3. ScanInv'
    <3>1. JobStands' /\ JobSaw'
      BY <2>1 DEF JobStands, JobSaw, Reads
    <3>2. QED
      BY <3>1
      DEF WatchInv, ScanInv, ScanHasPlace, ScanSaw, Scanning, Reached, Window, Newer, Saw
  <2>4. ReadIsNewer'
    BY <2>1 DEF ReadIsNewer, Got
  <2>5. QED BY <1>4, <2>2, <2>3, <2>4 DEF WatchInv, RowsHaveTheirAccount, NewsIsNewer, Present
<1>7. CASE job # NoJob
  <2>1. /\ job.by \in Callers /\ flight'[job.by] = flight[job.by] /\ Auth' = Auth
    BY <1>3, <1>7 DEF WatchInv, QueueInv, OneJob, Runners, Callers, Commands, Auth
  <2>2. QueueInv'
    <3>1. OneJob'
      BY <1>3, <1>7, <2>1 DEF WatchInv, QueueInv, OneJob, Callers, Commands, Marking
    <3>2. JobHasAccount' /\ RestartsLeft' /\ PagesLeft'
      BY <2>1 DEF WatchInv, QueueInv, JobHasAccount, RestartsLeft, PagesLeft
    <3>3. QED BY <1>5, <3>1, <3>2 DEF QueueInv
  <2>3. ScanInv'
    BY <2>1
    DEF WatchInv, ScanInv, ScanHasPlace, ScanSaw, Scanning, JobStands, JobSaw, Reads, Stands,
        Validator, ReadSoFar, Reached, Window, Newer, Saw, Got
  <2>4. ReadIsNewer'
    BY <2>1 DEF WatchInv, ReadIsNewer, Got
  <2>5. QED BY <1>4, <2>2, <2>3, <2>4 DEF WatchInv, RowsHaveTheirAccount, NewsIsNewer, Present
<1>8. QED BY <1>6, <1>7

(* The stores' own part of the invariant. *)
StoreInv == RowsHaveTheirAccount /\ ScanHasPlace /\ ScanSaw

(* A job ends, and its caller moves on. *)
LEMMA EndStep ==
  ASSUME WatchInv, job # NoJob, job' = NoJob, NEW f \in FlightRecord,
         flight' = [flight EXCEPT ![job.by] = f],
         UNCHANGED <<inbox, version, modified, cred, done, used>>, faults' \in 0 .. MaxFaults,
         db' \in StateRecord, rows' \in [Threads -> RowRecord], StoreInv'
  PROVE  WatchInv'
<1>1. /\ Past' = Past /\ RowRecord' = RowRecord /\ StateRecord' = StateRecord
      /\ JobRecord' = JobRecord
  BY SamePast
<1>2. flight \in [Callers -> FlightRecord] /\ RemoteTypes /\ job.by \in Runners
  BY DEF WatchInv, WorkerTypes, QueueInv, OneJob
<1>3. \A e \in Callers : e # job.by => flight'[e] = flight[e]
  BY <1>2
<1>4. /\ job'.by = Nobody /\ job'.pc = "none" /\ job' \in JobRecord
      /\ \A t \in Threads : job'.got[t] = 0
  BY <1>2, Empties
<1>5. RemoteTypes' /\ StoreTypes' /\ WorkerTypes'
  BY <1>1, <1>2, <1>4 DEF WatchInv, RemoteTypes, StoreTypes, WorkerTypes
<1>6. flight'["done"] = flight["done"] /\ flight'["listener"] = flight["listener"]
  BY <1>2, <1>3 DEF Runners, Callers, Commands
<1>7. BoundTypes'
  BY <1>6 DEF WatchInv, BoundTypes
<1>8. QueueInv'
  <2>1. OneJob'
    BY <1>6 DEF WatchInv, QueueInv, OneJob
  <2>2. JobHasAccount' /\ RestartsLeft' /\ PagesLeft'
    BY <1>4 DEF JobHasAccount, RestartsLeft, PagesLeft, Nobody
  <2>3. MarkHasAccount'
    BY <1>6 DEF WatchInv, QueueInv, MarkHasAccount, Marking
  <2>4. QED BY <2>1, <2>2, <2>3 DEF QueueInv
<1>9. ScanInv'
  BY <1>4 DEF StoreInv, ScanInv, JobStands, JobSaw, Reads
<1>10. ReadIsNewer'
  BY <1>4 DEF ReadIsNewer, Got
<1>11. NewsIsNewer'
  BY DEF WatchInv, NewsIsNewer
<1>12. QED BY <1>5, <1>7, <1>8, <1>9, <1>10, <1>11 DEF WatchInv, StoreInv

(* A job starts when nobody marks or works. *)
LEMMA StartStep ==
  ASSUME WatchInv, job = NoJob, ~ Marking, NEW c \in Runners, NEW j \in JobRecord, job' = j,
         j.by = c, j.pc # "none", j.got = NoFetch,
         NEW f \in FlightRecord, f.pc = "job", f.restarts = flight[c].restarts,
         flight' = [flight EXCEPT ![c] = f],
         j.pc # "wipe" => f.auth.login \in Accounts,
         UNCHANGED <<inbox, version, modified, db, rows, done, used, faults>>, cred' \in Auths,
         RestartsLeft', PagesLeft', JobStands', JobSaw'
  PROVE  WatchInv'
<1>1. /\ Past' = Past /\ RowRecord' = RowRecord /\ StateRecord' = StateRecord
      /\ JobRecord' = JobRecord
  BY SamePast
<1>2. flight \in [Callers -> FlightRecord] /\ RemoteTypes /\ c \in Callers
  BY DEF WatchInv, WorkerTypes, Runners, Callers, Commands
<1>3. flight'[c] = f /\ \A e \in Callers : e # c => flight'[e] = flight[e]
  BY <1>2
<1>4. RemoteTypes' /\ StoreTypes' /\ WorkerTypes'
  BY <1>1, <1>2 DEF WatchInv, RemoteTypes, StoreTypes, WorkerTypes
<1>5. flight'["done"] = flight["done"] /\ flight'["listener"] = flight["listener"]
  BY <1>2, <1>3 DEF Runners, Callers, Commands
<1>6. BoundTypes'
  BY <1>5 DEF WatchInv, BoundTypes
<1>7. QueueInv'
  <2>1. OneJob'
    BY <1>3, <1>5 DEF WatchInv, QueueInv, OneJob, Marking
  <2>2. JobHasAccount'
    BY <1>3 DEF JobHasAccount, Auth
  <2>3. MarkHasAccount'
    BY <1>5 DEF WatchInv, QueueInv, MarkHasAccount, Marking
  <2>4. QED BY <2>1, <2>2, <2>3 DEF QueueInv
<1>8. ScanInv'
  BY DEF WatchInv, ScanInv, ScanHasPlace, ScanSaw, Scanning, Reached, Window, Newer, Saw
<1>9. ReadIsNewer'
  BY Empties DEF ReadIsNewer, Got, NoFetch
<1>10. QED BY <1>4, <1>6, <1>7, <1>8, <1>9 DEF WatchInv, RowsHaveTheirAccount, NewsIsNewer, Present

(* A job goes on. *)
LEMMA JobStep ==
  ASSUME WatchInv, job # NoJob, job.pc # "wipe", NEW j \in JobRecord, job' = j,
         j.by = job.by, j.pc # "none",
         UNCHANGED <<inbox, version, modified, cred, flight, done, used>>,
         faults' \in 0 .. MaxFaults,
         db' \in StateRecord, rows' \in [Threads -> RowRecord], StoreInv',
         RestartsLeft', PagesLeft', JobStands', JobSaw', ReadIsNewer'
  PROVE  WatchInv'
<1>1. /\ Past' = Past /\ RowRecord' = RowRecord /\ StateRecord' = StateRecord
      /\ JobRecord' = JobRecord
  BY SamePast
<1>2. RemoteTypes' /\ StoreTypes' /\ WorkerTypes'
  BY <1>1 DEF WatchInv, RemoteTypes, StoreTypes, WorkerTypes
<1>3. BoundTypes'
  BY DEF WatchInv, BoundTypes
<1>4. QueueInv'
  <2>1. OneJob'
    BY DEF WatchInv, QueueInv, OneJob, Marking
  <2>2. JobHasAccount'
    BY DEF WatchInv, QueueInv, JobHasAccount, Auth
  <2>3. MarkHasAccount'
    BY DEF WatchInv, QueueInv, MarkHasAccount, Marking
  <2>4. QED BY <2>1, <2>2, <2>3 DEF QueueInv
<1>5. ScanInv' /\ RowsHaveTheirAccount'
  BY DEF StoreInv, ScanInv
<1>6. QED BY <1>2, <1>3, <1>4, <1>5 DEF WatchInv, NewsIsNewer

-----------------------------------------------------------------------------
(* The callers. *)

Goes(f, pc) == [f EXCEPT !.pc = pc]
Asks(f, pc, auth) == [f EXCEPT !.pc = pc, !.auth = auth]
Targets(f, pc, threads) == [f EXCEPT !.pc = pc, !.threads = threads]

(* What a caller that moves on has in memory. *)
LEMMA FlightFields ==
  /\ \A f \in FlightRecord, pc \in FlightPoints :
       /\ Goes(f, pc) \in FlightRecord /\ Goes(f, pc).pc = pc
       /\ Goes(f, pc).auth = f.auth /\ Goes(f, pc).restarts = f.restarts
  /\ \A f \in FlightRecord, pc \in FlightPoints, auth \in Auths :
       /\ Asks(f, pc, auth) \in FlightRecord /\ Asks(f, pc, auth).pc = pc
       /\ Asks(f, pc, auth).auth = auth /\ Asks(f, pc, auth).restarts = f.restarts
  /\ \A f \in FlightRecord, pc \in FlightPoints, threads \in SUBSET Threads :
       /\ Targets(f, pc, threads) \in FlightRecord /\ Targets(f, pc, threads).pc = pc
       /\ Targets(f, pc, threads).auth = f.auth
  /\ \A f \in FlightRecord : \A t \in Threads : \A marked \in SUBSET Threads :
       /\ Answer(f, t, marked) \in FlightRecord /\ Answer(f, t, marked).pc = f.pc
       /\ Answer(f, t, marked).auth = f.auth
BY DEF FlightRecord, Goes, Asks, Targets, Answer

(* What a caller begins with. *)
LEMMA Entering ==
  ASSUME RemoteTypes
  PROVE  Goes(Idle, "reconcile") \in FlightRecord /\ Goes(Idle, "reconcile").pc = "reconcile"
<1>1. "reconcile" \in FlightPoints
  BY DEF FlightPoints
<1>2. Idle \in FlightRecord
  BY Empties
<1>3. QED BY <1>1, <1>2, FlightFields

(* The user gives a command. *)
LEMMA CommandStep ==
  ASSUME WatchInv, NEW c \in Commands, Command(c)
  PROVE  WatchInv'
<1> DEFINE f == Goes(Idle, "reconcile")
<1>1. /\ flight \in [Callers -> FlightRecord] /\ RemoteTypes /\ cred \in Auths
      /\ c \in Callers /\ c # "listener"
  BY DEF WatchInv, WorkerTypes, StoreTypes, Callers, Commands
<1>2. f \in FlightRecord /\ f.pc = "reconcile"
  BY <1>1, Entering
<1>3. flight' = [flight EXCEPT ![c] = f]
  BY DEF Command, Enter, Goes
<1>4. /\ UNCHANGED <<inbox, version, modified, db, rows, job, done, cred, faults>>
      /\ flight[c].pc = "idle"
      /\ used.commands < MaxUses /\ used' = [used EXCEPT !.commands = @ + 1]
  BY DEF Command, remote, store
<1>5. /\ used \in [switches : Nat, commands : 0 .. MaxUses] /\ used.commands \in 0 .. MaxUses
      /\ faults \in 0 .. MaxFaults
  BY DEF WatchInv, BoundTypes
<1>6. used' \in [switches : Nat, commands : 0 .. MaxUses] /\ used'.commands = used.commands + 1
  BY <1>4, <1>5, Bounds
<1>7. BoundTypes'
  BY <1>4, <1>5, <1>6 DEF BoundTypes
<1>8. job # NoJob => c # job.by
  BY <1>4 DEF WatchInv, QueueInv, OneJob
<1> HIDE DEF f
<1>9. QED BY <1>1, <1>2, <1>3, <1>4, <1>7, <1>8, FlightStep

(* The alarm rings. *)
LEMMA AlarmStep ==
  ASSUME WatchInv, Alarm
  PROVE  WatchInv'
<1> DEFINE f == Goes(Idle, "reconcile")
<1>1. /\ flight \in [Callers -> FlightRecord] /\ RemoteTypes /\ cred \in Auths
      /\ "poll" \in Callers /\ faults \in 0 .. MaxFaults /\ BoundTypes
  BY DEF WatchInv, WorkerTypes, StoreTypes, BoundTypes, Callers, Commands
<1>2. f \in FlightRecord /\ f.pc = "reconcile"
  BY <1>1, Entering
<1>3. flight' = [flight EXCEPT !["poll"] = f] /\ flight["poll"].pc = "idle"
  BY DEF Alarm, Enter, Goes
<1>4. UNCHANGED <<inbox, version, modified, db, rows, job, done, cred, faults, used>>
  BY DEF Alarm, remote, store, bounds
<1> HIDE DEF f
<1>5. BoundTypes'
  BY <1>1, <1>4 DEF BoundTypes
<1>6. job # NoJob => "poll" # job.by
  BY <1>3 DEF WatchInv, QueueInv, OneJob
<1>7. QED BY <1>1, <1>2, <1>3, <1>4, <1>5, <1>6, FlightStep

(* The user changes the credential. *)
LEMMA ChangeStep ==
  ASSUME WatchInv, NEW login \in Owners, NEW watch \in BOOLEAN, ChangeCredential(login, watch)
  PROVE  WatchInv'
<1> DEFINE f == Goes(Idle, "reconcile")
<1>1. /\ flight \in [Callers -> FlightRecord] /\ RemoteTypes
      /\ "listener" \in Callers /\ flight["listener"].pc \in {"idle", "reconcile"}
      /\ used \in [switches : Nat, commands : 0 .. MaxUses]
      /\ flight["listener"] \in FlightRecord
  BY DEF WatchInv, WorkerTypes, BoundTypes, QueueInv, OneJob, Callers
<1>2. f \in FlightRecord /\ f.pc = "reconcile"
  BY <1>1, Entering
<1>3. PICK g \in {f, flight["listener"]} : flight' = [flight EXCEPT !["listener"] = g]
  BY <1>1 DEF ChangeCredential, Enter, Goes
<1>4. /\ UNCHANGED <<inbox, version, modified, db, rows, job, done, faults>>
      /\ cred' \in {[login |-> login, token |-> used.switches + 1, watch |-> watch], SignedOut}
      /\ used' = [used EXCEPT !.switches = @ + 1] /\ used.switches < MaxSwitches
  BY DEF ChangeCredential, remote, store
<1>5. cred' \in Auths
  <2>1. used.switches + 1 \in 0 .. MaxSwitches
    BY <1>1, <1>4, WatchAssumption DEF WatchAssumption
  <2>2. SignedOut \in Auths
    BY WatchAssumption DEF WatchAssumption, SignedOut, Auths
  <2>3. QED BY <1>4, <2>1, <2>2 DEF Auths, Owners
<1>6. g \in FlightRecord /\ g.pc \in {"idle", "reconcile"}
  BY <1>1, <1>2
<1> HIDE DEF f
<1>7. BoundTypes'
  <2>1. used' \in [switches : Nat, commands : 0 .. MaxUses]
    BY <1>1, <1>4
  <2>2. QED BY <1>4, <2>1 DEF WatchInv, BoundTypes
<1>8. job # NoJob => "listener" # job.by
  BY DEF WatchInv, QueueInv, OneJob, Runners
<1>9. QED BY <1>1, <1>3, <1>4, <1>5, <1>6, <1>7, <1>8, FlightStep

(* The credential is read, before the operation is queued. *)
LEMMA TakeAuthStep ==
  ASSUME WatchInv, NEW c \in Callers, TakeAuth(c)
  PROVE  WatchInv'
<1>1. /\ flight \in [Callers -> FlightRecord] /\ RemoteTypes /\ cred \in Auths
      /\ flight[c] \in FlightRecord /\ flight[c].pc = "auth"
      /\ BoundTypes /\ faults \in 0 .. MaxFaults
  BY DEF WatchInv, WorkerTypes, StoreTypes, BoundTypes, TakeAuth
<1>2. /\ UNCHANGED <<inbox, version, modified, db, rows, job, done, cred, faults, used>>
  BY DEF TakeAuth, remote, store, bounds
<1>3. PICK f : /\ f \in {Idle, Asks(flight[c], "scope", cred), Asks(flight[c], "queued", cred)}
               /\ flight' = [flight EXCEPT ![c] = f]
  BY DEF TakeAuth, Asks
<1>4. f \in FlightRecord /\ f.pc \in {"idle", "scope", "queued"}
  <2>1. "scope" \in FlightPoints /\ "queued" \in FlightPoints
    BY DEF FlightPoints
  <2>2. Idle \in FlightRecord /\ Idle.pc = "idle"
    BY <1>1, Empties
  <2>3. /\ Asks(flight[c], "scope", cred) \in FlightRecord
        /\ Asks(flight[c], "scope", cred).pc = "scope"
        /\ Asks(flight[c], "queued", cred) \in FlightRecord
        /\ Asks(flight[c], "queued", cred).pc = "queued"
    BY <1>1, <2>1, FlightFields
  <2>4. QED BY <1>3, <2>2, <2>3
<1>5. BoundTypes'
  BY <1>1, <1>2 DEF BoundTypes
<1>6. job # NoJob => c # job.by
  BY <1>1 DEF WatchInv, QueueInv, OneJob
<1>7. c # "listener"
  BY <1>1 DEF WatchInv, QueueInv, OneJob
<1>8. QED BY <1>1, <1>2, <1>3, <1>4, <1>5, <1>6, <1>7, FlightStep

(* A refresh looks whether the scan is complete. *)
LEMMA LookStep ==
  ASSUME WatchInv, Look
  PROVE  WatchInv'
<1>1. /\ flight \in [Callers -> FlightRecord] /\ RemoteTypes /\ cred \in Auths
      /\ "refresh" \in Callers /\ flight["refresh"] \in FlightRecord
      /\ flight["refresh"].pc = "look"
      /\ BoundTypes /\ faults \in 0 .. MaxFaults
  BY DEF WatchInv, WorkerTypes, StoreTypes, BoundTypes, Look, Callers, Commands
<1>2. /\ UNCHANGED <<inbox, version, modified, db, rows, job, done, cred, faults, used>>
  BY DEF Look, remote, store, bounds
<1>3. PICK f \in {Idle, Goes(flight["refresh"], "queued")} :
        flight' = [flight EXCEPT !["refresh"] = f]
  BY DEF Look, Goes
<1>4. f \in FlightRecord
  <2>1. "queued" \in FlightPoints
    BY DEF FlightPoints
  <2>2. QED BY <1>1, <2>1, Empties, FlightFields
<1>5. BoundTypes'
  BY <1>1, <1>2 DEF BoundTypes
<1>6. job # NoJob => "refresh" # job.by
  BY <1>1 DEF WatchInv, QueueInv, OneJob
<1>7. QED BY <1>1, <1>2, <1>3, <1>4, <1>5, <1>6, FlightStep

(* The caller that marks threads done moves on beside the empty queue. *)
LEMMA MarkStep ==
  ASSUME WatchInv, flight["done"].pc \in {"queued", "delete"}, job = NoJob,
         NEW f \in FlightRecord, flight' = [flight EXCEPT !["done"] = f],
         f.pc \in {"delete", "apply"} => f.auth.login \in Accounts,
         UNCHANGED <<inbox, version, modified, db, rows, job, done, cred, used>>,
         faults' \in 0 .. MaxFaults
  PROVE  WatchInv'
<1>1. "done" \in Callers /\ cred \in Auths
  BY DEF WatchInv, StoreTypes, Callers, Commands
<1>2. BoundTypes'
  BY DEF WatchInv, BoundTypes
<1>3. QED BY <1>1, <1>2, FlightStep

(* Who marks threads done has the queue to himself, and an account. *)
LEMMA Marker ==
  ASSUME WatchInv
  PROVE  /\ flight \in [Callers -> FlightRecord] /\ RemoteTypes /\ "done" \in Callers
         /\ flight["done"] \in FlightRecord /\ faults \in 0 .. MaxFaults
         /\ flight["done"].pc = "delete" => job = NoJob /\ flight["done"].auth.login \in Accounts
<1>1. /\ flight \in [Callers -> FlightRecord] /\ RemoteTypes /\ "done" \in Callers
      /\ faults \in 0 .. MaxFaults
  BY DEF WatchInv, WorkerTypes, BoundTypes, Callers, Commands
<1>2. flight["done"].pc = "delete" => job = NoJob /\ flight["done"].auth.login \in Accounts
  BY DEF WatchInv, QueueInv, OneJob, MarkHasAccount, Marking
<1>3. QED BY <1>1, <1>2

(* Threads to be marked done are chosen, or there are none. *)
LEMMA StartDoneStep ==
  ASSUME WatchInv, StartDone
  PROVE  WatchInv'
<1>1. /\ flight["done"] \in FlightRecord /\ RemoteTypes /\ faults \in 0 .. MaxFaults
      /\ flight["done"].pc = "queued" /\ job = NoJob
  BY Marker DEF StartDone, MayRun
<1>2. UNCHANGED <<inbox, version, modified, db, rows, job, done, cred, faults, used>>
  BY DEF StartDone, remote, store, bounds
<1>3. CASE Ends("done")
  <2>1. Idle \in FlightRecord /\ Idle.pc = "idle"
    BY <1>1, Empties
  <2>2. QED BY <1>1, <1>2, <1>3, <2>1, MarkStep DEF Ends
<1>4. ASSUME NEW asked \in SUBSET Threads, Authorized(flight["done"].auth),
             flight' = [flight EXCEPT !["done"] = [@ EXCEPT !.pc = "delete", !.threads = asked]]
      PROVE  WatchInv'
  <2>1. "delete" \in FlightPoints
    BY DEF FlightPoints
  <2>2. flight' = [flight EXCEPT !["done"] = Targets(flight["done"], "delete", asked)]
    BY <1>4 DEF Targets
  <2>3. /\ Targets(flight["done"], "delete", asked) \in FlightRecord
        /\ Targets(flight["done"], "delete", asked).pc = "delete"
        /\ Targets(flight["done"], "delete", asked).auth = flight["done"].auth
    BY <1>1, <2>1, FlightFields
  <2>4. flight["done"].auth.login \in Accounts
    BY <1>1, <1>4 DEF FlightRecord, Auths, Authorized, SameCredential
  <2>5. QED BY <1>1, <1>2, <2>2, <2>3, <2>4, MarkStep
<1>5. QED BY <1>3, <1>4 DEF StartDone, Present

(* A mark fails. *)
LEMMA DeleteFailsStep ==
  ASSUME WatchInv, DeleteFails
  PROVE  WatchInv'
<1>1. /\ flight["done"] \in FlightRecord /\ RemoteTypes /\ flight["done"].pc = "delete"
      /\ job = NoJob /\ flight["done"].auth.login \in Accounts
      /\ faults \in 0 .. MaxFaults /\ faults < MaxFaults /\ faults' = faults + 1
  BY Marker DEF DeleteFails
<1>2. UNCHANGED <<inbox, version, modified, db, rows, job, done, cred, used>>
  BY DEF DeleteFails, remote, store
<1>3. PICK t \in flight["done"].threads :
        flight' = [flight EXCEPT !["done"] = Answer(flight["done"], t, {})]
  BY DEF DeleteFails
<1>4. /\ Answer(flight["done"], t, {}) \in FlightRecord
      /\ Answer(flight["done"], t, {}).pc = "delete"
      /\ Answer(flight["done"], t, {}).auth = flight["done"].auth
  <2>1. t \in Threads /\ {} \in SUBSET Threads
    BY <1>1 DEF FlightRecord
  <2>2. QED BY <1>1, <2>1, FlightFields
<1>5. faults' \in 0 .. MaxFaults
  BY <1>1, Bounds
<1>6. QED BY <1>1, <1>2, <1>3, <1>4, <1>5, MarkStep

(* Every mark is answered. *)
LEMMA AnsweredStep ==
  ASSUME WatchInv, Answered
  PROVE  WatchInv'
<1>1. /\ flight["done"] \in FlightRecord /\ RemoteTypes /\ flight["done"].pc = "delete"
      /\ job = NoJob /\ flight["done"].auth.login \in Accounts /\ faults \in 0 .. MaxFaults
  BY Marker DEF Answered
<1>2. UNCHANGED <<inbox, version, modified, db, rows, job, done, cred, used, faults>>
  BY DEF Answered, remote, store, bounds
<1>3. PICK f \in {Idle, Goes(flight["done"], "apply")} : flight' = [flight EXCEPT !["done"] = f]
  BY DEF Answered, Ends, Goes
<1>4. f \in FlightRecord /\ (f.pc \in {"delete", "apply"} => f.auth.login \in Accounts)
  <2>1. Idle \in FlightRecord /\ Idle.pc = "idle"
    BY <1>1, Empties
  <2>2. "apply" \in FlightPoints
    BY DEF FlightPoints
  <2>3. /\ Goes(flight["done"], "apply") \in FlightRecord
        /\ Goes(flight["done"], "apply").auth = flight["done"].auth
    BY <1>1, <2>2, FlightFields
  <2>4. QED BY <1>1, <1>3, <2>1, <2>3
<1>5. QED BY <1>1, <1>2, <1>3, <1>4, MarkStep

(* The worker dies. *)
LEMMA DiesStep ==
  ASSUME WatchInv, Dies
  PROVE  WatchInv'
<1>1. RemoteTypes /\ BoundTypes /\ faults \in 0 .. MaxFaults
  BY DEF WatchInv, BoundTypes
<1>2. /\ UNCHANGED <<inbox, version, modified, db, rows, done, cred, used>>
      /\ flight' = [c \in Callers |-> Idle] /\ job' = NoJob
      /\ faults < MaxFaults /\ faults' = faults + 1
  BY DEF Dies, remote, store
<1>3. /\ flight' \in [Callers -> FlightRecord] /\ \A c \in Callers : flight'[c].pc = "idle"
      /\ job' \in JobRecord /\ job'.by = Nobody /\ job'.pc = "none"
      /\ \A t \in Threads : job'.got[t] = 0
  BY <1>1, <1>2, Empties
<1>4. faults' \in 0 .. MaxFaults
  BY <1>1, <1>2, Bounds
<1>5. /\ Past' = Past /\ RowRecord' = RowRecord /\ StateRecord' = StateRecord
      /\ JobRecord' = JobRecord
  BY <1>2, SamePast
<1>6. RemoteTypes' /\ StoreTypes' /\ WorkerTypes'
  BY <1>1, <1>2, <1>3, <1>5 DEF WatchInv, RemoteTypes, StoreTypes, WorkerTypes
<1>7. BoundTypes'
  BY <1>1, <1>2, <1>4 DEF BoundTypes
<1>8. QueueInv'
  <2>1. OneJob'
    BY <1>2, <1>3 DEF OneJob, Callers
  <2>2. JobHasAccount' /\ RestartsLeft' /\ PagesLeft'
    BY <1>2, <1>3 DEF JobHasAccount, RestartsLeft, PagesLeft, Nobody
  <2>3. MarkHasAccount'
    BY <1>3 DEF MarkHasAccount, Marking, Callers, Commands
  <2>4. QED BY <2>1, <2>2, <2>3 DEF QueueInv
<1>9. ScanInv'
  <2>1. JobStands' /\ JobSaw'
    BY <1>3 DEF JobStands, JobSaw, Reads
  <2>2. QED
    BY <1>2, <2>1
    DEF WatchInv, ScanInv, ScanHasPlace, ScanSaw, Scanning, Reached, Window, Newer, Saw
<1>10. ReadIsNewer'
  BY <1>3 DEF ReadIsNewer, Got
<1>11. QED
  BY <1>2, <1>6, <1>7, <1>8, <1>9, <1>10 DEF WatchInv, RowsHaveTheirAccount, NewsIsNewer, Present

-----------------------------------------------------------------------------
(* GitHub. *)

(* Everything stays typed as versions are used. *)
LEMMA PastGrows ==
  ASSUME version \in Nat, version' \in Nat, version <= version'
  PROVE  /\ Past \subseteq Past' /\ RowRecord \subseteq RowRecord'
         /\ StateRecord \subseteq StateRecord' /\ JobRecord \subseteq JobRecord'
<1>1. Past \subseteq Past'
  BY DEF Past
<1>2. \A got \in [Threads -> Past] : got \in [Threads -> Past']
  BY <1>1
<1>3. QED BY <1>1, <1>2 DEF RowRecord, StateRecord, JobRecord

(* A thread that changes leaves the window, and its inbox is another one     *)
(* than any validator is of.                                                 *)
LEMMA ScanAfterNews ==
  ASSUME WatchInv, NEW a \in Accounts, NEW t \in Threads, NEW at \in {0, version + 1},
         inbox' = [inbox EXCEPT ![a][t] = at], modified' = [modified EXCEPT ![a] = version + 1],
         UNCHANGED <<db, rows, job>>, job # NoJob => flight'[job.by] = flight[job.by]
  PROVE  ScanInv'
<1>1. /\ version \in Nat /\ inbox \in [Accounts -> [Threads -> Past]]
      /\ modified \in [Accounts -> Past] /\ db \in StateRecord /\ job \in JobRecord
  BY DEF WatchInv, RemoteTypes, StoreTypes, WorkerTypes
<1>2. /\ db.before \in Past /\ db.modified \in Past /\ job.before \in Past /\ job.modified \in Past
  BY <1>1 DEF StateRecord, JobRecord
<1>3. version + 1 \notin Past /\ Past \subseteq Nat
  BY <1>1 DEF Past
<1>4. \A b \in Accounts : b # a => inbox'[b] = inbox[b] /\ modified'[b] = modified[b]
  BY <1>1
<1>5. modified'[a] = version + 1
  BY <1>1
<1>6. inbox'[a] = [inbox[a] EXCEPT ![t] = at]
  BY <1>1
<1>7. \A before \in Past : Window(a, before)' \subseteq Window(a, before)
  <2>1. \A u \in Threads : inbox'[a][u] \in {inbox[a][u], 0, version + 1}
    BY <1>1, <1>6
  <2>2. SUFFICES ASSUME NEW before \in Past, NEW u \in Threads, inbox'[a][u] \in 1 .. before
                 PROVE  inbox[a][u] \in 1 .. before
    BY DEF Window
  <2>3. inbox'[a][u] # 0 /\ inbox'[a][u] # version + 1
    BY <1>1, <2>2 DEF Past
  <2>4. QED BY <2>1, <2>2, <2>3
<1>8. \A b \in Accounts : b # a => \A before, p : Reached(b, before, p)' = Reached(b, before, p)
  BY <1>4 DEF Reached, Window, Newer
<1>9. ScanHasPlace' /\ ScanSaw'
  <2>1. ScanHasPlace'
    BY DEF WatchInv, ScanInv, ScanHasPlace, Scanning
  <2>2. SUFFICES ASSUME Scanning(db), modified'[db.account] = db.modified
                 PROVE  Reached(db.account, db.before, db.page)' \subseteq Saw'
    BY <2>1 DEF ScanSaw, Scanning
  <2>3. db.account \in Accounts /\ db.account # a
    BY <1>2, <1>3, <1>5, <2>2 DEF WatchInv, ScanInv, ScanHasPlace
  <2>4. modified[db.account] = db.modified
    BY <1>4, <2>2, <2>3
  <2>5. Reached(db.account, db.before, db.page) \subseteq Saw
    BY <2>2, <2>4 DEF WatchInv, ScanInv, ScanSaw
  <2>6. Reached(db.account, db.before, db.page)' = Reached(db.account, db.before, db.page)
    BY <1>8, <2>3 DEF Reached, Window, Newer
  <2>7. QED BY <2>1, <2>5, <2>6 DEF Saw
<1>10. job # NoJob => Auth' = Auth
  BY DEF Auth
<1>11. CASE ~ Reads
  BY <1>9, <1>11 DEF ScanInv, JobStands, JobSaw, Reads
<1>12. CASE Reads
  <2>1. job # NoJob /\ Auth' = Auth /\ job.pc # "wipe"
    BY <1>10, <1>12, Empties DEF Reads, WatchInv
  <2>2. Auth.login \in Accounts
    BY <2>1 DEF WatchInv, QueueInv, JobHasAccount
  <2>3. JobStands'
    BY <2>1 DEF WatchInv, ScanInv, JobStands, Reads, Stands, Scanning
  <2>4. Validator' = Validator /\ Validator \in Past
    BY <1>2 DEF Validator
  <2>5. JobSaw'
    <3>1. CASE modified'[Auth.login] = Validator
      <4>1. Auth.login # a
        BY <1>3, <1>5, <2>4, <3>1
      <4>2. modified[Auth.login] = Validator
        BY <1>4, <2>2, <3>1, <4>1
      <4>3. ReadSoFar(Auth.login) \subseteq Saw \cup Got
        BY <1>12, <4>2 DEF WatchInv, ScanInv, JobSaw
      <4>4. inbox'[Auth.login] = inbox[Auth.login]
        BY <1>4, <2>2, <4>1
      <4>5. ReadSoFar(Auth.login)' = ReadSoFar(Auth.login)
        BY <2>1, <4>4 DEF ReadSoFar, Reached, Window, Newer
      <4>6. QED BY <4>3, <4>5 DEF JobSaw, Saw, Got
    <3>2. CASE job.pc = "commit" /\ job.next = 0
      <4>1. Window(Auth.login, job.before) \subseteq Saw \cup Got
        BY <1>12, <3>2 DEF WatchInv, ScanInv, JobSaw, ReadSoFar
      <4>2. Window(Auth.login, job.before)' \subseteq Window(Auth.login, job.before)
        <5>1. CASE Auth.login = a
          BY <1>2, <1>7, <2>1, <5>1 DEF Window
        <5>2. CASE Auth.login # a
          BY <1>4, <2>1, <2>2, <5>2 DEF Window
        <5>3. QED BY <5>1, <5>2
      <4>3. ReadSoFar(Auth.login)' \subseteq Saw \cup Got
        BY <3>2, <4>1, <4>2 DEF ReadSoFar
      <4>4. QED BY <4>3 DEF JobSaw, Saw, Got
    <3>3. CASE modified'[Auth.login] # Validator /\ ~ (job.pc = "commit" /\ job.next = 0)
      BY <2>1, <2>4, <3>3 DEF JobSaw
    <3>4. QED BY <3>1, <3>2, <3>3
  <2>6. QED BY <1>9, <2>3, <2>5 DEF ScanInv
<1>13. QED BY <1>11, <1>12

(* News, or another client. *)
LEMMA MovesStep ==
  ASSUME WatchInv, NEW a \in Busy, NEW t \in Threads, Moves(a, t)
  PROVE  WatchInv'
<1>1. a \in Accounts
  BY WatchAssumption DEF WatchAssumption
<1>2. /\ version \in Nat /\ inbox \in [Accounts -> [Threads -> Past]]
      /\ done \in [Accounts -> [Threads -> Past]] /\ modified \in [Accounts -> Past]
  BY DEF WatchInv, RemoteTypes
<1>3. PICK at \in {0, version + 1} : inbox' = [inbox EXCEPT ![a][t] = at]
  BY DEF Moves
<1>4. /\ version < MaxVersion /\ version' = version + 1
      /\ modified' = [modified EXCEPT ![a] = version + 1]
      /\ UNCHANGED <<cred, db, rows, flight, job, done, used, faults>>
  BY DEF Moves, bounds
<1>5. /\ Past \subseteq Past' /\ RowRecord \subseteq RowRecord'
      /\ StateRecord \subseteq StateRecord' /\ JobRecord \subseteq JobRecord'
  BY <1>2, <1>4, PastGrows
<1>6. at \in Past' /\ version + 1 \in Past' /\ version' \in Nat
  BY <1>2, <1>4 DEF Past
<1>7. RemoteTypes'
  <2>1. inbox'[a] = [inbox[a] EXCEPT ![t] = at] /\ \A b \in Accounts : b # a => inbox'[b] = inbox[b]
    BY <1>1, <1>2, <1>3
  <2>2. \A b \in Accounts : inbox[b] \in [Threads -> Past']
    <3>1. \A b \in Accounts : inbox[b] \in [Threads -> Past]
      BY <1>2
    <3>2. QED BY <1>5, <3>1
  <2>3. \A b \in Accounts : inbox'[b] \in [Threads -> Past']
    <3>1. inbox'[a] \in [Threads -> Past']
      BY <1>1, <1>6, <2>1, <2>2
    <3>2. QED BY <2>1, <2>2, <3>1
  <2>4. inbox' \in [Accounts -> [Threads -> Past']]
    BY <1>2, <1>3, <2>3
  <2>5. done' \in [Accounts -> [Threads -> Past']]
    BY <1>2, <1>4, <1>5
  <2>6. modified' \in [Accounts -> Past']
    BY <1>2, <1>4, <1>5, <1>6
  <2>7. QED BY <1>6, <2>4, <2>5, <2>6 DEF RemoteTypes
<1>8. StoreTypes' /\ WorkerTypes'
  BY <1>4, <1>5 DEF WatchInv, StoreTypes, WorkerTypes
<1>9. BoundTypes'
  BY <1>4 DEF WatchInv, BoundTypes
<1>10. QueueInv'
  BY <1>4
  DEF WatchInv, QueueInv, OneJob, MarkHasAccount, Marking, JobHasAccount, RestartsLeft, PagesLeft,
      Auth
<1>11. ScanInv'
  BY <1>1, <1>3, <1>4, ScanAfterNews
<1>12. NewsIsNewer'
  <2>1. SUFFICES ASSUME NEW b \in Accounts, NEW u \in Threads, inbox'[b][u] # 0
                 PROVE  inbox'[b][u] > done[b][u]
    BY <1>4 DEF NewsIsNewer
  <2>2. inbox'[b][u] = inbox[b][u] \/ inbox'[b][u] = version + 1
    BY <1>1, <1>2, <1>3, <2>1
  <2>3. done[b][u] \in Nat /\ done[b][u] <= version
    BY <1>2 DEF Past
  <2>4. CASE inbox'[b][u] = inbox[b][u]
    BY <2>1, <2>4 DEF WatchInv, NewsIsNewer
  <2>5. CASE inbox'[b][u] = version + 1
    BY <1>2, <2>3, <2>5
  <2>6. QED BY <2>2, <2>4, <2>5
<1>13. ReadIsNewer' /\ RowsHaveTheirAccount'
  BY <1>4 DEF WatchInv, ReadIsNewer, Got, Auth, RowsHaveTheirAccount, Present
<1>14. QED
  BY <1>7, <1>8, <1>9, <1>10, <1>11, <1>12, <1>13 DEF WatchInv

(* A thread is marked done on GitHub, and no job runs meanwhile. *)
LEMMA DeletesStep ==
  ASSUME WatchInv, Deletes
  PROVE  WatchInv'
<1> DEFINE a == flight["done"].auth.login
<1>1. /\ version \in Nat /\ inbox \in [Accounts -> [Threads -> Past]]
      /\ done \in [Accounts -> [Threads -> Past]] /\ modified \in [Accounts -> Past]
      /\ flight \in [Callers -> FlightRecord] /\ RemoteTypes
      /\ job \in JobRecord
  BY DEF WatchInv, RemoteTypes, WorkerTypes
<1>2. "done" \in Callers /\ flight["done"] \in FlightRecord /\ flight["done"].pc = "delete"
  BY <1>1 DEF Callers, Commands, Deletes
<1>3. Marking
  BY <1>2 DEF Marking
<1>4. a \in Accounts /\ job = NoJob
  BY <1>3 DEF WatchInv, QueueInv, MarkHasAccount, OneJob
<1>5. PICK t \in flight["done"].threads :
        /\ inbox' = [inbox EXCEPT ![a][t] = 0]
        /\ IF inbox[a][t] = 0 THEN UNCHANGED <<version, modified>>
           ELSE version' = version + 1 /\ modified' = [modified EXCEPT ![a] = version + 1]
        /\ done' = [done EXCEPT ![a][t] = version']
        /\ flight' = [flight EXCEPT !["done"] = Answer(@, t, {t})]
  BY DEF Deletes
<1>6. UNCHANGED <<cred, db, rows, job, used, faults>>
  BY DEF Deletes, store, bounds
<1>7. t \in Threads
  BY <1>2, <1>5 DEF FlightRecord
<1>8. PICK f \in FlightRecord : /\ flight' = [flight EXCEPT !["done"] = f]
                                /\ f.pc = "delete" /\ f.auth.login = a
  <2>1. flight' = [flight EXCEPT !["done"] = Answer(flight["done"], t, {t})]
    BY <1>5
  <2>2. /\ Answer(flight["done"], t, {t}) \in FlightRecord
        /\ Answer(flight["done"], t, {t}).pc = "delete"
        /\ Answer(flight["done"], t, {t}).auth = flight["done"].auth
    BY <1>2, <1>7, FlightFields
  <2>3. QED BY <2>1, <2>2
<1> HIDE DEF a
<1>9. version' \in Nat /\ version <= version' /\ version' <= version + 1
  BY <1>1, <1>5
<1>10. /\ Past \subseteq Past' /\ RowRecord \subseteq RowRecord'
       /\ StateRecord \subseteq StateRecord' /\ JobRecord \subseteq JobRecord'
  BY <1>1, <1>9, PastGrows
<1>11. 0 \in Past' /\ version' \in Past'
  BY <1>9 DEF Past
<1>12. /\ flight'["done"] = f /\ \A c \in Callers : c # "done" => flight'[c] = flight[c]
       /\ flight' \in [Callers -> FlightRecord]
  BY <1>1, <1>2, <1>8
<1>13. \A b \in Accounts, u \in Threads :
         /\ inbox'[b][u] = IF b = a /\ u = t THEN 0 ELSE inbox[b][u]
         /\ done'[b][u] = IF b = a /\ u = t THEN version' ELSE done[b][u]
  BY <1>1, <1>4, <1>5, <1>7
<1>14. RemoteTypes'
  <2>1. \A b \in Accounts : inbox'[b] \in [Threads -> Past'] /\ done'[b] \in [Threads -> Past']
    <3>1. SUFFICES ASSUME NEW b \in Accounts
                   PROVE  inbox'[b] \in [Threads -> Past'] /\ done'[b] \in [Threads -> Past']
      OBVIOUS
    <3>2. /\ inbox[b] \in [Threads -> Past'] /\ done[b] \in [Threads -> Past']
      BY <1>1, <1>10
    <3>3. CASE b = a
      <4>1. inbox'[b] = [inbox[b] EXCEPT ![t] = 0] /\ done'[b] = [done[b] EXCEPT ![t] = version']
        BY <1>1, <1>5, <3>3
      <4>2. QED BY <1>11, <3>2, <4>1
    <3>4. CASE b # a
      <4>1. inbox'[b] = inbox[b] /\ done'[b] = done[b]
        BY <1>1, <1>5, <3>4
      <4>2. QED BY <3>2, <4>1
    <3>5. QED BY <3>3, <3>4
  <2>2. inbox' \in [Accounts -> [Threads -> Past']] /\ done' \in [Accounts -> [Threads -> Past']]
    BY <1>1, <1>5, <2>1
  <2>3. modified' \in [Accounts -> Past']
    <3>1. modified \in [Accounts -> Past']
      BY <1>1, <1>10
    <3>2. CASE inbox[a][t] = 0
      BY <1>5, <3>1, <3>2
    <3>3. CASE inbox[a][t] # 0
      BY <1>5, <1>11, <3>1, <3>3
    <3>4. QED BY <3>2, <3>3
  <2>4. QED BY <1>9, <2>2, <2>3 DEF RemoteTypes
<1>15. StoreTypes' /\ WorkerTypes'
  BY <1>6, <1>10, <1>12 DEF WatchInv, StoreTypes, WorkerTypes
<1>16. BoundTypes'
  BY <1>6 DEF WatchInv, BoundTypes
<1>17. job'.by = Nobody /\ job'.pc = "none" /\ job' = NoJob /\ \A u \in Threads : job'.got[u] = 0
  BY <1>1, <1>4, <1>6, Empties
<1>18. QueueInv'
  <2>1. OneJob'
    BY <1>12, <1>17 DEF WatchInv, QueueInv, OneJob, Callers
  <2>2. MarkHasAccount'
    BY <1>4, <1>8, <1>12 DEF MarkHasAccount, Marking
  <2>3. JobHasAccount' /\ RestartsLeft' /\ PagesLeft'
    BY <1>17 DEF JobHasAccount, RestartsLeft, PagesLeft, Nobody
  <2>4. QED BY <2>1, <2>2, <2>3 DEF QueueInv
<1>19. ScanInv'
  <2>1. CASE inbox[a][t] = 0
    <3>1. \A b \in Accounts, u \in Threads : inbox'[b][u] = inbox[b][u]
      BY <1>13, <2>1
    <3>2. ScanHasPlace' /\ ScanSaw'
      <4>1. ScanHasPlace /\ ScanSaw
        BY DEF WatchInv, ScanInv
      <4>2. modified' = modified
        BY <1>5, <2>1
      <4>3. \A b \in Accounts : \A before, p : Reached(b, before, p)' = Reached(b, before, p)
        <5>1. \A b \in Accounts : \A before : Window(b, before)' = Window(b, before)
          BY <3>1 DEF Window
        <5>2. \A b \in Accounts : \A before : \A u \in Threads :
                Newer(b, before, u)' = Newer(b, before, u)
          BY <3>1, <5>1 DEF Newer, Window
        <5>3. QED BY <5>1, <5>2 DEF Reached, Window
      <4>4. QED BY <1>6, <4>1, <4>2, <4>3 DEF ScanHasPlace, ScanSaw, Scanning, Saw
    <3>3. JobStands' /\ JobSaw'
      BY <1>17 DEF JobStands, JobSaw, Reads
    <3>4. QED BY <3>2, <3>3 DEF ScanInv
  <2>2. CASE inbox[a][t] # 0
    BY <1>4, <1>5, <1>6, <1>7, <2>2, ScanAfterNews
  <2>3. QED BY <2>1, <2>2
<1>20. NewsIsNewer'
  BY <1>13 DEF WatchInv, NewsIsNewer
<1>21. ReadIsNewer' /\ RowsHaveTheirAccount'
  BY <1>6, <1>17 DEF WatchInv, ReadIsNewer, Got, RowsHaveTheirAccount, Present
<1>22. QED
  BY <1>14, <1>15, <1>16, <1>18, <1>19, <1>20, <1>21 DEF WatchInv

-----------------------------------------------------------------------------
(* The stores. *)

(* A record of an account that has read nothing, and rows thrown away. *)
LEMMA StoreOps ==
  ASSUME RemoteTypes, StoreTypes
  PROVE  /\ \A a \in Owners : /\ Pending(a) \in StateRecord /\ Pending(a).account = a
                              /\ ~ Scanning(Pending(a))
         /\ NoState \in StateRecord /\ ~ Scanning(NoState)
         /\ \A a \in Owners : /\ StateOf(a) \in StateRecord /\ StateOf(a).account = a
                              /\ RowsOf(a) \in [Threads -> RowRecord]
         /\ \A table \in [Threads -> RowRecord] :
              /\ Unseen(table) \in [Threads -> RowRecord]
              /\ \A t \in Threads : /\ Unseen(table)[t].owner = table[t].owner
                                    /\ Unseen(table)[t].at = table[t].at
                                    /\ ~ Unseen(table)[t].seen
                                    /\ table[t] = NoRow => Unseen(table)[t] = NoRow
<1>1. 0 \in Past /\ 0 \in PageNumbers
  BY Bounds DEF RemoteTypes, Past
<1>2. ASSUME NEW a \in Owners
      PROVE  /\ Pending(a) \in StateRecord /\ Pending(a).account = a
             /\ ~ Scanning(Pending(a))
  BY <1>1 DEF Pending, StateRecord, Statuses, Scanning
<1>3. NoState \in StateRecord /\ ~ Scanning(NoState)
  BY <1>2 DEF NoState, Owners
<1>4. ASSUME NEW a \in Owners
      PROVE  /\ StateOf(a) \in StateRecord /\ StateOf(a).account = a
             /\ RowsOf(a) \in [Threads -> RowRecord]
  BY <1>2, Empties DEF StateOf, RowsOf, StoreTypes
<1>5. ASSUME NEW table \in [Threads -> RowRecord]
      PROVE  /\ Unseen(table) \in [Threads -> RowRecord]
             /\ \A t \in Threads : /\ Unseen(table)[t].owner = table[t].owner
                                   /\ Unseen(table)[t].at = table[t].at
                                   /\ ~ Unseen(table)[t].seen
                                   /\ table[t] = NoRow => Unseen(table)[t] = NoRow
  <2>1. \A t \in Threads : Unseen(table)[t] = [table[t] EXCEPT !.seen = FALSE]
    BY DEF Unseen
  <2>2. ASSUME NEW row \in RowRecord
        PROVE  /\ [row EXCEPT !.seen = FALSE] \in RowRecord
               /\ [row EXCEPT !.seen = FALSE].owner = row.owner
               /\ [row EXCEPT !.seen = FALSE].at = row.at
               /\ ~ [row EXCEPT !.seen = FALSE].seen
               /\ row = NoRow => [row EXCEPT !.seen = FALSE] = NoRow
    <3>1. /\ [row EXCEPT !.seen = FALSE] \in RowRecord
          /\ [row EXCEPT !.seen = FALSE].owner = row.owner
          /\ [row EXCEPT !.seen = FALSE].at = row.at
          /\ ~ [row EXCEPT !.seen = FALSE].seen
      BY DEF RowRecord
    <3>2. row = NoRow => [row EXCEPT !.seen = FALSE] = NoRow
      <4>1. ~ row.seen => [row EXCEPT !.seen = FALSE] = row
        BY DEF RowRecord
      <4>2. ~ NoRow.seen
        BY DEF NoRow
      <4>3. QED BY <4>1, <4>2
    <3>3. QED BY <3>1, <3>2
  <2>3. \A t \in Threads : table[t] \in RowRecord
    OBVIOUS
  <2>4. Unseen(table) \in [Threads -> RowRecord]
    BY <2>2, <2>3 DEF Unseen
  <2>5. ASSUME NEW t \in Threads
        PROVE  /\ Unseen(table)[t].owner = table[t].owner
               /\ Unseen(table)[t].at = table[t].at
               /\ ~ Unseen(table)[t].seen
               /\ table[t] = NoRow => Unseen(table)[t] = NoRow
    BY <2>1, <2>2, <2>3
  <2>6. QED BY <2>4, <2>5
<1>6. QED BY <1>2, <1>3, <1>4, <1>5

(* Stores that nobody writes are in order still. *)
LEMMA StoreKept ==
  ASSUME WatchInv, UNCHANGED <<inbox, modified, db, rows>>
  PROVE  StoreInv'
BY DEF WatchInv, StoreInv, RowsHaveTheirAccount, Present, ScanInv, ScanHasPlace, ScanSaw, Scanning,
       Reached, Window, Newer, Saw

(* Whatever was read, with no rows and no scan the stores are in order. *)
LEMMA StoreWiped ==
  ASSUME RemoteTypes, rows' = NoRows, ~ Scanning(db')
  PROVE  StoreInv'
<1>1. Present(rows') = {}
  BY Empties
<1>2. RowsHaveTheirAccount'
  BY <1>1 DEF RowsHaveTheirAccount, Present
<1>3. ScanHasPlace' /\ ScanSaw'
  BY DEF ScanHasPlace, ScanSaw, Scanning
<1>4. QED BY <1>2, <1>3 DEF StoreInv

(* Rows are taken out of a record that has no scan. *)
LEMMA StoreNarrowed ==
  ASSUME WatchInv, ~ Scanning(db'), db'.account = db.account,
         \A t \in Threads : rows'[t] = NoRow \/ (rows[t] # NoRow /\ rows'[t].owner = rows[t].owner)
  PROVE  StoreInv'
<1>1. RowsHaveTheirAccount'
  BY DEF WatchInv, RowsHaveTheirAccount, Present
<1>2. ScanHasPlace' /\ ScanSaw'
  BY DEF ScanHasPlace, ScanSaw, Scanning
<1>3. QED BY <1>1, <1>2 DEF StoreInv

(* The record is put there for an account, and the rows of another go. *)
LEMMA StoreReplaced ==
  ASSUME WatchInv, NEW a \in Owners, UNCHANGED <<inbox, modified>>, rows' = RowsOf(a),
         db'.account = a,
         Scanning(db') => /\ db.account = a /\ Scanning(db) /\ db'.before = db.before
                          /\ db'.page = db.page /\ db'.modified = db.modified
  PROVE  StoreInv'
<1>1. RemoteTypes
  BY DEF WatchInv
<1>2. CASE db.account # a
  BY <1>1, <1>2, StoreWiped DEF RowsOf
<1>3. CASE db.account = a
  <2>1. rows' = rows
    BY <1>3 DEF RowsOf
  <2>2. RowsHaveTheirAccount'
    BY <1>3, <2>1 DEF WatchInv, RowsHaveTheirAccount, Present
  <2>3. CASE Scanning(db')
    BY <1>3, <2>1, <2>2, <2>3
    DEF WatchInv, StoreInv, ScanInv, ScanHasPlace, ScanSaw, Scanning, Reached, Window, Newer, Saw
  <2>4. CASE ~ Scanning(db')
    BY <2>2, <2>4 DEF StoreInv, ScanHasPlace, ScanSaw, Scanning
  <2>5. QED BY <2>3, <2>4
<1>4. QED BY <1>2, <1>3

(* A caller writes the stores itself while no job runs. *)
LEMMA BesideStep ==
  ASSUME WatchInv, job = NoJob, job' = NoJob, NEW c \in Callers, NEW f \in FlightRecord,
         flight' = [flight EXCEPT ![c] = f],
         c = "done" => f.pc = "auth" \/ f.pc = "idle", c = "listener" => f.pc = "idle",
         f.pc \in {"auth", "idle"},
         UNCHANGED <<inbox, version, modified, done, used, faults>>,
         cred' \in Auths, db' \in StateRecord, rows' \in [Threads -> RowRecord], StoreInv'
  PROVE  WatchInv'
<1>1. /\ Past' = Past /\ RowRecord' = RowRecord /\ StateRecord' = StateRecord
      /\ JobRecord' = JobRecord
  BY SamePast
<1>2. /\ flight \in [Callers -> FlightRecord] /\ RemoteTypes /\ BoundTypes
      /\ faults \in 0 .. MaxFaults
  BY DEF WatchInv, WorkerTypes, BoundTypes
<1>3. flight'[c] = f /\ \A e \in Callers : e # c => flight'[e] = flight[e]
  BY <1>2
<1>4. /\ job'.by = Nobody /\ job'.pc = "none" /\ job' \in JobRecord
      /\ \A t \in Threads : job'.got[t] = 0
  BY <1>2, Empties
<1>5. RemoteTypes' /\ StoreTypes' /\ WorkerTypes'
  BY <1>1, <1>2, <1>4 DEF WatchInv, RemoteTypes, StoreTypes, WorkerTypes
<1>6. BoundTypes'
  BY <1>2 DEF BoundTypes
<1>7. QueueInv'
  <2>1. OneJob'
    BY <1>3 DEF WatchInv, QueueInv, OneJob, Callers
  <2>2. MarkHasAccount'
    BY <1>3 DEF WatchInv, QueueInv, MarkHasAccount, Marking, Callers, Commands
  <2>3. JobHasAccount' /\ RestartsLeft' /\ PagesLeft'
    BY <1>4 DEF JobHasAccount, RestartsLeft, PagesLeft, Nobody
  <2>4. QED BY <2>1, <2>2, <2>3 DEF QueueInv
<1>8. ScanInv'
  BY <1>4 DEF StoreInv, ScanInv, JobStands, JobSaw, Reads
<1>9. ReadIsNewer'
  BY <1>4 DEF ReadIsNewer, Got
<1>10. NewsIsNewer'
  BY DEF WatchInv, NewsIsNewer
<1>11. QED BY <1>5, <1>6, <1>7, <1>8, <1>9, <1>10 DEF WatchInv, StoreInv

(* The account is reconciled. *)
LEMMA ReconcileStep ==
  ASSUME WatchInv, NEW c \in Callers, Reconcile(c)
  PROVE  WatchInv'
<1>1. /\ flight \in [Callers -> FlightRecord] /\ RemoteTypes /\ StoreTypes /\ cred \in Auths
      /\ flight[c] \in FlightRecord /\ flight[c].pc = "reconcile" /\ job = NoJob
      /\ db \in StateRecord /\ rows \in [Threads -> RowRecord]
  BY DEF WatchInv, WorkerTypes, StoreTypes, Reconcile, MayRun
<1>2. UNCHANGED <<inbox, version, modified, job, done, used, faults>>
  BY DEF Reconcile, remote, bounds
<1>3. PICK pc \in {"auth", "idle"} : /\ flight' = [flight EXCEPT ![c] = Goes(flight[c], pc)]
                                     /\ c = "listener" => pc = "idle"
  BY DEF Reconcile, Goes
<1>4. Goes(flight[c], pc) \in FlightRecord /\ Goes(flight[c], pc).pc = pc
  <2>1. pc \in FlightPoints
    BY DEF FlightPoints
  <2>2. QED BY <1>1, <2>1, FlightFields
<1>5. cred' \in Auths
  <2>1. [cred EXCEPT !.watch = FALSE] \in Auths
    BY <1>1 DEF Auths
  <2>2. QED BY <1>1, <2>1 DEF Reconcile
<1>6. db' \in StateRecord /\ rows' \in [Threads -> RowRecord] /\ StoreInv'
  <2>1. CASE UNCHANGED store
    BY <1>1, <1>2, <2>1, StoreKept DEF store
  <2>2. CASE db' = NoState /\ rows' = NoRows
    BY <1>1, <2>2, StoreOps, Empties, StoreWiped
  <2>3. QED BY <2>1, <2>2 DEF Reconcile
<1>7. QED BY <1>1, <1>2, <1>3, <1>4, <1>5, <1>6, BesideStep

(* The marked threads leave the cache, and a scan that is on starts over. *)
LEMMA AppliesDoneStep ==
  ASSUME WatchInv, AppliesDone
  PROVE  WatchInv'
<1>1. /\ flight \in [Callers -> FlightRecord] /\ RemoteTypes /\ StoreTypes /\ cred \in Auths
      /\ "done" \in Callers /\ flight["done"].pc = "apply"
      /\ db \in StateRecord /\ rows \in [Threads -> RowRecord]
  BY DEF WatchInv, WorkerTypes, StoreTypes, AppliesDone, Callers, Commands
<1>2. job = NoJob
  BY <1>1 DEF WatchInv, QueueInv, OneJob, Marking
<1>3. /\ UNCHANGED <<inbox, version, modified, job, done, used, faults, cred>>
      /\ flight' = [flight EXCEPT !["done"] = Idle]
  BY DEF AppliesDone, Ends, remote, bounds
<1>4. Idle \in FlightRecord /\ Idle.pc = "idle" /\ NoRow \in RowRecord
  <2>1. 0 \in Past
    BY <1>1 DEF RemoteTypes, Past
  <2>2. NoRow \in RowRecord
    BY <2>1 DEF NoRow, RowRecord, Owners
  <2>3. QED BY <1>1, <2>2, Empties
<1>5. db' \in StateRecord /\ rows' \in [Threads -> RowRecord] /\ StoreInv'
  <2>1. CASE UNCHANGED store
    BY <1>1, <1>3, <2>1, StoreKept DEF store
  <2>2. PICK left : left = [t \in Threads |-> IF t \in flight["done"].marked THEN NoRow ELSE rows[t]]
    OBVIOUS
  <2>3. /\ left \in [Threads -> RowRecord]
        /\ \A t \in Threads : left[t] = NoRow \/ left[t] = rows[t]
    BY <1>1, <1>4, <2>2
  <2>4. CASE Scanning(db) /\ db' = Pending(db.account) /\ rows' = Unseen(left)
    <3>1. db.account \in Owners
      BY <1>1 DEF StateRecord
    <3>2. db' \in StateRecord /\ ~ Scanning(db') /\ db'.account = db.account
      BY <1>1, <2>4, <3>1, StoreOps
    <3>3. /\ rows' \in [Threads -> RowRecord]
          /\ \A t \in Threads : /\ rows'[t].owner = left[t].owner
                                /\ left[t] = NoRow => rows'[t] = NoRow
      BY <1>1, <2>3, <2>4, StoreOps
    <3>4. \A t \in Threads : rows'[t] = NoRow \/ (rows[t] # NoRow /\ rows'[t].owner = rows[t].owner)
      BY <2>3, <3>3
    <3>5. QED BY <3>2, <3>3, <3>4, StoreNarrowed
  <2>5. CASE ~ Scanning(db) /\ UNCHANGED db /\ rows' = left
    <3>1. db' \in StateRecord /\ ~ Scanning(db') /\ db'.account = db.account
      BY <1>1, <2>5
    <3>2. rows' \in [Threads -> RowRecord]
      BY <2>3, <2>5
    <3>3. \A t \in Threads : rows'[t] = NoRow \/ (rows[t] # NoRow /\ rows'[t].owner = rows[t].owner)
      BY <2>3, <2>5
    <3>4. QED BY <3>1, <3>2, <3>3, StoreNarrowed
  <2>6. QED BY <2>1, <2>2, <2>4, <2>5 DEF AppliesDone
<1>6. QED BY <1>1, <1>2, <1>3, <1>4, <1>5, BesideStep

(* The cooldown passes. *)
LEMMA CoolsDownStep ==
  ASSUME WatchInv, CoolsDown
  PROVE  WatchInv'
<1>1. /\ UNCHANGED <<inbox, version, modified, cred, rows, flight, job, done, used, faults>>
      /\ db' = [db EXCEPT !.cooling = FALSE] /\ db \in StateRecord
  BY DEF CoolsDown, remote, bounds, WatchInv, StoreTypes
<1>2. /\ db' \in StateRecord /\ db'.account = db.account /\ db'.status = db.status
      /\ db'.before = db.before /\ db'.page = db.page /\ db'.modified = db.modified
  BY <1>1 DEF StateRecord
<1>3. /\ Past' = Past /\ RowRecord' = RowRecord /\ StateRecord' = StateRecord
      /\ JobRecord' = JobRecord
  BY <1>1, SamePast
<1>4. /\ RemoteTypes' /\ StoreTypes' /\ WorkerTypes' /\ BoundTypes'
  BY <1>1, <1>2, <1>3
  DEF WatchInv, RemoteTypes, StoreTypes, WorkerTypes, BoundTypes
<1>5. QueueInv'
  BY <1>1
  DEF WatchInv, QueueInv, OneJob, MarkHasAccount, Marking, JobHasAccount, RestartsLeft, PagesLeft,
      Auth
<1>6. ScanInv'
  BY <1>1, <1>2
  DEF WatchInv, ScanInv, ScanHasPlace, ScanSaw, Scanning, JobStands, JobSaw, Reads, Stands, Auth,
      Validator, ReadSoFar, Reached, Window, Newer, Saw, Got
<1>7. RowsHaveTheirAccount' /\ NewsIsNewer' /\ ReadIsNewer'
  BY <1>1, <1>2 DEF WatchInv, RowsHaveTheirAccount, Present, NewsIsNewer, ReadIsNewer, Got, Auth
<1>8. QED BY <1>4, <1>5, <1>6, <1>7 DEF WatchInv

-----------------------------------------------------------------------------
(* The jobs. *)

JobAt(j, pc) == [j EXCEPT !.pc = pc]
JobValid(j, pc, m) == [j EXCEPT !.modified = m, !.pc = pc]

(* A job that moves on keeps what it has. *)
LEMMA JobFields ==
  ASSUME NEW j \in JobRecord, NEW pc \in JobPoints
  PROVE  /\ JobAt(j, pc) \in JobRecord /\ JobAt(j, pc).pc = pc
         /\ JobAt(j, pc).by = j.by /\ JobAt(j, pc).head = j.head /\ JobAt(j, pc).before = j.before
         /\ JobAt(j, pc).page = j.page /\ JobAt(j, pc).pages = j.pages /\ JobAt(j, pc).got = j.got
         /\ JobAt(j, pc).next = j.next /\ JobAt(j, pc).modified = j.modified
<1>1. JobAt(j, pc) \in JobRecord
  BY DEF JobRecord, JobAt
<1>2. JobAt(j, pc).pc = pc
  BY DEF JobRecord, JobAt
<1>3. /\ JobAt(j, pc).by = j.by /\ JobAt(j, pc).head = j.head /\ JobAt(j, pc).before = j.before
      /\ JobAt(j, pc).page = j.page /\ JobAt(j, pc).pages = j.pages /\ JobAt(j, pc).got = j.got
      /\ JobAt(j, pc).next = j.next /\ JobAt(j, pc).modified = j.modified
  BY DEF JobRecord, JobAt
<1>4. QED BY <1>1, <1>2, <1>3

(* And so does one that takes up the validator it is to ask with. *)
LEMMA ValidFields ==
  ASSUME NEW j \in JobRecord, NEW pc \in JobPoints, NEW m \in Past
  PROVE  /\ JobValid(j, pc, m) \in JobRecord /\ JobValid(j, pc, m).pc = pc
         /\ JobValid(j, pc, m).by = j.by /\ JobValid(j, pc, m).head = j.head
         /\ JobValid(j, pc, m).before = j.before /\ JobValid(j, pc, m).page = j.page
         /\ JobValid(j, pc, m).pages = j.pages /\ JobValid(j, pc, m).got = j.got
         /\ JobValid(j, pc, m).next = j.next /\ JobValid(j, pc, m).modified = m
<1>1. JobValid(j, pc, m) \in JobRecord
  BY DEF JobRecord, JobValid
<1>2. JobValid(j, pc, m).pc = pc /\ JobValid(j, pc, m).modified = m
  BY DEF JobRecord, JobValid
<1>3. /\ JobValid(j, pc, m).by = j.by /\ JobValid(j, pc, m).head = j.head
      /\ JobValid(j, pc, m).before = j.before /\ JobValid(j, pc, m).page = j.page
      /\ JobValid(j, pc, m).pages = j.pages /\ JobValid(j, pc, m).got = j.got
      /\ JobValid(j, pc, m).next = j.next
  BY DEF JobRecord, JobValid
<1>4. QED BY <1>1, <1>2, <1>3

(* What is known of a job that has begun. *)
LEMMA Running ==
  ASSUME WatchInv, job.pc # "none"
  PROVE  /\ job # NoJob /\ job \in JobRecord /\ flight \in [Callers -> FlightRecord]
         /\ job.by \in Runners /\ job.by \in Callers /\ flight[job.by] \in FlightRecord
         /\ faults \in 0 .. MaxFaults /\ RemoteTypes /\ StoreTypes
         /\ db \in StateRecord /\ rows \in [Threads -> RowRecord]
         /\ job.pc # "wipe" => Auth.login \in Accounts
<1>1. job # NoJob
  BY Empties DEF WatchInv
<1>2. job \in JobRecord /\ flight \in [Callers -> FlightRecord]
  BY DEF WatchInv, WorkerTypes
<1>3. job.by \in Runners /\ job.by \in Callers
  BY <1>1 DEF WatchInv, QueueInv, OneJob, Runners, Callers, Commands
<1>4. job.pc # "wipe" => Auth.login \in Accounts
  BY <1>1 DEF WatchInv, QueueInv, JobHasAccount
<1>5. QED BY <1>1, <1>2, <1>3, <1>4 DEF WatchInv, StoreTypes, BoundTypes

(* The end of a job gives its caller back. *)
LEMMA Ending ==
  ASSUME WatchInv, job.pc # "none", NEW outcome, EndJob(outcome)
  PROVE  /\ job' = NoJob
         /\ \E f \in FlightRecord : flight' = [flight EXCEPT ![job.by] = f]
<1>1. flight[job.by] \in FlightRecord /\ RemoteTypes
  BY Running
<1>2. PICK f \in {Idle, Goes(flight[job.by], "look")} : flight' = [flight EXCEPT ![job.by] = f]
  BY DEF EndJob, Returns, Goes
<1>3. "look" \in FlightPoints
  BY DEF FlightPoints
<1>4. Idle \in FlightRecord /\ Goes(flight[job.by], "look") \in FlightRecord
  BY <1>1, <1>3, Empties, FlightFields
<1>5. QED BY <1>2, <1>4 DEF EndJob

(* A job that ends without a write. *)
LEMMA EndsOnly ==
  ASSUME WatchInv, job.pc # "none", NEW outcome, EndJob(outcome),
         UNCHANGED <<inbox, version, modified, cred, db, rows, done, used>>,
         faults' \in 0 .. MaxFaults
  PROVE  WatchInv'
<1>1. PICK f \in FlightRecord : flight' = [flight EXCEPT ![job.by] = f]
  BY Ending
<1>2. job' = NoJob
  BY Ending
<1>3. job # NoJob /\ db \in StateRecord /\ rows \in [Threads -> RowRecord]
  BY Running
<1>4. StoreInv'
  BY StoreKept
<1>5. QED BY <1>1, <1>2, <1>3, <1>4, EndStep

(* A job that ends with its write. *)
LEMMA EndsWith ==
  ASSUME WatchInv, job.pc # "none", NEW outcome, EndJob(outcome),
         UNCHANGED <<inbox, version, modified, cred, done, used, faults>>,
         db' \in StateRecord, rows' \in [Threads -> RowRecord], StoreInv'
  PROVE  WatchInv'
<1>1. PICK f \in FlightRecord : flight' = [flight EXCEPT ![job.by] = f]
  BY Ending
<1>2. job' = NoJob
  BY Ending
<1>3. job # NoJob /\ faults \in 0 .. MaxFaults
  BY Running
<1>4. QED BY <1>1, <1>2, <1>3, EndStep

(* A job that goes on without reading or writing. *)
LEMMA GoesOnOnly ==
  ASSUME WatchInv, job.pc \notin {"none", "wipe"}, NEW pc \in {"revalidate", "record"},
         job' = [job EXCEPT !.pc = pc],
         UNCHANGED <<inbox, version, modified, cred, db, rows, flight, done, used>>,
         faults' \in 0 .. MaxFaults
  PROVE  WatchInv'
<1>1. /\ job # NoJob /\ job \in JobRecord /\ db \in StateRecord
      /\ rows \in [Threads -> RowRecord]
  BY Running
<1>2. /\ JobAt(job, pc) \in JobRecord /\ JobAt(job, pc).pc = pc /\ JobAt(job, pc).by = job.by
      /\ JobAt(job, pc).head = job.head /\ JobAt(job, pc).got = job.got
  <2>1. pc \in JobPoints
    BY DEF JobPoints
  <2>2. QED BY <1>1, <2>1, JobFields
<1>3. job' = JobAt(job, pc)
  BY DEF JobAt
<1>4. PICK j \in JobRecord : job' = j /\ j.pc = pc /\ j.by = job.by /\ j.head = job.head
                             /\ j.got = job.got
  BY <1>2, <1>3
<1>5. RestartsLeft' /\ PagesLeft'
  BY <1>4 DEF WatchInv, QueueInv, RestartsLeft, PagesLeft
<1>6. JobStands' /\ JobSaw'
  BY <1>4 DEF JobStands, JobSaw, Reads
<1>7. ReadIsNewer'
  BY <1>4 DEF WatchInv, ReadIsNewer, Got, Auth
<1>8. StoreInv'
  BY StoreKept
<1>9. QED BY <1>1, <1>4, <1>5, <1>6, <1>7, <1>8, JobStep

(* The jobs that are planned. *)
JobOf(j, c) == [j EXCEPT !.by = c]
JobFresh(j) == [j EXCEPT !.before = version, !.page = 1, !.next = 1]
JobHead(j, m) == [j EXCEPT !.pc = "fetch", !.head = TRUE, !.modified = m]
JobScan(j, before, page) ==
  [j EXCEPT !.pc = "fetch", !.before = before, !.page = page, !.next = page]
JobWipe(j, c) == [j EXCEPT !.pc = "wipe", !.by = c]

(* A job that is only planned has read nothing. *)
LEMMA NothingRead ==
  NoJob.head = FALSE /\ NoJob.pages = 0 /\ NoJob.got = NoFetch
BY DEF NoJob

(* What the steps of the planning make of a job. *)
LEMMA PlanOps ==
  ASSUME NEW j \in JobRecord, RemoteTypes, NEW c \in Runners
  PROVE  /\ JobOf(j, c) \in JobRecord /\ JobOf(j, c).by = c /\ JobOf(j, c).pc = j.pc
         /\ JobOf(j, c).head = j.head /\ JobOf(j, c).before = j.before
         /\ JobOf(j, c).page = j.page /\ JobOf(j, c).pages = j.pages
         /\ JobOf(j, c).got = j.got /\ JobOf(j, c).next = j.next
         /\ JobOf(j, c).modified = j.modified
         /\ JobFresh(j) \in JobRecord /\ JobFresh(j).page = 1 /\ JobFresh(j).next = 1
         /\ JobFresh(j).head = j.head /\ JobFresh(j).pages = j.pages /\ JobFresh(j).got = j.got
         /\ JobWipe(j, c) \in JobRecord /\ JobWipe(j, c).by = c /\ JobWipe(j, c).pc = "wipe"
         /\ JobWipe(j, c).head = j.head /\ JobWipe(j, c).got = j.got
<1>1. /\ version \in Past /\ 1 \in PageNumbers /\ c \in Callers
      /\ "wipe" \in JobPoints
  BY Bounds DEF RemoteTypes, Past, Runners, Callers, Commands, JobPoints
<1>2. JobOf(j, c) \in JobRecord
  BY <1>1 DEF JobRecord, JobOf
<1>3. /\ JobOf(j, c).by = c /\ JobOf(j, c).pc = j.pc
      /\ JobOf(j, c).head = j.head /\ JobOf(j, c).before = j.before
      /\ JobOf(j, c).page = j.page /\ JobOf(j, c).pages = j.pages
      /\ JobOf(j, c).got = j.got /\ JobOf(j, c).next = j.next
      /\ JobOf(j, c).modified = j.modified
  BY DEF JobRecord, JobOf
<1>4. JobFresh(j) \in JobRecord
  BY <1>1 DEF JobRecord, JobFresh
<1>5. /\ JobFresh(j).page = 1 /\ JobFresh(j).next = 1
      /\ JobFresh(j).head = j.head /\ JobFresh(j).pages = j.pages /\ JobFresh(j).got = j.got
  BY DEF JobRecord, JobFresh
<1>6. JobWipe(j, c) \in JobRecord
  BY <1>1 DEF JobRecord, JobWipe
<1>7. /\ JobWipe(j, c).by = c /\ JobWipe(j, c).pc = "wipe"
      /\ JobWipe(j, c).head = j.head /\ JobWipe(j, c).got = j.got
  BY DEF JobRecord, JobWipe
<1>8. QED BY <1>2, <1>3, <1>4, <1>5, <1>6, <1>7

(* The head of a converged inbox. *)
LEMMA HeadFields ==
  ASSUME NEW j \in JobRecord, NEW m \in Past
  PROVE  /\ JobHead(j, m) \in JobRecord /\ JobHead(j, m).pc = "fetch" /\ JobHead(j, m).head
         /\ JobHead(j, m).pages = j.pages /\ JobHead(j, m).got = j.got
<1>1. "fetch" \in JobPoints
  BY DEF JobPoints
<1>2. JobHead(j, m) \in JobRecord
  BY <1>1 DEF JobRecord, JobHead
<1>3. /\ JobHead(j, m).pc = "fetch" /\ JobHead(j, m).head
      /\ JobHead(j, m).pages = j.pages /\ JobHead(j, m).got = j.got
  BY DEF JobRecord, JobHead
<1>4. QED BY <1>2, <1>3

(* The pages that a scan goes on with. *)
LEMMA ScanFields ==
  ASSUME NEW j \in JobRecord, NEW before \in Past, NEW page \in PageNumbers
  PROVE  /\ JobScan(j, before, page) \in JobRecord /\ JobScan(j, before, page).pc = "fetch"
         /\ JobScan(j, before, page).head = j.head /\ JobScan(j, before, page).pages = j.pages
         /\ JobScan(j, before, page).got = j.got /\ JobScan(j, before, page).before = before
         /\ JobScan(j, before, page).page = page /\ JobScan(j, before, page).next = page
<1>1. "fetch" \in JobPoints
  BY DEF JobPoints
<1>2. JobScan(j, before, page) \in JobRecord
  BY <1>1 DEF JobRecord, JobScan
<1>3. /\ JobScan(j, before, page).pc = "fetch"
      /\ JobScan(j, before, page).head = j.head /\ JobScan(j, before, page).pages = j.pages
      /\ JobScan(j, before, page).got = j.got /\ JobScan(j, before, page).before = before
      /\ JobScan(j, before, page).page = page /\ JobScan(j, before, page).next = page
  BY DEF JobRecord, JobScan
<1>4. QED BY <1>2, <1>3

(* What a batch is planned to do. *)
LEMMA Planning ==
  ASSUME RemoteTypes, NEW c \in Runners, NEW state \in StateRecord
  PROVE  \E j \in JobRecord :
           /\ Plan(c, state) = j /\ j.got = NoFetch /\ j.pages = 0
           /\ \/ /\ Scanning(state) /\ j.pc = "fetch" /\ ~ j.head /\ j.before = state.before
                 /\ j.page = state.page /\ j.next = state.page
              \/ c # "refresh" /\ j.pc = "fetch" /\ j.head
              \/ j.pc = "start" /\ ~ j.head /\ j.page = 1 /\ j.next = 1
<1>1. NoJob \in JobRecord /\ ~ NoJob.head /\ NoJob.pages = 0 /\ NoJob.got = NoFetch
  BY Empties, NothingRead
<1>2. /\ state.before \in Past /\ state.page \in PageNumbers /\ state.modified \in Past
      /\ "start" \in JobPoints
  BY DEF StateRecord, JobPoints
<1>3. CASE Scanning(state)
  <2>1. Plan(c, state) = JobScan(NoJob, state.before, state.page)
    BY <1>3 DEF Plan, JobScan
  <2>2. QED BY <1>1, <1>2, <1>3, <2>1, ScanFields
<1>4. CASE ~ Scanning(state)
  <2>1. Plan(c, state) = IF c # "refresh" /\ state.status = "complete"
                         THEN JobHead(JobFresh(NoJob), state.modified)
                         ELSE JobAt(JobFresh(NoJob), "start")
    BY <1>4 DEF Plan, JobHead, JobFresh, JobAt
  <2>2. /\ JobFresh(NoJob) \in JobRecord /\ ~ JobFresh(NoJob).head /\ JobFresh(NoJob).pages = 0
        /\ JobFresh(NoJob).got = NoFetch /\ JobFresh(NoJob).page = 1 /\ JobFresh(NoJob).next = 1
    BY <1>1, PlanOps
  <2>3. /\ JobHead(JobFresh(NoJob), state.modified) \in JobRecord
        /\ JobHead(JobFresh(NoJob), state.modified).pc = "fetch"
        /\ JobHead(JobFresh(NoJob), state.modified).head
        /\ JobHead(JobFresh(NoJob), state.modified).pages = 0
        /\ JobHead(JobFresh(NoJob), state.modified).got = NoFetch
    BY <1>2, <2>2, HeadFields
  <2>4. /\ JobAt(JobFresh(NoJob), "start") \in JobRecord
        /\ JobAt(JobFresh(NoJob), "start").pc = "start"
        /\ ~ JobAt(JobFresh(NoJob), "start").head
        /\ JobAt(JobFresh(NoJob), "start").pages = 0
        /\ JobAt(JobFresh(NoJob), "start").got = NoFetch
        /\ JobAt(JobFresh(NoJob), "start").page = 1 /\ JobAt(JobFresh(NoJob), "start").next = 1
    BY <1>2, <2>2, JobFields
  <2>5. CASE c # "refresh" /\ state.status = "complete"
    BY <2>1, <2>3, <2>5
  <2>6. CASE ~ (c # "refresh" /\ state.status = "complete")
    BY <2>1, <2>4, <2>6
  <2>7. QED BY <2>5, <2>6
<1>5. QED BY <1>3, <1>4

(* A refresh begins with the scope. *)
LEMMA StartScopeStep ==
  ASSUME WatchInv, StartScope
  PROVE  WatchInv'
<1>1. /\ flight \in [Callers -> FlightRecord] /\ RemoteTypes /\ cred \in Auths
      /\ "refresh" \in Callers /\ "refresh" \in Runners /\ flight["refresh"] \in FlightRecord
      /\ flight["refresh"].pc = "scope" /\ job = NoJob /\ ~ Marking
      /\ BoundTypes /\ faults \in 0 .. MaxFaults
  BY DEF WatchInv, WorkerTypes, StoreTypes, BoundTypes, StartScope, MayRun, Callers, Commands,
         Runners
<1>2. UNCHANGED <<inbox, version, modified, db, rows, done, cred, faults, used>>
  BY DEF StartScope, remote, store, bounds
<1>3. CASE /\ SameCredential(flight["refresh"].auth)
           /\ Run("refresh", [NoJob EXCEPT !.pc = "scope"])
  <2>1. PICK j \in JobRecord : /\ job' = j /\ j.by = "refresh" /\ j.pc = "scope" /\ ~ j.head
                               /\ j.got = NoFetch
    <3>1. NoJob \in JobRecord /\ "scope" \in JobPoints
      BY <1>1, Empties DEF JobPoints
    <3>2. /\ JobAt(NoJob, "scope") \in JobRecord /\ JobAt(NoJob, "scope").pc = "scope"
          /\ ~ JobAt(NoJob, "scope").head /\ JobAt(NoJob, "scope").got = NoFetch
      BY <3>1, JobFields, NothingRead
    <3>3. job' = JobOf(JobAt(NoJob, "scope"), "refresh")
      BY <1>3 DEF Run, JobOf, JobAt
    <3>4. QED BY <1>1, <3>2, <3>3, PlanOps
  <2>2. PICK f \in FlightRecord :
          /\ flight' = [flight EXCEPT !["refresh"] = f] /\ f.pc = "job"
          /\ f.auth = flight["refresh"].auth /\ f.restarts = flight["refresh"].restarts
    <3>1. flight' = [flight EXCEPT !["refresh"] = Goes(flight["refresh"], "job")]
      BY <1>3 DEF Run, Goes
    <3>2. "job" \in FlightPoints
      BY DEF FlightPoints
    <3>3. /\ Goes(flight["refresh"], "job") \in FlightRecord
          /\ Goes(flight["refresh"], "job").pc = "job"
          /\ Goes(flight["refresh"], "job").auth = flight["refresh"].auth
          /\ Goes(flight["refresh"], "job").restarts = flight["refresh"].restarts
      BY <1>1, <3>2, FlightFields
    <3>4. QED BY <3>1, <3>3
  <2>3. f.auth.login \in Accounts
    BY <1>1, <1>3, <2>2 DEF SameCredential, FlightRecord, Auths
  <2>4. RestartsLeft' /\ PagesLeft' /\ JobStands' /\ JobSaw'
    BY <2>1 DEF RestartsLeft, PagesLeft, JobStands, JobSaw, Reads
  <2>5. QED BY <1>1, <1>2, <2>1, <2>2, <2>3, <2>4, StartStep
<1>4. CASE flight' = [flight EXCEPT !["refresh"] = Idle] /\ UNCHANGED job
  <2>1. Idle \in FlightRecord /\ Idle.pc = "idle"
    BY <1>1, Empties
  <2>2. BoundTypes'
    BY <1>1, <1>2 DEF BoundTypes
  <2>3. QED BY <1>1, <1>2, <1>4, <2>1, <2>2, FlightStep
<1>5. QED BY <1>3, <1>4 DEF StartScope

(* A batch is planned, or there is nothing to do. *)
LEMMA StartBatchStep ==
  ASSUME WatchInv, NEW c \in Callers, StartBatch(c)
  PROVE  WatchInv'
<1> DEFINE a == flight[c].auth.login
           state == StateOf(a)
<1>1. /\ flight \in [Callers -> FlightRecord] /\ RemoteTypes /\ StoreTypes /\ cred \in Auths
      /\ c \in {"refresh", "poll", "older"} /\ c \in Runners /\ flight[c] \in FlightRecord
      /\ job = NoJob /\ ~ Marking
      /\ BoundTypes /\ faults \in 0 .. MaxFaults
  BY DEF WatchInv, WorkerTypes, StoreTypes, BoundTypes, StartBatch, MayRun, Callers, Commands,
         Runners
<1>2. UNCHANGED <<inbox, version, modified, db, rows, done, cred, faults, used>>
  BY DEF StartBatch, remote, store, bounds
<1>3. CASE Authorized(flight[c].auth) /\ Run(c, Plan(c, state))
  <2>1. a \in Accounts
    BY <1>1, <1>3 DEF Authorized, SameCredential, FlightRecord, Auths
  <2>2. state \in StateRecord
    BY <1>1, <2>1, StoreOps DEF Owners
  <2>3. PICK p \in JobRecord :
           /\ Plan(c, state) = p /\ p.got = NoFetch /\ p.pages = 0
           /\ \/ /\ Scanning(state) /\ p.pc = "fetch" /\ ~ p.head /\ p.before = state.before
                 /\ p.page = state.page /\ p.next = state.page
              \/ c # "refresh" /\ p.pc = "fetch" /\ p.head
              \/ p.pc = "start" /\ ~ p.head /\ p.page = 1 /\ p.next = 1
    BY <1>1, <2>2, Planning
  <2>4. PICK j \in JobRecord :
           /\ job' = j /\ j.by = c /\ j.pc = p.pc /\ j.head = p.head /\ j.before = p.before
           /\ j.page = p.page /\ j.pages = 0 /\ j.got = NoFetch /\ j.next = p.next
    <3>1. job' = JobOf(p, c)
      BY <1>3, <2>3 DEF Run, JobOf
    <3>2. QED BY <1>1, <2>3, <3>1, PlanOps
  <2>5. PICK f \in FlightRecord :
          /\ flight' = [flight EXCEPT ![c] = f] /\ f.pc = "job"
          /\ f.auth = flight[c].auth /\ f.restarts = flight[c].restarts
    <3>1. flight' = [flight EXCEPT ![c] = Goes(flight[c], "job")]
      BY <1>3 DEF Run, Goes
    <3>2. "job" \in FlightPoints
      BY DEF FlightPoints
    <3>3. /\ Goes(flight[c], "job") \in FlightRecord /\ Goes(flight[c], "job").pc = "job"
          /\ Goes(flight[c], "job").auth = flight[c].auth
          /\ Goes(flight[c], "job").restarts = flight[c].restarts
      BY <1>1, <3>2, FlightFields
    <3>4. QED BY <3>1, <3>3
  <2>6. flight'[c] = f /\ Auth'.login = a
    BY <1>1, <2>4, <2>5 DEF Auth
  <2>7. RestartsLeft'
    BY <2>3, <2>4 DEF RestartsLeft
  <2>8. PagesLeft'
    BY <2>3, <2>4, Bounds DEF PagesLeft
  <2>9. CASE Scanning(state) /\ ~ p.head
    <3>1. db.account = a /\ state = db
      <4>1. ~ Scanning(Pending(a))
        BY <1>1, <2>1, StoreOps DEF Owners
      <4>2. QED BY <2>9, <4>1 DEF StateOf
    <3>2. Scanning(db) /\ db.page >= 1 /\ db.page \in PageNumbers
      BY <1>1, <2>9, <3>1 DEF WatchInv, ScanInv, ScanHasPlace, StoreTypes, StateRecord
    <3>3. (Stands' /\ job'.page >= 1) \/ p.pc = "start"
      BY <1>2, <2>3, <2>4, <2>6, <2>9, <3>1, <3>2 DEF Stands, Scanning
    <3>4. JobStands'
      <4>1. p.pc = "fetch" => p.page \in Nat /\ p.next = p.page
        BY <2>3, <2>9, <3>1, <3>2, Bounds
      <4>2. QED BY <2>3, <2>4, <3>3, <4>1 DEF JobStands, Reads
    <3>5. JobSaw'
      <4>1. PICK b \in Accounts : b = a
        BY <2>1
      <4>2. Auth'.login = b
        BY <2>6, <4>1
      <4>3. SUFFICES ASSUME p.pc = "fetch", modified[b] = Validator'
                     PROVE  ReadSoFar(b)' \subseteq (Saw \cup Got)'
        BY <1>2, <2>3, <2>4, <4>2 DEF JobSaw, Reads
      <4>4. p.before = db.before /\ p.page = db.page /\ p.next = db.page
        BY <2>3, <2>9, <3>1, <4>3
      <4>5. db.page # 0
        BY <3>2, Bounds
      <4>6. ReadSoFar(b)' = Reached(b, db.before, db.page)
        BY <1>2, <2>4, <4>4, <4>5 DEF ReadSoFar, Reached, Window, Newer
      <4>7. CASE db.page = 1
        BY <4>6, <4>7, FirstPage
      <4>8. CASE db.page # 1
        <5>1. modified[db.account] = db.modified
          BY <1>2, <2>4, <3>1, <4>1, <4>3, <4>4, <4>8 DEF Validator
        <5>2. Reached(b, db.before, db.page) \subseteq Saw
          BY <3>1, <3>2, <4>1, <5>1 DEF WatchInv, ScanInv, ScanSaw
        <5>3. Saw' = Saw
          BY <1>2 DEF Saw
        <5>4. QED BY <4>6, <5>2, <5>3
      <4>9. QED BY <4>7, <4>8
    <3>6. QED BY <1>1, <1>2, <2>1, <2>3, <2>4, <2>5, <2>7, <2>8, <3>4, <3>5, StartStep
  <2>10. CASE p.head \/ p.pc = "start"
    <3>1. JobStands' /\ JobSaw'
      BY <2>4, <2>10 DEF JobStands, JobSaw, Reads
    <3>2. QED BY <1>1, <1>2, <2>1, <2>3, <2>4, <2>5, <2>7, <2>8, <3>1, StartStep
  <2>11. QED BY <2>3, <2>9, <2>10
<1>4. CASE Returns(c, "changed") /\ UNCHANGED job
  <2>1. Idle \in FlightRecord /\ Idle.pc = "idle"
    BY <1>1, Empties
  <2>2. flight' = [flight EXCEPT ![c] = Idle]
    BY <1>4 DEF Returns, GoesOn
  <2>3. BoundTypes'
    BY <1>1, <1>2 DEF BoundTypes
  <2>4. QED BY <1>1, <1>2, <1>4, <2>1, <2>2, <2>3, FlightStep
<1>5. QED BY <1>3, <1>4 DEF StartBatch

(* Watch is taken off the credential before it is wiped. *)
LEMMA StartWipeStep ==
  ASSUME WatchInv, NEW c \in Callers, StartWipe(c)
  PROVE  WatchInv'
<1>1. /\ flight \in [Callers -> FlightRecord] /\ RemoteTypes /\ cred \in Auths
      /\ c \in Runners /\ c # "refresh" /\ flight[c] \in FlightRecord
      /\ job = NoJob /\ ~ Marking
  BY DEF WatchInv, WorkerTypes, StoreTypes, StartWipe, MayRun, Runners
<1>2. /\ UNCHANGED <<inbox, version, modified, db, rows, done, faults, used>>
      /\ cred' = [cred EXCEPT !.watch = FALSE]
  BY DEF StartWipe, remote, store, bounds
<1>3. cred' \in Auths
  BY <1>1, <1>2 DEF Auths
<1>4. PICK j \in JobRecord : /\ job' = j /\ j.by = c /\ j.pc = "wipe" /\ j.got = NoFetch
  <2>1. job' = JobWipe(NoJob, c)
    BY DEF StartWipe, JobWipe
  <2>2. NoJob \in JobRecord
    BY <1>1, Empties
  <2>3. QED BY <1>1, <2>1, <2>2, PlanOps, NothingRead
<1>5. PICK f \in FlightRecord :
        /\ flight' = [flight EXCEPT ![c] = f] /\ f.pc = "job" /\ f.restarts = flight[c].restarts
  <2>1. flight' = [flight EXCEPT ![c] = Asks(flight[c], "job", cred)]
    BY DEF StartWipe, Asks
  <2>2. "job" \in FlightPoints
    BY DEF FlightPoints
  <2>3. /\ Asks(flight[c], "job", cred) \in FlightRecord /\ Asks(flight[c], "job", cred).pc = "job"
        /\ Asks(flight[c], "job", cred).restarts = flight[c].restarts
    BY <1>1, <2>2, FlightFields
  <2>4. QED BY <2>1, <2>3
<1>6. RestartsLeft' /\ PagesLeft' /\ JobStands' /\ JobSaw'
  BY <1>1, <1>4 DEF RestartsLeft, PagesLeft, JobStands, JobSaw, Reads
<1>7. QED BY <1>1, <1>2, <1>3, <1>4, <1>5, <1>6, StartStep

-----------------------------------------------------------------------------
(* What the jobs write. *)

Begun(a, before) == [Pending(a) EXCEPT !.status = "scanning", !.before = before, !.page = 1]
Cools(state) == [state EXCEPT !.cooling = TRUE]
Failed(state) == [state EXCEPT !.status = "partial"]

(* A record that is put there for an account and has a scan is the one found. *)
LEMMA ScanIsFound ==
  ASSUME RemoteTypes, StoreTypes, NEW a \in Owners, Scanning(StateOf(a))
  PROVE  db.account = a /\ StateOf(a) = db
<1>1. ~ Scanning(Pending(a))
  BY StoreOps
<1>2. QED BY <1>1 DEF StateOf

(* A scan that starts has read nothing, and the account keeps its rows. *)
LEMMA StoreStarted ==
  ASSUME WatchInv, NEW a \in Accounts, NEW before \in Past,
         UNCHANGED <<inbox, modified>>, db' = Begun(a, before), rows' = Unseen(RowsOf(a))
  PROVE  /\ db' \in StateRecord /\ db'.account = a /\ Scanning(db')
         /\ db'.before = before /\ db'.page = 1
         /\ rows' \in [Threads -> RowRecord] /\ StoreInv'
<1>1. RemoteTypes /\ StoreTypes /\ a \in Owners
  BY DEF WatchInv, Owners
<1>2. Pending(a) \in StateRecord /\ Pending(a).account = a
  BY <1>1, StoreOps
<1>3. db' \in StateRecord
  BY <1>2, Bounds DEF Begun, StateRecord, Statuses
<1>4. /\ db'.account = a /\ db'.status = "scanning"
      /\ db'.before = before /\ db'.page = 1
  BY <1>2 DEF Begun, StateRecord
<1>5. RowsOf(a) \in [Threads -> RowRecord]
  BY <1>1, StoreOps
<1>6. /\ rows' \in [Threads -> RowRecord]
      /\ \A t \in Threads : /\ rows'[t].owner = RowsOf(a)[t].owner
                            /\ RowsOf(a)[t] = NoRow => rows'[t] = NoRow
  BY <1>1, <1>5, StoreOps
<1>7. \A t \in Threads : RowsOf(a)[t] # NoRow => RowsOf(a)[t].owner = a
  <2>1. CASE db.account = a
    BY <2>1 DEF WatchInv, RowsHaveTheirAccount, Present, RowsOf
  <2>2. CASE db.account # a
    BY <2>2 DEF RowsOf, NoRows
  <2>3. QED BY <2>1, <2>2
<1>8. RowsHaveTheirAccount'
  BY <1>4, <1>6, <1>7 DEF RowsHaveTheirAccount, Present
<1>9. ScanHasPlace'
  BY <1>4 DEF ScanHasPlace
<1>10. ScanSaw'
  <2>1. Reached(a, before, 1)' = Reached(a, before, 1)
    BY DEF Reached, Window, Newer
  <2>2. Reached(db.account, db.before, db.page)' = Reached(a, before, 1)'
    BY <1>4 DEF Reached, Window, Newer
  <2>3. QED BY <2>1, <2>2, FirstPage DEF ScanSaw
<1>11. QED BY <1>3, <1>4, <1>6, <1>8, <1>9, <1>10 DEF StoreInv, Scanning

(* The scope is written, and with it the record of its account. *)
LEMMA WriteScopeStep ==
  ASSUME WatchInv, WriteScope
  PROVE  WatchInv'
<1> DEFINE a == Auth.login
<1>1. /\ job.pc = "scope" /\ job.pc # "none" /\ job' = NoJob
      /\ UNCHANGED <<inbox, version, modified, cred, done, used, faults>>
  BY DEF WriteScope, remote, bounds
<1>2. /\ job # NoJob /\ flight[job.by] \in FlightRecord /\ faults \in 0 .. MaxFaults
      /\ RemoteTypes /\ StoreTypes /\ db \in StateRecord /\ rows \in [Threads -> RowRecord]
      /\ a \in Accounts
  BY <1>1, Running
<1>3. PICK f \in FlightRecord : flight' = [flight EXCEPT ![job.by] = f]
  <2>1. "queued" \in FlightPoints
    BY DEF FlightPoints
  <2>2. Goes(flight[job.by], "queued") \in FlightRecord /\ Idle \in FlightRecord
    BY <1>2, <2>1, FlightFields, Empties
  <2>3. flight' = [flight EXCEPT ![job.by] =
                     IF Authorized(Auth) THEN Goes(flight[job.by], "queued") ELSE Idle]
    BY DEF WriteScope, Goes
  <2>4. QED BY <2>2, <2>3
<1>4. db' \in StateRecord /\ rows' \in [Threads -> RowRecord] /\ StoreInv'
  <2>1. CASE UNCHANGED store
    BY <1>1, <1>2, <2>1, StoreKept DEF store
  <2>2. CASE db' = StateOf(a) /\ rows' = RowsOf(a)
    <3>1. a \in Owners
      BY <1>2 DEF Owners
    <3>2. db' \in StateRecord /\ db'.account = a /\ rows' \in [Threads -> RowRecord]
      BY <1>2, <2>2, <3>1, StoreOps
    <3>3. Scanning(db') => db.account = a /\ db' = db
      BY <1>2, <2>2, <3>1, ScanIsFound
    <3> HIDE DEF a
    <3>4. StoreInv'
      BY <1>1, <2>2, <3>1, <3>2, <3>3, StoreReplaced DEF Scanning
    <3>5. QED BY <3>2, <3>4
  <2>3. QED BY <2>1, <2>2 DEF WriteScope
<1>5. QED BY <1>1, <1>2, <1>3, <1>4, EndStep

(* A scan starts, and its first page is next. *)
LEMMA StartsStep ==
  ASSUME WatchInv, Starts
  PROVE  WatchInv'
<1>1. /\ job.pc = "start" /\ job.pc \notin {"none", "wipe"}
      /\ job' = JobAt(job, "fetch")
      /\ UNCHANGED <<inbox, version, modified, cred, flight, done, used, faults>>
  BY DEF Starts, JobAt, remote, bounds
<1>2. /\ job # NoJob /\ job \in JobRecord /\ faults \in 0 .. MaxFaults
      /\ Auth.login \in Accounts /\ job.before \in Past
  BY <1>1, Running DEF JobRecord
<1>3. PICK a \in Accounts : a = Auth.login
  BY <1>2
<1>4. db' = Begun(a, job.before) /\ rows' = Unseen(RowsOf(a))
  BY <1>3 DEF Starts, Started, Begun
<1>5. /\ db' \in StateRecord /\ db'.account = a /\ Scanning(db')
      /\ db'.before = job.before /\ db'.page = 1
      /\ rows' \in [Threads -> RowRecord] /\ StoreInv'
  BY <1>1, <1>2, <1>4, StoreStarted
<1>6. PICK j \in JobRecord :
        /\ job' = j /\ j.pc = "fetch" /\ j.by = job.by /\ j.head = job.head
        /\ j.before = job.before /\ j.page = job.page /\ j.pages = job.pages
        /\ j.got = job.got /\ j.next = job.next
  <2>1. "fetch" \in JobPoints
    BY DEF JobPoints
  <2>2. QED BY <1>1, <1>2, <2>1, JobFields
<1>7. job.page = 1 /\ job.next = 1 /\ job.pages = 0
  BY <1>1 DEF WatchInv, QueueInv, PagesLeft
<1>8. RestartsLeft' /\ PagesLeft'
  BY <1>6, <1>7, Bounds DEF WatchInv, QueueInv, RestartsLeft, PagesLeft
<1>9. Auth'.login = a
  BY <1>1, <1>3, <1>6 DEF Auth
<1>10. JobStands'
  BY <1>5, <1>6, <1>7, <1>9 DEF JobStands, Stands
<1>11. JobSaw'
  <2>1. ReadSoFar(a)' = Reached(a, job.before, 1)
    BY <1>1, <1>6, <1>7 DEF ReadSoFar, Reached, Window, Newer
  <2>2. QED BY <1>9, <2>1, FirstPage DEF JobSaw
<1>12. ReadIsNewer'
  BY <1>1, <1>3, <1>6, <1>9 DEF WatchInv, ReadIsNewer, Got
<1>13. QED
  BY <1>1, <1>2, <1>5, <1>6, <1>8, <1>10, <1>11, <1>12, JobStep

(* The head of a converged inbox has not changed. *)
LEMMA FetchesHeadStep ==
  ASSUME WatchInv, FetchesHeadUnchanged
  PROVE  WatchInv'
<1>1. /\ job.pc = "fetch" /\ job.pc \notin {"none", "wipe"}
      /\ UNCHANGED <<inbox, version, modified, cred, db, rows, done, used, faults>>
  BY DEF FetchesHeadUnchanged, remote, store, bounds
<1>2. faults' \in 0 .. MaxFaults
  BY <1>1, Running
<1>3. CASE EndJob("changed")
  BY <1>1, <1>2, <1>3, EndsOnly
<1>4. CASE job' = [job EXCEPT !.pc = "revalidate"] /\ UNCHANGED flight
  BY <1>1, <1>2, <1>4, GoesOnOnly
<1>5. QED BY <1>3, <1>4 DEF FetchesHeadUnchanged

(* A request fails. *)
LEMMA RequestFailsStep ==
  ASSUME WatchInv, RequestFails
  PROVE  WatchInv'
<1>1. /\ job.pc \in {"fetch", "validate"} /\ job.pc \notin {"none", "wipe"}
      /\ UNCHANGED <<inbox, version, modified, cred, db, rows, done, used>>
      /\ faults < MaxFaults /\ faults' = faults + 1
  BY DEF RequestFails, remote, store
<1>2. faults' \in 0 .. MaxFaults
  BY <1>1, Running, Bounds
<1>3. CASE EndJob("changed")
  BY <1>1, <1>2, <1>3, EndsOnly
<1>4. CASE job' = [job EXCEPT !.pc = "record"] /\ UNCHANGED flight
  BY <1>1, <1>2, <1>4, GoesOnOnly
<1>5. QED BY <1>3, <1>4 DEF RequestFails

(* The cooldown of a converged inbox begins again. *)
LEMMA RevalidatesStep ==
  ASSUME WatchInv, Revalidates
  PROVE  WatchInv'
<1>1. /\ job.pc = "revalidate" /\ job.pc \notin {"none", "wipe"} /\ EndJob("ok")
      /\ UNCHANGED <<inbox, version, modified, cred, done, used, faults>>
  BY DEF Revalidates, remote, bounds
<1>2. Auth.login \in Accounts /\ RemoteTypes /\ StoreTypes
  BY <1>1, Running
<1>3. PICK a \in Owners : a = Auth.login
  BY <1>2 DEF Owners
<1>4. db' = Cools(StateOf(a)) /\ rows' = RowsOf(a)
  BY <1>3 DEF Revalidates, Cools
<1>5. StateOf(a) \in StateRecord /\ StateOf(a).account = a /\ RowsOf(a) \in [Threads -> RowRecord]
  BY <1>2, StoreOps
<1>6. db' \in StateRecord
  BY <1>4, <1>5 DEF Cools, StateRecord
<1>7. /\ db'.account = a /\ db'.status = StateOf(a).status /\ db'.before = StateOf(a).before
      /\ db'.page = StateOf(a).page /\ db'.modified = StateOf(a).modified
  BY <1>4, <1>5 DEF Cools, StateRecord
<1>8. Scanning(StateOf(a)) => db.account = a /\ StateOf(a) = db
  BY <1>2, ScanIsFound
<1>9. StoreInv'
  BY <1>1, <1>4, <1>7, <1>8, StoreReplaced DEF Scanning
<1>10. QED BY <1>1, <1>4, <1>5, <1>6, <1>9, EndsWith

(* A failure is recorded. *)
LEMMA RecordsStep ==
  ASSUME WatchInv, Records
  PROVE  WatchInv'
<1>1. /\ job.pc = "record" /\ job.pc \notin {"none", "wipe"} /\ EndJob("failed")
      /\ UNCHANGED <<inbox, version, modified, cred, done, used, faults>>
  BY DEF Records, remote, bounds
<1>2. Auth.login \in Accounts /\ RemoteTypes /\ StoreTypes
  BY <1>1, Running
<1>3. PICK a \in Owners : a = Auth.login
  BY <1>2 DEF Owners
<1>4. /\ db' = IF Scanning(StateOf(a)) THEN Failed(StateOf(a)) ELSE StateOf(a)
      /\ rows' = RowsOf(a)
  BY <1>3 DEF Records, Failed
<1>5. StateOf(a) \in StateRecord /\ StateOf(a).account = a /\ RowsOf(a) \in [Threads -> RowRecord]
  BY <1>2, StoreOps
<1>6. \A s \in StateRecord :
        /\ Failed(s) \in StateRecord /\ Failed(s).account = s.account
        /\ Failed(s).before = s.before /\ Failed(s).page = s.page
        /\ Failed(s).modified = s.modified
  BY DEF Failed, StateRecord, Statuses
<1>7. /\ db' \in StateRecord /\ db'.account = a /\ db'.before = StateOf(a).before
      /\ db'.page = StateOf(a).page /\ db'.modified = StateOf(a).modified
  BY <1>4, <1>5, <1>6
<1>8. Scanning(db') => Scanning(StateOf(a))
  BY <1>4
<1>9. Scanning(StateOf(a)) => db.account = a /\ StateOf(a) = db
  BY <1>2, ScanIsFound
<1>10. StoreInv'
  BY <1>1, <1>4, <1>7, <1>8, <1>9, StoreReplaced
<1>11. QED BY <1>1, <1>4, <1>5, <1>7, <1>10, EndsWith

(* Watch is cleared, or disconnected. *)
LEMMA WipesStep ==
  ASSUME WatchInv, Wipes
  PROVE  WatchInv'
<1>1. /\ job.pc = "wipe" /\ job.pc # "none" /\ EndJob("ok") /\ rows' = NoRows
      /\ UNCHANGED <<inbox, version, modified, cred, done, used, faults>>
  BY DEF Wipes, remote, bounds
<1>2. RemoteTypes /\ StoreTypes /\ db.account \in Owners
  BY <1>1, Running DEF StateRecord
<1>3. db' \in StateRecord /\ ~ Scanning(db') /\ rows' \in [Threads -> RowRecord]
  BY <1>1, <1>2, StoreOps, Empties DEF Wipes
<1>4. StoreInv'
  BY <1>1, <1>2, <1>3, StoreWiped
<1>5. QED BY <1>1, <1>3, <1>4, EndsWith

(* A scan starts over. *)
LEMMA RestartsStep ==
  ASSUME WatchInv, Restarts
  PROVE  WatchInv'
<1>1. /\ job.pc = "restart" /\ job.pc \notin {"none", "wipe"} /\ job' = NoJob
      /\ UNCHANGED <<inbox, version, modified, cred, done, used, faults>>
  BY DEF Restarts, remote, bounds
<1>2. /\ job # NoJob /\ job \in JobRecord /\ flight[job.by] \in FlightRecord
      /\ faults \in 0 .. MaxFaults /\ RemoteTypes /\ Auth.login \in Accounts
  BY <1>1, Running
<1>3. PICK a \in Accounts : a = Auth.login
  BY <1>2
<1>4. PICK before \in Past : db' = Begun(a, before)
  <2>1. job.before \in Past /\ version \in Past
    BY <1>2 DEF JobRecord, RemoteTypes, Past
  <2>2. db' = Begun(a, IF job.head THEN job.before ELSE version)
    BY <1>3 DEF Restarts, Started, Begun
  <2>3. QED BY <2>1, <2>2
<1>5. rows' = Unseen(RowsOf(a))
  BY <1>3 DEF Restarts
<1>6. db' \in StateRecord /\ rows' \in [Threads -> RowRecord] /\ StoreInv'
  BY <1>1, <1>4, <1>5, StoreStarted
<1>7. PICK f \in FlightRecord : flight' = [flight EXCEPT ![job.by] = f]
  <2>1. CASE job.by # "refresh"
    <3>1. Idle \in FlightRecord
      BY <1>2, Empties
    <3>2. flight' = [flight EXCEPT ![job.by] = Idle]
      BY <2>1 DEF Restarts
    <3>3. QED BY <3>1, <3>2
  <2>2. CASE job.by = "refresh"
    <3>1. flight["refresh"].restarts < RestartLimit
      BY <1>1, <2>2 DEF WatchInv, QueueInv, RestartsLeft
    <3>2. flight["refresh"].restarts \in 0 .. RestartLimit
      BY <1>2, <2>2 DEF FlightRecord
    <3>3. flight["refresh"].restarts + 1 \in 0 .. RestartLimit
      BY <3>1, <3>2, Bounds
    <3>4. "look" \in FlightPoints
      BY DEF FlightPoints
    <3>5. Again(flight["refresh"]) \in FlightRecord
      BY <1>2, <2>2, <3>3, <3>4 DEF Again, FlightRecord
    <3>6. flight' = [flight EXCEPT ![job.by] =
                       IF job.by # "refresh" THEN Idle ELSE Again(flight[job.by])]
      BY DEF Restarts
    <3>7. QED BY <2>2, <3>5, <3>6
  <2>3. QED BY <2>1, <2>2
<1>8. QED BY <1>1, <1>2, <1>6, <1>7, EndStep

(* The first page, asked again, decides about the last batch. *)
LEMMA ValidatesStep ==
  ASSUME WatchInv, Validates
  PROVE  WatchInv'
<1>1. /\ job.pc = "validate" /\ job.pc \notin {"none", "wipe"}
      /\ UNCHANGED <<inbox, version, modified, cred, db, rows, done, used, faults>>
  BY DEF Validates, remote, store, bounds
<1>2. /\ job # NoJob /\ job \in JobRecord /\ flight \in [Callers -> FlightRecord]
      /\ faults' \in 0 .. MaxFaults /\ RemoteTypes /\ StoreTypes /\ Auth.login \in Accounts
      /\ db \in StateRecord /\ rows \in [Threads -> RowRecord]
  BY <1>1, Running
<1>3. CASE EndJob("changed")
  BY <1>1, <1>2, <1>3, EndsOnly
<1>4. CASE ~ EndJob("changed")
  <2>1. PICK pc \in {"commit", "record", "restart"} :
          /\ job' = JobValid(job, pc, Validator)
          /\ pc = "commit" => modified[Auth.login] = Validator
          /\ pc = "restart" => ~ (job.by = "refresh" /\ OutOfRestarts)
    BY <1>4 DEF Validates, JobValid
  <2>2. UNCHANGED flight
    BY <1>4 DEF Validates
  <2>3. Validator \in Past
    BY <1>2 DEF Validator, JobRecord, StateRecord
  <2>4. PICK j \in JobRecord :
          /\ job' = j /\ j.pc = pc /\ j.by = job.by /\ j.head = job.head
          /\ j.before = job.before /\ j.page = job.page /\ j.got = job.got
          /\ j.next = job.next /\ j.modified = Validator
    <3>1. pc \in JobPoints
      BY DEF JobPoints
    <3>2. QED BY <1>2, <2>1, <2>3, <3>1, ValidFields
  <2>5. Auth' = Auth
    BY <2>2, <2>4 DEF Auth
  <2>6. RestartsLeft'
    <3>1. job.by = "refresh" => ~ job.head
      BY DEF WatchInv, QueueInv, RestartsLeft
    <3>2. pc = "restart" /\ job.by = "refresh" => flight["refresh"].restarts < RestartLimit
      <4>1. "refresh" \in Callers
        BY DEF Callers, Commands
      <4>2. flight["refresh"].restarts \in 0 .. RestartLimit
        BY <1>2, <4>1 DEF FlightRecord
      <4>3. QED BY <2>1, <4>2, Bounds DEF OutOfRestarts
    <3>3. QED BY <2>2, <2>4, <3>1, <3>2 DEF RestartsLeft
  <2>7. PagesLeft'
    BY <1>1, <2>4 DEF WatchInv, QueueInv, PagesLeft
  <2>8. JobStands'
    BY <1>1, <2>4, <2>5 DEF WatchInv, ScanInv, JobStands, Reads, Stands, Scanning
  <2>9. JobSaw'
    <3>1. SUFFICES ASSUME Reads' PROVE ReadSoFar(Auth.login)' \subseteq (Saw \cup Got)'
      BY DEF JobSaw
    <3>2. Reads /\ pc = "commit"
      BY <1>1, <2>4, <3>1 DEF Reads
    <3>3. ReadSoFar(Auth.login) \subseteq Saw \cup Got
      BY <2>1, <3>2 DEF WatchInv, ScanInv, JobSaw
    <3>4. ReadSoFar(Auth.login)' = ReadSoFar(Auth.login)
      BY <1>1, <2>4, <2>5 DEF ReadSoFar, Reached, Window, Newer
    <3>5. Saw' = Saw /\ Got' = Got
      BY <1>1, <2>4 DEF Saw, Got
    <3>6. QED BY <3>3, <3>4, <3>5
  <2>10. ReadIsNewer'
    BY <1>1, <2>4, <2>5 DEF WatchInv, ReadIsNewer, Got
  <2>11. StoreInv'
    BY <1>1, StoreKept
  <2>12. QED
    BY <1>1, <1>2, <2>2, <2>4, <2>6, <2>7, <2>8, <2>9, <2>10, <2>11, JobStep
<1>5. QED BY <1>3, <1>4

-----------------------------------------------------------------------------
(* The pages. *)

JobRead(j, got, next, pages, m) ==
  [j EXCEPT !.got = got, !.next = next, !.pages = pages, !.modified = m]
GotWith(a) ==
  [t \in Threads |-> IF t \in Page(a, job.before, job.next) THEN inbox[a][t] ELSE job.got[t]]
NextOf(a) == IF HasNext(a, job.before, job.next) THEN job.next + 1 ELSE 0
ModifiedOf(a) == IF job.head \/ job.next = 1 THEN modified[a] ELSE job.modified

(* What a job has that reads on. *)
LEMMA ReadFields ==
  ASSUME NEW j \in JobRecord, NEW got \in [Threads -> Past], NEW next \in PageNumbers,
         NEW pages \in PageNumbers, NEW m \in Past
  PROVE  /\ JobRead(j, got, next, pages, m) \in JobRecord
         /\ JobRead(j, got, next, pages, m).by = j.by
         /\ JobRead(j, got, next, pages, m).pc = j.pc
         /\ JobRead(j, got, next, pages, m).head = j.head
         /\ JobRead(j, got, next, pages, m).before = j.before
         /\ JobRead(j, got, next, pages, m).page = j.page
         /\ JobRead(j, got, next, pages, m).got = got
         /\ JobRead(j, got, next, pages, m).next = next
         /\ JobRead(j, got, next, pages, m).pages = pages
         /\ JobRead(j, got, next, pages, m).modified = m
<1>1. JobRead(j, got, next, pages, m) \in JobRecord
  BY DEF JobRecord, JobRead
<1>2. /\ JobRead(j, got, next, pages, m).by = j.by
      /\ JobRead(j, got, next, pages, m).pc = j.pc
      /\ JobRead(j, got, next, pages, m).head = j.head
      /\ JobRead(j, got, next, pages, m).before = j.before
      /\ JobRead(j, got, next, pages, m).page = j.page
  BY DEF JobRecord, JobRead
<1>3. /\ JobRead(j, got, next, pages, m).got = got
      /\ JobRead(j, got, next, pages, m).next = next
      /\ JobRead(j, got, next, pages, m).pages = pages
      /\ JobRead(j, got, next, pages, m).modified = m
  BY DEF JobRecord, JobRead
<1>4. QED BY <1>1, <1>2, <1>3

(* The job that has read a page more. *)
LEMMA FetchedFields ==
  ASSUME WatchInv, job.pc = "fetch"
  PROVE  /\ Fetched \in JobRecord /\ Fetched.by = job.by /\ Fetched.pc = "fetch"
         /\ Fetched.head = job.head /\ Fetched.before = job.before
         /\ Fetched.page = job.page /\ Fetched.pages = job.pages + 1
         /\ Fetched.got = GotWith(Auth.login) /\ Fetched.next = NextOf(Auth.login)
         /\ Fetched.modified = ModifiedOf(Auth.login)
<1>1. /\ job \in JobRecord /\ RemoteTypes /\ Auth.login \in Accounts
  BY Running
<1>2. PICK a \in Accounts : a = Auth.login
  BY <1>1
<1>3. Fetched = JobRead(job, GotWith(a), NextOf(a), job.pages + 1, ModifiedOf(a))
  BY <1>2 DEF Fetched, JobRead, GotWith, NextOf, ModifiedOf
<1>4. /\ job.next \in PageNumbers /\ job.pages \in PageNumbers /\ job.modified \in Past
      /\ job.got \in [Threads -> Past] /\ job.before \in Past
  BY <1>1 DEF JobRecord
<1>5. \A t \in Threads : inbox[a][t] \in Past /\ job.got[t] \in Past
  BY <1>1, <1>4 DEF RemoteTypes
<1>6. GotWith(a) \in [Threads -> Past]
  BY <1>5 DEF GotWith
<1>7. NextOf(a) \in PageNumbers
  <2>1. job.next \in Nat /\ job.before \in Nat
    <3>1. job.before \in Nat
      BY <1>1, <1>4 DEF Past, RemoteTypes
    <3>2. QED BY <1>4, <3>1, Bounds
  <2>2. CASE job.next = 0
    BY <2>2, Bounds DEF NextOf
  <2>3. CASE job.next # 0
    <3>1. job.next >= 1
      BY <2>1, <2>3
    <3>2. HasNext(a, job.before, job.next) => job.next < Cardinality(Threads)
      BY <1>1, <2>1, <3>1, NextPage
    <3>3. HasNext(a, job.before, job.next) => job.next + 1 \in PageNumbers
      BY <2>1, <3>2, Bounds DEF PageNumbers
    <3>4. QED BY <3>3, Bounds DEF NextOf
  <2>4. QED BY <2>2, <2>3
<1>8. job.pages + 1 \in PageNumbers
  <2>1. job.pages < (IF job.head THEN 1 ELSE BatchPages) /\ job.pages \in Nat
    BY <1>4, Bounds DEF WatchInv, QueueInv, PagesLeft
  <2>2. job.pages + 1 \in 0 .. BatchPages
    BY <2>1, Bounds
  <2>3. QED BY <2>2, Bounds
<1>9. ModifiedOf(a) \in Past
  BY <1>1, <1>4 DEF ModifiedOf, RemoteTypes
<1>10. QED BY <1>1, <1>2, <1>3, <1>6, <1>7, <1>8, <1>9, ReadFields

(* While the inbox stays as it was, the pages read are all there is so far. *)
LEMMA PagesJoin ==
  ASSUME WatchInv, job.pc = "fetch", Reads, NEW a \in Accounts, a = Auth.login,
         modified[a] = IF job.page = 1 THEN ModifiedOf(a) ELSE db.modified
  PROVE  IF NextOf(a) = 0
         THEN Window(a, job.before) \subseteq Saw \cup {t \in Threads : GotWith(a)[t] # 0}
         ELSE Reached(a, job.before, NextOf(a))
                \subseteq Saw \cup {t \in Threads : GotWith(a)[t] # 0}
<1> DEFINE now == {t \in Threads : GotWith(a)[t] # 0}
<1>1. /\ job \in JobRecord /\ RemoteTypes
  BY Running
<1>2. job.next \in Nat /\ job.before \in Nat /\ job.page \in Nat
  <2>1. job.next \in PageNumbers /\ job.page \in PageNumbers /\ job.before \in Past
    BY <1>1 DEF JobRecord
  <2>2. job.before \in Nat
    BY <1>1, <2>1 DEF Past, RemoteTypes
  <2>3. QED BY <2>1, <2>2, Bounds
<1>3. job.next >= 1
  BY <1>2 DEF WatchInv, ScanInv, JobStands
<1>4. Reached(a, job.before, job.next) \subseteq Saw \cup Got
  <2>1. CASE job.next = 1
    BY <2>1, FirstPage
  <2>2. CASE job.next # 1
    <3>1. modified[a] = Validator
      BY <2>2 DEF ModifiedOf, Validator, Reads
    <3>2. ReadSoFar(a) \subseteq Saw \cup Got
      BY <3>1 DEF WatchInv, ScanInv, JobSaw
    <3>3. job.next # 0
      BY <1>2, <1>3
    <3>4. QED BY <3>2, <3>3 DEF ReadSoFar
  <2>3. QED BY <2>1, <2>2
<1>5. Page(a, job.before, job.next) \subseteq now
  <2>1. SUFFICES ASSUME NEW t \in Page(a, job.before, job.next) PROVE t \in now
    OBVIOUS
  <2>2. t \in Threads /\ inbox[a][t] \in 1 .. job.before
    BY DEF Page, Window
  <2>3. GotWith(a)[t] = inbox[a][t]
    BY <2>2 DEF GotWith
  <2>4. GotWith(a)[t] # 0
    BY <1>2, <2>2, <2>3
  <2>5. QED BY <2>2, <2>4
<1>6. Got \subseteq now
  <2>1. SUFFICES ASSUME NEW t \in Got, t \notin Page(a, job.before, job.next) PROVE t \in now
    BY <1>5
  <2>2. QED BY <2>1 DEF Got, GotWith
<1>7. /\ Reached(a, job.before, job.next + 1)
           \subseteq Reached(a, job.before, job.next) \cup Page(a, job.before, job.next)
      /\ ~ HasNext(a, job.before, job.next) =>
           Window(a, job.before)
             \subseteq Reached(a, job.before, job.next) \cup Page(a, job.before, job.next)
  BY <1>1, <1>2, <1>3, NextPage
<1> HIDE DEF now
<1>8. CASE HasNext(a, job.before, job.next)
  <2>1. NextOf(a) = job.next + 1 /\ NextOf(a) # 0
    BY <1>2, <1>8 DEF NextOf
  <2>2. Reached(a, job.before, NextOf(a)) \subseteq Saw \cup now
    BY <1>4, <1>5, <1>6, <1>7, <2>1
  <2>3. QED BY <2>1, <2>2 DEF now
<1>9. CASE ~ HasNext(a, job.before, job.next)
  <2>1. NextOf(a) = 0
    BY <1>9 DEF NextOf
  <2>2. Window(a, job.before) \subseteq Saw \cup now
    BY <1>4, <1>5, <1>6, <1>7, <1>9
  <2>3. QED BY <2>1, <2>2 DEF now
<1>10. QED BY <1>8, <1>9

(* A page comes in. *)
LEMMA FetchesPageStep ==
  ASSUME WatchInv, FetchesPage
  PROVE  WatchInv'
<1> DEFINE limit == IF job.head THEN 1 ELSE BatchPages
<1>1. /\ job.pc = "fetch" /\ job.pc \notin {"none", "wipe"}
      /\ UNCHANGED <<inbox, version, modified, cred, db, rows, done, used, faults>>
  BY DEF FetchesPage, remote, store, bounds
<1>2. /\ job # NoJob /\ job \in JobRecord /\ flight \in [Callers -> FlightRecord]
      /\ faults' \in 0 .. MaxFaults /\ RemoteTypes /\ Auth.login \in Accounts
      /\ db \in StateRecord /\ rows \in [Threads -> RowRecord]
  BY <1>1, Running
<1>3. PICK a \in Accounts : a = Auth.login
  BY <1>2
<1>4. /\ Fetched \in JobRecord /\ Fetched.by = job.by /\ Fetched.pc = "fetch"
      /\ Fetched.head = job.head /\ Fetched.before = job.before
      /\ Fetched.page = job.page /\ Fetched.pages = job.pages + 1
      /\ Fetched.got = GotWith(a) /\ Fetched.next = NextOf(a)
      /\ Fetched.modified = ModifiedOf(a)
  BY <1>1, <1>3, FetchedFields
<1>5. CASE EndJob("changed")
  BY <1>1, <1>2, <1>5, EndsOnly
<1>6. CASE ~ EndJob("changed")
  <2>1. PICK pc \in {"fetch", "restart", "merge", "validate", "commit"} :
          /\ job' = JobAt(Fetched, pc)
          /\ pc = "fetch" => Fetched.next # 0 /\ Fetched.pages # limit
          /\ pc = "restart" => job.head
          /\ pc = "validate" => ~ job.head /\ Fetched.next = 0
          /\ pc = "commit" => ~ job.head /\ Fetched.next # 0
    <3>1. CASE Fetched.next # 0 /\ Fetched.pages # limit /\ job' = Fetched
      <4>1. JobAt(Fetched, "fetch") = Fetched
        BY <1>4 DEF JobAt, JobRecord
      <4>2. QED BY <3>1, <4>1
    <3>2. CASE job' = [Fetched EXCEPT !.pc = AfterFetch(Fetched)]
      <4>1. job' = JobAt(Fetched, AfterFetch(Fetched))
        BY <3>2 DEF JobAt
      <4>2. QED BY <1>4, <4>1 DEF AfterFetch
    <3>3. QED BY <1>6, <3>1, <3>2 DEF FetchesPage
  <2>2. UNCHANGED flight
    BY <1>6 DEF FetchesPage
  <2>3. PICK j \in JobRecord :
          /\ job' = j /\ j.pc = pc /\ j.by = job.by /\ j.head = job.head
          /\ j.before = job.before /\ j.page = job.page /\ j.pages = job.pages + 1
          /\ j.got = GotWith(a) /\ j.next = NextOf(a) /\ j.modified = ModifiedOf(a)
    <3>1. pc \in JobPoints
      BY DEF JobPoints
    <3>2. QED BY <1>4, <2>1, <3>1, JobFields
  <2>4. Auth' = Auth /\ Auth'.login = a
    BY <1>3, <2>2, <2>3 DEF Auth
  <2>5. RestartsLeft'
    BY <2>1, <2>3 DEF WatchInv, QueueInv, RestartsLeft
  <2>6. PagesLeft'
    <3>1. job.pages \in Nat /\ limit \in Nat
      BY <1>2, Bounds DEF JobRecord
    <3>2. job.pages < limit
      BY <1>1 DEF WatchInv, QueueInv, PagesLeft
    <3>3. pc = "fetch" => job.pages + 1 # limit
      BY <1>4, <2>1
    <3> HIDE DEF limit
    <3>4. pc = "fetch" => job.pages + 1 < limit
      BY <3>1, <3>2, <3>3
    <3>5. QED BY <2>1, <2>3, <3>4 DEF PagesLeft, limit
  <2>7. JobStands'
    <3>1. SUFFICES ASSUME Reads' PROVE JobStands'
      BY DEF JobStands
    <3>2. Reads
      BY <1>1, <2>3, <3>1 DEF Reads
    <3>3. Stands /\ job.page >= 1 /\ job.next >= job.page
      BY <1>1, <3>2 DEF WatchInv, ScanInv, JobStands
    <3>4. Stands'
      BY <1>1, <2>3, <2>4, <3>3 DEF Stands, Scanning
    <3>5. pc = "fetch" => NextOf(a) >= job.page
      <4>1. job.next \in Nat /\ job.page \in Nat
        BY <1>2, Bounds DEF JobRecord
      <4>2. pc = "fetch" => NextOf(a) = job.next + 1
        BY <1>4, <2>1 DEF NextOf
      <4>3. QED BY <3>3, <4>1, <4>2
    <3>6. pc = "validate" => NextOf(a) = 0
      BY <1>4, <2>1
    <3>7. QED BY <2>3, <3>3, <3>4, <3>5, <3>6 DEF JobStands
  <2>8. JobSaw'
    <3>1. SUFFICES ASSUME Reads', modified[a] = Validator'
                   PROVE  ReadSoFar(a)' \subseteq (Saw \cup Got)'
      <4>1. pc = "commit" => NextOf(a) # 0
        BY <1>4, <2>1
      <4>2. QED BY <1>1, <2>3, <2>4, <4>1 DEF JobSaw
    <3>2. Reads
      BY <1>1, <2>3, <3>1 DEF Reads
    <3>3. modified[a] = IF job.page = 1 THEN ModifiedOf(a) ELSE db.modified
      BY <1>1, <2>3, <3>1 DEF Validator
    <3>4. ReadSoFar(a)' = IF NextOf(a) = 0 THEN Window(a, job.before)
                          ELSE Reached(a, job.before, NextOf(a))
      BY <1>1, <2>3 DEF ReadSoFar, Reached, Window, Newer
    <3>5. Saw' = Saw /\ Got' = {t \in Threads : GotWith(a)[t] # 0}
      BY <1>1, <2>3 DEF Saw, Got
    <3>6. QED BY <1>1, <1>3, <3>2, <3>3, <3>4, <3>5, PagesJoin
  <2>9. ReadIsNewer'
    <3>1. SUFFICES ASSUME NEW t \in Threads, GotWith(a)[t] # 0
                   PROVE  GotWith(a)[t] > done[a][t]
      BY <1>1, <2>3, <2>4 DEF ReadIsNewer, Got
    <3>2. CASE t \in Page(a, job.before, job.next)
      BY <3>1, <3>2 DEF GotWith, WatchInv, NewsIsNewer
    <3>3. CASE t \notin Page(a, job.before, job.next)
      BY <1>3, <3>1, <3>3 DEF GotWith, WatchInv, ReadIsNewer, Got
    <3>4. QED BY <3>2, <3>3
  <2>10. StoreInv'
    BY <1>1, StoreKept
  <2>11. QED
    BY <1>1, <1>2, <2>2, <2>3, <2>5, <2>6, <2>7, <2>8, <2>9, <2>10, JobStep
<1>7. QED BY <1>5, <1>6

-----------------------------------------------------------------------------
(* What has been read is written. *)

DbAt(state, page, m, cooling, status) ==
  [[state EXCEPT !.page = page, !.modified = m, !.cooling = cooling] EXCEPT !.status = status]
DbHead(state, m) == [state EXCEPT !.modified = m, !.cooling = TRUE]

(* Rows that are put hold what was read, and the others stay. *)
LEMMA PutOps ==
  ASSUME job \in JobRecord, Auth.login \in Accounts, NEW table \in [Threads -> RowRecord],
         NEW seen \in BOOLEAN
  PROVE  /\ Put(table, seen) \in [Threads -> RowRecord]
         /\ \A t \in Threads :
              /\ job.got[t] = 0 => Put(table, seen)[t] = table[t]
              /\ job.got[t] # 0 => /\ Put(table, seen)[t].owner = Auth.login
                                   /\ Put(table, seen)[t].at = job.got[t]
                                   /\ Put(table, seen)[t].seen = seen
<1>1. \A t \in Threads : job.got[t] \in Past /\ table[t] \in RowRecord
  BY DEF JobRecord
<1>2. \A t \in Threads :
        [owner |-> Auth.login, at |-> job.got[t], seen |-> seen] \in RowRecord
  BY <1>1 DEF RowRecord, Owners
<1>3. Put(table, seen) \in [Threads -> RowRecord]
  BY <1>1, <1>2 DEF Put
<1>4. QED BY <1>3 DEF Put

(* Sweeping keeps the rows that were seen. *)
LEMMA SweptOps ==
  ASSUME RemoteTypes, NEW table \in [Threads -> RowRecord]
  PROVE  /\ Swept(table) \in [Threads -> RowRecord]
         /\ \A t \in Threads :
              IF table[t].seen
              THEN /\ table[t] # NoRow
                   /\ Swept(table)[t].owner = table[t].owner /\ Swept(table)[t].at = table[t].at
              ELSE Swept(table)[t] = NoRow
<1>1. NoRow \in RowRecord /\ ~ NoRow.seen
  BY DEF NoRow, RowRecord, Owners, RemoteTypes, Past
<1>2. ASSUME NEW row \in RowRecord
      PROVE  /\ [row EXCEPT !.seen = FALSE] \in RowRecord
             /\ [row EXCEPT !.seen = FALSE].owner = row.owner
             /\ [row EXCEPT !.seen = FALSE].at = row.at
  BY DEF RowRecord
<1>3. \A t \in Threads :
        Swept(table)[t] = IF table[t].seen THEN [table[t] EXCEPT !.seen = FALSE] ELSE NoRow
  BY DEF Swept
<1>4. Swept(table) \in [Threads -> RowRecord]
  BY <1>1, <1>2 DEF Swept
<1>5. QED BY <1>1, <1>2, <1>3, <1>4

(* The record of a scan that has moved on. *)
LEMMA DbFields ==
  ASSUME NEW state \in StateRecord, NEW page \in PageNumbers, NEW m \in Past,
         NEW cooling \in BOOLEAN, NEW status \in Statuses
  PROVE  /\ DbAt(state, page, m, cooling, status) \in StateRecord
         /\ DbAt(state, page, m, cooling, status).account = state.account
         /\ DbAt(state, page, m, cooling, status).before = state.before
         /\ DbAt(state, page, m, cooling, status).page = page
         /\ DbAt(state, page, m, cooling, status).modified = m
         /\ DbAt(state, page, m, cooling, status).status = status
<1>1. DbAt(state, page, m, cooling, status) \in StateRecord
  BY DEF StateRecord, DbAt
<1>2. /\ DbAt(state, page, m, cooling, status).account = state.account
      /\ DbAt(state, page, m, cooling, status).before = state.before
      /\ DbAt(state, page, m, cooling, status).page = page
      /\ DbAt(state, page, m, cooling, status).modified = m
      /\ DbAt(state, page, m, cooling, status).status = status
  BY DEF StateRecord, DbAt
<1>3. QED BY <1>1, <1>2

(* The record of a converged inbox whose head was merged. *)
LEMMA HeadMerged ==
  ASSUME NEW state \in StateRecord, NEW m \in Past
  PROVE  /\ DbHead(state, m) \in StateRecord /\ DbHead(state, m).account = state.account
         /\ DbHead(state, m).status = state.status
BY DEF StateRecord, DbHead

(* A head that has changed is merged. *)
LEMMA MergesStep ==
  ASSUME WatchInv, Merges
  PROVE  WatchInv'
<1>1. /\ job.pc = "merge" /\ job.pc \notin {"none", "wipe"}
      /\ UNCHANGED <<inbox, version, modified, cred, done, used, faults>>
  BY DEF Merges, remote, bounds
<1>2. /\ job \in JobRecord /\ faults' \in 0 .. MaxFaults /\ RemoteTypes
      /\ Auth.login \in Accounts /\ db \in StateRecord /\ rows \in [Threads -> RowRecord]
      /\ job.modified \in Past
  BY <1>1, Running DEF JobRecord
<1>3. CASE EndJob("changed") /\ UNCHANGED store
  BY <1>1, <1>2, <1>3, EndsOnly DEF store
<1>4. CASE /\ db.account = Auth.login /\ db.status = "complete" /\ rows' = Put(rows, FALSE)
           /\ db' = [db EXCEPT !.modified = job.modified, !.cooling = TRUE] /\ EndJob("ok")
  <2>1. db' = DbHead(db, job.modified)
    BY <1>4 DEF DbHead
  <2>2. db' \in StateRecord /\ db'.account = db.account /\ db'.status = "complete"
    BY <1>2, <1>4, <2>1, HeadMerged
  <2>3. /\ rows' \in [Threads -> RowRecord]
        /\ \A t \in Threads : rows'[t] = rows[t] \/ rows'[t].owner = db.account
    BY <1>2, <1>4, PutOps
  <2>4. RowsHaveTheirAccount'
    BY <1>2, <1>4, <2>2, <2>3 DEF WatchInv, RowsHaveTheirAccount, Present
  <2>5. StoreInv'
    BY <2>2, <2>4 DEF StoreInv, ScanHasPlace, ScanSaw, Scanning
  <2>6. QED BY <1>1, <1>4, <2>2, <2>3, <2>5, EndsWith
<1>5. QED BY <1>3, <1>4 DEF Merges

(* What a batch that stands writes. *)
LEMMA Committed ==
  ASSUME WatchInv, Commits, Stands
  PROVE  /\ db' = DbAt(db, job.next,
                       IF job.page = 1 \/ job.next = 0 THEN job.modified ELSE db.modified,
                       job.next = 0, IF job.next = 0 THEN "complete" ELSE "scanning")
         /\ rows' = IF job.next = 0 THEN Swept(Put(rows, TRUE)) ELSE Put(rows, TRUE)
         /\ EndJob("ok")
BY DEF Commits, DbAt

(* A batch is committed; the last one sweeps. *)
LEMMA CommitsStep ==
  ASSUME WatchInv, Commits
  PROVE  WatchInv'
<1>1. /\ job.pc = "commit" /\ job.pc \notin {"none", "wipe"}
      /\ UNCHANGED <<inbox, version, modified, cred, done, used, faults>>
  BY DEF Commits, remote, bounds
<1>2. /\ job \in JobRecord /\ faults' \in 0 .. MaxFaults /\ RemoteTypes
      /\ Auth.login \in Accounts /\ db \in StateRecord /\ rows \in [Threads -> RowRecord]
  BY <1>1, Running
<1>3. job.modified \in Past /\ job.next \in PageNumbers /\ db.modified \in Past
  BY <1>2 DEF JobRecord, StateRecord
<1>4. CASE ~ Stands
  BY <1>1, <1>2, <1>4, EndsOnly DEF Commits, store
<1>5. CASE Stands
  <2> DEFINE m == IF job.page = 1 \/ job.next = 0 THEN job.modified ELSE db.modified
             status == IF job.next = 0 THEN "complete" ELSE "scanning"
             table == Put(rows, TRUE)
  <2>1. /\ db' = DbAt(db, job.next, m, job.next = 0, status)
        /\ rows' = IF job.next = 0 THEN Swept(table) ELSE table
        /\ EndJob("ok")
    BY <1>5, Committed
  <2>2. /\ db' \in StateRecord /\ db'.account = db.account /\ db'.before = db.before
        /\ db'.page = job.next /\ db'.modified = m /\ db'.status = status
    <3>1. m \in Past /\ status \in Statuses /\ (job.next = 0) \in BOOLEAN
      BY <1>3 DEF Statuses
    <3> HIDE DEF m, status
    <3>2. PICK cooling \in BOOLEAN : db' = DbAt(db, job.next, m, cooling, status)
      BY <2>1, <3>1
    <3>3. QED BY <1>2, <1>3, <3>1, <3>2, DbFields
  <2>3. PICK a \in Accounts : a = Auth.login /\ db.account = a /\ db.before = job.before
    BY <1>2, <1>5 DEF Stands
  <2>4. /\ table \in [Threads -> RowRecord]
        /\ \A t \in Threads : /\ job.got[t] = 0 => table[t] = rows[t]
                              /\ job.got[t] # 0 => table[t].owner = a /\ table[t].seen
    BY <1>2, <2>3, PutOps
  <2> HIDE DEF table
  <2>5. /\ rows' \in [Threads -> RowRecord]
        /\ \A t \in Threads : rows'[t] = NoRow \/ (table[t] # NoRow /\ rows'[t].owner = table[t].owner)
    BY <1>2, <2>1, <2>4, SweptOps
  <2>6. RowsHaveTheirAccount'
    BY <2>2, <2>3, <2>4, <2>5 DEF WatchInv, RowsHaveTheirAccount, Present
  <2>7. ScanHasPlace' /\ ScanSaw'
    <3>1. CASE job.next = 0
      BY <2>2, <3>1 DEF ScanHasPlace, ScanSaw, Scanning
    <3>2. CASE job.next # 0
      <4>1. job.next \in Nat /\ job.next >= 1
        <5>1. job.next \in Nat
          BY <1>3, Bounds
        <5>2. QED BY <3>2, <5>1
      <4>2. ScanHasPlace'
        BY <2>2, <2>3, <4>1 DEF ScanHasPlace
      <4>3. rows' = table
        BY <2>1, <3>2
      <4>4. Saw \cup Got \subseteq Saw'
        BY <2>4, <4>3 DEF Saw, Got
      <4>5. modified[a] = m => Reached(a, job.before, job.next) \subseteq Saw \cup Got
        <5>1. ~ job.head
          BY <1>1 DEF WatchInv, QueueInv, PagesLeft
        <5>2. m = Validator
          BY <3>2 DEF Validator
        <5>3. modified[a] = Validator => ReadSoFar(a) \subseteq Saw \cup Got
          BY <1>1, <2>3, <5>1 DEF WatchInv, ScanInv, JobSaw, Reads
        <5> HIDE DEF m
        <5>4. QED BY <3>2, <5>2, <5>3 DEF ReadSoFar
      <4>6. Reached(a, job.before, job.next) = Reached(db.account, db.before, db.page)'
        BY <1>1, <2>2, <2>3 DEF Reached, Window, Newer
      <4>7. ScanSaw'
        BY <1>1, <2>2, <2>3, <4>4, <4>5, <4>6 DEF ScanSaw
      <4>8. QED BY <4>2, <4>7
    <3>3. QED BY <3>1, <3>2
  <2>8. QED BY <1>1, <2>1, <2>2, <2>5, <2>6, <2>7, EndsWith DEF StoreInv
<1>6. QED BY <1>4, <1>5

-----------------------------------------------------------------------------
(* The invariant. *)

(* The start. *)
LEMMA WatchInitInv == WatchInit => WatchInv
<1> SUFFICES ASSUME WatchInit PROVE WatchInv
  OBVIOUS
<1>1. /\ Oldest \in Threads /\ User \in Busy /\ User \in Accounts
  BY WatchAssumption DEF WatchAssumption, Oldest, User
<1>2. /\ version = 2 /\ Past = 0 .. 2 /\ 0 \in Past /\ 1 \in Past /\ 2 \in Past
  BY DEF WatchInit, Past
<1>3. RemoteTypes
  <2>1. inbox \in [Accounts -> [Threads -> Past]] /\ modified \in [Accounts -> Past]
    BY <1>2 DEF WatchInit
  <2>2. done \in [Accounts -> [Threads -> Past]]
    BY <1>2 DEF WatchInit, NoFetch
  <2>3. QED BY <1>2, <2>1, <2>2 DEF RemoteTypes
<1>4. /\ NoJob \in JobRecord /\ NoJob.by = Nobody /\ NoJob.pc = "none"
      /\ \A t \in Threads : NoJob.got[t] = 0
      /\ Idle \in FlightRecord /\ Idle.pc = "idle"
      /\ NoRows \in [Threads -> RowRecord] /\ Present(NoRows) = {}
  BY <1>3, Empties
<1>5. /\ job = NoJob /\ flight \in [Callers -> FlightRecord]
      /\ \A c \in Callers : flight[c] = Idle
  BY <1>4 DEF WatchInit
<1>6. WorkerTypes
  BY <1>4, <1>5 DEF WorkerTypes
<1>7. cred \in Auths /\ cred.login \in Accounts
  BY <1>1, WatchAssumption DEF WatchAssumption, WatchInit, Auths
<1>8. /\ db \in StateRecord /\ rows \in [Threads -> RowRecord] /\ ~ Scanning(db)
      /\ RowsHaveTheirAccount
  <2>1. CASE db = NoState /\ rows = NoRows
    <3>1. NoState \in StateRecord /\ ~ Scanning(NoState)
      <4>1. NoAccount \in Owners /\ 0 \in PageNumbers
        BY Bounds DEF Owners
      <4>2. QED BY <1>2, <4>1 DEF NoState, Pending, StateRecord, Statuses, Scanning
    <3>2. QED BY <1>4, <2>1, <3>1 DEF RowsHaveTheirAccount
  <2>2. CASE /\ db = [Pending(cred.login) EXCEPT !.status = "complete", !.before = 2, !.modified = 2]
             /\ rows = [t \in Threads |->
                          [owner |-> cred.login, at |-> inbox[cred.login][t], seen |-> FALSE]]
    <3>1. PICK a \in Accounts : a = cred.login
      BY <1>7
    <3>2. Pending(a) \in StateRecord /\ Pending(a).account = a
      BY <1>2, Bounds DEF Pending, StateRecord, Statuses, Owners
    <3>3. db \in StateRecord /\ db.account = a /\ db.status = "complete"
      BY <1>2, <2>2, <3>1, <3>2 DEF StateRecord, Statuses
    <3>4. \A t \in Threads : inbox[a][t] \in Past
      BY <1>3 DEF RemoteTypes
    <3>5. rows \in [Threads -> RowRecord] /\ \A t \in Threads : rows[t].owner = a
      BY <2>2, <3>1, <3>4 DEF RowRecord, Owners
    <3>6. QED BY <3>3, <3>5 DEF Scanning, RowsHaveTheirAccount, Present
  <2>3. QED BY <2>1, <2>2 DEF WatchInit
<1>9. BoundTypes
  BY Bounds DEF WatchInit, BoundTypes
<1>10. QueueInv
  <2>1. \A c \in Callers : flight[c].pc = "idle"
    BY <1>4, <1>5
  <2>2. OneJob /\ MarkHasAccount
    BY <1>5, <2>1 DEF OneJob, MarkHasAccount, Marking, Callers, Commands
  <2>3. JobHasAccount /\ RestartsLeft /\ PagesLeft
    BY <1>4, <1>5 DEF JobHasAccount, RestartsLeft, PagesLeft, Nobody
  <2>4. QED BY <2>2, <2>3 DEF QueueInv
<1>11. ScanInv
  BY <1>4, <1>5, <1>8 DEF ScanInv, ScanHasPlace, ScanSaw, JobStands, JobSaw, Reads
<1>12. NewsIsNewer
  <2>1. \A a \in Accounts : \A t \in Threads : done[a][t] = 0 /\ inbox[a][t] \in {1, 2}
    BY DEF WatchInit, NoFetch
  <2>2. QED BY <2>1 DEF NewsIsNewer
<1>13. ReadIsNewer
  BY <1>4, <1>5 DEF ReadIsNewer, Got
<1>14. QED
  BY <1>3, <1>6, <1>7, <1>8, <1>9, <1>10, <1>11, <1>12, <1>13 DEF WatchInv, StoreTypes

(* Nothing happens. *)
LEMMA WatchStutters ==
  ASSUME WatchInv, UNCHANGED vars
  PROVE  WatchInv'
<1>1. /\ UNCHANGED <<inbox, version, modified, cred, db, rows, flight, job, done, used, faults>>
  BY DEF vars
<1>2. /\ Past' = Past /\ RowRecord' = RowRecord /\ StateRecord' = StateRecord
      /\ JobRecord' = JobRecord
  BY <1>1, SamePast
<1>3. /\ RemoteTypes' /\ StoreTypes' /\ WorkerTypes' /\ BoundTypes'
  BY <1>1, <1>2
  DEF WatchInv, RemoteTypes, StoreTypes, WorkerTypes, BoundTypes
<1>4. QueueInv'
  BY <1>1
  DEF WatchInv, QueueInv, OneJob, MarkHasAccount, Marking, JobHasAccount, RestartsLeft, PagesLeft,
      Auth
<1>5. ScanInv'
  BY <1>1
  DEF WatchInv, ScanInv, ScanHasPlace, ScanSaw, Scanning, JobStands, JobSaw, Reads, Stands, Auth,
      Validator, ReadSoFar, Reached, Window, Newer, Saw, Got
<1>6. RowsHaveTheirAccount' /\ NewsIsNewer' /\ ReadIsNewer'
  BY <1>1 DEF WatchInv, RowsHaveTheirAccount, Present, NewsIsNewer, ReadIsNewer, Got, Auth
<1>7. QED BY <1>3, <1>4, <1>5, <1>6 DEF WatchInv

(* A step of a job. *)
LEMMA BatchStep ==
  ASSUME WatchInv, Batch
  PROVE  WatchInv'
<1>1. CASE Starts
  BY <1>1, StartsStep
<1>2. CASE FetchesHeadUnchanged
  BY <1>2, FetchesHeadStep
<1>3. CASE FetchesPage
  BY <1>3, FetchesPageStep
<1>4. CASE Validates
  BY <1>4, ValidatesStep
<1>5. CASE Revalidates
  BY <1>5, RevalidatesStep
<1>6. CASE Merges
  BY <1>6, MergesStep
<1>7. CASE Restarts
  BY <1>7, RestartsStep
<1>8. CASE Commits
  BY <1>8, CommitsStep
<1>9. CASE Records
  BY <1>9, RecordsStep
<1>10. QED BY <1>1, <1>2, <1>3, <1>4, <1>5, <1>6, <1>7, <1>8, <1>9 DEF Batch

(* A step of the queue. *)
LEMMA WorksStep ==
  ASSUME WatchInv, Works
  PROVE  WatchInv'
<1>1. CASE StartScope
  BY <1>1, StartScopeStep
<1>2. CASE WriteScope
  BY <1>2, WriteScopeStep
<1>3. CASE Look
  BY <1>3, LookStep
<1>4. CASE Batch
  BY <1>4, BatchStep
<1>5. CASE StartDone
  BY <1>5, StartDoneStep
<1>6. CASE Deletes
  BY <1>6, DeletesStep
<1>7. CASE AppliesDone
  BY <1>7, AppliesDoneStep
<1>8. CASE Wipes
  BY <1>8, WipesStep
<1>9. ASSUME NEW c \in Callers, Reconcile(c) PROVE WatchInv'
  BY <1>9, ReconcileStep
<1>10. ASSUME NEW c \in Callers, TakeAuth(c) PROVE WatchInv'
  BY <1>10, TakeAuthStep
<1>11. ASSUME NEW c \in Callers, StartBatch(c) PROVE WatchInv'
  BY <1>11, StartBatchStep
<1>12. ASSUME NEW c \in Callers, StartWipe(c) PROVE WatchInv'
  BY <1>12, StartWipeStep
<1>13. CASE Answered
  BY <1>13, AnsweredStep
<1>14. QED
  BY <1>1, <1>2, <1>3, <1>4, <1>5, <1>6, <1>7, <1>8, <1>9, <1>10, <1>11, <1>12, <1>13 DEF Works

(* Every step keeps the invariant. *)
LEMMA WatchInvStep == WatchInv /\ [WatchNext]_vars => WatchInv'
<1> SUFFICES ASSUME WatchInv, [WatchNext]_vars PROVE WatchInv'
  OBVIOUS
<1>1. ASSUME NEW a \in Busy, NEW t \in Threads, Moves(a, t) PROVE WatchInv'
  <2>1. a \in Accounts
    BY WatchAssumption DEF WatchAssumption
  <2>2. QED BY <1>1, <2>1, MovesStep
<1>2. ASSUME NEW c \in Commands, Command(c) PROVE WatchInv'
  BY <1>2, CommandStep
<1>3. ASSUME NEW login \in Accounts \cup {NoAccount}, NEW watch \in BOOLEAN,
             ChangeCredential(login, watch)
      PROVE  WatchInv'
  BY <1>3, ChangeStep DEF Owners
<1>4. CASE Alarm
  BY <1>4, AlarmStep
<1>5. CASE Works
  BY <1>5, WorksStep
<1>6. CASE RequestFails
  BY <1>6, RequestFailsStep
<1>7. CASE DeleteFails
  BY <1>7, DeleteFailsStep
<1>8. CASE CoolsDown
  BY <1>8, CoolsDownStep
<1>9. CASE Dies
  BY <1>9, DiesStep
<1>10. CASE UNCHANGED vars
  BY <1>10, WatchStutters
<1>11. QED
  BY <1>1, <1>2, <1>3, <1>4, <1>5, <1>6, <1>7, <1>8, <1>9, <1>10 DEF WatchNext

(* The argument holds in every state: what the queue, the stores and the     *)
(* jobs remember agrees with GitHub.                                         *)
THEOREM WatchInvariant == WatchSpec => []WatchInv
<1>1. QED BY WatchInitInv, WatchInvStep, PTL DEF WatchSpec

(* Type correctness; every version that anything remembers has been used.    *)
THEOREM WatchTypeCorrect == WatchSpec => []WatchTypeOK
<1>1. WatchInv => WatchTypeOK
  <2> SUFFICES ASSUME WatchInv PROVE WatchTypeOK
    OBVIOUS
  <2>1. /\ RemoteTypes /\ StoreTypes /\ WorkerTypes /\ BoundTypes
    BY DEF WatchInv
  <2>2. Past = Versions /\ version \in Nat
    BY <2>1 DEF RemoteTypes, Past, Versions
  <2>3. inbox \in [Accounts -> [Threads -> Versions]]
    <3>1. \A a \in Accounts : inbox[a] \in [Threads -> Versions]
      BY <2>1, <2>2 DEF RemoteTypes
    <3>2. QED BY <2>1, <3>1 DEF RemoteTypes
  <2>4. modified \in [Accounts -> Versions] /\ cred \in Auths
    BY <2>1, <2>2 DEF RemoteTypes, StoreTypes
  <2>5. db \in [account : Accounts \cup {NoAccount},
                status : {"pending", "scanning", "partial", "complete"},
                before : Versions, page : PageNumbers, modified : Versions, cooling : BOOLEAN]
    BY <2>1, <2>2 DEF StoreTypes, StateRecord, Owners, Statuses
  <2>6. \A t \in Threads :
          rows[t] \in [owner : Accounts \cup {NoAccount}, at : Versions, seen : BOOLEAN]
    BY <2>1, <2>2 DEF StoreTypes, RowRecord, Owners
  <2>7. \A c \in Callers :
          /\ flight[c].pc \in FlightPoints /\ flight[c].threads \cup flight[c].marked \subseteq Threads
          /\ flight[c].auth \in Auths /\ flight[c].restarts \in 0 .. RestartLimit
    BY <2>1 DEF WorkerTypes, FlightRecord
  <2>8. job.by \in Callers \cup {Nobody} /\ job.pc \in JobPoints
    BY <2>1 DEF WorkerTypes, JobRecord
  <2>9. job.by # Nobody => flight[job.by].pc = "job"
    <3>1. NoJob.by = Nobody
      BY <2>1, Empties
    <3>2. QED BY <3>1 DEF WatchInv, QueueInv, OneJob
  <2>10. /\ {job.before, job.modified} \subseteq Versions
         /\ {job.page, job.next, job.pages} \subseteq PageNumbers
    BY <2>1, <2>2 DEF WorkerTypes, JobRecord
  <2>11. QED
    BY <2>1, <2>2, <2>3, <2>4, <2>5, <2>6, <2>7, <2>8, <2>9, <2>10 DEF WatchTypeOK, BoundTypes
<1>2. QED BY <1>1, WatchInvariant, PTL

(* Cached private threads are those of the account on record, whatever       *)
(* interleaving of sign-ins, jobs and worker deaths.                         *)
THEOREM RowsKeepTheirAccount == WatchSpec => []RowsHaveTheirAccount
<1>1. WatchInv => RowsHaveTheirAccount
  BY DEF WatchInv
<1>2. QED BY <1>1, WatchInvariant, PTL

-----------------------------------------------------------------------------
(* What a step may never do. *)

(* A scan that is at its last commit is completed by that commit only: no    *)
(* other job or caller writes the stores meanwhile.                          *)
LEMMA OnlyCommits ==
  ASSUME WatchInv, [WatchNext]_vars, Completes, db'.status = "complete"
  PROVE  Commits
<1>1. job.pc = "commit" /\ db.status # "complete" /\ db \in StateRecord
  BY DEF WatchInv, StoreTypes, Completes, Stands, Scanning
<1>2. job # NoJob /\ ~ Marking
  <2>1. job # NoJob
    BY <1>1, Running
  <2>2. QED BY <2>1 DEF WatchInv, QueueInv, OneJob
<1>3. db' # db
  BY <1>1
<1>4. ~ UNCHANGED vars /\ ~ Alarm /\ ~ RequestFails /\ ~ DeleteFails /\ ~ Dies
  BY <1>3 DEF vars, Alarm, RequestFails, DeleteFails, Dies, store
<1>5. /\ ~ \E a \in Busy, t \in Threads : Moves(a, t)
      /\ ~ \E c \in Commands : Command(c)
      /\ ~ \E login \in Accounts \cup {NoAccount}, watch \in BOOLEAN :
             ChangeCredential(login, watch)
  BY <1>3 DEF Moves, Command, ChangeCredential, store
<1>6. ~ CoolsDown
  <2>1. [db EXCEPT !.cooling = FALSE].status = db.status
    BY <1>1 DEF StateRecord
  <2>2. QED BY <1>1, <2>1 DEF CoolsDown
<1>7. ~ \E c \in Callers : Reconcile(c) \/ TakeAuth(c) \/ StartBatch(c) \/ StartWipe(c)
  BY <1>2, <1>3 DEF Reconcile, TakeAuth, StartBatch, StartWipe, MayRun, store
<1>8. ~ StartScope /\ ~ Look /\ ~ StartDone /\ ~ Deletes /\ ~ Answered /\ ~ AppliesDone
  BY <1>2, <1>3 DEF StartScope, Look, StartDone, Deletes, Answered, AppliesDone, Marking, store
<1>9. ~ WriteScope /\ ~ Wipes
  BY <1>1 DEF WriteScope, Wipes
<1>10. /\ ~ Starts /\ ~ FetchesHeadUnchanged /\ ~ FetchesPage /\ ~ Validates
       /\ ~ Revalidates /\ ~ Merges /\ ~ Restarts /\ ~ Records
  BY <1>1
  DEF Starts, FetchesHeadUnchanged, FetchesPage, Validates, Revalidates, Merges, Restarts, Records
<1>11. QED
  BY <1>4, <1>5, <1>6, <1>7, <1>8, <1>9, <1>10 DEF WatchNext, Works, Batch

(* A completed scan removes no thread that was in the inbox at its boundary  *)
(* and still is.                                                             *)
THEOREM SweepsKeepBoundary == WatchSpec => SweepKeepsTheBoundary
<1>1. ASSUME WatchInv, [WatchNext]_vars, Completes, db'.status = "complete",
             NEW t \in Present(rows) \ Present(rows')
      PROVE  inbox[db.account][t] \notin 1 .. job.before
  <2>1. Commits /\ Stands /\ job.pc = "commit" /\ job.next = 0 /\ t \in Threads
    BY <1>1, OnlyCommits DEF Completes, Present
  <2>2. /\ job \in JobRecord /\ Auth.login \in Accounts /\ RemoteTypes
        /\ rows \in [Threads -> RowRecord]
    BY <1>1, <2>1, Running
  <2>3. PICK a \in Accounts : a = Auth.login /\ a = db.account
    BY <2>1, <2>2 DEF Stands
  <2>4. rows' = Swept(Put(rows, TRUE))
    BY <1>1, <2>1, Committed
  <2>5. /\ Put(rows, TRUE) \in [Threads -> RowRecord]
        /\ job.got[t] = 0 => Put(rows, TRUE)[t] = rows[t]
        /\ job.got[t] # 0 => Put(rows, TRUE)[t].seen /\ Put(rows, TRUE)[t].owner \in Accounts
    BY <2>1, <2>2, PutOps
  <2>6. Put(rows, TRUE)[t].seen => rows'[t].owner = Put(rows, TRUE)[t].owner
    BY <2>1, <2>2, <2>4, <2>5, SweptOps
  <2>7. rows'[t] = NoRow /\ rows[t] # NoRow /\ rows[t].owner \in Accounts
    BY <1>1, <2>1 DEF Present, WatchInv, RowsHaveTheirAccount
  <2>8. t \notin Saw \cup Got
    <3>1. NoRow.owner \notin Accounts
      BY WatchAssumption DEF WatchAssumption, NoRow
    <3>2. ~ Put(rows, TRUE)[t].seen
      BY <2>5, <2>6, <2>7, <3>1
    <3>3. job.got[t] = 0 /\ ~ rows[t].seen
      BY <2>5, <3>2
    <3>4. QED BY <3>3 DEF Saw, Got
  <2>9. Window(a, job.before) \subseteq Saw \cup Got
    <3>1. ~ job.head
      BY <1>1, <2>1 DEF WatchInv, QueueInv, PagesLeft
    <3>2. QED BY <1>1, <2>1, <2>3, <3>1 DEF WatchInv, ScanInv, JobSaw, Reads, ReadSoFar
  <2>10. QED BY <2>1, <2>3, <2>8, <2>9 DEF Window
<1>2. WatchInv /\ [WatchNext]_vars =>
        (Completes /\ db'.status = "complete" =>
           \A t \in Present(rows) \ Present(rows') : inbox[db.account][t] \notin 1 .. job.before)
  BY <1>1
<1>3. QED
  <2>1. WatchInv /\ [WatchNext]_vars =>
          [Completes /\ db'.status = "complete" =>
             \A t \in Present(rows) \ Present(rows') :
                inbox[db.account][t] \notin 1 .. job.before]_vars
    BY <1>2
  <2>2. QED BY <2>1, WatchInvariant, PTL DEF WatchSpec, SweepKeepsTheBoundary

(* Rows that are there for the account change only as to the scan that saw   *)
(* them.                                                                     *)
LEMMA RowsOfStay ==
  ASSUME RemoteTypes, StoreTypes, NEW a \in Owners
  PROVE  \A t \in Threads :
           /\ RowsOf(a)[t] = NoRow \/ RowsOf(a)[t] = rows[t]
           /\ Unseen(RowsOf(a))[t] = NoRow \/ Unseen(RowsOf(a))[t].at = rows[t].at
<1>1. \A t \in Threads : RowsOf(a)[t] = NoRow \/ RowsOf(a)[t] = rows[t]
  BY DEF RowsOf, NoRows
<1>2. RowsOf(a) \in [Threads -> RowRecord]
  BY StoreOps
<1>3. \A t \in Threads : /\ Unseen(RowsOf(a))[t].at = RowsOf(a)[t].at
                         /\ RowsOf(a)[t] = NoRow => Unseen(RowsOf(a))[t] = NoRow
  BY <1>2, StoreOps
<1>4. QED BY <1>1, <1>3

(* Only what was read brings rows or news of them. *)
LEMMA OthersBringNothing ==
  ASSUME WatchInv, [WatchNext]_vars, ~ Merges, ~ Commits
  PROVE  \A t \in Threads : rows'[t] = NoRow \/ rows'[t].at = rows[t].at
<1> DEFINE Stay == \A t \in Threads : rows'[t] = NoRow \/ rows'[t].at = rows[t].at
<1>1. RemoteTypes /\ StoreTypes
  BY DEF WatchInv
<1>2. CASE UNCHANGED rows
  BY <1>2
<1>3. CASE rows' = NoRows
  BY <1>3 DEF NoRows
<1>4. ASSUME job.pc \notin {"none", "wipe"},
             rows' = RowsOf(Auth.login) \/ rows' = Unseen(RowsOf(Auth.login))
      PROVE  Stay
  <2>1. Auth.login \in Owners
    BY <1>4, Running DEF Owners
  <2>2. QED BY <1>1, <1>4, <2>1, RowsOfStay
<1>5. CASE \/ UNCHANGED vars \/ Alarm \/ RequestFails \/ DeleteFails \/ CoolsDown \/ Dies
           \/ \E a \in Busy, t \in Threads : Moves(a, t)
           \/ \E c \in Commands : Command(c)
           \/ \E login \in Accounts \cup {NoAccount}, watch \in BOOLEAN :
                ChangeCredential(login, watch)
  <2>1. UNCHANGED rows
    BY <1>5
    DEF vars, Alarm, RequestFails, DeleteFails, CoolsDown, Dies, Moves, Command, ChangeCredential,
        store
  <2>2. QED BY <1>2, <2>1
<1>6. ASSUME NEW c \in Callers, Reconcile(c) \/ TakeAuth(c) \/ StartBatch(c) \/ StartWipe(c)
      PROVE  Stay
  <2>1. UNCHANGED rows \/ rows' = NoRows
    BY <1>6 DEF Reconcile, TakeAuth, StartBatch, StartWipe, store
  <2>2. QED BY <1>2, <1>3, <2>1
<1>7. CASE \/ StartScope \/ Look \/ StartDone \/ Deletes \/ Answered \/ FetchesHeadUnchanged \/ FetchesPage
           \/ Validates \/ Wipes
  <2>1. UNCHANGED rows \/ rows' = NoRows
    BY <1>7
    DEF StartScope, Look, StartDone, Deletes, Answered, FetchesHeadUnchanged, FetchesPage, Validates, Wipes,
        store
  <2>2. QED BY <1>2, <1>3, <2>1
<1>8. CASE WriteScope \/ Revalidates \/ Records \/ Starts \/ Restarts
  <2>1. /\ job.pc \notin {"none", "wipe"}
        /\ \/ UNCHANGED rows
           \/ rows' = RowsOf(Auth.login) \/ rows' = Unseen(RowsOf(Auth.login))
    BY <1>8 DEF WriteScope, Revalidates, Records, Starts, Restarts, store
  <2>2. QED BY <1>2, <1>4, <2>1
<1>9. CASE AppliesDone
  <2>1. PICK left : left = [t \in Threads |-> IF t \in flight["done"].marked THEN NoRow ELSE rows[t]]
    OBVIOUS
  <2>2. UNCHANGED rows \/ rows' = left \/ rows' = Unseen(left)
    BY <1>9, <2>1 DEF AppliesDone, store
  <2>3. left \in [Threads -> RowRecord]
    <3>1. NoRow \in RowRecord
      BY <1>1 DEF NoRow, RowRecord, Owners, RemoteTypes, Past
    <3>2. QED BY <1>1, <2>1, <3>1 DEF StoreTypes
  <2>4. \A t \in Threads : /\ Unseen(left)[t].at = left[t].at
                           /\ left[t] = NoRow => Unseen(left)[t] = NoRow
    BY <1>1, <2>3, StoreOps
  <2>5. \A t \in Threads : left[t] = NoRow \/ left[t] = rows[t]
    BY <2>1
  <2>6. QED BY <1>2, <2>2, <2>4, <2>5
<1>10. QED
  BY <1>5, <1>6, <1>7, <1>8, <1>9 DEF WatchNext, Works, Batch

(* A thread marked done through Watch comes back only with news from after   *)
(* that.                                                                     *)
THEOREM MarksStayDone == WatchSpec => DoneStaysDone
<1>1. ASSUME WatchInv, [WatchNext]_vars, NEW t \in Present(rows'), rows'[t].at # rows[t].at
      PROVE  rows'[t].at > done[rows'[t].owner][t]
  <2>1. t \in Threads /\ rows'[t] # NoRow
    BY <1>1 DEF Present
  <2>2. Merges \/ Commits
    BY <1>1, <2>1, OthersBringNothing
  <2>3. job.pc \notin {"none", "wipe"}
    BY <2>2 DEF Merges, Commits
  <2>4. /\ job \in JobRecord /\ Auth.login \in Accounts /\ RemoteTypes
        /\ rows \in [Threads -> RowRecord]
    BY <1>1, <2>3, Running
  <2>5. PICK seen \in BOOLEAN : /\ rows'[t].at = Put(rows, seen)[t].at
                               /\ rows'[t].owner = Put(rows, seen)[t].owner
    <3>1. CASE Merges
      <4>1. rows' = Put(rows, FALSE) \/ UNCHANGED rows
        BY <3>1 DEF Merges, store
      <4>2. QED BY <1>1, <4>1
    <3>2. CASE Commits
      <4>1. CASE ~ Stands
        BY <1>1, <3>2, <4>1 DEF Commits, store
      <4>2. CASE Stands
        <5>1. rows' = IF job.next = 0 THEN Swept(Put(rows, TRUE)) ELSE Put(rows, TRUE)
          BY <1>1, <3>2, <4>2, Committed
        <5>2. Put(rows, TRUE) \in [Threads -> RowRecord]
          BY <2>4, PutOps
        <5>3. \/ Swept(Put(rows, TRUE))[t] = NoRow
              \/ /\ Swept(Put(rows, TRUE))[t].at = Put(rows, TRUE)[t].at
                 /\ Swept(Put(rows, TRUE))[t].owner = Put(rows, TRUE)[t].owner
          BY <2>1, <2>4, <5>2, SweptOps
        <5>4. /\ rows'[t].at = Put(rows, TRUE)[t].at
              /\ rows'[t].owner = Put(rows, TRUE)[t].owner
          BY <2>1, <5>1, <5>3
        <5>5. QED BY <5>4
      <4>3. QED BY <4>1, <4>2
    <3>3. QED BY <2>2, <3>1, <3>2
  <2>6. /\ job.got[t] = 0 => Put(rows, seen)[t] = rows[t]
        /\ job.got[t] # 0 => /\ Put(rows, seen)[t].owner = Auth.login
                             /\ Put(rows, seen)[t].at = job.got[t]
    BY <2>1, <2>4, PutOps
  <2>7. job.got[t] # 0 /\ rows'[t].owner = Auth.login /\ rows'[t].at = job.got[t]
    BY <1>1, <2>5, <2>6
  <2>8. QED BY <1>1, <2>1, <2>7 DEF WatchInv, ReadIsNewer, Got
<1>2. WatchInv /\ [WatchNext]_vars =>
        [\A t \in Present(rows') :
           rows'[t].at # rows[t].at => rows'[t].at > done[rows'[t].owner][t]]_vars
  BY <1>1
<1>3. QED BY <1>2, WatchInvariant, PTL DEF WatchSpec, DoneStaysDone
===============================================================================
