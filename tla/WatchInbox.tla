----------------------------- MODULE WatchInbox -----------------------------
(* The Watch inbox: GitHub's notification threads of one account, read page   *)
(* by page into a local cache by jobs of the background queue, while threads  *)
(* move on GitHub, the user changes the credential and the worker dies.       *)
(*                                                                            *)
(* GitHub and the clock share one version number: every remote change has its *)
(* own, a boundary ("before") is the version at which it was frozen, and a    *)
(* validator (Last-Modified) is the version of the inbox's last change.       *)
EXTENDS Integers, FiniteSets

CONSTANTS Accounts, NoAccount,
          Busy,          \* bound: the accounts whose inboxes change
          Unscoped,      \* bound: the accounts whose tokens may lack the scope
          Threads,       \* thread ids; each account has its own inbox of them
          PageSize,      \* threads on a page of GitHub's listing
          BatchPages,    \* INBOX_SCAN_BATCH_PAGES
          RestartLimit,  \* MANUAL_SNAPSHOT_RESTART_LIMIT
          MaxVersion,    \* bound: changes on GitHub
          MaxSwitches,   \* bound: credentials the user chooses
          MaxUses,       \* bound: commands of the user
          MaxFaults      \* bound: failed requests and worker deaths

ASSUME WatchAssumption ==
  /\ Busy # {} /\ Busy \subseteq Accounts /\ NoAccount \notin Accounts
  /\ Threads # {} /\ IsFiniteSet(Threads)
  /\ PageSize \in Nat \ {0} /\ BatchPages \in Nat \ {0}
  /\ {RestartLimit, MaxSwitches, MaxUses, MaxFaults} \subseteq Nat
  /\ MaxVersion \in Nat /\ MaxVersion >= 2  \* the versions the inboxes start with

(* What enters the queue: the commands of the user, the alarm's poll and the  *)
(* listener on the stored credentials.                                        *)
Commands == {"refresh", "older", "done", "disconnect", "clear"}
Callers == Commands \cup {"poll", "listener"}
Nobody == "nobody"

VARIABLES
  inbox,     \* GitHub: inbox[a][t], the version t was updated at, 0 if absent
  version,   \* GitHub: the versions used so far
  modified,  \* GitHub: modified[a], the version of the inbox's last change
  cred,      \* the stored credential: account, token, whether it opens Watch
  db,        \* the watchState row; its account is NoAccount when there is none
  rows,      \* the watchNotificationThreads table
  flight,    \* memory: flight[c], where the operation of a caller stands
  job,       \* memory: the job that runs in the serialized queue
  done,      \* history: done[a][t], the version at which Watch marked t done
  used,      \* the bounded choices made so far
  faults

vars == <<inbox, version, modified, cred, db, rows, flight, job, done, used, faults>>
remote == <<inbox, version, modified>>
store == <<db, rows>>
bounds == <<used, faults>>

-----------------------------------------------------------------------------
(* Rows carry the scan that saw them; of that id only its being the current  *)
(* scan's is ever asked.                                                     *)
NoRow == [owner |-> NoAccount, at |-> 0, seen |-> FALSE]
NoRows == [t \in Threads |-> NoRow]
Present(table) == {t \in Threads : table[t] # NoRow}
Unseen(table) == [t \in Threads |-> [table[t] EXCEPT !.seen = FALSE]]

Pending(a) ==
  [account |-> a, status |-> "pending", before |-> 0, page |-> 0, modified |-> 0, cooling |-> FALSE]
NoState == Pending(NoAccount)
Scanning(state) == state.status \in {"scanning", "partial"}

(* Replacing the account throws the other account's rows away.               *)
StateOf(a) == IF db.account = a THEN db ELSE Pending(a)

(* Mutant: the next account adopts the rows it finds. *)
AdoptsRows(a) == rows
RowsOf(a) == IF db.account = a THEN rows ELSE NoRows

NoFetch == [t \in Threads |-> 0]
NoJob == [by |-> Nobody, pc |-> "none", head |-> FALSE, before |-> 0, page |-> 0, pages |-> 0,
          got |-> NoFetch, next |-> 0, modified |-> 0]
SignedOut == [login |-> NoAccount, token |-> 0, watch |-> FALSE]
Idle == [pc |-> "idle", auth |-> SignedOut, restarts |-> 0, threads |-> {}, marked |-> {}]
JobPoints == {"none", "scope", "start", "fetch", "validate", "revalidate", "merge", "restart",
              "commit", "record", "wipe"}
FlightPoints == {"idle", "reconcile", "auth", "scope", "queued", "job", "look", "delete", "apply"}

-----------------------------------------------------------------------------
(* GitHub's listing, newest first, of the threads updated up to a boundary.  *)
Window(a, before) == {t \in Threads : inbox[a][t] \in 1..before}
Newer(a, before, t) == {u \in Window(a, before) : inbox[a][u] > inbox[a][t]}
Page(a, before, p) ==
  {t \in Window(a, before) : Cardinality(Newer(a, before, t)) \in (p - 1) * PageSize .. p * PageSize - 1}
HasNext(a, before, p) == Cardinality(Window(a, before)) > p * PageSize

(* The user is signed in, and the inbox is not read yet or read to its end.  *)
(* Accounts are interchangeable, and so are threads: any start will do.      *)
Oldest == CHOOSE t \in Threads : TRUE
User == CHOOSE a \in Busy : TRUE

WatchInit ==
  /\ inbox = [a \in Accounts |-> [t \in Threads |-> IF t = Oldest THEN 1 ELSE 2]]
  /\ version = 2
  /\ modified = [a \in Accounts |-> 2]
  /\ cred = [login |-> User, token |-> 0, watch |-> TRUE]
  /\ \/ db = NoState /\ rows = NoRows
     \/ /\ db = [Pending(cred.login) EXCEPT !.status = "complete", !.before = 2, !.modified = 2]
        /\ rows = [t \in Threads |-> [owner |-> cred.login, at |-> inbox[cred.login][t], seen |-> FALSE]]
  /\ flight = [c \in Callers |-> Idle]
  /\ job = NoJob
  /\ done = [a \in Accounts |-> NoFetch]
  /\ used = [switches |-> 0, commands |-> 0]
  /\ faults = 0

(* A thread gets news, or another client marks it done.                      *)
Moves(a, t) ==
  /\ version < MaxVersion
  /\ version' = version + 1
  /\ \E at \in {0, version + 1} :
       /\ inbox[a][t] # at
       /\ inbox' = [inbox EXCEPT ![a][t] = at]
  /\ modified' = [modified EXCEPT ![a] = version + 1]
  /\ UNCHANGED <<cred, db, rows, flight, job, done, bounds>>

-----------------------------------------------------------------------------
(* A caller comes in.  A refresh, a load of older rows and a poll join the   *)
(* operation that is under way; the poll joins a refresh too.                *)
Enter(c) == flight' = [flight EXCEPT ![c] = [Idle EXCEPT !.pc = "reconcile"]]

Command(c) ==
  /\ used.commands < MaxUses
  /\ used' = [used EXCEPT !.commands = @ + 1]
  /\ flight[c].pc = "idle"
  /\ Enter(c)
  /\ UNCHANGED <<remote, cred, store, job, done, faults>>

Alarm ==
  /\ flight["poll"].pc = "idle" /\ flight["refresh"].pc = "idle"
  /\ Enter("poll")
  /\ UNCHANGED <<remote, cred, store, job, done, bounds>>

(* setToken and clearToken: the one token signs in and, if it has the scope, *)
(* opens Watch; saved again, it is another credential of the same account.  A *)
(* change of the account wakes the listener.                                 *)
ChangeCredential(login, watch) ==
  /\ used.switches < MaxSwitches
  /\ login \in Accounts \ Unscoped => watch
  /\ used' = [used EXCEPT !.switches = @ + 1]
  /\ IF login # NoAccount
     THEN cred' = [login |-> login, token |-> used.switches + 1, watch |-> watch]
     ELSE cred.login # NoAccount /\ ~ watch /\ cred' = SignedOut
  /\ IF login # cred.login THEN Enter("listener") ELSE UNCHANGED flight
  /\ UNCHANGED <<remote, store, job, done, faults>>

(* The job "done" keeps its state with its caller.                           *)
Marking == flight["done"].pc \in {"delete", "apply"}

(* Mutant: threads are marked done outside the queue. *)
MayRunBesideMarks == job = NoJob

(* The queue runs one job at a time.                                         *)
MayRun == job = NoJob /\ ~ Marking

(* Every operation first reconciles the account, as a job of its own: the    *)
(* cache of another account goes, and with nobody signed in so does Watch.   *)
(* A poll that finds a refresh on joins it then.                             *)
Reconcile(c) ==
  /\ flight[c].pc = "reconcile" /\ MayRun
  /\ IF db.account # cred.login THEN db' = NoState /\ rows' = NoRows ELSE UNCHANGED store
  /\ cred' = IF cred.login = NoAccount THEN [cred EXCEPT !.watch = FALSE] ELSE cred
  /\ flight' = [flight EXCEPT ![c].pc = IF c = "listener" THEN "idle" ELSE "auth"]
  /\ UNCHANGED <<remote, job, done, bounds>>

(* The credential is read before the job is queued.                          *)
TakeAuth(c) ==
  /\ flight[c].pc = "auth"
  /\ flight' = [flight EXCEPT ![c] =
       IF c = "poll" /\ flight["refresh"].pc # "idle" THEN Idle
       ELSE [@ EXCEPT !.pc = IF c = "refresh" THEN "scope" ELSE "queued", !.auth = cred]]
  /\ UNCHANGED <<remote, cred, store, job, done, bounds>>

-----------------------------------------------------------------------------
(* sameCredentials: the credential an operation was asked with still stands. *)
SameCredential(auth) ==
  auth.login # NoAccount /\ cred.login = auth.login /\ cred.token = auth.token
Authorized(auth) == SameCredential(auth) /\ auth.watch /\ cred.watch

Run(c, next) ==
  /\ job' = [next EXCEPT !.by = c]
  /\ flight' = [flight EXCEPT ![c].pc = "job"]

(* Mutant: only a failure ends the loop. *)
GoesOnUnlessFailed(outcome) == outcome \in {"ok", "changed"}

(* The end of a job.  A refresh goes on from batch to batch until one fails, *)
(* finds another credential, or leaves the scan complete.                    *)
GoesOn(outcome) == outcome = "ok"

Returns(c, outcome) ==
  flight' = [flight EXCEPT ![c] =
    IF c = "refresh" /\ GoesOn(outcome) THEN [@ EXCEPT !.pc = "look"] ELSE Idle]
EndJob(outcome) == job' = NoJob /\ Returns(job.by, outcome)

Auth == flight[job.by].auth

(* The scope is the first job of a refresh: the intersection of watched and  *)
(* starred repositories, whose record replaces that of another account.  The *)
(* last look at the credential is a while before the write.                  *)
StartScope ==
  /\ flight["refresh"].pc = "scope" /\ MayRun
  /\ IF SameCredential(flight["refresh"].auth)
     THEN Run("refresh", [NoJob EXCEPT !.pc = "scope"])
     ELSE flight' = [flight EXCEPT !["refresh"] = Idle] /\ UNCHANGED job
  /\ UNCHANGED <<remote, cred, store, done, bounds>>

WriteScope ==
  /\ job.pc = "scope"
  /\ \/ db' = StateOf(Auth.login) /\ rows' = RowsOf(Auth.login)
     \/ ~ SameCredential(Auth) /\ UNCHANGED store
  /\ job' = NoJob
  /\ flight' = [flight EXCEPT ![job.by] = IF Authorized(Auth) THEN [@ EXCEPT !.pc = "queued"] ELSE Idle]
  /\ UNCHANGED <<remote, cred, done, bounds>>

Look ==
  /\ flight["refresh"].pc = "look"
  /\ flight' = [flight EXCEPT !["refresh"] =
       IF db.account = @.auth.login /\ db.status = "complete" THEN Idle ELSE [@ EXCEPT !.pc = "queued"]]
  /\ UNCHANGED <<remote, cred, store, job, done, bounds>>

(* A batch continues the durable scan, asks for the head of a converged one  *)
(* (scheduled polls only), or starts a scan at a boundary frozen now.        *)
Plan(c, state) ==
  IF Scanning(state)
  THEN [NoJob EXCEPT !.pc = "fetch", !.before = state.before, !.page = state.page, !.next = state.page]
  ELSE LET new == [NoJob EXCEPT !.before = version, !.page = 1, !.next = 1]
       IN  IF c # "refresh" /\ state.status = "complete"
           THEN [new EXCEPT !.pc = "fetch", !.head = TRUE, !.modified = state.modified]
           ELSE [new EXCEPT !.pc = "start"]

(* Mutant: a scan that failed is left to the user. *)
NothingAfterFailure(c, state) ==
  \/ state.status = "complete" /\ (c = "older" \/ (c = "poll" /\ state.cooling))
  \/ c = "poll" /\ state.status = "partial"

(* A poll waits for the cooldown of a converged inbox, and older rows are    *)
(* read while a scan is not complete.                                        *)
NothingToDo(c, state) ==
  state.status = "complete" /\ (c = "older" \/ (c = "poll" /\ state.cooling))

StartBatch(c) ==
  /\ c \in {"refresh", "poll", "older"}
  /\ flight[c].pc = "queued" /\ MayRun
  /\ LET state == StateOf(flight[c].auth.login)
     IN  IF Authorized(flight[c].auth) /\ ~ NothingToDo(c, state)
         THEN Run(c, Plan(c, state)) ELSE Returns(c, "changed") /\ UNCHANGED job
  /\ UNCHANGED <<remote, cred, store, done, bounds>>

(* startWatchInboxScan: a fresh scan id, so no row is one of this scan's.    *)
Started(before) ==
  [Pending(Auth.login) EXCEPT !.status = "scanning", !.before = before, !.page = 1]

Starts ==
  /\ job.pc = "start"
  /\ db' = Started(job.before)
  /\ rows' = Unseen(RowsOf(Auth.login))
  /\ job' = [job EXCEPT !.pc = "fetch"]
  /\ UNCHANGED <<remote, cred, flight, done, bounds>>

-----------------------------------------------------------------------------

(* Mutant: the last batch is committed as it is. *)
AfterFetchUnvalidated(fetched) ==
  IF ~ fetched.head THEN "commit" ELSE IF fetched.next # 0 THEN "restart" ELSE "merge"

(* A batch asks for one page after the other; the credential is looked at    *)
(* again when its last page has come.  GitHub answers 304 to the head of a   *)
(* converged inbox when nothing has changed.                                 *)
AfterFetch(fetched) ==
  IF fetched.head THEN IF fetched.next # 0 THEN "restart" ELSE "merge"
                  ELSE IF fetched.next # 0 THEN "commit" ELSE "validate"

Fetched ==
  LET a == Auth.login
      page == Page(a, job.before, job.next)
  IN  [job EXCEPT !.got = [t \in Threads |-> IF t \in page THEN inbox[a][t] ELSE @[t]],
                  !.next = IF HasNext(a, job.before, job.next) THEN @ + 1 ELSE 0,
                  !.pages = @ + 1,
                  !.modified = IF job.head \/ job.next = 1 THEN modified[a] ELSE @]

FetchesHeadUnchanged ==
  /\ job.pc = "fetch" /\ job.head /\ modified[Auth.login] = job.modified
  /\ IF Authorized(Auth)
     THEN job' = [job EXCEPT !.pc = "revalidate"] /\ UNCHANGED flight ELSE EndJob("changed")
  /\ UNCHANGED <<remote, cred, store, done, bounds>>

FetchesPage ==
  /\ job.pc = "fetch" /\ ~ (job.head /\ modified[Auth.login] = job.modified)
  /\ LET last == Fetched.next = 0 \/ Fetched.pages = (IF job.head THEN 1 ELSE BatchPages)
     IN  \/ ~ last /\ job' = Fetched /\ UNCHANGED flight
         \/ /\ last /\ Authorized(Auth)
            /\ job' = [Fetched EXCEPT !.pc = AfterFetch(Fetched)]
            /\ UNCHANGED flight
         \/ last /\ ~ Authorized(Auth) /\ EndJob("changed")
  /\ UNCHANGED <<remote, cred, store, done, bounds>>

(* Mutant: the limit is off by one. *)
OutOfRestartsLate == flight["refresh"].restarts > RestartLimit

(* The last batch is committed only when the first page, asked again with    *)
(* the validator it came with, has not changed.  If it has, the scan starts  *)
(* again at a later boundary; a refresh does so a few times.                 *)
OutOfRestarts == flight["refresh"].restarts >= RestartLimit

Validator == IF job.page = 1 THEN job.modified ELSE db.modified

Validates ==
  /\ job.pc = "validate"
  /\ IF ~ Authorized(Auth) THEN EndJob("changed")
     ELSE /\ job' = [job EXCEPT
               !.modified = Validator,
               !.pc = IF modified[Auth.login] = Validator THEN "commit"
                      ELSE IF job.by = "refresh" /\ OutOfRestarts THEN "record" ELSE "restart"]
          /\ UNCHANGED flight
  /\ UNCHANGED <<remote, cred, store, done, bounds>>

(* A request fails: the failure is recorded if the credential still stands.  *)
RequestFails ==
  /\ job.pc \in {"fetch", "validate"}
  /\ faults < MaxFaults /\ faults' = faults + 1
  /\ IF Authorized(Auth)
     THEN job' = [job EXCEPT !.pc = "record"] /\ UNCHANGED flight ELSE EndJob("changed")
  /\ UNCHANGED <<remote, cred, store, done, used>>

-----------------------------------------------------------------------------
(* The transactions at the end of a batch.  The credential may have changed  *)
(* since it was looked at; the record they find is still the one they read,  *)
(* for every writer is a job of the queue.                                   *)
Revalidates ==
  /\ job.pc = "revalidate"
  /\ db' = [StateOf(Auth.login) EXCEPT !.cooling = TRUE]
  /\ rows' = RowsOf(Auth.login)
  /\ EndJob("ok")
  /\ UNCHANGED <<remote, cred, done, bounds>>

Put(table, seen) ==
  [t \in Threads |-> IF job.got[t] = 0 THEN table[t]
                     ELSE [owner |-> Auth.login, at |-> job.got[t], seen |-> seen]]

(* A changed head that fits on one page is merged and nothing is removed.    *)
Merges ==
  /\ job.pc = "merge"
  /\ IF db.account = Auth.login /\ db.status = "complete"
     THEN /\ rows' = Put(rows, FALSE)
          /\ db' = [db EXCEPT !.modified = job.modified, !.cooling = TRUE]
          /\ EndJob("ok")
     ELSE EndJob("changed") /\ UNCHANGED store
  /\ UNCHANGED <<remote, cred, done, bounds>>

(* The scan that follows a changed head of several pages keeps the boundary  *)
(* of the head; one that follows a failed validation is given a later one.   *)
Again(f) == [f EXCEPT !.pc = "look", !.restarts = @ + 1]

Restarts ==
  /\ job.pc = "restart"
  /\ db' = Started(IF job.head THEN job.before ELSE version)
  /\ rows' = Unseen(RowsOf(Auth.login))
  /\ job' = NoJob
  /\ flight' = [flight EXCEPT ![job.by] =
       IF job.by # "refresh" THEN Idle ELSE Again(@)]
  /\ UNCHANGED <<remote, cred, done, bounds>>

(* Where a batch applies: to the scan it was planned for.                    *)
Stands ==
  /\ db.account = Auth.login /\ Scanning(db)
  /\ db.before = job.before /\ db.page = job.page

(* The rows a completed scan leaves: those it saw.  No scan is current then.  *)
Swept(table) ==
  [t \in Threads |-> IF table[t].seen THEN [table[t] EXCEPT !.seen = FALSE] ELSE NoRow]

Commits ==
  /\ job.pc = "commit"
  /\ IF ~ Stands THEN EndJob("changed") /\ UNCHANGED store
     ELSE LET now == [db EXCEPT !.page = job.next,
                                !.modified = IF job.page = 1 \/ job.next = 0 THEN job.modified ELSE @,
                                !.cooling = (job.next = 0)]
          IN  /\ db' = [now EXCEPT !.status = IF job.next = 0 THEN "complete" ELSE "scanning"]
              /\ rows' = IF job.next = 0 THEN Swept(Put(rows, TRUE)) ELSE Put(rows, TRUE)
              /\ EndJob("ok")
  /\ UNCHANGED <<remote, cred, done, bounds>>

Records ==
  /\ job.pc = "record"
  /\ db' = LET state == StateOf(Auth.login)
           IN  IF Scanning(state) THEN [state EXCEPT !.status = "partial"] ELSE state
  /\ rows' = RowsOf(Auth.login)
  /\ EndJob("failed")
  /\ UNCHANGED <<remote, cred, done, bounds>>

(* nextAllowedAt passes.  It is asked of a converged inbox only.             *)
CoolsDown ==
  /\ db.cooling
  /\ db' = [db EXCEPT !.cooling = FALSE]
  /\ UNCHANGED <<remote, cred, rows, flight, job, done, bounds>>

-----------------------------------------------------------------------------
(* Threads are marked done on GitHub first, a few at a time, and then those   *)
(* that were in the cache; a scan that is on starts over, for its pages have  *)
(* shifted.                                                                   *)
Ends(c) == flight' = [flight EXCEPT ![c] = Idle]

StartDone ==
  /\ flight["done"].pc = "queued" /\ MayRun
  /\ LET auth == flight["done"].auth
         targets == IF Authorized(auth) /\ db.account = auth.login THEN Present(rows) ELSE {}
     IN  \/ \E asked \in (SUBSET targets) \ {{}} :
              flight' = [flight EXCEPT !["done"] = [@ EXCEPT !.pc = "delete", !.threads = asked]]
         \/ targets = {} /\ Ends("done")
  /\ UNCHANGED <<remote, cred, store, job, done, bounds>>

(* The request about t is answered, and t is marked or not.                  *)
Answer(f, t, marked) == [f EXCEPT !.threads = @ \ {t}, !.marked = @ \cup marked]

(* A thread that is gone from GitHub already counts as done.                 *)
Deletes ==
  /\ flight["done"].pc = "delete"
  /\ \E t \in flight["done"].threads :
       LET a == flight["done"].auth.login
       IN  /\ inbox' = [inbox EXCEPT ![a][t] = 0]
           /\ IF inbox[a][t] = 0 THEN UNCHANGED <<version, modified>>
              ELSE version' = version + 1 /\ modified' = [modified EXCEPT ![a] = version + 1]
           /\ done' = [done EXCEPT ![a][t] = version']
           /\ flight' = [flight EXCEPT !["done"] = Answer(@, t, {t})]
  /\ UNCHANGED <<cred, store, job, bounds>>

(* One thread's failure does not stop the others.                            *)
DeleteFails ==
  /\ flight["done"].pc = "delete"
  /\ faults < MaxFaults /\ faults' = faults + 1
  /\ \E t \in flight["done"].threads :
       flight' = [flight EXCEPT !["done"] = Answer(@, t, {})]
  /\ UNCHANGED <<remote, cred, store, job, done, used>>

(* Every request is answered: what was marked is applied, unless the         *)
(* credential is another by now.                                             *)
Answered ==
  /\ flight["done"].pc = "delete" /\ flight["done"].threads = {}
  /\ IF Authorized(flight["done"].auth) /\ flight["done"].marked # {}
     THEN flight' = [flight EXCEPT !["done"].pc = "apply"] ELSE Ends("done")
  /\ UNCHANGED <<remote, cred, store, job, done, bounds>>

AppliesDone ==
  /\ flight["done"].pc = "apply"
  /\ IF db.account = flight["done"].auth.login
     THEN LET left == [t \in Threads |-> IF t \in flight["done"].marked THEN NoRow ELSE rows[t]]
          IN  IF Scanning(db) THEN db' = Pending(db.account) /\ rows' = Unseen(left)
                              ELSE rows' = left /\ UNCHANGED db
     ELSE UNCHANGED store
  /\ Ends("done")
  /\ UNCHANGED <<remote, cred, job, done, bounds>>

(* Disconnecting, and clearing Watch, first take Watch off the credential.   *)
StartWipe(c) ==
  /\ c \in {"disconnect", "clear"}
  /\ flight[c].pc = "queued" /\ MayRun
  /\ job' = [NoJob EXCEPT !.pc = "wipe", !.by = c]
  /\ flight' = [flight EXCEPT ![c] = [@ EXCEPT !.pc = "job", !.auth = cred]]
  /\ cred' = [cred EXCEPT !.watch = FALSE]
  /\ UNCHANGED <<remote, store, done, bounds>>

Wipes ==
  /\ job.pc = "wipe"
  /\ rows' = NoRows
  /\ db' = IF job.by = "disconnect" /\ db.account = Auth.login THEN Pending(db.account) ELSE NoState
  /\ EndJob("ok")
  /\ UNCHANGED <<remote, cred, done, bounds>>

(* The worker dies: memory is lost, and what was queued with it.             *)
Dies ==
  /\ faults < MaxFaults /\ faults' = faults + 1
  /\ \E c \in Callers : flight[c].pc # "idle"
  /\ flight' = [c \in Callers |-> Idle]
  /\ job' = NoJob
  /\ UNCHANGED <<remote, cred, store, done, used>>

-----------------------------------------------------------------------------
Batch ==
  \/ Starts \/ FetchesHeadUnchanged \/ FetchesPage \/ Validates
  \/ Revalidates \/ Merges \/ Restarts \/ Commits \/ Records

Works ==
  \/ StartScope \/ WriteScope \/ Look \/ Batch
  \/ StartDone \/ Deletes \/ Answered \/ AppliesDone \/ Wipes
  \/ \E c \in Callers : Reconcile(c) \/ TakeAuth(c) \/ StartBatch(c) \/ StartWipe(c)

WatchNext ==
  \/ \E a \in Busy, t \in Threads : Moves(a, t)
  \/ \E c \in Commands : Command(c)
  \/ \E login \in Accounts \cup {NoAccount}, watch \in BOOLEAN : ChangeCredential(login, watch)
  \/ Alarm \/ Works \/ RequestFails \/ DeleteFails \/ CoolsDown \/ Dies

WatchSpec == WatchInit /\ [][WatchNext]_vars

(* The queue is never stuck (requests are answered or time out), the alarm   *)
(* rings every minute, and the cooldown ends.                                *)
FairWatchSpec == WatchSpec /\ WF_vars(Works) /\ WF_vars(Alarm) /\ WF_vars(CoolsDown)

-----------------------------------------------------------------------------
(* Types; every version that anything remembers has been used.              *)
Versions == 0 .. version
Auths == [login : Accounts \cup {NoAccount}, token : 0 .. MaxSwitches, watch : BOOLEAN]
PageNumbers == 0 .. Cardinality(Threads) + BatchPages + 1

WatchTypeOK ==
  /\ inbox \in [Accounts -> [Threads -> Versions]]
  /\ version \in Nat /\ modified \in [Accounts -> Versions]
  /\ cred \in Auths
  /\ db \in [account : Accounts \cup {NoAccount}, status : {"pending", "scanning", "partial", "complete"},
             before : Versions, page : PageNumbers, modified : Versions, cooling : BOOLEAN]
  /\ \A t \in Threads :
       rows[t] \in [owner : Accounts \cup {NoAccount}, at : Versions, seen : BOOLEAN]
  /\ \A c \in Callers :
       /\ flight[c].pc \in FlightPoints /\ flight[c].threads \cup flight[c].marked \subseteq Threads
       /\ flight[c].auth \in Auths /\ flight[c].restarts \in 0 .. RestartLimit
  /\ job.by \in Callers \cup {Nobody} /\ job.pc \in JobPoints
  /\ job.by # Nobody => flight[job.by].pc = "job"
  /\ {job.before, job.modified} \subseteq Versions /\ {job.page, job.next, job.pages} \subseteq PageNumbers
  /\ faults \in 0 .. MaxFaults

(* "Tables without their account-bound state are orphaned and must never be  *)
(* adopted by the next account": whatever interleaving of sign-ins, jobs and *)
(* worker deaths, cached private threads are those of the account recorded.  *)
RowsHaveTheirAccount == \A t \in Present(rows) : rows[t].owner = db.account /\ rows[t].owner \in Accounts

(* A completed scan removes no thread that was in the inbox at its boundary  *)
(* and still is: numeric pages shift while it runs, and a thread skipped     *)
(* that way must be found out before the sweep.                              *)
Completes == job.pc = "commit" /\ job.next = 0 /\ Stands
SweepKeepsTheBoundary ==
  [][Completes /\ db'.status = "complete" =>
       \A t \in Present(rows) \ Present(rows') :
          inbox[db.account][t] \notin 1 .. job.before]_vars

(* "Removed only by a complete remote Notifications traversal": a row that a *)
(* completed scan removes is of a thread that has left the inbox, or that    *)
(* changed after the page that proves the scan stable.                       *)
SweptThreadsAreGone ==
  [][Completes /\ db'.status = "complete" =>
       \A t \in Present(rows) \ Present(rows') :
          inbox[db.account][t] \notin 1 .. job.modified]_vars

(* A thread marked done through Watch comes back only with news from after   *)
(* that: no page fetched before it is written after it.                      *)
DoneStaysDone ==
  [][\A t \in Present(rows') :
       rows'[t].at # rows[t].at => rows'[t].at > done[rows'[t].owner][t]]_vars

(* A manual refresh, a loop of batches that ignores the cooldown and starts  *)
(* over when the inbox changes, comes to an end.                             *)
RefreshEnds == []<>(flight["refresh"].pc = "idle")

(* Once GitHub, the credential and the user are quiet, the polls alone bring *)
(* whatever scan was left behind to its end.                                 *)
InboxConverges ==
  []<>(\/ ~ (cred.login # NoAccount /\ cred.watch)
       \/ db.account = cred.login /\ db.status = "complete")
=============================================================================
