------------------------------ MODULE TagSync ------------------------------
(* Tags, notes and favorites of one repository and the tag metadata, edited  *)
(* on several devices and exchanged through a Gist: the local store with its *)
(* dirty outbox, the serialized job queue of the background worker, and the  *)
(* push and the pull, one action per await.                                  *)
(*                                                                           *)
(* The assignment layers of the row are timestamped one by one; "row" is the *)
(* part (notes, favorite) that shares the row's mtime, "meta" the tag        *)
(* metadata.  What a layer holds is its stamp: who wrote it, as which job,   *)
(* and the mtime.                                                            *)
EXTENDS Integers, FiniteSets, Sequences

CONSTANTS Devices,       \* installations of the extension, one account
          NoDevice,
          Gists, NoGist, \* the Gists that may exist
          Edits,         \* the kinds of edit a run enumerates
          MaxTime,       \* bound: readings of a device's clock
          MaxJobs,       \* bound: jobs submitted on a device
          MaxFaults      \* bound: crashes, failed requests, deleted Gists

(* The methods of the tag store that write.                                  *)
EditKinds == {"addAgentTags", "setTags", "setAutoTags", "removeVisibleTag", "setNotes",
              "upsertMeta", "deleteTagsEverywhere", "deleteAllTags"}

ASSUME SyncAssumption ==
  /\ Devices # {} /\ NoDevice \notin Devices
  /\ Gists # {} /\ NoGist \notin Gists
  /\ Edits \subseteq EditKinds
  /\ MaxTime \in Nat /\ MaxJobs \in Nat /\ MaxFaults \in Nat

TagLayers == {"manual", "auto", "dismissed", "row"}
Layers == TagLayers \cup {"meta"}
Keys == {"tag", "meta"}

(* Mutant: an outbox row per layer. *)
KeyOfLayer(l) == l

(* One outbox row stands for the repository, one for all the metadata.       *)
KeyOf(l) == IF l = "meta" THEN "meta" ELSE "tag"

Stamp == [at : Nat, by : Devices \cup {NoDevice}, job : Nat]
Never == [at |-> 0, by |-> NoDevice, job |-> 0]
NoRow == [l \in Layers |-> Never]

VARIABLES
  store,   \* store[d][l]: the stamp of the layer in IndexedDB
  outbox,  \* outbox[d]: the dirty outbox, its keys with their versions
  dirty,   \* dirty[d]: the keys the worker holds in memory as dirty, likewise
  bound,   \* bound[d]: the Gist the profile is bound to
  queue,   \* queue[d]: the jobs of the serialized runner, the running one first
  push,    \* push[d]: the local state of the push or the pull that runs
  clock,   \* clock[d]: the device's clock
  count,   \* count[d]: jobs submitted
  gist,    \* gist[g]: the snapshot on GitHub, or NoGist
  sent,    \* history: stamps an accepted push has carried
  faults

vars == <<store, outbox, dirty, bound, queue, push, clock, count, gist, sent, faults>>

local == <<store, outbox, dirty>>
remote == <<gist, sent>>

Idle == [pc |-> "idle", marks |-> {}, versions |-> {}, rows |-> NoRow, seen |-> NoRow]
Points == {"idle", "ensure", "create", "build", "patch", "clear", "read", "merge", "put", "readmeta", "meta"}

-----------------------------------------------------------------------------
(* The layers each edit may write, by what it finds.  A manual tag takes its *)
(* dismissal back, one that was excluded everywhere revives its metadata;    *)
(* computed tags leave the row's own mtime alone.                            *)
addAgentTags == {{"manual", "row"}}
setTags == {{"manual", "row"} \cup w : w \in SUBSET {"dismissed", "meta"}}
setAutoTags == {{"auto"}}

(* A visible tag is manual, automatic or both; its removal dismisses it.     *)
Visible == {w \in SUBSET {"manual", "auto", "dismissed"} : w \cap {"manual", "auto"} # {}}
removeVisibleTag == {w \cup {"row"} : w \in Visible}

(* Notes and the favorite. *)
setNotes == {{"row"}}
upsertMeta == {{"meta"}}

(* The metadata always get the tombstone; only an automatic tag is dismissed. *)
deleteTagsEverywhere ==
  {{"meta"}} \cup {w \cup {"row", "meta"} : w \in {v \in Visible : "dismissed" \in v => "auto" \in v}}
deleteAllTags == {w \cup {"row"} : w \in (SUBSET {"manual", "auto", "dismissed"}) \ {{}}}

Writes(edit) ==
  CASE edit = "addAgentTags" -> addAgentTags
    [] edit = "setTags" -> setTags
    [] edit = "setAutoTags" -> setAutoTags
    [] edit = "removeVisibleTag" -> removeVisibleTag
    [] edit = "setNotes" -> setNotes
    [] edit = "upsertMeta" -> upsertMeta
    [] edit = "deleteTagsEverywhere" -> deleteTagsEverywhere
    [] edit = "deleteAllTags" -> deleteAllTags

(* Writes the agent can ask for too: they end unwritten when its turn was    *)
(* stopped in the queue or while an Organize apply is on.                    *)
AgentEdits == {"addAgentTags", "removeVisibleTag", "deleteTagsEverywhere"}

(* An edit that only removes does nothing to a repository without a row.     *)
Removes == {"removeVisibleTag", "deleteTagsEverywhere", "deleteAllTags"}

HasRow(rows) == rows["row"].at > 0

(* The row an edit writes at time t: the first edit of a repository stamps   *)
(* every layer of the empty row it starts from.                              *)
Edited(rows, layers, d, j, t) ==
  LET fresh == ~ HasRow(rows) /\ layers \cap TagLayers # {}
  IN  [l \in Layers |->
         IF l \in layers \/ (fresh /\ l \in TagLayers)
         THEN [at |-> t, by |-> d, job |-> j] ELSE rows[l]]

(* Layers merge one by one: the later mtime wins, on a tie the local stays.  *)
Merge(mine, theirs) ==
  [l \in Layers |-> IF l \in TagLayers /\ theirs[l].at > mine[l].at THEN theirs[l] ELSE mine[l]]

(* Metadata that tie are ordered by what they say: either may win.           *)
MetaWinners(mine, theirs) ==
  {m \in {mine, theirs} : m.at >= mine.at /\ m.at >= theirs.at}

(* A table of versions, as pairs, and what is left of it once the noted ones *)
(* are cleared.                                                              *)
Noted(table) == {<<k, table[k]>> : k \in DOMAIN table}
Cleared(table, noted) ==
  [k \in {j \in DOMAIN table : <<j, table[j]>> \notin noted} |-> table[k]]
Marked(table, keys, version) ==
  [k \in DOMAIN table \cup keys |-> IF k \in keys THEN version ELSE table[k]]
NoKeys == [k \in {} |-> 0]

Fault == faults < MaxFaults /\ faults' = faults + 1

-----------------------------------------------------------------------------
(* GitHub names a new Gist; the names are interchangeable.  The devices      *)
(* start from copies of one profile, which is bound to a Gist already.       *)
First == CHOOSE g \in Gists : TRUE
Unused == {g \in Gists : gist[g] = NoGist /\ \A d \in Devices : bound[d] # g}
NewGist == CHOOSE g \in Unused : TRUE

SyncInit ==
  /\ store = [d \in Devices |-> NoRow]
  /\ outbox = [d \in Devices |-> NoKeys]
  /\ dirty = [d \in Devices |-> NoKeys]
  /\ bound = [d \in Devices |-> First]
  /\ gist = [g \in Gists |-> IF g = First THEN NoRow ELSE NoGist]
  /\ queue = [d \in Devices |-> <<>>]
  /\ push = [d \in Devices |-> Idle]
  /\ clock = [d \in Devices |-> 1]
  /\ count = [d \in Devices |-> 0]
  /\ sent = {}
  /\ faults = 0

(* Every command and every agent write goes through the serialized runner:   *)
(* a job starts when the one before it has settled.                          *)
Job == [kind : {"edit", "push", "pull"}, edit : EditKinds \cup {"none"}, layers : SUBSET Layers,
        job : Nat]

Submit(d, kind, edit, layers) ==
  /\ count[d] < MaxJobs
  /\ count' = [count EXCEPT ![d] = @ + 1]
  /\ queue' = [queue EXCEPT ![d] =
       Append(@, [kind |-> kind, edit |-> edit, layers |-> layers, job |-> count[d] + 1])]
  /\ UNCHANGED <<local, bound, push, clock, remote, faults>>

SubmitEdit(d) == \E e \in Edits : \E layers \in Writes(e) : Submit(d, "edit", e, layers)
SubmitPush(d) == Submit(d, "push", "none", {})
SubmitPull(d) == Submit(d, "pull", "none", {})

Running(d, kind) == queue[d] # <<>> /\ Head(queue[d]).kind = kind

Settle(d) ==
  /\ queue' = [queue EXCEPT ![d] = Tail(@)]
  /\ push' = [push EXCEPT ![d] = Idle]

EndsUnwritten(d) ==
  /\ Running(d, "edit") /\ Head(queue[d]).edit \in AgentEdits
  /\ Settle(d)
  /\ UNCHANGED <<local, bound, clock, count, remote, faults>>

-----------------------------------------------------------------------------
(* An edit: one transaction over the row and its outbox entries, then the    *)
(* dirty marks in memory.                                                    *)
Written(job, rows) ==
  IF job.edit \in Removes /\ ~ HasRow(rows) THEN job.layers \cap {"meta"} ELSE job.layers

(* Mutant: the command does not go through the runner. *)
EditAtOnce(d) ==
  /\ \E i \in 1..Len(queue[d]) :
       /\ queue[d][i].kind = "edit"
       /\ store' = [store EXCEPT ![d] = Edited(@, queue[d][i].layers, d, queue[d][i].job, clock[d])]
       /\ LET keys == {KeyOf(l) : l \in queue[d][i].layers} IN
            /\ outbox' = [outbox EXCEPT ![d] = Marked(@, keys, queue[d][i].job)]
            /\ dirty' = [dirty EXCEPT ![d] = Marked(@, keys, queue[d][i].job)]
       /\ queue' = [queue EXCEPT ![d] = SubSeq(@, 1, i - 1) \o SubSeq(@, i + 1, Len(@))]
  /\ UNCHANGED <<bound, push, clock, count, remote, faults>>

Edit(d) ==
  /\ Running(d, "edit")
  /\ LET job == Head(queue[d])
         layers == Written(job, store[d])
         keys == {KeyOf(l) : l \in layers}
     IN  /\ store' = [store EXCEPT ![d] = Edited(@, layers, d, job.job, clock[d])]
         /\ outbox' = [outbox EXCEPT ![d] = Marked(@, keys, job.job)]
         /\ dirty' = [dirty EXCEPT ![d] = Marked(@, keys, job.job)]
  /\ Settle(d)
  /\ UNCHANGED <<bound, clock, count, remote, faults>>

-----------------------------------------------------------------------------
(* Push: what is dirty is noted first, the snapshot is built later, and only *)
(* the outbox rows whose version was noted are cleared after the answer.     *)
PushBegins(d) ==
  /\ Running(d, "push") /\ push[d].pc = "idle"
  /\ push' = [push EXCEPT ![d] = [Idle EXCEPT
       !.pc = IF bound[d] = NoGist THEN "create" ELSE "ensure",
       !.marks = Noted(dirty[d]), !.versions = Noted(outbox[d])]]
  /\ UNCHANGED <<local, bound, queue, clock, count, remote, faults>>

(* Mutant: only the marks in memory count. *)
HasMarks(d) == push[d].marks # {}

HasChanges(d) == push[d].marks \cup push[d].versions # {}

(* The bound Gist is alive: with nothing dirty the push is over.             *)
PushEnsures(d) ==
  /\ push[d].pc = "ensure" /\ gist[bound[d]] # NoGist
  /\ IF HasChanges(d)
     THEN push' = [push EXCEPT ![d].pc = "build"] /\ UNCHANGED queue
     ELSE Settle(d)
  /\ UNCHANGED <<local, bound, clock, count, remote, faults>>

PushUnbinds(d) ==
  /\ push[d].pc = "ensure" /\ gist[bound[d]] = NoGist
  /\ bound' = [bound EXCEPT ![d] = NoGist]
  /\ push' = [push EXCEPT ![d].pc = "create"]
  /\ UNCHANGED <<local, queue, clock, count, remote, faults>>

(* A new Gist starts empty and is bound to this profile only.                *)
PushCreates(d) ==
  /\ push[d].pc = "create" /\ Unused # {}
  /\ gist' = [gist EXCEPT ![NewGist] = NoRow]
  /\ bound' = [bound EXCEPT ![d] = NewGist]
  /\ push' = [push EXCEPT ![d].pc = "build"]
  /\ UNCHANGED <<local, queue, clock, count, sent, faults>>

(* Mutant: the outbox is cleared before the request. *)
PushClearsFirst(d) ==
  /\ push[d].pc = "build"
  /\ push' = [push EXCEPT ![d].pc = "patch", ![d].rows = store[d]]
  /\ outbox' = [outbox EXCEPT ![d] = Cleared(@, push[d].versions)]
  /\ UNCHANGED <<store, dirty, bound, queue, clock, count, remote, faults>>

(* The whole store is read, not what is dirty. *)
PushBuilds(d) ==
  /\ push[d].pc = "build"
  /\ push' = [push EXCEPT ![d].pc = "patch", ![d].rows = store[d]]
  /\ UNCHANGED <<local, bound, queue, clock, count, remote, faults>>

Upload(d) ==
  /\ gist[bound[d]] # NoGist
  /\ gist' = [gist EXCEPT ![bound[d]] = push[d].rows]
  /\ sent' = sent \cup {push[d].rows[l] : l \in Layers}

PushPatches(d) ==
  /\ push[d].pc = "patch" /\ Upload(d)
  /\ push' = [push EXCEPT ![d].pc = "clear"]
  /\ UNCHANGED <<local, bound, queue, clock, count, faults>>

PushClears(d) ==
  /\ push[d].pc = "clear"
  /\ dirty' = [dirty EXCEPT ![d] = Cleared(@, push[d].marks)]
  /\ outbox' = [outbox EXCEPT ![d] = Cleared(@, push[d].versions)]
  /\ Settle(d)
  /\ UNCHANGED <<store, bound, clock, count, remote, faults>>

(* Any request may fail, before or after GitHub has carried it out.          *)
RequestFails(d) ==
  /\ push[d].pc \in {"ensure", "create", "patch", "read"} /\ Fault
  /\ \/ push[d].pc = "patch" /\ Upload(d)
     \/ push[d].pc = "create" /\ Unused # {}
        /\ gist' = [gist EXCEPT ![NewGist] = NoRow] /\ UNCHANGED sent
     \/ UNCHANGED remote
  /\ Settle(d)
  /\ UNCHANGED <<local, bound, clock, count>>

(* A PATCH of a Gist deleted since it was checked is an error.  Mutant: it   *)
(* is sent again.                                                            *)
PatchRetries(d) ==
  /\ push[d].pc = "patch" /\ gist[bound[d]] = NoGist
  /\ UNCHANGED vars

PatchFindsNothing(d) ==
  /\ push[d].pc = "patch" /\ gist[bound[d]] = NoGist
  /\ Settle(d)
  /\ UNCHANGED <<local, bound, clock, count, remote, faults>>

-----------------------------------------------------------------------------
(* Pull: the Gist is read, then the local rows, then the merged rows are     *)
(* put, then the metadata are read, then replaced.                           *)
PullBegins(d) ==
  /\ Running(d, "pull") /\ push[d].pc = "idle"
  /\ IF bound[d] = NoGist THEN Settle(d)
     ELSE push' = [push EXCEPT ![d].pc = "read"] /\ UNCHANGED queue
  /\ UNCHANGED <<local, bound, clock, count, remote, faults>>

PullReads(d) ==
  /\ push[d].pc = "read"
  /\ IF gist[bound[d]] = NoGist
     THEN Settle(d) /\ bound' = [bound EXCEPT ![d] = NoGist]
     ELSE /\ push' = [push EXCEPT ![d].pc = "merge", ![d].rows = gist[bound[d]]]
          /\ UNCHANGED <<queue, bound>>
  /\ UNCHANGED <<local, clock, count, remote, faults>>

PullMerges(d) ==
  /\ push[d].pc = "merge"
  /\ push' = [push EXCEPT ![d].pc = "put", ![d].seen = store[d]]
  /\ UNCHANGED <<local, bound, queue, clock, count, remote, faults>>

(* A row is put only if a layer of it changed, and then as a whole.          *)
PullPuts(d) ==
  /\ push[d].pc = "put"
  /\ LET merged == Merge(push[d].seen, push[d].rows)
     IN  store' = [store EXCEPT ![d] =
           IF merged = push[d].seen THEN @
           ELSE [l \in Layers |-> IF l \in TagLayers THEN merged[l] ELSE @[l]]]
  /\ push' = [push EXCEPT ![d].pc = "readmeta"]
  /\ UNCHANGED <<outbox, dirty, bound, queue, clock, count, remote, faults>>

(* The local metadata are read before the transaction that replaces them.    *)
PullReadsMeta(d) ==
  /\ push[d].pc = "readmeta"
  /\ push' = [push EXCEPT ![d].pc = "meta", ![d].seen = store[d]]
  /\ UNCHANGED <<local, bound, queue, clock, count, remote, faults>>

PullMeta(d) ==
  /\ push[d].pc = "meta"
  /\ \E m \in MetaWinners(push[d].seen["meta"], push[d].rows["meta"]) :
       store' = [store EXCEPT ![d]["meta"] = IF m = push[d].seen["meta"] THEN @ ELSE m]
  /\ Settle(d)
  /\ UNCHANGED <<outbox, dirty, bound, clock, count, remote, faults>>

-----------------------------------------------------------------------------
(* The environment: a worker dies and loses its queue and its dirty marks,   *)
(* the user deletes a Gist, time passes.                                     *)
Crash(d) ==
  /\ Fault
  /\ dirty' = [dirty EXCEPT ![d] = NoKeys]
  /\ queue' = [queue EXCEPT ![d] = <<>>]
  /\ push' = [push EXCEPT ![d] = Idle]
  /\ UNCHANGED <<store, outbox, bound, clock, count, remote>>

DeleteGist(g) ==
  /\ Fault /\ gist[g] # NoGist
  /\ gist' = [gist EXCEPT ![g] = NoGist]
  /\ UNCHANGED <<local, bound, queue, push, clock, count, sent>>

Tick(d) ==
  /\ clock[d] < MaxTime
  /\ clock' = [clock EXCEPT ![d] = @ + 1]
  /\ UNCHANGED <<local, bound, queue, push, count, remote, faults>>

JobStep(d) ==
  \/ Edit(d)
  \/ PushBegins(d) \/ PushEnsures(d) \/ PushUnbinds(d) \/ PushCreates(d)
  \/ PushBuilds(d) \/ PushPatches(d) \/ PushClears(d) \/ PatchFindsNothing(d)
  \/ PullBegins(d) \/ PullReads(d) \/ PullMerges(d) \/ PullPuts(d)
  \/ PullReadsMeta(d) \/ PullMeta(d)

SyncNext ==
  \/ \E d \in Devices :
       \/ SubmitEdit(d) \/ SubmitPush(d) \/ SubmitPull(d)
       \/ JobStep(d) \/ EndsUnwritten(d) \/ RequestFails(d) \/ Crash(d) \/ Tick(d)
  \/ \E g \in Gists : DeleteGist(g)

SyncSpec == SyncInit /\ [][SyncNext]_vars

(* The jobs of a live worker run: a transaction commits and a request ends.  *)
SyncFairness == \A d \in Devices : WF_vars(JobStep(d) \/ EndsUnwritten(d))
FairSyncSpec == SyncSpec /\ SyncFairness

-----------------------------------------------------------------------------
SyncTypeOK ==
  /\ store \in [Devices -> [Layers -> Stamp]]
  /\ \A d \in Devices : \A table \in {outbox[d], dirty[d]} :
       DOMAIN table \subseteq Keys /\ \A k \in DOMAIN table : table[k] \in Nat
  /\ bound \in [Devices -> Gists \cup {NoGist}]
  /\ queue \in [Devices -> Seq(Job)]
  /\ \A d \in Devices : push[d].pc \in Points
  /\ clock \in [Devices -> Nat] /\ count \in [Devices -> Nat]
  /\ \A g \in Gists : gist[g] = NoGist \/ gist[g] \in [Layers -> Stamp]
  /\ faults \in 0..MaxFaults

(* No local edit is forgotten by the sync: what the store holds of this      *)
(* device's own edits has been carried by an accepted push, or its key is    *)
(* still in the durable outbox, whatever request failed and whenever the     *)
(* worker died.                                                              *)
Carried(d, l) == store[d][l].by = d => store[d][l] \in sent
UnsentIsDirty == \A d \in Devices : \A l \in Layers :
  Carried(d, l) \/ KeyOf(l) \in DOMAIN outbox[d]

(* A push that reports nothing to upload tells the truth, even right after a *)
(* restart that emptied the dirty marks in memory.                           *)
SkippedPushHadNothing ==
  [][\A d \in Devices : PushEnsures(d) /\ push'[d].pc = "idle" =>
       \A l \in Layers : Carried(d, l)]_vars

(* A pull never replaces a layer of the store by an older one: it computes   *)
(* the row it puts from rows it read earlier, and only the serialized runner *)
(* keeps an edit from landing between the two.                               *)
PullGoesForward ==
  [][\A d \in Devices : Running(d, "pull") =>
       \A l \in Layers : store'[d][l].at >= store[d][l].at]_vars

(* A job never waits for ever behind others, failed, aborted or long: it     *)
(* runs, or dies with its worker.                                            *)
Queued(d, j) == \E i \in 1..Len(queue[d]) : queue[d][i].job = j
JobsLeaveTheQueue ==
  \A d \in Devices : \A j \in 1..MaxJobs : Queued(d, j) ~> ~ Queued(d, j)
=============================================================================
