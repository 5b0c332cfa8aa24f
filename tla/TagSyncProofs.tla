----------------------------- MODULE TagSyncProofs -----------------------------
(***************************************************************************)
(* No edit is forgotten by the sync, for any number of devices, Gists, jobs *)
(* and faults.  The argument rests on the serialized queue: while a push or *)
(* a pull is at its head no edit runs, so that what it read of the store    *)
(* and of the outbox still stands when it clears or merges.                 *)
(***************************************************************************)
EXTENDS TagSync, TLAPS

-----------------------------------------------------------------------------
(* Types. *)

Table == UNION {[keys -> Nat] : keys \in SUBSET Keys}
Rows == [Layers -> Stamp]
PushRecord == [pc : Points, marks : SUBSET (Keys \X Nat), versions : SUBSET (Keys \X Nat),
               rows : Rows, seen : Rows]

LocalTypes ==
  /\ store \in [Devices -> Rows]
  /\ outbox \in [Devices -> Table] /\ dirty \in [Devices -> Table]
  /\ clock \in [Devices -> Nat] /\ count \in [Devices -> Nat]

WorkerTypes ==
  /\ bound \in [Devices -> Gists \cup {NoGist}]
  /\ queue \in [Devices -> Seq(Job)]
  /\ push \in [Devices -> PushRecord]
  /\ faults \in 0..MaxFaults

GistTypes == gist \in [Gists -> Rows \cup {NoGist}]

SyncTypes == LocalTypes /\ WorkerTypes /\ GistTypes

-----------------------------------------------------------------------------
(* The queue. *)

PushPoints == {"ensure", "create", "build", "patch", "clear"}
PullPoints == {"read", "merge", "put", "readmeta", "meta"}

(* Whoever is between two of its steps is the head of the queue.             *)
Serial(d) ==
  /\ push[d].pc \in PushPoints => Running(d, "push")
  /\ push[d].pc \in PullPoints => Running(d, "pull")

(* A Gist is asked for only while the profile is bound to one.               *)
BoundNow(d) ==
  push[d].pc \in {"ensure", "build", "patch", "clear", "read"} => bound[d] \in Gists

(* What a push or a pull read still stands.                                  *)
NotedNow(d) == push[d].pc \in PushPoints => push[d].versions = Noted(outbox[d])
BuiltNow(d) == push[d].pc = "patch" => push[d].rows = store[d]
SeenNow(d) == push[d].pc \in {"put", "meta"} => push[d].seen = store[d]

Steady(d) == Serial(d) /\ BoundNow(d) /\ NotedNow(d) /\ BuiltNow(d) /\ SeenNow(d)

-----------------------------------------------------------------------------
(* What was sent. *)

Sent(rows) == \A l \in Layers : rows[l] \in sent \cup {Never}

GistsWereSent == \A g \in Gists : gist[g] # NoGist => Sent(gist[g])

PulledWereSent(d) ==
  push[d].pc \in {"merge", "put", "readmeta", "meta"} => Sent(push[d].rows)
PatchedWereSent(d) == push[d].pc = "clear" => Sent(store[d])
EditsAreKept(d) == \A l \in Layers : Carried(d, l) \/ KeyOf(l) \in DOMAIN outbox[d]

SentBy(d) == PulledWereSent(d) /\ PatchedWereSent(d) /\ EditsAreKept(d)

SyncInv == SyncTypes /\ GistsWereSent /\ \A d \in Devices : Steady(d) /\ SentBy(d)

-----------------------------------------------------------------------------
(* The operators. *)

(* Rows stay rows. *)
LEMMA RowTypes ==
  /\ Never \in Stamp /\ NoRow \in Rows
  /\ \A rows \in Rows, layers \in SUBSET Layers, d \in Devices, j \in Nat, t \in Nat :
       Edited(rows, layers, d, j, t) \in Rows
  /\ \A mine \in Rows, theirs \in Rows : Merge(mine, theirs) \in Rows
<1>1. Never \in Stamp
  BY DEF Never, Stamp
<1>2. NoRow \in Rows
  BY <1>1 DEF NoRow, Rows
<1>3. ASSUME NEW rows \in Rows, NEW layers \in SUBSET Layers, NEW d \in Devices, NEW j \in Nat,
             NEW t \in Nat
      PROVE  Edited(rows, layers, d, j, t) \in Rows
  <2>1. [at |-> t, by |-> d, job |-> j] \in Stamp
    BY DEF Stamp
  <2>2. QED BY <2>1 DEF Edited, Rows
<1>4. ASSUME NEW mine \in Rows, NEW theirs \in Rows PROVE Merge(mine, theirs) \in Rows
  BY DEF Merge, Rows
<1>5. QED BY <1>1, <1>2, <1>3, <1>4

(* Tables stay tables; what is marked is in the table, and a table of which  *)
(* nothing is noted is empty.                                                *)
LEMMA TableTypes ==
  /\ NoKeys \in Table
  /\ \A table \in Table : Noted(table) \in SUBSET (Keys \X Nat)
  /\ \A table \in Table : Noted(table) = {} => DOMAIN table = {}
  /\ \A table \in Table : \A noted : Cleared(table, noted) \in Table
  /\ \A table \in Table, keys \in SUBSET Keys, n \in Nat :
       /\ Marked(table, keys, n) \in Table
       /\ DOMAIN Marked(table, keys, n) = DOMAIN table \cup keys
<1>1. \A keys \in SUBSET Keys : [keys -> Nat] \subseteq Table
  BY DEF Table
<1>2. NoKeys \in Table
  <2>1. NoKeys \in [{} -> Nat]
    BY DEF NoKeys
  <2>2. QED BY <1>1, <2>1
<1>3. \A table \in Table : table \in [DOMAIN table -> Nat] /\ DOMAIN table \in SUBSET Keys
  BY DEF Table
<1>4. ASSUME NEW table \in Table PROVE Noted(table) \in SUBSET (Keys \X Nat)
  BY <1>3 DEF Noted
<1>5. ASSUME NEW table \in Table, Noted(table) = {} PROVE DOMAIN table = {}
  <2>1. \A k \in DOMAIN table : <<k, table[k]>> \in Noted(table)
    BY DEF Noted
  <2>2. QED BY <1>5, <2>1
<1>6. ASSUME NEW table \in Table, NEW noted PROVE Cleared(table, noted) \in Table
  <2>1. PICK left \in SUBSET Keys :
          left = {j \in DOMAIN table : <<j, table[j]>> \notin noted}
    BY <1>3
  <2>2. Cleared(table, noted) \in [left -> Nat]
    BY <1>3, <2>1 DEF Cleared
  <2>3. QED BY <1>1, <2>2
<1>7. ASSUME NEW table \in Table, NEW keys \in SUBSET Keys, NEW n \in Nat
      PROVE  /\ Marked(table, keys, n) \in Table
             /\ DOMAIN Marked(table, keys, n) = DOMAIN table \cup keys
  <2>1. DOMAIN Marked(table, keys, n) = DOMAIN table \cup keys
    BY DEF Marked
  <2>2. Marked(table, keys, n) \in [DOMAIN table \cup keys -> Nat]
    BY <1>3 DEF Marked
  <2>3. DOMAIN table \cup keys \in SUBSET Keys
    BY <1>3
  <2>4. QED BY <1>1, <2>1, <2>2, <2>3
<1>8. QED BY <1>2, <1>4, <1>5, <1>6, <1>7

(* Every layer has its key. *)
LEMMA KeysOfLayers == \A l \in Layers : KeyOf(l) \in Keys
BY DEF KeyOf, Layers, TagLayers, Keys

-----------------------------------------------------------------------------
(* The shapes of the changes. *)

(* A push or a pull that moves on, with rows it read, with rows it merges. *)
At(p, pc) == [p EXCEPT !.pc = pc]
Reads(p, pc, rows) == [p EXCEPT !.pc = pc, !.rows = rows]
Sees(p, pc, rows) == [p EXCEPT !.pc = pc, !.seen = rows]
Begun(pc, marks, versions) == [Idle EXCEPT !.pc = pc, !.marks = marks, !.versions = versions]

(* What they are, of whatever they start from. *)
LEMMA PushFields ==
  /\ \A p \in PushRecord, pc \in Points :
       /\ At(p, pc) \in PushRecord /\ At(p, pc).pc = pc /\ At(p, pc).versions = p.versions
       /\ At(p, pc).rows = p.rows /\ At(p, pc).seen = p.seen
  /\ \A p \in PushRecord, pc \in Points, rows \in Rows :
       /\ Reads(p, pc, rows) \in PushRecord /\ Reads(p, pc, rows).pc = pc
       /\ Reads(p, pc, rows).rows = rows /\ Reads(p, pc, rows).versions = p.versions
       /\ Sees(p, pc, rows) \in PushRecord /\ Sees(p, pc, rows).pc = pc
       /\ Sees(p, pc, rows).seen = rows /\ Sees(p, pc, rows).rows = p.rows
<1>1. ASSUME NEW p \in PushRecord, NEW pc \in Points
      PROVE  /\ At(p, pc) \in PushRecord /\ At(p, pc).pc = pc /\ At(p, pc).versions = p.versions
             /\ At(p, pc).rows = p.rows /\ At(p, pc).seen = p.seen
  BY DEF PushRecord, At
<1>2. ASSUME NEW p \in PushRecord, NEW pc \in Points, NEW rows \in Rows
      PROVE  /\ Reads(p, pc, rows) \in PushRecord /\ Reads(p, pc, rows).pc = pc
             /\ Reads(p, pc, rows).rows = rows /\ Reads(p, pc, rows).versions = p.versions
  BY DEF PushRecord, Reads
<1>3. ASSUME NEW p \in PushRecord, NEW pc \in Points, NEW rows \in Rows
      PROVE  /\ Sees(p, pc, rows) \in PushRecord /\ Sees(p, pc, rows).pc = pc
             /\ Sees(p, pc, rows).seen = rows /\ Sees(p, pc, rows).rows = p.rows
  BY DEF PushRecord, Sees
<1>4. QED BY <1>1, <1>2, <1>3

(* What a push begins with, and what an idle worker holds. *)
LEMMA BegunFields ==
  /\ Idle \in PushRecord /\ Idle.pc = "idle"
  /\ \A pc \in Points, marks \in SUBSET (Keys \X Nat), versions \in SUBSET (Keys \X Nat) :
       /\ Begun(pc, marks, versions) \in PushRecord
       /\ Begun(pc, marks, versions).pc = pc /\ Begun(pc, marks, versions).versions = versions
<1>1. NoRow \in Rows
  BY RowTypes
<1>2. Idle \in PushRecord /\ Idle.pc = "idle"
  BY <1>1 DEF Idle, PushRecord, Points
<1>3. ASSUME NEW pc \in Points, NEW marks \in SUBSET (Keys \X Nat),
             NEW versions \in SUBSET (Keys \X Nat)
      PROVE  /\ Begun(pc, marks, versions) \in PushRecord
             /\ Begun(pc, marks, versions).pc = pc
             /\ Begun(pc, marks, versions).versions = versions
  BY <1>1 DEF Begun, Idle, PushRecord
<1>4. QED BY <1>2, <1>3

(* The job at the head of the queue has ended. *)
LEMMA Settles ==
  ASSUME SyncTypes, NEW d \in Devices, queue[d] # <<>>, Settle(d)
  PROVE  /\ queue' \in [Devices -> Seq(Job)] /\ push' \in [Devices -> PushRecord]
         /\ push'[d].pc = "idle"
         /\ \A e \in Devices \ {d} : queue'[e] = queue[e] /\ push'[e] = push[e]
<1>1. queue[d] \in Seq(Job)
  BY DEF SyncTypes, WorkerTypes
<1>2. Tail(queue[d]) \in Seq(Job)
  BY <1>1
<1>3. PICK q \in Seq(Job) : queue' = [queue EXCEPT ![d] = q]
  BY <1>2 DEF Settle
<1>4. PICK p \in PushRecord : push' = [push EXCEPT ![d] = p] /\ p.pc = "idle"
  BY BegunFields DEF Settle
<1>5. QED BY <1>3, <1>4 DEF SyncTypes, WorkerTypes

(* A job waits behind the one that runs. *)
LEMMA Submits ==
  ASSUME SyncTypes, NEW d \in Devices, NEW job \in Job,
         queue' = [queue EXCEPT ![d] = Append(@, job)]
  PROVE  /\ queue' \in [Devices -> Seq(Job)]
         /\ \A kind : Running(d, kind) => Running(d, kind)'
         /\ \A e \in Devices \ {d} : queue'[e] = queue[e]
<1>1. queue[d] \in Seq(Job) /\ queue \in [Devices -> Seq(Job)]
  BY DEF SyncTypes, WorkerTypes
<1>2. queue'[d] = Append(queue[d], job)
  BY <1>1
<1>3. Append(queue[d], job) \in Seq(Job)
  BY <1>1
<1>4. queue[d] # <<>> =>
        Append(queue[d], job) # <<>> /\ Head(Append(queue[d], job)) = Head(queue[d])
  BY <1>1
<1>5. QED BY <1>1, <1>2, <1>3, <1>4 DEF Running

(* What the other devices hold stands. *)
Others(d) == \A e \in Devices \ {d} :
  /\ store'[e] = store[e] /\ outbox'[e] = outbox[e] /\ bound'[e] = bound[e]
  /\ queue'[e] = queue[e] /\ push'[e] = push[e]

(* It is enough to look at the device that takes the step. *)
LEMMA DeviceStep ==
  ASSUME SyncInv, SyncTypes', NEW d \in Devices, Others(d), sent \subseteq sent',
         GistsWereSent', Steady(d)', SentBy(d)'
  PROVE  SyncInv'
<1>1. SUFFICES ASSUME NEW e \in Devices \ {d} PROVE Steady(e)' /\ SentBy(e)'
  BY DEF SyncInv
<1>2. /\ store'[e] = store[e] /\ outbox'[e] = outbox[e] /\ bound'[e] = bound[e]
      /\ queue'[e] = queue[e] /\ push'[e] = push[e]
  BY DEF Others
<1>3. Steady(e) /\ SentBy(e)
  BY DEF SyncInv
<1>4. Steady(e)'
  BY <1>2, <1>3 DEF Steady, Serial, Running, BoundNow, NotedNow, BuiltNow, SeenNow
<1>5. SentBy(e)'
  BY <1>2, <1>3 DEF SentBy, PulledWereSent, PatchedWereSent, EditsAreKept, Carried, Sent
<1>6. QED BY <1>4, <1>5

(* After a step that leaves the device idle only its edits matter. *)
LEMMA IdleStep ==
  ASSUME NEW d \in Devices, push'[d].pc = "idle", EditsAreKept(d)'
  PROVE  Steady(d)' /\ SentBy(d)'
BY DEF Steady, Serial, BoundNow, NotedNow, BuiltNow, SeenNow, SentBy, PulledWereSent,
       PatchedWereSent, PushPoints, PullPoints

(* What was sent has been sent. *)
LEMMA SentStays ==
  ASSUME SyncInv, sent \subseteq sent', gist' = gist
  PROVE  GistsWereSent'
BY DEF SyncInv, GistsWereSent, Sent

(* Edits that were kept are kept while the store and the outbox stand. *)
LEMMA EditsStay ==
  ASSUME SyncInv, NEW d \in Devices, sent \subseteq sent',
         store'[d] = store[d], outbox'[d] = outbox[d]
  PROVE  EditsAreKept(d)'
BY DEF SyncInv, SentBy, EditsAreKept, Carried

(* A step that edits nothing. *)
Counted == faults' = faults \/ Fault

(* Such a step leaves the types of the rest alone. *)
LEMMA UneditedTypes ==
  ASSUME SyncTypes, UNCHANGED <<local, clock, count>>, Counted, GistTypes',
         bound' \in [Devices -> Gists \cup {NoGist}], queue' \in [Devices -> Seq(Job)],
         push' \in [Devices -> PushRecord]
  PROVE  SyncTypes'
<1>1. LocalTypes'
  BY DEF SyncTypes, LocalTypes, local
<1>2. faults' \in 0..MaxFaults
  BY SyncAssumption DEF SyncTypes, WorkerTypes, Counted, Fault, SyncAssumption
<1>3. QED BY <1>1, <1>2 DEF SyncTypes, WorkerTypes

(* A push or a pull moves on, whatever became of the Gists. *)
LEMMA RemoteStep ==
  ASSUME SyncInv, NEW d \in Devices, NEW p \in PushRecord, push' = [push EXCEPT ![d] = p],
         UNCHANGED <<local, queue, clock, count, faults>>,
         bound' \in [Devices -> Gists \cup {NoGist}], \A e \in Devices \ {d} : bound'[e] = bound[e],
         GistTypes', GistsWereSent', sent \subseteq sent',
         Steady(d)', PulledWereSent(d)', PatchedWereSent(d)'
  PROVE  SyncInv'
<1>1. push' \in [Devices -> PushRecord] /\ \A e \in Devices \ {d} : push'[e] = push[e]
  BY DEF SyncInv, SyncTypes, WorkerTypes
<1>2. SyncTypes'
  BY <1>1, UneditedTypes DEF SyncInv, SyncTypes, WorkerTypes, Counted
<1>3. Others(d)
  BY <1>1 DEF Others, local
<1>4. EditsAreKept(d)'
  BY EditsStay DEF local
<1>5. SentBy(d)'
  BY <1>4 DEF SentBy
<1>6. QED BY <1>2, <1>3, <1>5, DeviceStep

(* So it does in memory only. *)
LEMMA MoveStep ==
  ASSUME SyncInv, NEW d \in Devices, NEW p \in PushRecord, push' = [push EXCEPT ![d] = p],
         UNCHANGED <<local, bound, queue, clock, count, remote, faults>>,
         Steady(d)', PulledWereSent(d)', PatchedWereSent(d)'
  PROVE  SyncInv'
<1>1. /\ bound' \in [Devices -> Gists \cup {NoGist}]
      /\ \A e \in Devices \ {d} : bound'[e] = bound[e]
      /\ GistTypes' /\ sent \subseteq sent' /\ gist' = gist
  BY DEF SyncInv, SyncTypes, WorkerTypes, GistTypes, remote
<1>2. GistsWereSent'
  BY <1>1, SentStays
<1>3. QED BY <1>1, <1>2, RemoteStep

(* The job at the head ends and the store is as it was. *)
LEMMA SettleStep ==
  ASSUME SyncInv, NEW d \in Devices, queue[d] # <<>>, Settle(d),
         UNCHANGED <<local, clock, count>>, Counted,
         bound' \in [Devices -> Gists \cup {NoGist}], \A e \in Devices \ {d} : bound'[e] = bound[e],
         GistTypes', GistsWereSent', sent \subseteq sent'
  PROVE  SyncInv'
<1>1. /\ queue' \in [Devices -> Seq(Job)] /\ push' \in [Devices -> PushRecord]
      /\ push'[d].pc = "idle"
      /\ \A e \in Devices \ {d} : queue'[e] = queue[e] /\ push'[e] = push[e]
  BY Settles DEF SyncInv
<1>2. SyncTypes'
  BY <1>1, UneditedTypes DEF SyncInv
<1>3. Others(d)
  BY <1>1 DEF Others, local
<1>4. EditsAreKept(d)'
  BY EditsStay DEF local
<1>5. Steady(d)' /\ SentBy(d)'
  BY <1>1, <1>4, IdleStep
<1>6. QED BY <1>2, <1>3, <1>5, DeviceStep

(* So with the Gists as they were. *)
LEMMA SettleOnly ==
  ASSUME SyncInv, NEW d \in Devices, queue[d] # <<>>, Settle(d),
         UNCHANGED <<local, clock, count, remote>>, Counted,
         bound' \in [Devices -> Gists \cup {NoGist}], \A e \in Devices \ {d} : bound'[e] = bound[e]
  PROVE  SyncInv'
<1>1. GistTypes' /\ sent \subseteq sent' /\ gist' = gist
  BY DEF SyncInv, SyncTypes, GistTypes, remote
<1>2. GistsWereSent'
  BY <1>1, SentStays
<1>3. QED BY <1>1, <1>2, SettleStep

(* A push that uploads what it built. *)
LEMMA Uploads ==
  ASSUME SyncInv, NEW d \in Devices, Upload(d)
  PROVE  /\ GistTypes' /\ GistsWereSent' /\ sent \subseteq sent'
         /\ \A l \in Layers : push[d].rows[l] \in sent'
<1>1. push[d].rows \in Rows /\ gist \in [Gists -> Rows \cup {NoGist}]
  BY DEF SyncInv, SyncTypes, WorkerTypes, GistTypes, PushRecord
<1>2. gist' = [gist EXCEPT ![bound[d]] = push[d].rows]
  BY DEF Upload
<1>3. sent \subseteq sent' /\ \A l \in Layers : push[d].rows[l] \in sent'
  BY DEF Upload
<1>4. GistTypes'
  BY <1>1, <1>2 DEF GistTypes
<1>5. ASSUME NEW g \in Gists, gist'[g] # NoGist, NEW l \in Layers
      PROVE  gist'[g][l] \in sent' \cup {Never}
  <2>1. gist'[g] = gist[g] \/ gist'[g] = push[d].rows
    BY <1>1, <1>2
  <2>2. CASE gist'[g] = gist[g]
    BY <1>3, <1>5, <2>2 DEF SyncInv, GistsWereSent, Sent
  <2>3. CASE gist'[g] = push[d].rows
    BY <1>3, <2>3
  <2>4. QED BY <2>1, <2>2, <2>3
<1>6. GistsWereSent'
  BY <1>5 DEF GistsWereSent, Sent
<1>7. QED BY <1>3, <1>4, <1>6

(* A new Gist is empty. *)
LEMMA Creates ==
  ASSUME SyncInv, Unused # {}, gist' = [gist EXCEPT ![NewGist] = NoRow], sent' = sent
  PROVE  GistTypes' /\ GistsWereSent' /\ NewGist \in Gists
<1>1. NewGist \in Gists
  BY DEF NewGist, Unused
<1>2. gist \in [Gists -> Rows \cup {NoGist}] /\ NoRow \in Rows
  BY RowTypes DEF SyncInv, SyncTypes, GistTypes
<1>3. GistTypes'
  BY <1>2 DEF GistTypes
<1>4. ASSUME NEW g \in Gists, gist'[g] # NoGist, NEW l \in Layers
      PROVE  gist'[g][l] \in sent' \cup {Never}
  <2>1. gist'[g] = gist[g] \/ gist'[g] = NoRow
    BY <1>2
  <2>2. CASE gist'[g] = gist[g]
    BY <1>4, <2>2 DEF SyncInv, GistsWereSent, Sent
  <2>3. CASE gist'[g] = NoRow
    BY <2>3 DEF NoRow
  <2>4. QED BY <2>1, <2>2, <2>3
<1>5. GistsWereSent'
  BY <1>4 DEF GistsWereSent, Sent
<1>6. QED BY <1>1, <1>3, <1>5

-----------------------------------------------------------------------------
(* The actions. *)

(* The first state: the profile is bound to an empty Gist. *)
LEMMA SyncInitInv == SyncInit => SyncInv
<1>1. SUFFICES ASSUME SyncInit PROVE SyncInv
  OBVIOUS
<1>2. First \in Gists
  BY SyncAssumption DEF First, SyncAssumption
<1>3. SyncTypes
  BY <1>1, <1>2, RowTypes, TableTypes, BegunFields, SyncAssumption
  DEF SyncInit, SyncTypes, LocalTypes, WorkerTypes, GistTypes, SyncAssumption
<1>4. GistsWereSent
  BY <1>1 DEF SyncInit, GistsWereSent, Sent, NoRow
<1>5. ASSUME NEW d \in Devices PROVE Steady(d) /\ SentBy(d)
  <2>1. push[d].pc = "idle"
    BY <1>1, BegunFields DEF SyncInit
  <2>2. EditsAreKept(d)
    BY <1>1, SyncAssumption DEF SyncInit, EditsAreKept, Carried, NoRow, Never, SyncAssumption
  <2>3. QED
    BY <2>1, <2>2
    DEF Steady, Serial, BoundNow, NotedNow, BuiltNow, SeenNow, SentBy, PulledWereSent,
        PatchedWereSent, PushPoints, PullPoints
<1>6. QED BY <1>3, <1>4, <1>5 DEF SyncInv

(* A job is queued. *)
LEMMA SubmitStep ==
  ASSUME SyncInv, NEW d \in Devices, SubmitEdit(d) \/ SubmitPush(d) \/ SubmitPull(d)
  PROVE  SyncInv'
<1>1. ASSUME NEW e \in EditKinds, NEW layers \in Writes(e) PROVE layers \in SUBSET Layers
  BY DEF EditKinds, Writes, addAgentTags, setTags, setAutoTags, removeVisibleTag, Visible, setNotes,
         upsertMeta, deleteTagsEverywhere, deleteAllTags, Layers, TagLayers
<1>2. PICK kind \in {"edit", "push", "pull"}, edit \in EditKinds \cup {"none"},
           layers \in SUBSET Layers :
        Submit(d, kind, edit, layers)
  <2>1. CASE SubmitEdit(d)
    <3>1. PICK e \in EditKinds : \E layers \in Writes(e) : Submit(d, "edit", e, layers)
      BY <2>1, SyncAssumption DEF SubmitEdit, SyncAssumption
    <3>2. PICK layers \in Writes(e) : Submit(d, "edit", e, layers)
      BY <3>1
    <3>3. layers \in SUBSET Layers
      BY <1>1
    <3>4. QED BY <3>2, <3>3
  <2>2. CASE SubmitPush(d)
    BY <2>2 DEF SubmitPush
  <2>3. CASE SubmitPull(d)
    BY <2>3 DEF SubmitPull
  <2>4. QED BY <2>1, <2>2, <2>3
<1>3. count[d] \in Nat /\ count[d] + 1 \in Nat /\ count \in [Devices -> Nat]
  <2>1. count \in [Devices -> Nat]
    BY DEF SyncInv, SyncTypes, LocalTypes
  <2>2. count[d] \in Nat
    BY <2>1
  <2>3. QED BY <2>1, <2>2
<1>4. PICK job \in Job : queue' = [queue EXCEPT ![d] = Append(@, job)]
  <2>1. PICK n \in Nat : n = count[d] + 1
    BY <1>3
  <2>2. [kind |-> kind, edit |-> edit, layers |-> layers, job |-> n] \in Job
    BY DEF Job
  <2>3. QED BY <1>2, <2>1, <2>2 DEF Submit
<1>5. /\ queue' \in [Devices -> Seq(Job)]
      /\ \A k : Running(d, k) => Running(d, k)'
      /\ \A e \in Devices \ {d} : queue'[e] = queue[e]
  BY <1>4, Submits DEF SyncInv
<1>6. /\ UNCHANGED <<store, outbox, dirty, bound, push, clock, gist, sent, faults>>
      /\ count' = [count EXCEPT ![d] = @ + 1]
  BY <1>2 DEF Submit, local, remote
<1>7. SyncTypes'
  <2>1. count' \in [Devices -> Nat]
    BY <1>3, <1>6
  <2>2. LocalTypes'
    BY <1>6, <2>1 DEF SyncInv, SyncTypes, LocalTypes
  <2>3. QED BY <1>5, <1>6, <2>2 DEF SyncInv, SyncTypes, WorkerTypes, GistTypes
<1>8. Others(d)
  BY <1>5, <1>6 DEF Others
<1>9. Steady(d)'
  <2>1. Steady(d)
    BY DEF SyncInv
  <2>2. Serial(d)'
    BY <1>5, <1>6, <2>1 DEF Steady, Serial
  <2>3. QED BY <1>6, <2>1, <2>2 DEF Steady, BoundNow, NotedNow, BuiltNow, SeenNow
<1>10. SentBy(d)'
  BY <1>6 DEF SyncInv, SentBy, PulledWereSent, PatchedWereSent, EditsAreKept, Carried, Sent
<1>11. QED BY <1>6, <1>7, <1>8, <1>9, <1>10, SentStays, DeviceStep

(* An edit marks what it writes. *)
LEMMA EditStep ==
  ASSUME SyncInv, NEW d \in Devices, Edit(d)
  PROVE  SyncInv'
<1> DEFINE job == Head(queue[d])
           layers == Written(job, store[d])
           keys == {KeyOf(l) : l \in layers}
<1>1. /\ store \in [Devices -> Rows] /\ outbox \in [Devices -> Table]
      /\ dirty \in [Devices -> Table] /\ clock \in [Devices -> Nat]
      /\ queue[d] \in Seq(Job) /\ queue[d] # <<>>
  BY DEF SyncInv, SyncTypes, LocalTypes, WorkerTypes, Edit, Running
<1>2. job \in Job
  BY <1>1
<1>3. job.job \in Nat /\ job.layers \in SUBSET Layers
  BY <1>2 DEF Job
<1>4. layers \in SUBSET Layers
  BY <1>3 DEF Written
<1>5. keys \in SUBSET Keys
  BY <1>4, KeysOfLayers
<1>6. /\ store' = [store EXCEPT ![d] = Edited(store[d], layers, d, job.job, clock[d])]
      /\ outbox' = [outbox EXCEPT ![d] = Marked(outbox[d], keys, job.job)]
      /\ dirty' = [dirty EXCEPT ![d] = Marked(dirty[d], keys, job.job)]
      /\ Settle(d) /\ UNCHANGED <<bound, clock, count, gist, sent, faults>>
  BY DEF Edit, remote
<1> HIDE DEF job
<1>7. /\ Edited(store[d], layers, d, job.job, clock[d]) \in Rows
      /\ Marked(outbox[d], keys, job.job) \in Table
      /\ Marked(dirty[d], keys, job.job) \in Table
      /\ DOMAIN Marked(outbox[d], keys, job.job) = DOMAIN outbox[d] \cup keys
  <2>1. store[d] \in Rows /\ outbox[d] \in Table /\ dirty[d] \in Table /\ clock[d] \in Nat
    BY <1>1
  <2> HIDE DEF layers, keys
  <2>2. QED BY <1>3, <1>4, <1>5, <2>1, RowTypes, TableTypes
<1>8. /\ queue' \in [Devices -> Seq(Job)] /\ push' \in [Devices -> PushRecord]
      /\ push'[d].pc = "idle"
      /\ \A e \in Devices \ {d} : queue'[e] = queue[e] /\ push'[e] = push[e]
  BY <1>1, <1>6, Settles DEF SyncInv
<1>9. SyncTypes'
  <2>1. LocalTypes'
    <3> HIDE DEF layers, keys
    <3>1. QED BY <1>1, <1>6, <1>7 DEF LocalTypes, SyncInv, SyncTypes
  <2>2. QED BY <1>6, <1>8, <2>1 DEF SyncInv, SyncTypes, WorkerTypes, GistTypes
<1>10. Others(d)
  BY <1>1, <1>6, <1>8 DEF Others
<1>11. EditsAreKept(d)'
  <2>1. SUFFICES ASSUME NEW l \in Layers
                 PROVE  Carried(d, l)' \/ KeyOf(l) \in DOMAIN outbox'[d]
    BY DEF EditsAreKept
  <2>2. /\ store'[d] = Edited(store[d], layers, d, job.job, clock[d])
        /\ DOMAIN outbox'[d] = DOMAIN outbox[d] \cup keys
    <3> HIDE DEF layers, keys
    <3>1. QED BY <1>1, <1>6, <1>7
  <2>3. KeyOf(l) \in keys \/ store'[d][l] = store[d][l]
    BY <2>2 DEF Edited, KeyOf, TagLayers
  <2>4. Carried(d, l) \/ KeyOf(l) \in DOMAIN outbox[d]
    BY DEF SyncInv, SentBy, EditsAreKept
  <2>5. QED
    <3> HIDE DEF layers, keys
    <3>1. QED BY <1>6, <2>2, <2>3, <2>4 DEF Carried
<1>12. Steady(d)' /\ SentBy(d)'
  BY <1>8, <1>11, IdleStep
<1>13. QED BY <1>6, <1>9, <1>10, <1>12, SentStays, DeviceStep

(* The head of a queue that runs is the job of whoever is between two steps. *)
LEMMA SomebodyRuns ==
  ASSUME SyncInv, NEW d \in Devices, push[d].pc # "idle"
  PROVE  queue[d] # <<>>
BY DEF SyncInv, SyncTypes, WorkerTypes, PushRecord, Points, PushPoints, PullPoints, Steady, Serial,
       Running

(* What a push or a pull that moves on, reads or merges has in memory. *)
MoveTo(d, pc) == push' = [push EXCEPT ![d].pc = pc]
Read(d, pc, rows) == push' = [push EXCEPT ![d].pc = pc, ![d].rows = rows]
See(d, pc, rows) == push' = [push EXCEPT ![d].pc = pc, ![d].seen = rows]

(* It moves on with what it has. *)
LEMMA Moves ==
  ASSUME SyncInv, NEW d \in Devices, NEW pc \in Points, MoveTo(d, pc)
  PROVE  \E p \in PushRecord :
           /\ push' = [push EXCEPT ![d] = p] /\ push'[d] = p /\ p.pc = pc
           /\ p.versions = push[d].versions /\ p.rows = push[d].rows /\ p.seen = push[d].seen
<1>1. push \in [Devices -> PushRecord] /\ push[d] \in PushRecord
  BY DEF SyncInv, SyncTypes, WorkerTypes
<1>2. push' = [push EXCEPT ![d] = At(push[d], pc)]
  BY DEF At, MoveTo
<1>3. /\ At(push[d], pc) \in PushRecord /\ At(push[d], pc).pc = pc
      /\ At(push[d], pc).versions = push[d].versions
      /\ At(push[d], pc).rows = push[d].rows /\ At(push[d], pc).seen = push[d].seen
  BY <1>1, PushFields
<1>4. QED BY <1>1, <1>2, <1>3

(* It has the rows it reads. *)
LEMMA Reading ==
  ASSUME SyncInv, NEW d \in Devices, NEW pc \in Points, NEW rows \in Rows, Read(d, pc, rows)
  PROVE  \E p \in PushRecord :
           /\ push' = [push EXCEPT ![d] = p] /\ push'[d] = p /\ p.pc = pc
           /\ p.versions = push[d].versions /\ p.rows = rows
<1>1. push \in [Devices -> PushRecord] /\ push[d] \in PushRecord
  BY DEF SyncInv, SyncTypes, WorkerTypes
<1>2. push' = [push EXCEPT ![d] = Reads(push[d], pc, rows)]
  BY <1>1 DEF Reads, Read
<1>3. /\ Reads(push[d], pc, rows) \in PushRecord /\ Reads(push[d], pc, rows).pc = pc
      /\ Reads(push[d], pc, rows).versions = push[d].versions
      /\ Reads(push[d], pc, rows).rows = rows
  BY <1>1, PushFields
<1>4. QED BY <1>1, <1>2, <1>3

(* It has the rows it merges with. *)
LEMMA Seeing ==
  ASSUME SyncInv, NEW d \in Devices, NEW pc \in Points, NEW rows \in Rows, See(d, pc, rows)
  PROVE  \E p \in PushRecord :
           /\ push' = [push EXCEPT ![d] = p] /\ push'[d] = p /\ p.pc = pc
           /\ p.rows = push[d].rows /\ p.seen = rows
<1>1. push \in [Devices -> PushRecord] /\ push[d] \in PushRecord
  BY DEF SyncInv, SyncTypes, WorkerTypes
<1>2. push' = [push EXCEPT ![d] = Sees(push[d], pc, rows)]
  BY <1>1 DEF Sees, See
<1>3. /\ Sees(push[d], pc, rows) \in PushRecord /\ Sees(push[d], pc, rows).pc = pc
      /\ Sees(push[d], pc, rows).rows = push[d].rows
      /\ Sees(push[d], pc, rows).seen = rows
  BY <1>1, PushFields
<1>4. QED BY <1>1, <1>2, <1>3

(* A push notes what is dirty, in the outbox as in memory. *)
LEMMA PushBeginsStep ==
  ASSUME SyncInv, NEW d \in Devices, PushBegins(d)
  PROVE  SyncInv'
<1>1. /\ outbox[d] \in Table /\ dirty[d] \in Table /\ bound[d] \in Gists \cup {NoGist}
      /\ push \in [Devices -> PushRecord]
  BY DEF SyncInv, SyncTypes, LocalTypes, WorkerTypes
<1>2. PICK pc \in {"create", "ensure"} :
        /\ pc = "ensure" => bound[d] \in Gists
        /\ push' = [push EXCEPT ![d] = Begun(pc, Noted(dirty[d]), Noted(outbox[d]))]
  BY <1>1 DEF PushBegins, Begun
<1>3. PICK p \in PushRecord :
        push' = [push EXCEPT ![d] = p] /\ p.pc = pc /\ p.versions = Noted(outbox[d])
  <2>1. Noted(dirty[d]) \in SUBSET (Keys \X Nat) /\ Noted(outbox[d]) \in SUBSET (Keys \X Nat)
    BY <1>1, TableTypes
  <2>2. pc \in Points
    BY DEF Points
  <2>3. /\ Begun(pc, Noted(dirty[d]), Noted(outbox[d])) \in PushRecord
        /\ Begun(pc, Noted(dirty[d]), Noted(outbox[d])).pc = pc
        /\ Begun(pc, Noted(dirty[d]), Noted(outbox[d])).versions = Noted(outbox[d])
    BY <2>1, <2>2, BegunFields
  <2>4. QED BY <1>2, <2>3
<1>4. /\ push'[d] = p /\ Running(d, "push")
      /\ UNCHANGED <<local, bound, queue, clock, count, remote, faults>>
  BY <1>1, <1>3 DEF PushBegins
<1>5. Steady(d)'
  BY <1>2, <1>3, <1>4
  DEF Steady, Serial, Running, BoundNow, NotedNow, BuiltNow, SeenNow,
      PushPoints, PullPoints, local
<1>6. PulledWereSent(d)' /\ PatchedWereSent(d)'
  BY <1>3, <1>4 DEF PulledWereSent, PatchedWereSent
<1>7. QED BY <1>3, <1>4, <1>5, <1>6, MoveStep

(* Nothing dirty ends the push at the check of the Gist. *)
LEMMA PushEnsuresStep ==
  ASSUME SyncInv, NEW d \in Devices, PushEnsures(d)
  PROVE  SyncInv'
<1>1. /\ push[d] \in PushRecord /\ push \in [Devices -> PushRecord]
      /\ bound \in [Devices -> Gists \cup {NoGist}] /\ push[d].pc = "ensure" /\ Steady(d)
  BY DEF SyncInv, SyncTypes, WorkerTypes, PushEnsures
<1>2. UNCHANGED <<local, bound, clock, count, remote, faults>>
  BY DEF PushEnsures
<1>3. CASE Settle(d)
  <2>1. queue[d] # <<>>
    BY <1>1, SomebodyRuns
  <2>2. QED BY <1>1, <1>2, <1>3, <2>1, SettleOnly DEF Counted
<1>4. CASE push' = [push EXCEPT ![d].pc = "build"] /\ UNCHANGED queue
  <2>1. "build" \in Points /\ MoveTo(d, "build")
    BY <1>4 DEF Points, MoveTo
  <2>2. PICK p \in PushRecord :
          /\ push' = [push EXCEPT ![d] = p] /\ push'[d] = p /\ p.pc = "build"
          /\ p.versions = push[d].versions
    BY <2>1, Moves
  <2>3. Steady(d)'
    BY <1>1, <1>2, <1>4, <2>2
    DEF Steady, Serial, Running, BoundNow, NotedNow, BuiltNow, SeenNow,
      PushPoints, PullPoints, local
  <2>4. PulledWereSent(d)' /\ PatchedWereSent(d)'
    BY <2>2 DEF PulledWereSent, PatchedWereSent
  <2>5. QED BY <1>2, <1>4, <2>2, <2>3, <2>4, MoveStep
<1>5. QED BY <1>3, <1>4 DEF PushEnsures

(* A Gist that is gone is let go, and another one is created. *)
LEMMA PushUnbindsStep ==
  ASSUME SyncInv, NEW d \in Devices, PushUnbinds(d)
  PROVE  SyncInv'
<1>1. push[d].pc = "ensure" /\ Steady(d) /\ bound \in [Devices -> Gists \cup {NoGist}]
  BY DEF SyncInv, SyncTypes, WorkerTypes, PushUnbinds
<1>2. /\ UNCHANGED <<local, queue, clock, count, gist, sent, faults>>
      /\ bound' = [bound EXCEPT ![d] = NoGist]
  BY DEF PushUnbinds, remote
<1>3. PICK p \in PushRecord :
        /\ push' = [push EXCEPT ![d] = p] /\ push'[d] = p /\ p.pc = "create"
        /\ p.versions = push[d].versions
  <2>1. "create" \in Points
    BY DEF Points
  <2>2. MoveTo(d, "create")
    BY DEF PushUnbinds, MoveTo
  <2>3. QED BY <2>1, <2>2, Moves
<1>4. GistTypes' /\ GistsWereSent' /\ sent \subseteq sent'
  BY <1>2, SentStays DEF SyncInv, SyncTypes, GistTypes
<1>5. Steady(d)'
  BY <1>1, <1>2, <1>3
  DEF Steady, Serial, Running, BoundNow, NotedNow, BuiltNow, SeenNow,
      PushPoints, PullPoints, local
<1>6. PulledWereSent(d)' /\ PatchedWereSent(d)'
  BY <1>3 DEF PulledWereSent, PatchedWereSent
<1>7. QED BY <1>1, <1>2, <1>3, <1>4, <1>5, <1>6, RemoteStep

(* The new Gist is bound to this profile. *)
LEMMA PushCreatesStep ==
  ASSUME SyncInv, NEW d \in Devices, PushCreates(d)
  PROVE  SyncInv'
<1>1. push[d].pc = "create" /\ Steady(d) /\ bound \in [Devices -> Gists \cup {NoGist}]
  BY DEF SyncInv, SyncTypes, WorkerTypes, PushCreates
<1>2. /\ UNCHANGED <<local, queue, clock, count, sent, faults>>
      /\ bound' = [bound EXCEPT ![d] = NewGist]
  BY DEF PushCreates
<1>3. PICK p \in PushRecord :
        /\ push' = [push EXCEPT ![d] = p] /\ push'[d] = p /\ p.pc = "build"
        /\ p.versions = push[d].versions
  <2>1. "build" \in Points
    BY DEF Points
  <2>2. MoveTo(d, "build")
    BY DEF PushCreates, MoveTo
  <2>3. QED BY <2>1, <2>2, Moves
<1>4. GistTypes' /\ GistsWereSent' /\ NewGist \in Gists
  BY Creates DEF PushCreates
<1>5. Steady(d)'
  BY <1>1, <1>2, <1>3, <1>4
  DEF Steady, Serial, Running, BoundNow, NotedNow, BuiltNow, SeenNow,
      PushPoints, PullPoints, local
<1>6. PulledWereSent(d)' /\ PatchedWereSent(d)'
  BY <1>3 DEF PulledWereSent, PatchedWereSent
<1>7. QED BY <1>1, <1>2, <1>3, <1>4, <1>5, <1>6, RemoteStep

(* The push reads the store; nothing writes it before the answer. *)
LEMMA PushBuildsStep ==
  ASSUME SyncInv, NEW d \in Devices, PushBuilds(d)
  PROVE  SyncInv'
<1>1. push[d].pc = "build" /\ Steady(d) /\ store[d] \in Rows
  BY DEF SyncInv, SyncTypes, LocalTypes, PushBuilds
<1>2. UNCHANGED <<local, bound, queue, clock, count, remote, faults>>
  BY DEF PushBuilds
<1>3. PICK p \in PushRecord :
        /\ push' = [push EXCEPT ![d] = p] /\ push'[d] = p /\ p.pc = "patch"
        /\ p.versions = push[d].versions /\ p.rows = store[d]
  <2>1. "patch" \in Points
    BY DEF Points
  <2>2. Read(d, "patch", store[d])
    BY DEF PushBuilds, Read
  <2>3. QED BY <1>1, <2>1, <2>2, Reading
<1>4. Steady(d)'
  BY <1>1, <1>2, <1>3
  DEF Steady, Serial, Running, BoundNow, NotedNow, BuiltNow, SeenNow,
      PushPoints, PullPoints, local
<1>5. PulledWereSent(d)' /\ PatchedWereSent(d)'
  BY <1>3 DEF PulledWereSent, PatchedWereSent
<1>6. QED BY <1>2, <1>3, <1>4, <1>5, MoveStep

(* What GitHub accepts is what the store holds. *)
LEMMA PushPatchesStep ==
  ASSUME SyncInv, NEW d \in Devices, PushPatches(d)
  PROVE  SyncInv'
<1>1. /\ push[d].pc = "patch" /\ Steady(d) /\ bound \in [Devices -> Gists \cup {NoGist}]
      /\ push[d].rows = store[d]
  BY DEF SyncInv, SyncTypes, WorkerTypes, PushPatches, Steady, BuiltNow
<1>2. UNCHANGED <<local, bound, queue, clock, count, faults>> /\ Upload(d)
  BY DEF PushPatches
<1>3. PICK p \in PushRecord :
        /\ push' = [push EXCEPT ![d] = p] /\ push'[d] = p /\ p.pc = "clear"
        /\ p.versions = push[d].versions
  <2>1. "clear" \in Points
    BY DEF Points
  <2>2. MoveTo(d, "clear")
    BY DEF PushPatches, MoveTo
  <2>3. QED BY <2>1, <2>2, Moves
<1>4. /\ GistTypes' /\ GistsWereSent' /\ sent \subseteq sent'
      /\ \A l \in Layers : push[d].rows[l] \in sent'
  BY <1>2, Uploads
<1>5. Steady(d)'
  BY <1>1, <1>2, <1>3
  DEF Steady, Serial, Running, BoundNow, NotedNow, BuiltNow, SeenNow,
      PushPoints, PullPoints, local
<1>6. PulledWereSent(d)'
  BY <1>3 DEF PulledWereSent
<1>7. PatchedWereSent(d)'
  BY <1>1, <1>2, <1>4 DEF PatchedWereSent, Sent, local
<1>8. QED BY <1>1, <1>2, <1>3, <1>4, <1>5, <1>6, <1>7, RemoteStep

(* A push that was answered clears the outbox: all it held was sent. *)
LEMMA PushClearsStep ==
  ASSUME SyncInv, NEW d \in Devices, PushClears(d)
  PROVE  SyncInv'
<1>1. /\ push[d].pc = "clear" /\ Settle(d) /\ queue[d] # <<>> /\ SentBy(d)
      /\ outbox[d] \in Table /\ dirty[d] \in Table
      /\ outbox \in [Devices -> Table] /\ dirty \in [Devices -> Table]
  BY SomebodyRuns DEF SyncInv, SyncTypes, LocalTypes, PushClears
<1>2. /\ UNCHANGED <<store, bound, clock, count, gist, sent, faults>>
      /\ outbox' = [outbox EXCEPT ![d] = Cleared(outbox[d], push[d].versions)]
      /\ dirty' = [dirty EXCEPT ![d] = Cleared(dirty[d], push[d].marks)]
  BY DEF PushClears, remote
<1>3. PICK left \in Table, marks \in Table :
        outbox' = [outbox EXCEPT ![d] = left] /\ dirty' = [dirty EXCEPT ![d] = marks]
  BY <1>1, <1>2, TableTypes
<1>4. /\ queue' \in [Devices -> Seq(Job)] /\ push' \in [Devices -> PushRecord]
      /\ push'[d].pc = "idle"
      /\ \A e \in Devices \ {d} : queue'[e] = queue[e] /\ push'[e] = push[e]
  BY <1>1, Settles DEF SyncInv
<1>5. SyncTypes'
  <2>1. LocalTypes'
    BY <1>1, <1>2, <1>3 DEF LocalTypes, SyncInv, SyncTypes
  <2>2. QED BY <1>2, <1>4, <2>1 DEF SyncInv, SyncTypes, WorkerTypes, GistTypes
<1>6. Others(d)
  BY <1>1, <1>2, <1>3, <1>4 DEF Others
<1>7. EditsAreKept(d)'
  <2>1. \A l \in Layers : store[d][l] \in sent \/ store[d][l].by = NoDevice
    BY <1>1 DEF SentBy, PatchedWereSent, Sent, Never
  <2>2. QED BY <1>2, <2>1, SyncAssumption DEF EditsAreKept, Carried, SyncAssumption
<1>8. Steady(d)' /\ SentBy(d)'
  BY <1>4, <1>7, IdleStep
<1>9. QED BY <1>2, <1>5, <1>6, <1>8, SentStays, DeviceStep

(* A request that fails leaves everything dirty. *)
LEMMA RequestFailsStep ==
  ASSUME SyncInv, NEW d \in Devices, RequestFails(d)
  PROVE  SyncInv'
<1>1. /\ push[d].pc # "idle" /\ Settle(d) /\ Counted
      /\ UNCHANGED <<local, bound, clock, count>> /\ bound \in [Devices -> Gists \cup {NoGist}]
  BY DEF RequestFails, Counted, SyncInv, SyncTypes, WorkerTypes
<1>2. queue[d] # <<>>
  BY <1>1, SomebodyRuns
<1>3. CASE Upload(d)
  BY <1>1, <1>2, <1>3, Uploads, SettleStep
<1>4. CASE Unused # {} /\ gist' = [gist EXCEPT ![NewGist] = NoRow] /\ UNCHANGED sent
  BY <1>1, <1>2, <1>4, Creates, SettleStep
<1>5. CASE UNCHANGED remote
  BY <1>1, <1>2, <1>5, SettleOnly
<1>6. QED BY <1>3, <1>4, <1>5 DEF RequestFails

(* So does a PATCH that finds no Gist, and an agent's edit that ends unwritten. *)
LEMMA EndsStep ==
  ASSUME SyncInv, NEW d \in Devices, PatchFindsNothing(d) \/ EndsUnwritten(d)
  PROVE  SyncInv'
<1>1. queue[d] # <<>>
  BY SomebodyRuns DEF PatchFindsNothing, EndsUnwritten, Running
<1>2. /\ Settle(d) /\ UNCHANGED <<local, bound, clock, count, remote>> /\ Counted
      /\ bound \in [Devices -> Gists \cup {NoGist}]
  BY DEF PatchFindsNothing, EndsUnwritten, Counted, SyncInv, SyncTypes, WorkerTypes
<1>3. QED BY <1>1, <1>2, SettleOnly

(* A pull of an unbound profile ends, another one reads its Gist. *)
LEMMA PullBeginsStep ==
  ASSUME SyncInv, NEW d \in Devices, PullBegins(d)
  PROVE  SyncInv'
<1>1. /\ Running(d, "pull") /\ queue[d] # <<>> /\ bound \in [Devices -> Gists \cup {NoGist}]
      /\ UNCHANGED <<local, bound, clock, count, remote, faults>>
  BY DEF PullBegins, Running, SyncInv, SyncTypes, WorkerTypes
<1>2. CASE Settle(d)
  BY <1>1, <1>2, SettleOnly DEF Counted
<1>3. CASE bound[d] # NoGist /\ push' = [push EXCEPT ![d].pc = "read"] /\ UNCHANGED queue
  <2>1. "read" \in Points /\ MoveTo(d, "read")
    BY <1>3 DEF Points, MoveTo
  <2>2. PICK p \in PushRecord : push' = [push EXCEPT ![d] = p] /\ push'[d] = p /\ p.pc = "read"
    BY <2>1, Moves
  <2>3. Steady(d)'
    BY <1>1, <1>3, <2>2
    DEF Steady, Serial, Running, BoundNow, NotedNow, BuiltNow, SeenNow,
      PushPoints, PullPoints, local
  <2>4. PulledWereSent(d)' /\ PatchedWereSent(d)'
    BY <2>2 DEF PulledWereSent, PatchedWereSent
  <2>5. QED BY <1>1, <1>3, <2>2, <2>3, <2>4, MoveStep
<1>4. QED BY <1>2, <1>3 DEF PullBegins

(* What a pull reads was sent by some push. *)
LEMMA PullReadsStep ==
  ASSUME SyncInv, NEW d \in Devices, PullReads(d)
  PROVE  SyncInv'
<1>1. /\ push[d].pc = "read" /\ Steady(d) /\ bound \in [Devices -> Gists \cup {NoGist}]
      /\ UNCHANGED <<local, clock, count, remote, faults>>
  BY DEF PullReads, SyncInv, SyncTypes, WorkerTypes
<1>2. CASE Settle(d) /\ bound' = [bound EXCEPT ![d] = NoGist]
  <2>1. queue[d] # <<>>
    BY <1>1, SomebodyRuns
  <2>2. bound' \in [Devices -> Gists \cup {NoGist}] /\ \A e \in Devices \ {d} : bound'[e] = bound[e]
    BY <1>1, <1>2
  <2>3. QED BY <1>1, <1>2, <2>1, <2>2, SettleOnly DEF Counted
<1>3. CASE /\ gist[bound[d]] # NoGist
           /\ push' = [push EXCEPT ![d].pc = "merge", ![d].rows = gist[bound[d]]]
           /\ UNCHANGED <<queue, bound>>
  <2>1. bound[d] \in Gists
    BY <1>1 DEF Steady, BoundNow
  <2>2. gist[bound[d]] \in Rows /\ Sent(gist[bound[d]])
    BY <1>3, <2>1 DEF SyncInv, SyncTypes, GistTypes, GistsWereSent
  <2>3. "merge" \in Points /\ Read(d, "merge", gist[bound[d]])
    BY <1>3 DEF Points, Read
  <2>4. PICK p \in PushRecord : /\ push' = [push EXCEPT ![d] = p] /\ push'[d] = p /\ p.pc = "merge"
                                /\ p.rows = gist[bound[d]]
    BY <2>2, <2>3, Reading
  <2>5. Steady(d)'
    BY <1>1, <1>3, <2>4
    DEF Steady, Serial, Running, BoundNow, NotedNow, BuiltNow, SeenNow,
      PushPoints, PullPoints, local
  <2>6. PulledWereSent(d)' /\ PatchedWereSent(d)'
    BY <1>1, <2>2, <2>4 DEF PulledWereSent, PatchedWereSent, Sent, remote
  <2>7. QED BY <1>1, <1>3, <2>4, <2>5, <2>6, MoveStep
<1>4. QED BY <1>2, <1>3 DEF PullReads

(* The local rows, and later the local metadata, are read. *)
LEMMA PullMergesStep ==
  ASSUME SyncInv, NEW d \in Devices, PullMerges(d) \/ PullReadsMeta(d)
  PROVE  SyncInv'
<1>1. /\ push[d].pc \in {"merge", "readmeta"} /\ Steady(d) /\ SentBy(d) /\ store[d] \in Rows
      /\ UNCHANGED <<local, bound, queue, clock, count, remote, faults>>
  BY DEF PullMerges, PullReadsMeta, SyncInv, SyncTypes, LocalTypes
<1>2. PICK pc \in {"put", "meta"} : See(d, pc, store[d])
  BY DEF PullMerges, PullReadsMeta, See
<1>3. PICK p \in PushRecord : /\ push' = [push EXCEPT ![d] = p] /\ push'[d] = p /\ p.pc = pc
                              /\ p.rows = push[d].rows /\ p.seen = store[d]
  <2>1. pc \in Points
    BY DEF Points
  <2>2. QED BY <1>1, <1>2, <2>1, Seeing
<1>4. Steady(d)'
  BY <1>1, <1>3
  DEF Steady, Serial, Running, BoundNow, NotedNow, BuiltNow, SeenNow,
      PushPoints, PullPoints, local
<1>5. PulledWereSent(d)' /\ PatchedWereSent(d)'
  BY <1>1, <1>3 DEF SentBy, PulledWereSent, PatchedWereSent, Sent, remote
<1>6. QED BY <1>1, <1>3, <1>4, <1>5, MoveStep

(* A layer that comes from what was pulled was sent.  *)
LEMMA PulledEdits ==
  ASSUME SyncInv, NEW d \in Devices, PulledWereSent(d),
         push[d].pc \in {"merge", "put", "readmeta", "meta"},
         outbox' = outbox, sent' = sent,
         \A l \in Layers : store'[d][l] \in {store[d][l], push[d].rows[l]}
  PROVE  EditsAreKept(d)'
<1>1. SUFFICES ASSUME NEW l \in Layers
               PROVE  Carried(d, l)' \/ KeyOf(l) \in DOMAIN outbox'[d]
  BY DEF EditsAreKept
<1>2. CASE store'[d][l] = store[d][l]
  BY <1>2 DEF SyncInv, SentBy, EditsAreKept, Carried
<1>3. CASE store'[d][l] = push[d].rows[l]
  <2>1. push[d].rows[l] \in sent \/ push[d].rows[l].by = NoDevice
    BY DEF PulledWereSent, Sent, Never
  <2>2. QED BY <1>3, <2>1, SyncAssumption DEF Carried, SyncAssumption
<1>4. QED BY <1>2, <1>3

(* The merged row is put: every layer of it is the local or the pulled one. *)
LEMMA PullPutsStore ==
  ASSUME SyncInv, NEW d \in Devices, PullPuts(d)
  PROVE  /\ store' \in [Devices -> Rows] /\ \A e \in Devices \ {d} : store'[e] = store[e]
         /\ \A l \in Layers : \/ store'[d][l] = store[d][l]
                              \/ /\ store'[d][l] = push[d].rows[l]
                                 /\ push[d].rows[l].at > store[d][l].at
<1> DEFINE merged == Merge(push[d].seen, push[d].rows)
           put == [l \in Layers |-> IF l \in TagLayers THEN merged[l] ELSE store[d][l]]
<1>1. /\ store \in [Devices -> Rows] /\ store[d] \in Rows /\ push[d] \in PushRecord
      /\ push[d].seen = store[d]
  BY DEF SyncInv, SyncTypes, LocalTypes, WorkerTypes, PullPuts, Steady, SeenNow
<1>2. push[d].rows \in Rows /\ merged \in Rows
  BY <1>1, RowTypes DEF PushRecord
<1>3. put \in Rows
  BY <1>1, <1>2 DEF Rows
<1>4. \A l \in Layers : \/ put[l] = store[d][l]
                        \/ put[l] = push[d].rows[l] /\ push[d].rows[l].at > store[d][l].at
  BY <1>1 DEF Merge
<1>5. PICK rows \in {store[d], put} : store' = [store EXCEPT ![d] = rows]
  <2>1. store' = [store EXCEPT ![d] = IF merged = push[d].seen THEN store[d] ELSE put]
    BY DEF PullPuts
  <2> HIDE DEF merged, put
  <2>2. QED BY <2>1
<1> HIDE DEF merged, put
<1>6. store'[d] = rows
  BY <1>1, <1>5
<1>7. store' \in [Devices -> Rows] /\ \A e \in Devices \ {d} : store'[e] = store[e]
  BY <1>1, <1>3, <1>5
<1>8. QED BY <1>4, <1>5, <1>6, <1>7

(* The merged row leaves edits that were not sent in the outbox. *)
LEMMA PullPutsStep ==
  ASSUME SyncInv, NEW d \in Devices, PullPuts(d)
  PROVE  SyncInv'
<1>1. /\ push[d].pc = "put" /\ Steady(d) /\ SentBy(d)
      /\ UNCHANGED <<outbox, dirty, bound, queue, clock, count, gist, sent, faults>>
  BY DEF PullPuts, SyncInv, remote
<1>2. /\ store' \in [Devices -> Rows] /\ \A e \in Devices \ {d} : store'[e] = store[e]
      /\ \A l \in Layers : store'[d][l] \in {store[d][l], push[d].rows[l]}
  BY PullPutsStore
<1>3. PICK p \in PushRecord : /\ push' = [push EXCEPT ![d] = p] /\ push'[d] = p
                              /\ p.pc = "readmeta" /\ p.rows = push[d].rows
  <2>1. "readmeta" \in Points /\ MoveTo(d, "readmeta")
    BY DEF Points, PullPuts, MoveTo
  <2>2. QED BY <2>1, Moves
<1>4. push' \in [Devices -> PushRecord] /\ \A e \in Devices \ {d} : push'[e] = push[e]
  BY <1>3 DEF SyncInv, SyncTypes, WorkerTypes
<1>5. SyncTypes'
  <2>1. LocalTypes'
    BY <1>1, <1>2 DEF SyncInv, SyncTypes, LocalTypes
  <2>2. QED BY <1>1, <1>4, <2>1 DEF SyncInv, SyncTypes, WorkerTypes, GistTypes
<1>6. Others(d)
  BY <1>1, <1>2, <1>4 DEF Others
<1>7. Steady(d)'
  BY <1>1, <1>3
  DEF Steady, Serial, Running, BoundNow, NotedNow, BuiltNow, SeenNow,
      PushPoints, PullPoints, local
<1>8. SentBy(d)'
  <2>1. PulledWereSent(d)' /\ PatchedWereSent(d)'
    BY <1>1, <1>3 DEF SentBy, PulledWereSent, PatchedWereSent, Sent
  <2>2. EditsAreKept(d)'
    BY <1>1, <1>2, PulledEdits DEF SentBy
  <2>3. QED BY <2>1, <2>2 DEF SentBy
<1>9. QED BY <1>1, <1>5, <1>6, <1>7, <1>8, SentStays, DeviceStep

(* So are the merged metadata. *)
LEMMA PullMetaStore ==
  ASSUME SyncInv, NEW d \in Devices, PullMeta(d)
  PROVE  /\ store' \in [Devices -> Rows] /\ \A e \in Devices \ {d} : store'[e] = store[e]
         /\ \A l \in Layers : \/ store'[d][l] = store[d][l]
                              \/ /\ store'[d][l] = push[d].rows[l]
                                 /\ push[d].rows[l].at >= store[d][l].at
<1>1. /\ store \in [Devices -> Rows] /\ store[d] \in Rows /\ push[d] \in PushRecord
      /\ push[d].seen = store[d] /\ "meta" \in Layers
  BY DEF SyncInv, SyncTypes, LocalTypes, WorkerTypes, PullMeta, Steady, SeenNow, Layers
<1>2. push[d].rows \in Rows
  BY <1>1 DEF PushRecord
<1>3. PICK m \in MetaWinners(store[d]["meta"], push[d].rows["meta"]) :
        store' = [store EXCEPT ![d]["meta"] = IF m = store[d]["meta"] THEN @ ELSE m]
  BY <1>1 DEF PullMeta
<1>4. /\ m \in {store[d]["meta"], push[d].rows["meta"]} /\ m.at >= store[d]["meta"].at
      /\ m \in Stamp
  BY <1>1, <1>2 DEF MetaWinners, Rows
<1>5. store' = [store EXCEPT ![d] = [store[d] EXCEPT !["meta"] = m]]
  BY <1>1, <1>3 DEF Rows
<1>6. [store[d] EXCEPT !["meta"] = m] \in Rows
  BY <1>1, <1>4 DEF Rows
<1>7. store' \in [Devices -> Rows] /\ \A e \in Devices \ {d} : store'[e] = store[e]
  BY <1>1, <1>5, <1>6
<1>8. \A l \in Layers : store'[d][l] = IF l = "meta" THEN m ELSE store[d][l]
  BY <1>1, <1>5 DEF Rows
<1>9. QED BY <1>4, <1>7, <1>8

(* So do the merged metadata. *)
LEMMA PullMetaStep ==
  ASSUME SyncInv, NEW d \in Devices, PullMeta(d)
  PROVE  SyncInv'
<1>1. /\ push[d].pc = "meta" /\ Steady(d) /\ SentBy(d) /\ Settle(d) /\ queue[d] # <<>>
      /\ UNCHANGED <<outbox, dirty, bound, clock, count, gist, sent, faults>>
  BY SomebodyRuns DEF PullMeta, SyncInv, remote
<1>2. /\ store' \in [Devices -> Rows] /\ \A e \in Devices \ {d} : store'[e] = store[e]
      /\ \A l \in Layers : store'[d][l] \in {store[d][l], push[d].rows[l]}
  BY PullMetaStore
<1>3. /\ queue' \in [Devices -> Seq(Job)] /\ push' \in [Devices -> PushRecord]
      /\ push'[d].pc = "idle"
      /\ \A e \in Devices \ {d} : queue'[e] = queue[e] /\ push'[e] = push[e]
  BY <1>1, Settles DEF SyncInv
<1>4. SyncTypes'
  <2>1. LocalTypes'
    BY <1>1, <1>2 DEF SyncInv, SyncTypes, LocalTypes
  <2>2. QED BY <1>1, <1>3, <2>1 DEF SyncInv, SyncTypes, WorkerTypes, GistTypes
<1>5. Others(d)
  BY <1>1, <1>2, <1>3 DEF Others
<1>6. EditsAreKept(d)'
  BY <1>1, <1>2, PulledEdits DEF SentBy
<1>7. Steady(d)' /\ SentBy(d)'
  BY <1>3, <1>6, IdleStep
<1>8. QED BY <1>1, <1>4, <1>5, <1>7, SentStays, DeviceStep

(* A worker that dies takes its queue and its marks with it, not the outbox. *)
LEMMA CrashStep ==
  ASSUME SyncInv, NEW d \in Devices, Crash(d)
  PROVE  SyncInv'
<1>1. /\ UNCHANGED <<store, outbox, bound, clock, count, gist, sent>> /\ Fault
      /\ dirty' = [dirty EXCEPT ![d] = NoKeys] /\ queue' = [queue EXCEPT ![d] = <<>>]
      /\ push' = [push EXCEPT ![d] = Idle]
  BY DEF Crash, remote
<1>2. NoKeys \in Table /\ <<>> \in Seq(Job) /\ Idle \in PushRecord /\ Idle.pc = "idle"
  BY TableTypes, BegunFields
<1>3. /\ dirty' \in [Devices -> Table] /\ queue' \in [Devices -> Seq(Job)]
      /\ push' \in [Devices -> PushRecord] /\ push'[d].pc = "idle"
      /\ \A e \in Devices \ {d} : queue'[e] = queue[e] /\ push'[e] = push[e]
  BY <1>1, <1>2 DEF SyncInv, SyncTypes, LocalTypes, WorkerTypes
<1>4. faults' \in 0..MaxFaults
  BY <1>1, SyncAssumption DEF Fault, SyncInv, SyncTypes, WorkerTypes, SyncAssumption
<1>5. SyncTypes'
  BY <1>1, <1>3, <1>4 DEF SyncInv, SyncTypes, LocalTypes, WorkerTypes, GistTypes
<1>6. Others(d)
  BY <1>1, <1>3 DEF Others
<1>7. Steady(d)' /\ SentBy(d)'
  BY <1>1, <1>3, EditsStay, IdleStep
<1>8. QED BY <1>1, <1>5, <1>6, <1>7, SentStays, DeviceStep

(* A step that no device takes part in. *)
LEMMA OutsideStep ==
  ASSUME SyncInv, UNCHANGED <<store, outbox, bound, queue, push, sent>>, SyncTypes', GistsWereSent'
  PROVE  SyncInv'
<1>1. SUFFICES ASSUME NEW d \in Devices PROVE Steady(d)' /\ SentBy(d)'
  BY DEF SyncInv
<1>2. Steady(d) /\ SentBy(d)
  BY DEF SyncInv
<1>3. Steady(d)'
  BY <1>2 DEF Steady, Serial, Running, BoundNow, NotedNow, BuiltNow, SeenNow
<1>4. SentBy(d)'
  BY <1>2 DEF SentBy, PulledWereSent, PatchedWereSent, EditsAreKept, Carried, Sent
<1>5. QED BY <1>3, <1>4

(* The user deletes a Gist. *)
LEMMA DeleteGistStep ==
  ASSUME SyncInv, NEW g \in Gists, DeleteGist(g)
  PROVE  SyncInv'
<1>1. /\ UNCHANGED <<store, outbox, dirty, bound, queue, push, clock, count, sent>> /\ Fault
      /\ gist' = [gist EXCEPT ![g] = NoGist]
  BY DEF DeleteGist, local
<1>2. faults' \in 0..MaxFaults
  BY <1>1, SyncAssumption DEF Fault, SyncInv, SyncTypes, WorkerTypes, SyncAssumption
<1>3. gist \in [Gists -> Rows \cup {NoGist}]
  BY DEF SyncInv, SyncTypes, GistTypes
<1>4. SyncTypes'
  BY <1>1, <1>2, <1>3 DEF SyncInv, SyncTypes, LocalTypes, WorkerTypes, GistTypes
<1>5. GistsWereSent'
  BY <1>1, <1>3 DEF SyncInv, GistsWereSent, Sent
<1>6. QED BY <1>1, <1>4, <1>5, OutsideStep

(* Time passes. *)
LEMMA TickStep ==
  ASSUME SyncInv, NEW d \in Devices, Tick(d)
  PROVE  SyncInv'
<1>1. /\ UNCHANGED <<store, outbox, dirty, bound, queue, push, count, gist, sent, faults>>
      /\ clock' = [clock EXCEPT ![d] = @ + 1]
  BY DEF Tick, local, remote
<1>2. clock \in [Devices -> Nat]
  BY DEF SyncInv, SyncTypes, LocalTypes
<1>3. clock' \in [Devices -> Nat]
  BY <1>1, <1>2
<1>4. SyncTypes'
  BY <1>1, <1>3 DEF SyncInv, SyncTypes, LocalTypes, WorkerTypes, GistTypes
<1>5. QED BY <1>1, <1>4, SentStays, OutsideStep

(* Every step. *)
LEMMA SyncInvStep == SyncInv /\ [SyncNext]_vars => SyncInv'
<1>1. SUFFICES ASSUME SyncInv, [SyncNext]_vars PROVE SyncInv'
  OBVIOUS
<1>2. CASE UNCHANGED vars
  <2>1. SyncTypes'
    BY <1>1, <1>2 DEF vars, SyncInv, SyncTypes, LocalTypes, WorkerTypes, GistTypes
  <2>2. QED BY <1>1, <1>2, <2>1, SentStays, OutsideStep DEF vars
<1>3. ASSUME NEW d \in Devices,
             SubmitEdit(d) \/ SubmitPush(d) \/ SubmitPull(d) \/ EndsUnwritten(d)
               \/ RequestFails(d) \/ Crash(d) \/ Tick(d)
      PROVE  SyncInv'
  BY <1>1, <1>3, SubmitStep, EndsStep, RequestFailsStep, CrashStep, TickStep
<1>4. ASSUME NEW d \in Devices, JobStep(d) PROVE SyncInv'
  BY <1>1, <1>4, EditStep, PushBeginsStep, PushEnsuresStep, PushUnbindsStep, PushCreatesStep,
     PushBuildsStep, PushPatchesStep, PushClearsStep, EndsStep, PullBeginsStep, PullReadsStep,
     PullMergesStep, PullPutsStep, PullMetaStep DEF JobStep
<1>5. ASSUME NEW g \in Gists, DeleteGist(g) PROVE SyncInv'
  BY <1>1, <1>5, DeleteGistStep
<1>6. QED BY <1>1, <1>2, <1>3, <1>4, <1>5 DEF SyncNext

-----------------------------------------------------------------------------
(* The theorems. *)

(* The inductive invariant: one job at a time, what was read still stands,   *)
(* what is on a Gist was sent, what was not sent is in the outbox.           *)
THEOREM SyncInvariant == SyncSpec => []SyncInv
<1>1. SyncInit => SyncInv
  BY SyncInitInv
<1>2. SyncInv /\ [SyncNext]_vars => SyncInv'
  BY SyncInvStep
<1>3. QED BY <1>1, <1>2, PTL DEF SyncSpec

(* The types of the device's stores, of the queue and of the Gists. *)
THEOREM SyncTypeCorrect == SyncSpec => []SyncTypeOK
<1>1. SyncInv => SyncTypeOK
  <2>1. SUFFICES ASSUME SyncInv PROVE SyncTypeOK
    OBVIOUS
  <2>2. \A table \in Table : DOMAIN table \subseteq Keys /\ \A k \in DOMAIN table : table[k] \in Nat
    BY DEF Table
  <2>3. \A d \in Devices : outbox[d] \in Table /\ dirty[d] \in Table
    BY <2>1 DEF SyncInv, SyncTypes, LocalTypes
  <2>4. \A d \in Devices : push[d].pc \in Points
    BY <2>1 DEF SyncInv, SyncTypes, WorkerTypes, PushRecord
  <2>5. \A g \in Gists : gist[g] = NoGist \/ gist[g] \in Rows
    BY <2>1 DEF SyncInv, SyncTypes, GistTypes
  <2>6. \A d \in Devices : \A table \in {outbox[d], dirty[d]} :
          DOMAIN table \subseteq Keys /\ \A k \in DOMAIN table : table[k] \in Nat
    BY <2>2, <2>3
  <2>7. QED
    BY <2>1, <2>4, <2>5, <2>6
    DEF SyncTypeOK, SyncInv, SyncTypes, LocalTypes, WorkerTypes, Rows
<1>2. QED BY <1>1, SyncInvariant, PTL

(* No local edit is forgotten: an accepted push has carried it, or its key   *)
(* is still in the durable outbox, whatever request failed and whenever the  *)
(* worker died.                                                              *)
THEOREM EditsAreNotForgotten == SyncSpec => []UnsentIsDirty
<1>1. SyncInv => UnsentIsDirty
  BY DEF SyncInv, SentBy, EditsAreKept, UnsentIsDirty
<1>2. QED BY <1>1, SyncInvariant, PTL

(* A push that has nothing to upload leaves no edit of the device unsent: an *)
(* empty list of versions is an empty outbox, because no edit came between.  *)
THEOREM SkippedPushes == SyncSpec => SkippedPushHadNothing
<1> DEFINE Skips == \A d \in Devices : PushEnsures(d) /\ push'[d].pc = "idle" =>
             \A l \in Layers : Carried(d, l)
<1>1. SyncInv /\ [SyncNext]_vars => Skips
  <2>1. SUFFICES ASSUME SyncInv, NEW d \in Devices, PushEnsures(d), push'[d].pc = "idle",
                        NEW l \in Layers
                 PROVE  Carried(d, l)
    OBVIOUS
  <2>2. /\ push[d].pc = "ensure" /\ push \in [Devices -> PushRecord] /\ outbox[d] \in Table
        /\ Steady(d) /\ SentBy(d)
    BY <2>1 DEF PushEnsures, SyncInv, SyncTypes, LocalTypes, WorkerTypes
  <2>3. ~ HasChanges(d)
    <3>1. SUFFICES ASSUME HasChanges(d) PROVE FALSE
      OBVIOUS
    <3>2. "build" \in Points /\ MoveTo(d, "build")
      BY <2>1, <3>1 DEF PushEnsures, Points, MoveTo
    <3>3. push'[d].pc = "build"
      BY <2>1, <3>2, Moves
    <3>4. QED BY <2>1, <3>3
  <2>4. Noted(outbox[d]) = {}
    BY <2>2, <2>3 DEF HasChanges, Steady, NotedNow, PushPoints
  <2>5. DOMAIN outbox[d] = {}
    BY <2>2, <2>4, TableTypes
  <2>6. QED BY <2>2, <2>5 DEF SentBy, EditsAreKept
<1>2. QED BY <1>1, SyncInvariant, PTL DEF SyncSpec, SkippedPushHadNothing

(* While a pull is at the head of the queue no layer of the store gets       *)
(* older: what the merge compares with is what it replaces.                  *)
THEOREM PullsGoForward == SyncSpec => PullGoesForward
<1> DEFINE Forward == \A d \in Devices : Running(d, "pull") =>
             \A l \in Layers : store'[d][l].at >= store[d][l].at
<1>1. SyncInv /\ [SyncNext]_vars => Forward
  <2>1. SUFFICES ASSUME SyncInv, [SyncNext]_vars, NEW d \in Devices, Running(d, "pull"),
                        NEW l \in Layers
                 PROVE  store'[d][l].at >= store[d][l].at
    OBVIOUS
  <2>2. store[d][l].at \in Nat /\ store \in [Devices -> Rows]
    <3>1. store \in [Devices -> Rows]
      BY <2>1 DEF SyncInv, SyncTypes, LocalTypes
    <3>2. store[d][l] \in Stamp
      BY <3>1 DEF Rows
    <3>3. QED BY <3>1, <3>2 DEF Stamp
  <2>3. ASSUME store'[d] = store[d] PROVE store'[d][l].at >= store[d][l].at
    BY <2>2, <2>3
  <2>4. ASSUME store'[d][l] = store[d][l] \/ store'[d][l].at >= store[d][l].at
        PROVE  store'[d][l].at >= store[d][l].at
    <3>1. CASE store'[d][l] = store[d][l]
      BY <2>2, <3>1
    <3>2. QED BY <2>4, <3>1
  <2>5. CASE UNCHANGED vars
    BY <2>3, <2>5 DEF vars
  <2>6. ASSUME NEW e \in Devices,
               \/ SubmitEdit(e) \/ SubmitPush(e) \/ SubmitPull(e) \/ EndsUnwritten(e)
               \/ RequestFails(e) \/ Crash(e) \/ Tick(e)
        PROVE  store'[d] = store[d]
    BY <2>6
    DEF SubmitEdit, SubmitPush, SubmitPull, Submit, EndsUnwritten, RequestFails, Crash, Tick, local
  <2>7. ASSUME NEW e \in Devices, JobStep(e) PROVE store'[d][l].at >= store[d][l].at
    <3>1. CASE Edit(e)
      <4>1. e # d
        BY <2>1, <3>1 DEF Edit, Running
      <4>2. store'[d] = store[d]
        BY <2>2, <3>1, <4>1 DEF Edit
      <4>3. QED BY <2>3, <4>2
    <3>2. CASE PullPuts(e)
      <4>1. CASE e = d
        <5>1. store' \in [Devices -> Rows]
          BY <2>1, <3>2, PullPutsStore
        <5>2. store'[d][l] \in Stamp
          BY <5>1 DEF Rows
        <5>3. store'[d][l].at \in Nat
          BY <5>2 DEF Stamp
        <5>4. store'[d][l] = store[d][l] \/ store'[d][l].at > store[d][l].at
          BY <2>1, <3>2, <4>1, PullPutsStore
        <5>5. QED BY <2>2, <5>3, <5>4
      <4>2. CASE e # d
        BY <2>1, <2>3, <3>2, <4>2, PullPutsStore
      <4>3. QED BY <4>1, <4>2
    <3>3. CASE PullMeta(e)
      <4>1. CASE e = d
        BY <2>1, <2>4, <3>3, <4>1, PullMetaStore
      <4>2. CASE e # d
        BY <2>1, <2>3, <3>3, <4>2, PullMetaStore
      <4>3. QED BY <4>1, <4>2
    <3>4. CASE ~ Edit(e) /\ ~ PullPuts(e) /\ ~ PullMeta(e)
      <4>1. store' = store
        BY <2>7, <3>4
        DEF JobStep, PushBegins, PushEnsures, PushUnbinds, PushCreates, PushBuilds, PushPatches,
            PushClears, PatchFindsNothing, PullBegins, PullReads, PullMerges, PullReadsMeta, local
      <4>2. QED BY <2>3, <4>1
    <3>5. QED BY <3>1, <3>2, <3>3, <3>4
  <2>8. ASSUME NEW g \in Gists, DeleteGist(g) PROVE store'[d] = store[d]
    BY <2>8 DEF DeleteGist, local
  <2>9. CASE SyncNext
    <3>1. CASE \E e \in Devices : JobStep(e)
      BY <2>7, <3>1
    <3>2. CASE \E g \in Gists : DeleteGist(g)
      BY <2>3, <2>8, <3>2
    <3>3. CASE \E e \in Devices :
               \/ SubmitEdit(e) \/ SubmitPush(e) \/ SubmitPull(e) \/ EndsUnwritten(e)
               \/ RequestFails(e) \/ Crash(e) \/ Tick(e)
      BY <2>3, <2>6, <3>3
    <3>4. QED BY <2>9, <3>1, <3>2, <3>3 DEF SyncNext
  <2>10. QED BY <2>1, <2>5, <2>9
<1>2. QED BY <1>1, SyncInvariant, PTL DEF SyncSpec, PullGoesForward
===============================================================================
