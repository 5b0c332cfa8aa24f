-------------------------- MODULE OrganizeSlotProofs --------------------------
(***************************************************************************)
(* The slot of the organize run, for any number of pages and jobs.  The     *)
(* argument rests on the queue of messages: while one is handled no other   *)
(* is, so what its checks found of the owner stays true until its           *)
(* transaction, although its status and revision may not.                   *)
(***************************************************************************)
EXTENDS OrganizeSlot, TLAPS

-----------------------------------------------------------------------------
(* What is stored. *)

StoreTypes ==
  /\ status \in [Jobs -> Statuses]
  /\ owner \in [Jobs -> Pages \cup {NoPage}] /\ origin \in [Jobs -> Pages \cup {NoPage}]
  /\ revision \in [Jobs -> 0..MaxRevision]
  /\ expired \subseteq Jobs /\ sessions \subseteq Pages

OneRun == \A j, k \in Jobs : status[j] \in Started /\ status[k] \in Started => j = k

(* A preflight has not been changed since it was frozen, so that activating *)
(* it stays below the bound of revisions.                                   *)
PreflightsAreFresh == \A j \in Jobs : status[j] = "ready" => revision[j] = 1

StoreInv == StoreTypes /\ OneRun /\ PreflightsAreFresh /\ OwnersHaveSessions

-----------------------------------------------------------------------------
(* What the worker holds in memory. *)

MessageRecord == [at : Points, job : Jobs \cup {NoJob}, other : Jobs \cup {NoJob},
                  revision : 0..MaxRevision]

HostTypes ==
  /\ live \subseteq Pages
  /\ pending \in Jobs \cup {NoJob}
  /\ handler \in [Pages -> MessageRecord]
  /\ mutation \in [job : Jobs \cup {NoJob}, revision : 0..MaxRevision, attempt : 0..3]
  /\ faults \in 0..MaxFaults

OneMessage ==
  \A p, q \in Pages : handler[p] # NoMessage /\ handler[q] # NoMessage => p = q

(* A message in hand is about a job; what is in its way is a job too. *)
About(m) ==
  /\ m = NoMessage \/ (m.at # "idle" /\ m.job \in Jobs)
  /\ m.at = "replace" => m.other \in Jobs

AboutJobs == \A p \in Pages : About(handler[p])

Reserved ==
  pending # NoJob =>
    \E p \in Pages : handler[p].job = pending /\ handler[p].at \in {"replace", "activate"}

(* What the checks of a message of p found, as far as it lasts. *)
Lasts(m, p) ==
  /\ m.at \in {"stop", "retry", "select", "seal"} => owner[m.job] = p
  /\ m.at = "replace" => m.other # m.job /\ owner[m.other] = p
  /\ m.at = "takeover" => owner[m.job] \notin live

ChecksLast == \A p \in Pages : Lasts(handler[p], p)

HostInv == HostTypes /\ OneMessage /\ AboutJobs /\ Reserved /\ ChecksLast

SlotInv == StoreInv /\ HostInv

-----------------------------------------------------------------------------
(* The store.  A run that moves stays the only one, and with it control may *)
(* pass to a stored conversation.                                            *)
LEMMA MovesKeepStore ==
  ASSUME StoreInv, NEW j \in Jobs, NEW s \in Started \cup Terminal,
         status[j] \in Started, Moves(j, s),
         owner' = owner \/ \E p \in sessions : owner' = [owner EXCEPT ![j] = p],
         UNCHANGED <<origin, expired, sessions>>
  PROVE  StoreInv'
<1>1. /\ status' = [status EXCEPT ![j] = s]
      /\ revision[j] < MaxRevision
      /\ revision' = [revision EXCEPT ![j] = @ + 1]
  BY DEF Moves
<1>2. StoreTypes'
  <2>1. s \in Statuses
    BY DEF Statuses
  <2>2. revision[j] \in Nat
    BY DEF StoreInv, StoreTypes
  <2>3. revision' \in [Jobs -> 0..MaxRevision]
    BY <1>1, <2>2, SlotAssumption DEF StoreInv, StoreTypes, SlotAssumption
  <2>4. owner' \in [Jobs -> Pages \cup {NoPage}]
    BY DEF StoreInv, StoreTypes
  <2>5. QED BY <1>1, <2>1, <2>3, <2>4 DEF StoreInv, StoreTypes
<1>3. \A k \in Jobs : status'[k] = IF k = j THEN s ELSE status[k]
  BY <1>1 DEF StoreInv, StoreTypes
<1>4. OneRun'
  BY <1>3 DEF StoreInv, OneRun
<1>5. s # "ready"
  BY DEF Started, Analysed, Terminal
<1>6. PreflightsAreFresh'
  <2>1. \A k \in Jobs : k # j => revision'[k] = revision[k]
    BY <1>1 DEF StoreInv, StoreTypes
  <2>2. QED BY <1>3, <1>5, <2>1 DEF StoreInv, PreflightsAreFresh
<1>7. OwnersHaveSessions'
  <2>1. \A k \in Jobs : owner'[k] = owner[k] \/ owner'[k] \in sessions
    BY DEF StoreInv, StoreTypes
  <2>2. \A k \in Jobs : status'[k] \in Started \cup {"ready"} =>
                          status[k] \in Started \cup {"ready"}
    BY <1>3, <1>5
  <2>3. QED BY <2>1, <2>2 DEF StoreInv, OwnersHaveSessions
<1>8. QED BY <1>2, <1>4, <1>6, <1>7 DEF StoreInv

(* Jobs that are deleted leave the others as they are. *)
LEMMA DeletionsKeepStore ==
  ASSUME StoreInv, NEW gone,
         status' = [j \in Jobs |-> IF j \in gone THEN "deleted" ELSE status[j]],
         UNCHANGED <<owner, origin, revision, expired, sessions>>
  PROVE  StoreInv'
<1>1. "deleted" \in Statuses /\ "deleted" \notin Started \cup {"ready"}
  BY DEF Statuses, Started, Analysed
<1>2. QED
  BY <1>1 DEF StoreInv, StoreTypes, OneRun, PreflightsAreFresh, OwnersHaveSessions

(* A step that leaves the stored jobs and conversations alone. *)
LEMMA UntouchedStore ==
  ASSUME StoreInv, UNCHANGED <<jobs, sessions>>
  PROVE  StoreInv'
BY DEF StoreInv, StoreTypes, OneRun, PreflightsAreFresh, OwnersHaveSessions, jobs

-----------------------------------------------------------------------------
(* The queue of messages.  Nothing is reserved while no message is handled. *)
LEMMA NothingReserved ==
  ASSUME HostInv, NEW p \in Pages, TailFree(p)
  PROVE  pending = NoJob
<1>1. \A q \in Pages : handler[q].at = "idle"
  BY DEF TailFree, NoMessage
<1>2. QED BY <1>1 DEF HostInv, Reserved

(* The next message of the queue, with the checks it has passed. *)
LEMMA NextMessage ==
  ASSUME HostInv, NEW p \in Pages, NEW m \in MessageRecord, Handles(p, m),
         About(m), Lasts(m, p)',
         pending' = pending \/ (m.at \in {"replace", "activate"} /\ pending' = m.job),
         UNCHANGED <<mutation, faults>>
  PROVE  HostInv'
<1>1. /\ \A q \in Pages : handler[q] = NoMessage
      /\ live' = live \cup {p}
      /\ handler' = [handler EXCEPT ![p] = m]
  BY DEF Handles, TailFree
<1>2. pending = NoJob
  BY NothingReserved DEF Handles
<1>3. handler' \in [Pages -> MessageRecord]
      /\ \A q \in Pages : handler'[q] = IF q = p THEN m ELSE NoMessage
  BY <1>1 DEF HostInv, HostTypes
<1>4. HostTypes'
  <2>1. pending' \in Jobs \cup {NoJob}
    BY <1>2 DEF MessageRecord
  <2>2. QED BY <1>1, <1>3, <2>1 DEF HostInv, HostTypes
<1>5. OneMessage'
  BY <1>3 DEF OneMessage
<1>6. AboutJobs'
  BY <1>3 DEF AboutJobs, About, NoMessage
<1>7. Reserved'
  BY <1>2, <1>3 DEF Reserved
<1>8. ChecksLast'
  BY <1>3 DEF ChecksLast, Lasts, NoMessage
<1>9. QED BY <1>4, <1>5, <1>6, <1>7, <1>8 DEF HostInv

(* A message that is over, with the reservation of its start. *)
LEMMA MessageOver ==
  ASSUME HostInv, NEW p \in Pages, handler[p].at # "idle", Ends(p),
         \/ pending' = pending /\ handler[p].at \notin {"replace", "activate"}
         \/ pending' = ReservationAfter(p),
         UNCHANGED <<live, mutation, faults>>
  PROVE  HostInv'
<1>1. handler[p] # NoMessage
  BY DEF NoMessage
<1>2. \A q \in Pages : q # p => handler[q] = NoMessage
  BY <1>1 DEF HostInv, OneMessage
<1>3. NoMessage \in MessageRecord
  BY SlotAssumption DEF NoMessage, MessageRecord, Points, SlotAssumption
<1>4. handler' \in [Pages -> MessageRecord] /\ \A q \in Pages : handler'[q] = NoMessage
  BY <1>2, <1>3 DEF HostInv, HostTypes, Ends
<1>5. pending' = NoJob
  <2>1. CASE pending = NoJob
    BY <2>1 DEF ReservationAfter
  <2>2. CASE pending # NoJob
    <3>1. PICK q \in Pages :
             handler[q].job = pending /\ handler[q].at \in {"replace", "activate"}
      BY <2>2 DEF HostInv, Reserved
    <3>2. q = p
      BY <1>2, <3>1 DEF NoMessage
    <3>3. QED BY <3>1, <3>2 DEF ReservationAfter
  <2>3. QED BY <2>1, <2>2
<1>6. HostTypes'
  BY <1>4, <1>5 DEF HostInv, HostTypes
<1>7. OneMessage' /\ AboutJobs' /\ Reserved' /\ ChecksLast'
  BY <1>4, <1>5 DEF OneMessage, AboutJobs, About, Reserved, ChecksLast, Lasts, NoMessage
<1>8. QED BY <1>6, <1>7 DEF HostInv

(* A step beside the messages: no owner changes and no page appears. *)
LEMMA BesideMessages ==
  ASSUME HostInv, UNCHANGED <<handler, pending, owner>>, live' \subseteq live,
         mutation' \in [job : Jobs \cup {NoJob}, revision : 0..MaxRevision, attempt : 0..3],
         faults' \in 0..MaxFaults
  PROVE  HostInv'
<1>1. HostTypes'
  BY DEF HostInv, HostTypes
<1>2. OneMessage' /\ AboutJobs' /\ Reserved'
  BY DEF HostInv, OneMessage, AboutJobs, About, Reserved
<1>3. ChecksLast'
  BY DEF HostInv, ChecksLast, Lasts
<1>4. QED BY <1>1, <1>2, <1>3 DEF HostInv

-----------------------------------------------------------------------------
(* The worker starts with nothing in hand. *)
LEMMA SlotInitInv == SlotInit => SlotInv
<1>1. SUFFICES ASSUME SlotInit PROVE SlotInv
  OBVIOUS
<1>2. /\ "unused" \in Statuses /\ "unused" \notin Started \cup {"ready"}
  BY DEF Statuses, Started, Analysed
<1>3. StoreInv
  BY <1>1, <1>2, SlotAssumption
  DEF StoreInv, StoreTypes, OneRun, PreflightsAreFresh, OwnersHaveSessions, SlotInit, SlotAssumption
<1>4. HostTypes
  BY <1>1, SlotAssumption
  DEF HostTypes, SlotInit, SlotAssumption, NoMessage, NoMutation, MessageRecord, Points
<1>5. OneMessage /\ AboutJobs /\ Reserved /\ ChecksLast
  BY <1>1 DEF OneMessage, AboutJobs, About, Reserved, ChecksLast, Lasts, SlotInit, NoMessage
<1>6. QED BY <1>3, <1>4, <1>5 DEF SlotInv, HostInv

(* What a page may ask finds the slot, the owner and the connections as the *)
(* message's transaction relies on them.                                     *)
LEMMA MessagesKeepInv ==
  ASSUME SlotInv, NEW p \in Pages, Message(p)
  PROVE  SlotInv'
<1>1. /\ StoreInv /\ HostInv
      /\ \A j \in Jobs : revision[j] \in 0..MaxRevision
  BY DEF SlotInv, StoreInv, StoreTypes
<1>2. NoMessage \in MessageRecord /\ About(NoMessage) /\ Lasts(NoMessage, p)'
  BY SlotAssumption DEF NoMessage, MessageRecord, Points, SlotAssumption, About, Lasts
<1>3. CASE Connects(p)
  <2>1. HostInv'
    BY <1>1, <1>2, <1>3, NextMessage DEF Connects
  <2>2. StoreInv'
    BY <1>1, <1>3, UntouchedStore DEF Connects
  <2>3. QED BY <2>1, <2>2 DEF SlotInv
<1>4. CASE Leaves(p)
  <2>1. HostInv'
    BY <1>1, <1>4, BesideMessages DEF Leaves, jobs, worker, HostInv, HostTypes
  <2>2. StoreInv'
    BY <1>1, <1>4, UntouchedStore DEF Leaves
  <2>3. QED BY <2>1, <2>2 DEF SlotInv
<1>5. ASSUME NEW at \in Points \ {"idle", "replace"}, NEW j \in Jobs,
             at \in {"stop", "retry", "select", "seal"} => owner[j] = p,
             at = "takeover" => owner[j] \notin live \cup {p},
             Handles(p, To(at, j)),
             pending' = pending \/ (at = "activate" /\ pending' = j),
             UNCHANGED <<jobs, sessions, mutation, faults>>
      PROVE  SlotInv'
  <2>1. PICK m \in MessageRecord : m = To(at, j)
    BY <1>1 DEF To, MessageRecord
  <2>2. m.at = at /\ m.job = j
    BY <2>1 DEF To
  <2>3. About(m)
    BY <2>2 DEF About
  <2>4. Handles(p, m)
    BY <1>5, <2>1
  <2>5. Lasts(m, p)'
    BY <1>5, <2>2, <2>4 DEF Lasts, Handles, jobs
  <2>6. HostInv'
    BY <1>1, <1>5, <2>2, <2>3, <2>4, <2>5, NextMessage
  <2>7. QED BY <1>1, <1>5, <2>6, UntouchedStore DEF SlotInv
<1>6. ASSUME NEW j \in Jobs, Requests(p, j) PROVE SlotInv'
  BY <1>5, <1>6 DEF Requests, Points
<1>7. ASSUME NEW j \in Jobs, CancelsPreflight(p, j) PROVE SlotInv'
  <2>1. HostInv'
    BY <1>1, <1>2, <1>7, NextMessage DEF CancelsPreflight
  <2>2. status' = [k \in Jobs |-> IF k \in {j} THEN "deleted" ELSE status[k]]
    BY <1>1, <1>7 DEF CancelsPreflight, StoreInv, StoreTypes
  <2>3. StoreInv'
    BY <1>1, <1>7, <2>2, DeletionsKeepStore DEF CancelsPreflight
  <2>4. QED BY <2>1, <2>3 DEF SlotInv
<1>8. ASSUME NEW j \in Jobs, Starts(p, j) PROVE SlotInv'
  <2>1. /\ \A a \in Others(j) : CanReplace(a, p)
        /\ pending' = pending \/ pending' = j
        /\ UNCHANGED <<jobs, sessions, mutation, faults>>
    BY <1>8 DEF Starts
  <2>2. CASE Handles(p, To("activate", j))
    BY <1>5, <2>1, <2>2 DEF Points
  <2>3. CASE \E a \in Others(j) :
          Handles(p, [at |-> "replace", job |-> j, other |-> a, revision |-> revision[j]])
    <3>1. PICK a \in Others(j) :
            Handles(p, [at |-> "replace", job |-> j, other |-> a, revision |-> revision[j]])
      BY <2>3
    <3>2. a \in Jobs /\ a # j /\ owner[a] = p
      BY <2>1 DEF Others, Active, CanReplace
    <3>3. PICK m \in MessageRecord :
             m = [at |-> "replace", job |-> j, other |-> a, revision |-> revision[j]]
      BY <1>1, <3>2 DEF MessageRecord, Points
    <3>4. m.at = "replace" /\ m.job = j /\ m.other = a
      BY <3>3
    <3>5. Handles(p, m)
      BY <3>1, <3>3
    <3>6. About(m)
      BY <3>2, <3>4 DEF About
    <3>7. Lasts(m, p)'
      BY <2>1, <3>2, <3>4 DEF Lasts, jobs
    <3>8. HostInv'
      BY <1>1, <2>1, <3>4, <3>5, <3>6, <3>7, NextMessage
    <3>9. QED BY <1>1, <2>1, <3>8, UntouchedStore DEF SlotInv
  <2>4. QED BY <1>8, <2>2, <2>3 DEF Starts
<1>9. ASSUME NEW j \in Jobs, TakesControl(p, j) PROVE SlotInv'
  BY <1>5, <1>9 DEF TakesControl, Points
<1>10. ASSUME NEW j \in Jobs, Dismisses(p, j) PROVE SlotInv'
  BY <1>5, <1>10 DEF Dismisses, Points
<1>11. ASSUME NEW j \in Jobs, NEW c \in Commands, Commanded(p, j, c[1]) PROVE SlotInv'
  <2>1. c[1] \in {"stop", "retry", "select", "seal"}
    BY DEF Commands
  <2>2. c[1] \in Points \ {"idle", "replace"} /\ c[1] # "takeover"
    BY <2>1 DEF Points
  <2>3. QED BY <1>5, <1>11, <2>2 DEF Commanded
<1>12. QED
  BY <1>3, <1>4, <1>6, <1>7, <1>8, <1>9, <1>10, <1>11 DEF Message

(* A message in its transaction.  What the page was told of the job's status *)
(* is checked again where it is written; that no other run is there, that    *)
(* the preflight is its owner's and that a takeover's conversation is stored *)
(* is found out there and then.                                              *)
LEMMA HandlingKeepsInv ==
  ASSUME SlotInv, NEW p \in Pages, Handling(p)
  PROVE  SlotInv'
<1> DEFINE j == handler[p].job
<1>1. /\ StoreInv /\ HostInv
      /\ About(handler[p]) /\ Lasts(handler[p], p)
  BY DEF SlotInv, HostInv, AboutJobs, ChecksLast
<1>2. handler[p].at # "idle" => j \in Jobs
  BY <1>1 DEF About, NoMessage
<1>3. /\ Analysed \subseteq Started
      /\ Started \cup Terminal \subseteq Statuses
      /\ "cancelled" \in Terminal /\ "analyzing" \in Started /\ "blocked" \in Started
      /\ "review" \in Started /\ {"sealed", "completed"} \subseteq Started \cup Terminal
      /\ "ready" \in Statuses /\ "deleted" \in Statuses
      /\ {"ready", "deleted"} \cap (Started \cup Terminal) = {}
  BY DEF Statuses, Started, Analysed, Terminal
<1>4. CASE Freezes(p)
  <2>1. j \in Jobs /\ p \in sessions
    BY <1>2, <1>4 DEF Freezes
  <2>2. PICK gone : status' = [k \in Jobs |-> IF k = j THEN "ready"
                                               ELSE IF k \in gone THEN "deleted" ELSE status[k]]
    BY <1>4 DEF Freezes
  <2>3. /\ owner' = [owner EXCEPT ![j] = p] /\ origin' = [origin EXCEPT ![j] = p]
        /\ revision' = [revision EXCEPT ![j] = 1]
        /\ UNCHANGED <<expired, sessions>>
    BY <1>4 DEF Freezes
  <2>4. \A k \in Jobs : /\ k = j => /\ status'[k] = "ready" /\ revision'[k] = 1
                                    /\ owner'[k] = p /\ origin'[k] = p
                        /\ k # j => /\ status'[k] = status[k] \/ status'[k] = "deleted"
                                    /\ revision'[k] = revision[k]
                                    /\ owner'[k] = owner[k] /\ origin'[k] = origin[k]
    BY <1>1, <2>1, <2>2, <2>3 DEF StoreInv, StoreTypes
  <2>5. StoreTypes'
    <3>1. 1 \in 0..MaxRevision
      BY SlotAssumption DEF SlotAssumption
    <3>2. QED BY <1>1, <1>3, <2>1, <2>2, <2>3, <3>1 DEF StoreInv, StoreTypes
  <2>6. OneRun' /\ PreflightsAreFresh' /\ OwnersHaveSessions'
    BY <1>1, <1>3, <2>1, <2>3, <2>4 DEF StoreInv, OneRun, PreflightsAreFresh, OwnersHaveSessions
  <2>7. HostInv'
    BY <1>1, <1>4, MessageOver DEF Freezes
  <2>8. QED BY <2>5, <2>6, <2>7 DEF SlotInv, StoreInv
<1>5. CASE FreezeFails(p) \/ Refused(p) \/ ActivatesNothing(p) \/ StartThrows(p)
  <2>1. StoreInv'
    BY <1>1, <1>5, UntouchedStore DEF FreezeFails, Refused, ActivatesNothing, StartThrows
  <2>2. HostInv'
    BY <1>1, <1>5, MessageOver DEF FreezeFails, Refused, ActivatesNothing, StartThrows
  <2>3. QED BY <2>1, <2>2 DEF SlotInv
<1>6. CASE Replaces(p)
  <2>1. PICK a \in Jobs : a = handler[p].other
    BY <1>1, <1>6 DEF Replaces, About
  <2>2. StoreInv'
    BY <1>1, <1>3, <1>6, <2>1, MovesKeepStore DEF Replaces, Cancels
  <2>3. HostInv'
    <3>1. /\ handler' = [handler EXCEPT ![p].at = "activate"]
          /\ handler[p].at = "replace"
          /\ UNCHANGED <<owner, live, pending, mutation, faults>>
      BY <1>6 DEF Replaces
    <3>2. handler[p] \in MessageRecord /\ "activate" \in Points
      BY <1>1 DEF HostInv, HostTypes, Points
    <3>3. /\ handler' \in [Pages -> MessageRecord]
          /\ handler'[p].at = "activate" /\ handler'[p].job = j
          /\ \A q \in Pages : q # p => handler'[q] = handler[q]
      BY <1>1, <3>1, <3>2 DEF HostInv, HostTypes, MessageRecord
    <3>4. \A q \in Pages : q # p => handler'[q] = NoMessage
      BY <1>1, <3>1, <3>3 DEF HostInv, OneMessage, NoMessage
    <3>5. HostTypes'
      BY <1>1, <3>1, <3>3 DEF HostInv, HostTypes
    <3>6. OneMessage' /\ AboutJobs' /\ ChecksLast'
      BY <1>2, <3>1, <3>3, <3>4
      DEF OneMessage, AboutJobs, About, ChecksLast, Lasts, NoMessage
    <3>7. Reserved'
      BY <1>1, <3>1, <3>3 DEF HostInv, Reserved
    <3>8. QED BY <3>5, <3>6, <3>7 DEF HostInv
  <2>4. QED BY <2>2, <2>3 DEF SlotInv
<1>7. CASE Activates(p)
  <2>1. j \in Jobs /\ status[j] = "ready"
    BY <1>2, <1>7 DEF Activates
  <2>2. revision[j] = 1
    BY <1>1, <2>1 DEF StoreInv, PreflightsAreFresh
  <2>3. PICK gone : status' = [k \in Jobs |-> IF k = j THEN "analyzing"
                                               ELSE IF k \in gone THEN "deleted" ELSE status[k]]
    BY <1>7 DEF Activates
  <2>4. /\ revision' = [revision EXCEPT ![j] = @ + 1]
        /\ UNCHANGED <<owner, origin, expired, sessions>>
    BY <1>7 DEF Activates
  <2>5. revision' = [revision EXCEPT ![j] = 2]
    BY <1>1, <2>2, <2>4 DEF StoreInv, StoreTypes
  <2>6. \A k \in Jobs : status[k] \notin Started
    BY <1>7 DEF Activates, Active
  <2>7. \A k \in Jobs : /\ k = j => status'[k] = "analyzing"
                        /\ k # j => /\ status'[k] = status[k] \/ status'[k] = "deleted"
                                    /\ revision'[k] = revision[k]
    BY <1>1, <2>1, <2>3, <2>5 DEF StoreInv, StoreTypes
  <2>8. StoreTypes'
    <3>1. 2 \in 0..MaxRevision
      BY SlotAssumption DEF SlotAssumption
    <3>2. QED BY <1>1, <1>3, <2>3, <2>4, <2>5, <3>1 DEF StoreInv, StoreTypes
  <2>9. OneRun' /\ PreflightsAreFresh' /\ OwnersHaveSessions'
    BY <1>1, <1>3, <2>1, <2>4, <2>6, <2>7
    DEF StoreInv, OneRun, PreflightsAreFresh, OwnersHaveSessions
  <2>10. HostInv'
    BY <1>1, <1>7, MessageOver DEF Activates
  <2>11. QED BY <2>8, <2>9, <2>10 DEF SlotInv, StoreInv
<1>8. CASE ActivatesLate(p) \/ DismissesNow(p)
  <2>1. j \in Jobs /\ status' = [status EXCEPT ![j] = "deleted"]
        /\ UNCHANGED <<owner, origin, revision, expired, sessions>>
    BY <1>2, <1>8 DEF ActivatesLate, DismissesNow
  <2>2. status' = [k \in Jobs |-> IF k \in {j} THEN "deleted" ELSE status[k]]
    BY <1>1, <2>1 DEF StoreInv, StoreTypes
  <2>3. StoreInv'
    BY <1>1, <2>1, <2>2, DeletionsKeepStore
  <2>4. HostInv'
    BY <1>1, <1>8, MessageOver DEF ActivatesLate, DismissesNow
  <2>5. QED BY <2>3, <2>4 DEF SlotInv
<1>9. CASE TakesOver(p)
  <2>1. /\ j \in Jobs /\ status[j] \in Started /\ p \in sessions
        /\ Moves(j, status[j]) /\ owner' = [owner EXCEPT ![j] = p]
        /\ UNCHANGED <<origin, expired, sessions>>
    BY <1>2, <1>9 DEF TakesOver, Active, SessionExists
  <2>2. PICK k \in Jobs : k = j
    BY <2>1
  <2>3. PICK s \in Started : s = status[j]
    BY <2>1
  <2>4. StoreInv'
    BY <1>1, <2>1, <2>2, <2>3, MovesKeepStore
  <2>5. HostInv'
    BY <1>1, <1>9, MessageOver DEF TakesOver
  <2>6. QED BY <2>4, <2>5 DEF SlotInv
<1>10. CASE Stops(p) \/ Retries(p) \/ Reviews(p)
  <2>1. PICK k \in Jobs : k = j
    BY <1>2, <1>10 DEF Stops, Retries, Reviews
  <2>2. \E s \in Started \cup Terminal : status[k] \in Started /\ Moves(k, s)
    BY <1>3, <1>10, <2>1 DEF Stops, Cancels, Retries, Reviews
  <2>3. StoreInv'
    BY <1>1, <1>10, <2>2, MovesKeepStore DEF Stops, Retries, Reviews
  <2>4. HostInv'
    BY <1>1, <1>10, MessageOver DEF Stops, Retries, Reviews
  <2>5. QED BY <2>3, <2>4 DEF SlotInv
<1>11. QED
  BY <1>4, <1>5, <1>6, <1>7, <1>8, <1>9, <1>10 DEF Handling

(* Beside the messages: analysis moves its own run, the deletion of a        *)
(* conversation takes only its expired preflights along, and a crash leaves  *)
(* what is stored.                                                           *)
LEMMA BesideKeepsInv ==
  ASSUME SlotInv, Beside
  PROVE  SlotInv'
<1>1. /\ StoreInv /\ HostInv
      /\ mutation \in [job : Jobs \cup {NoJob}, revision : 0..MaxRevision, attempt : 0..3]
      /\ faults \in 0..MaxFaults
      /\ revision \in [Jobs -> 0..MaxRevision]
  BY DEF SlotInv, StoreInv, StoreTypes, HostInv, HostTypes
<1>2. /\ NoMutation \in [job : Jobs \cup {NoJob}, revision : 0..MaxRevision, attempt : 0..3]
      /\ NoMessage \in MessageRecord
  BY SlotAssumption DEF NoMutation, NoMessage, MessageRecord, Points, SlotAssumption
<1>3. /\ Analysed \subseteq Started /\ "analyzing" \in Started
      /\ {"review", "sealed"} \subseteq Started /\ {"cancelled", "completed"} \subseteq Terminal
  BY DEF Started, Analysed, Terminal
<1>4. Fault => faults' \in 0..MaxFaults
  BY <1>1, SlotAssumption DEF Fault, SlotAssumption
<1>5. ASSUME NEW k \in Jobs, Expires(k) PROVE SlotInv'
  <2>1. StoreInv'
    BY <1>1, <1>5
    DEF Expires, StoreInv, StoreTypes, OneRun, PreflightsAreFresh, OwnersHaveSessions
  <2>2. HostInv'
    BY <1>1, <1>5, BesideMessages DEF Expires, worker
  <2>3. QED BY <2>1, <2>2 DEF SlotInv
<1>6. ASSUME NEW k \in Jobs, MutationReads(k) PROVE SlotInv'
  <2>1. StoreInv'
    BY <1>1, <1>6, UntouchedStore DEF MutationReads
  <2>2. mutation' \in [job : Jobs \cup {NoJob}, revision : 0..MaxRevision, attempt : 0..3]
    BY <1>1, <1>6 DEF MutationReads
  <2>3. HostInv'
    BY <1>1, <1>6, <2>2, BesideMessages DEF MutationReads, jobs
  <2>4. QED BY <2>1, <2>3 DEF SlotInv
<1>7. ASSUME NEW k \in Jobs, RunGoesOn(k) PROVE SlotInv'
  <2>1. \E s \in Started \cup Terminal : status[k] \in Started /\ Moves(k, s)
    BY <1>3, <1>7 DEF RunGoesOn
  <2>2. StoreInv'
    BY <1>1, <1>7, <2>1, MovesKeepStore DEF RunGoesOn
  <2>3. HostInv'
    BY <1>1, <1>7, BesideMessages DEF RunGoesOn, worker
  <2>4. QED BY <2>2, <2>3 DEF SlotInv
<1>8. CASE Mutates
  <2>1. PICK k \in Jobs : k = mutation.job
    BY <1>1, <1>8 DEF Mutates
  <2>2. \E s \in Started \cup Terminal : status[k] \in Started /\ Moves(k, s)
    BY <1>3, <1>8, <2>1 DEF Mutates
  <2>3. StoreInv'
    BY <1>1, <1>8, <2>2, MovesKeepStore DEF Mutates
  <2>4. HostInv'
    BY <1>1, <1>2, <1>8, BesideMessages DEF Mutates
  <2>5. QED BY <2>3, <2>4 DEF SlotInv
<1>9. CASE MutationIsStale
  <2>1. PICK k \in Jobs : k = mutation.job
    BY <1>1, <1>9 DEF MutationIsStale
  <2>2. mutation' \in [job : Jobs \cup {NoJob}, revision : 0..MaxRevision, attempt : 0..3]
    <3>1. CASE mutation.attempt < 3
      <4>1. mutation' = [mutation EXCEPT !.revision = revision[k], !.attempt = @ + 1]
        BY <1>9, <2>1, <3>1 DEF MutationIsStale
      <4>2. mutation.attempt \in 0..3 /\ revision[k] \in 0..MaxRevision
        BY <1>1
      <4>3. mutation.attempt + 1 \in 0..3
        BY <3>1, <4>2
      <4>4. QED BY <1>1, <4>1, <4>2, <4>3
    <3>2. CASE ~ (mutation.attempt < 3)
      BY <1>2, <1>9, <3>2 DEF MutationIsStale
    <3>3. QED BY <3>1, <3>2
  <2>3. StoreInv'
    BY <1>1, <1>9, UntouchedStore DEF MutationIsStale
  <2>4. HostInv'
    BY <1>1, <1>9, <2>2, BesideMessages DEF MutationIsStale, jobs
  <2>5. QED BY <2>3, <2>4 DEF SlotInv
<1>10. CASE MutationEnds
  <2>1. StoreInv'
    BY <1>1, <1>10, UntouchedStore DEF MutationEnds
  <2>2. HostInv'
    BY <1>1, <1>2, <1>10, BesideMessages DEF MutationEnds, jobs
  <2>3. QED BY <2>1, <2>2 DEF SlotInv
<1>11. ASSUME NEW p \in Pages, PortBreaks(p) PROVE SlotInv'
  <2>1. StoreInv'
    BY <1>1, <1>11, UntouchedStore DEF PortBreaks
  <2>2. HostInv'
    BY <1>1, <1>4, <1>11, BesideMessages DEF PortBreaks, jobs, worker
  <2>3. QED BY <2>1, <2>2 DEF SlotInv
<1>12. ASSUME NEW p \in Pages, SessionDeleted(p) PROVE SlotInv'
  <2> DEFINE linked == {k \in Jobs : p \in {owner[k], origin[k]}
                                       /\ status[k] \in Started \cup {"ready"}}
  <2>1. /\ status' = [k \in Jobs |-> IF k \in linked THEN "deleted" ELSE status[k]]
        /\ sessions' = sessions \ {p}
        /\ UNCHANGED <<owner, origin, revision, expired, live, worker>>
        /\ Fault
    BY <1>12 DEF SessionDeleted
  <2>2. "deleted" \in Statuses /\ "deleted" \notin Started \cup {"ready"}
    BY DEF Statuses, Started, Analysed
  <2>3. StoreTypes' /\ OneRun' /\ PreflightsAreFresh'
    BY <1>1, <2>1, <2>2 DEF StoreInv, StoreTypes, OneRun, PreflightsAreFresh
  <2>4. ASSUME NEW k \in Jobs, status'[k] \in Started \cup {"ready"}
        PROVE  {owner'[k], origin'[k]} \subseteq sessions'
    <3>1. k \notin linked /\ status[k] \in Started \cup {"ready"}
      BY <2>1, <2>2, <2>4
    <3>2. QED BY <1>1, <2>1, <3>1 DEF StoreInv, OwnersHaveSessions
  <2>5. HostInv'
    BY <1>1, <1>4, <2>1, BesideMessages DEF worker
  <2>6. QED BY <2>3, <2>4, <2>5 DEF SlotInv, StoreInv, OwnersHaveSessions
<1>13. CASE Crash
  <2>1. StoreInv'
    BY <1>1, <1>13, UntouchedStore DEF Crash
  <2>2. HostTypes'
    BY <1>2, <1>4, <1>13 DEF Crash, HostTypes
  <2>3. OneMessage' /\ AboutJobs' /\ Reserved' /\ ChecksLast'
    BY <1>13 DEF Crash, OneMessage, AboutJobs, About, Reserved, ChecksLast, Lasts, NoMessage
  <2>4. QED BY <2>1, <2>2, <2>3 DEF SlotInv, HostInv
<1>14. QED
  BY <1>5, <1>6, <1>7, <1>8, <1>9, <1>10, <1>11, <1>12, <1>13 DEF Beside

(* Every step, and none, keeps the invariant. *)
LEMMA SlotInvStep == SlotInv /\ [Next]_vars => SlotInv'
<1>1. SUFFICES ASSUME SlotInv, [Next]_vars PROVE SlotInv'
  OBVIOUS
<1>2. CASE UNCHANGED vars
  BY <1>1, <1>2
  DEF vars, SlotInv, StoreInv, StoreTypes, OneRun, PreflightsAreFresh, OwnersHaveSessions,
      HostInv, HostTypes, OneMessage, AboutJobs, About, Reserved, ChecksLast, Lasts
<1>3. QED
  BY <1>1, <1>2, MessagesKeepInv, HandlingKeepsInv, BesideKeepsInv DEF Next

-----------------------------------------------------------------------------
(* The queue of messages, and what the checks of the message in hand found,  *)
(* hold throughout: organizeJobRunMutationTail serializes the ports.         *)
THEOREM SlotInvariant == Spec => []SlotInv
BY SlotInitInv, SlotInvStep, PTL DEF Spec

(* The store never holds two started jobs, and a reservation of the slot     *)
(* belongs to a start in hand (startBgsmOrganizeJob's finally block).        *)
THEOREM SlotTypeCorrect == Spec => []SlotTypeOK
<1>1. SlotInv => SlotTypeOK
  <2>1. SUFFICES ASSUME SlotInv PROVE SlotTypeOK
    OBVIOUS
  <2>2. \A j, k \in Jobs : {status[j], status[k]} \subseteq Started => j = k
    BY <2>1 DEF SlotInv, StoreInv, OneRun
  <2>3. QED
    BY <2>1, <2>2
    DEF SlotInv, StoreInv, StoreTypes, HostInv, HostTypes, MessageRecord, Reserved, SlotTypeOK
<1>2. QED BY <1>1, SlotInvariant, PTL

(* A run and a preflight keep the conversations they are linked to: a        *)
(* takeover finds its own stored (takeControlOrganizeJob), and               *)
(* deleteAgentSession stops at a linked job.                                 *)
THEOREM RunsHaveSessions == Spec => []OwnersHaveSessions
<1>1. SlotInv => OwnersHaveSessions
  BY DEF SlotInv, StoreInv
<1>2. QED BY <1>1, SlotInvariant, PTL

(* No step gives a run away from a connected owner, and the transaction of a *)
(* command finds its page still the owner, although neither                  *)
(* requireOrganizeOwnerMutation nor the takeover's check is repeated there.  *)
THEOREM OwnerCommands == Spec => OnlyTheOwnerCommands
<1> DEFINE Handover == \A j \in Jobs :
             status[j] \in Started /\ owner'[j] # owner[j] => owner[j] \notin live
           Command == \A p \in Pages :
             /\ handler[p].at \in {"stop", "retry", "select", "seal", "replace"}
             /\ handler'[p] # handler[p]
             => \A j \in Jobs : revision'[j] # revision[j] =>
                  owner[j] = p /\ (handler[p].at = "replace" => j # handler[p].job)
<1>1. SlotInv /\ [Next]_vars => Handover /\ Command
  <2>1. SUFFICES ASSUME SlotInv, [Next]_vars PROVE Handover /\ Command
    OBVIOUS
  <2>2. /\ owner \in [Jobs -> Pages \cup {NoPage}] /\ status \in [Jobs -> Statuses]
        /\ revision \in [Jobs -> 0..MaxRevision] /\ handler \in [Pages -> MessageRecord]
        /\ OneMessage /\ AboutJobs /\ ChecksLast
    BY <2>1 DEF SlotInv, StoreInv, StoreTypes, HostInv, HostTypes
  <2>3. ASSUME owner' = owner, revision' = revision \/ handler' = handler
        PROVE  Handover /\ Command
    BY <2>3
  <2>4. CASE UNCHANGED vars
    BY <2>3, <2>4 DEF vars, jobs
  <2>5. CASE Beside
    BY <2>3, <2>5
    DEF Beside, Expires, MutationReads, RunGoesOn, Mutates, MutationIsStale, MutationEnds,
        PortBreaks, SessionDeleted, Crash, jobs, worker
  <2>6. ASSUME NEW p \in Pages, Message(p) PROVE Handover /\ Command
    BY <2>3, <2>6
    DEF Message, Connects, Leaves, Requests, CancelsPreflight, Starts, TakesControl,
        Dismisses, Commanded, jobs
  <2>7. ASSUME NEW p \in Pages, Handling(p) PROVE Handover /\ Command
    <3> DEFINE j == handler[p].job
    <3>1. handler[p].at # "idle"
      BY <2>7
      DEF Handling, Freezes, FreezeFails, Replaces, Activates, ActivatesLate,
          ActivatesNothing, StartThrows, TakesOver, Stops, Retries, Reviews, DismissesNow, Refused
    <3>2. \A q \in Pages : q # p => handler[q].at = "idle"
      BY <2>2, <3>1 DEF OneMessage, NoMessage
    <3>3. j \in Jobs /\ Lasts(handler[p], p)
      BY <2>2, <3>1 DEF AboutJobs, About, ChecksLast, NoMessage
    <3>4. CASE Freezes(p)
      <4>1. status[j] = "unused" /\ owner' = [owner EXCEPT ![j] = p]
            /\ handler[p].at = "freeze"
        BY <3>4 DEF Freezes
      <4>2. Handover
        BY <2>2, <4>1 DEF Started, Analysed
      <4>3. Command
        BY <3>2, <4>1
      <4>4. QED BY <4>2, <4>3
    <3>5. CASE FreezeFails(p) \/ ActivatesLate(p) \/ ActivatesNothing(p) \/ StartThrows(p)
                 \/ DismissesNow(p) \/ Refused(p)
      BY <2>3, <3>5 DEF FreezeFails, ActivatesLate, ActivatesNothing, StartThrows, DismissesNow, Refused, jobs
    <3>6. CASE Activates(p)
      BY <3>2, <3>6 DEF Activates
    <3>7. CASE TakesOver(p)
      <4>1. owner' = [owner EXCEPT ![j] = p] /\ handler[p].at = "takeover"
        BY <3>7 DEF TakesOver
      <4>2. owner[j] \notin live
        BY <3>3, <4>1 DEF Lasts
      <4>3. Handover
        BY <2>2, <4>1, <4>2
      <4>4. Command
        BY <3>2, <4>1
      <4>5. QED BY <4>3, <4>4
    <3>8. CASE Replaces(p)
      <4>1. /\ owner' = owner /\ handler[p].at = "replace"
            /\ revision' = [revision EXCEPT ![handler[p].other] = @ + 1]
        BY <3>8 DEF Replaces, Cancels, Moves
      <4>2. \A k \in Jobs : revision'[k] # revision[k] => k = handler[p].other
        BY <2>2, <4>1
      <4>3. QED BY <3>2, <3>3, <4>1, <4>2 DEF Lasts
    <3>9. CASE Stops(p) \/ Retries(p) \/ Reviews(p)
      <4>1. /\ owner' = owner /\ handler[p].at \in {"stop", "retry", "select", "seal"}
            /\ revision' = [revision EXCEPT ![j] = @ + 1]
        BY <3>9 DEF Stops, Cancels, Retries, Reviews, Moves
      <4>2. \A k \in Jobs : revision'[k] # revision[k] => k = j
        BY <2>2, <4>1
      <4>3. QED BY <3>2, <3>3, <4>1, <4>2 DEF Lasts
    <3>10. QED
      BY <2>7, <3>4, <3>5, <3>6, <3>7, <3>8, <3>9 DEF Handling
  <2>8. QED BY <2>1, <2>4, <2>5, <2>6, <2>7 DEF Next
<1>2. QED BY <1>1, SlotInvariant, PTL DEF Spec, OnlyTheOwnerCommands
=============================================================================
