-------------------------- MODULE AnalyticsExport --------------------------
(***************************************************************************)
(* The analytics of one room id: events are collected in Redis under keys  *)
(* that carry the room id and no sid, and 50 seconds after a session ended *)
(* PrepareToExportAnalytics turns them into an artifact of that session    *)
(* and deletes them, under the room lock.                                  *)
(*                                                                         *)
(* The sessions themselves come and go as RoomSession says, with the room  *)
(* lock held while one is created and from the announcement of its end to  *)
(* the deletion of its bucket.  The exporter of session s is the goroutine *)
(* the cleanup of s scheduled.                                             *)
(***************************************************************************)
EXTENDS Naturals, FiniteSets

CONSTANTS
    Sid,         \* sessions
    Key,         \* Redis keys of the room's analytics, one per kind of event
    Analysed,    \* the sessions whose room features enable analytics
    Free, Room,  \* the lock is nobody's; it is CreateRoom's or EndRoom's
    MaxMishaps   \* bound: exporters that die with their replica, lock TTLs (60s)
                 \* that run out under an exporter, and its failed NATS reads

VARIABLES
    phase,      \* of each session, as in RoomSession
    lock,       \* roomCreationLock-<roomId>: Free, Room or an exporter
    records,    \* what Redis holds: the events, with the session they are of
    pc,         \* the next call of each exporter
    my,         \* its local variables
    happened,   \* history: the events that were recorded so far
    artifact,   \* the events in the artifact of each session
    spent       \* the mishaps of each kind

vars == <<phase, lock, records, happened, pc, my, artifact, spent>>

Session == INSTANCE RoomSession WITH Sid <- Sid, phase <- phase

Record == [sid : Sid, key : Key]
Present == {r.key : r \in records}
Open == {s \in Sid : phase[s] \in {"open", "announced"}}
Mishaps == spent.crashes + spent.expiries + spent.failures
NoLocals == [listed |-> {}, unread |-> {}, taken |-> {}]
Locked == {"check", "scan", "read", "delete", "store", "unlock"}

Init ==
    /\ Session!Init
    /\ lock = Free
    /\ records = {} /\ happened = {}
    /\ pc = [s \in Sid |-> "none"]
    /\ my = [s \in Sid |-> NoLocals]
    /\ artifact = [s \in Sid |-> {}]
    /\ spent = [crashes |-> 0, expiries |-> 0, failures |-> 0]

-----------------------------------------------------------------------------
(* The room.                                                               *)

CreateRoom(s) ==
    /\ lock = Free
    /\ Session!Open(s)
    /\ UNCHANGED <<lock, records, happened, pc, my, artifact, spent>>

EndRoom(s) ==
    /\ lock = Free
    /\ lock' = Room
    /\ Session!Announce(s)
    /\ UNCHANGED <<records, happened, pc, my, artifact, spent>>

(* The end of onAfterRoomEnded: the export is scheduled, the lock released.*)
AfterRoomEnded(s) ==
    /\ Session!Close(s)
    /\ pc' = [pc EXCEPT ![s] = "timer"]
    /\ lock' = Free
    /\ UNCHANGED <<records, happened, my, artifact, spent>>

(* HandleEvent: something happens in the session, or a handler was late.   *)
(* Bound: one event of each kind per session.                              *)
HandleEvent(s, k) ==
    /\ phase[s] # "fresh"
    /\ [sid |-> s, key |-> k] \notin happened
    /\ happened' = happened \cup {[sid |-> s, key |-> k]}
    /\ records' = records \cup {[sid |-> s, key |-> k]}
    /\ UNCHANGED <<phase, lock, pc, my, artifact, spent>>

-----------------------------------------------------------------------------
(* PrepareToExportAnalytics.                                               *)

Goto(s, step) == pc' = [pc EXCEPT ![s] = step]

(* acquireRoomCreationLockWithRetry: 15 seconds of retries, then an error. *)
AcquireLock(s) ==
    /\ pc[s] = "timer"
    /\ \/ lock = Free /\ lock' = s /\ Goto(s, "check")
       \/ lock # Free /\ Goto(s, "done") /\ UNCHANGED lock
    /\ UNCHANGED <<phase, records, happened, my, artifact, spent>>

(* Variant with a bug: the live session is not looked at.                  *)
CheckNothing(s) ==
    /\ pc[s] = "check"
    /\ Goto(s, "scan")
    /\ UNCHANGED <<phase, lock, records, happened, my, artifact, spent>>

(* GetRoomInfo and GetRoomInfoBySid: another session in NATS, or no row,   *)
(* ends the export; a NATS error does not.                                 *)
CheckSession(s) ==
    /\ pc[s] = "check"
    /\ \/ Open \subseteq {s} /\ Goto(s, "scan") /\ UNCHANGED spent
       \/ Goto(s, "unlock") /\ UNCHANGED spent
       \/ /\ Mishaps < MaxMishaps
          /\ spent' = [spent EXCEPT !.failures = @ + 1]
          /\ Goto(s, "scan")
    /\ UNCHANGED <<phase, lock, records, happened, my, artifact>>

ScanKeys(s) ==
    /\ pc[s] = "scan"
    /\ Goto(s, IF Present = {} THEN "delete" ELSE "read")
    /\ my' = [my EXCEPT ![s] = [NoLocals EXCEPT !.listed = Present,
                                                !.unread = Present]]
    /\ UNCHANGED <<phase, lock, records, happened, artifact, spent>>

ReadKey(s) ==
    /\ pc[s] = "read"
    /\ \E k \in my[s].unread :
         /\ my' = [my EXCEPT ![s].unread = @ \ {k},
                             ![s].taken = @ \cup {r \in records : r.key = k}]
         /\ Goto(s, IF my[s].unread = {k} THEN "delete" ELSE "read")
    /\ UNCHANGED <<phase, lock, records, happened, artifact, spent>>

(* Variant with a bug: one key is not in the list that is deleted.         *)
DeleteSomeKeys(s) ==
    /\ pc[s] = "delete"
    /\ \E k \in Key : records' = {r \in records : r.key \notin my[s].listed \ {k}}
    /\ Goto(s, IF s \in Analysed THEN "store" ELSE "unlock")
    /\ UNCHANGED <<phase, lock, happened, my, artifact, spent>>

(* AnalyticsDeleteKeys, or its failure, after which nothing is stored.     *)
DeleteKeys(s) ==
    /\ pc[s] = "delete"
    /\ \/ /\ records' = {r \in records : r.key \notin my[s].listed}
          /\ Goto(s, IF s \in Analysed THEN "store" ELSE "unlock")
       \/ Goto(s, "unlock") /\ UNCHANGED records
    /\ UNCHANGED <<phase, lock, happened, my, artifact, spent>>

(* Variant with a bug: the names of the keys are stored, not the events.   *)
StoreKeyNames(s) ==
    /\ pc[s] = "store"
    /\ artifact' \in {artifact, [artifact EXCEPT ![s] = my[s].listed]}
    /\ Goto(s, "unlock")
    /\ UNCHANGED <<phase, lock, records, happened, my, spent>>

(* CreateAnalyticsArtifact, which may fail.                                *)
StoreArtifact(s) ==
    /\ pc[s] = "store"
    /\ artifact' \in {artifact, [artifact EXCEPT ![s] = my[s].taken]}
    /\ Goto(s, "unlock")
    /\ UNCHANGED <<phase, lock, records, happened, my, spent>>

(* Variant with a bug: the lock is released on the way that exports only.  *)
UnlockAfterExport(s) ==
    /\ pc[s] = "unlock"
    /\ lock' = IF lock = s /\ my[s] # NoLocals THEN Free ELSE lock
    /\ Goto(s, "done")
    /\ my' = [my EXCEPT ![s] = NoLocals]
    /\ UNCHANGED <<phase, records, happened, artifact, spent>>

Unlock(s) ==
    /\ pc[s] = "unlock"
    /\ lock' = IF lock = s THEN Free ELSE lock
    /\ Goto(s, "done")
    /\ my' = [my EXCEPT ![s] = NoLocals]
    /\ UNCHANGED <<phase, records, happened, artifact, spent>>

-----------------------------------------------------------------------------
(* The replica dies: the timer is in memory and the lock stays to its TTL. *)
Crash(s) ==
    /\ pc[s] \notin {"none", "done", "dead"}
    /\ Mishaps < MaxMishaps
    /\ spent' = [spent EXCEPT !.crashes = @ + 1]
    /\ Goto(s, "dead")
    /\ my' = [my EXCEPT ![s] = NoLocals]
    /\ UNCHANGED <<phase, lock, records, happened, artifact>>

LockExpires ==
    /\ lock \in Sid
    /\ lock' = Free
    /\ \/ pc[lock] = "dead" /\ UNCHANGED spent
       \/ /\ pc[lock] # "dead" /\ Mishaps < MaxMishaps
          /\ spent' = [spent EXCEPT !.expiries = @ + 1]
    /\ UNCHANGED <<phase, records, happened, pc, my, artifact>>

Export(s) ==
    \/ AcquireLock(s) \/ CheckSession(s) \/ ScanKeys(s) \/ ReadKey(s)
    \/ DeleteKeys(s) \/ StoreArtifact(s) \/ Unlock(s)

Next ==
    \/ \E s \in Sid : CreateRoom(s) \/ EndRoom(s) \/ AfterRoomEnded(s)
    \/ \E s \in Sid, k \in Key : HandleEvent(s, k)
    \/ \E s \in Sid : Export(s) \/ Crash(s)
    \/ LockExpires

Spec == Init /\ [][Next]_vars

(* A scheduled goroutine goes on, and Redis drops the lock of a dead one.  *)
DeadLockExpires == lock \in Sid /\ pc[lock] = "dead" /\ LockExpires
Fairness ==
    /\ \A s \in Sid : WF_vars(Export(s))
    /\ WF_vars(DeadLockExpires)

FairSpec == Spec /\ Fairness

-----------------------------------------------------------------------------
(* Properties.                                                             *)

(* Every variable keeps its shape.                                         *)
ExportTypeOK ==
    /\ phase \in [Sid -> {"fresh", "open", "announced", "closed"}]
    /\ lock \in Sid \cup {Free, Room}
    /\ records \subseteq happened /\ happened \subseteq Record
    /\ pc \in [Sid -> {"none", "timer", "done", "dead"} \cup Locked]
    /\ my \in [Sid -> [listed : SUBSET Key, unread : SUBSET Key, taken : SUBSET Record]]
    /\ artifact \in [Sid -> SUBSET Record]
    /\ spent \in [crashes : Nat, expiries : Nat, failures : Nat]

(* An export never deletes what the session that runs now has recorded,    *)
(* although both use the keys of the room id: the room lock keeps the      *)
(* check against NATS true to the end (analytics_export.go:47-72).         *)
SparesOpenSession ==
    spent.expiries = 0 /\ spent.failures = 0 =>
        \A r \in records : r.sid \in Open => r \in records'
ExportSparesOpenSession == [][SparesOpenSession]_vars

(* No event is in the artifacts of two sessions: whichever exporters run,  *)
(* die or fail, what one has stored is no longer there for the next.       *)
NoEventTwice ==
    spent.expiries = 0 =>
      \A s, t \in Sid : s # t => artifact[s] \cap artifact[t] = {}

(* What these two rest on.  The room lock is held from the announcement of *)
(* a session's end; an exporter comes after its session; and as long as no *)
(* TTL runs out under it, it holds the lock to the end, ...                *)
SessionsHoldLock ==
    /\ \A s \in Sid : phase[s] = "announced" => lock = Room
    /\ \A s, t \in Sid : phase[s] = "announced" /\ phase[t] = "announced" => s = t

ExportersComeLater == \A s \in Sid : pc[s] # "none" => phase[s] = "closed"

ExportersHoldLock == \A s \in Sid : pc[s] \in Locked => lock = s

(* ... so that what was checked stays true: no session runs, ...           *)
CheckHolds == \A s \in Sid : pc[s] \in {"scan", "read", "delete"} => Open = {}

(* ... and an event that is stored or about to be is in Redis no more.     *)
EventsAreSpent ==
    /\ \A s \in Sid : artifact[s] \subseteq happened /\ my[s].taken \subseteq happened
    /\ \A s \in Sid : artifact[s] \cap records = {}
    /\ \A s, t \in Sid :
          s # t => /\ artifact[s] \cap artifact[t] = {}
                   /\ pc[s] \in {"read", "delete", "store"} =>
                        my[s].taken \cap artifact[t] = {}
    /\ \A s \in Sid :
          /\ pc[s] = "store" => my[s].taken \cap records = {}
          /\ pc[s] \in {"read", "delete"} =>
               /\ my[s].unread \subseteq my[s].listed
               /\ \A r \in my[s].taken : r.key \in my[s].listed

ExportInvariant ==
    /\ ExportTypeOK /\ SessionsHoldLock /\ ExportersComeLater
    /\ spent.expiries = 0 => ExportersHoldLock /\ EventsAreSpent
    /\ spent.expiries = 0 /\ spent.failures = 0 => CheckHolds

(* Every scheduled export comes to an end, and gives the lock back.        *)
Scheduled(s) == pc[s] = "timer"
Ended(s) == pc[s] \in {"none", "done", "dead"} /\ lock # s
ExportsEnd == \A s \in Sid : Scheduled(s) ~> Ended(s)

(* Refuted: an export deletes the records of its own session only          *)
(* (analytics_export.go:66-67: "We must stop here, as the process would    *)
(* delete all records, since data is keyed by roomId instead of SID").     *)
DeletesOnlyItsOwn ==
    [][ \A s \in Sid : DeleteKeys(s) =>
          \A r \in records \ records' : r.sid = s ]_vars
=============================================================================
