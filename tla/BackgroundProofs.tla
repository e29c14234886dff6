-------------------------- MODULE BackgroundProofs --------------------------
(***************************************************************************)
(* What goes on in the background of a room keeps its promises, for every  *)
(* set of servers, users, sessions and keys, and whatever the bounds are.  *)
(* Each component has an invariant that its steps keep; the steps of the   *)
(* others do not touch it, as a behaviour follows one component.           *)
(***************************************************************************)
EXTENDS MCBackground, Sequences, FiniteSetTheorems, TLAPS

-----------------------------------------------------------------------------
(* The export of analytics: c1 is the sessions, c2 the lock, c3 the        *)
(* records, c4 and c5 the exporters, c6 the history, c7 the artifacts, c8  *)
(* the mishaps.                                                            *)

LEMMA ExportStart == E!Init => E!ExportInvariant
  BY LockAssumption
  DEF E!Init, E!Session!Init, E!ExportInvariant, E!ExportTypeOK, E!NoLocals, E!Record,
      E!SessionsHoldLock, E!ExportersComeLater, E!ExportersHoldLock, E!CheckHolds,
      E!EventsAreSpent, E!Locked

(* What an exporter knows after a scan, and after a key it has read.       *)
LEMMA ExportScans ==
  ASSUME E!ExportTypeOK, NEW s \in Sids, E!ScanKeys(s)
  PROVE  /\ c5' \in [Sids -> [listed : SUBSET Key, unread : SUBSET Key, taken : SUBSET E!Record]]
         /\ c5'[s].listed = E!Present /\ c5'[s].unread = E!Present /\ c5'[s].taken = {}
         /\ \A t \in Sids : t # s => c5'[t] = c5[t]
<1> USE DEF E!ExportTypeOK
<1>1. E!Present \in SUBSET Key
  BY DEF E!Present, E!Record
<1> DEFINE l == E!NoLocals
           P == E!Present
           new == [l EXCEPT !.listed = P, !.unread = P]
<1>2. c5' = [c5 EXCEPT ![s] = new]
  BY DEF E!ScanKeys
<1>3. l \in [listed : SUBSET Key, unread : SUBSET Key, taken : SUBSET E!Record] /\ l.taken = {}
  BY DEF E!NoLocals
<1> HIDE DEF l, P
<1>4. /\ new \in [listed : SUBSET Key, unread : SUBSET Key, taken : SUBSET E!Record]
      /\ new.listed = P /\ new.unread = P /\ new.taken = {}
  BY <1>1, <1>3 DEF P
<1> HIDE DEF new
<1> QED
  BY <1>2, <1>4 DEF P

LEMMA ExportReads ==
  ASSUME E!ExportTypeOK, NEW s \in Sids, E!ReadKey(s)
  PROVE  /\ c5' \in [Sids -> [listed : SUBSET Key, unread : SUBSET Key, taken : SUBSET E!Record]]
         /\ \E k \in c5[s].unread :
              /\ c5'[s].listed = c5[s].listed /\ c5'[s].unread = c5[s].unread \ {k}
              /\ c5'[s].taken = c5[s].taken \cup {r \in c3 : r.key = k}
              /\ E!Goto(s, IF c5[s].unread = {k} THEN "delete" ELSE "read")
         /\ \A t \in Sids : t # s => c5'[t] = c5[t]
<1> USE DEF E!ExportTypeOK
<1>1. PICK k \in c5[s].unread :
         /\ c5' = [c5 EXCEPT ![s] = [c5[s] EXCEPT !.unread = c5[s].unread \ {k},
                                     !.taken = c5[s].taken \cup {r \in c3 : r.key = k}]]
         /\ E!Goto(s, IF c5[s].unread = {k} THEN "delete" ELSE "read")
  BY DEF E!ReadKey
<1> DEFINE l == c5[s]
           U == l.unread \ {k}
           T == l.taken \cup {r \in c3 : r.key = k}
           new == [l EXCEPT !.unread = U, !.taken = T]
<1>2. l \in [listed : SUBSET Key, unread : SUBSET Key, taken : SUBSET E!Record]
  OBVIOUS
<1>3. U \in SUBSET Key /\ T \in SUBSET E!Record
  BY <1>2
<1>4. c5' = [c5 EXCEPT ![s] = new]
  BY <1>1
<1> HIDE DEF l, U, T
<1>5. /\ new \in [listed : SUBSET Key, unread : SUBSET Key, taken : SUBSET E!Record]
      /\ new.listed = l.listed /\ new.unread = U /\ new.taken = T
  BY <1>2, <1>3
<1> HIDE DEF new
<1>6. /\ c5' \in [Sids -> [listed : SUBSET Key, unread : SUBSET Key, taken : SUBSET E!Record]]
      /\ c5'[s] = new /\ \A t \in Sids : t # s => c5'[t] = c5[t]
  BY <1>4, <1>5
<1> QED
  BY <1>1, <1>5, <1>6 DEF l, U, T

LEMMA ExportTypes ==
  ASSUME E!ExportInvariant, E!Next
  PROVE  E!ExportTypeOK'
<1> USE DEF E!ExportInvariant, E!ExportTypeOK, E!Locked
<1>1. ASSUME NEW s \in Sids, E!CreateRoom(s) \/ E!EndRoom(s) \/ E!AfterRoomEnded(s)
      PROVE  E!ExportTypeOK'
  BY <1>1 DEF E!CreateRoom, E!EndRoom, E!AfterRoomEnded, E!Session!Open, E!Session!Announce,
              E!Session!Close
<1>2. ASSUME NEW s \in Sids, NEW k \in Key, E!HandleEvent(s, k)
      PROVE  E!ExportTypeOK'
  BY <1>2 DEF E!HandleEvent, E!Record
<1>3. ASSUME NEW s \in Sids, E!AcquireLock(s) \/ E!CheckSession(s)
      PROVE  E!ExportTypeOK'
  <2>1. CASE E!AcquireLock(s)
    BY <2>1 DEF E!AcquireLock, E!Goto
  <2>2. CASE E!CheckSession(s)
    <3>1. c8' \in [crashes : Nat, expiries : Nat, failures : Nat]
      BY <2>2 DEF E!CheckSession
    <3>2. c4' \in [Sids -> {"none", "timer", "done", "dead"} \cup E!Locked]
      BY <2>2 DEF E!CheckSession, E!Goto
    <3> QED
      BY <2>2, <3>1, <3>2 DEF E!CheckSession
  <2> QED
    BY <1>3, <2>1, <2>2
<1>4. ASSUME NEW s \in Sids, E!ScanKeys(s)
      PROVE  E!ExportTypeOK'
  <2>1. c4' \in [Sids -> {"none", "timer", "done", "dead"} \cup E!Locked]
    BY <1>4 DEF E!ScanKeys, E!Goto
  <2> QED
    BY <1>4, <2>1, ExportScans DEF E!ScanKeys
<1>5. ASSUME NEW s \in Sids, E!ReadKey(s)
      PROVE  E!ExportTypeOK'
  <2>1. c4' \in [Sids -> {"none", "timer", "done", "dead"} \cup E!Locked]
    BY <1>5 DEF E!ReadKey, E!Goto
  <2> QED
    BY <1>5, <2>1, ExportReads DEF E!ReadKey
<1>6. ASSUME NEW s \in Sids, E!DeleteKeys(s) \/ E!StoreArtifact(s)
      PROVE  E!ExportTypeOK'
  BY <1>6 DEF E!DeleteKeys, E!StoreArtifact, E!Goto
<1>7. ASSUME NEW s \in Sids, E!Unlock(s) \/ E!Crash(s)
      PROVE  E!ExportTypeOK'
  BY <1>7 DEF E!Unlock, E!Crash, E!Goto, E!NoLocals
<1>8. ASSUME E!LockExpires
      PROVE  E!ExportTypeOK'
  BY <1>8 DEF E!LockExpires
<1> QED
  BY <1>1, <1>2, <1>3, <1>4, <1>5, <1>6, <1>7, <1>8 DEF E!Next, E!Export

LEMMA ExportGoes ==
  ASSUME E!ExportTypeOK, NEW s \in Sids, NEW step, E!Goto(s, step)
  PROVE  c4'[s] = step /\ \A t \in Sids : t # s => c4'[t] = c4[t]
BY DEF E!ExportTypeOK, E!Goto

(* Mishaps are never undone.                                               *)
LEMMA ExportMishaps ==
  ASSUME E!ExportTypeOK, E!Next
  PROVE  /\ c8'.expiries = 0 => c8.expiries = 0
         /\ c8'.failures = 0 => c8.failures = 0
<1> USE DEF E!ExportTypeOK
<1>1. ASSUME NEW s \in Sids, E!CheckSession(s)
      PROVE  c8'.expiries = c8.expiries /\ (c8' = c8 \/ c8'.failures = c8.failures + 1)
  BY <1>1 DEF E!CheckSession
<1>2. ASSUME NEW s \in Sids, E!Crash(s)
      PROVE  c8'.expiries = c8.expiries /\ c8'.failures = c8.failures
  BY <1>2 DEF E!Crash
<1>3. ASSUME E!LockExpires
      PROVE  (c8' = c8 \/ c8'.expiries = c8.expiries + 1) /\ c8'.failures = c8.failures
  BY <1>3 DEF E!LockExpires
<1>4. CASE c8' = c8
  BY <1>4
<1>5. CASE c8' # c8
  <2>1. E!LockExpires \/ \E s \in Sids : E!CheckSession(s) \/ E!Crash(s)
    BY <1>5 DEF E!Next, E!Export, E!CreateRoom, E!EndRoom, E!AfterRoomEnded, E!HandleEvent,
                E!AcquireLock, E!ScanKeys, E!ReadKey, E!DeleteKeys, E!StoreArtifact, E!Unlock
  <2>2. c8.expiries \in Nat /\ c8.failures \in Nat
    OBVIOUS
  <2> QED
    BY <1>1, <1>2, <1>3, <2>1, <2>2
<1> QED
  BY <1>4, <1>5

(* The room lock is with the session that ends, or with the exporter.      *)
LEMMA ExportLocks ==
  ASSUME E!ExportInvariant, E!Next
  PROVE  /\ E!SessionsHoldLock' /\ E!ExportersComeLater'
         /\ c8'.expiries = 0 => E!ExportersHoldLock'
         /\ c8'.expiries = 0 /\ c8'.failures = 0 => E!CheckHolds'
<1> DEFINE After == /\ E!SessionsHoldLock' /\ E!ExportersComeLater'
                    /\ c8.expiries = 0 => E!ExportersHoldLock'
                    /\ c8.expiries = 0 /\ c8'.failures = 0 => E!CheckHolds'
<1> USE DEF E!ExportInvariant, E!SessionsHoldLock, E!ExportersComeLater, E!ExportersHoldLock,
            E!CheckHolds, E!Locked
<1>1. /\ c1 \in [Sids -> {"fresh", "open", "announced", "closed"}]
      /\ c2 \in Sids \cup {None, "room"}
      /\ c4 \in [Sids -> {"none", "timer", "done", "dead"} \cup E!Locked]
      /\ c8.failures \in Nat
  BY DEF E!ExportTypeOK
<1>2. c8'.failures = 0 => c8.failures = 0
  BY ExportMishaps
<1>3. ASSUME NEW s \in Sids, E!CreateRoom(s)
      PROVE  After
  <2>1. c2 = None /\ c1' = [c1 EXCEPT ![s] = "open"] /\ c1[s] = "fresh" /\ UNCHANGED <<c2, c4, c8>>
    BY <1>3 DEF E!CreateRoom, E!Session!Open
  <2>2. c8.expiries = 0 => \A t \in Sids : c4[t] \notin E!Locked
    BY <2>1, LockAssumption
  <2> QED
    BY <1>1, <1>2, <2>1, <2>2
<1>4. ASSUME NEW s \in Sids, E!EndRoom(s)
      PROVE  After
  <2>1. /\ c2 = None /\ c2' = "room" /\ c1' = [c1 EXCEPT ![s] = "announced"] /\ c1[s] = "open"
        /\ UNCHANGED <<c4, c8>>
    BY <1>4 DEF E!EndRoom, E!Session!Announce
  <2>2. c8.expiries = 0 => \A t \in Sids : c4[t] \notin E!Locked
    BY <2>1, LockAssumption
  <2>3. \A t \in Sids : c1[t] # "announced"
    BY <2>1, LockAssumption
  <2> QED
    BY <1>1, <1>2, <2>1, <2>2, <2>3
<1>5. ASSUME NEW s \in Sids, E!AfterRoomEnded(s)
      PROVE  After
  <2>1. /\ c2' = None /\ c1' = [c1 EXCEPT ![s] = "closed"] /\ c1[s] = "announced"
        /\ c4' = [c4 EXCEPT ![s] = "timer"] /\ UNCHANGED c8
    BY <1>5 DEF E!AfterRoomEnded, E!Session!Close
  <2>2. c8.expiries = 0 => \A t \in Sids : c4[t] \notin E!Locked
    BY <2>1, LockAssumption
  <2>3. \A t \in Sids : t # s => c1[t] # "announced"
    BY <2>1
  <2> QED
    BY <1>1, <1>2, <2>1, <2>2, <2>3
<1>6. ASSUME NEW s \in Sids, NEW k \in Key, E!HandleEvent(s, k)
      PROVE  After
  BY <1>2, <1>6 DEF E!HandleEvent, E!Open
<1>7. ASSUME NEW s \in Sids, E!Export(s) \/ E!Crash(s)
      PROVE  After
  <2>1. /\ c1' = c1 /\ c4[s] # "none"
        /\ c4' = [c4 EXCEPT ![s] = c4'[s]]
        /\ c2' = c2 \/ (c4[s] = "timer" /\ c2 = None /\ c2' = s)
                    \/ (c4[s] = "unlock" /\ c2 = s /\ c4'[s] = "done")
        /\ c4[s] = "timer" /\ c2' = c2 => c4'[s] \in {"done", "dead"}
        /\ c4[s] \in {"done", "dead"} => c4'[s] \in {"done", "dead"}
        /\ c4[s] = "timer" => c4'[s] \in {"check", "done", "dead"}
        /\ c4'[s] \in {"scan", "read", "delete"} /\ c8'.failures = 0 =>
             c4[s] \in {"scan", "read", "delete"} \/ E!Open \subseteq {s}
    <3> USE <1>1
    <3>1. CASE E!AcquireLock(s)
      <4>1. /\ c1' = c1 /\ c4[s] = "timer"
            /\ \/ c2 = None /\ c2' = s /\ c4' = [c4 EXCEPT ![s] = "check"]
               \/ c2' = c2 /\ c4' = [c4 EXCEPT ![s] = "done"]
        BY <3>1 DEF E!AcquireLock, E!Goto
      <4> QED
        BY <4>1, LockAssumption
    <3>5. CASE E!ScanKeys(s)
      <4>1. /\ c1' = c1 /\ c2' = c2 /\ c4[s] = "scan"
            /\ c4' = [c4 EXCEPT ![s] = "delete"] \/ c4' = [c4 EXCEPT ![s] = "read"]
        BY <3>5 DEF E!ScanKeys, E!Goto
      <4> QED
        BY <4>1
    <3>2. CASE E!CheckSession(s)
      <4>1. /\ c1' = c1 /\ c2' = c2 /\ c4[s] = "check"
            /\ \/ E!Open \subseteq {s} /\ E!Goto(s, "scan")
               \/ E!Goto(s, "unlock")
               \/ c8'.failures = c8.failures + 1 /\ E!Goto(s, "scan")
        BY <3>2 DEF E!CheckSession, E!ExportTypeOK
      <4> QED
        BY <4>1 DEF E!Goto
    <3>3. CASE E!ReadKey(s) \/ E!DeleteKeys(s) \/ E!StoreArtifact(s)
      BY <3>3 DEF E!ReadKey, E!DeleteKeys, E!StoreArtifact, E!Goto
    <3>4. CASE E!Unlock(s) \/ E!Crash(s)
      BY <3>4 DEF E!Unlock, E!Crash, E!Goto
    <3> QED
      BY <1>7, <3>1, <3>2, <3>3, <3>4, <3>5 DEF E!Export
  <2> HIDE DEF E!Export, E!Crash
  <2>2. E!SessionsHoldLock'
    BY <1>1, <2>1, LockAssumption
  <2>3. E!ExportersComeLater'
    BY <1>1, <2>1
  <2>4. c8.expiries = 0 => E!ExportersHoldLock'
    BY <1>1, <2>1, LockAssumption
  <2>5. c8.expiries = 0 /\ c8'.failures = 0 => E!CheckHolds'
    <3> SUFFICES ASSUME c8.expiries = 0, c8.failures = 0, c8'.failures = 0,
                        NEW t \in Sids, c4'[t] \in {"scan", "read", "delete"}
                 PROVE  E!Open = {}
      BY <1>2, <2>1 DEF E!Open
    <3>1. CASE c4[t] \in {"scan", "read", "delete"}
      BY <3>1
    <3>2. CASE c4[t] \notin {"scan", "read", "delete"}
      <4>1. t = s /\ E!Open \subseteq {s}
        BY <1>1, <2>1, <3>2
      <4>2. c1[s] = "closed"
        BY <2>1
      <4> QED
        BY <4>1, <4>2 DEF E!Open
    <3> QED
      BY <3>1, <3>2
  <2> QED
    BY <2>2, <2>3, <2>4, <2>5
<1>8. ASSUME E!LockExpires, c8'.expiries = 0 => c8.expiries = 0
      PROVE  \/ After
             \/ c8'.expiries # 0 /\ E!SessionsHoldLock' /\ E!ExportersComeLater'
  <2>1. UNCHANGED <<c1, c4>> /\ c2 \in Sids /\ c2' = None
        /\ (c4[c2] = "dead" \/ c8'.expiries # 0)
    BY <1>8 DEF E!LockExpires, E!ExportTypeOK
  <2>2. E!SessionsHoldLock' /\ E!ExportersComeLater'
    BY <2>1, LockAssumption
  <2>3. c4[c2] = "dead" /\ c8.expiries = 0 =>
          E!ExportersHoldLock' /\ (c8'.failures = 0 => E!CheckHolds')
    BY <1>2, <2>1 DEF E!Open
  <2> QED
    BY <2>1, <2>2, <2>3
<1> HIDE DEF E!SessionsHoldLock, E!ExportersComeLater, E!ExportersHoldLock, E!CheckHolds
<1>9. c8'.expiries = 0 => c8.expiries = 0
  BY ExportMishaps
<1>10. \/ After
       \/ c8'.expiries # 0 /\ E!SessionsHoldLock' /\ E!ExportersComeLater'
  BY <1>3, <1>4, <1>5, <1>6, <1>7, <1>8, <1>9 DEF E!Next
<1> QED
  BY <1>9, <1>10

(* An event that is stored, or about to be, is in Redis no more.           *)
LEMMA ExportSpends ==
  ASSUME E!ExportInvariant, E!Next, c8'.expiries = 0
  PROVE  E!EventsAreSpent'
<1> USE DEF E!ExportInvariant
<1>1. c8.expiries = 0 /\ E!ExportersHoldLock /\ E!EventsAreSpent
  BY ExportMishaps
<1>2. /\ c4 \in [Sids -> {"none", "timer", "done", "dead"} \cup E!Locked]
      /\ c5 \in [Sids -> [listed : SUBSET Key, unread : SUBSET Key, taken : SUBSET E!Record]]
      /\ c7 \in [Sids -> SUBSET E!Record]
      /\ c3 \subseteq c6
  BY DEF E!ExportTypeOK
<1>3. \A s, t \in Sids : c4[s] \in E!Locked /\ c4[t] \in E!Locked => s = t
  BY <1>1 DEF E!ExportersHoldLock
<1> USE DEF E!EventsAreSpent, E!Locked
<1>4. ASSUME NEW s \in Sids, E!CreateRoom(s) \/ E!EndRoom(s) \/ E!AfterRoomEnded(s)
      PROVE  E!EventsAreSpent'
  <2>1. UNCHANGED <<c3, c5, c6, c7>> /\ \A t \in Sids : c4'[t] \in E!Locked => c4'[t] = c4[t]
    BY <1>2, <1>4 DEF E!CreateRoom, E!EndRoom, E!AfterRoomEnded
  <2> QED
    BY <1>1, <2>1
<1>5. ASSUME NEW s \in Sids, NEW k \in Key, E!HandleEvent(s, k)
      PROVE  E!EventsAreSpent'
  <2> DEFINE r == [sid |-> s, key |-> k]
  <2>1. /\ r \notin c6 /\ c6' = c6 \cup {r} /\ c3' = c3 \cup {r}
        /\ UNCHANGED <<c4, c5, c7>>
    BY <1>5 DEF E!HandleEvent
  <2> HIDE DEF r
  <2>2. \A t \in Sids : r \notin c7[t] /\ r \notin c5[t].taken
    BY <1>1, <2>1
  <2> QED
    BY <1>1, <2>1, <2>2
<1>6. ASSUME E!LockExpires
      PROVE  E!EventsAreSpent'
  BY <1>1, <1>6 DEF E!LockExpires
<1>7. ASSUME NEW s \in Sids, E!AcquireLock(s) \/ E!CheckSession(s)
      PROVE  E!EventsAreSpent'
  <2>1. /\ UNCHANGED <<c3, c5, c6, c7>> /\ c4[s] \in {"timer", "check"}
        /\ c4'[s] \notin {"read", "delete", "store"}
        /\ \A t \in Sids : t # s => c4'[t] = c4[t]
    BY <1>2, <1>7 DEF E!AcquireLock, E!CheckSession, E!Goto
  <2> QED
    BY <1>1, <2>1
<1>8. ASSUME NEW s \in Sids, E!ScanKeys(s)
      PROVE  E!EventsAreSpent'
  <2>1. /\ UNCHANGED <<c3, c6, c7>> /\ c4'[s] \in {"read", "delete"}
        /\ \A t \in Sids : t # s => c4'[t] = c4[t]
    BY <1>2, <1>8 DEF E!ScanKeys, E!Goto
  <2>2. /\ c5'[s].unread = c5'[s].listed /\ c5'[s].taken = {}
        /\ \A t \in Sids : t # s => c5'[t] = c5[t]
    BY <1>8, ExportScans
  <2> QED
    BY <1>1, <2>1, <2>2
<1>9. ASSUME NEW s \in Sids, E!ReadKey(s)
      PROVE  E!EventsAreSpent'
  <2>1. /\ UNCHANGED <<c3, c6, c7>> /\ c4[s] = "read"
    BY <1>9 DEF E!ReadKey
  <2>2. PICK k \in c5[s].unread :
              /\ c5'[s].listed = c5[s].listed /\ c5'[s].unread = c5[s].unread \ {k}
              /\ c5'[s].taken = c5[s].taken \cup {r \in c3 : r.key = k}
              /\ E!Goto(s, IF c5[s].unread = {k} THEN "delete" ELSE "read")
    BY <1>9, ExportReads
  <2>3. \A t \in Sids : t # s => c5'[t] = c5[t]
    BY <1>9, ExportReads
  <2>4. c4'[s] \in {"read", "delete"} /\ \A t \in Sids : t # s => c4'[t] = c4[t]
    BY <1>2, <2>2 DEF E!Goto
  <2>5. \A r \in c5'[s].taken : r \in c5[s].taken \/ (r \in c3 /\ r.key = k)
    BY <2>2
  <2>6. \A t \in Sids : s # t => c5'[s].taken \cap c7[t] = {}
    BY <1>1, <2>1, <2>5
  <2>7. c5'[s].taken \subseteq c6
    BY <1>1, <1>2, <2>5
  <2>8. c5'[s].unread \subseteq c5'[s].listed /\ \A r \in c5'[s].taken : r.key \in c5'[s].listed
    BY <1>1, <2>1, <2>2, <2>5
  <2> QED
    BY <1>1, <2>1, <2>3, <2>4, <2>6, <2>7, <2>8
<1>10. ASSUME NEW s \in Sids, E!DeleteKeys(s)
       PROVE  E!EventsAreSpent'
  <2>1. /\ UNCHANGED <<c5, c6, c7>> /\ c4[s] = "delete"
        /\ \/ /\ c3' = {r \in c3 : r.key \notin c5[s].listed}
              /\ c4'[s] \in {"store", "unlock"}
           \/ c3' = c3 /\ c4'[s] = "unlock"
        /\ \A t \in Sids : t # s => c4'[t] = c4[t]
    BY <1>2, <1>10 DEF E!DeleteKeys, E!Goto
  <2>2. c4'[s] = "store" => c5[s].taken \cap c3' = {}
    BY <1>1, <2>1
  <2>3. c3' \subseteq c3
    BY <2>1
  <2>4. \A t \in Sids : c4'[t] = "store" => t = s
    BY <1>3, <2>1
  <2> QED
    BY <1>1, <2>1, <2>2, <2>3, <2>4
<1>11. ASSUME NEW s \in Sids, E!StoreArtifact(s)
       PROVE  E!EventsAreSpent'
  <2>1. /\ UNCHANGED <<c3, c5, c6>> /\ c4[s] = "store" /\ c4'[s] = "unlock"
        /\ c7' = c7 \/ c7' = [c7 EXCEPT ![s] = c5[s].taken]
        /\ \A t \in Sids : t # s => c4'[t] = c4[t]
    BY <1>2, <1>11 DEF E!StoreArtifact, E!Goto
  <2>2. \A t \in Sids : t # s => c7'[t] = c7[t]
    BY <1>2, <2>1
  <2>3. c7'[s] = c7[s] \/ c7'[s] = c5[s].taken
    BY <1>2, <2>1
  <2>4. \A t \in Sids : c4'[t] \notin {"read", "delete", "store"}
    BY <1>3, <2>1
  <2>5. /\ c7'[s] \subseteq c6 /\ c7'[s] \cap c3 = {}
        /\ \A t \in Sids : t # s => c7'[s] \cap c7[t] = {}
    BY <1>1, <2>1, <2>3
  <2> QED
    BY <1>1, <2>1, <2>2, <2>4, <2>5
<1>12. ASSUME NEW s \in Sids, E!Unlock(s) \/ E!Crash(s)
       PROVE  E!EventsAreSpent'
  <2>1. /\ UNCHANGED <<c3, c6, c7>> /\ c4'[s] \in {"done", "dead"}
        /\ c5' = [c5 EXCEPT ![s] = E!NoLocals]
        /\ \A t \in Sids : t # s => c4'[t] = c4[t]
    BY <1>2, <1>12 DEF E!Unlock, E!Crash, E!Goto
  <2>2. c5'[s].taken = {} /\ \A t \in Sids : t # s => c5'[t] = c5[t]
    BY <1>2, <2>1 DEF E!NoLocals
  <2> QED
    BY <1>1, <2>1, <2>2
<1> QED
  BY <1>4, <1>5, <1>6, <1>7, <1>8, <1>9, <1>10, <1>11, <1>12 DEF E!Next, E!Export

LEMMA ExportNextKeeps == E!ExportInvariant /\ [E!Next]_(E!vars) => E!ExportInvariant'
<1>1. ASSUME E!ExportInvariant, E!Next
      PROVE  E!ExportInvariant'
  BY <1>1, ExportTypes, ExportLocks, ExportSpends DEF E!ExportInvariant
<1>2. ASSUME E!ExportInvariant, UNCHANGED E!vars
      PROVE  E!ExportInvariant'
  BY <1>2 DEF E!ExportInvariant, E!ExportTypeOK, E!SessionsHoldLock, E!ExportersComeLater,
              E!ExportersHoldLock, E!CheckHolds, E!EventsAreSpent, E!Open, E!vars
<1> QED
  BY <1>1, <1>2

(* Only the deletion takes records away, and it is under way only while no *)
(* session runs.                                                           *)
LEMMA ExportSpares == E!ExportInvariant /\ E!Next => E!SparesOpenSession
<1> SUFFICES ASSUME E!ExportInvariant, E!Next, c8.expiries = 0, c8.failures = 0,
                    NEW r \in c3, r.sid \in E!Open, r \notin c3'
             PROVE  FALSE
  BY DEF E!SparesOpenSession
<1>1. PICK s \in Sids : E!DeleteKeys(s)
  BY DEF E!Next, E!Export, E!CreateRoom, E!EndRoom, E!AfterRoomEnded, E!HandleEvent,
         E!AcquireLock, E!CheckSession, E!ScanKeys, E!ReadKey, E!StoreArtifact, E!Unlock,
         E!Crash, E!LockExpires
<1>2. E!Open = {}
  BY <1>1 DEF E!DeleteKeys, E!ExportInvariant, E!CheckHolds
<1> QED
  BY <1>2

-----------------------------------------------------------------------------
(* Speech synthesis: c1 is the callers, c2 the creation, c3 and c4 the     *)
(* agents and their goroutines, c5 the queues, c6 the worker of the        *)
(* language, c7 and c8 the counts, c9 what the callback was given, c10     *)
(* Shutdown.                                                               *)

LEMMA SynthesisStart == S!SynthesisInit => S!SynthesisInvariant
  BY BoundsAssumption
  DEF S!SynthesisInit, S!SynthesisInvariant, S!SynthesisTypeOK, S!WorkersAreCounted,
      S!AgentsAreOwned, S!Caller, S!Landed, S!WorkerId

CallerState == {"idle", "create", "missed", "flying", "send", "subscribed", "off"}
FlightState == [at : {"none", "connect", "publish", "check", "go"}, worker : 0 .. MaxWorkers]

(* A creation that ends, well or not, and one that goes on.                *)
LEMMA FlightLands ==
  ASSUME S!SynthesisTypeOK
  PROVE  /\ S!Land(S!Served) \/ S!Land(S!Refused) =>
              /\ c1' \in [S!Caller -> CallerState]
              /\ c2' \in FlightState /\ c2'.at = "none"
         /\ S!Land(S!Refused) => (c1'["dispatch"] = "send" => c1["dispatch"] = "send")
         /\ S!Land(S!Served) =>
              (c1'["dispatch"] = "send" => c1["dispatch"] \in {"send", "flying"})
         /\ \A at \in {"publish", "check", "go"} :
              c2' = [c2 EXCEPT !.at = at] =>
                c2' \in FlightState /\ c2'.at = at /\ c2'.worker = c2.worker
<1> USE BoundsAssumption DEF CallerState, FlightState, S!SynthesisTypeOK, S!Caller
<1>1. \A c \in S!Caller : S!Served[c] \in CallerState /\ S!Refused[c] \in CallerState
  BY DEF S!Served, S!Refused
<1>2. S!Landed \in FlightState /\ S!Landed.at = "none" /\ S!Refused["dispatch"] = "idle"
  BY DEF S!Landed, S!Refused
<1> QED
  BY <1>1, <1>2 DEF S!Land

LEMMA SynthesisNextKeeps ==
  S!SynthesisInvariant /\ [S!SynthesisNext]_(S!synthesisVars) => S!SynthesisInvariant'
<1> SUFFICES ASSUME S!SynthesisInvariant, [S!SynthesisNext]_(S!synthesisVars)
             PROVE  S!SynthesisInvariant'
  OBVIOUS
<1> USE BoundsAssumption DEF S!SynthesisInvariant, S!SynthesisTypeOK, S!WorkersAreCounted,
        S!AgentsAreOwned, S!WorkerId, CallerState, FlightState
<1>1. CASE UNCHANGED S!synthesisVars
  BY <1>1 DEF S!synthesisVars
<1>2. CASE S!Receive
  BY <1>2 DEF S!Receive, S!Goto, S!Caller
<1>3. CASE S!Send
  <2>1. c9 \in 1 .. MaxWorkers /\ c5[c9] \in 0 .. TextQueue
    BY <1>3 DEF S!Send
  <2>2. c5' \in [1 .. MaxWorkers -> 0 .. TextQueue]
    BY <1>3, <2>1 DEF S!Send
  <2> QED
    BY <1>3, <2>2 DEF S!Send, S!Goto, S!Caller
<1>4. CASE S!Unsubscribe
  BY <1>4 DEF S!Unsubscribe, S!Goto, S!Caller
<1>5. ASSUME NEW c \in S!Caller, S!FastPath(c)
      PROVE  S!SynthesisInvariant'
  <2>1. S!Served[c] = IF c = "run" THEN "subscribed" ELSE "send"
    BY DEF S!Served, S!Caller
  <2>2. /\ c1' \in [S!Caller -> CallerState]
        /\ c1'["dispatch"] = "send" /\ c = "dispatch" => c6 # 0
        /\ c1'["dispatch"] = "send" /\ c # "dispatch" => c1["dispatch"] = "send"
    BY <1>5, <2>1 DEF S!FastPath, S!Goto, S!Caller
  <2> QED
    BY <1>5, <2>2 DEF S!FastPath
<1>6. ASSUME NEW c \in S!Caller, S!Do(c)
      PROVE  S!SynthesisInvariant'
  <2>1. c1' \in [S!Caller -> CallerState] /\ (c1'["dispatch"] = "send" => c1["dispatch"] = "send")
    BY <1>6 DEF S!Do, S!Goto, S!Caller
  <2>2. CASE c2.at = "none"
    <3>1. /\ c7' = c7 + 1 /\ c7 < MaxWorkers /\ c2' = [at |-> "connect", worker |-> c7 + 1]
          /\ UNCHANGED <<c3, c4, c5, c6, c8, c9, c10>>
      BY <1>6, <2>2 DEF S!Do
    <3>2. c2' \in FlightState /\ c2'.worker = c7 + 1 /\ c2'.at = "connect"
      BY <3>1
    <3>3. \A w \in c3 : w \in c4 /\ w # c7 + 1
      BY <2>2
    <3> QED
      BY <2>1, <3>1, <3>2, <3>3
  <2>3. CASE c2.at # "none"
    BY <1>6, <2>1, <2>3 DEF S!Do
  <2> QED
    BY <2>2, <2>3
<1>7. CASE S!Connect
  <2>1. /\ c2.at = "connect" /\ UNCHANGED <<c4, c5, c6, c7, c8, c9, c10>>
        /\ \/ c3' = {c2.worker} /\ c2' = [c2 EXCEPT !.at = "publish"] /\ c1' = c1
           \/ c3' = c3 /\ S!Land(S!Refused)
    BY <1>7 DEF S!Connect
  <2>2. c2.worker \in 1 .. c7 /\ c2.worker \in 1 .. MaxWorkers
    BY <2>1
  <2>3. \A w \in c3 : w # c2.worker /\ w \in c4
    BY <2>1
  <2>4. CASE c3' = {c2.worker} /\ c2' = [c2 EXCEPT !.at = "publish"] /\ c1' = c1
    BY <2>1, <2>2, <2>4, FlightLands
  <2>5. CASE c3' = c3 /\ S!Land(S!Refused)
    BY <2>1, <2>3, <2>5, FlightLands
  <2> QED
    BY <2>1, <2>4, <2>5
<1>8. CASE S!PublishFails
  BY <1>8, FlightLands DEF S!PublishFails
<1>9. CASE S!Store
  BY <1>9, FlightLands DEF S!Store
<1>10. CASE S!CheckShutdown
  <2>1. CASE c10 # "none"
    <3>1. /\ c3' = c3 \ {c2.worker} /\ S!Land(S!Refused) /\ c2.at = "check"
          /\ UNCHANGED <<c4, c5, c6, c7, c8, c9, c10>>
      BY <1>10, <2>1 DEF S!CheckShutdown
    <3> QED
      BY <3>1, FlightLands
  <2>2. CASE c10 = "none"
    <3>1. /\ c2' = [c2 EXCEPT !.at = "go"] /\ c2.at = "check"
          /\ UNCHANGED <<c1, c3, c4, c5, c6, c7, c8, c9, c10>>
      BY <1>10, <2>2 DEF S!CheckShutdown
    <3> QED
      BY <3>1, FlightLands
  <2> QED
    BY <2>1, <2>2
<1>11. CASE S!Go
  <2>1. /\ c2.at = "go" /\ c4' = c4 \cup {c2.worker} /\ S!Land(S!Served)
        /\ c9' = IF c1["dispatch"] = "flying" THEN c2.worker ELSE c9
        /\ UNCHANGED <<c3, c5, c6, c7, c8, c10>>
    BY <1>11 DEF S!Go
  <2>2. c2.worker \in 1 .. c7 /\ c2.worker \in 1 .. MaxWorkers
    BY <2>1
  <2>3. /\ c1' \in [S!Caller -> CallerState] /\ c2' \in FlightState /\ c2'.at = "none"
        /\ c1'["dispatch"] = "send" => c1["dispatch"] \in {"send", "flying"}
    BY <2>1, FlightLands
  <2>4. c9' \in 0 .. MaxWorkers /\ (c1'["dispatch"] = "send" => c9' # 0)
    BY <2>1, <2>2, <2>3
  <2>5. \A w \in c3 : w \in c4'
    BY <2>1
  <2>6. c4' \subseteq 1 .. MaxWorkers
    BY <2>1, <2>2
  <2> QED
    BY <2>1, <2>3, <2>4, <2>5, <2>6
<1>12. ASSUME NEW w \in S!WorkerId, S!Speak(w) \/ S!WorkerEnds(w)
       PROVE  S!SynthesisInvariant'
  <2>1. CASE S!Speak(w)
    <3>1. /\ c5[w] \in 0 .. TextQueue /\ c5[w] > 0 /\ c5' = [c5 EXCEPT ![w] = c5[w] - 1]
          /\ UNCHANGED <<c1, c2, c3, c4, c6, c7, c8, c9, c10>>
      BY <2>1 DEF S!Speak
    <3> QED
      BY <3>1
  <2>2. CASE S!WorkerEnds(w)
    BY <2>2 DEF S!WorkerEnds
  <2> QED
    BY <1>12, <2>1, <2>2
<1>13. CASE S!ShutdownBegin \/ S!ShutdownCancels \/ S!ShutdownWaits \/ S!ShutdownReturns
  BY <1>13 DEF S!ShutdownBegin, S!ShutdownCancels, S!ShutdownWaits, S!ShutdownReturns,
               S!ShutdownStep
<1> QED
  BY <1>1, <1>2, <1>3, <1>4, <1>5, <1>6, <1>7, <1>8, <1>9, <1>10, <1>11, <1>12, <1>13
  DEF S!SynthesisNext

-----------------------------------------------------------------------------
(* A room agent: c1 is who is allowed, c2 whose task is on, c3 who turns   *)
(* it on, c4 and c5 the tracks, c6 the subscriptions, c7 their ends, c8    *)
(* who will be unsubscribed, c9 the callbacks, c10 the pipelines, c11 the  *)
(* runs, c12 the shutdown.                                                 *)

LEMMA RoomAgentStart == G!AgentInit => G!AgentInvariant
<1> SUFFICES ASSUME G!AgentInit
             PROVE  G!AgentInvariant
  OBVIOUS
<1>1. (CHOOSE u \in User : TRUE) \in User
  BY SomebodyAssumption
<1> QED
  BY <1>1, BoundsAssumption
  DEF G!AgentInit, G!AgentInvariant, G!AgentTypeOK, G!TracksAreNumbered, G!RunIsReachable,
      G!RunState, G!Run

RunRecord == [state : G!RunState, user : User, track : 0 .. MaxTracks, cancelled : BOOLEAN]

LEMMA RunsCancelled ==
  ASSUME G!AgentTypeOK, NEW R
  PROVE  /\ G!Cancel(R) \in [1 .. MaxRuns -> RunRecord]
         /\ \A r \in 1 .. MaxRuns :
              /\ G!Cancel(R)[r].state = c11[r].state /\ G!Cancel(R)[r].user = c11[r].user
              /\ G!Cancel(R)[r].cancelled <=> r \in R \/ c11[r].cancelled
<1> USE DEF G!AgentTypeOK, G!Run, RunRecord
<1>1. ASSUME NEW r \in 1 .. MaxRuns
      PROVE  /\ G!Cancel(R)[r] \in RunRecord
             /\ G!Cancel(R)[r].state = c11[r].state /\ G!Cancel(R)[r].user = c11[r].user
             /\ G!Cancel(R)[r].cancelled <=> r \in R \/ c11[r].cancelled
  BY DEF G!Cancel
<1>2. G!Cancel(R) = [r \in 1 .. MaxRuns |-> G!Cancel(R)[r]]
  BY DEF G!Cancel
<1> QED
  BY <1>1, <1>2

(* Who is cancelled need not be in the pipelines, and who is not cancelled *)
(* stays there.                                                            *)
LEMMA TasksEndFor ==
  ASSUME G!AgentInvariant, NEW U \in SUBSET User, G!EndFor(U)
  PROVE  /\ c2' \subseteq User /\ c8' \subseteq User
         /\ c10' \in [User -> 0 .. MaxRuns] /\ c11' \in [1 .. MaxRuns -> RunRecord]
         /\ G!RunIsReachable'
<1> USE DEF G!AgentInvariant
<1> DEFINE R == {c10[u] : u \in U}
<1>1. /\ c2' = c2 \ U /\ c10' = [u \in User |-> IF u \in U THEN 0 ELSE c10[u]]
      /\ c11' = G!Cancel(R) /\ c8' = c8 \cup {u \in U : c10[u] # 0}
  BY DEF G!EndFor
<1>2. /\ c11' \in [1 .. MaxRuns -> RunRecord]
      /\ \A r \in 1 .. MaxRuns :
           /\ c11'[r].state = c11[r].state /\ c11'[r].user = c11[r].user
           /\ c11'[r].cancelled <=> r \in R \/ c11[r].cancelled
  <2> HIDE DEF R
  <2> QED
    BY <1>1, RunsCancelled
<1>3. ASSUME NEW r \in 1 .. MaxRuns, c11'[r].state \in {"adding", "running"},
             ~c11'[r].cancelled
      PROVE  c10'[c11'[r].user] = r
  <2>1. c10[c11[r].user] = r /\ c11'[r].user = c11[r].user /\ c11[r].user \in User /\ r \notin R
    BY <1>2, <1>3 DEF G!RunIsReachable, G!Run, RunRecord
  <2>2. c11[r].user \notin U
    BY <2>1
  <2> QED
    BY <1>1, <2>1, <2>2
<1>4. G!RunIsReachable'
  BY <1>3 DEF G!RunIsReachable, G!Run
<1>5. c2' \subseteq User /\ c8' \subseteq User
  BY <1>1 DEF G!AgentTypeOK
<1>6. c10' \in [User -> 0 .. MaxRuns]
  BY <1>1, BoundsAssumption DEF G!AgentTypeOK
<1> QED
  BY <1>2, <1>4, <1>5, <1>6

LEMMA RoomAgentNextKeeps ==
  G!AgentInvariant /\ [G!AgentNext]_(G!agentVars) => G!AgentInvariant'
<1> SUFFICES ASSUME G!AgentInvariant, [G!AgentNext]_(G!agentVars)
             PROVE  G!AgentInvariant'
  OBVIOUS
<1> USE BoundsAssumption DEF G!AgentInvariant, G!AgentTypeOK, G!TracksAreNumbered, G!Run, RunRecord
<1>1. CASE UNCHANGED G!agentVars
  BY <1>1 DEF G!agentVars, G!RunIsReachable
<1>2. ASSUME NEW U \in SUBSET User, G!EndFor(U), c1' \subseteq User,
             UNCHANGED <<c3, c4, c5, c6, c7, c9, c12>>
      PROVE  G!AgentInvariant'
  BY <1>2, TasksEndFor
<1>3. ASSUME NEW list \in SUBSET User, G!UpdateAllowedUsers(list)
      PROVE  G!AgentInvariant'
  BY <1>2, <1>3 DEF G!UpdateAllowedUsers
<1>4. ASSUME NEW u \in User, G!EndTasksForUser(u)
      PROVE  G!AgentInvariant'
  BY <1>2, <1>4 DEF G!EndTasksForUser
<1>5. ASSUME NEW u \in User, G!ActivateTaskForUser(u)
      PROVE  G!AgentInvariant'
  BY <1>5 DEF G!ActivateTaskForUser, G!RunIsReachable
<1>6. ASSUME NEW u \in User, G!ActivateSubscribe(u)
      PROVE  G!AgentInvariant'
  BY <1>6 DEF G!ActivateSubscribe, G!Ask, G!RunIsReachable
<1>7. \A u \in User : G!Ended(u) \subseteq User \X (1 .. MaxTracks)
  BY DEF G!Ended
<1>8. ASSUME NEW u \in User, G!Unsubscribe(u) \/ G!Unpublish(u)
      PROVE  G!AgentInvariant'
  <2>1. /\ UNCHANGED <<c1, c2, c3, c4, c9, c10, c11, c12>>
        /\ c6' = [c6 EXCEPT ![u] = "off"] /\ c7' = c7 \cup G!Ended(u)
        /\ c5' \subseteq c5 /\ c8' \subseteq c8
    BY <1>8 DEF G!Unsubscribe, G!Unpublish
  <2> QED
    BY <1>7, <2>1 DEF G!RunIsReachable
<1>9. ASSUME NEW u \in User, G!OnTrackPublished(u)
      PROVE  G!AgentInvariant'
  <2>1. /\ UNCHANGED <<c1, c2, c3, c7, c8, c9, c10, c11, c12>>
        /\ c4[u] < MaxTracks /\ c4' = [c4 EXCEPT ![u] = c4[u] + 1] /\ c5' = c5 \cup {u}
        /\ c6' = [c6 EXCEPT ![u] = "asked"] \/ c6' = [c6 EXCEPT ![u] = "off"]
    BY <1>9 DEF G!OnTrackPublished
  <2>2. c4' \in [User -> 0 .. MaxTracks] /\ c6' \in [User -> {"off", "asked", "on"}]
    <3>1. c4[u] + 1 \in 0 .. MaxTracks
      BY <2>1
    <3>2. c4' \in [User -> 0 .. MaxTracks]
      BY <2>1, <3>1
    <3> QED
      BY <2>1, <3>2
  <2>3. G!TracksAreNumbered'
    BY <2>1
  <2>4. G!RunIsReachable'
    BY <2>1 DEF G!RunIsReachable
  <2> QED
    BY <2>1, <2>2, <2>3, <2>4
<1>10. ASSUME NEW u \in User, G!OnTrackSubscribed(u)
       PROVE  G!AgentInvariant'
  <2>1. /\ UNCHANGED <<c1, c2, c3, c4, c5, c7, c8, c10, c11, c12>>
        /\ c6[u] = "asked" /\ c6' = [c6 EXCEPT ![u] = "on"]
        /\ c9' \in {c9, c9 \cup {<<u, c4[u]>>}}
    BY <1>10 DEF G!OnTrackSubscribed
  <2>2. <<u, c4[u]>> \in User \X (1 .. MaxTracks)
    BY <2>1
  <2> QED
    BY <2>1, <2>2 DEF G!RunIsReachable
<1>11. ASSUME NEW c \in c9, G!TranscoderFails(c)
       PROVE  G!AgentInvariant'
  BY <1>11 DEF G!TranscoderFails, G!RunIsReachable
<1>12. ASSUME NEW r \in 1 .. MaxRuns, G!StartRun(r) \/ G!RunReturns(r)
       PROVE  G!AgentInvariant'
  <2>1. /\ UNCHANGED <<c1, c2, c3, c4, c5, c6, c7, c8, c9, c10, c12>>
        /\ c11[r].state \in {"adding", "running"}
    BY <1>12 DEF G!StartRun, G!RunReturns
  <2>5. PICK state \in {"running", "over"} :
          c11' = [c11 EXCEPT ![r] = [c11[r] EXCEPT !.state = state]]
    BY <1>12 DEF G!StartRun, G!RunReturns, G!SetRun
  <2> DEFINE new == [c11[r] EXCEPT !.state = state]
  <2>6. c11[r] \in RunRecord /\ c11 \in [1 .. MaxRuns -> RunRecord]
    OBVIOUS
  <2>7. new \in RunRecord /\ new.user = c11[r].user /\ new.cancelled = c11[r].cancelled
    BY <2>6 DEF G!RunState
  <2>8. c11' = [c11 EXCEPT ![r] = new]
    BY <2>5
  <2> HIDE DEF new, RunRecord
  <2>2. c11' \in [1 .. MaxRuns -> RunRecord]
    BY <2>6, <2>7, <2>8
  <2>3. \A q \in 1 .. MaxRuns :
          /\ c11'[q].user = c11[q].user /\ c11'[q].cancelled = c11[q].cancelled
          /\ c11'[q].state = c11[q].state \/ q = r
    BY <2>6, <2>7, <2>8
  <2> USE DEF RunRecord
  <2>4. G!RunIsReachable'
    BY <2>1, <2>3 DEF G!RunIsReachable
  <2> QED
    BY <2>1, <2>2, <2>4
<1>13. ASSUME NEW c \in c9, G!StorePipeline(c)
       PROVE  G!AgentInvariant'
  <2> DEFINE u == c[1]
             n == G!NextRun
             R == {c10[u]}
             new == [state |-> IF c12 = "no" THEN "adding" ELSE "over", user |-> u,
                     track |-> c[2], cancelled |-> FALSE]
  <2>1. /\ n \in 1 .. MaxRuns /\ c9' = c9 \ {c} /\ c11' = [G!Cancel(R) EXCEPT ![n] = new]
        /\ c10' = [c10 EXCEPT ![u] = n] /\ UNCHANGED <<c1, c2, c3, c4, c5, c6, c7, c8, c12>>
    BY <1>13 DEF G!StorePipeline
  <2>2. u \in User /\ new \in RunRecord /\ new.user = u
    BY DEF G!RunState
  <2> HIDE DEF u, n, new, R
  <2>3. /\ c11' \in [1 .. MaxRuns -> RunRecord] /\ c11'[n] = new
        /\ \A r \in 1 .. MaxRuns : r # n =>
             /\ c11'[r].state = c11[r].state /\ c11'[r].user = c11[r].user
             /\ c11'[r].cancelled <=> r \in R \/ c11[r].cancelled
    <3> DEFINE old == G!Cancel(R)
    <3>1. /\ old \in [1 .. MaxRuns -> RunRecord]
          /\ \A r \in 1 .. MaxRuns :
               /\ old[r].state = c11[r].state /\ old[r].user = c11[r].user
               /\ old[r].cancelled <=> r \in R \/ c11[r].cancelled
      BY RunsCancelled
    <3>2. c11' = [old EXCEPT ![n] = new]
      BY <2>1
    <3> HIDE DEF old, RunRecord
    <3> QED
      BY <2>1, <2>2, <3>1, <3>2
  <2>4. c10' \in [User -> 0 .. MaxRuns]
    BY <2>1, <2>2
  <2>5. ASSUME NEW r \in 1 .. MaxRuns, c11'[r].state \in {"adding", "running"},
               ~c11'[r].cancelled
        PROVE  c10'[c11'[r].user] = r
    <3>1. CASE r = n
      BY <2>1, <2>2, <2>3, <3>1
    <3>2. CASE r # n
      <4>1. c10[c11[r].user] = r /\ c11'[r].user = c11[r].user /\ c11[r].user \in User /\ r \notin R
        BY <2>3, <2>5, <3>2 DEF G!RunIsReachable
      <4>2. c11[r].user # u
        BY <4>1 DEF R
      <4> QED
        BY <2>1, <4>1, <4>2
    <3> QED
      BY <3>1, <3>2
  <2>6. G!RunIsReachable'
    BY <2>5 DEF G!RunIsReachable
  <2> QED
    BY <2>1, <2>3, <2>4, <2>6
<1>14. ASSUME NEW c \in c7, G!OnTrackUnsubscribed(c)
       PROVE  G!AgentInvariant'
  <2> DEFINE u == c[1]
             R == {c10[u]}
  <2>1. u \in User
    OBVIOUS
  <2>2. /\ c7' = c7 \ {c} /\ UNCHANGED <<c1, c2, c3, c4, c5, c6, c8, c9, c12>>
        /\ \/ c11' = c11 /\ c10' = c10
           \/ c11' = G!Cancel(R) /\ c10' = [c10 EXCEPT ![u] = 0]
    BY <1>14 DEF G!OnTrackUnsubscribed
  <2>3. CASE c11' = c11 /\ c10' = c10
    BY <2>2, <2>3 DEF G!RunIsReachable
  <2>4. CASE c11' = G!Cancel(R) /\ c10' = [c10 EXCEPT ![u] = 0]
    <3> HIDE DEF u, R
    <3>1. /\ c11' \in [1 .. MaxRuns -> RunRecord]
          /\ \A r \in 1 .. MaxRuns :
               /\ c11'[r].state = c11[r].state /\ c11'[r].user = c11[r].user
               /\ c11'[r].cancelled <=> r \in R \/ c11[r].cancelled
      BY <2>4, RunsCancelled
    <3>2. c10' \in [User -> 0 .. MaxRuns]
      BY <2>1, <2>4
    <3>3. ASSUME NEW r \in 1 .. MaxRuns, c11'[r].state \in {"adding", "running"},
                 ~c11'[r].cancelled
          PROVE  c10'[c11'[r].user] = r
      <4>1. c10[c11[r].user] = r /\ c11'[r].user = c11[r].user /\ c11[r].user \in User /\ r \notin R
        BY <3>1, <3>3 DEF G!RunIsReachable
      <4>2. c11[r].user # u
        BY <4>1 DEF R
      <4> QED
        BY <2>4, <4>1, <4>2
    <3>4. G!RunIsReachable'
      BY <3>3 DEF G!RunIsReachable
    <3> QED
      BY <2>2, <3>1, <3>2, <3>4
  <2> QED
    BY <2>2, <2>3, <2>4
<1>15. CASE G!ShutdownFlag
  <2>1. /\ UNCHANGED <<c1, c2, c3, c4, c5, c8, c9, c10, c11>> /\ c12' = "flag"
        /\ c6' = [u \in User |-> "off"]
        /\ c7' = c7 \cup UNION {G!Ended(u) : u \in User}
    BY <1>15 DEF G!ShutdownFlag
  <2>2. (UNION {G!Ended(u) : u \in User}) \subseteq User \X (1 .. MaxTracks)
    BY <1>7
  <2>3. c7' \subseteq User \X (1 .. MaxTracks)
    BY <2>1, <2>2
  <2> QED
    BY <2>1, <2>3 DEF G!RunIsReachable
<1>16. CASE G!ShutdownCancel \/ G!ShutdownWait
  BY <1>16 DEF G!ShutdownCancel, G!ShutdownWait, G!RunIsReachable
<1> QED
  BY <1>1, <1>3, <1>4, <1>5, <1>6, <1>8, <1>9, <1>10, <1>11, <1>12, <1>13, <1>14, <1>15, <1>16
  DEF G!AgentNext

-----------------------------------------------------------------------------
(* The agents of a room: c1 is the messages, c2 who has read them, c3 the  *)
(* handlers, c4 the maps, c5 the agents, c6 their supervisors, c7 the      *)
(* lock, c8 whether the room goes on, c9 the faults.                       *)

Bus == Seq([task : {"configure", "end", "endall"}, room : {I!TheRoom, I!NoRoom}])
HandState == [at : {"idle", "jitter", "joining", "storing", "closing"}, agent : 0 .. MaxAgents]
AgentState == [state : {"none", "joining", "live", "done"}, on : Host]
SupState == [at : {"none", "watch", "unlocked", "closing", "over"}, agent : 0 .. MaxAgents]

LEMMA AgentsTypes ==
  I!AgentsTypeOK <=> /\ c1 \in Bus /\ c2 \in [Host -> 0 .. Len(c1)]
                     /\ c3 \in [Host -> HandState] /\ c4 \in [Host -> 0 .. MaxAgents]
                     /\ c5 \in [1 .. MaxAgents -> AgentState]
                     /\ c6 \in [1 .. MaxAgents -> SupState]
                     /\ c7 \in 0 .. MaxAgents /\ c8 \in BOOLEAN /\ c9 \in 0 .. MaxFaults
BY DEF I!AgentsTypeOK, I!AgentId, Bus, HandState, AgentState, SupState

LEMMA AgentsStart == I!AgentsInit => I!AgentsInvariant
<1> SUFFICES ASSUME I!AgentsInit
             PROVE  I!AgentsInvariant
  OBVIOUS
<1>1. (CHOOSE s \in Host : TRUE) \in Host
  BY SomebodyAssumption
<1>2. I!AgentsTypeOK
  <2>1. c1 = <<>> /\ c1 \in Bus /\ Len(c1) = 0
    BY DEF I!AgentsInit, Bus
  <2>2. /\ c2 \in [Host -> 0 .. Len(c1)] /\ c3 \in [Host -> HandState]
        /\ c4 \in [Host -> 0 .. MaxAgents]
    BY <2>1, BoundsAssumption DEF I!AgentsInit, I!Idle, HandState
  <2>3. c5 \in [1 .. MaxAgents -> AgentState]
    BY <1>1 DEF I!AgentsInit, I!AgentId, AgentState
  <2>4. c6 \in [1 .. MaxAgents -> SupState]
    BY BoundsAssumption DEF I!AgentsInit, I!AgentId, SupState
  <2>5. c7 \in 0 .. MaxAgents /\ c8 \in BOOLEAN /\ c9 \in 0 .. MaxFaults
    BY BoundsAssumption DEF I!AgentsInit
  <2> QED
    BY <2>1, <2>2, <2>3, <2>4, <2>5, AgentsTypes
<1>3. I!AgentsAreNumbered
  <2>1. 0 \in 0 .. MaxAgents /\ \A a \in 1 .. MaxAgents : ~(a <= 0)
    BY BoundsAssumption
  <2> QED
    BY <2>1 DEF I!AgentsInit, I!AgentsAreNumbered, I!AgentId
<1> QED
  BY <1>2, <1>3
  DEF I!AgentsInit, I!Idle, I!AgentsInvariant, I!HandlersHaveMessages, I!AgentsAreAtHome,
      I!ConnectedIsReachable, I!LiveAgents, I!LeaseIsOfTheAgent

(* A handler goes to a step; a supervisor does; an agent's life goes on.   *)
LEMMA HandlerGoes ==
  ASSUME I!AgentsTypeOK, NEW s \in Host,
         NEW at \in {"idle", "jitter", "joining", "storing", "closing"}, NEW a \in 0 .. MaxAgents, I!GoTo(s, at, a)
  PROVE  /\ c3' \in [Host -> HandState]
         /\ c3'[s] = [at |-> at, agent |-> a] /\ c3'[s].at = at /\ c3'[s].agent = a
         /\ \A t \in Host : t # s => c3'[t] = c3[t]
<1> DEFINE new == [at |-> at, agent |-> a]
<1>1. new \in HandState /\ new.at = at /\ new.agent = a
  BY DEF HandState
<1>2. c3' = [c3 EXCEPT ![s] = new]
  BY DEF I!GoTo
<1> HIDE DEF new
<1>3. c3' \in [Host -> HandState] /\ c3'[s] = new /\ \A t \in Host : t # s => c3'[t] = c3[t]
  BY <1>1, <1>2, AgentsTypes
<1> QED
  BY <1>1, <1>3 DEF new

LEMMA SupervisorGoes ==
  ASSUME I!AgentsTypeOK, NEW a \in 1 .. MaxAgents,
         NEW at \in {"none", "watch", "unlocked", "closing", "over"}, NEW v \in 0 .. MaxAgents,
         I!Watch(a, at, v)
  PROVE  /\ c6' \in [1 .. MaxAgents -> SupState]
         /\ c6'[a].at = at /\ c6'[a].agent = v
         /\ \A b \in 1 .. MaxAgents : b # a => c6'[b] = c6[b]
BY AgentsTypes DEF I!Watch, SupState

LEMMA AgentGoes ==
  ASSUME I!AgentsTypeOK, NEW v \in 1 .. MaxAgents, NEW state \in {"joining", "live", "done"},
         c5' = [c5 EXCEPT ![v] = [c5[v] EXCEPT !.state = state]]
  PROVE  /\ c5' \in [1 .. MaxAgents -> AgentState]
         /\ c5'[v].state = state /\ c5'[v].on = c5[v].on
         /\ \A a \in 1 .. MaxAgents : a # v => c5'[a] = c5[a]
BY AgentsTypes DEF AgentState

(* A message more is read.                                                 *)
LEMMA MessageRead ==
  ASSUME I!AgentsTypeOK, NEW s \in Host, c2[s] < Len(c1), I!Next1(s), c1' = c1
  PROVE  c2' \in [Host -> 0 .. Len(c1')] /\ \A t \in Host : t # s => c2'[t] = c2[t]
<1>1. Len(c1) \in Nat
  BY AgentsTypes DEF Bus
<1>2. c2[s] + 1 \in 0 .. Len(c1)
  BY <1>1, AgentsTypes
<1> QED
  BY <1>2, AgentsTypes DEF I!Next1

(* The next agent is one that was not begun.                               *)
LEMMA NextAgentIsNew ==
  ASSUME I!AgentsTypeOK, I!AgentsAreNumbered, I!NewAgent \in I!AgentId
  PROVE  /\ c5[I!NewAgent].state = "none"
         /\ \A a \in I!AgentId : c5[a].state # "none" <=> a <= I!NewAgent - 1
<1>1. PICK n \in 0 .. MaxAgents : \A a \in I!AgentId : c5[a].state # "none" <=> a <= n
  BY DEF I!AgentsAreNumbered
<1>2. {a \in I!AgentId : c5[a].state # "none"} = 1 .. n
  BY <1>1, BoundsAssumption DEF I!AgentId
<1>3. Cardinality(1 .. n) = n
  BY FS_Interval
<1>4. I!NewAgent = n + 1
  <2>1. \A T : I!Cardinality(T) = Cardinality(T)
    BY DEF I!Cardinality, Cardinality
  <2> QED
    BY <1>2, <1>3, <2>1 DEF I!NewAgent
<1> QED
  BY <1>1, <1>4, BoundsAssumption DEF I!AgentId

(* What is asked of the handler of a server, and of a supervisor.          *)
HandlerHome(s) ==
  /\ c4[s] # 0 => I!At(s, c4[s], {"live", "done"})
  /\ c3[s].at \in {"jitter", "joining", "storing"} => c4[s] = 0
  /\ c3[s].at = "joining" => I!At(s, c3[s].agent, {"joining"})
  /\ c3[s].at \in {"storing", "closing"} => I!At(s, c3[s].agent, {"live", "done"})
  /\ c3[s].at \in {"joining", "storing"} => c6[c3[s].agent].at = "none"
  /\ c3[s] # I!Idle => c2[s] < Len(c1)

SupervisorHome(a) ==
  /\ c6[a].at # "none" => c5[a].state \in {"live", "done"}
  /\ c6[a].at = "closing" /\ c6[a].agent # 0 => I!At(c5[a].on, c6[a].agent, {"live", "done"})

Reached(a) == c5[a].state = "live" => c4[c5[a].on] = a \/ I!BeingClosed(a)

Leased(a) ==
  /\ c5[a].state \in {"joining", "live"} => c7 = a
  /\ c5[a].state = "joining" => c3[c5[a].on] = [at |-> "joining", agent |-> a]
  /\ c5[a].state = "live" =>
       c3[c5[a].on] = [at |-> "storing", agent |-> a] \/ c6[a].at = "watch"

LEMMA AgentsParts ==
  I!AgentsInvariant <=>
    /\ I!AgentsTypeOK /\ I!AgentsAreNumbered
    /\ \A s \in Host : HandlerHome(s)
    /\ \A a \in 1 .. MaxAgents : SupervisorHome(a) /\ Reached(a) /\ (c9 = 0 => Leased(a))
BY DEF I!AgentsInvariant, I!HandlersHaveMessages, I!AgentsAreAtHome, I!ConnectedIsReachable,
       I!LiveAgents, I!LeaseIsOfTheAgent, I!AgentId, HandlerHome, SupervisorHome, Reached, Leased

LEMMA AgentsKept ==
  ASSUME c1' \in Bus, c2' \in [Host -> 0 .. Len(c1')],
         c3' \in [Host -> HandState], c4' \in [Host -> 0 .. MaxAgents],
         c5' \in [1 .. MaxAgents -> AgentState], c6' \in [1 .. MaxAgents -> SupState],
         c7' \in 0 .. MaxAgents, c8' \in BOOLEAN, c9' \in 0 .. MaxFaults,
         I!AgentsAreNumbered', \A s \in Host : HandlerHome(s)',
         \A a \in 1 .. MaxAgents : SupervisorHome(a)' /\ Reached(a)' /\ (c9' = 0 => Leased(a)')
  PROVE  I!AgentsInvariant'
<1>1. I!AgentsTypeOK'
  BY DEF I!AgentsTypeOK, I!AgentId, Bus, HandState, AgentState, SupState
<1> QED
  BY <1>1
  DEF I!AgentsInvariant, I!HandlersHaveMessages, I!AgentsAreAtHome, I!ConnectedIsReachable,
      I!LiveAgents, I!LeaseIsOfTheAgent, I!AgentId, HandlerHome, SupervisorHome, Reached, Leased

(* Agents stay numbered when none is begun.                                *)
LEMMA NoAgentIsBegun ==
  ASSUME I!AgentsAreNumbered,
         \A a \in I!AgentId : c5'[a].state = "none" <=> c5[a].state = "none"
  PROVE  I!AgentsAreNumbered'
BY DEF I!AgentsAreNumbered

LEMMA RequestsAreHarmless ==
  ASSUME I!AgentsInvariant,
         \/ \E task \in {"configure", "end"} : I!Request(task)
         \/ I!RoomEnds
  PROVE  I!AgentsInvariant'
<1>1. PICK m \in [task : {"configure", "end", "endall"}, room : {I!TheRoom, I!NoRoom}] :
        c1' = Append(c1, m)
  BY DEF I!Request, I!RoomEnds, I!Message
<1>2. UNCHANGED <<c2, c3, c4, c5, c6, c7, c9>> /\ c8' \in BOOLEAN
  BY AgentsTypes, AgentsParts DEF I!Request, I!RoomEnds
<1>3. I!AgentsTypeOK /\ c1 \in Bus
  BY AgentsTypes, AgentsParts
<1>4. c1' \in Bus /\ Len(c1') = Len(c1) + 1 /\ Len(c1) \in Nat
  BY <1>1, <1>3 DEF Bus
<1>5. c2' \in [Host -> 0 .. Len(c1')]
  BY <1>2, <1>3, <1>4, AgentsTypes
<1>7. I!AgentsAreNumbered'
  BY <1>2, AgentsParts DEF I!AgentsAreNumbered
<1>8. ASSUME NEW s \in Host
      PROVE  HandlerHome(s)'
  <2>1. c2[s] \in Nat
    BY <1>3, <1>4, AgentsTypes
  <2> QED
    BY <1>2, <1>4, <2>1, AgentsParts DEF HandlerHome, I!At
<1>9. ASSUME NEW a \in 1 .. MaxAgents
      PROVE  SupervisorHome(a)' /\ Reached(a)' /\ (c9' = 0 => Leased(a)')
  BY <1>2, AgentsParts DEF SupervisorHome, Reached, Leased, I!At, I!BeingClosed
<1> QED
  BY <1>2, <1>3, <1>4, <1>5, <1>7, <1>8, <1>9, AgentsTypes, AgentsKept

(* A handler that looks at its message, and one that gives up.             *)
LEMMA HandlerLooks ==
  ASSUME I!AgentsInvariant, NEW s \in Host,
         UNCHANGED <<c1, c5, c6, c7, c8>>, c9' \in 0 .. MaxFaults, c9' = 0 => c9 = 0,
         c2' \in [Host -> 0 .. Len(c1')], c3' \in [Host -> HandState],
         c4' \in [Host -> 0 .. MaxAgents],
         \A t \in Host : t # s => c2'[t] = c2[t] /\ c3'[t] = c3[t] /\ c4'[t] = c4[t],
         c3[s].at \in {"idle", "jitter"},
         \/ c3'[s] = I!Idle /\ c4'[s] = c4[s]
         \/ /\ c3'[s].at = "jitter" /\ c2'[s] = c2[s] /\ c4'[s] = c4[s]
            /\ c4[s] = 0 /\ c2[s] < Len(c1)
         \/ /\ c3'[s].at = "closing" /\ c3'[s].agent = c4[s] /\ c4'[s] = 0 /\ c4[s] # 0
            /\ c2'[s] = c2[s] /\ c2[s] < Len(c1)
  PROVE  I!AgentsInvariant'
<1>1. I!AgentsTypeOK /\ I!Idle.at = "idle"
  BY AgentsParts DEF I!Idle
<1>2. ASSUME NEW t \in Host
      PROVE  HandlerHome(t)'
  <2>1. HandlerHome(t)
    BY AgentsParts
  <2>2. CASE t # s
    BY <2>1, <2>2 DEF HandlerHome, I!At
  <2>3. CASE t = s
    BY <1>1, <2>1, <2>3 DEF HandlerHome, I!At
  <2> QED
    BY <2>2, <2>3
<1>3. ASSUME NEW a \in 1 .. MaxAgents
      PROVE  SupervisorHome(a)' /\ (c9' = 0 => Leased(a)')
  <2>1. SupervisorHome(a) /\ (c9 = 0 => Leased(a)) /\ (c5[a].state # "none" => c5[a].on \in Host)
    BY <1>1, AgentsParts, AgentsTypes DEF AgentState
  <2>2. SupervisorHome(a)'
    BY <2>1 DEF SupervisorHome, I!At
  <2>3. c9' = 0 => Leased(a)'
    BY <2>1 DEF Leased
  <2> QED
    BY <2>2, <2>3
<1>4. ASSUME NEW a \in 1 .. MaxAgents
      PROVE  Reached(a)'
  <2>1. Reached(a) /\ c5[a].on \in Host
    BY <1>1, AgentsParts, AgentsTypes DEF AgentState
  <2>2. SUFFICES ASSUME c5[a].state = "live"
                 PROVE  c4'[c5[a].on] = a \/ I!BeingClosed(a)'
    BY DEF Reached
  <2>3. CASE I!BeingClosed(a)
    BY <2>3 DEF I!BeingClosed
  <2>4. CASE c4[c5[a].on] = a
    <3>1. CASE c5[a].on = s /\ c4'[s] # c4[s]
      <4>1. c3'[s].at \in {"storing", "closing"} /\ c3'[s].agent = a
        BY <2>4, <3>1
      <4> QED
        BY <4>1 DEF I!BeingClosed
    <3>2. CASE ~(c5[a].on = s /\ c4'[s] # c4[s])
      <4>1. c4'[c5[a].on] = c4[c5[a].on]
        BY <2>1, <3>2
      <4> QED
        BY <2>4, <4>1
    <3> QED
      BY <3>1, <3>2
  <2> QED
    BY <2>1, <2>2, <2>3, <2>4 DEF Reached
<1>5. I!AgentsAreNumbered'
  BY AgentsParts DEF I!AgentsAreNumbered
<1> QED
  BY <1>1, <1>2, <1>3, <1>4, <1>5, AgentsTypes, AgentsKept

(* The handler that gets the lock begins an agent.                         *)
LEMMA HandlerBegins ==
  ASSUME I!AgentsInvariant, NEW s \in Host, c3[s].at = "jitter", c7 = 0,
         I!NewAgent \in I!AgentId, c7' = I!NewAgent,
         c5' = [c5 EXCEPT ![I!NewAgent] = [state |-> "joining", on |-> s]],
         I!GoTo(s, "joining", I!NewAgent), UNCHANGED <<c1, c2, c4, c6, c8, c9>>
  PROVE  I!AgentsInvariant'
<1> DEFINE n == I!NewAgent
           begun == [state |-> "joining", on |-> s]
<1>1. I!AgentsTypeOK /\ I!Idle.at = "idle" /\ n \in 1 .. MaxAgents /\ n \in 0 .. MaxAgents /\ n # 0
  BY AgentsParts, BoundsAssumption DEF I!Idle, I!AgentId
<1>2. /\ c5[n].state = "none"
      /\ \A a \in 1 .. MaxAgents : c5[a].state # "none" <=> a <= n - 1
  BY AgentsParts, NextAgentIsNew DEF I!AgentId
<1>3. begun \in AgentState /\ begun.state = "joining" /\ begun.on = s
  BY DEF AgentState
<1>4. c5' = [c5 EXCEPT ![n] = begun] /\ I!GoTo(s, "joining", n) /\ c7' = n
  OBVIOUS
<1> HIDE DEF n, begun
<1>5. /\ c5' \in [1 .. MaxAgents -> AgentState] /\ c5'[n].state = "joining" /\ c5'[n].on = s
      /\ \A a \in 1 .. MaxAgents : a # n => c5'[a] = c5[a]
  BY <1>1, <1>3, <1>4, AgentsTypes
<1>6. /\ c3' \in [Host -> HandState]
      /\ c3'[s] = [at |-> "joining", agent |-> n] /\ c3'[s].at = "joining" /\ c3'[s].agent = n
      /\ \A t \in Host : t # s => c3'[t] = c3[t]
  BY <1>1, <1>4, HandlerGoes
<1>7. ASSUME NEW t \in Host
      PROVE  HandlerHome(t)'
  <2>1. HandlerHome(t)
    BY AgentsParts
  <2>2. CASE t # s
    <3>1. c3'[t] = c3[t]
      BY <1>6, <2>2
    <3> QED
      BY <1>1, <1>2, <1>5, <2>1, <3>1 DEF HandlerHome, I!At, I!AgentId
  <2>3. CASE t = s
    <3>1. c6[n].at = "none"
      BY <1>1, <1>2, AgentsParts, AgentsTypes DEF SupervisorHome, SupState
    <3>2. c4[s] = 0 /\ c2[s] < Len(c1)
      BY <1>1, <2>1, <2>3 DEF HandlerHome
    <3> QED
      BY <1>1, <1>5, <1>6, <2>3, <3>1, <3>2 DEF HandlerHome, I!At, I!AgentId
  <2> QED
    BY <2>2, <2>3
<1>8. ASSUME NEW a \in 1 .. MaxAgents, c9 = 0
      PROVE  c5[a].state \notin {"joining", "live"}
  <2>1. Leased(a) /\ a # 0
    BY <1>8, AgentsParts
  <2> QED
    BY <2>1 DEF Leased
<1>9. ASSUME NEW a \in 1 .. MaxAgents
      PROVE  SupervisorHome(a)' /\ Reached(a)' /\ (c9' = 0 => Leased(a)')
  <2>1. SupervisorHome(a) /\ Reached(a)
    BY AgentsParts
  <2>2. SupervisorHome(a)'
    BY <1>1, <1>2, <1>5, <2>1 DEF SupervisorHome, I!At, I!AgentId
  <2>3. Reached(a)'
    <3> SUFFICES ASSUME c5'[a].state = "live"
                 PROVE  c4'[c5'[a].on] = a \/ I!BeingClosed(a)'
      BY DEF Reached
    <3>1. c5'[a] = c5[a] /\ c5[a].state = "live"
      BY <1>5
    <3>2. CASE I!BeingClosed(a)
      BY <1>6, <3>2 DEF I!BeingClosed
    <3> QED
      BY <2>1, <3>1, <3>2 DEF Reached
  <2>4. c9' = 0 => Leased(a)'
    BY <1>4, <1>5, <1>6, <1>8 DEF Leased
  <2> QED
    BY <2>2, <2>3, <2>4
<1>10. I!AgentsAreNumbered'
  <2>1. \A a \in 1 .. MaxAgents : c5'[a].state # "none" <=> a <= n
    BY <1>1, <1>2, <1>5
  <2> QED
    BY <1>1, <2>1 DEF I!AgentsAreNumbered, I!AgentId
<1> QED
  BY <1>1, <1>4, <1>5, <1>6, <1>7, <1>9, <1>10, AgentsTypes, AgentsKept

(* The handler that has joined the room, or has not.                       *)
LEMMA HandlerJoins ==
  ASSUME I!AgentsInvariant, NEW s \in Host, I!Join(s) \/ I!JoinFails(s)
  PROVE  I!AgentsInvariant'
<1> DEFINE a == c3[s].agent
<1>1. I!AgentsTypeOK /\ I!Idle.at = "idle" /\ c3[s].at = "joining" /\ 0 \in 0 .. MaxAgents
  BY AgentsParts, BoundsAssumption DEF I!Join, I!JoinFails, I!Idle
<1>2. /\ a \in 1 .. MaxAgents /\ a \in 0 .. MaxAgents /\ c5[a].on = s /\ c5[a].state = "joining"
      /\ c6[a].at = "none" /\ c4[s] = 0 /\ c2[s] < Len(c1)
  BY <1>1, AgentsParts, BoundsAssumption DEF HandlerHome, I!At, I!AgentId
<1>3. /\ UNCHANGED <<c1, c4, c6, c8, c9>>
      /\ \/ /\ c5' = [c5 EXCEPT ![a] = [c5[a] EXCEPT !.state = "live"]] /\ UNCHANGED <<c2, c7>>
            /\ I!GoTo(s, "storing", a)
         \/ /\ c5' = [c5 EXCEPT ![a] = [c5[a] EXCEPT !.state = "done"]]
            /\ c7' = (IF c7 = a THEN 0 ELSE c7) /\ I!Next1(s) /\ I!GoTo(s, "idle", 0)
  BY DEF I!Join, I!JoinFails, I!Unlocked
<1> HIDE DEF a
<1>4. /\ c3' \in [Host -> HandState] /\ \A t \in Host : t # s => c3'[t] = c3[t]
      /\ \/ /\ c3'[s] = [at |-> "storing", agent |-> a] /\ c3'[s].at = "storing"
            /\ c3'[s].agent = a /\ c5'[a].state = "live" /\ UNCHANGED <<c2, c7>>
         \/ /\ c3'[s] = I!Idle /\ c5'[a].state = "done" /\ c7' = IF c7 = a THEN 0 ELSE c7
      /\ c5' \in [1 .. MaxAgents -> AgentState] /\ c5'[a].on = s
      /\ \A b \in 1 .. MaxAgents : b # a => c5'[b] = c5[b]
  BY <1>1, <1>2, <1>3, HandlerGoes, AgentGoes DEF I!Idle
<1>5. /\ c2' \in [Host -> 0 .. Len(c1')] /\ \A t \in Host : t # s => c2'[t] = c2[t]
  BY <1>1, <1>2, <1>3, MessageRead, AgentsTypes
<1>6. c7' \in 0 .. MaxAgents
  BY <1>1, <1>4, AgentsTypes
<1>7. ASSUME NEW t \in Host
      PROVE  HandlerHome(t)'
  <2>1. HandlerHome(t)
    BY AgentsParts
  <2>2. CASE t # s
    <3>1. c3'[t] = c3[t] /\ c2'[t] = c2[t]
      BY <1>4, <1>5, <2>2
    <3>2. ASSUME NEW b, NEW states, I!At(t, b, states)
          PROVE  b # a /\ I!At(t, b, states)'
      BY <1>2, <1>4, <2>2, <3>2 DEF I!At, I!AgentId
    <3> QED
      BY <1>3, <2>1, <3>1, <3>2 DEF HandlerHome
  <2>3. CASE t = s
    BY <1>1, <1>2, <1>3, <1>4, <2>3 DEF HandlerHome, I!At, I!AgentId
  <2> QED
    BY <2>2, <2>3
<1>8. ASSUME NEW b \in 1 .. MaxAgents
      PROVE  SupervisorHome(b)' /\ Reached(b)' /\ (c9' = 0 => Leased(b)')
  <2>1. SupervisorHome(b) /\ Reached(b) /\ (c9 = 0 => Leased(b)) /\ c5[b].on \in Host
    BY <1>1, AgentsParts, AgentsTypes DEF AgentState
  <2>2. SupervisorHome(b)'
    BY <1>2, <1>3, <1>4, <2>1 DEF SupervisorHome, I!At, I!AgentId
  <2>3. Reached(b)'
    <3> SUFFICES ASSUME c5'[b].state = "live"
                 PROVE  c4'[c5'[b].on] = b \/ I!BeingClosed(b)'
      BY DEF Reached
    <3>1. CASE b = a
      BY <1>4, <3>1 DEF I!BeingClosed
    <3>2. CASE b # a
      <4>1. c5'[b] = c5[b] /\ c5[b].state = "live"
        BY <1>4, <3>2
      <4>2. CASE I!BeingClosed(b)
        BY <1>1, <1>3, <1>4, <4>2 DEF I!BeingClosed
      <4> QED
        BY <1>3, <2>1, <4>1, <4>2 DEF Reached
    <3> QED
      BY <3>1, <3>2
  <2>4. c9' = 0 => Leased(b)'
    <3> SUFFICES ASSUME c9 = 0
                 PROVE  Leased(b)'
      BY <1>3
    <3>1. CASE b = a
      BY <1>2, <1>3, <1>4, <2>1, <3>1 DEF Leased
    <3>2. CASE b # a
      <4>1. c5'[b] = c5[b] /\ (c5[b].state \in {"joining", "live"} => c7' = b)
        BY <1>2, <1>3, <1>4, <2>1, <3>2 DEF Leased
      <4>2. c3[s] # [at |-> "joining", agent |-> b] /\ c3[s] # [at |-> "storing", agent |-> b]
        BY <1>1, <3>2 DEF a
      <4> QED
        BY <1>3, <1>4, <2>1, <4>1, <4>2 DEF Leased
    <3> QED
      BY <3>1, <3>2
  <2> QED
    BY <2>2, <2>3, <2>4
<1>9. I!AgentsAreNumbered'
  BY <1>2, <1>4, AgentsParts, NoAgentIsBegun DEF I!AgentId
<1> QED
  BY <1>1, <1>3, <1>4, <1>5, <1>6, <1>7, <1>8, <1>9, AgentsTypes, AgentsKept

(* The agent that joined goes into the map.                                *)
LEMMA HandlerStores ==
  ASSUME I!AgentsInvariant, NEW s \in Host, I!Store(s)
  PROVE  I!AgentsInvariant'
<1> DEFINE a == c3[s].agent
<1>1. I!AgentsTypeOK /\ I!Idle.at = "idle" /\ c3[s].at = "storing" /\ 0 \in 0 .. MaxAgents
  BY AgentsParts, BoundsAssumption DEF I!Store, I!Idle
<1>2. /\ a \in 1 .. MaxAgents /\ a \in 0 .. MaxAgents /\ a # 0 /\ c5[a].on = s
      /\ c5[a].state \in {"live", "done"} /\ c6[a].at = "none" /\ c4[s] = 0 /\ c2[s] < Len(c1)
  BY <1>1, AgentsParts, BoundsAssumption DEF HandlerHome, I!At, I!AgentId
<1>3. /\ UNCHANGED <<c1, c5, c7, c8, c9>> /\ c4' = [c4 EXCEPT ![s] = a]
      /\ c6' = [c6 EXCEPT ![a] = [c6[a] EXCEPT !.at = "watch"]]
      /\ I!Next1(s) /\ I!GoTo(s, "idle", 0)
  BY DEF I!Store
<1> HIDE DEF a
<1>4. /\ c3' \in [Host -> HandState] /\ c3'[s] = I!Idle
      /\ \A t \in Host : t # s => c3'[t] = c3[t]
  BY <1>1, <1>3, HandlerGoes DEF I!Idle
<1>5. c2' \in [Host -> 0 .. Len(c1')] /\ \A t \in Host : t # s => c2'[t] = c2[t]
  BY <1>1, <1>2, <1>3, MessageRead
<1>6. /\ c4' \in [Host -> 0 .. MaxAgents] /\ c4'[s] = a
      /\ \A t \in Host : t # s => c4'[t] = c4[t]
  BY <1>1, <1>2, <1>3, AgentsTypes
<1>7. /\ c6' \in [1 .. MaxAgents -> SupState] /\ c6'[a].at = "watch"
      /\ \A b \in 1 .. MaxAgents : b # a => c6'[b] = c6[b]
  <2> DEFINE new == [c6[a] EXCEPT !.at = "watch"]
  <2>1. new \in SupState /\ new.at = "watch"
    BY <1>1, <1>2, AgentsTypes DEF SupState
  <2>2. c6' = [c6 EXCEPT ![a] = new]
    BY <1>3
  <2> HIDE DEF new
  <2> QED
    BY <1>1, <1>2, <2>1, <2>2, AgentsTypes
<1>8. ASSUME NEW t \in Host
      PROVE  HandlerHome(t)'
  <2>1. HandlerHome(t)
    BY AgentsParts
  <2>2. CASE t # s
    <3>1. c3'[t] = c3[t] /\ c2'[t] = c2[t] /\ c4'[t] = c4[t]
      BY <1>4, <1>5, <1>6, <2>2
    <3>2. ASSUME NEW b, NEW states, I!At(t, b, states)
          PROVE  b # a /\ I!At(t, b, states)' /\ b \in 1 .. MaxAgents
      BY <1>2, <1>3, <2>2, <3>2 DEF I!At, I!AgentId
    <3> QED
      BY <1>3, <1>7, <2>1, <3>1, <3>2 DEF HandlerHome
  <2>3. CASE t = s
    BY <1>1, <1>2, <1>3, <1>4, <1>6, <2>3 DEF HandlerHome, I!At, I!AgentId
  <2> QED
    BY <2>2, <2>3
<1>9. ASSUME NEW b \in 1 .. MaxAgents
      PROVE  SupervisorHome(b)' /\ Reached(b)' /\ (c9' = 0 => Leased(b)')
  <2>1. SupervisorHome(b) /\ Reached(b) /\ (c9 = 0 => Leased(b)) /\ c5[b].on \in Host
    BY <1>1, AgentsParts, AgentsTypes DEF AgentState
  <2>2. SupervisorHome(b)'
    BY <1>2, <1>3, <1>7, <2>1 DEF SupervisorHome, I!At
  <2>3. Reached(b)'
    <3> SUFFICES ASSUME c5[b].state = "live"
                 PROVE  c4'[c5[b].on] = b \/ I!BeingClosed(b)'
      BY <1>3 DEF Reached
    <3>1. CASE b = a
      BY <1>2, <1>6, <3>1
    <3>2. CASE b # a
      <4>1. CASE I!BeingClosed(b)
        <5>1. CASE \E t \in Host : c3[t].at \in {"storing", "closing"} /\ c3[t].agent = b
          BY <1>4, <3>2, <5>1 DEF I!BeingClosed, a
        <5>2. CASE \E d \in I!AgentId : c6[d].at = "closing" /\ c6[d].agent = b
          BY <1>2, <1>7, <5>2 DEF I!BeingClosed, I!AgentId
        <5> QED
          BY <4>1, <5>1, <5>2 DEF I!BeingClosed
      <4>2. CASE c4[c5[b].on] = b
        BY <1>2, <1>6, <2>1, <4>2
      <4> QED
        BY <2>1, <4>1, <4>2 DEF Reached
    <3> QED
      BY <3>1, <3>2
  <2>4. c9' = 0 => Leased(b)'
    <3>1. CASE b = a
      BY <1>2, <1>3, <1>7, <2>1, <3>1 DEF Leased
    <3>2. CASE b # a
      <4>1. c3[s] # [at |-> "joining", agent |-> b] /\ c3[s] # [at |-> "storing", agent |-> b]
        BY <3>2 DEF a
      <4> QED
        BY <1>3, <1>4, <1>7, <2>1, <3>2, <4>1 DEF Leased
    <3> QED
      BY <3>1, <3>2
  <2> QED
    BY <2>2, <2>3, <2>4
<1>10. I!AgentsAreNumbered'
  BY <1>3, AgentsParts DEF I!AgentsAreNumbered
<1> QED
  BY <1>1, <1>3, <1>4, <1>5, <1>6, <1>7, <1>8, <1>9, <1>10, AgentsTypes, AgentsKept

(* An agent leaves the room: its handler, a supervisor or LiveKit ends it. *)
(* Who did it has nobody to shut down any more.                            *)
LEMMA AgentEnds ==
  ASSUME I!AgentsInvariant, UNCHANGED <<c1, c4, c7, c8, c9>>,
         c2' \in [Host -> 0 .. Len(c1')], c3' \in [Host -> HandState],
         c5' \in [1 .. MaxAgents -> AgentState], c6' \in [1 .. MaxAgents -> SupState],
         \A a \in 1 .. MaxAgents :
           /\ c5'[a].on = c5[a].on
           /\ \/ c5'[a].state = c5[a].state
              \/ c5[a].state \in {"live", "done"} /\ c5'[a].state = "done",
         \A s \in Host :
           \/ c2'[s] = c2[s] /\ c3'[s] = c3[s]
           \/ /\ c3'[s] = I!Idle /\ c3[s].at = "closing"
              /\ c5'[c3[s].agent].state = "done",
         \A b \in 1 .. MaxAgents :
           \/ c6'[b] = c6[b]
           \/ /\ c6[b].at = "closing" /\ c6'[b].at = "over"
              /\ c6[b].agent # 0 => c5'[c6[b].agent].state = "done"
  PROVE  I!AgentsInvariant'
<1>1. I!AgentsTypeOK /\ I!Idle.at = "idle"
  BY AgentsParts DEF I!Idle
<1>2. ASSUME NEW t, NEW a, I!At(t, a, {"live", "done"})
      PROVE  I!At(t, a, {"live", "done"})'
  BY <1>2 DEF I!At, I!AgentId
<1>3. ASSUME NEW t, NEW a, I!At(t, a, {"joining"})
      PROVE  I!At(t, a, {"joining"})'
  BY <1>3 DEF I!At, I!AgentId
<1>4. ASSUME NEW s \in Host
      PROVE  HandlerHome(s)'
  <2>1. HandlerHome(s)
    BY AgentsParts
  <2>2. c3[s].at \in {"joining", "storing"} => c3[s].agent \in 1 .. MaxAgents
    BY <2>1 DEF HandlerHome, I!At, I!AgentId
  <2>3. CASE c2'[s] = c2[s] /\ c3'[s] = c3[s]
    BY <1>2, <1>3, <2>1, <2>2, <2>3 DEF HandlerHome
  <2>4. CASE c3'[s] = I!Idle
    BY <1>1, <1>2, <2>1, <2>4 DEF HandlerHome
  <2> QED
    BY <2>3, <2>4
<1>5. ASSUME NEW b \in 1 .. MaxAgents
      PROVE  SupervisorHome(b)' /\ Reached(b)' /\ (c9' = 0 => Leased(b)')
  <2>1. SupervisorHome(b) /\ Reached(b) /\ (c9 = 0 => Leased(b)) /\ c5[b].on \in Host
    BY <1>1, AgentsParts, AgentsTypes DEF AgentState
  <2>2. SupervisorHome(b)'
    BY <1>2, <2>1 DEF SupervisorHome
  <2>3. Reached(b)'
    <3> SUFFICES ASSUME c5'[b].state = "live"
                 PROVE  c4[c5[b].on] = b \/ I!BeingClosed(b)'
      BY DEF Reached
    <3>1. c5[b].state = "live"
      OBVIOUS
    <3>2. CASE I!BeingClosed(b)
      BY <3>2 DEF I!BeingClosed, I!AgentId
    <3> QED
      BY <2>1, <3>1, <3>2 DEF Reached
  <2>4. c9' = 0 => Leased(b)'
    <3>1. c5'[b].state \in {"joining", "live"} => c5'[b].state = c5[b].state
      OBVIOUS
    <3>2. \A s \in Host : c3[s].at \in {"joining", "storing"} => c3'[s] = c3[s]
      OBVIOUS
    <3>3. c6[b].at = "watch" => c6'[b].at = "watch"
      OBVIOUS
    <3> QED
      BY <2>1, <3>1, <3>2, <3>3 DEF Leased
  <2> QED
    BY <2>2, <2>3, <2>4
<1>6. I!AgentsAreNumbered'
  BY AgentsParts, NoAgentIsBegun DEF I!AgentId
<1> QED
  BY <1>1, <1>4, <1>5, <1>6, AgentsTypes, AgentsKept

LEMMA SomebodyEnds ==
  ASSUME I!AgentsInvariant,
         \/ \E s \in Host : I!HandleShutdown(s)
         \/ \E a \in I!AgentId : I!SupervisorShutdown(a) \/ I!Disconnected(a)
  PROVE  I!AgentsInvariant'
<1>1. I!AgentsTypeOK /\ Len(c1) \in Nat /\ I!AgentId = 1 .. MaxAgents /\ 0 \in 0 .. MaxAgents
  BY AgentsParts, AgentsTypes, BoundsAssumption DEF Bus, I!AgentId
<1>2. ASSUME NEW v \in 1 .. MaxAgents, c5[v].state \in {"live", "done"},
             c5' = [c5 EXCEPT ![v] = [c5[v] EXCEPT !.state = "done"]]
      PROVE  /\ c5' \in [1 .. MaxAgents -> AgentState] /\ c5'[v].state = "done"
             /\ \A a \in 1 .. MaxAgents :
                  /\ c5'[a].on = c5[a].on
                  /\ \/ c5'[a].state = c5[a].state
                     \/ c5[a].state \in {"live", "done"} /\ c5'[a].state = "done"
  BY <1>1, <1>2, AgentGoes
<1>3. ASSUME NEW s \in Host, I!HandleShutdown(s)
      PROVE  I!AgentsInvariant'
  <2> DEFINE v == c3[s].agent
  <2>1. /\ c3[s].at = "closing" /\ c5' = [c5 EXCEPT ![v] = [c5[v] EXCEPT !.state = "done"]]
        /\ I!Next1(s) /\ I!GoTo(s, "idle", 0) /\ UNCHANGED <<c1, c4, c6, c7, c8, c9>>
    BY <1>3 DEF I!HandleShutdown
  <2>2. v \in 1 .. MaxAgents /\ c5[v].state \in {"live", "done"} /\ c2[s] < Len(c1)
    BY <1>1, <2>1, AgentsParts DEF HandlerHome, I!At, I!AgentId, I!Idle
  <2>3. c2' \in [Host -> 0 .. Len(c1')] /\ \A t \in Host : t # s => c2'[t] = c2[t]
    BY <1>1, <2>1, <2>2, MessageRead
  <2>4. /\ c3' \in [Host -> HandState] /\ c3'[s] = I!Idle
        /\ \A t \in Host : t # s => c3'[t] = c3[t]
    BY <1>1, <2>1, HandlerGoes DEF I!Idle
  <2> HIDE DEF v
  <2>5. /\ c5' \in [1 .. MaxAgents -> AgentState] /\ c5'[v].state = "done"
        /\ \A a \in 1 .. MaxAgents :
             /\ c5'[a].on = c5[a].on
             /\ \/ c5'[a].state = c5[a].state
                \/ c5[a].state \in {"live", "done"} /\ c5'[a].state = "done"
    BY <1>2, <2>1, <2>2
  <2>6. \A t \in Host : \/ c2'[t] = c2[t] /\ c3'[t] = c3[t]
                        \/ /\ c3'[t] = I!Idle /\ c3[t].at = "closing"
                           /\ c5'[c3[t].agent].state = "done"
    BY <2>1, <2>3, <2>4, <2>5 DEF v
  <2>7. c6' \in [1 .. MaxAgents -> SupState] /\ UNCHANGED <<c1, c4, c7, c8, c9>>
    BY <1>1, <2>1, AgentsTypes
  <2>8. \A b \in 1 .. MaxAgents :
           \/ c6'[b] = c6[b]
           \/ /\ c6[b].at = "closing" /\ c6'[b].at = "over"
              /\ c6[b].agent # 0 => c5'[c6[b].agent].state = "done"
    BY <2>1
  <2> QED
    BY <2>3, <2>4, <2>5, <2>6, <2>7, <2>8, AgentEnds
<1>4. ASSUME NEW a \in 1 .. MaxAgents, I!SupervisorShutdown(a)
      PROVE  I!AgentsInvariant'
  <2> DEFINE v == c6[a].agent
  <2>1. /\ c6[a].at = "closing" /\ I!Watch(a, "over", 0)
        /\ c5' = IF v = 0 THEN c5 ELSE [c5 EXCEPT ![v] = [c5[v] EXCEPT !.state = "done"]]
        /\ UNCHANGED <<c1, c2, c3, c4, c7, c8, c9>>
    BY <1>4 DEF I!SupervisorShutdown
  <2>2. v # 0 => v \in 1 .. MaxAgents /\ c5[v].state \in {"live", "done"}
    BY <1>1, <2>1, AgentsParts DEF SupervisorHome, I!At, I!AgentId
  <2>3. /\ c6' \in [1 .. MaxAgents -> SupState] /\ c6'[a].at = "over"
        /\ \A b \in 1 .. MaxAgents : b # a => c6'[b] = c6[b]
    BY <1>1, <2>1, SupervisorGoes
  <2> HIDE DEF v
  <2>4. /\ c5' \in [1 .. MaxAgents -> AgentState] /\ (v # 0 => c5'[v].state = "done")
        /\ \A b \in 1 .. MaxAgents :
             /\ c5'[b].on = c5[b].on
             /\ \/ c5'[b].state = c5[b].state
                \/ c5[b].state \in {"live", "done"} /\ c5'[b].state = "done"
    BY <1>1, <1>2, <2>1, <2>2, AgentsTypes
  <2>5. c2' \in [Host -> 0 .. Len(c1')] /\ c3' \in [Host -> HandState]
    BY <1>1, <2>1, AgentsTypes
  <2>6. \A b \in 1 .. MaxAgents :
           \/ c6'[b] = c6[b]
           \/ /\ c6[b].at = "closing" /\ c6'[b].at = "over"
              /\ c6[b].agent # 0 => c5'[c6[b].agent].state = "done"
    BY <2>1, <2>3, <2>4 DEF v
  <2>7. \A t \in Host : \/ c2'[t] = c2[t] /\ c3'[t] = c3[t]
                        \/ /\ c3'[t] = I!Idle /\ c3[t].at = "closing"
                           /\ c5'[c3[t].agent].state = "done"
    BY <2>1
  <2>8. UNCHANGED <<c1, c4, c7, c8, c9>>
    BY <2>1
  <2> QED
    BY <2>3, <2>4, <2>5, <2>6, <2>7, <2>8, AgentEnds
<1>5. ASSUME NEW a \in 1 .. MaxAgents, I!Disconnected(a)
      PROVE  I!AgentsInvariant'
  <2>1. /\ c5[a].state = "live" /\ c5' = [c5 EXCEPT ![a] = [c5[a] EXCEPT !.state = "done"]]
        /\ UNCHANGED <<c1, c2, c3, c4, c6, c7, c8, c9>>
    BY <1>5 DEF I!Disconnected
  <2>2. /\ c5' \in [1 .. MaxAgents -> AgentState]
        /\ \A b \in 1 .. MaxAgents :
             /\ c5'[b].on = c5[b].on
             /\ \/ c5'[b].state = c5[b].state
                \/ c5[b].state \in {"live", "done"} /\ c5'[b].state = "done"
    BY <1>2, <2>1
  <2>3. /\ c2' \in [Host -> 0 .. Len(c1')] /\ c3' \in [Host -> HandState]
        /\ c6' \in [1 .. MaxAgents -> SupState]
    BY <1>1, <2>1, AgentsTypes
  <2>4. \A t \in Host : \/ c2'[t] = c2[t] /\ c3'[t] = c3[t]
                        \/ /\ c3'[t] = I!Idle /\ c3[t].at = "closing"
                           /\ c5'[c3[t].agent].state = "done"
    BY <2>1
  <2>5. \A b \in 1 .. MaxAgents :
           \/ c6'[b] = c6[b]
           \/ /\ c6[b].at = "closing" /\ c6'[b].at = "over"
              /\ c6[b].agent # 0 => c5'[c6[b].agent].state = "done"
    BY <2>1
  <2>6. UNCHANGED <<c1, c4, c7, c8, c9>>
    BY <2>1
  <2> QED
    BY <2>2, <2>3, <2>4, <2>5, <2>6, AgentEnds
<1> QED
  BY <1>1, <1>3, <1>4, <1>5

(* A supervisor takes whatever the map has out of it, or its own agent has *)
(* ended and it gives the lock back.                                       *)
LEMMA SupervisorTakesOut ==
  ASSUME I!AgentsInvariant, NEW a \in 1 .. MaxAgents, c6[a].at \in {"watch", "unlocked"},
         I!Watch(a, "closing", c4[c5[a].on]), I!Leave(c5[a].on),
         UNCHANGED <<c1, c2, c3, c5, c7, c8>>, c9' \in 0 .. MaxFaults,
         c9' = 0 => c9 = 0 /\ (c6[a].at = "watch" => c7 # a)
  PROVE  I!AgentsInvariant'
<1> DEFINE h == c5[a].on
           v == c4[h]
<1>1. I!AgentsTypeOK /\ 0 \in 0 .. MaxAgents /\ h \in Host /\ v \in 0 .. MaxAgents
  BY AgentsParts, AgentsTypes, BoundsAssumption DEF AgentState
<1>2. v # 0 => I!At(h, v, {"live", "done"})
  BY <1>1, AgentsParts DEF HandlerHome
<1>3. I!Watch(a, "closing", v) /\ c4' = [c4 EXCEPT ![h] = 0]
  BY DEF I!Leave
<1> HIDE DEF v
<1>4. /\ c6' \in [1 .. MaxAgents -> SupState] /\ c6'[a].at = "closing" /\ c6'[a].agent = v
      /\ \A b \in 1 .. MaxAgents : b # a => c6'[b] = c6[b]
  BY <1>1, <1>3, SupervisorGoes
<1>5. /\ c4' \in [Host -> 0 .. MaxAgents] /\ c4'[h] = 0
      /\ \A t \in Host : t # h => c4'[t] = c4[t]
  BY <1>1, <1>3, AgentsTypes
<1> HIDE DEF h
<1>6. ASSUME NEW t \in Host
      PROVE  HandlerHome(t)'
  <2>1. HandlerHome(t)
    BY AgentsParts
  <2>2. c3[t].at \in {"joining", "storing"} => c6'[c3[t].agent].at = "none"
    BY <1>4, <2>1 DEF HandlerHome, I!At, I!AgentId
  <2>3. c4'[t] = 0 \/ c4'[t] = c4[t]
    BY <1>5
  <2> QED
    BY <2>1, <2>2, <2>3 DEF HandlerHome, I!At
<1>7. ASSUME NEW b \in 1 .. MaxAgents
      PROVE  SupervisorHome(b)' /\ Reached(b)' /\ (c9' = 0 => Leased(b)')
  <2>1. SupervisorHome(b) /\ Reached(b) /\ (c9 = 0 => Leased(b)) /\ c5[b].on \in Host
    BY <1>1, AgentsParts, AgentsTypes DEF AgentState
  <2>2. SupervisorHome(b)'
    BY <1>2, <1>4, <2>1 DEF SupervisorHome, I!At, h
  <2>3. Reached(b)'
    <3> SUFFICES ASSUME c5[b].state = "live"
                 PROVE  c4'[c5[b].on] = b \/ I!BeingClosed(b)'
      BY DEF Reached
    <3>1. CASE I!BeingClosed(b)
      BY <1>4, <3>1 DEF I!BeingClosed, I!AgentId
    <3>2. CASE c4[c5[b].on] = b /\ c5[b].on = h
      BY <1>4, <3>2 DEF I!BeingClosed, I!AgentId, v
    <3>3. CASE c4[c5[b].on] = b /\ c5[b].on # h
      BY <1>5, <2>1, <3>3
    <3> QED
      BY <2>1, <3>1, <3>2, <3>3 DEF Reached
  <2>4. c9' = 0 => Leased(b)'
    BY <1>4, <2>1 DEF Leased
  <2> QED
    BY <2>2, <2>3, <2>4
<1>8. I!AgentsAreNumbered'
  BY AgentsParts DEF I!AgentsAreNumbered
<1> QED
  BY <1>1, <1>4, <1>5, <1>6, <1>7, <1>8, AgentsTypes, AgentsKept

(* The lock is given back, or expires: an agent that joins or is connected *)
(* had none, or there have been faults.                                    *)
LEMMA LockIsFreed ==
  ASSUME I!AgentsInvariant, UNCHANGED <<c1, c2, c3, c4, c5, c8>>,
         c6' \in [1 .. MaxAgents -> SupState], c7' \in 0 .. MaxAgents, c9' \in 0 .. MaxFaults,
         \A a \in 1 .. MaxAgents :
           \/ c6'[a] = c6[a]
           \/ c6[a].at = "watch" /\ c6'[a].at = "unlocked" /\ c5[a].state = "done",
         c9' = 0 => /\ c9 = 0
                    /\ \A a \in 1 .. MaxAgents : c5[a].state \in {"joining", "live"} => c7' = c7
  PROVE  I!AgentsInvariant'
<1>1. I!AgentsTypeOK
  BY AgentsParts
<1>2. ASSUME NEW s \in Host
      PROVE  HandlerHome(s)'
  <2>1. HandlerHome(s)
    BY AgentsParts
  <2>2. c3[s].at \in {"joining", "storing"} => c6'[c3[s].agent].at = "none"
    BY <2>1 DEF HandlerHome, I!At, I!AgentId
  <2> QED
    BY <2>1, <2>2 DEF HandlerHome, I!At
<1>3. ASSUME NEW a \in 1 .. MaxAgents
      PROVE  SupervisorHome(a)' /\ Reached(a)' /\ (c9' = 0 => Leased(a)')
  <2>1. SupervisorHome(a) /\ Reached(a) /\ (c9 = 0 => Leased(a))
    BY AgentsParts
  <2>2. SupervisorHome(a)'
    BY <2>1 DEF SupervisorHome, I!At
  <2>3. Reached(a)'
    <3>1. I!BeingClosed(a) => I!BeingClosed(a)'
      BY DEF I!BeingClosed, I!AgentId
    <3> QED
      BY <2>1, <3>1 DEF Reached
  <2>4. c9' = 0 => Leased(a)'
    BY <2>1 DEF Leased
  <2> QED
    BY <2>2, <2>3, <2>4
<1>4. I!AgentsAreNumbered'
  BY AgentsParts DEF I!AgentsAreNumbered
<1> QED
  BY <1>1, <1>2, <1>3, <1>4, AgentsTypes, AgentsKept

(* A server restarts: whatever is on it is over, and who is on another     *)
(* server has nobody on this one in hand or to shut down.                  *)
LEMMA ServerRestarts ==
  ASSUME I!AgentsInvariant, NEW s \in Host, I!Restart(s)
  PROVE  I!AgentsInvariant'
<1> DEFINE mine == {a \in 1 .. MaxAgents : c5[a].state # "none" /\ c5[a].on = s}
           over == [at |-> "over", agent |-> 0]
<1>1. I!AgentsTypeOK /\ c1 \in Bus /\ Len(c1) \in Nat /\ I!Idle \in HandState /\ I!Idle.at = "idle"
  BY AgentsParts, AgentsTypes, BoundsAssumption DEF Bus, I!Idle, HandState
<1>2. over \in SupState /\ over.at = "over"
  BY BoundsAssumption DEF SupState
<1>3. /\ UNCHANGED <<c1, c7, c8>> /\ c9' = c9 + 1 /\ c9 < MaxFaults
      /\ c3' = [c3 EXCEPT ![s] = I!Idle] /\ c2' = [c2 EXCEPT ![s] = Len(c1)]
      /\ c4' = [c4 EXCEPT ![s] = 0]
      /\ c5' = [a \in 1 .. MaxAgents |->
                  IF a \in mine THEN [c5[a] EXCEPT !.state = "done"] ELSE c5[a]]
      /\ c6' = [a \in 1 .. MaxAgents |-> IF a \in mine THEN over ELSE c6[a]]
  BY DEF I!Restart, I!AgentId
<1>4. c9' \in 0 .. MaxFaults /\ c9' # 0
  <2>1. c9 \in 0 .. MaxFaults /\ MaxFaults \in Nat
    BY <1>1, AgentsTypes, BoundsAssumption
  <2>2. c9' = c9 + 1 /\ c9 < MaxFaults
    BY <1>3
  <2> QED
    BY <2>1, <2>2
<1>5. /\ c2' \in [Host -> 0 .. Len(c1')] /\ c3' \in [Host -> HandState]
      /\ c4' \in [Host -> 0 .. MaxAgents]
      /\ c3'[s] = I!Idle /\ c4'[s] = 0
      /\ \A t \in Host : t # s => c2'[t] = c2[t] /\ c3'[t] = c3[t] /\ c4'[t] = c4[t]
  <2>1. /\ c2 \in [Host -> 0 .. Len(c1)] /\ c3 \in [Host -> HandState]
        /\ c4 \in [Host -> 0 .. MaxAgents] /\ 0 \in 0 .. MaxAgents /\ c1' = c1
        /\ Len(c1) \in 0 .. Len(c1)
    BY <1>1, <1>3, AgentsTypes, BoundsAssumption
  <2>2. /\ c3' = [c3 EXCEPT ![s] = I!Idle] /\ c2' = [c2 EXCEPT ![s] = Len(c1)]
        /\ c4' = [c4 EXCEPT ![s] = 0]
    BY <1>3
  <2>3. c2' \in [Host -> 0 .. Len(c1')] /\ \A t \in Host : t # s => c2'[t] = c2[t]
    BY <2>1, <2>2
  <2>4. /\ c3' \in [Host -> HandState] /\ c3'[s] = I!Idle
        /\ \A t \in Host : t # s => c3'[t] = c3[t]
    BY <1>1, <2>1, <2>2
  <2>5. /\ c4' \in [Host -> 0 .. MaxAgents] /\ c4'[s] = 0
        /\ \A t \in Host : t # s => c4'[t] = c4[t]
    BY <2>1, <2>2
  <2> QED
    BY <2>3, <2>4, <2>5
<1>6. ASSUME NEW a \in 1 .. MaxAgents
      PROVE  [c5[a] EXCEPT !.state = "done"] \in AgentState
  BY <1>1, AgentsTypes DEF AgentState
<1>7. c5' \in [1 .. MaxAgents -> AgentState] /\ c6' \in [1 .. MaxAgents -> SupState]
  BY <1>1, <1>2, <1>3, <1>6, AgentsTypes
<1>8. \A a \in 1 .. MaxAgents :
        /\ c5'[a].on = c5[a].on
        /\ a \in mine => c5'[a].state = "done" /\ c6'[a].at = "over"
        /\ a \notin mine => c5'[a] = c5[a] /\ c6'[a] = c6[a]
  <2> TAKE a \in 1 .. MaxAgents
  <2>1. c5[a] \in AgentState
    BY <1>1, AgentsTypes
  <2> HIDE DEF mine, over
  <2> QED
    BY <1>2, <1>3, <2>1 DEF AgentState
<1>9. \A a \in 1 .. MaxAgents : a \in mine <=> c5[a].state # "none" /\ c5[a].on = s
  OBVIOUS
<1> HIDE DEF mine, over
<1>10. ASSUME NEW t, NEW a, t # s, NEW states, "none" \notin states, I!At(t, a, states)
       PROVE  I!At(t, a, states)' /\ a \in 1 .. MaxAgents /\ c6'[a] = c6[a]
  BY <1>8, <1>9, <1>10 DEF I!At, I!AgentId
<1>11. ASSUME NEW t \in Host
       PROVE  HandlerHome(t)'
  <2>1. HandlerHome(t)
    BY AgentsParts
  <2>2. CASE t = s
    BY <1>1, <1>5, <2>2 DEF HandlerHome
  <2>3. CASE t # s
    <3>1. c2'[t] = c2[t] /\ c3'[t] = c3[t] /\ c4'[t] = c4[t] /\ c1' = c1
      BY <1>3, <1>5, <2>3
    <3>2. \A a : I!At(t, a, {"joining"}) => I!At(t, a, {"joining"})' /\ c6'[a] = c6[a]
      BY <1>10, <2>3
    <3>3. \A a : I!At(t, a, {"live", "done"}) =>
                   I!At(t, a, {"live", "done"})' /\ c6'[a] = c6[a]
      BY <1>10, <2>3
    <3> QED
      BY <2>1, <3>1, <3>2, <3>3 DEF HandlerHome
  <2> QED
    BY <2>2, <2>3
<1>12. ASSUME NEW a \in 1 .. MaxAgents
       PROVE  SupervisorHome(a)' /\ Reached(a)'
  <2>1. SupervisorHome(a) /\ Reached(a) /\ c5[a].on \in Host
    BY <1>1, AgentsParts, AgentsTypes DEF AgentState
  <2>2. CASE a \in mine
    BY <1>8, <2>2 DEF SupervisorHome, Reached
  <2>3. CASE a \notin mine
    <3>1. c5'[a] = c5[a] /\ c6'[a] = c6[a] /\ (c5[a].state # "none" => c5[a].on # s)
      BY <1>8, <1>9, <2>3
    <3>2. SupervisorHome(a)'
      <4> DEFINE v == c6[a].agent
      <4>1. c6[a].at = "closing" /\ v # 0 =>
              v \in 1 .. MaxAgents /\ c5[v].on = c5[a].on /\ c5[v].state \in {"live", "done"}
        BY <2>1 DEF SupervisorHome, I!At, I!AgentId
      <4>2. c6[a].at = "closing" /\ v # 0 => c5'[v] = c5[v]
        BY <1>8, <1>9, <2>1, <3>1, <4>1 DEF SupervisorHome
      <4> QED
        BY <2>1, <3>1, <4>1, <4>2 DEF SupervisorHome, I!At, I!AgentId
    <3>3. Reached(a)'
      <4> SUFFICES ASSUME c5[a].state = "live"
                   PROVE  c4'[c5[a].on] = a \/ I!BeingClosed(a)'
        BY <3>1 DEF Reached
      <4>1. c4'[c5[a].on] = c4[c5[a].on]
        BY <1>5, <2>1, <3>1
      <4>2. ASSUME NEW t \in Host, c3[t].at \in {"storing", "closing"}, c3[t].agent = a
            PROVE  I!BeingClosed(a)'
        <5>1. t = c5[a].on
          BY <4>2, AgentsParts DEF HandlerHome, I!At
        <5> QED
          BY <1>5, <3>1, <4>2, <5>1 DEF I!BeingClosed
      <4>3. ASSUME NEW d \in 1 .. MaxAgents, c6[d].at = "closing", c6[d].agent = a
            PROVE  I!BeingClosed(a)'
        <5>1. c5[d].on = c5[a].on /\ a # 0
          BY <4>3, AgentsParts, BoundsAssumption DEF SupervisorHome, I!At
        <5>2. c6'[d] = c6[d]
          BY <1>8, <1>9, <3>1, <5>1
        <5> QED
          BY <4>3, <5>2 DEF I!BeingClosed, I!AgentId
      <4> QED
        BY <2>1, <4>1, <4>2, <4>3 DEF Reached, I!BeingClosed, I!AgentId
    <3> QED
      BY <3>2, <3>3
  <2> QED
    BY <2>2, <2>3
<1>13. I!AgentsAreNumbered'
  <2>1. \A a \in I!AgentId : c5'[a].state = "none" <=> c5[a].state = "none"
    BY <1>8, <1>9 DEF I!AgentId
  <2> QED
    BY <2>1, AgentsParts, NoAgentIsBegun
<1> QED
  BY <1>1, <1>3, <1>4, <1>5, <1>7, <1>11, <1>12, <1>13, AgentsTypes, AgentsKept

(* Every step of the agents keeps their invariant.                         *)
LEMMA AgentsNextKeeps ==
  I!AgentsInvariant /\ [I!AgentsNext]_(I!agentsVars) => I!AgentsInvariant'
<1> SUFFICES ASSUME I!AgentsInvariant, [I!AgentsNext]_(I!agentsVars)
             PROVE  I!AgentsInvariant'
  OBVIOUS
<1>1. /\ I!AgentsTypeOK /\ I!AgentId = 1 .. MaxAgents /\ Len(c1) \in Nat /\ MaxFaults \in Nat
      /\ 0 \in 0 .. MaxAgents
      /\ c1 \in Bus /\ c2 \in [Host -> 0 .. Len(c1)]
      /\ c3 \in [Host -> HandState] /\ c4 \in [Host -> 0 .. MaxAgents]
      /\ c6 \in [1 .. MaxAgents -> SupState]
      /\ c7 \in 0 .. MaxAgents /\ c9 \in 0 .. MaxFaults
  BY AgentsParts, AgentsTypes, BoundsAssumption DEF Bus, I!AgentId
<1>2. CASE UNCHANGED I!agentsVars
  BY <1>2
  DEF I!agentsVars, I!AgentsInvariant, I!AgentsTypeOK, I!HandlersHaveMessages,
      I!AgentsAreNumbered, I!AgentsAreAtHome, I!ConnectedIsReachable, I!LiveAgents,
      I!BeingClosed, I!At, I!LeaseIsOfTheAgent
<1>3. CASE I!RoomEnds \/ \E task \in {"configure", "end"} : I!Request(task)
  BY <1>3, RequestsAreHarmless
<1>4. ASSUME NEW s \in Host, I!HandleConfigure(s) \/ I!HandleEnd(s)
      PROVE  I!AgentsInvariant'
  <2>1. /\ c3[s] = I!Idle /\ c3[s].at = "idle" /\ c2[s] < Len(c1)
        /\ UNCHANGED <<c1, c5, c6, c7, c8, c9>>
    BY <1>4 DEF I!HandleConfigure, I!HandleEnd, I!Unread, I!Idle
  <2>2. CASE I!Next1(s) /\ UNCHANGED <<c3, c4>>
    <3>1. c2' \in [Host -> 0 .. Len(c1')] /\ \A t \in Host : t # s => c2'[t] = c2[t]
      BY <1>1, <2>1, <2>2, MessageRead
    <3>2. c3' \in [Host -> HandState] /\ c4' \in [Host -> 0 .. MaxAgents] /\ c9' \in 0 .. MaxFaults
      BY <1>1, <2>1, <2>2
    <3> QED
      BY <2>1, <2>2, <3>1, <3>2, HandlerLooks
  <2>3. CASE c4[s] = 0 /\ I!GoTo(s, "jitter", 0) /\ UNCHANGED <<c2, c4>>
    <3>1. /\ c3' \in [Host -> HandState] /\ c3'[s].at = "jitter"
          /\ \A t \in Host : t # s => c3'[t] = c3[t]
      BY <1>1, <2>3, HandlerGoes
    <3>2. c2' \in [Host -> 0 .. Len(c1')] /\ c4' \in [Host -> 0 .. MaxAgents]
          /\ c9' \in 0 .. MaxFaults
      BY <1>1, <2>1, <2>3
    <3> QED
      BY <2>1, <2>3, <3>1, <3>2, HandlerLooks
  <2>4. CASE /\ c4[s] # 0 /\ I!GoTo(s, "closing", c4[s]) /\ c4' = [c4 EXCEPT ![s] = 0]
             /\ UNCHANGED c2
    <3>1. /\ c3' \in [Host -> HandState] /\ c3'[s].at = "closing" /\ c3'[s].agent = c4[s]
          /\ \A t \in Host : t # s => c3'[t] = c3[t]
      BY <1>1, <2>4, HandlerGoes
    <3>2. /\ c2' \in [Host -> 0 .. Len(c1')] /\ c4' \in [Host -> 0 .. MaxAgents] /\ c4'[s] = 0
          /\ c9' \in 0 .. MaxFaults
          /\ \A t \in Host : t # s => c4'[t] = c4[t]
      BY <1>1, <2>1, <2>4
    <3> QED
      BY <2>1, <2>4, <3>1, <3>2, HandlerLooks
  <2> QED
    BY <1>4, <2>2, <2>3, <2>4 DEF I!HandleConfigure, I!HandleEnd
<1>5. ASSUME NEW s \in Host, c3[s].at = "jitter", I!Next1(s), I!GoTo(s, "idle", 0),
             UNCHANGED <<c1, c4, c5, c6, c7, c8>>, c9' \in {c9, c9 + 1}, c9' \in 0 .. MaxFaults
      PROVE  I!AgentsInvariant'
  <2>1. c2[s] < Len(c1)
    <3>1. HandlerHome(s) /\ c3[s] # I!Idle
      BY <1>5, AgentsParts DEF I!Idle
    <3> QED
      BY <3>1 DEF HandlerHome
  <2>2. c2' \in [Host -> 0 .. Len(c1')] /\ \A t \in Host : t # s => c2'[t] = c2[t]
    BY <1>1, <1>5, <2>1, MessageRead
  <2>3. /\ c3' \in [Host -> HandState] /\ c3'[s] = I!Idle
        /\ \A t \in Host : t # s => c3'[t] = c3[t]
    BY <1>1, <1>5, HandlerGoes DEF I!Idle
  <2>4. c4' \in [Host -> 0 .. MaxAgents] /\ (c9' = 0 => c9 = 0)
    BY <1>1, <1>5
  <2> QED
    BY <1>5, <2>2, <2>3, <2>4, HandlerLooks
<1>6. ASSUME NEW s \in Host, I!TryLock(s) \/ I!TryLockFails(s)
      PROVE  I!AgentsInvariant'
  <2>1. CASE I!TryLock(s) /\ c7 = 0
    BY <1>6, <2>1, HandlerBegins DEF I!TryLock
  <2>2. CASE I!TryLock(s) /\ c7 # 0
    BY <1>1, <1>5, <2>2 DEF I!TryLock
  <2>3. CASE I!TryLockFails(s)
    <3>1. c9' \in 0 .. MaxFaults
      BY <1>1, <2>3 DEF I!TryLockFails
    <3> QED
      BY <1>5, <2>3, <3>1 DEF I!TryLockFails
  <2> QED
    BY <1>6, <2>1, <2>2, <2>3
<1>7. ASSUME NEW a \in 1 .. MaxAgents, I!LostLeadership(a) \/ I!RefreshFails(a) \/ I!RemoveByKey(a)
      PROVE  I!AgentsInvariant'
  <2>1. CASE I!LostLeadership(a)
    BY <1>1, <2>1, SupervisorTakesOut DEF I!LostLeadership
  <2>2. CASE I!RefreshFails(a)
    <3>1. c9' \in 0 .. MaxFaults /\ c9' # 0
      BY <1>1, <2>2 DEF I!RefreshFails
    <3> QED
      BY <2>2, <3>1, SupervisorTakesOut DEF I!RefreshFails
  <2>3. CASE I!RemoveByKey(a)
    BY <1>1, <2>3, SupervisorTakesOut DEF I!RemoveByKey
  <2> QED
    BY <1>7, <2>1, <2>2, <2>3
<1>8. ASSUME NEW a \in 1 .. MaxAgents, I!ContextEnded(a)
      PROVE  I!AgentsInvariant'
  <2>1. /\ c6[a].at = "watch" /\ c5[a].state = "done" /\ I!Watch(a, "unlocked", 0)
        /\ c7' = (IF c7 = a THEN 0 ELSE c7) /\ UNCHANGED <<c1, c2, c3, c4, c5, c8, c9>>
    BY <1>8 DEF I!ContextEnded, I!Unlocked
  <2>2. /\ c6' \in [1 .. MaxAgents -> SupState] /\ c6'[a].at = "unlocked"
        /\ \A b \in 1 .. MaxAgents : b # a => c6'[b] = c6[b]
    BY <1>1, <2>1, SupervisorGoes
  <2>3. c7' \in 0 .. MaxAgents /\ c9' \in 0 .. MaxFaults
    BY <1>1, <2>1
  <2>4. c9' = 0 => /\ c9 = 0
                   /\ \A b \in 1 .. MaxAgents : c5[b].state \in {"joining", "live"} => c7' = c7
    BY <2>1, AgentsParts DEF Leased
  <2>5. \A b \in 1 .. MaxAgents :
          \/ c6'[b] = c6[b]
          \/ c6[b].at = "watch" /\ c6'[b].at = "unlocked" /\ c5[b].state = "done"
    BY <2>1, <2>2
  <2>6. UNCHANGED <<c1, c2, c3, c4, c5, c8>>
    BY <2>1
  <2> QED
    BY <2>2, <2>3, <2>4, <2>5, <2>6, LockIsFreed
<1>9. ASSUME I!LeaseExpires \/ I!LeaseExpiresEarly
      PROVE  I!AgentsInvariant'
  <2>1. UNCHANGED <<c1, c2, c3, c4, c5, c6, c8>> /\ c7' = 0 /\ c9' \in 0 .. MaxFaults
    BY <1>1, <1>9 DEF I!LeaseExpires, I!LeaseExpiresEarly
  <2>2. ASSUME c9' = 0, NEW a \in 1 .. MaxAgents, c5[a].state \in {"joining", "live"}
        PROVE  FALSE
    <3>1. c9 = 0 /\ I!LeaseExpires
      BY <1>1, <1>9, <2>2 DEF I!LeaseExpires, I!LeaseExpiresEarly
    <3>2. Leased(a) /\ c5[a].on \in Host
      BY <1>1, <3>1, AgentsParts, AgentsTypes DEF AgentState
    <3>3. I!Renewed(a) /\ c7 = a
      BY <2>2, <3>2 DEF Leased, I!Renewed
    <3> QED
      BY <3>1, <3>3 DEF I!LeaseExpires
  <2>3. c9' = 0 => c9 = 0
    BY <1>1, <1>9 DEF I!LeaseExpires, I!LeaseExpiresEarly
  <2>4. \A a \in 1 .. MaxAgents :
          \/ c6'[a] = c6[a]
          \/ c6[a].at = "watch" /\ c6'[a].at = "unlocked" /\ c5[a].state = "done"
    BY <2>1
  <2>5. c6' \in [1 .. MaxAgents -> SupState] /\ c7' \in 0 .. MaxAgents
    BY <1>1, <2>1
  <2>6. UNCHANGED <<c1, c2, c3, c4, c5, c8>>
    BY <2>1
  <2>7. c9' = 0 => /\ c9 = 0
                   /\ \A a \in 1 .. MaxAgents : c5[a].state \in {"joining", "live"} => c7' = c7
    BY <2>2, <2>3
  <2> QED
    BY <2>1, <2>4, <2>5, <2>6, <2>7, LockIsFreed
<1> QED
  BY <1>1, <1>2, <1>3, <1>4, <1>6, <1>7, <1>8, <1>9, HandlerJoins, HandlerStores,
     SomebodyEnds, ServerRestarts
  DEF I!AgentsNext, I!HandlerStep, I!SupervisorStep

(* Without faults the agents that are connected are the one with the lock. *)
LEMMA AgentsReached == I!AgentsInvariant => I!OneAgentWithoutFaults /\ I!ConnectedIsReachable
<1> SUFFICES ASSUME I!AgentsInvariant
             PROVE  I!OneAgentWithoutFaults
  BY DEF I!AgentsInvariant
<1> SUFFICES ASSUME c9 = 0
             PROVE  I!Cardinality(I!LiveAgents) <= 1
  BY DEF I!OneAgentWithoutFaults
<1>1. I!LiveAgents \subseteq {c7}
  BY DEF I!AgentsInvariant, I!LeaseIsOfTheAgent, I!LiveAgents
<1>2. IsFiniteSet({c7}) /\ Cardinality({c7}) = 1
  BY FS_Singleton
<1>3. Cardinality(I!LiveAgents) <= 1
  BY <1>1, <1>2, FS_Subset
<1>4. \A T : I!Cardinality(T) = Cardinality(T)
  BY DEF I!Cardinality, Cardinality
<1> QED
  BY <1>3, <1>4

-----------------------------------------------------------------------------
(* A transcription stream: c1 is where its goroutines are, c2 the contexts *)
(* that were cancelled, c3 the audio, c4 the socket, c5 whether it is      *)
(* closed, c6 the queue, c7 the segment, c8 what was queued of it, c9 the  *)
(* results, c10 whether they are open, c11 the translations, c12 the       *)
(* usage session.                                                          *)

Queues == [open : BOOLEAN, len : 0 .. AudioQueue]
Segments == [manual : BOOLEAN, speech : BOOLEAN, samples : 0 .. MinCommit, pending : 0 .. 1]
EverPlace == UNION {V!Places[g] : g \in V!Goroutine}

(* The invariant in three parts: what the goroutines share besides their   *)
(* places, what is recorded, and where they are.                           *)
Shared ==
  /\ c2 \subseteq {"pipeline", "stream", "task"} /\ c3 \in BOOLEAN
  /\ c4 \in {"none", "open", "peer closed", "closed"} /\ c5 \in BOOLEAN

Recorded ==
  /\ c6 \in Queues /\ c7 \in Segments /\ c8 \in 0 .. MinCommit /\ c7.samples <= c8

Results ==
  /\ c9 \in Seq({"started", "result"}) /\ Len(c9) \in 0 .. ResultsSize
  /\ c10 \in BOOLEAN /\ c11 \in 0 .. MaxFinals /\ c12 \in {"none", "open", "closed"}

Placed == c1 \in [V!Goroutine -> EverPlace] /\ \A g \in V!Goroutine : c1[g] \in V!Places[g]

LEMMA StreamParts ==
  V!StreamInvariant <=> /\ Shared /\ Recorded /\ Results /\ Placed
                        /\ V!BegunInOrder /\ V!ClosedByCloser /\ V!MeterFollows
                        /\ V!ResultsClosedLast
BY DEF V!StreamInvariant, V!StreamTypeOK, V!PlacesOK, V!CommitHasAudio, Shared, Recorded,
       Results, Placed, Queues, Segments, EverPlace

LEMMA StreamPartsNext ==
  ASSUME Shared', Recorded', Results', Placed', V!BegunInOrder', V!ClosedByCloser',
         V!MeterFollows', V!ResultsClosedLast'
  PROVE  V!StreamInvariant'
BY DEF V!StreamInvariant, V!StreamTypeOK, V!PlacesOK, V!CommitHasAudio, Shared, Recorded,
       Results, Placed, Queues, Segments, EverPlace

LEMMA StreamPlaces ==
  /\ V!Places["task"] = {"dial", "config", "announce", "running", "returned", "failed"}
  /\ V!Places["pipe"] = {"none", "loop", "flush", "hang up", "wait", "done"}
  /\ V!Places["handle"] = {"none", "loop", "drain", "done"}
  /\ V!Places["write"] = {"none", "start", "loop", "nil", "done"}
  /\ V!Places["read"] = {"none", "loop", "message", "send", "error", "stopped", "done"}
  /\ V!Places["commit"] = {"none", "tick", "queue", "done"}
  /\ V!Places["close"] = {"none", "write", "read", "commit", "event", "done"}
BY DEF V!Places

LEMMA StreamStart == V!StreamInit => V!StreamInvariant
<1> SUFFICES ASSUME V!StreamInit
             PROVE  V!StreamInvariant
  OBVIOUS
<1>1. Shared
  BY DEF V!StreamInit, Shared
<1>7. c9 = <<>> /\ c10 /\ c11 = 0 /\ c12 = "none"
  BY DEF V!StreamInit
<1>8. Results
  BY <1>7, BoundsAssumption DEF Results
<1>2. Recorded /\ c6.len = 0
  BY BoundsAssumption, QueueAssumption DEF V!StreamInit, Recorded, Queues, Segments
<1>3. \A g \in V!Goroutine : c1[g] = IF g = "task" THEN "dial" ELSE "none"
  BY DEF V!StreamInit
<1>4. \A g \in V!Goroutine : c1[g] \in V!Places[g]
  BY <1>3, StreamPlaces DEF V!Goroutine
<1>5. Placed
  BY <1>4 DEF V!StreamInit, Placed, EverPlace
<1>6. /\ c1["task"] = "dial" /\ c1["pipe"] = "none" /\ c1["handle"] = "none"
      /\ c1["read"] = "none" /\ c1["commit"] = "none" /\ c1["close"] = "none"
  BY <1>3 DEF V!Goroutine
<1> QED
  BY <1>1, <1>2, <1>5, <1>6, <1>7, <1>8, StreamParts
  DEF V!BegunInOrder, V!ClosedByCloser, V!MeterFollows, V!ResultsClosedLast

(* One goroutine goes on.                                                  *)
LEMMA GoroutineGoes ==
  ASSUME Placed, NEW g \in V!Goroutine, NEW place \in V!Places[g],
         c1' = [c1 EXCEPT ![g] = place]
  PROVE  Placed' /\ c1'[g] = place /\ \A h \in V!Goroutine : h # g => c1'[h] = c1[h]
<1>1. place \in EverPlace
  BY DEF EverPlace
<1>2. V!Goroutine' = V!Goroutine /\ EverPlace' = EverPlace /\ V!Places' = V!Places
  BY DEF V!Goroutine, V!Places, EverPlace
<1> QED
  BY <1>1, <1>2 DEF Placed

(* What the writer, the pipe and the commit loop do: nobody else looks at  *)
(* where they are before they have begun.                                  *)
LEMMA WorkGoesOn ==
  ASSUME V!StreamInvariant, Shared', Recorded', UNCHANGED <<c9, c10, c11, c12>>,
         \/ UNCHANGED c1
         \/ \E g \in {"pipe", "write", "commit"} : \E place \in V!Places[g] :
              c1[g] # "none" /\ c1' = [c1 EXCEPT ![g] = place],
         c6'.len = c6.len \/ c1["pipe"] # "none" \/ c1["commit"] # "none" \/ c6.len > 0
  PROVE  /\ V!StreamInvariant'
         /\ c1'["task"] = c1["task"] /\ c12' = c12
<1>1. /\ Placed /\ Results /\ V!BegunInOrder /\ V!ClosedByCloser /\ V!MeterFollows
      /\ V!ResultsClosedLast
  BY StreamParts
<1>2. /\ Placed'
      /\ c1'["task"] = c1["task"] /\ c1'["handle"] = c1["handle"]
      /\ c1'["read"] = c1["read"] /\ c1'["close"] = c1["close"]
      /\ c1["pipe"] = "none" => c1'["pipe"] = "none"
      /\ c1["commit"] = "none" => c1'["commit"] = "none"
  <2>1. CASE UNCHANGED c1
    BY <1>1, <2>1 DEF Placed, V!Goroutine, V!Places, EverPlace
  <2>2. CASE ~UNCHANGED c1
    <3>1. PICK g \in {"pipe", "write", "commit"} : \E place \in V!Places[g] :
              c1[g] # "none" /\ c1' = [c1 EXCEPT ![g] = place]
      BY <2>2
    <3>2. /\ g \in V!Goroutine
          /\ {"task", "handle", "read", "close", "pipe", "commit"} \subseteq V!Goroutine
      BY DEF V!Goroutine
    <3> QED
      BY <1>1, <3>1, <3>2, GoroutineGoes
  <2> QED
    BY <2>1, <2>2
<1>3. Results'
  BY <1>1 DEF Results
<1>4. V!BegunInOrder'
  BY <1>1, <1>2 DEF V!BegunInOrder
<1>5. V!ClosedByCloser' /\ V!ResultsClosedLast' /\ V!MeterFollows'
  BY <1>1, <1>2 DEF V!ClosedByCloser, V!ResultsClosedLast, V!MeterFollows
<1> QED
  BY <1>2, <1>3, <1>4, <1>5, StreamPartsNext

(* What is offered to the queue has a place in it, and is counted once.    *)
LEMMA Offered ==
  ASSUME NEW len \in 0 .. AudioQueue, NEW n \in 0 .. 1, NEW k \in V!Offers(len, n)
  PROVE  k \in 0 .. 1 /\ len + k \in 0 .. AudioQueue
BY QueueAssumption DEF V!Offers

LEMMA Queued ==
  ASSUME Recorded, NEW k \in Nat, c6.len + k \in 0 .. AudioQueue, V!Put(k)
  PROVE  c6' \in Queues /\ c6'.len = c6.len + k
BY DEF Recorded, Queues, V!Put

LEMMA Counted ==
  ASSUME Recorded, NEW s \in Segments, s.samples <= c8, NEW k \in Nat, V!Record(s, k)
  PROVE  c7' \in Segments /\ c8' \in 0 .. MinCommit /\ c7'.samples <= c8'
<1>1. s.samples \in 0 .. MinCommit /\ c8 \in 0 .. MinCommit /\ MinCommit \in Nat
  BY BoundsAssumption DEF Recorded, Segments
<1> DEFINE n == V!AtMost(s.samples + k, MinCommit)
           m == V!AtMost(c8 + k, MinCommit)
<1>2. n \in 0 .. MinCommit /\ m \in 0 .. MinCommit /\ n <= m
  BY <1>1 DEF V!AtMost
<1>3. c7' = [s EXCEPT !.samples = n] /\ c8' = m
  BY DEF V!Record
<1> HIDE DEF n, m
<1> QED
  BY <1>2, <1>3 DEF Segments

(* A segment that begins, or that was committed, counts nothing.           *)
LEMMA Emptied ==
  ASSUME NEW s \in Segments, NEW b \in BOOLEAN
  PROVE  /\ [s EXCEPT !.speech = b, !.samples = 0, !.pending = 0] \in Segments
         /\ [s EXCEPT !.speech = b, !.samples = 0, !.pending = 0].samples = 0
         /\ [s EXCEPT !.speech = b, !.samples = 0, !.pending = 0].pending = 0
<1> DEFINE s1 == [s EXCEPT !.speech = b]
           s2 == [s1 EXCEPT !.samples = 0]
           s3 == [s2 EXCEPT !.pending = 0]
<1>1. 0 \in 0 .. MinCommit
  BY BoundsAssumption
<1>2. s1 \in Segments
  BY DEF Segments
<1> HIDE DEF s1
<1>3. s2 \in Segments /\ s2.samples = 0
  BY <1>1, <1>2 DEF Segments
<1> HIDE DEF s2
<1>4. s3 \in Segments /\ s3.samples = s2.samples /\ s3.pending = 0
  BY <1>3 DEF Segments
<1>5. s3 = [s EXCEPT !.speech = b, !.samples = 0, !.pending = 0]
  BY DEF s1, s2
<1> QED
  BY <1>3, <1>4, <1>5

LEMMA PipeRecords ==
  ASSUME V!StreamInvariant, V!PipeSample
  PROVE  Recorded'
<1>1. /\ Recorded /\ c6.len \in 0 .. AudioQueue /\ c6.len \in Nat /\ c7.pending \in 0 .. 1
      /\ c7 \in Segments /\ c7.samples <= c8 /\ c6 \in Queues /\ c8 \in 0 .. MinCommit
  BY StreamParts, QueueAssumption DEF Recorded, Queues, Segments
<1>2. CASE V!WriteSpeech
  <2> DEFINE begun == IF c7.speech THEN c7
                      ELSE [c7 EXCEPT !.speech = TRUE, !.samples = 0, !.pending = 0]
  <2>1. /\ begun \in Segments /\ begun.samples <= c8
        /\ c7.pending - begun.pending \in 0 .. 1
    <3>1. CASE c7.speech
      BY <1>1, <3>1
    <3>2. CASE ~c7.speech
      <4>1. begun = [c7 EXCEPT !.speech = TRUE, !.samples = 0, !.pending = 0]
        BY <3>2
      <4> HIDE DEF begun
      <4>2. begun \in Segments /\ begun.samples = 0 /\ begun.pending = 0
        BY <1>1, <4>1, Emptied
      <4> QED
        BY <1>1, <4>2
    <3> QED
      BY <3>1, <3>2
  <2>2. \E k \in V!Offers(c6.len, c7.pending - begun.pending) :
          \E j \in V!Offers(c6.len + k, 1) : V!Put(k + j) /\ V!Record(begun, k + j)
    BY <1>2 DEF V!WriteSpeech
  <2> HIDE DEF begun
  <2>3. PICK k \in V!Offers(c6.len, c7.pending - begun.pending) :
          \E j \in V!Offers(c6.len + k, 1) : V!Put(k + j) /\ V!Record(begun, k + j)
    BY <2>2
  <2>4. k \in 0 .. 1 /\ c6.len + k \in 0 .. AudioQueue
    BY <1>1, <2>1, Offered
  <2>5. PICK j \in V!Offers(c6.len + k, 1) : V!Put(k + j) /\ V!Record(begun, k + j)
    BY <2>3
  <2>6. j \in 0 .. 1 /\ c6.len + k + j \in 0 .. AudioQueue
    BY <2>4, Offered
  <2>7. k + j \in Nat /\ c6.len + (k + j) \in 0 .. AudioQueue
    BY <1>1, <2>4, <2>6
  <2>8. c6' \in Queues
    BY <1>1, <2>5, <2>7, Queued
  <2>9. c7' \in Segments /\ c8' \in 0 .. MinCommit /\ c7'.samples <= c8'
    BY <1>1, <2>1, <2>5, <2>7, Counted
  <2> QED
    BY <2>8, <2>9 DEF Recorded, Queues, Segments
<1>3. ASSUME NEW k \in V!Offers(c6.len, 1)
      PROVE  k \in Nat /\ c6.len + k \in 0 .. AudioQueue
  BY <1>1, Offered
<1>4. CASE V!WriteSilence
  <2>1. CASE c7.speech
    <3>1. PICK k \in V!Offers(c6.len, 1) : V!Put(k) /\ V!Record(c7, k)
      BY <1>4, <2>1 DEF V!WriteSilence
    <3>2. c6' \in Queues
      BY <1>1, <1>3, <3>1, Queued
    <3>3. c7' \in Segments /\ c8' \in 0 .. MinCommit /\ c7'.samples <= c8'
      BY <1>1, <1>3, <3>1, Counted
    <3> QED
      BY <3>2, <3>3 DEF Recorded, Queues, Segments
  <2>2. CASE ~c7.speech
    BY <1>1, <1>4, <2>2 DEF V!WriteSilence, Recorded, Queues, Segments
  <2> QED
    BY <2>1, <2>2
<1>5. CASE V!WriteThrough
  <2>1. PICK k \in V!Offers(c6.len, 1) : V!Put(k)
    BY <1>5 DEF V!WriteThrough
  <2>2. c6' \in Queues
    BY <1>1, <1>3, <2>1, Queued
  <2> QED
    BY <1>1, <1>5, <2>2 DEF V!WriteThrough, Recorded, Queues, Segments
<1> QED
  BY <1>2, <1>4, <1>5 DEF V!PipeSample

(* The last commit, and one of the commit loop.                            *)
LEMMA CommitRecords ==
  ASSUME V!StreamInvariant, V!CommitQueue \/ V!CloseFlush
  PROVE  Recorded'
<1> DEFINE empty == [c7 EXCEPT !.speech = FALSE, !.samples = 0, !.pending = 0]
<1>1. /\ Recorded /\ c6.len \in 0 .. AudioQueue /\ c6.len \in Nat
      /\ c7 \in Segments /\ c7.samples <= c8 /\ c6 \in Queues /\ c8 \in 0 .. MinCommit
      /\ 0 \in 0 .. MinCommit
  BY StreamParts, QueueAssumption, BoundsAssumption DEF Recorded, Queues, Segments
<1>2. empty \in Segments /\ empty.samples = 0
  BY <1>1, Emptied
<1>3. CASE V!CommitQueue
  <2>1. PICK k \in (IF c5 THEN {0} ELSE V!Offers(c6.len, 1)) :
          /\ V!Put(k)
          /\ c8' = IF k = 1 THEN 0 ELSE c8
          /\ c7' = IF k = 1 \/ c5 THEN empty ELSE c7
    BY <1>3 DEF V!CommitQueue
  <2> HIDE DEF empty
  <2>2. k \in Nat /\ c6.len + k \in 0 .. AudioQueue
    BY <1>1, <2>1, Offered
  <2>3. c6' \in Queues
    BY <1>1, <2>1, <2>2, Queued
  <2>4. c7' \in Segments /\ c8' \in 0 .. MinCommit /\ c7'.samples <= c8'
    BY <1>1, <1>2, <2>1
  <2> QED
    BY <2>3, <2>4 DEF Recorded, Queues, Segments
<1>4. CASE V!CloseFlush
  <2> DEFINE commits == c7.manual /\ c7.speech /\ c7.samples >= MinCommit /\ c6.len < AudioQueue
             k == IF commits THEN 1 ELSE 0
  <2>1. V!Put(k) /\ c8' = (IF commits THEN 0 ELSE c8) /\ c7' = empty
    BY <1>4 DEF V!CloseFlush
  <2>2. k \in Nat /\ c6.len + k \in 0 .. AudioQueue
    BY <1>1, QueueAssumption
  <2>3. c6' \in Queues
    BY <1>1, <2>1, <2>2, Queued
  <2> HIDE DEF empty, commits
  <2>4. c7' \in Segments /\ c8' \in 0 .. MinCommit /\ c7'.samples <= c8'
    BY <1>1, <1>2, <2>1
  <2> QED
    BY <2>3, <2>4 DEF Recorded, Queues, Segments
<1> QED
  BY <1>3, <1>4

(* What the writer, the pipe and the commit loop do, action by action.     *)
LEMMA WorkersGoOn ==
  ASSUME V!StreamInvariant,
         \/ V!CancelPipeline \/ V!CloseAudio \/ V!PeerCloses
         \/ V!PipeSample \/ V!PipeStop \/ V!CloseFlush \/ V!CloseSocket \/ V!CloseWait
         \/ V!CommitTick \/ V!CommitQueue \/ V!CommitEnd
         \/ V!WriterBegin \/ V!WriterWrite \/ V!WriterEnd
  PROVE  V!StreamInvariant' /\ c1'["task"] = c1["task"] /\ c12' = c12
<1>1. /\ Shared /\ Recorded /\ c6 \in Queues /\ c6.len \in 0 .. AudioQueue
      /\ c7 \in Segments /\ c8 \in 0 .. MinCommit /\ c7.samples <= c8
  BY StreamParts DEF Recorded, Queues
<1>2. CASE V!CancelPipeline \/ V!CloseAudio \/ V!PeerCloses
  <2>1. /\ UNCHANGED <<c1, c6, c7, c8, c9, c10, c11, c12>>
        /\ Shared' /\ Recorded'
    BY <1>1, <1>2
    DEF V!CancelPipeline, V!CloseAudio, V!PeerCloses, Shared, Recorded, Queues, Segments
  <2> QED
    BY <2>1, WorkGoesOn
<1>3. CASE V!PipeSample
  <2>1. /\ UNCHANGED <<c1, c9, c10, c11, c12>> /\ c1["pipe"] # "none" /\ Shared'
    BY <1>1, <1>3 DEF V!PipeSample, Shared
  <2> QED
    BY <1>3, <2>1, PipeRecords, WorkGoesOn
<1>4. CASE V!CloseFlush
  <2>1. /\ UNCHANGED <<c9, c10, c11, c12>> /\ c1["pipe"] = "flush" /\ Shared'
        /\ c1' = [c1 EXCEPT !["pipe"] = "hang up"]
    BY <1>1, <1>4 DEF V!CloseFlush, Shared
  <2> QED
    BY <1>4, <2>1, CommitRecords, StreamPlaces, WorkGoesOn
<1>5. CASE V!CommitQueue
  <2>1. /\ UNCHANGED <<c9, c10, c11, c12>> /\ c1["commit"] = "queue" /\ Shared'
        /\ c1' = [c1 EXCEPT !["commit"] = "tick"]
    BY <1>1, <1>5 DEF V!CommitQueue, Shared
  <2> QED
    BY <1>5, <2>1, CommitRecords, StreamPlaces, WorkGoesOn
<1>6. CASE V!PipeStop \/ V!CloseWait
  <2>1. /\ UNCHANGED <<c6, c7, c8, c9, c10, c11, c12>>
        /\ c1["pipe"] # "none"
        /\ \/ c1' = [c1 EXCEPT !["pipe"] = "flush"]
           \/ c1' = [c1 EXCEPT !["pipe"] = "done"]
    BY <1>6 DEF V!PipeStop, V!CloseWait
  <2>2. Shared' /\ Recorded'
    BY <1>1, <1>6, <2>1 DEF V!PipeStop, V!CloseWait, Shared, Recorded, Queues, Segments
  <2> QED
    BY <2>1, <2>2, StreamPlaces, WorkGoesOn
<1>7. CASE V!CloseSocket
  <2>1. /\ UNCHANGED <<c7, c8, c9, c10, c11, c12>> /\ c1["pipe"] # "none"
        /\ c1' = [c1 EXCEPT !["pipe"] = "wait"] /\ c6' = [c6 EXCEPT !.open = FALSE]
    BY <1>7 DEF V!CloseSocket
  <2>2. Shared'
    BY <1>1, <1>7 DEF V!CloseSocket, Shared
  <2>3. c6' \in Queues
    BY <1>1, <2>1 DEF Queues
  <2>4. Recorded'
    BY <1>1, <2>1, <2>3 DEF Recorded, Queues, Segments
  <2> QED
    BY <2>1, <2>2, <2>4, StreamPlaces, WorkGoesOn
<1>8. CASE V!CommitTick \/ V!CommitEnd
  <2>1. /\ UNCHANGED <<c2, c3, c4, c5, c6, c7, c8, c9, c10, c11, c12>>
        /\ c1["commit"] # "none"
        /\ \/ c1' = [c1 EXCEPT !["commit"] = "queue"]
           \/ c1' = [c1 EXCEPT !["commit"] = "done"]
    BY <1>8 DEF V!CommitTick, V!CommitEnd
  <2>2. Shared' /\ Recorded'
    BY <1>1, <2>1 DEF Shared, Recorded, Queues, Segments
  <2> QED
    BY <2>1, <2>2, StreamPlaces, WorkGoesOn
<1>9. CASE V!WriterBegin \/ V!WriterEnd
  <2>1. /\ UNCHANGED <<c2, c3, c4, c5, c6, c7, c8, c9, c10, c11, c12>>
        /\ c1["write"] # "none"
        /\ \/ c1' = [c1 EXCEPT !["write"] = "loop"]
           \/ c1' = [c1 EXCEPT !["write"] = "nil"]
           \/ c1' = [c1 EXCEPT !["write"] = "done"]
    BY <1>9 DEF V!WriterBegin, V!WriterEnd
  <2>2. Shared' /\ Recorded'
    BY <1>1, <2>1 DEF Shared, Recorded, Queues, Segments
  <2> QED
    BY <2>1, <2>2, StreamPlaces, WorkGoesOn
<1>10. CASE V!WriterWrite
  <2>1. /\ UNCHANGED <<c2, c3, c4, c5, c7, c8, c9, c10, c11, c12>>
        /\ c1["write"] # "none" /\ c6.len > 0
        /\ c1' = c1 \/ c1' = [c1 EXCEPT !["write"] = "done"]
        /\ c6' = [c6 EXCEPT !.len = c6.len - 1]
    BY <1>10 DEF V!WriterWrite
  <2>2. c6.len - 1 \in 0 .. AudioQueue
    BY <1>1, <2>1, QueueAssumption
  <2>3. c6' \in Queues
    BY <1>1, <2>1, <2>2 DEF Queues
  <2>4. Shared' /\ Recorded'
    BY <1>1, <2>1, <2>3 DEF Shared, Recorded, Queues, Segments
  <2> QED
    BY <2>1, <2>4, StreamPlaces, WorkGoesOn
<1> QED
  BY <1>2, <1>3, <1>4, <1>5, <1>6, <1>7, <1>8, <1>9, <1>10

(* The reader and the translations send results, which announce nothing.   *)
LEMMA ResultIsSent ==
  ASSUME Results, V!MeterFollows,
         \/ c9' = c9
         \/ Len(c9) < ResultsSize /\ c9' = Append(c9, "result"),
         UNCHANGED c12, c1'["task"] = c1["task"], c1'["handle"] = c1["handle"]
  PROVE  c9' \in Seq({"started", "result"}) /\ Len(c9') \in 0 .. ResultsSize /\ V!MeterFollows'
<1>1. c9' \in Seq({"started", "result"}) /\ Len(c9') \in 0 .. ResultsSize
  BY BoundsAssumption DEF Results
<1>2. \A i \in 1 .. Len(c9') : c9'[i] = "started" => i \in 1 .. Len(c9) /\ c9[i] = "started"
  BY DEF Results
<1> QED
  BY <1>1, <1>2 DEF V!MeterFollows

LEMMA ReaderGoesOn ==
  ASSUME V!StreamInvariant, UNCHANGED <<c2, c3, c4, c5, c6, c7, c8, c10, c12>>,
         \/ UNCHANGED c1
         \/ \E place \in V!Places["read"] :
              c1["read"] \notin {"none", "done"} /\ c1' = [c1 EXCEPT !["read"] = place],
         \/ c9' = c9
         \/ Len(c9) < ResultsSize /\ c9' = Append(c9, "result"),
         c11' \in 0 .. MaxFinals, c11' # 0 => c11 # 0 \/ c1["read"] = "message"
  PROVE  V!StreamInvariant' /\ c1'["task"] = c1["task"] /\ c12' = c12
<1>1. /\ Shared /\ Recorded /\ Placed /\ Results /\ V!BegunInOrder /\ V!ClosedByCloser
      /\ V!MeterFollows /\ V!ResultsClosedLast
  BY StreamParts
<1>2. /\ Placed'
      /\ c1'["task"] = c1["task"] /\ c1'["handle"] = c1["handle"] /\ c1'["pipe"] = c1["pipe"]
      /\ c1'["commit"] = c1["commit"] /\ c1'["close"] = c1["close"]
      /\ c1'["read"] = c1["read"] \/ c1["read"] \notin {"none", "done"}
  <2>1. CASE UNCHANGED c1
    BY <1>1, <2>1 DEF Placed, V!Goroutine, V!Places, EverPlace
  <2>2. CASE ~UNCHANGED c1
    <3>1. PICK place \in V!Places["read"] :
              c1["read"] \notin {"none", "done"} /\ c1' = [c1 EXCEPT !["read"] = place]
      BY <2>2
    <3>2. {"task", "handle", "read", "close", "pipe", "commit"} \subseteq V!Goroutine
      BY DEF V!Goroutine
    <3>3. Placed' /\ \A h \in V!Goroutine : h # "read" => c1'[h] = c1[h]
      BY <1>1, <3>1, <3>2, GoroutineGoes
    <3>4. /\ c1'["task"] = c1["task"] /\ c1'["handle"] = c1["handle"]
          /\ c1'["pipe"] = c1["pipe"] /\ c1'["commit"] = c1["commit"]
          /\ c1'["close"] = c1["close"]
      BY <3>2, <3>3
    <3> QED
      BY <3>1, <3>3, <3>4
  <2> QED
    BY <2>1, <2>2
<1>3. V!MeterFollows' /\ Results'
  BY <1>1, <1>2, ResultIsSent DEF Results
<1>4. V!BegunInOrder'
  BY <1>1, <1>2 DEF V!BegunInOrder
<1>5. V!ClosedByCloser' /\ V!ResultsClosedLast'
  BY <1>1, <1>2 DEF V!ClosedByCloser, V!ResultsClosedLast
<1>6. Shared' /\ Recorded'
  BY <1>1 DEF Shared, Recorded, Queues, Segments
<1> QED
  BY <1>2, <1>3, <1>4, <1>5, <1>6, StreamPartsNext

LEMMA ReaderSteps ==
  ASSUME V!StreamInvariant,
         \/ V!ReaderLoop \/ V!ReaderMessage \/ V!ReaderSend \/ V!ReaderFails \/ V!ReaderStop
         \/ V!TranslationEnds
  PROVE  V!StreamInvariant' /\ c1'["task"] = c1["task"] /\ c12' = c12
<1>1. c11 \in 0 .. MaxFinals /\ c11 \in Nat /\ MaxFinals \in Nat
  BY StreamParts, BoundsAssumption DEF Results
<1>2. UNCHANGED <<c2, c3, c4, c5, c6, c7, c8, c10, c12>>
  BY DEF V!ReaderLoop, V!ReaderMessage, V!ReaderSend, V!ReaderFails, V!ReaderStop, V!TranslationEnds
<1>3. \/ UNCHANGED c1
      \/ \E place \in V!Places["read"] :
           c1["read"] \notin {"none", "done"} /\ c1' = [c1 EXCEPT !["read"] = place]
  BY StreamPlaces
  DEF V!ReaderLoop, V!ReaderMessage, V!ReaderSend, V!ReaderFails, V!ReaderStop, V!TranslationEnds
<1>4. \/ c9' = c9
      \/ Len(c9) < ResultsSize /\ c9' = Append(c9, "result")
  BY DEF V!ReaderLoop, V!ReaderMessage, V!ReaderSend, V!ReaderFails, V!ReaderStop,
         V!TranslationEnds, V!SafeSend
<1>5. c11' \in 0 .. MaxFinals /\ (c11' # 0 => c11 # 0 \/ c1["read"] = "message")
  BY <1>1
  DEF V!ReaderLoop, V!ReaderMessage, V!ReaderSend, V!ReaderFails, V!ReaderStop, V!TranslationEnds
<1> QED
  BY <1>2, <1>3, <1>4, <1>5, ReaderGoesOn

(* Who waits for the groups closes the results when nobody can send one.   *)
LEMMA CloserGoesOn ==
  ASSUME V!StreamInvariant, V!CloserWait
  PROVE  V!StreamInvariant' /\ c1'["task"] = c1["task"] /\ c12' = c12
<1>1. /\ Shared /\ Recorded /\ Placed /\ Results /\ V!BegunInOrder /\ V!ClosedByCloser
      /\ V!MeterFollows /\ V!ResultsClosedLast
  BY StreamParts
<1>2. UNCHANGED <<c2, c3, c4, c5, c6, c7, c8, c9, c11, c12>>
  BY DEF V!CloserWait
<1>3. PICK place \in {"read", "commit", "event", "done"} :
        /\ c1' = [c1 EXCEPT !["close"] = place] /\ (~c10' <=> place = "done") /\ c10' \in BOOLEAN
        /\ c1["close"] \notin {"none", "done"}
        /\ place = "commit" => c1["read"] = "done"
        /\ place = "event" => c1["close"] = "commit"
        /\ place = "done" => c1["close"] = "event" /\ c11 = 0
  <2> DEFINE Goes(at, next) == /\ c1["close"] = at /\ c10' = (next # "done")
                               /\ c1' = [c1 EXCEPT !["close"] = next]
  <2>1. \/ Goes("write", "read") \/ Goes("commit", "event")
        \/ c1["read"] = "done" /\ Goes("read", "commit")
        \/ c11 = 0 /\ Goes("event", "done")
    <3>1. /\ V!CloserNext["write"] = "read" /\ V!CloserNext["read"] = "commit"
          /\ V!CloserNext["commit"] = "event" /\ V!CloserNext["event"] = "done"
      BY DEF V!CloserNext
    <3>2. CASE c1["close"] = "write"
      BY <3>1, <3>2 DEF V!CloserWait
    <3>3. CASE c1["close"] = "read"
      BY <3>1, <3>3 DEF V!CloserWait, V!GroupDone
    <3>4. CASE c1["close"] = "commit"
      BY <3>1, <3>4 DEF V!CloserWait
    <3>5. CASE c1["close"] = "event"
      BY <3>1, <3>5 DEF V!CloserWait, V!GroupDone
    <3> QED
      BY <3>2, <3>3, <3>4, <3>5 DEF V!CloserWait
  <2> QED
    BY <2>1
<1>4. "close" \in V!Goroutine /\ place \in V!Places["close"]
  BY StreamPlaces DEF V!Goroutine
<1>5. Placed' /\ c1'["close"] = place /\ \A h \in V!Goroutine : h # "close" => c1'[h] = c1[h]
  BY <1>1, <1>3, <1>4, GoroutineGoes
<1>6. /\ c1'["task"] = c1["task"] /\ c1'["handle"] = c1["handle"] /\ c1'["read"] = c1["read"]
      /\ c1'["pipe"] = c1["pipe"] /\ c1'["commit"] = c1["commit"]
  BY <1>5 DEF V!Goroutine
<1>7. V!ClosedByCloser' /\ V!ResultsClosedLast'
  BY <1>1, <1>2, <1>3, <1>5, <1>6 DEF V!ClosedByCloser, V!ResultsClosedLast
<1>8. V!BegunInOrder'
  BY <1>1, <1>2, <1>3, <1>5, <1>6 DEF V!BegunInOrder
<1>9. V!MeterFollows'
  BY <1>1, <1>2, <1>6 DEF V!MeterFollows
<1>10. Results' /\ Shared' /\ Recorded'
  BY <1>1, <1>2, <1>3 DEF Results, Shared, Recorded, Queues, Segments
<1> QED
  BY <1>2, <1>5, <1>6, <1>7, <1>8, <1>9, <1>10, StreamPartsNext

(* The results are handled while the task runs; the first opens the usage  *)
(* session, and the end of them closes it.                                 *)
LEMMA ResultsAreHandled ==
  ASSUME V!StreamInvariant, V!HandleEvent \/ V!HandleDrain \/ V!HandleEnd
  PROVE  /\ V!StreamInvariant' /\ c1["task"] = "running" /\ c1'["task"] = "running"
         /\ \/ c12' = c12
            \/ c12 = "none" /\ c12' = "open"
            \/ c12 # "closed" /\ c12' = "closed"
<1>1. /\ Shared /\ Recorded /\ Placed /\ Results /\ V!BegunInOrder /\ V!ClosedByCloser
      /\ V!MeterFollows /\ V!ResultsClosedLast
  BY StreamParts
<1>2. UNCHANGED <<c3, c4, c5, c6, c7, c8, c10, c11>> /\ c1["handle"] \in {"loop", "drain"}
  BY DEF V!HandleEvent, V!HandleDrain, V!HandleEnd
<1>3. c1["task"] = "running"
  <2>1. c1["task"] \in V!Places["task"]
    BY <1>1 DEF Placed, V!Goroutine
  <2> QED
    BY <1>1, <1>2, <2>1, StreamPlaces DEF V!BegunInOrder
<1>4. /\ Placed' /\ Shared'
      /\ c1'["task"] = c1["task"] /\ c1'["pipe"] = c1["pipe"] /\ c1'["read"] = c1["read"]
      /\ c1'["commit"] = c1["commit"] /\ c1'["close"] = c1["close"]
      /\ \/ c1'["handle"] = c1["handle"] /\ V!HandleEvent
         \/ c1'["handle"] = "drain" /\ c12' = c12 /\ c9' = c9
         \/ c1'["handle"] = "done" /\ c12' = "closed" /\ c9' = <<>> /\ c9 = <<>>
  <2>1. CASE V!HandleEvent
    <3>1. c1' = c1 /\ c2' = c2
      BY <2>1 DEF V!HandleEvent
    <3> QED
      BY <1>1, <1>2, <2>1, <3>1 DEF Placed, V!Goroutine, V!Places, EverPlace, Shared
  <2>2. CASE V!HandleDrain \/ V!HandleEnd
    <3>1. \/ c1' = [c1 EXCEPT !["handle"] = "drain"] /\ UNCHANGED <<c2, c9, c12>>
          \/ /\ c1' = [c1 EXCEPT !["handle"] = "done"] /\ c12' = "closed" /\ c9' = <<>>
             /\ c9 = <<>> /\ c2' = c2 \cup {"task"}
      BY <2>2 DEF V!HandleDrain, V!HandleEnd
    <3>2. PICK place \in {"drain", "done"} : c1' = [c1 EXCEPT !["handle"] = place]
      BY <3>1
    <3>3. place \in V!Places["handle"] /\ "handle" \in V!Goroutine
      BY StreamPlaces DEF V!Goroutine
    <3>4. Placed' /\ c1'["handle"] = place
          /\ \A h \in V!Goroutine : h # "handle" => c1'[h] = c1[h]
      BY <1>1, <3>2, <3>3, GoroutineGoes
    <3>5. Shared'
      BY <1>1, <1>2, <3>1 DEF Shared
    <3>6. c1 \in [V!Goroutine -> EverPlace]
      BY <1>1 DEF Placed
    <3>7. \/ c1'["handle"] = "drain" /\ c12' = c12 /\ c9' = c9
          \/ c1'["handle"] = "done" /\ c12' = "closed" /\ c9' = <<>> /\ c9 = <<>>
      BY <3>1, <3>3, <3>6
    <3> QED
      BY <3>4, <3>5, <3>7 DEF V!Goroutine
  <2> QED
    BY <2>1, <2>2
<1>5. /\ c9' \in Seq({"started", "result"}) /\ Len(c9') \in 0 .. ResultsSize
      /\ c12' \in {"none", "open", "closed"} /\ V!MeterFollows'
      /\ \/ c12' = c12
         \/ c12 = "none" /\ c12' = "open"
         \/ c12 # "closed" /\ c12' = "closed"
  <2>1. CASE V!HandleEvent /\ c1'["handle"] = c1["handle"]
    <3>1. c9 # <<>> /\ c9' = Tail(c9) /\ c12' = IF Head(c9) = "started" THEN "open" ELSE c12
      BY <2>1 DEF V!HandleEvent
    <3>2. /\ c9' \in Seq({"started", "result"}) /\ Len(c9) > 0 /\ Len(c9') = Len(c9) - 1
          /\ Len(c9) \in Nat /\ Head(c9) = c9[1]
          /\ \A i \in 1 .. Len(c9') : i + 1 \in 1 .. Len(c9) /\ i + 1 # 1 /\ c9'[i] = c9[i + 1]
      BY <1>1, <3>1 DEF Results
    <3>3. Len(c9') \in 0 .. ResultsSize
      BY <1>1, <3>2, BoundsAssumption DEF Results
    <3>4. CASE Head(c9) = "started"
      <4>1. 1 \in 1 .. Len(c9) /\ c9[1] = "started"
        BY <3>2, <3>4
      <4>2. c12 = "none"
        BY <1>1, <4>1 DEF V!MeterFollows
      <4>3. \A i \in 1 .. Len(c9') : c9'[i] # "started"
        BY <1>1, <3>2, <4>1 DEF V!MeterFollows
      <4> QED
        BY <1>1, <1>2, <1>4, <2>1, <3>1, <3>2, <3>3, <3>4, <4>2, <4>3 DEF V!MeterFollows
    <3>5. CASE Head(c9) # "started"
      <4>1. c12' = c12
        BY <3>1, <3>5
      <4>2. \A i \in 1 .. Len(c9') : c9'[i] = "started" => c12 = "none"
        BY <1>1, <3>2 DEF V!MeterFollows
      <4>3. \A i, j \in 1 .. Len(c9') : c9'[i] = "started" /\ c9'[j] = "started" => i = j
        <5> TAKE i, j \in 1 .. Len(c9')
        <5>1. /\ i + 1 \in 1 .. Len(c9) /\ c9'[i] = c9[i + 1]
              /\ j + 1 \in 1 .. Len(c9) /\ c9'[j] = c9[j + 1]
          BY <3>2
        <5>2. c9[i + 1] = "started" /\ c9[j + 1] = "started" => i + 1 = j + 1
          BY <1>1, <5>1 DEF V!MeterFollows
        <5> QED
          BY <5>1, <5>2
      <4> QED
        BY <1>1, <1>2, <1>3, <1>4, <2>1, <3>2, <3>3, <4>1, <4>2, <4>3 DEF V!MeterFollows, Results
    <3> QED
      BY <3>4, <3>5
  <2>2. CASE c1'["handle"] = "drain" /\ c12' = c12 /\ c9' = c9
    BY <1>1, <1>2, <1>4, <2>2 DEF V!MeterFollows, Results
  <2>3. CASE c1'["handle"] = "done" /\ c12' = "closed" /\ c9' = <<>> /\ c9 = <<>>
    BY <1>1, <1>2, <2>3 DEF V!MeterFollows, Results
  <2> QED
    BY <1>4, <2>1, <2>2, <2>3
<1>6. Results' /\ Recorded'
  BY <1>1, <1>2, <1>5 DEF Results, Recorded, Queues, Segments
<1>7. V!BegunInOrder' /\ V!ClosedByCloser' /\ V!ResultsClosedLast'
  <2>1. c1'["handle"] # "none"
    BY <1>2, <1>4
  <2> QED
    BY <1>1, <1>2, <1>3, <1>4, <2>1 DEF V!BegunInOrder, V!ClosedByCloser, V!ResultsClosedLast
<1> QED
  BY <1>3, <1>4, <1>5, <1>6, <1>7, StreamPartsNext

(* The caller's goroutine: it fails while nothing has begun, or the task   *)
(* runs until its goroutines are done.                                     *)
LEMMA TaskGoesOn ==
  ASSUME V!StreamInvariant, V!Dial \/ V!Configure \/ V!Announce \/ V!TaskReturn
  PROVE  /\ V!StreamInvariant' /\ c12' = c12
         /\ \/ /\ c1["task"] \in {"dial", "config", "announce"}
               /\ c1'["task"] \in {"config", "announce", "running", "failed"}
            \/ c1["task"] = "running" /\ c1'["task"] = "returned" /\ c12 = "closed"
<1>1. /\ Shared /\ Recorded /\ Placed /\ Results /\ V!BegunInOrder /\ V!ClosedByCloser
      /\ V!MeterFollows /\ V!ResultsClosedLast
      /\ c6 \in Queues /\ c6.len \in 0 .. AudioQueue /\ c7 \in Segments
  BY StreamParts DEF Recorded, Queues
<1>2. ASSUME NEW g \in V!Goroutine, NEW place \in V!Places[g]
      PROVE  place \in EverPlace
  BY DEF EverPlace
<1>3. c1 \in [V!Goroutine -> EverPlace] /\ \A g \in V!Goroutine : c1[g] \in V!Places[g]
  BY <1>1 DEF Placed
<1>4. ASSUME c1' \in [V!Goroutine -> EverPlace], \A g \in V!Goroutine : c1'[g] \in V!Places[g]
      PROVE  Placed'
  BY <1>4 DEF Placed, V!Goroutine, V!Places, EverPlace
<1>5. CASE V!Dial
  <2>1. /\ UNCHANGED <<c3, c5, c6, c7, c8, c9, c10, c11, c12>> /\ c1["task"] = "dial"
        /\ \/ /\ c1' = [c1 EXCEPT !["task"] = "config", !["write"] = "start"]
              /\ c4' = "open" /\ c2' = c2
           \/ c1' = [c1 EXCEPT !["task"] = "failed"] /\ c2' = c2 \cup {"stream"} /\ c4' = c4
    BY <1>5 DEF V!Dial
  <2>2. Shared' /\ Recorded' /\ Results'
    BY <1>1, <2>1 DEF Shared, Recorded, Results, Queues, Segments
  <2>3. /\ c1'["task"] \in {"config", "failed"} /\ c1'["write"] \in {c1["write"], "start"}
        /\ c1' \in [V!Goroutine -> EverPlace]
        /\ \A g \in V!Goroutine : g \notin {"task", "write"} => c1'[g] = c1[g]
    <3>1. /\ {"config", "failed", "start"} \subseteq EverPlace
          /\ {"task", "write"} \subseteq V!Goroutine
      BY <1>2, StreamPlaces DEF V!Goroutine
    <3> QED
      BY <1>3, <2>1, <3>1
  <2>4. /\ c1'["pipe"] = c1["pipe"] /\ c1'["handle"] = c1["handle"] /\ c1'["read"] = c1["read"]
        /\ c1'["commit"] = c1["commit"] /\ c1'["close"] = c1["close"]
    BY <2>3 DEF V!Goroutine
  <2>5. Placed'
    <3>1. \A g \in V!Goroutine : c1'[g] \in V!Places[g]
      <4> TAKE g \in V!Goroutine
      <4>1. CASE g = "task"
        BY <2>3, <4>1, StreamPlaces
      <4>2. CASE g = "write"
        BY <1>3, <2>3, <4>2, StreamPlaces
      <4>3. CASE g \notin {"task", "write"}
        BY <1>3, <2>3, <4>3
      <4> QED
        BY <4>1, <4>2, <4>3
    <3> QED
      BY <1>4, <2>3, <3>1
  <2>6. V!BegunInOrder' /\ V!ClosedByCloser' /\ V!ResultsClosedLast'
    BY <1>1, <2>1, <2>3, <2>4 DEF V!BegunInOrder, V!ClosedByCloser, V!ResultsClosedLast
  <2>7. V!MeterFollows'
    BY <1>1, <2>1, <2>3, <2>4 DEF V!MeterFollows
  <2> QED
    BY <2>1, <2>2, <2>3, <2>5, <2>6, <2>7, StreamPartsNext
<1>6. CASE V!Configure
  <2>1. /\ UNCHANGED <<c3, c5, c8, c9, c10, c11, c12>> /\ c1["task"] = "config"
        /\ \/ /\ c6' = [c6 EXCEPT !.len = c6.len + 1] /\ UNCHANGED <<c2, c4>>
              /\ \E manual \in BOOLEAN :
                    /\ c7' = [c7 EXCEPT !.manual = manual]
                    /\ c1' = [c1 EXCEPT !["task"] = "announce", !["read"] = "loop",
                                        !["commit"] = IF manual THEN "tick" ELSE "done"]
           \/ /\ c1' = [c1 EXCEPT !["task"] = "failed"] /\ c4' = "closed"
              /\ c2' = c2 \cup {"stream"} /\ UNCHANGED <<c6, c7>>
    BY <1>6 DEF V!Configure
  <2>2. Shared' /\ Results'
    BY <1>1, <2>1 DEF Shared, Results
  <2>3. Recorded'
    <3>1. c6.len = 0 /\ 1 \in 0 .. AudioQueue
      BY <1>1, <2>1, QueueAssumption DEF V!BegunInOrder
    <3>2. c6' \in Queues
      BY <1>1, <2>1, <3>1 DEF Queues
    <3>3. c7' \in Segments /\ c7'.samples = c7.samples
      BY <1>1, <2>1 DEF Segments
    <3> QED
      BY <1>1, <2>1, <3>2, <3>3 DEF Recorded, Queues, Segments
  <2>4. /\ c1' \in [V!Goroutine -> EverPlace]
        /\ \/ /\ c1'["task"] = "announce" /\ c1'["read"] = "loop"
              /\ c1'["commit"] \in {"tick", "done"}
           \/ c1'["task"] = "failed" /\ c1'["read"] = c1["read"] /\ c1'["commit"] = c1["commit"]
        /\ \A g \in V!Goroutine : g \notin {"task", "read", "commit"} => c1'[g] = c1[g]
    <3>1. /\ {"announce", "failed", "loop", "tick", "done"} \subseteq EverPlace
          /\ {"task", "read", "commit"} \subseteq V!Goroutine
      BY <1>2, StreamPlaces DEF V!Goroutine
    <3>2. \/ \E p \in {"tick", "done"} :
                c1' = [c1 EXCEPT !["task"] = "announce", !["read"] = "loop", !["commit"] = p]
          \/ c1' = [c1 EXCEPT !["task"] = "failed"]
      BY <2>1
    <3> QED
      BY <1>3, <3>1, <3>2
  <2>5. /\ c1'["pipe"] = c1["pipe"] /\ c1'["handle"] = c1["handle"] /\ c1'["close"] = c1["close"]
    BY <2>4 DEF V!Goroutine
  <2>6. Placed'
    <3>1. \A g \in V!Goroutine : c1'[g] \in V!Places[g]
      <4> TAKE g \in V!Goroutine
      <4>1. CASE g = "task"
        BY <2>4, <4>1, StreamPlaces
      <4>2. CASE g = "read"
        BY <1>3, <2>4, <4>2, StreamPlaces
      <4>3. CASE g = "commit"
        BY <1>3, <2>4, <4>3, StreamPlaces
      <4>4. CASE g \notin {"task", "read", "commit"}
        BY <1>3, <2>4, <4>4
      <4> QED
        BY <4>1, <4>2, <4>3, <4>4
    <3> QED
      BY <1>4, <2>4, <3>1
  <2>7. V!BegunInOrder' /\ V!ClosedByCloser' /\ V!ResultsClosedLast'
    BY <1>1, <2>1, <2>4, <2>5 DEF V!BegunInOrder, V!ClosedByCloser, V!ResultsClosedLast
  <2>8. V!MeterFollows'
    BY <1>1, <2>1, <2>4, <2>5 DEF V!MeterFollows
  <2> QED
    BY <2>1, <2>2, <2>3, <2>4, <2>6, <2>7, <2>8, StreamPartsNext
<1>7. CASE V!Announce
  <2>1. /\ UNCHANGED <<c2, c3, c4, c5, c6, c7, c8, c10, c11, c12>> /\ c1["task"] = "announce"
        /\ c1' = [c1 EXCEPT !["task"] = "running", !["close"] = "write",
                            !["pipe"] = "loop", !["handle"] = "loop"]
        /\ \/ c9' = c9
           \/ Len(c9) < ResultsSize /\ c9' = Append(c9, "started")
    BY <1>7 DEF V!Announce, V!SafeSend
  <2>2. /\ c1' \in [V!Goroutine -> EverPlace]
        /\ c1'["task"] = "running" /\ c1'["close"] = "write"
        /\ c1'["pipe"] = "loop" /\ c1'["handle"] = "loop"
        /\ \A g \in V!Goroutine : g \notin {"task", "close", "pipe", "handle"} => c1'[g] = c1[g]
    <3>1. /\ {"running", "write", "loop"} \subseteq EverPlace
          /\ {"task", "close", "pipe", "handle"} \subseteq V!Goroutine
      BY <1>2, StreamPlaces DEF V!Goroutine
    <3> QED
      BY <1>3, <2>1, <3>1
  <2>3. c1'["read"] = c1["read"] /\ c1'["commit"] = c1["commit"]
    BY <2>2 DEF V!Goroutine
  <2>4. Placed'
    BY <1>3, <1>4, <2>2, StreamPlaces
  <2>5. c1["handle"] = "none" /\ c1["close"] = "none" /\ c12 = "none"
        /\ \A i \in 1 .. Len(c9) : c9[i] # "started"
    BY <1>1, <2>1 DEF V!BegunInOrder, V!MeterFollows
  <2>6. c9' \in Seq({"started", "result"}) /\ Len(c9') \in 0 .. ResultsSize
        /\ \A i \in 1 .. Len(c9') : c9'[i] = "started" => i = Len(c9) + 1
    <3>1. CASE c9' = c9
      BY <1>1, <2>5, <3>1 DEF Results
    <3>2. CASE Len(c9) < ResultsSize /\ c9' = Append(c9, "started")
      <4>1. c9 \in Seq({"started", "result"}) /\ Len(c9) \in Nat
        BY <1>1 DEF Results
      <4>2. Len(c9') = Len(c9) + 1 /\ \A i \in 1 .. Len(c9) : c9'[i] = c9[i]
        BY <3>2, <4>1
      <4>3. c9' \in Seq({"started", "result"}) /\ Len(c9') \in 0 .. ResultsSize
        BY <3>2, <4>1, <4>2, BoundsAssumption
      <4> QED
        BY <2>5, <4>1, <4>2, <4>3
    <3> QED
      BY <2>1, <3>1, <3>2
  <2>7. V!MeterFollows'
    BY <2>1, <2>2, <2>5, <2>6 DEF V!MeterFollows
  <2>8. Shared' /\ Recorded' /\ Results'
    BY <1>1, <2>1, <2>6 DEF Shared, Recorded, Results, Queues, Segments
  <2>9. V!BegunInOrder' /\ V!ClosedByCloser' /\ V!ResultsClosedLast'
    BY <1>1, <2>1, <2>2, <2>3, <2>5 DEF V!BegunInOrder, V!ClosedByCloser, V!ResultsClosedLast
  <2> QED
    BY <2>1, <2>2, <2>4, <2>7, <2>8, <2>9, StreamPartsNext
<1>8. CASE V!TaskReturn
  <2>1. /\ UNCHANGED <<c2, c3, c4, c5, c6, c7, c8, c9, c10, c11, c12>> /\ c1["task"] = "running"
        /\ c1["handle"] = "done" /\ c1' = [c1 EXCEPT !["task"] = "returned"]
    BY <1>8 DEF V!TaskReturn
  <2>2. "task" \in V!Goroutine /\ "returned" \in V!Places["task"]
    BY StreamPlaces DEF V!Goroutine
  <2>3. Placed' /\ c1'["task"] = "returned" /\ \A g \in V!Goroutine : g # "task" => c1'[g] = c1[g]
    BY <1>1, <2>1, <2>2, GoroutineGoes
  <2>4. /\ c1'["pipe"] = c1["pipe"] /\ c1'["handle"] = c1["handle"] /\ c1'["read"] = c1["read"]
        /\ c1'["commit"] = c1["commit"] /\ c1'["close"] = c1["close"]
    BY <2>3 DEF V!Goroutine
  <2>5. Shared' /\ Recorded' /\ Results'
    BY <1>1, <2>1 DEF Shared, Recorded, Results, Queues, Segments
  <2>6. V!BegunInOrder' /\ V!ClosedByCloser' /\ V!ResultsClosedLast'
    BY <1>1, <2>1, <2>3, <2>4 DEF V!BegunInOrder, V!ClosedByCloser, V!ResultsClosedLast
  <2>7. V!MeterFollows' /\ c12 = "closed"
    BY <1>1, <2>1, <2>3, <2>4 DEF V!MeterFollows
  <2> QED
    BY <2>1, <2>3, <2>5, <2>6, <2>7, StreamPartsNext
<1> QED
  BY <1>5, <1>6, <1>7, <1>8

(* Every step of a stream keeps its invariant, and is one of the task that *)
(* a room agent takes it for, or none.                                     *)
LEMMA StreamNextKeeps ==
  V!StreamInvariant /\ [V!StreamNext]_(V!streamVars) => V!StreamInvariant'
<1> SUFFICES ASSUME V!StreamInvariant, [V!StreamNext]_(V!streamVars)
             PROVE  V!StreamInvariant'
  OBVIOUS
<1>1. CASE UNCHANGED V!streamVars
  <2>1. UNCHANGED <<c1, c2, c3, c4, c5, c6, c7, c8, c9, c10, c11, c12>>
    BY <1>1 DEF V!streamVars
  <2>2. Shared /\ Recorded
    BY StreamParts
  <2>3. Shared' /\ Recorded'
    BY <2>1, <2>2 DEF Shared, Recorded, Queues, Segments
  <2> QED
    BY <2>1, <2>3, WorkGoesOn
<1>2. CASE V!StreamNext
  BY <1>2, WorkersGoOn, ReaderSteps, CloserGoesOn, ResultsAreHandled, TaskGoesOn
  DEF V!StreamNext
<1> QED
  BY <1>1, <1>2

LEMMA StreamStartsTask == V!StreamInit => V!Phase = "new" /\ c12 = "none"
<1> SUFFICES ASSUME V!StreamInit
             PROVE  V!Phase = "new" /\ c12 = "none"
  OBVIOUS
<1>1. c1["task"] = "dial"
  BY DEF V!StreamInit, V!Goroutine
<1> QED
  BY <1>1 DEF V!StreamInit, V!Phase

LEMMA StreamStepsTask ==
  ASSUME active = "stream", active' = "stream", V!StreamInvariant, V!StreamNext
  PROVE  [Task!TaskNext]_(Task!taskVars)
<1> DEFINE where == c1["task"]
           phase == IF where \in {"dial", "config", "announce"} THEN "new" ELSE where
<1>1. V!Phase = phase /\ V!Phase' = phase'
  BY DEF V!Phase
<1>2. CASE where' = where /\ c12' = c12
  BY <1>1, <1>2 DEF Task!taskVars
<1>3. CASE V!HandleEvent \/ V!HandleDrain \/ V!HandleEnd
  <2>1. /\ where = "running" /\ where' = "running"
        /\ \/ c12' = c12
           \/ c12 = "none" /\ c12' = "open"
           \/ c12 # "closed" /\ c12' = "closed"
    BY <1>3, ResultsAreHandled
  <2>2. V!Phase = "running" /\ V!Phase' = "running"
    BY <1>1, <2>1
  <2> QED
    BY <2>1, <2>2 DEF Task!TaskNext, Task!OpenMeter, Task!CloseMeter, Task!taskVars
<1>4. CASE V!Dial \/ V!Configure \/ V!Announce \/ V!TaskReturn
  <2>1. /\ c12' = c12
        /\ \/ /\ where \in {"dial", "config", "announce"}
              /\ where' \in {"config", "announce", "running", "failed"}
           \/ where = "running" /\ where' = "returned" /\ c12 = "closed"
    BY <1>4, TaskGoesOn
  <2>2. \/ V!Phase = "new" /\ V!Phase' \in {"new", "running", "failed"}
        \/ V!Phase = "running" /\ V!Phase' = "returned" /\ c12 = "closed"
    BY <1>1, <2>1
  <2> QED
    BY <2>1, <2>2
    DEF Task!TaskNext, Task!Start, Task!Refuse, Task!Return, Task!taskVars
<1>5. CASE \/ V!CancelPipeline \/ V!CloseAudio \/ V!PeerCloses
           \/ V!PipeSample \/ V!PipeStop \/ V!CloseFlush \/ V!CloseSocket \/ V!CloseWait
           \/ V!CommitTick \/ V!CommitQueue \/ V!CommitEnd
           \/ V!WriterBegin \/ V!WriterWrite \/ V!WriterEnd
  BY <1>2, <1>5, WorkersGoOn
<1>6. CASE \/ V!ReaderLoop \/ V!ReaderMessage \/ V!ReaderSend \/ V!ReaderFails \/ V!ReaderStop
           \/ V!TranslationEnds
  BY <1>2, <1>6, ReaderSteps
<1>7. CASE V!CloserWait
  BY <1>2, <1>7, CloserGoesOn
<1> QED
  BY <1>3, <1>4, <1>5, <1>6, <1>7 DEF V!StreamNext

-----------------------------------------------------------------------------
(* The component that is active keeps its invariant, and the others have   *)
(* none to keep.                                                           *)
BackgroundInvariant ==
  /\ active \in {"stream", "export", "room agent", "agents", "synthesis"}
  /\ active = "stream" => V!StreamInvariant
  /\ active = "export" => E!ExportInvariant
  /\ active = "room agent" => G!AgentInvariant
  /\ active = "agents" => I!AgentsInvariant
  /\ active = "synthesis" => S!SynthesisInvariant

LEMMA BackgroundStarts == Init => BackgroundInvariant
BY StreamStart, ExportStart, RoomAgentStart, AgentsStart, SynthesisStart
DEF Init, BackgroundInvariant

LEMMA BackgroundGoesOn ==
  BackgroundInvariant /\ [Next]_<<active, cells>> => BackgroundInvariant'
<1> SUFFICES ASSUME BackgroundInvariant, [Next]_<<active, cells>>
             PROVE  BackgroundInvariant'
  OBVIOUS
<1>1. active' = active
  BY DEF Next
<1>2. CASE active = "stream"
  <2>1. [V!StreamNext]_(V!streamVars)
    BY <1>2 DEF Next, cells, V!streamVars
  <2> QED
    BY <1>1, <1>2, <2>1, StreamNextKeeps DEF BackgroundInvariant
<1>3. CASE active = "export"
  <2>1. [E!Next]_(E!vars)
    BY <1>3 DEF Next, cells, E!vars
  <2> QED
    BY <1>1, <1>3, <2>1, ExportNextKeeps DEF BackgroundInvariant
<1>4. CASE active = "room agent"
  <2>1. [G!AgentNext]_(G!agentVars)
    BY <1>4 DEF Next, cells, G!agentVars
  <2> QED
    BY <1>1, <1>4, <2>1, RoomAgentNextKeeps DEF BackgroundInvariant
<1>5. CASE active = "agents"
  <2>1. [I!AgentsNext]_(I!agentsVars)
    BY <1>5 DEF Next, cells, I!agentsVars
  <2> QED
    BY <1>1, <1>5, <2>1, AgentsNextKeeps DEF BackgroundInvariant
<1>6. CASE active = "synthesis"
  <2>1. [S!SynthesisNext]_(S!synthesisVars)
    BY <1>6 DEF Next, cells, S!synthesisVars
  <2> QED
    BY <1>1, <1>6, <2>1, SynthesisNextKeeps DEF BackgroundInvariant
<1> QED
  BY <1>2, <1>3, <1>4, <1>5, <1>6 DEF BackgroundInvariant

LEMMA BackgroundAlways == Spec => []BackgroundInvariant
<1>1. Spec => Init /\ [][Next]_<<active, cells>>
  BY DEF Spec
<1> QED
  BY <1>1, BackgroundStarts, BackgroundGoesOn, PTL

(* Every variable of the component that is active keeps its shape.         *)
THEOREM BackgroundTypesCorrect == Spec => []TypesOK
<1>1. BackgroundInvariant => TypesOK
  <2>1. V!StreamInvariant => V!StreamTypeOK
    BY DEF V!StreamInvariant
  <2>2. E!ExportInvariant => E!ExportTypeOK
    BY DEF E!ExportInvariant
  <2>3. G!AgentInvariant => G!AgentTypeOK
    BY DEF G!AgentInvariant
  <2>4. I!AgentsInvariant => I!AgentsTypeOK
    BY DEF I!AgentsInvariant
  <2>5. S!SynthesisInvariant => S!SynthesisTypeOK
    BY DEF S!SynthesisInvariant
  <2> QED
    BY <2>1, <2>2, <2>3, <2>4, <2>5 DEF BackgroundInvariant, TypesOK
<1> QED
  BY <1>1, BackgroundAlways, PTL

(* The results of a stream are closed after the last sender is gone, and a *)
(* commit is never sent for less audio than was queued, whatever the       *)
(* queues hold (realtime_stream.go).                                       *)
THEOREM StreamsKeepOrder == Spec => []StreamKeepsOrder
<1>1. BackgroundInvariant => StreamKeepsOrder
  BY DEF BackgroundInvariant, StreamKeepsOrder, V!StreamInvariant
<1> QED
  BY <1>1, BackgroundAlways, PTL

(* A run of a room agent that nobody cancelled is found by whoever ends    *)
(* the task, the track or the permission (room_agent.go).                  *)
THEOREM RunsStayReachable == Spec => []RunIsReachable
<1>1. BackgroundInvariant => RunIsReachable
  BY DEF BackgroundInvariant, RunIsReachable, G!AgentInvariant
<1> QED
  BY <1>1, BackgroundAlways, PTL

(* An agent that is connected is in its server's map or about to be closed,*)
(* over any number of servers, and as long as no lock expires under its    *)
(* holder a room has one (insights_agent.go).                              *)
THEOREM AgentsStayReachable == Spec => []AgentsAreReachable
<1>1. BackgroundInvariant => AgentsAreReachable
  BY AgentsReached DEF BackgroundInvariant, AgentsAreReachable
<1> QED
  BY <1>1, BackgroundAlways, PTL

(* Whoever takes the workers of speech synthesis out finds every agent     *)
(* that is connected (task_transcription_synthesis.go).                    *)
THEOREM AgentsStayOwned == Spec => []AgentsAreOwned
<1>1. BackgroundInvariant => AgentsAreOwned
  BY DEF BackgroundInvariant, AgentsAreOwned, S!SynthesisInvariant
<1> QED
  BY <1>1, BackgroundAlways, PTL

(* No event is in the artifacts of two sessions, as long as the lock of    *)
(* the room does not expire under an export (analytics_export.go).         *)
THEOREM EventsAreExportedOnce == Spec => []NoEventTwice
<1>1. BackgroundInvariant => NoEventTwice
  BY DEF BackgroundInvariant, NoEventTwice, E!ExportInvariant, E!NoEventTwice, E!EventsAreSpent
<1> QED
  BY <1>1, BackgroundAlways, PTL

(* An export never deletes what the session that runs now has recorded:    *)
(* the session began under the room's lock, which the export of an earlier *)
(* one holds while it deletes (analytics_export.go:47-72).                 *)
THEOREM ExportsSpareSessions == Spec => ExportSparesOpenSession
<1>1. BackgroundInvariant /\ [Next]_<<active, cells>> =>
        [active = "export" => E!SparesOpenSession]_cells
  <2> SUFFICES ASSUME BackgroundInvariant, Next, active = "export"
               PROVE  E!SparesOpenSession
    BY DEF cells
  <2>1. E!ExportInvariant /\ E!Next
    BY DEF BackgroundInvariant, Next
  <2> QED
    BY <2>1, ExportSpares
<1>2. Spec => [][Next]_<<active, cells>>
  BY DEF Spec
<1>3. Spec => [][active = "export" => E!SparesOpenSession]_cells
  BY <1>1, <1>2, BackgroundAlways, PTL
<1> QED
  BY <1>3 DEF ExportSparesOpenSession

(* A call of RunAudioStream, with its seven goroutines, is what a room     *)
(* agent takes it for: it fails at once or runs until it returns, and the  *)
(* user's usage session is closed by then and not opened again             *)
(* (AudioTask; task_transcription.go).                                     *)
THEOREM StreamsAreAudioTasks == Spec => ImplementsAudioTask
<1>1. Init => Task!TaskInit
  BY StreamStartsTask DEF Init, Task!TaskInit
<1>2. BackgroundInvariant /\ [Next]_<<active, cells>> => [Task!TaskNext]_(Task!taskVars)
  <2> SUFFICES ASSUME BackgroundInvariant, [Next]_<<active, cells>>
               PROVE  [Task!TaskNext]_(Task!taskVars)
    OBVIOUS
  <2>1. active' = active
    BY DEF Next
  <2>2. CASE active # "stream"
    BY <2>1, <2>2 DEF Task!taskVars
  <2>3. CASE active = "stream" /\ UNCHANGED cells
    BY <2>1, <2>3 DEF cells, Task!taskVars, V!Phase
  <2>4. CASE active = "stream" /\ ~UNCHANGED cells
    <3>1. V!StreamNext /\ V!StreamInvariant /\ active' = "stream"
      BY <2>1, <2>4 DEF Next, cells, BackgroundInvariant
    <3> QED
      BY <2>4, <3>1, StreamStepsTask
  <2> QED
    BY <2>2, <2>3, <2>4
<1>3. Spec => Init /\ [][Next]_<<active, cells>>
  BY DEF Spec
<1>4. Spec => Task!TaskInit /\ [][Task!TaskNext]_(Task!taskVars)
  BY <1>1, <1>2, <1>3, BackgroundAlways, PTL
<1> QED
  BY <1>4 DEF ImplementsAudioTask, Task!TaskSpec
=============================================================================
