------------------------- MODULE UserPresenceProofs -------------------------
(***************************************************************************)
(* A theorem about a user's presence, for every number of replicas, of     *)
(* delayed offline tasks and of statuses under way to a copy.              *)
(***************************************************************************)
EXTENDS UserPresence, TLAPS

(* The parts of the type invariant that an action changes together.        *)
KvTypeOK ==
  /\ status \in Status
  /\ copy \in [Server -> Status]
  /\ behind \in [Server -> Seq(Status)]
  /\ \A v \in Server : Len(behind[v]) <= MaxBehind

ClientTypeOK ==
  /\ lastPing \in {"none", "fresh", "old"}
  /\ conns \in Nat /\ inbox \in [Event -> Nat]
  /\ consumer \in BOOLEAN

FlightsTypeOK ==
  /\ join \in [Server -> {"idle", "online"}]
  /\ pong \in [Server -> BOOLEAN]
  /\ leave \in [Server -> {"idle", "begun", "spawn"}]

TasksTypeOK ==
  /\ task \in [Task -> [at : Server, pc : TaskSteps]]
  /\ janitor \in {"idle", "offline"}

LEMMA PresenceParts ==
  /\ PresenceTypeOK <=> KvTypeOK /\ ClientTypeOK /\ FlightsTypeOK /\ TasksTypeOK
  /\ PresenceTypeOK' <=> KvTypeOK' /\ ClientTypeOK' /\ FlightsTypeOK' /\ TasksTypeOK'
BY DEF PresenceTypeOK, KvTypeOK, ClientTypeOK, FlightsTypeOK, TasksTypeOK

LEMMA FreeIsTask == Free \in [at : Server, pc : TaskSteps]
BY PresenceAssumption DEF Free, TaskSteps, PresenceAssumption

(* A put goes to the bucket and to the copy of the server that makes it,   *)
(* and waits for the others' watchers.                                     *)
LEMMA StatusIsPut ==
  ASSUME KvTypeOK, NEW v \in Server, NEW s \in Status, PutStatus(v, s)
  PROVE  KvTypeOK'
<1>1. status' \in Status /\ copy' \in [Server -> Status]
  BY DEF KvTypeOK, PutStatus
<1>2. ASSUME NEW w \in Server
      PROVE  /\ (IF w = v THEN <<>> ELSE Append(behind[w], s)) \in Seq(Status)
             /\ Len(IF w = v THEN <<>> ELSE Append(behind[w], s)) <= MaxBehind
  <2>1. behind[w] \in Seq(Status) /\ MaxBehind \in Nat /\ MaxBehind # 0
    BY PresenceAssumption DEF KvTypeOK, PresenceAssumption
  <2>2. CASE w = v
    BY <2>1, <2>2
  <2>3. CASE w # v
    BY <2>1, <2>3 DEF PutStatus
  <2> QED
    BY <2>2, <2>3
<1>3. /\ behind' \in [Server -> Seq(Status)]
      /\ \A w \in Server : Len(behind'[w]) <= MaxBehind
  BY <1>2 DEF PutStatus
<1> QED
  BY <1>1, <1>3 DEF KvTypeOK

(* What was under way to a copy is dropped.                                *)
LEMMA CopyIsAhead ==
  ASSUME KvTypeOK, NEW v \in Server, behind' = [behind EXCEPT ![v] = <<>>],
         status' = status, copy' \in [Server -> Status]
  PROVE  KvTypeOK'
<1>1. behind' \in [Server -> Seq(Status)]
  BY DEF KvTypeOK
<1>2. \A w \in Server : Len(behind'[w]) <= MaxBehind
  BY PresenceAssumption DEF KvTypeOK, PresenceAssumption
<1> QED
  BY <1>1, <1>2 DEF KvTypeOK

LEMMA CopyIsDelivered ==
  ASSUME KvTypeOK, NEW v \in Server, Deliver(v)
  PROVE  KvTypeOK'
<1>1. /\ behind[v] \in Seq(Status) /\ behind[v] # <<>>
      /\ Len(behind[v]) <= MaxBehind /\ MaxBehind \in Nat
  BY PresenceAssumption DEF KvTypeOK, Deliver, PresenceAssumption
<1>2. /\ Head(behind[v]) \in Status /\ Tail(behind[v]) \in Seq(Status)
      /\ Len(Tail(behind[v])) <= MaxBehind
  BY <1>1
<1>3. copy' = [copy EXCEPT ![v] = Head(behind[v])] /\ status' = status
      /\ behind' = [behind EXCEPT ![v] = Tail(behind[v])]
  BY DEF Deliver
<1>4. behind' \in [Server -> Seq(Status)] /\ copy' \in [Server -> Status]
  BY <1>2, <1>3 DEF KvTypeOK
<1>5. \A w \in Server : Len(behind'[w]) <= MaxBehind
  BY <1>2, <1>3 DEF KvTypeOK
<1> QED
  BY <1>3, <1>4, <1>5 DEF KvTypeOK

(* An event is there to be taken.                                          *)
LEMMA EventIsTaken ==
  ASSUME inbox \in [Event -> Nat], NEW e \in Event, Take(e)
  PROVE  inbox' \in [Event -> Nat]
<1>1. inbox[e] \in Nat /\ inbox[e] > 0 /\ inbox' = [inbox EXCEPT ![e] = inbox[e] - 1]
  BY DEF Take
<1>2. inbox[e] - 1 \in Nat
  BY <1>1
<1> QED
  BY <1>1, <1>2

LEMMA HandlersKeepTypes ==
  ASSUME PresenceTypeOK, NEW v \in Server, Handles(v)
  PROVE  PresenceTypeOK'
<1> USE PresenceParts
<1>1. CASE UserConnected(v)
  <2>1. inbox' \in [Event -> Nat]
    BY <1>1, EventIsTaken DEF UserConnected, ClientTypeOK, Event
  <2>2. join' \in [Server -> {"idle", "online"}]
    BY <1>1 DEF UserConnected, JoinFlight, FlightsTypeOK
  <2> QED
    BY <1>1, <2>1, <2>2
    DEF UserConnected, kv, KvTypeOK, ClientTypeOK, FlightsTypeOK, TasksTypeOK
<1>2. CASE HandleClientPing(v)
  <2>1. inbox' \in [Event -> Nat]
    BY <1>2, EventIsTaken DEF HandleClientPing, ClientTypeOK, Event
  <2>2. join' \in [Server -> {"idle", "online"}] /\ pong' \in [Server -> BOOLEAN]
    BY <1>2 DEF HandleClientPing, JoinFlight, FlightsTypeOK
  <2> QED
    BY <1>2, <2>1, <2>2
    DEF HandleClientPing, kv, KvTypeOK, ClientTypeOK, FlightsTypeOK, TasksTypeOK
<1>3. CASE StorePing(v)
  <2>1. KvTypeOK'
    BY <1>3, CopyIsAhead DEF StorePing, PutOther, KvTypeOK
  <2> QED
    BY <1>3, <2>1 DEF StorePing, ClientTypeOK, FlightsTypeOK, TasksTypeOK
<1>4. CASE JoinOnline(v)
  <2>1. KvTypeOK'
    BY <1>4, StatusIsPut DEF JoinOnline, Status
  <2> QED
    BY <1>4, <2>1 DEF JoinOnline, ClientTypeOK, FlightsTypeOK, TasksTypeOK
<1>5. CASE UserDisconnected(v)
  <2>1. inbox' \in [Event -> Nat]
    BY <1>5, EventIsTaken DEF UserDisconnected, ClientTypeOK, Event
  <2>2. leave' \in [Server -> {"idle", "begun", "spawn"}]
    BY <1>5 DEF UserDisconnected, LeaveFlight, FlightsTypeOK
  <2> QED
    BY <1>5, <2>1, <2>2
    DEF UserDisconnected, kv, KvTypeOK, ClientTypeOK, FlightsTypeOK, TasksTypeOK
<1>6. CASE ParticipantLeft(v)
  <2>1. leave' \in [Server -> {"idle", "begun", "spawn"}]
    BY <1>6 DEF ParticipantLeft, LeaveFlight, FlightsTypeOK
  <2> QED
    BY <1>6, <2>1
    DEF ParticipantLeft, kv, KvTypeOK, ClientTypeOK, FlightsTypeOK, TasksTypeOK
<1>7. CASE LeavePut(v)
  <2>1. KvTypeOK'
    BY <1>7, StatusIsPut DEF LeavePut, Status
  <2> QED
    BY <1>7, <2>1 DEF LeavePut, ClientTypeOK, FlightsTypeOK, TasksTypeOK
<1>8. CASE LeaveSpawn(v)
  <2>1. PICK t \in Task : task' = [task EXCEPT ![t] = [at |-> v, pc |-> "grace"]]
    BY <1>8 DEF LeaveSpawn
  <2>2. task' \in [Task -> [at : Server, pc : TaskSteps]]
    BY <2>1 DEF TasksTypeOK, TaskSteps
  <2> QED
    BY <1>8, <2>2
    DEF LeaveSpawn, kv, KvTypeOK, ClientTypeOK, FlightsTypeOK, TasksTypeOK
<1>9. CASE AddUser(v)
  <2>1. KvTypeOK'
    BY <1>9, StatusIsPut DEF AddUser, Status
  <2> QED
    BY <1>9, <2>1 DEF AddUser, ClientTypeOK, FlightsTypeOK, TasksTypeOK
<1>10. CASE Deliver(v)
  <2>1. KvTypeOK'
    BY <1>10, CopyIsDelivered
  <2> QED
    BY <1>10, <2>1 DEF Deliver, ClientTypeOK, FlightsTypeOK, TasksTypeOK
<1> QED
  BY <1>1, <1>2, <1>3, <1>4, <1>5, <1>6, <1>7, <1>8, <1>9, <1>10 DEF Handles

LEMMA CrashKeepsTypes ==
  ASSUME PresenceTypeOK, NEW v \in Server, Crash(v)
  PROVE  PresenceTypeOK'
<1>1. KvTypeOK'
  BY CopyIsAhead, PresenceParts DEF Crash, KvTypeOK
<1>2. FlightsTypeOK'
  BY PresenceParts DEF Crash, FlightsTypeOK
<1>3. TasksTypeOK'
  BY FreeIsTask, PresenceParts DEF Crash, TasksTypeOK
<1> QED
  BY <1>1, <1>2, <1>3, PresenceParts DEF Crash, ClientTypeOK

LEMMA TasksKeepTypes ==
  ASSUME PresenceTypeOK, NEW t \in Task, Works(t)
  PROVE  PresenceTypeOK'
<1> USE PresenceParts
<1>1. ASSUME NEW from, NEW to \in TaskSteps, TaskStep(t, from, to)
      PROVE  task' \in [Task -> [at : Server, pc : TaskSteps]]
  <2>1. task[t] \in [at : Server, pc : TaskSteps]
    BY DEF TasksTypeOK
  <2>2. [task[t] EXCEPT !.pc = to] \in [at : Server, pc : TaskSteps]
    BY <2>1
  <2> QED
    BY <1>1, <2>2, FreeIsTask DEF TaskStep, TasksTypeOK
<1>2. CASE Reconnected(t) \/ WaitIsOver(t)
  <2>1. task' \in [Task -> [at : Server, pc : TaskSteps]]
    BY <1>1, <1>2 DEF Reconnected, WaitIsOver, TaskSteps
  <2> QED
    BY <1>2, <2>1
    DEF Reconnected, WaitIsOver, OfTask, kv, KvTypeOK, ClientTypeOK, FlightsTypeOK, TasksTypeOK
<1>3. CASE TaskOffline(t)
  <2>1. task' \in [Task -> [at : Server, pc : TaskSteps]]
    BY <1>1, <1>3 DEF TaskOffline, TaskSteps
  <2>2. task[t].at \in Server
    BY DEF TasksTypeOK
  <2>3. KvTypeOK'
    BY <1>3, <2>2, StatusIsPut DEF TaskOffline, Status
  <2> QED
    BY <1>3, <2>1, <2>3 DEF TaskOffline, OfTask, ClientTypeOK, FlightsTypeOK, TasksTypeOK
<1>4. CASE TaskDeleteConsumer(t)
  <2>1. task' \in [Task -> [at : Server, pc : TaskSteps]]
    BY <1>1, <1>4 DEF TaskDeleteConsumer, TaskSteps
  <2> QED
    BY <1>4, <2>1
    DEF TaskDeleteConsumer, OfTask, kv, KvTypeOK, ClientTypeOK, FlightsTypeOK, TasksTypeOK
<1> QED
  BY <1>2, <1>3, <1>4 DEF Works

LEMMA JanitorKeepsTypes ==
  ASSUME PresenceTypeOK, Janitor
  PROVE  PresenceTypeOK'
<1> USE PresenceParts
<1>1. CASE JanitorFinds
  BY <1>1
  DEF JanitorFinds, OfJanitor, kv, KvTypeOK, ClientTypeOK, FlightsTypeOK, TasksTypeOK
<1>2. CASE JanitorOffline
  <2>1. KvTypeOK'
    BY <1>2, StatusIsPut, PresenceAssumption DEF JanitorOffline, PresenceAssumption, Status
  <2> QED
    BY <1>2, <2>1
    DEF JanitorOffline, OfJanitor, ClientTypeOK, FlightsTypeOK, TasksTypeOK
<1> QED
  BY <1>1, <1>2 DEF Janitor

LEMMA ClientKeepsTypes ==
  ASSUME PresenceTypeOK, Client
  PROVE  PresenceTypeOK'
<1> USE PresenceParts
<1>1. KvTypeOK' /\ FlightsTypeOK' /\ TasksTypeOK'
  BY DEF Client, Connect, Disconnect, SendPing, PingAges, OfClient, kv,
         KvTypeOK, FlightsTypeOK, TasksTypeOK
<1>2. inbox["connect"] + 1 \in Nat /\ inbox["disconnect"] + 1 \in Nat
  BY DEF ClientTypeOK, Event
<1>3. conns \in Nat /\ (conns > 0 => conns - 1 \in Nat) /\ conns + 1 \in Nat
  BY DEF ClientTypeOK
<1>4. inbox' \in [Event -> Nat]
  BY <1>2 DEF Client, Connect, Disconnect, SendPing, PingAges, ClientTypeOK, Event
<1>5. /\ conns' \in Nat /\ consumer' \in BOOLEAN
      /\ lastPing' \in {"none", "fresh", "old"}
  BY <1>3 DEF Client, Connect, Disconnect, SendPing, PingAges, ClientTypeOK
<1> QED
  BY <1>1, <1>4, <1>5 DEF ClientTypeOK

(* Whatever connects, crashes and is late, every variable keeps its shape: *)
(* an event is handled at most as often as it was sent, and a put waits    *)
(* for copies that are MaxBehind puts behind.                              *)
THEOREM PresenceTypesCorrect == Spec => []PresenceTypeOK
<1>1. Init => PresenceTypeOK
  <2> SUFFICES ASSUME Init PROVE PresenceTypeOK
    OBVIOUS
  <2>1. KvTypeOK
    BY PresenceAssumption DEF Init, KvTypeOK, Status, PresenceAssumption
  <2>2. ClientTypeOK /\ FlightsTypeOK
    BY DEF Init, ClientTypeOK, FlightsTypeOK
  <2>3. TasksTypeOK
    BY FreeIsTask DEF Init, TasksTypeOK
  <2> QED
    BY <2>1, <2>2, <2>3, PresenceParts
<1>2. PresenceTypeOK /\ [Next]_vars => PresenceTypeOK'
  <2> SUFFICES ASSUME PresenceTypeOK, [Next]_vars PROVE PresenceTypeOK'
    OBVIOUS
  <2>1. ASSUME NEW v \in Server, Handles(v) \/ Crash(v) PROVE PresenceTypeOK'
    BY <2>1, HandlersKeepTypes, CrashKeepsTypes
  <2>2. ASSUME NEW t \in Task, Works(t) PROVE PresenceTypeOK'
    BY <2>2, TasksKeepTypes
  <2>3. CASE Janitor \/ Client
    BY <2>3, JanitorKeepsTypes, ClientKeepsTypes
  <2>4. CASE UNCHANGED vars
    BY <2>4 DEF vars, kv, PresenceTypeOK
  <2> QED
    BY <2>1, <2>2, <2>3, <2>4 DEF Next
<1> QED
  BY <1>1, <1>2, PTL DEF Spec
=============================================================================
