---------------------------- MODULE UserPresence ----------------------------
(***************************************************************************)
(* One user of one room that goes on: what NATS says of the user's status, *)
(* the copy each server has of it, the user's connections and durable      *)
(* consumer, and the handlers that act on them: connection events, pings,  *)
(* participant_left, the delayed offline tasks, the join token and the     *)
(* janitor.                                                                *)
(*                                                                         *)
(* A copy is updated by the server's own puts at once and by its watcher   *)
(* later.  One revision is kept for all keys of a user, so that an own put *)
(* of any key makes the copy ignore whatever was under way to it.          *)
(* Delays and deadlines end at any moment, as time is left out, and        *)
(* LiveKit is only there to say that the user left it.                     *)
(***************************************************************************)
EXTENDS Naturals, Sequences, FiniteSets

CONSTANTS
    Server,        \* replicas
    Leader,        \* the replica that runs the janitor
    OthersOnline,  \* whether other users are online in the room
    Task,          \* bound: delayed offline tasks at the same time
    MaxBusy,       \* bound: connection events and pings handled at once
    MaxBehind,     \* bound: statuses under way to a copy
    MaxStimuli     \* bound: tokens, connections, lost users and crashes

ASSUME PresenceAssumption ==
    /\ Leader \in Server
    /\ OthersOnline \in BOOLEAN
    /\ MaxBehind \in Nat \ {0}
    /\ MaxBusy \in Nat /\ MaxStimuli \in Nat

VARIABLES
    status,    \* user_<id>-FIELD_status in the bucket
    copy,      \* the status in each server's roomUsersInfoStore
    behind,    \* the puts of it that a server's watcher has not delivered
    lastPing,  \* last_ping_at: "none" (0), "fresh" or over its deadline
    conns,     \* the user's open NATS connections
    inbox,     \* connection events and pings that nobody has handled
    consumer,  \* whether the durable consumer exists
    join,      \* per server: OnAfterUserJoined of its singleflight group
    pong,      \* per server: a ping that waits to be stored
    leave,     \* per server: OnAfterUserDisconnected of the group
    task,      \* handleDelayedOfflineTasks
    janitor,   \* checkOnlineUsersStatus on the leader
    spent      \* how many stimuli there were

kv == <<status, copy, behind>>
vars == <<kv, lastPing, conns, inbox, consumer, join, pong, leave, task,
          janitor, spent>>

Status == {"none", "added", "online", "disconnected", "offline"}
Event == {"connect", "disconnect", "ping"}
Free == [at |-> Leader, pc |-> "free"]
TaskSteps == {"free", "grace", "offline", "second", "consumer"}

Init ==
    /\ status = "none"
    /\ copy = [v \in Server |-> "none"]
    /\ behind = [v \in Server |-> <<>>]
    /\ lastPing = "none"
    /\ conns = 0
    /\ inbox = [e \in Event |-> 0]
    /\ consumer = FALSE
    /\ join = [v \in Server |-> "idle"]
    /\ pong = [v \in Server |-> FALSE]
    /\ leave = [v \in Server |-> "idle"]
    /\ task = [t \in Task |-> Free]
    /\ janitor = "idle"
    /\ spent = 0

-----------------------------------------------------------------------------
Spend == spent < MaxStimuli /\ spent' = spent + 1

(* UpdateUserStatus: the puts of the status and of its time stamp, and the *)
(* update of the server's own copy, are one step.                          *)
PutStatus(v, s) ==
    /\ \A w \in Server \ {v} : Len(behind[w]) < MaxBehind
    /\ status' = s
    /\ copy' = [copy EXCEPT ![v] = s]
    /\ behind' = [w \in Server |-> IF w = v THEN <<>> ELSE Append(behind[w], s)]

(* A put of another key of the user: what was under way is older.          *)
PutOther(v) ==
    /\ behind' = [behind EXCEPT ![v] = <<>>]
    /\ UNCHANGED <<status, copy>>

(* The watcher's setUserInfoCache.                                         *)
Deliver(v) ==
    /\ behind[v] # <<>>
    /\ copy' = [copy EXCEPT ![v] = Head(behind[v])]
    /\ behind' = [behind EXCEPT ![v] = Tail(@)]
    /\ UNCHANGED <<status, lastPing, conns, inbox, consumer, join, pong, leave,
                   task, janitor, spent>>

(* GetRoomUserStatus: the copy's, or the bucket's when the copy has none.  *)
Seen(v) == IF copy[v] = "none" THEN status ELSE copy[v]

(* GetOnlineUsersId on the leader: the bucket is asked when the copy names *)
(* nobody.                                                                 *)
Listed == \/ copy[Leader] = "online"
          \/ ~OthersOnline /\ status = "online"

(* The worker pool takes an event off the queue group.                     *)
Joining == {v \in Server : join[v] # "idle" \/ pong[v]}
Leaving == {v \in Server : leave[v] # "idle"}

(* Variant with a bug: what was handled is handled once more.              *)
TakeAgain(e) == /\ Cardinality(Joining) + Cardinality(Leaving) < MaxBusy
                /\ inbox' = [inbox EXCEPT ![e] = @ - 1]

Take(e) == /\ Cardinality(Joining) + Cardinality(Leaving) < MaxBusy
           /\ inbox[e] > 0
           /\ inbox' = [inbox EXCEPT ![e] = @ - 1]

-----------------------------------------------------------------------------
(* OnAfterUserJoined, of a CONNECT event or of a ping.  A caller that      *)
(* finds the singleflight of its server busy has nothing to do.            *)
JoinFlight(v) ==
    join' = IF join[v] = "idle" /\ Seen(v) # "online"
            THEN [join EXCEPT ![v] = "online"] ELSE join

UserConnected(v) ==
    /\ Take("connect")
    /\ JoinFlight(v)
    /\ UNCHANGED <<kv, lastPing, conns, consumer, pong, leave, task, janitor,
                   spent>>

(* Variant with a bug: HandleClientPing leaves the status alone.           *)
HandleClientPingOnlyStores(v) ==
    /\ ~pong[v]
    /\ Take("ping")
    /\ pong' = [pong EXCEPT ![v] = TRUE]
    /\ UNCHANGED <<kv, lastPing, conns, consumer, join, leave, task, janitor,
                   spent>>

HandleClientPing(v) ==
    /\ ~pong[v]
    /\ Take("ping")
    /\ JoinFlight(v)
    /\ pong' = [pong EXCEPT ![v] = TRUE]
    /\ UNCHANGED <<kv, lastPing, conns, consumer, leave, task, janitor, spent>>

(* The ping is stored when the flight is over.                             *)
StorePing(v) ==
    /\ pong[v] /\ join[v] = "idle"
    /\ pong' = [pong EXCEPT ![v] = FALSE]
    /\ lastPing' = "fresh"
    /\ PutOther(v)
    /\ UNCHANGED <<conns, inbox, consumer, join, leave, task, janitor, spent>>

JoinOnline(v) ==
    /\ join[v] = "online"
    /\ PutStatus(v, "online")
    /\ join' = [join EXCEPT ![v] = "idle"]
    /\ UNCHANGED <<lastPing, conns, inbox, consumer, pong, leave, task,
                   janitor, spent>>

-----------------------------------------------------------------------------
(* OnAfterUserDisconnected.  The status is put whatever it was.            *)
LeaveFlight(v) ==
    leave' = IF leave[v] = "idle" THEN [leave EXCEPT ![v] = "begun"] ELSE leave

UserDisconnected(v) ==
    /\ Take("disconnect")
    /\ LeaveFlight(v)
    /\ UNCHANGED <<kv, lastPing, conns, consumer, join, pong, task, janitor,
                   spent>>

(* participantLeft and, eight seconds later, ensureUserIsOffline: a user   *)
(* who is online and has not reconnected in between is taken for gone.  As *)
(* LiveKit may lose a user at any time, the eight seconds are left out: if *)
(* nothing happened in them, it is as if the user was lost at their end.   *)
ParticipantLeft(v) ==
    /\ Seen(v) = "online"
    /\ Spend
    /\ LeaveFlight(v)
    /\ UNCHANGED <<kv, lastPing, conns, inbox, consumer, join, pong, task,
                   janitor>>

LeavePut(v) ==
    /\ leave[v] = "begun"
    /\ PutStatus(v, "disconnected")
    /\ leave' = [leave EXCEPT ![v] = "spawn"]
    /\ UNCHANGED <<lastPing, conns, inbox, consumer, join, pong, task, janitor,
                   spent>>

(* go handleDelayedOfflineTasks.                                           *)
LeaveSpawn(v) ==
    /\ leave[v] = "spawn"
    /\ \E t \in Task :
         /\ task[t].pc = "free"
         /\ task' = [task EXCEPT ![t] = [at |-> v, pc |-> "grace"]]
    /\ leave' = [leave EXCEPT ![v] = "idle"]
    /\ UNCHANGED <<kv, lastPing, conns, inbox, consumer, join, pong, janitor,
                   spent>>

-----------------------------------------------------------------------------
(* handleDelayedOfflineTasks.  waitForReconnect looks at once, and then at *)
(* every tick until its time is over: the last look is up to one interval  *)
(* old when the task goes on.                                              *)
TaskStep(t, from, to) ==
    /\ task[t].pc = from
    /\ task' = [task EXCEPT ![t] = IF to = "free" THEN Free
                                   ELSE [@ EXCEPT !.pc = to]]

OfTask == <<lastPing, conns, inbox, join, pong, leave, janitor, spent>>

Reconnected(t) ==
    /\ Seen(task[t].at) = "online"
    /\ TaskStep(t, "grace", "free") \/ TaskStep(t, "second", "free")
    /\ UNCHANGED <<kv, consumer, OfTask>>

(* Variant with a bug: the time of the wait begins anew with every look.   *)
WaitRestarts(t) ==
    /\ Seen(task[t].at) # "online"
    /\ TaskStep(t, "grace", "grace") \/ TaskStep(t, "second", "second")
    /\ UNCHANGED <<kv, consumer, OfTask>>

WaitIsOver(t) ==
    /\ Seen(task[t].at) # "online"
    /\ TaskStep(t, "grace", "offline") \/ TaskStep(t, "second", "consumer")
    /\ UNCHANGED <<kv, consumer, OfTask>>

TaskOffline(t) ==
    /\ TaskStep(t, "offline", "second")
    /\ PutStatus(task[t].at, "offline")
    /\ UNCHANGED <<consumer, OfTask>>

(* RemoveParticipant, which LiveKit answers first, and DeleteConsumer.     *)
TaskDeleteConsumer(t) ==
    /\ TaskStep(t, "consumer", "free")
    /\ consumer' = FALSE
    /\ UNCHANGED <<kv, OfTask>>

-----------------------------------------------------------------------------
(* GetPNMJoinToken: AddUser writes the user anew.  A user found online is  *)
(* asked to leave and waited for, but for some seconds at most: the token  *)
(* is made whatever the status is then.                                    *)
AddUser(v) ==
    /\ Spend
    /\ PutStatus(v, "added")
    /\ lastPing' = "none"
    /\ UNCHANGED <<conns, inbox, consumer, join, pong, leave, task, janitor>>

-----------------------------------------------------------------------------
(* checkOnlineUsersStatus with changeUserStatus.                           *)
OfJanitor == <<lastPing, conns, inbox, consumer, join, pong, leave, task,
               spent>>

(* Variant with a bug: a user who never sent a ping is passed over.        *)
JanitorFindsLatePings ==
    /\ janitor = "idle"
    /\ Listed /\ lastPing = "old"
    /\ janitor' = "offline"
    /\ UNCHANGED <<kv, OfJanitor>>

JanitorFinds ==
    /\ janitor = "idle"
    /\ Listed /\ lastPing \in {"none", "old"}
    /\ janitor' = "offline"
    /\ UNCHANGED <<kv, OfJanitor>>

JanitorOffline ==
    /\ janitor = "offline"
    /\ PutStatus(Leader, "offline")
    /\ janitor' = "idle"
    /\ UNCHANGED OfJanitor

-----------------------------------------------------------------------------
(* The browser, and replicas that die.                                     *)
OfClient == <<kv, join, pong, leave, task, janitor>>

(* A connection is authorized once the user exists; the auth callout       *)
(* creates the consumer.                                                   *)
Connect ==
    /\ status # "none"
    /\ Spend
    /\ consumer' = TRUE
    /\ conns' = conns + 1
    /\ inbox' = [inbox EXCEPT !["connect"] = @ + 1]
    /\ UNCHANGED <<lastPing, OfClient>>

Disconnect ==
    /\ conns > 0
    /\ conns' = conns - 1
    /\ inbox' = [inbox EXCEPT !["disconnect"] = @ + 1]
    /\ UNCHANGED <<lastPing, consumer, spent, OfClient>>

SendPing ==
    /\ conns > 0 /\ inbox["ping"] = 0
    /\ inbox' = [inbox EXCEPT !["ping"] = 1]
    /\ UNCHANGED <<lastPing, conns, consumer, spent, OfClient>>

PingAges ==
    /\ conns = 0 /\ lastPing = "fresh"
    /\ lastPing' = "old"
    /\ UNCHANGED <<conns, inbox, consumer, spent, OfClient>>

(* The goroutines of a replica go; started again, it watches the bucket    *)
(* anew.                                                                   *)
Crash(v) ==
    /\ Spend
    /\ copy' = [copy EXCEPT ![v] = status]
    /\ behind' = [behind EXCEPT ![v] = <<>>]
    /\ join' = [join EXCEPT ![v] = "idle"]
    /\ pong' = [pong EXCEPT ![v] = FALSE]
    /\ leave' = [leave EXCEPT ![v] = "idle"]
    /\ task' = [t \in Task |-> IF task[t].at = v THEN Free ELSE task[t]]
    /\ janitor' = IF v = Leader THEN "idle" ELSE janitor
    /\ UNCHANGED <<status, lastPing, conns, inbox, consumer>>

-----------------------------------------------------------------------------
Handles(v) ==
    \/ UserConnected(v) \/ HandleClientPing(v) \/ StorePing(v) \/ JoinOnline(v)
    \/ UserDisconnected(v) \/ ParticipantLeft(v) \/ LeavePut(v) \/ LeaveSpawn(v)
    \/ AddUser(v) \/ Deliver(v)

Works(t) ==
    \/ Reconnected(t) \/ WaitIsOver(t)
    \/ TaskOffline(t) \/ TaskDeleteConsumer(t)

Janitor == JanitorFinds \/ JanitorOffline
Client == Connect \/ Disconnect \/ SendPing \/ PingAges

Next == \/ \E v \in Server : Handles(v) \/ Crash(v)
        \/ \E t \in Task : Works(t)
        \/ Janitor \/ Client

Spec == Init /\ [][Next]_vars

(* Handlers take what is sent and make their next call, the watchers       *)
(* deliver, the janitor's ticker fires, a client that is connected pings.  *)
(* Every replica gets its share of the pings of the queue group.           *)
Fairness ==
    /\ \A v \in Server :
         /\ WF_vars(JoinOnline(v))
         /\ WF_vars(LeavePut(v) \/ LeaveSpawn(v))
         /\ WF_vars(StorePing(v))
         /\ WF_vars(Deliver(v))
         /\ SF_vars(HandleClientPing(v))
    /\ WF_vars(\E v \in Server : UserConnected(v) \/ UserDisconnected(v))
    /\ \A t \in Task : WF_vars(Works(t))
    /\ WF_vars(Janitor)
    /\ WF_vars(SendPing) /\ WF_vars(PingAges)

FairSpec == Spec /\ Fairness

-----------------------------------------------------------------------------
PresenceTypeOK ==
    /\ status \in Status
    /\ copy \in [Server -> Status]
    /\ behind \in [Server -> Seq(Status)]
    /\ \A v \in Server : Len(behind[v]) <= MaxBehind
    /\ lastPing \in {"none", "fresh", "old"}
    /\ conns \in Nat /\ inbox \in [Event -> Nat]
    /\ consumer \in BOOLEAN
    /\ join \in [Server -> {"idle", "online"}]
    /\ pong \in [Server -> BOOLEAN]
    /\ leave \in [Server -> {"idle", "begun", "spawn"}]
    /\ task \in [Task -> [at : Server, pc : TaskSteps]]
    /\ janitor \in {"idle", "offline"}

(* A user who stays connected, and pings, ends up online for good, however *)
(* late, stale or out of order what was done about earlier connections is. *)
ConnectedStaysOnline == <>[](conns > 0) => <>[](status = "online")

(* A user who is gone for good does not stay online, whatever events and   *)
(* pings are handled late: the janitor sees to it.  Not so when            *)
(* OthersOnline: the janitor then believes a copy that missed the put.     *)
GoneIsNotOnline == <>[](conns = 0) => <>[](status # "online")

(* Every delayed offline task comes to an end, so that the consumers of    *)
(* those who left are not kept.                                            *)
TasksEnd == \A t \in Task : task[t].pc # "free" ~> task[t].pc = "free"

(* "User reconnected before final cleanup, consumer will not be deleted":  *)
(* who is online keeps the consumer that room events arrive by.  The last  *)
(* look of the delayed task and DeleteConsumer are up to one interval and  *)
(* one LiveKit call apart.                                                 *)
OnlineKeepsConsumer == [][consumer /\ ~consumer' => status # "online"]_vars
=============================================================================
