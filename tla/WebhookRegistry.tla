-------------------------- MODULE WebhookRegistry --------------------------
(***************************************************************************)
(* Where the integrators' webhooks of one room id go: the registration in  *)
(* Redis (webhookData), and on every server the cached notifier, a worker  *)
(* goroutine with the URLs it was created for.  All of it is keyed by room *)
(* id, while the URLs belong to a session.                                 *)
(*                                                                         *)
(* The sessions come and go as RoomSession says.  A task is one call of    *)
(* the notifier on behalf of a session, on some server; each action is one *)
(* call to Redis or NATS or one critical section of the notifier's mutex.  *)
(***************************************************************************)
EXTENDS Naturals, FiniteSets

CONSTANTS
    Sid,      \* sessions; the URLs a session has are named by its sid
    Server,   \* server replicas
    Calls,    \* bound: the calls that are made for a session
    None,     \* no registration, no cached notifier
    MaxBusy   \* bound: tasks that are under way at the same time

Events == {"room_created", "room_started", "room_finished", "session_ended"}

VARIABLES
    phase,     \* of each session, as in RoomSession
    reg,       \* the hash field of the room: URLs and PerformDeleting
    notifier,  \* per server: the cached notifier, its URLs and its worker
    workers,   \* per server: the workers that were not killed
    cleanup,   \* servers the published cleanup message has not reached
    pc,        \* the next call of each task
    my,        \* its local variables
    swept,     \* history: a cleanup was published
    lost       \* history: an event was put in the queue of a killed worker

vars == <<phase, reg, notifier, workers, cleanup, pc, my, swept, lost>>

Session == INSTANCE RoomSession WITH Sid <- Sid, phase <- phase

Task == [sid : Sid, call : Calls]

(* A worker is named by the task that started it.                          *)
NoLocals == [server |-> None, data |-> None, urls |-> None, worker |-> None]

Busy == {t \in Task : pc[t] \notin {"new", "done"}}

Init ==
    /\ Session!Init
    /\ reg = None
    /\ notifier = [v \in Server |-> None]
    /\ workers = [v \in Server |-> {}]
    /\ cleanup = {}
    /\ pc = [t \in Task |-> "new"]
    /\ my = [t \in Task |-> NoLocals]
    /\ swept = FALSE
    /\ lost = FALSE

-----------------------------------------------------------------------------
Goto(t, step) == pc' = [pc EXCEPT ![t] = step]
Finish(t) == Goto(t, "done") /\ my' = [my EXCEPT ![t] = NoLocals]

(* The sessions.                                                           *)
SessionStep ==
    /\ \E s \in Sid : Session!Open(s) \/ Session!Announce(s) \/ Session!Close(s)
    /\ UNCHANGED <<reg, notifier, workers, cleanup, pc, my, swept, lost>>

(* When each call is made: sendRoomCreatedWebhook in a goroutine of its    *)
(* own, LiveKit's webhooks whenever they arrive, DeleteWebhook at the end  *)
(* of the export that follows the session.                                 *)
Due(t) ==
    CASE t.call \in {"room_created", "room_started"} -> phase[t.sid] # "fresh"
      [] t.call \in {"session_ended", "room_finished"} ->
           phase[t.sid] \in {"announced", "closed"}
      [] t.call = "delete" -> phase[t.sid] = "closed"

Begin(t) ==
    /\ pc[t] = "new" /\ Due(t)
    /\ Cardinality(Busy) < MaxBusy
    /\ \E v \in Server : my' = [my EXCEPT ![t].server = v]
    /\ Goto(t, CASE t.call = "room_created" -> "register"
                 [] t.call \in {"room_started", "room_finished"} -> "state"
                 [] t.call = "session_ended" -> "lookup"
                 [] t.call = "delete" -> "read")
    /\ UNCHANGED <<phase, reg, notifier, workers, cleanup, swept, lost>>

(* RegisterWebhook overrides what is there; a session may have no URL.     *)
RegisterWebhook(t) ==
    /\ pc[t] = "register"
    /\ reg' \in {reg, [urls |-> t.sid, deleting |-> FALSE]}
    /\ Goto(t, "lookup")
    /\ UNCHANGED <<phase, notifier, workers, cleanup, my, swept, lost>>

-----------------------------------------------------------------------------
(* SendWebhookEvent.                                                       *)

(* PerformDeleting is read here and written back with the URLs in the next *)
(* call.                                                                   *)
ReadState(t) ==
    /\ pc[t] = "state"
    /\ LET deleting == t.call = "room_finished"
       IN IF reg = None \/ (reg # None /\ reg.deleting = deleting)
          THEN Goto(t, "lookup") /\ UNCHANGED my
          ELSE /\ Goto(t, "save")
               /\ my' = [my EXCEPT ![t].data = [reg EXCEPT !.deleting = deleting]]
    /\ UNCHANGED <<phase, reg, notifier, workers, cleanup, swept, lost>>

SaveState(t) ==
    /\ pc[t] = "save"
    /\ reg' = my[t].data
    /\ Goto(t, "lookup")
    /\ UNCHANGED <<phase, notifier, workers, cleanup, my, swept, lost>>

(* getOrCreateNotifier: first critical section.                            *)
LookupNotifier(t) ==
    /\ pc[t] = "lookup"
    /\ LET cached == notifier[my[t].server]
       IN IF cached = None
          THEN Goto(t, "fetch") /\ UNCHANGED my
          ELSE /\ Goto(t, "queue")
               /\ my' = [my EXCEPT ![t].urls = cached.urls, ![t].worker = cached.worker]
    /\ UNCHANGED <<phase, reg, notifier, workers, cleanup, swept, lost>>

(* The registration is read and a worker started, outside of the mutex.    *)
FetchUrls(t) ==
    /\ pc[t] = "fetch"
    /\ IF reg = None
       THEN Finish(t) /\ UNCHANGED workers
       ELSE /\ Goto(t, "insert")
            /\ workers' = [workers EXCEPT ![my[t].server] = @ \cup {t}]
            /\ my' = [my EXCEPT ![t].urls = reg.urls, ![t].worker = t]
    /\ UNCHANGED <<phase, reg, notifier, cleanup, swept, lost>>

(* Variant with a bug: the discarded notifier is the one that is used.     *)
InsertUsingDiscarded(t) ==
    /\ pc[t] = "insert"
    /\ LET v == my[t].server
       IN IF notifier[v] = None
          THEN /\ notifier' = [notifier EXCEPT ![v] = [urls |-> my[t].urls, worker |-> t]]
               /\ UNCHANGED workers
          ELSE /\ workers' = [workers EXCEPT ![v] = @ \ {t}]
               /\ UNCHANGED notifier
    /\ Goto(t, "queue")
    /\ UNCHANGED <<phase, reg, cleanup, my, swept, lost>>

(* Second critical section: whoever comes later kills his own worker and   *)
(* uses the one that is there.                                             *)
InsertNotifier(t) ==
    /\ pc[t] = "insert"
    /\ LET v == my[t].server
       IN IF notifier[v] = None
          THEN /\ notifier' = [notifier EXCEPT ![v] = [urls |-> my[t].urls, worker |-> t]]
               /\ UNCHANGED <<workers, my>>
          ELSE /\ workers' = [workers EXCEPT ![v] = @ \ {t}]
               /\ my' = [my EXCEPT ![t].urls = notifier[v].urls,
                                   ![t].worker = notifier[v].worker]
               /\ UNCHANGED notifier
    /\ Goto(t, "queue")
    /\ UNCHANGED <<phase, reg, cleanup, swept, lost>>

(* AddInNotifyQueue.                                                       *)
QueueEvent(t) ==
    /\ pc[t] = "queue"
    /\ lost' = (lost \/ my[t].worker \notin workers[my[t].server])
    /\ Finish(t)
    /\ UNCHANGED <<phase, reg, notifier, workers, cleanup, swept>>

-----------------------------------------------------------------------------
(* DeleteWebhook.                                                          *)

ReadBeforeDelete(t) ==
    /\ pc[t] = "read"
    /\ IF reg # None /\ reg.deleting
       THEN Goto(t, "publish") /\ UNCHANGED my
       ELSE Finish(t)
    /\ UNCHANGED <<phase, reg, notifier, workers, cleanup, swept, lost>>

PublishCleanup(t) ==
    /\ pc[t] = "publish"
    /\ cleanup' = Server
    /\ swept' = TRUE
    /\ Goto(t, "remove")
    /\ UNCHANGED <<phase, reg, notifier, workers, my, lost>>

DeleteWebhookData(t) ==
    /\ pc[t] = "remove"
    /\ reg' = None
    /\ Finish(t)
    /\ UNCHANGED <<phase, notifier, workers, cleanup, swept, lost>>

(* Variant with a bug: the entry goes, the worker stays.                   *)
CleanupWithoutKill(v) ==
    /\ v \in cleanup
    /\ cleanup' = cleanup \ {v}
    /\ notifier' = [notifier EXCEPT ![v] = None]
    /\ UNCHANGED <<phase, reg, workers, pc, my, swept, lost>>

(* cleanupNotifier, on every server that gets the message.                 *)
CleanupNotifier(v) ==
    /\ v \in cleanup
    /\ cleanup' = cleanup \ {v}
    /\ notifier' = [notifier EXCEPT ![v] = None]
    /\ workers' = [workers EXCEPT
         ![v] = IF notifier[v] = None THEN @ ELSE @ \ {notifier[v].worker}]
    /\ UNCHANGED <<phase, reg, pc, my, swept, lost>>

-----------------------------------------------------------------------------
Send(t) ==
    \/ RegisterWebhook(t) \/ ReadState(t) \/ SaveState(t) \/ LookupNotifier(t)
    \/ FetchUrls(t) \/ InsertNotifier(t) \/ QueueEvent(t)

Delete(t) == ReadBeforeDelete(t) \/ PublishCleanup(t) \/ DeleteWebhookData(t)

Next ==
    \/ SessionStep
    \/ \E t \in Task : Begin(t) \/ Send(t) \/ Delete(t)
    \/ \E v \in Server : CleanupNotifier(v)

Spec == Init /\ [][Next]_vars

-----------------------------------------------------------------------------
(* Properties.                                                             *)

Registration == [urls : Sid, deleting : BOOLEAN]
Notifier == [urls : Sid, worker : Task]
Locals == [server : Server \cup {None}, data : Registration \cup {None},
           urls : Sid \cup {None}, worker : Task \cup {None}]
Steps == {"new", "register", "state", "save", "lookup", "fetch", "insert",
          "queue", "read", "publish", "remove", "done"}

(* Every variable keeps its shape.                                         *)
RegistryTypeOK ==
    /\ phase \in [Sid -> {"fresh", "open", "announced", "closed"}]
    /\ reg \in Registration \cup {None}
    /\ notifier \in [Server -> Notifier \cup {None}]
    /\ workers \in [Server -> SUBSET Task]
    /\ cleanup \subseteq Server
    /\ pc \in [Task -> Steps]
    /\ my \in [Task -> Locals]
    /\ swept \in BOOLEAN
    /\ lost \in BOOLEAN

(* No worker goroutine leaks: each one that runs is the cached notifier's  *)
(* or belongs to a task that is about to cache or discard it, whatever     *)
(* creations and cleanups race on a server (webhook_notifier.go:131-144).  *)
WorkersAreOwned ==
    \A v \in Server : \A w \in workers[v] :
      \/ notifier[v] # None /\ notifier[v].worker = w
      \/ pc[w] = "insert" /\ my[w].server = v

(* And none is killed that is still cached: an event is only lost in the   *)
(* queue of a killed worker when a cleanup was published.                  *)
NoLossWithoutCleanup == ~swept => ~lost

(* What these rest on.  A task on its way to the cache has a worker that   *)
(* runs; what is cached, or used, was put in the cache or found there.     *)
TasksAreOnServers ==
    \A t \in Task :
      /\ t \in Busy => my[t].server \in Server
      /\ pc[t] = "insert" => /\ my[t].urls \in Sid /\ my[t].worker = t
                             /\ t \in workers[my[t].server]

Settled(w) == pc[w] \in {"queue", "done"}

CachedOnesAreSettled ==
    \A v \in Server : notifier[v] # None => Settled(notifier[v].worker)

UsedOnesRun ==
    /\ cleanup = {}
    /\ \A v \in Server : notifier[v] # None => notifier[v].worker \in workers[v]
    /\ \A t \in Task : pc[t] = "queue" =>
          Settled(my[t].worker) /\ my[t].worker \in workers[my[t].server]

RegistryInvariant ==
    /\ RegistryTypeOK
    /\ WorkersAreOwned
    /\ NoLossWithoutCleanup
    /\ TasksAreOnServers
    /\ CachedOnesAreSettled
    /\ ~swept => UsedOnesRun

(* Refuted: a session that was registered and has not ended keeps its      *)
(* registration when the export of an earlier session ends in DeleteWebhook*)
(* (webhook_notifier.go:228: "this mean may be new session has been        *)
(* started for the same room").                                            *)
RegistrationSurvives ==
    [][ \A t \in Task : DeleteWebhookData(t) =>
          ~(reg # None /\ reg.urls # t.sid /\ phase[reg.urls] = "open") ]_vars

(* Refuted: when a session is over, its webhooks are handled and           *)
(* DeleteWebhook went through after all of them, nothing of it is left     *)
(* (webhook_notifier.go:212: "DeleteWebhook will clean up webhook data     *)
(* from redis as well local state").                                       *)
CleanedUpForGood ==
    (\A t \in Task : pc[t] \in {"new", "done"}) /\ cleanup = {} /\ swept /\ reg = None
      => \A v \in Server : notifier[v] = None
=============================================================================
