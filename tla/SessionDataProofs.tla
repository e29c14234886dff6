--------------------------- MODULE SessionDataProofs ---------------------------
(***************************************************************************)
(* Theorems about the registered webhooks and the polls of a room, for     *)
(* every set of servers, sessions and users.                               *)
(***************************************************************************)
EXTENDS MCSessionData, NatsRoomCacheProofs, FiniteSetTheorems, TLAPS

-----------------------------------------------------------------------------
(* The webhooks: c2 is the registration, c3 the cached notifiers, c4 the   *)
(* workers, c5 the servers that are still to clean up, c6 and c7 the tasks,*)
(* c8 and c9 what has happened.                                            *)

(* A task goes to a step with new locals, which is all that is said of it. *)
Goes(t, step, locals) ==
  /\ c6' \in [N!Task -> N!Steps] /\ c7' \in [N!Task -> N!Locals]
  /\ c6'[t] = step /\ c7'[t] = locals
  /\ \A u \in N!Task : u # t => c6'[u] = c6[u] /\ c7'[u] = c7[u]

LEMMA HookGoes ==
  ASSUME N!RegistryTypeOK, NEW t \in N!Task
  PROVE  /\ \A step \in N!Steps : N!Goto(t, step) /\ c7' = c7 => Goes(t, step, c7[t])
         /\ \A step \in N!Steps, locals \in N!Locals :
              N!Goto(t, step) /\ c7' = [c7 EXCEPT ![t] = locals] => Goes(t, step, locals)
         /\ N!Finish(t) => Goes(t, "done", N!NoLocals)
<1>1. N!NoLocals \in N!Locals /\ "done" \in N!Steps
  BY DEF N!NoLocals, N!Locals, N!Steps
<1> QED
  BY <1>1 DEF N!RegistryTypeOK, N!Goto, N!Finish, Goes

(* What a step keeps that leaves cache and workers alone.                  *)
LEMMA HookRest ==
  ASSUME N!RegistryInvariant, N!RegistryTypeOK',
         NEW t \in N!Task, NEW step, NEW locals, Goes(t, step, locals),
         UNCHANGED <<c3, c4>>, c6[t] \notin {"insert"}, step # "insert",
         step \notin {"new", "done"} => locals.server \in Server,
         N!Settled(t) => step \in {"queue", "done"},
         c9' = c9 \/ c8', c8 => c8', c5' = c5 \/ c8',
         ~c8' /\ step = "queue" =>
            N!Settled(locals.worker) /\ locals.worker \in c4[locals.server]
  PROVE  N!RegistryInvariant'
<1> USE DEF N!RegistryInvariant
<1>1. \A u \in N!Task : N!Settled(u) => N!Settled(u)'
  BY DEF Goes, N!Settled
<1>2. N!TasksAreOnServers'
  BY DEF Goes, N!TasksAreOnServers, N!Busy
<1>3. N!CachedOnesAreSettled'
  <2> SUFFICES ASSUME NEW v \in Server, c3[v] # None
               PROVE  N!Settled(c3[v].worker)'
    BY DEF N!CachedOnesAreSettled
  <2>1. c3[v].worker \in N!Task
    BY DEF N!RegistryTypeOK, N!Notifier
  <2> QED
    BY <1>1, <2>1 DEF N!CachedOnesAreSettled
<1>4. N!WorkersAreOwned'
  <2> SUFFICES ASSUME NEW v \in Server, NEW w \in c4[v],
                      ~(c3[v] # None /\ c3[v].worker = w)
               PROVE  c6'[w] = "insert" /\ c7'[w].server = v
    BY DEF N!WorkersAreOwned
  <2>1. c6[w] = "insert" /\ c7[w].server = v /\ w \in N!Task
    BY DEF N!WorkersAreOwned, N!RegistryTypeOK
  <2> QED
    BY <2>1 DEF Goes
<1>5. N!NoLossWithoutCleanup'
  BY DEF N!NoLossWithoutCleanup
<1>6. ~c8' => N!UsedOnesRun'
  <2> SUFFICES ASSUME ~c8'
               PROVE  N!UsedOnesRun'
    OBVIOUS
  <2>1. N!UsedOnesRun /\ c5' = c5
    OBVIOUS
  <2>2. \A u \in N!Task : c6[u] = "queue" => c7[u].worker \in N!Task
    <3>1. \A u \in N!Task : c6[u] = "queue" => c7[u].server \in Server
      BY DEF N!TasksAreOnServers, N!Busy
    <3> QED
      BY <2>1, <3>1 DEF N!UsedOnesRun, N!RegistryTypeOK
  <2>3. ASSUME NEW u \in N!Task, c6'[u] = "queue"
        PROVE  c6'[c7'[u].worker] \in {"queue", "done"} /\ c7'[u].worker \in c4[c7'[u].server]
    <3>1. CASE u = t
      <4>1. /\ step = "queue" /\ locals.server \in Server /\ c7'[u] = locals
            /\ N!Settled(locals.worker) /\ locals.worker \in c4[locals.server]
        BY <2>3, <3>1 DEF Goes
      <4>2. locals.worker \in N!Task
        BY <4>1 DEF N!RegistryTypeOK
      <4> QED
        BY <1>1, <4>1, <4>2 DEF N!Settled
    <3>2. CASE u # t
      BY <1>1, <2>1, <2>2, <2>3, <3>2 DEF Goes, N!UsedOnesRun, N!Settled
    <3> QED
      BY <3>1, <3>2
  <2> QED
    BY <2>1, <2>3 DEF N!UsedOnesRun, N!Settled
<1> QED
  BY <1>2, <1>3, <1>4, <1>5, <1>6

LEMMA HookPhases ==
  ASSUME N!RegistryTypeOK, NEW s \in Sids,
         N!Session!Open(s) \/ N!Session!Announce(s) \/ N!Session!Close(s)
  PROVE  c1' \in [Sids -> {"fresh", "open", "announced", "closed"}]
BY DEF N!RegistryTypeOK, N!Session!Open, N!Session!Announce, N!Session!Close

HookCalls(t) ==
  \/ N!Begin(t) \/ N!RegisterWebhook(t) \/ N!ReadState(t) \/ N!SaveState(t)
  \/ N!LookupNotifier(t) \/ N!QueueEvent(t) \/ N!Delete(t)

LEMMA HookCallsNext ==
  ASSUME N!RegistryInvariant, NEW t \in N!Task, HookCalls(t)
  PROVE  N!RegistryInvariant'
<1> USE DEF N!RegistryInvariant
<1>1. /\ c7[t] \in N!Locals /\ c8 \in BOOLEAN /\ c9 \in BOOLEAN /\ c5 \subseteq Server
      /\ c2 \in N!Registration \cup {None} /\ c3 \in [Server -> N!Notifier \cup {None}]
  BY DEF N!RegistryTypeOK
<1>2. t \in N!Busy => c7[t].server \in Server
  BY DEF N!TasksAreOnServers
<1>3. t.sid \in Sids
  BY DEF N!Task
<1>4. ASSUME NEW step \in N!Steps, NEW locals \in N!Locals, Goes(t, step, locals),
             UNCHANGED <<c1, c3, c4>>, c2' \in N!Registration \cup {None},
             c6[t] # "insert", step # "insert",
             step \notin {"new", "done"} => locals.server \in Server,
             c6[t] = "queue" => step = "done", c6[t] # "done",
             UNCHANGED c9, UNCHANGED <<c5, c8>> \/ (c5' = Server /\ c8' = TRUE),
             ~c8 /\ step = "queue" =>
               N!Settled(locals.worker) /\ locals.worker \in c4[locals.server]
      PROVE  N!RegistryInvariant'
  <2>1. N!RegistryTypeOK'
    BY <1>1, <1>4 DEF N!RegistryTypeOK, Goes
  <2>2. N!Settled(t) => step \in {"queue", "done"}
    BY <1>4 DEF N!Settled
  <2>3. /\ c9' = c9 \/ c8'
        /\ c8 => c8'
        /\ c5' = c5 \/ c8'
        /\ ~c8' => ~c8
    BY <1>4
  <2> QED
    BY <1>4, <2>1, <2>2, <2>3, HookRest
<1>5. CASE N!Begin(t)
  <2>1. PICK v \in Server : c7' = [c7 EXCEPT ![t] = [c7[t] EXCEPT !.server = v]]
    BY <1>5 DEF N!Begin
  <2>2. /\ c6[t] = "new" /\ UNCHANGED <<c1, c2, c3, c4, c5, c8, c9>>
        /\ \E step \in {"register", "state", "lookup", "read"} : N!Goto(t, step)
    <3>1. t.call \in {"room_created", "room_finished", "delete"}
      BY DEF N!Task
    <3> QED
      BY <1>5, <3>1 DEF N!Begin
  <2>3. PICK step \in {"register", "state", "lookup", "read"} : N!Goto(t, step)
    BY <2>2
  <2> DEFINE locals == [c7[t] EXCEPT !.server = v]
  <2>4. locals \in N!Locals /\ locals.server \in Server
    BY <1>1 DEF N!Locals
  <2>5. step \in N!Steps
    BY DEF N!Steps
  <2>6. c7' = [c7 EXCEPT ![t] = locals]
    BY <2>1
  <2> HIDE DEF locals
  <2>7. Goes(t, step, locals)
    BY <2>3, <2>4, <2>5, <2>6, HookGoes
  <2> QED
    BY <1>1, <1>4, <2>2, <2>3, <2>4, <2>5, <2>7
<1>6. ASSUME t \in N!Busy, c6[t] # "insert", UNCHANGED <<c1, c3, c4, c9>>,
             c2' \in N!Registration \cup {None}
      PROVE  /\ \A step \in {"lookup", "fetch", "save", "publish", "remove"} :
                  /\ N!Goto(t, step) /\ c7' = c7 /\ c6[t] # "queue"
                  /\ UNCHANGED <<c5, c8>> \/ (c5' = Server /\ c8' = TRUE)
                  => N!RegistryInvariant'
             /\ N!Finish(t) /\ UNCHANGED <<c5, c8>> => N!RegistryInvariant'
  <2>1. c7[t].server \in Server /\ c6[t] \notin {"new", "done"}
    BY <1>2, <1>6 DEF N!Busy
  <2>2. {"lookup", "fetch", "save", "publish", "remove"} \subseteq N!Steps /\ "done" \in N!Steps
    BY DEF N!Steps
  <2>3. N!NoLocals \in N!Locals
    BY DEF N!NoLocals, N!Locals
  <2>4. ASSUME NEW step \in {"lookup", "fetch", "save", "publish", "remove"},
               N!Goto(t, step), c7' = c7, c6[t] # "queue",
               UNCHANGED <<c5, c8>> \/ (c5' = Server /\ c8' = TRUE)
        PROVE  N!RegistryInvariant'
    <3>1. Goes(t, step, c7[t])
      BY <2>2, <2>4, HookGoes
    <3> QED
      BY <1>1, <1>4, <1>6, <2>1, <2>2, <2>4, <3>1
  <2>5. ASSUME N!Finish(t), UNCHANGED <<c5, c8>>
        PROVE  N!RegistryInvariant'
    <3>1. Goes(t, "done", N!NoLocals)
      BY <2>5, HookGoes
    <3> QED
      BY <1>4, <1>6, <2>1, <2>2, <2>3, <2>5, <3>1
  <2> QED
    BY <2>4, <2>5
<1>7. CASE N!RegisterWebhook(t)
  <2>1. [urls |-> t.sid, deleting |-> FALSE] \in N!Registration
    BY <1>3 DEF N!Registration
  <2>2. c2' \in N!Registration \cup {None}
    BY <1>1, <1>7, <2>1 DEF N!RegisterWebhook
  <2> QED
    BY <1>6, <1>7, <2>2 DEF N!RegisterWebhook, N!Busy
<1>8. CASE N!ReadState(t)
  <2> DEFINE deleting == (t.call = "room_finished")
             data == [c2 EXCEPT !.deleting = deleting]
  <2>1. /\ c6[t] = "state" /\ UNCHANGED <<c1, c2, c3, c4, c5, c8, c9>>
        /\ \/ N!Goto(t, "lookup") /\ UNCHANGED c7
           \/ /\ N!Goto(t, "save") /\ c2 # None
              /\ c7' = [c7 EXCEPT ![t].data = data]
    BY <1>8 DEF N!ReadState
  <2>2. CASE N!Goto(t, "lookup") /\ UNCHANGED c7
    BY <1>1, <1>6, <2>1, <2>2 DEF N!Busy
  <2>3. CASE N!Goto(t, "save") /\ c2 # None /\ c7' = [c7 EXCEPT ![t].data = data]
    <3>1. deleting \in BOOLEAN
      OBVIOUS
    <3> HIDE DEF deleting
    <3>2. data \in N!Registration
      BY <1>1, <2>3, <3>1 DEF N!Registration
    <3> HIDE DEF data
    <3> DEFINE locals == [c7[t] EXCEPT !.data = data]
    <3>3. locals \in N!Locals /\ locals.server = c7[t].server
      BY <1>1, <3>2 DEF N!Locals
    <3>4. c7' = [c7 EXCEPT ![t] = locals]
      BY <2>3
    <3> HIDE DEF locals
    <3>5. "save" \in N!Steps
      BY DEF N!Steps
    <3>6. Goes(t, "save", locals)
      BY <2>3, <3>3, <3>4, <3>5, HookGoes
    <3> QED
      BY <1>1, <1>2, <1>4, <2>1, <3>3, <3>5, <3>6 DEF N!Busy
  <2> QED
    BY <2>1, <2>2, <2>3
<1>9. CASE N!SaveState(t)
  <2>1. c2' \in N!Registration \cup {None}
    BY <1>1, <1>9 DEF N!SaveState, N!Locals
  <2> QED
    BY <1>6, <1>9, <2>1 DEF N!SaveState, N!Busy
<1>10. CASE N!LookupNotifier(t)
  <2> DEFINE v == c7[t].server
  <2>1. /\ c6[t] = "lookup" /\ UNCHANGED <<c1, c2, c3, c4, c5, c8, c9>> /\ v \in Server
        /\ \/ N!Goto(t, "fetch") /\ UNCHANGED c7
           \/ /\ N!Goto(t, "queue") /\ c3[v] # None
              /\ c7' = [c7 EXCEPT ![t].urls = c3[v].urls, ![t].worker = c3[v].worker]
    BY <1>2, <1>10 DEF N!LookupNotifier, N!Busy
  <2>2. CASE N!Goto(t, "fetch") /\ UNCHANGED c7
    BY <1>1, <1>6, <2>1, <2>2 DEF N!Busy
  <2>3. CASE /\ N!Goto(t, "queue") /\ c3[v] # None
             /\ c7' = [c7 EXCEPT ![t].urls = c3[v].urls, ![t].worker = c3[v].worker]
    <3>1. c3[v].urls \in Sids /\ c3[v].worker \in N!Task
      BY <1>1, <2>1, <2>3 DEF N!Notifier
    <3> DEFINE locals == [c7[t] EXCEPT !.urls = c3[v].urls, !.worker = c3[v].worker]
    <3>2. locals \in N!Locals /\ locals.server = v /\ locals.worker = c3[v].worker
      BY <1>1, <3>1 DEF N!Locals
    <3>3. c7' = [c7 EXCEPT ![t] = locals]
      BY <2>3 DEF N!RegistryTypeOK
    <3> HIDE DEF locals
    <3>4. "queue" \in N!Steps
      BY DEF N!Steps
    <3>5. Goes(t, "queue", locals)
      BY <2>3, <3>2, <3>3, <3>4, HookGoes
    <3>6. ~c8 => N!Settled(locals.worker) /\ locals.worker \in c4[locals.server]
      BY <2>1, <2>3, <3>2 DEF N!UsedOnesRun, N!CachedOnesAreSettled
    <3> QED
      BY <1>1, <1>4, <2>1, <3>2, <3>4, <3>5, <3>6
  <2> QED
    BY <2>1, <2>2, <2>3
<1>11. CASE N!QueueEvent(t)
  <2>1. /\ c6[t] = "queue" /\ UNCHANGED <<c1, c2, c3, c4, c5, c8>> /\ N!Finish(t)
        /\ c9' = (c9 \/ c7[t].worker \notin c4[c7[t].server])
    BY <1>11 DEF N!QueueEvent
  <2>2. ~c8 => c9' = c9
    BY <1>1, <2>1 DEF N!UsedOnesRun
  <2>3. Goes(t, "done", N!NoLocals)
    BY <2>1, HookGoes
  <2>4. N!RegistryTypeOK'
    BY <2>1, <2>3 DEF N!RegistryTypeOK, Goes
  <2> QED
    BY <1>1, <2>1, <2>2, <2>3, <2>4, HookRest
<1>12. CASE N!Delete(t)
  <2>1. CASE N!ReadBeforeDelete(t)
    BY <1>1, <1>6, <2>1 DEF N!ReadBeforeDelete, N!Busy
  <2>2. CASE N!PublishCleanup(t)
    BY <1>1, <1>6, <2>2 DEF N!PublishCleanup, N!Busy
  <2>3. CASE N!DeleteWebhookData(t)
    BY <1>1, <1>6, <2>3 DEF N!DeleteWebhookData, N!Busy
  <2> QED
    BY <1>12, <2>1, <2>2, <2>3 DEF N!Delete
<1> QED
  BY <1>5, <1>7, <1>8, <1>9, <1>10, <1>11, <1>12 DEF HookCalls

(* A worker is started by the task it is named after.                      *)
LEMMA HookFetch ==
  ASSUME N!RegistryInvariant, NEW t \in N!Task, N!FetchUrls(t)
  PROVE  N!RegistryInvariant'
<1> USE DEF N!RegistryInvariant
<1> DEFINE v == c7[t].server
           locals == [c7[t] EXCEPT !.urls = c2.urls, !.worker = t]
<1>1. /\ c7[t] \in N!Locals /\ c4 \in [Server -> SUBSET N!Task] /\ v \in Server
      /\ c2 \in N!Registration \cup {None} /\ c6[t] = "fetch"
      /\ UNCHANGED <<c1, c2, c3, c5, c8, c9>>
  BY DEF N!FetchUrls, N!RegistryTypeOK, N!TasksAreOnServers, N!Busy
<1>2. CASE c2 = None
  <2>1. N!Finish(t) /\ UNCHANGED c4
    BY <1>2 DEF N!FetchUrls
  <2>2. Goes(t, "done", N!NoLocals)
    BY <2>1, HookGoes
  <2>3. N!RegistryTypeOK'
    BY <1>1, <2>1, <2>2 DEF N!RegistryTypeOK, Goes
  <2> QED
    BY <1>1, <2>1, <2>2, <2>3, HookRest
<1>3. CASE c2 # None
  <2>1. /\ N!Goto(t, "insert") /\ c4' = [c4 EXCEPT ![v] = c4[v] \cup {t}]
        /\ c7' = [c7 EXCEPT ![t].urls = c2.urls, ![t].worker = t]
    BY <1>3 DEF N!FetchUrls
  <2>2. c2.urls \in Sids
    BY <1>1, <1>3 DEF N!Registration
  <2>3. /\ locals \in N!Locals /\ locals.server = v
        /\ locals.urls = c2.urls /\ locals.worker = t
    BY <1>1, <2>2 DEF N!Locals
  <2>4. c7' = [c7 EXCEPT ![t] = locals]
    BY <2>1 DEF N!RegistryTypeOK
  <2>5. "insert" \in N!Steps
    BY DEF N!Steps
  <2> HIDE DEF locals, v
  <2>6. Goes(t, "insert", locals)
    BY <2>1, <2>3, <2>4, <2>5, HookGoes
  <2>7. N!RegistryTypeOK'
    BY <1>1, <2>1, <2>6 DEF N!RegistryTypeOK, Goes
  <2>8. \A w \in N!Task : N!Settled(w) => w # t /\ N!Settled(w)'
    BY <1>1, <2>6 DEF Goes, N!Settled
  <2>9. \A r \in Server : c4'[r] = IF r = v THEN c4[r] \cup {t} ELSE c4[r]
    BY <1>1, <2>1
  <2>10. N!WorkersAreOwned'
    <3> SUFFICES ASSUME NEW r \in Server, NEW w \in c4'[r],
                        ~(c3[r] # None /\ c3[r].worker = w)
                 PROVE  c6'[w] = "insert" /\ c7'[w].server = r
      BY <1>1 DEF N!WorkersAreOwned
    <3>1. CASE w = t
      <4>1. t \in c4[r] => c6[t] = "insert"
        BY <3>1 DEF N!WorkersAreOwned
      <4>2. r = v
        BY <1>1, <2>9, <3>1, <4>1
      <4> QED
        BY <2>3, <2>6, <3>1, <4>2 DEF Goes
    <3>2. CASE w # t
      <4>1. w \in c4[r] /\ w \in N!Task
        BY <1>1, <2>9, <3>2
      <4> QED
        BY <2>6, <3>2, <4>1 DEF N!WorkersAreOwned, Goes
    <3> QED
      BY <3>1, <3>2
  <2>11. N!TasksAreOnServers'
    <3> SUFFICES ASSUME NEW u \in N!Task
                 PROVE  /\ c6'[u] \notin {"new", "done"} => c7'[u].server \in Server
                        /\ c6'[u] = "insert" =>
                             /\ c7'[u].urls \in Sids /\ c7'[u].worker = u
                             /\ u \in c4'[c7'[u].server]
      BY DEF N!TasksAreOnServers, N!Busy
    <3>1. CASE u = t
      BY <1>1, <2>2, <2>3, <2>6, <2>9, <3>1 DEF Goes
    <3>2. CASE u # t
      <4>1. /\ c6'[u] = c6[u] /\ c7'[u] = c7[u]
            /\ c6[u] \notin {"new", "done"} => c7[u].server \in Server
            /\ c6[u] = "insert" => /\ c7[u].urls \in Sids /\ c7[u].worker = u
                                   /\ u \in c4[c7[u].server]
        BY <2>6, <3>2 DEF Goes, N!TasksAreOnServers, N!Busy
      <4> QED
        BY <2>9, <4>1
    <3> QED
      BY <3>1, <3>2
  <2>12. N!CachedOnesAreSettled'
    <3> SUFFICES ASSUME NEW r \in Server, c3[r] # None
                 PROVE  c6'[c3[r].worker] \in {"queue", "done"}
      BY <1>1 DEF N!CachedOnesAreSettled, N!Settled
    <3>1. c3[r].worker \in N!Task
      BY DEF N!RegistryTypeOK, N!Notifier
    <3> QED
      BY <2>8, <3>1 DEF N!CachedOnesAreSettled, N!Settled
  <2>13. ~c8' => N!UsedOnesRun'
    <3> SUFFICES ASSUME ~c8'
                 PROVE  N!UsedOnesRun'
      OBVIOUS
    <3>1. N!UsedOnesRun /\ c5' = c5 /\ c3' = c3
      BY <1>1
    <3>2. ASSUME NEW u \in N!Task, c6'[u] = "queue"
          PROVE  /\ c6'[c7'[u].worker] \in {"queue", "done"}
                 /\ c7'[u].worker \in c4'[c7'[u].server]
      <4>1. u # t /\ c6[u] = "queue" /\ c7'[u] = c7[u]
        BY <2>6, <3>2 DEF Goes
      <4>2. N!Settled(c7[u].worker) /\ c7[u].worker \in c4[c7[u].server] /\ c7[u].server \in Server
        BY <3>1, <4>1 DEF N!UsedOnesRun, N!TasksAreOnServers, N!Busy
      <4>3. c7[u].worker \in N!Task
        BY <1>1, <4>2
      <4>4. N!Settled(c7[u].worker) => c6'[c7[u].worker] \in {"queue", "done"}
        BY <2>8, <4>3 DEF N!Settled
      <4> QED
        BY <2>9, <4>1, <4>2, <4>4
    <3> QED
      BY <2>9, <3>1, <3>2 DEF N!UsedOnesRun, N!Settled
  <2> QED
    BY <1>1, <2>7, <2>10, <2>11, <2>12, <2>13 DEF N!NoLossWithoutCleanup
<1> QED
  BY <1>2, <1>3

(* The second critical section: one worker is cached, another one killed.  *)
LEMMA HookInsert ==
  ASSUME N!RegistryInvariant, NEW t \in N!Task, N!InsertNotifier(t)
  PROVE  N!RegistryInvariant'
<1> USE DEF N!RegistryInvariant
<1> DEFINE v == c7[t].server
<1>1. /\ c7[t] \in N!Locals /\ c4 \in [Server -> SUBSET N!Task] /\ v \in Server
      /\ c3 \in [Server -> N!Notifier \cup {None}]
      /\ c6[t] = "insert" /\ c7[t].urls \in Sids /\ t \in c4[v] /\ N!Goto(t, "queue")
      /\ UNCHANGED <<c1, c2, c5, c8, c9>>
  BY DEF N!InsertNotifier, N!RegistryTypeOK, N!TasksAreOnServers, N!Busy
<1>2. "queue" \in N!Steps
  BY DEF N!Steps
<1> HIDE DEF v
<1>3. PICK locals \in N!Locals :
        /\ Goes(t, "queue", locals) /\ locals.server = v
        /\ c3' \in [Server -> N!Notifier \cup {None}] /\ c4' \in [Server -> SUBSET N!Task]
        /\ \A r \in Server : r # v => c3'[r] = c3[r] /\ c4'[r] = c4[r]
        /\ c3'[v] # None /\ locals.worker = c3'[v].worker
        /\ \/ c3[v] = None /\ locals.worker = t /\ c4'[v] = c4[v]
           \/ c3[v] # None /\ c3'[v] = c3[v] /\ c4'[v] = c4[v] \ {t}
  <2>1. CASE c3[v] = None
    <3> DEFINE new == [urls |-> c7[t].urls, worker |-> t]
    <3>1. c3' = [c3 EXCEPT ![v] = new] /\ UNCHANGED <<c4, c7>>
      BY <2>1 DEF N!InsertNotifier, v
    <3>2. new \in N!Notifier /\ new # None /\ new.worker = t
      BY <1>1, NotifierAssumption DEF N!Notifier, NotifierAssumption
    <3> HIDE DEF new
    <3>3. Goes(t, "queue", c7[t])
      BY <1>1, <1>2, <3>1, HookGoes
    <3>4. c7[t].worker = t
      BY <1>1 DEF N!TasksAreOnServers
    <3> QED
      BY <1>1, <2>1, <3>1, <3>2, <3>3, <3>4 DEF v
  <2>2. CASE c3[v] # None
    <3> DEFINE new == [c7[t] EXCEPT !.urls = c3[v].urls, !.worker = c3[v].worker]
    <3>1. /\ c4' = [c4 EXCEPT ![v] = c4[v] \ {t}] /\ c3' = c3
          /\ c7' = [c7 EXCEPT ![t].urls = c3[v].urls, ![t].worker = c3[v].worker]
      BY <2>2 DEF N!InsertNotifier, v
    <3>2. c3[v].urls \in Sids /\ c3[v].worker \in N!Task
      BY <1>1, <2>2 DEF N!Notifier
    <3>3. new \in N!Locals /\ new.server = v /\ new.worker = c3[v].worker
      BY <1>1, <3>2 DEF N!Locals, v
    <3>4. c7' = [c7 EXCEPT ![t] = new]
      BY <3>1 DEF N!RegistryTypeOK
    <3> HIDE DEF new
    <3>5. Goes(t, "queue", new)
      BY <1>1, <1>2, <3>3, <3>4, HookGoes
    <3> QED
      BY <1>1, <2>2, <3>1, <3>3, <3>5
  <2> QED
    BY <2>1, <2>2
<1>4. N!RegistryTypeOK'
  BY <1>1, <1>3 DEF N!RegistryTypeOK, Goes
<1>5. \A w \in N!Task : /\ N!Settled(w) => w # t /\ N!Settled(w)'
                        /\ w = t => N!Settled(w)'
  BY <1>1, <1>3 DEF Goes, N!Settled
<1>6. \A r \in Server : c3[r] # None => c3[r].worker \in N!Task /\ N!Settled(c3[r].worker)
  BY <1>1 DEF N!Notifier, N!CachedOnesAreSettled
<1>7. locals.worker \in N!Task /\ N!Settled(locals.worker)'
  BY <1>1, <1>3, <1>5, <1>6
<1>8. \A u \in N!Task : u # t => c6'[u] = c6[u] /\ c7'[u] = c7[u]
  BY <1>3 DEF Goes
<1>9. \A r \in Server, w \in N!Task : w \in c4[r] /\ w # t => w \in c4'[r]
  BY <1>1, <1>3
<1>10. N!WorkersAreOwned'
  <2> SUFFICES ASSUME NEW r \in Server, NEW w \in c4'[r],
                      ~(c3'[r] # None /\ c3'[r].worker = w)
               PROVE  c6'[w] = "insert" /\ c7'[w].server = r
    BY DEF N!WorkersAreOwned
  <2>1. w \in c4[r] /\ w \in N!Task
    BY <1>1, <1>3
  <2>2. w # t
    <3>1. CASE r = v
      BY <1>1, <1>3, <3>1
    <3>2. CASE r # v
      <4>1. w = t => c3[r] # None /\ c3[r].worker = t
        BY <1>1, <2>1, <3>2 DEF N!WorkersAreOwned, v
      <4> QED
        BY <1>3, <3>2, <4>1
    <3> QED
      BY <3>1, <3>2
  <2>3. ~(c3[r] # None /\ c3[r].worker = w)
    BY <1>3
  <2> QED
    BY <1>8, <2>1, <2>2, <2>3 DEF N!WorkersAreOwned
<1>11. N!TasksAreOnServers'
  <2> SUFFICES ASSUME NEW u \in N!Task
               PROVE  /\ c6'[u] \notin {"new", "done"} => c7'[u].server \in Server
                      /\ c6'[u] = "insert" => /\ c7'[u].urls \in Sids /\ c7'[u].worker = u
                                              /\ u \in c4'[c7'[u].server]
    BY DEF N!TasksAreOnServers, N!Busy
  <2>1. CASE u = t
    BY <1>1, <1>3, <2>1 DEF Goes
  <2>2. CASE u # t
    <3>1. /\ c6'[u] = c6[u] /\ c7'[u] = c7[u]
          /\ c6[u] \notin {"new", "done"} => c7[u].server \in Server
          /\ c6[u] = "insert" => /\ c7[u].urls \in Sids /\ c7[u].worker = u
                                 /\ u \in c4[c7[u].server]
      BY <1>8, <2>2 DEF N!TasksAreOnServers, N!Busy
    <3> QED
      BY <1>9, <2>2, <3>1
  <2> QED
    BY <2>1, <2>2
<1>12. N!CachedOnesAreSettled'
  <2> SUFFICES ASSUME NEW r \in Server, c3'[r] # None
               PROVE  c6'[c3'[r].worker] \in {"queue", "done"}
    BY DEF N!CachedOnesAreSettled, N!Settled
  <2>1. CASE r = v
    BY <1>3, <1>7, <2>1 DEF N!Settled
  <2>2. CASE r # v
    BY <1>3, <1>5, <1>6, <2>2 DEF N!Settled
  <2> QED
    BY <2>1, <2>2
<1>13. ~c8' => N!UsedOnesRun'
  <2> SUFFICES ASSUME ~c8'
               PROVE  N!UsedOnesRun'
    OBVIOUS
  <2>1. N!UsedOnesRun /\ c5' = c5
    BY <1>1
  <2>2. ASSUME NEW r \in Server, c3'[r] # None
        PROVE  c3'[r].worker \in c4'[r]
    <3>1. c3[r] # None => c3[r].worker \in c4[r] /\ c3[r].worker # t /\ c3[r].worker \in N!Task
      BY <1>5, <1>6, <2>1 DEF N!UsedOnesRun
    <3>2. CASE c3[r] # None
      BY <1>3, <1>9, <3>1, <3>2
    <3>3. CASE c3[r] = None
      BY <1>1, <1>3, <2>2, <3>3
    <3> QED
      BY <3>2, <3>3
  <2>3. ASSUME NEW u \in N!Task, c6'[u] = "queue"
        PROVE  /\ c6'[c7'[u].worker] \in {"queue", "done"}
               /\ c7'[u].worker \in c4'[c7'[u].server]
    <3>1. CASE u = t
      <4>1. c7'[u] = locals
        BY <1>3, <3>1 DEF Goes
      <4> QED
        BY <1>1, <1>3, <1>7, <2>2, <4>1 DEF N!Settled
    <3>2. CASE u # t
      <4>1. c6[u] = "queue" /\ c7'[u] = c7[u]
        BY <1>8, <2>3, <3>2
      <4>2. N!Settled(c7[u].worker) /\ c7[u].worker \in c4[c7[u].server] /\ c7[u].server \in Server
        BY <2>1, <4>1 DEF N!UsedOnesRun, N!TasksAreOnServers, N!Busy
      <4>3. c7[u].worker \in N!Task
        BY <1>1, <4>2
      <4>4. c7[u].worker # t /\ c6'[c7[u].worker] \in {"queue", "done"}
        BY <1>5, <4>2, <4>3 DEF N!Settled
      <4> QED
        BY <1>9, <4>1, <4>2, <4>3, <4>4
    <3> QED
      BY <3>1, <3>2
  <2> QED
    BY <2>1, <2>2, <2>3 DEF N!UsedOnesRun, N!Settled
<1> QED
  BY <1>1, <1>4, <1>10, <1>11, <1>12, <1>13 DEF N!NoLossWithoutCleanup

(* The cleanup reaches a server: its notifier goes and so does the worker. *)
LEMMA HookCleanup ==
  ASSUME N!RegistryInvariant, NEW v \in Server, N!CleanupNotifier(v)
  PROVE  N!RegistryInvariant'
<1> USE DEF N!RegistryInvariant
<1>1. /\ v \in c5 /\ c5' = c5 \ {v} /\ c3' = [c3 EXCEPT ![v] = None]
      /\ c4' = [c4 EXCEPT ![v] = IF c3[v] = None THEN c4[v] ELSE c4[v] \ {c3[v].worker}]
      /\ UNCHANGED <<c1, c2, c6, c7, c8, c9>>
      /\ c4 \in [Server -> SUBSET N!Task] /\ c3 \in [Server -> N!Notifier \cup {None}]
  BY DEF N!CleanupNotifier, N!RegistryTypeOK
<1>2. c8 /\ c8' = c8
  BY <1>1 DEF N!UsedOnesRun
<1>3. N!RegistryTypeOK'
  BY <1>1 DEF N!RegistryTypeOK
<1>4. /\ c3'[v] = None /\ c4'[v] = IF c3[v] = None THEN c4[v] ELSE c4[v] \ {c3[v].worker}
      /\ \A r \in Server : r # v => c3'[r] = c3[r] /\ c4'[r] = c4[r]
  BY <1>1
<1>5. N!WorkersAreOwned'
  <2> SUFFICES ASSUME NEW r \in Server, NEW w \in c4'[r],
                      ~(c3'[r] # None /\ c3'[r].worker = w)
               PROVE  c6[w] = "insert" /\ c7[w].server = r
    BY <1>1 DEF N!WorkersAreOwned
  <2>1. w \in c4[r] /\ ~(c3[r] # None /\ c3[r].worker = w)
    BY <1>4
  <2> QED
    BY <2>1 DEF N!WorkersAreOwned
<1>6. N!CachedOnesAreSettled'
  BY <1>1, <1>4 DEF N!CachedOnesAreSettled, N!Settled
<1>7. N!TasksAreOnServers'
  <2> SUFFICES ASSUME NEW u \in N!Task, c6[u] = "insert"
               PROVE  u \in c4'[c7[u].server]
    BY <1>1 DEF N!TasksAreOnServers, N!Busy
  <2>1. u \in c4[c7[u].server] /\ c7[u].server \in Server
    BY DEF N!TasksAreOnServers, N!Busy
  <2>2. c3[v] # None => c3[v].worker # u
    BY DEF N!CachedOnesAreSettled, N!Settled
  <2> QED
    BY <1>4, <2>1, <2>2
<1> QED
  BY <1>1, <1>2, <1>3, <1>5, <1>6, <1>7 DEF N!NoLossWithoutCleanup

LEMMA RegistryStart == N!Init => N!RegistryInvariant
<1> SUFFICES ASSUME N!Init
             PROVE  N!RegistryInvariant
  OBVIOUS
<1>1. N!RegistryTypeOK
  <2>1. N!NoLocals \in N!Locals /\ "new" \in N!Steps
    BY DEF N!NoLocals, N!Locals, N!Steps
  <2> QED
    BY <2>1 DEF N!Init, N!Session!Init, N!RegistryTypeOK
<1> QED
  BY <1>1 DEF N!Init, N!RegistryInvariant, N!WorkersAreOwned, N!NoLossWithoutCleanup,
     N!TasksAreOnServers, N!Busy, N!CachedOnesAreSettled, N!UsedOnesRun

LEMMA RegistryNextKeeps ==
  N!RegistryInvariant /\ [N!Next]_(N!vars) => N!RegistryInvariant'
<1> SUFFICES ASSUME N!RegistryInvariant, [N!Next]_(N!vars)
             PROVE  N!RegistryInvariant'
  OBVIOUS
<1>1. ASSUME UNCHANGED <<c2, c3, c4, c5, c6, c7, c8, c9>>, N!RegistryTypeOK'
      PROVE  N!RegistryInvariant'
  BY <1>1 DEF N!RegistryInvariant, N!WorkersAreOwned, N!NoLossWithoutCleanup,
     N!TasksAreOnServers, N!Busy, N!CachedOnesAreSettled, N!UsedOnesRun, N!Settled
<1>2. CASE N!SessionStep
  <2>1. N!RegistryTypeOK'
    <3>1. c1' \in [Sids -> {"fresh", "open", "announced", "closed"}]
      BY <1>2, HookPhases DEF N!SessionStep, N!RegistryInvariant
    <3> QED
      BY <1>2, <3>1 DEF N!SessionStep, N!RegistryInvariant, N!RegistryTypeOK
  <2> QED
    BY <1>1, <1>2, <2>1 DEF N!SessionStep
<1>3. CASE \E t \in N!Task : N!Begin(t) \/ N!Send(t) \/ N!Delete(t)
  BY <1>3, HookCallsNext, HookFetch, HookInsert DEF N!Send, HookCalls
<1>4. CASE \E v \in Server : N!CleanupNotifier(v)
  BY <1>4, HookCleanup
<1>5. CASE UNCHANGED N!vars
  <2>1. N!RegistryTypeOK'
    BY <1>5 DEF N!vars, N!RegistryInvariant, N!RegistryTypeOK
  <2> QED
    BY <1>1, <1>5, <2>1 DEF N!vars
<1> QED
  BY <1>2, <1>3, <1>4, <1>5 DEF N!Next

(* No worker goroutine of a notifier leaks, and no event is lost in the    *)
(* queue of a killed one before a cleanup was published, however many      *)
(* tasks race on a server (webhook_notifier.go:131-144).                   *)
THEOREM WorkersAlwaysOwned == DataSpec => []NotifiersOwnWorkers
<1> DEFINE Inv == active = "webhooks" => N!RegistryInvariant
<1>1. DataInit => Inv
  BY RegistryStart DEF DataInit
<1>2. Inv /\ [DataNext]_<<active, vars, cells>> => Inv'
  <2> SUFFICES ASSUME Inv, [DataNext]_<<active, vars, cells>>, active' = "webhooks"
               PROVE  N!RegistryInvariant'
    OBVIOUS
  <2>1. active = "webhooks" /\ [N!Next]_(N!vars)
    BY DEF DataNext, cells, N!vars
  <2> QED
    BY <2>1, RegistryNextKeeps
<1>3. Inv => NotifiersOwnWorkers
  BY DEF NotifiersOwnWorkers, N!RegistryInvariant
<1> QED
  BY <1>1, <1>2, <1>3, PTL DEF DataSpec

-----------------------------------------------------------------------------
(* The polls: c1 is the hash, c2 the voters, c3 the ballots, c4 and c5 the *)
(* counters, c6 the requests, c7 the cleanup, c9 what a submission saw.    *)

LEMMA PollCounts ==
  ASSUME NEW S, P!IsFiniteSet(S), NEW x
  PROVE  /\ P!IsFiniteSet(S \cup {x}) /\ P!Cardinality(S) \in Nat
         /\ x \notin S => P!Cardinality(S \cup {x}) = P!Cardinality(S) + 1
         /\ \A T \in SUBSET S : P!IsFiniteSet(T)
<1>1. \A T : /\ P!Cardinality(T) = Cardinality(T)
             /\ P!IsFiniteSet(T) <=> IsFiniteSet(T)
  BY DEF P!Cardinality, Cardinality, P!IsFiniteSet, IsFiniteSet
<1> QED
  BY <1>1, FS_AddElement, FS_CardinalityType, FS_Subset

LEMMA PollRequests ==
  /\ P!Vote \subseteq P!Request /\ P!Admin \subseteq P!Request
  /\ \A v \in P!Vote, r \in P!Admin : v # r
<1>1. ASSUME NEW v \in P!Vote, NEW r \in P!Admin
      PROVE  v # r
  <2>1. DOMAIN v = {"user", "poll", "option"} /\ DOMAIN r = {"task", "poll"}
    BY DEF P!Vote, P!Admin
  <2> QED
    BY <2>1
<1> QED
  BY <1>1 DEF P!Request

(* A submission goes one step on.                                          *)
LEMMA VoteGoes ==
  ASSUME P!PollsTypeOK, NEW v \in P!Vote,
         NEW step \in {"mark", "record", "total", "option", "success", "error"}, P!Goto(v, step)
  PROVE  /\ c6' \in [P!Request -> {"new", "write", "success", "error"} \cup P!VoteSteps]
         /\ c6'[v] = step /\ \A w \in P!Vote : w # v => c6'[w] = c6[w]
         /\ \A p \in PollIds : \A steps :
              P!Through(p, steps)' = IF v.poll = p /\ step \in steps
                                     THEN P!Through(p, steps) \cup {v}
                                     ELSE P!Through(p, steps) \ {v}
         /\ {w \in P!Vote : c6'[w] # "new"} = {w \in P!Vote : c6[w] # "new"} \cup {v}
<1>1. /\ c6' \in [P!Request -> {"new", "write", "success", "error"} \cup P!VoteSteps]
      /\ c6'[v] = step /\ \A w \in P!Vote : w # v => c6'[w] = c6[w]
  BY PollRequests DEF P!PollsTypeOK, P!Goto, P!VoteSteps
<1>2. ASSUME NEW p \in PollIds, NEW steps
      PROVE  P!Through(p, steps)' = IF v.poll = p /\ step \in steps
                                    THEN P!Through(p, steps) \cup {v}
                                    ELSE P!Through(p, steps) \ {v}
  <2>1. ASSUME NEW w \in P!Vote
        PROVE  w \in P!Through(p, steps)' <=> w.poll = p /\ c6'[w] \in steps
    BY DEF P!Through
  <2>2. ASSUME NEW w \in P!Vote
        PROVE  w \in P!Through(p, steps) <=> w.poll = p /\ c6[w] \in steps
    BY DEF P!Through
  <2>3. P!Through(p, steps)' \subseteq P!Vote /\ P!Through(p, steps) \subseteq P!Vote
    BY DEF P!Through
  <2> QED
    BY <1>1, <2>1, <2>2, <2>3
<1>3. {w \in P!Vote : c6'[w] # "new"} = {w \in P!Vote : c6[w] # "new"} \cup {v}
  BY <1>1
<1>4. \A p \in PollIds : \A steps :
        P!Through(p, steps)' = IF v.poll = p /\ step \in steps
                               THEN P!Through(p, steps) \cup {v}
                               ELSE P!Through(p, steps) \ {v}
  BY <1>2
<1> QED
  BY <1>1, <1>3, <1>4

LEMMA VoteType ==
  ASSUME P!PollsTypeOK, NEW v \in P!Vote, P!Submit(v)
  PROVE  P!PollsTypeOK'
<1> USE DEF P!PollsTypeOK
<1>1. v.poll \in PollIds /\ v.user \in Sids /\ v.option \in Server /\ v \in P!Request
  BY PollRequests DEF P!Vote
<1>2. c6' \in [P!Request -> {"new", "write", "success", "error"} \cup P!VoteSteps]
  BY <1>1 DEF P!Submit, P!VoteCheck, P!VoteMark, P!VoteRecord, P!VoteTotal, P!VoteOption, P!Goto,
             P!VoteSteps
<1>3. /\ c2' \in [PollIds -> SUBSET Sids] /\ c3' \in [PollIds -> SUBSET P!Vote]
      /\ c4' \in [PollIds -> Nat] /\ c9' \in [P!Vote -> SUBSET P!Vote]
  <2>1. CASE P!VoteCheck(v)
    <3>1. {w \in P!Vote : c6[w] = "success"} \in SUBSET P!Vote
      OBVIOUS
    <3>2. UNCHANGED <<c2, c3, c4>> /\ c9' = [c9 EXCEPT ![v] = {w \in P!Vote : c6[w] = "success"}]
      BY <2>1 DEF P!VoteCheck
    <3> QED
      BY <3>1, <3>2
  <2>2. CASE P!VoteMark(v)
    BY <1>1, <2>2 DEF P!VoteMark
  <2>3. CASE P!VoteRecord(v)
    BY <1>1, <2>3 DEF P!VoteRecord
  <2>4. CASE P!VoteTotal(v)
    BY <1>1, <2>4 DEF P!VoteTotal
  <2>5. CASE P!VoteOption(v)
    BY <2>5 DEF P!VoteOption
  <2> QED
    BY <2>1, <2>2, <2>3, <2>4, <2>5 DEF P!Submit
<1>4. c5' \in [PollIds -> [Server -> Nat]]
  <2>1. CASE P!VoteOption(v)
    <3>1. c5' = [c5 EXCEPT ![v.poll] = [c5[v.poll] EXCEPT ![v.option] = c5[v.poll][v.option] + 1]]
      BY <2>1 DEF P!VoteOption
    <3>2. [c5[v.poll] EXCEPT ![v.option] = c5[v.poll][v.option] + 1] \in [Server -> Nat]
      BY <1>1
    <3> QED
      BY <1>1, <3>1, <3>2
  <2> QED
    BY <2>1 DEF P!Submit, P!VoteCheck, P!VoteMark, P!VoteRecord, P!VoteTotal
<1>5. UNCHANGED <<c1, c7, c8>>
  BY DEF P!Submit, P!VoteCheck, P!VoteMark, P!VoteRecord, P!VoteTotal, P!VoteOption
<1> QED
  BY <1>2, <1>3, <1>4, <1>5

(* Who succeeded before a submission began stays a success.                *)
LEMMA VoteSeen ==
  ASSUME P!PollsInvariant, NEW v \in P!Vote, P!Submit(v), c7 = "no"
  PROVE  P!SeenAreOver'
<1> USE DEF P!PollsInvariant
<1>1. PICK step \in {"mark", "record", "total", "option", "success", "error"} :
        /\ P!Goto(v, step)
        /\ \/ P!VoteCheck(v) /\ step = IF v.user \in c2[v.poll] THEN "error" ELSE "mark"
           \/ c6[v] \in P!VoteSteps /\ c9' = c9
  BY DEF P!Submit, P!VoteCheck, P!VoteMark, P!VoteRecord, P!VoteTotal, P!VoteOption, P!VoteSteps
<1>2. c6'[v] = step /\ \A w \in P!Vote : w # v => c6'[w] = c6[w]
  BY <1>1, VoteGoes
<1>3. \A u \in P!Vote : \A w \in c9[u] : w \in P!Vote
  BY DEF P!PollsTypeOK
<1>4. P!SeenAreOver /\ P!KeysTellSteps
  OBVIOUS
<1>5. CASE c6[v] \in P!VoteSteps /\ c9' = c9
  <2>1. "success" \notin P!VoteSteps
    BY DEF P!VoteSteps
  <2> QED
    BY <1>2, <1>3, <1>4, <1>5, <2>1 DEF P!SeenAreOver
<1>6. CASE P!VoteCheck(v) /\ step = IF v.user \in c2[v.poll] THEN "error" ELSE "mark"
  <2>1. /\ c6[v] = "new" /\ c9 \in [P!Vote -> SUBSET P!Vote]
        /\ c9' = [c9 EXCEPT ![v] = {w \in P!Vote : c6[w] = "success"}]
    BY <1>6 DEF P!VoteCheck, P!Begins, P!PollsTypeOK
  <2> SUFFICES ASSUME NEW u \in P!Vote, c6'[u] \in P!VoteSteps \cup {"success"}, NEW w \in c9'[u]
               PROVE  c6'[w] = "success" /\ ~(w.user = u.user /\ w.poll = u.poll)
    BY DEF P!SeenAreOver
  <2>2. CASE u # v
    <3>1. c6'[u] = c6[u] /\ w \in c9[u] /\ w \in P!Vote
      BY <1>2, <1>3, <2>1, <2>2
    <3>2. c6[w] = "success" /\ ~(w.user = u.user /\ w.poll = u.poll)
      BY <1>4, <3>1 DEF P!SeenAreOver
    <3> QED
      BY <1>2, <2>1, <3>1, <3>2
  <2>3. CASE u = v
    <3>1. w \in P!Vote /\ c6[w] = "success" /\ w # v
      BY <2>1, <2>3
    <3>2. v.user \notin c2[v.poll] /\ v.poll \in PollIds
      BY <1>2, <1>6, <2>3 DEF P!VoteSteps, P!Vote
    <3>3. w.poll = v.poll => w \in P!Through(v.poll, {"record", "total", "option", "success"})
      BY <3>1 DEF P!Through
    <3>4. w.poll = v.poll => w.user \in c2[v.poll]
      BY <1>4, <3>2, <3>3 DEF P!KeysTellSteps
    <3> QED
      BY <1>2, <2>3, <3>1, <3>2, <3>4
  <2> QED
    BY <2>2, <2>3
<1> QED
  BY <1>1, <1>5, <1>6

(* Each command brings its key where the submission is.                    *)
LEMMA VoteKeys ==
  ASSUME P!PollsInvariant, NEW v \in P!Vote, P!Submit(v), c7 = "no"
  PROVE  P!KeysTellSteps'
<1> USE DEF P!PollsInvariant
<1> DEFINE A == {"record", "total", "option", "success"}
           B3 == {"total", "option", "success"}
           C == {"option", "success"}
           D == {"success"}
<1>1. /\ v.poll \in PollIds /\ v.user \in Sids /\ v.option \in Server
      /\ c2 \in [PollIds -> SUBSET Sids] /\ c3 \in [PollIds -> SUBSET P!Vote]
      /\ c4 \in [PollIds -> Nat] /\ c5 \in [PollIds -> [Server -> Nat]]
  BY DEF P!Vote, P!PollsTypeOK
<1>2. ASSUME NEW p \in PollIds
      PROVE  /\ c2[p] = {w.user : w \in P!Through(p, A)}
             /\ c3[p] = P!Through(p, B3)
             /\ c4[p] = P!Cardinality(P!Through(p, C))
             /\ \A o \in Server :
                  c5[p][o] = P!Cardinality({w \in P!Through(p, D) : w.option = o})
             /\ P!IsFiniteSet(P!Through(p, C)) /\ P!IsFiniteSet(P!Through(p, D))
             /\ \A o \in Server : P!IsFiniteSet({w \in P!Through(p, D) : w.option = o})
  <2>1. P!Through(p, C) \subseteq {w \in P!Vote : c6[w] # "new"}
        /\ P!Through(p, D) \subseteq {w \in P!Vote : c6[w] # "new"}
    BY DEF P!Through
  <2>2. \A T \in SUBSET {w \in P!Vote : c6[w] # "new"} : P!IsFiniteSet(T)
    BY PollCounts
  <2> QED
    BY <2>1, <2>2 DEF P!KeysTellSteps
<1>3. \A p \in PollIds : \A steps : v \in P!Through(p, steps) <=> v.poll = p /\ c6[v] \in steps
  BY DEF P!Through
<1>4. ASSUME NEW step \in {"mark", "record", "total", "option", "success", "error"},
             P!Goto(v, step), NEW p \in PollIds, NEW steps
      PROVE  P!Through(p, steps)' = IF v.poll = p /\ step \in steps
                                    THEN P!Through(p, steps) \cup {v}
                                    ELSE P!Through(p, steps) \ {v}
  BY <1>4, VoteGoes
<1>5. ASSUME NEW step \in {"mark", "record", "total", "option", "success", "error"},
             P!Goto(v, step), NEW steps, c6[v] \in steps <=> step \in steps
      PROVE  \A p \in PollIds : P!Through(p, steps)' = P!Through(p, steps)
  BY <1>3, <1>4, <1>5
<1>6. ASSUME NEW step \in {"mark", "record", "total", "option", "success", "error"},
             P!Goto(v, step), NEW steps, c6[v] \notin steps, step \in steps
      PROVE  /\ P!Through(v.poll, steps)' = P!Through(v.poll, steps) \cup {v}
             /\ v \notin P!Through(v.poll, steps)
             /\ \A p \in PollIds : p # v.poll => P!Through(p, steps)' = P!Through(p, steps)
  <2>1. v \notin P!Through(v.poll, steps)
    BY <1>1, <1>3, <1>6
  <2>2. P!Through(v.poll, steps)' = P!Through(v.poll, steps) \cup {v}
    BY <1>1, <1>4, <1>6
  <2>3. ASSUME NEW p \in PollIds, p # v.poll
        PROVE  P!Through(p, steps)' = P!Through(p, steps)
    <3>1. P!Through(p, steps)' = P!Through(p, steps) \ {v}
      BY <1>4, <1>6, <2>3
    <3>2. v \notin P!Through(p, steps)
      BY <1>3, <2>3
    <3> QED
      BY <3>1, <3>2
  <2> QED
    BY <2>1, <2>2, <2>3
<1>7. ASSUME \A p \in PollIds :
               /\ c2'[p] = {w.user : w \in P!Through(p, A)'}
               /\ c3'[p] = P!Through(p, B3)'
               /\ c4'[p] = P!Cardinality(P!Through(p, C)')
               /\ \A o \in Server :
                    c5'[p][o] = P!Cardinality({w \in P!Through(p, D)' : w.option = o})
      PROVE  P!KeysTellSteps'
  BY <1>7 DEF P!KeysTellSteps
<1> HIDE DEF A, B3, C, D
<1>8. CASE P!VoteCheck(v)
  <2>1. PICK step \in {"mark", "error"} : P!Goto(v, step)
    BY <1>8 DEF P!VoteCheck
  <2>2. c6[v] = "new" /\ UNCHANGED <<c2, c3, c4, c5>>
    BY <1>8 DEF P!VoteCheck, P!Begins
  <2>3. \A p \in PollIds : /\ P!Through(p, A)' = P!Through(p, A)
                           /\ P!Through(p, B3)' = P!Through(p, B3)
                           /\ P!Through(p, C)' = P!Through(p, C)
                           /\ P!Through(p, D)' = P!Through(p, D)
    BY <1>5, <2>1, <2>2 DEF A, B3, C, D
  <2> QED
    BY <1>2, <1>7, <2>2, <2>3
<1>9. CASE P!VoteMark(v)
  <2>1. /\ c6[v] = "mark" /\ P!Goto(v, "record") /\ UNCHANGED <<c3, c4, c5>>
        /\ c2' = [c2 EXCEPT ![v.poll] = c2[v.poll] \cup {v.user}]
    BY <1>9 DEF P!VoteMark
  <2>2. \A p \in PollIds : /\ P!Through(p, B3)' = P!Through(p, B3)
                           /\ P!Through(p, C)' = P!Through(p, C)
                           /\ P!Through(p, D)' = P!Through(p, D)
    BY <1>5, <2>1 DEF B3, C, D
  <2>3. /\ P!Through(v.poll, A)' = P!Through(v.poll, A) \cup {v}
        /\ \A p \in PollIds : p # v.poll => P!Through(p, A)' = P!Through(p, A)
    BY <1>6, <2>1 DEF A
  <2>4. \A p \in PollIds : c2'[p] = {w.user : w \in P!Through(p, A)'}
    BY <1>1, <1>2, <2>1, <2>3
  <2> QED
    BY <1>2, <1>7, <2>1, <2>2, <2>4
<1>10. CASE P!VoteRecord(v)
  <2>1. /\ c6[v] = "record" /\ P!Goto(v, "total") /\ UNCHANGED <<c2, c4, c5>>
        /\ c3' = [c3 EXCEPT ![v.poll] = c3[v.poll] \cup {v}]
    BY <1>10 DEF P!VoteRecord
  <2>2. \A p \in PollIds : /\ P!Through(p, A)' = P!Through(p, A)
                           /\ P!Through(p, C)' = P!Through(p, C)
                           /\ P!Through(p, D)' = P!Through(p, D)
    BY <1>5, <2>1 DEF A, C, D
  <2>3. /\ P!Through(v.poll, B3)' = P!Through(v.poll, B3) \cup {v}
        /\ \A p \in PollIds : p # v.poll => P!Through(p, B3)' = P!Through(p, B3)
    BY <1>6, <2>1 DEF B3
  <2>4. \A p \in PollIds : c3'[p] = P!Through(p, B3)'
    BY <1>1, <1>2, <2>1, <2>3
  <2> QED
    BY <1>2, <1>7, <2>1, <2>2, <2>4
<1>11. CASE P!VoteTotal(v)
  <2>1. /\ c6[v] = "total" /\ P!Goto(v, "option") /\ UNCHANGED <<c2, c3, c5>>
        /\ c4' = [c4 EXCEPT ![v.poll] = c4[v.poll] + 1]
    BY <1>11 DEF P!VoteTotal
  <2>2. \A p \in PollIds : /\ P!Through(p, A)' = P!Through(p, A)
                           /\ P!Through(p, B3)' = P!Through(p, B3)
                           /\ P!Through(p, D)' = P!Through(p, D)
    BY <1>5, <2>1 DEF A, B3, D
  <2>3. /\ P!Through(v.poll, C)' = P!Through(v.poll, C) \cup {v}
        /\ v \notin P!Through(v.poll, C)
        /\ \A p \in PollIds : p # v.poll => P!Through(p, C)' = P!Through(p, C)
    BY <1>6, <2>1 DEF C
  <2>4. P!Cardinality(P!Through(v.poll, C)') = c4[v.poll] + 1
    <3> DEFINE S == P!Through(v.poll, C)
    <3>1. P!IsFiniteSet(S) /\ v \notin S /\ c4[v.poll] = P!Cardinality(S)
          /\ P!Through(v.poll, C)' = S \cup {v}
      BY <1>1, <1>2, <2>3
    <3> HIDE DEF S
    <3>2. P!Cardinality(S \cup {v}) = P!Cardinality(S) + 1
      BY <3>1, PollCounts
    <3> QED
      BY <3>1, <3>2
  <2>5. \A p \in PollIds : c4'[p] = P!Cardinality(P!Through(p, C)')
    BY <1>1, <1>2, <2>1, <2>3, <2>4
  <2> QED
    BY <1>2, <1>7, <2>1, <2>2, <2>5
<1>12. CASE P!VoteOption(v)
  <2>1. /\ c6[v] = "option" /\ P!Goto(v, "success") /\ UNCHANGED <<c2, c3, c4>>
        /\ c5' = [c5 EXCEPT ![v.poll] =
                     [c5[v.poll] EXCEPT ![v.option] = c5[v.poll][v.option] + 1]]
    BY <1>12 DEF P!VoteOption
  <2>2. \A p \in PollIds : /\ P!Through(p, A)' = P!Through(p, A)
                           /\ P!Through(p, B3)' = P!Through(p, B3)
                           /\ P!Through(p, C)' = P!Through(p, C)
    BY <1>5, <2>1 DEF A, B3, C
  <2>3. /\ P!Through(v.poll, D)' = P!Through(v.poll, D) \cup {v}
        /\ v \notin P!Through(v.poll, D)
        /\ \A p \in PollIds : p # v.poll => P!Through(p, D)' = P!Through(p, D)
    BY <1>6, <2>1 DEF D
  <2> DEFINE For(p, o) == {w \in P!Through(p, D) : w.option = o}
             After(p, o) == {w \in P!Through(p, D)' : w.option = o}
  <2>4. /\ After(v.poll, v.option) = For(v.poll, v.option) \cup {v}
        /\ v \notin For(v.poll, v.option)
        /\ \A p \in PollIds, o \in Server : p # v.poll \/ o # v.option => After(p, o) = For(p, o)
    BY <1>1, <2>3
  <2>5. \A p \in PollIds, o \in Server :
          c5[p][o] = P!Cardinality(For(p, o)) /\ P!IsFiniteSet(For(p, o))
    BY <1>2
  <2> HIDE DEF For, After
  <2>6. P!Cardinality(After(v.poll, v.option)) = c5[v.poll][v.option] + 1
    <3> DEFINE S == For(v.poll, v.option)
    <3>1. P!IsFiniteSet(S) /\ v \notin S /\ c5[v.poll][v.option] = P!Cardinality(S)
          /\ After(v.poll, v.option) = S \cup {v}
      BY <1>1, <2>4, <2>5
    <3> HIDE DEF S
    <3>2. P!Cardinality(S \cup {v}) = P!Cardinality(S) + 1
      BY <3>1, PollCounts
    <3> QED
      BY <3>1, <3>2
  <2>7. \A p \in PollIds, o \in Server : c5'[p][o] = P!Cardinality(After(p, o))
    BY <1>1, <2>1, <2>4, <2>5, <2>6
  <2> QED
    BY <1>2, <1>7, <2>1, <2>2, <2>7 DEF After
<1> QED
  BY <1>8, <1>9, <1>10, <1>11, <1>12 DEF P!Submit

(* A request of an admin, or the cleanup, leaves the submissions alone.    *)
LEMMA PollAdmin ==
  ASSUME P!PollsInvariant, P!PollsTypeOK', c7' = "no" => c7 = "no",
         c7' = "no" => UNCHANGED <<c2, c3, c4, c5>>, c9' = c9,
         \A v \in P!Vote : c6'[v] = c6[v]
  PROVE  P!PollsInvariant'
<1> USE DEF P!PollsInvariant
<1>1. \A p \in PollIds : \A steps : P!Through(p, steps)' = P!Through(p, steps)
  BY DEF P!Through
<1>2. {v \in P!Vote : c6'[v] # "new"} = {v \in P!Vote : c6[v] # "new"}
  OBVIOUS
<1>3. c7' = "no" => P!KeysTellSteps'
  BY <1>1 DEF P!KeysTellSteps
<1>4. c7' = "no" => P!SeenAreOver'
  <2>1. \A v \in P!Vote : \A w \in c9[v] : w \in P!Vote
    BY DEF P!PollsTypeOK
  <2> QED
    BY <2>1 DEF P!SeenAreOver
<1> QED
  BY <1>2, <1>3, <1>4

LEMMA PollsStart == P!Init => P!PollsInvariant
<1> SUFFICES ASSUME P!Init
             PROVE  P!PollsInvariant
  OBVIOUS
<1>1. P!PollsTypeOK /\ \A v \in P!Vote : c6[v] = "new"
  BY PollRequests DEF P!Init, P!PollsTypeOK
<1>2. \A p \in PollIds : /\ P!Through(p, {"record", "total", "option", "success"}) = {}
                         /\ P!Through(p, {"total", "option", "success"}) = {}
                         /\ P!Through(p, {"option", "success"}) = {}
                         /\ P!Through(p, {"success"}) = {}
  BY <1>1 DEF P!Through
<1>3. P!Cardinality({}) = 0 /\ P!IsFiniteSet({})
  BY FS_EmptySet DEF P!Cardinality, Cardinality, P!IsFiniteSet, IsFiniteSet
<1>4. P!KeysTellSteps
  <2>1. \A p \in PollIds, o \in Server : {v \in P!Through(p, {"success"}) : v.option = o} = {}
    BY <1>2
  <2>2. \A p \in PollIds :
          {v.user : v \in P!Through(p, {"record", "total", "option", "success"})} = {}
    BY <1>2
  <2> QED
    BY <1>2, <1>3, <2>1, <2>2 DEF P!KeysTellSteps, P!Init
<1>5. {v \in P!Vote : c6[v] # "new"} = {}
  BY <1>1
<1> QED
  BY <1>1, <1>3, <1>4, <1>5 DEF P!PollsInvariant, P!SeenAreOver, P!VoteSteps

LEMMA PollsNextKeeps == P!PollsInvariant /\ [P!Next]_(P!vars) => P!PollsInvariant'
<1> SUFFICES ASSUME P!PollsInvariant, [P!Next]_(P!vars)
             PROVE  P!PollsInvariant'
  OBVIOUS
<1> USE DEF P!PollsInvariant
<1>1. ASSUME NEW v \in P!Vote, P!Submit(v)
      PROVE  P!PollsInvariant'
  <2>1. P!PollsTypeOK' /\ c7' = c7
    BY <1>1, VoteType
       DEF P!Submit, P!VoteCheck, P!VoteMark, P!VoteRecord, P!VoteTotal, P!VoteOption
  <2>2. P!IsFiniteSet({w \in P!Vote : c6'[w] # "new"})
    <3>1. \E step \in {"mark", "record", "total", "option", "success", "error"} :
             P!Goto(v, step)
      BY <1>1 DEF P!Submit, P!VoteCheck, P!VoteMark, P!VoteRecord, P!VoteTotal, P!VoteOption
    <3>2. {w \in P!Vote : c6'[w] # "new"} = {w \in P!Vote : c6[w] # "new"} \cup {v}
      BY <3>1, VoteGoes
    <3> QED
      BY <3>2, PollCounts
  <2> QED
    BY <1>1, <2>1, <2>2, VoteSeen, VoteKeys
<1>2. ASSUME NEW p \in PollIds, P!CreatePoll(p) \/ P!CloseRead(p) \/ P!CloseWrite(p)
      PROVE  P!PollsInvariant'
  <2>1. PICK r \in P!Admin, step \in {"write", "success", "error"} : P!Goto(r, step)
    <3>1. [task |-> "create", poll |-> p] \in P!Admin /\ [task |-> "close", poll |-> p] \in P!Admin
      BY DEF P!Admin
    <3> QED
      BY <1>2, <3>1 DEF P!CreatePoll, P!CloseRead, P!CloseWrite
  <2>2. /\ \A v \in P!Vote : c6'[v] = c6[v]
        /\ c6' \in [P!Request -> {"new", "write", "success", "error"} \cup P!VoteSteps]
    BY <2>1, PollRequests DEF P!Goto, P!PollsTypeOK
  <2>3. UNCHANGED <<c2, c3, c4, c5, c7, c8, c9>>
    BY <1>2 DEF P!CreatePoll, P!CloseRead, P!CloseWrite
  <2>4. c1' \in [PollIds -> {"none", "running", "closed"}]
    BY <1>2 DEF P!CreatePoll, P!CloseRead, P!CloseWrite, P!PollsTypeOK
  <2>5. P!PollsTypeOK'
    BY <2>2, <2>3, <2>4 DEF P!PollsTypeOK
  <2> QED
    BY <2>2, <2>3, <2>5, PollAdmin
<1>3. CASE P!SweepRead \/ P!SweepDelete
  <2>1. P!PollsTypeOK'
    <3>1. CASE P!SweepRead
      BY <3>1 DEF P!SweepRead, P!PollsTypeOK
    <3>2. CASE P!SweepDelete
      BY <3>2 DEF P!SweepDelete, P!PollsTypeOK
    <3> QED
      BY <1>3, <3>1, <3>2
  <2>2. c7' # "no" /\ c9' = c9 /\ c6' = c6
    BY <1>3 DEF P!SweepRead, P!SweepDelete
  <2> QED
    BY <2>1, <2>2, PollAdmin
<1>4. CASE UNCHANGED P!vars
  <2>1. P!PollsTypeOK'
    BY <1>4 DEF P!vars, P!PollsTypeOK
  <2> QED
    BY <1>4, <2>1, PollAdmin DEF P!vars
<1> QED
  BY <1>1, <1>2, <1>3, <1>4 DEF P!Next

LEMMA PollsHold == P!PollsInvariant => P!TalliesAgree /\ P!NoSecondVoteLater
<1> SUFFICES ASSUME P!PollsInvariant
             PROVE  P!TalliesAgree /\ P!NoSecondVoteLater
  OBVIOUS
<1> USE DEF P!PollsInvariant
<1>1. P!NoSecondVoteLater
  BY DEF P!NoSecondVoteLater, P!SeenAreOver
<1>2. P!TalliesAgree
  <2> SUFFICES ASSUME c7 = "no", NEW p \in PollIds,
                      \A v \in P!Vote : v.poll = p => ~P!Busy(v)
               PROVE  /\ c4[p] = P!Cardinality(c3[p])
                      /\ \A o \in Server : c5[p][o] = P!Cardinality({v \in c3[p] : v.option = o})
                      /\ c2[p] = {v.user : v \in c3[p]}
    BY DEF P!TalliesAgree
  <2>1. \A v \in P!Vote : v.poll = p => c6[v] \in {"new", "success", "error"}
    BY DEF P!Busy
  <2>2. /\ P!Through(p, {"record", "total", "option", "success"}) = P!Through(p, {"success"})
        /\ P!Through(p, {"total", "option", "success"}) = P!Through(p, {"success"})
        /\ P!Through(p, {"option", "success"}) = P!Through(p, {"success"})
    BY <2>1 DEF P!Through
  <2> QED
    BY <2>2 DEF P!KeysTellSteps
<1> QED
  BY <1>1, <1>2

(* Voters, ballots and counters of a poll agree whenever no submission is  *)
(* under way, and who was told that the vote is in gets no second one in,  *)
(* for any number of users, options and submissions                        *)
(* (services/redis/poll_create.go:48-78).                                  *)
THEOREM VotesAlwaysCounted == DataSpec => []VotesAreCounted
<1> DEFINE Inv == active = "polls" => P!PollsInvariant
<1>1. DataInit => Inv
  BY PollsStart DEF DataInit
<1>2. Inv /\ [DataNext]_<<active, vars, cells>> => Inv'
  <2> SUFFICES ASSUME Inv, [DataNext]_<<active, vars, cells>>, active' = "polls"
               PROVE  P!PollsInvariant'
    OBVIOUS
  <2>1. active = "polls" /\ [P!Next]_(P!vars)
    BY DEF DataNext, cells, P!vars
  <2> QED
    BY <2>1, PollsNextKeeps
<1>3. Inv => VotesAreCounted
  BY PollsHold DEF VotesAreCounted
<1> QED
  BY <1>1, <1>2, <1>3, PTL DEF DataSpec

(* All that is kept of a session has its shape.                            *)
THEOREM DataTypesCorrect == DataSpec => []TypesOK
<1> DEFINE Inv == /\ Shape
                  /\ active = "webhooks" => N!RegistryInvariant
                  /\ active = "polls" => P!PollsInvariant
<1>1. DataInit => Inv
  BY InitShape, RegistryStart, PollsStart DEF DataInit
<1>2. Inv /\ [DataNext]_<<active, vars, cells>> => Inv'
  <2> SUFFICES ASSUME Inv, [DataNext]_<<active, vars, cells>>
               PROVE  /\ Shape'
                      /\ active' = "webhooks" => N!RegistryInvariant'
                      /\ active' = "polls" => P!PollsInvariant'
    OBVIOUS
  <2>1. [Next]_vars /\ (active' = active)
    BY DEF DataNext
  <2>2. Shape'
    BY <2>1, NextShape
  <2>3. active = "webhooks" => [N!Next]_(N!vars)
    BY DEF DataNext, cells, N!vars
  <2>4. active = "polls" => [P!Next]_(P!vars)
    BY DEF DataNext, cells, P!vars
  <2> QED
    BY <2>1, <2>2, <2>3, <2>4, RegistryNextKeeps, PollsNextKeeps
<1>3. Inv => TypesOK
  BY DEF TypesOK, Shape, N!RegistryInvariant, P!PollsInvariant
<1> QED
  BY <1>1, <1>2, <1>3, PTL DEF DataSpec
=============================================================================
