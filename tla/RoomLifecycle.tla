--------------------------- MODULE RoomLifecycle ---------------------------
(***************************************************************************)
(* The life of one room id across the server replicas of plugNmeet: the    *)
(* Redis room lock, the rows of pnm_room_info, the NATS key-value bucket   *)
(* of the room, the LiveKit room, and the handlers that change them:       *)
(* CreateRoom, EndRoom with its cleanup goroutine onAfterRoomEnded, the    *)
(* room_started and room_finished webhooks and the janitor.                *)
(*                                                                         *)
(* A process is one handler goroutine on some replica.  Each action is one *)
(* call to Redis, MariaDB, NATS or LiveKit with the local work around it,  *)
(* so handlers interleave exactly at their calls.  GetRoomInfo answers     *)
(* from the replica's own copy of a room before it looks into the bucket:  *)
(* what such a copy can hold is here, how it comes to is NatsRoomCache's   *)
(* subject.  Sessions are named by their room sid; LiveKit's own room      *)
(* instance is named by the session its first participant joined from.     *)
(***************************************************************************)
EXTENDS Naturals, FiniteSets

CONSTANTS
    Proc,         \* handler goroutines
    NoProc,       \* the lock key does not exist
    Sid,          \* session identifiers (uuid.New in prepareRoomDbInfo)
    NoSid,        \* the empty session identifier
    MaxRow,       \* bound: rows the table can get
    Ops,          \* the stimuli switched on, a subset of AllOps
    MaxRequests,  \* bound: API requests and LiveKit joins
    MaxExpiries,  \* bound: TTLs that run out under a working holder
    MaxCrashes,   \* bound: handlers killed half way
    MaxFailures,  \* bound: calls that return an error
    MaxMisreads   \* bound: room infos that are not of the bucket's session

AllOps == {"create", "end", "livekit", "janitor"}

ASSUME ConstantsAssumption ==
    /\ NoProc \notin Proc
    /\ NoSid \notin Sid
    /\ Ops \subseteq AllOps
    /\ MaxRow \in Nat /\ MaxRequests \in Nat /\ MaxExpiries \in Nat
    /\ MaxCrashes \in Nat /\ MaxFailures \in Nat /\ MaxMisreads \in Nat

VARIABLES
    lock,      \* roomCreationLock-<roomId>: the process whose value it holds
    rows,      \* pnm_room_info rows of this room id, by table id
    bucket,    \* pnm-room-<roomId>: the id, room_sid and status keys
    copies,    \* what a replica's copy of the bucket may hold, of any session
    media,     \* the room LiveKit runs under this name
    hooks,     \* LiveKit webhooks sent and not handled yet, in no order
    duration,  \* roomWithDurationInfo:<roomId>: the session that stored it
    phase,     \* history: how far each session got (only told, never read)
    pc,        \* the next call of each process
    my,        \* the local variables of each process
    spent      \* how much of each bound is used

kv == <<bucket, copies>>
vars == <<lock, rows, kv, media, hooks, duration, phase, pc, my, spent>>
stores == <<rows, kv, media, hooks, duration, phase>>

RowId == 1 .. MaxRow
Session == Sid \cup {NoSid}
NewRow == [sid |-> NoSid, running |-> FALSE]
Running == {r \in RowId : rows[r].running}

(* A bucket that exists has a status other than "absent"; "" is a bucket  *)
(* whose status key was not written yet.                                   *)
NoBucket == [id |-> 0, sid |-> NoSid, status |-> "absent"]
EmptyBucket == [id |-> 0, sid |-> NoSid, status |-> ""]
Status == {"absent", "", "created", "active", "triggered_end", "ended"}

(* Variant with a bug: AddRoom forgets a key.                              *)
RoomKeysWithoutSid == {"id", "status"}

RoomKeys == {"id", "sid", "status"}

NoLocals == [id |-> 0, sid |-> NoSid, ended |-> FALSE, misread |-> FALSE,
             puts |-> {}, queue |-> {}]

CreateSteps == {"c_db", "c_nats", "c_reactivate", "c_save", "c_bucket",
                "c_put", "c_answer", "c_failed"}
EndSteps == {"e_nats", "e_db", "e_nothing"}
CleanupSteps == {"t_trigger", "t_announce", "t_ended", "t_media", "t_rows",
                 "t_duration", "t_bucket", "t_unlock"}
WebhookSteps == {"s_kill", "s_activate", "s_duration", "f_mark"}
JanitorSteps == {"j_check", "j_close"}
Steps == {"idle", "crashed", "e_wait", "e_lock"} \cup CreateSteps
           \cup EndSteps \cup CleanupSteps \cup WebhookSteps \cup JanitorSteps

(* The steps taken between a successful SetNX and the unlock script.       *)
LockedSteps == CreateSteps \cup EndSteps \cup CleanupSteps

Init ==
    /\ lock = NoProc
    /\ rows = [r \in RowId |-> NewRow]
    /\ bucket = NoBucket
    /\ copies = {}
    /\ media = NoSid
    /\ hooks = {}
    /\ duration = NoSid
    /\ phase = [s \in Sid |-> "fresh"]
    /\ pc = [p \in Proc |-> "idle"]
    /\ my = [p \in Proc |-> NoLocals]
    /\ spent = [requests |-> 0, expiries |-> 0, crashes |-> 0, failures |-> 0,
                misreads |-> 0]

-----------------------------------------------------------------------------
(* The calls the handlers are made of.                                     *)

Goto(p, step) == pc' = [pc EXCEPT ![p] = step]

Keep(p, locals) == my' = [my EXCEPT ![p] = locals]

Return(p) == Goto(p, "idle") /\ Keep(p, NoLocals)

Request == /\ spent.requests < MaxRequests
           /\ spent' = [spent EXCEPT !.requests = @ + 1]

(* A call to a database, to NATS or to LiveKit returns an error.           *)
CallFails == /\ spent.failures < MaxFailures
             /\ spent' = [spent EXCEPT !.failures = @ + 1]

(* The bucket takes a value.  The watchers fill the replicas' copies with  *)
(* it key by key; a copy without a table id is not used.                   *)
PutBucket(value) ==
    /\ bucket' = value
    /\ copies' = copies \cup
         (IF value.id = 0 THEN {}
          ELSE {[id |-> value.id, sid |-> s] : s \in {NoSid, value.sid}})

(* A copy may be late with the status, which goes back and forth; at       *)
(* "ended" it is dropped.                                                  *)
LateStatus == {"", "created", "active", "triggered_end"}

(* The room infos of the session the bucket holds: the bucket itself, or a *)
(* copy of it.                                                             *)
Current ==
    {bucket} \cup (IF bucket.id = 0 THEN {}
                   ELSE {[bucket EXCEPT !.status = t] : t \in LateStatus})

(* The other room infos GetRoomInfo can come back with: the copy of        *)
(* another session or one that is not filled yet, and a bucket of which    *)
(* not every key could be read, for those errors are dropped.              *)
Misread ==
    LET Keys == IF bucket = NoBucket THEN {}
                ELSE {[id |-> 0, sid |-> s] : s \in {NoSid, bucket.sid}}
    IN  {[id |-> c.id, sid |-> c.sid, status |-> t] :
            c \in copies \cup Keys,
            t \in (LateStatus \cup {bucket.status}) \ {"absent"}} \ Current

(* NatsService.GetRoomInfo.  The answer nil is NoBucket, and true.         *)
GetRoomInfo(info, misread) ==
    \/ /\ ~misread /\ info \in Current
       /\ UNCHANGED spent
    \/ /\ misread /\ info \in Misread
       /\ spent.misreads < MaxMisreads
       /\ spent' = [spent EXCEPT !.misreads = @ + 1]

(* Variant with a bug: SET instead of SETNX.                               *)
TakeLockAlways(p) == lock' = p

(* SetNX of the lock key, when it succeeds.                                *)
TakeLock(p) == lock = NoProc /\ lock' = p

(* The check-and-delete script: a lock that expired or has another owner   *)
(* is left alone.                                                          *)
UnlockRoomCreation(p) == lock' = IF lock = p THEN NoProc ELSE lock

(* NatsService.UpdateRoomStatus: an error, and no write, without a bucket. *)
UpdateRoomStatus(status) ==
    IF bucket = NoBucket THEN UNCHANGED kv
                         ELSE PutBucket([bucket EXCEPT !.status = status])

(* Variant with a bug: an event even for a room that was not there.        *)
LivekitEndRoomAlways ==
    /\ media' = NoSid
    /\ hooks' = hooks \cup {[event |-> "room_finished", sid |-> media]}

(* LivekitService.EndRoom; LiveKit sends room_finished for a room it had.  *)
LivekitEndRoom ==
    /\ media' = NoSid
    /\ hooks' = IF media = NoSid THEN hooks
                ELSE hooks \cup {[event |-> "room_finished", sid |-> media]}

-----------------------------------------------------------------------------
(* CreateRoom.                                                             *)

CreateLock(p) ==
    /\ "create" \in Ops
    /\ pc[p] = "idle"
    /\ Request
    /\ TakeLock(p)
    /\ Goto(p, "c_db")
    /\ UNCHANGED <<stores, my>>

(* GetRoomInfoByRoomId(roomId, 1): Take returns any running row.           *)
CreateReadDb(p) ==
    /\ pc[p] = "c_db"
    /\ \/ /\ Running = {}
          /\ Goto(p, "c_save")
          /\ UNCHANGED my
       \/ \E r \in Running : /\ Goto(p, "c_nats")
                             /\ Keep(p, [my[p] EXCEPT !.id = r])
    /\ UNCHANGED <<stores, lock, spent>>

(* handleExistingRoom: a missing or mismatching bucket means a new session *)
(* in the row that was found.                                              *)
CreateReadNats(p) ==
    /\ pc[p] = "c_nats"
    /\ \E info \in Current \cup Misread, misread \in BOOLEAN :
         /\ GetRoomInfo(info, misread)
         /\ IF info.id = my[p].id
            THEN /\ Goto(p, "c_reactivate")
                 /\ Keep(p, [my[p] EXCEPT !.sid = info.sid, !.misread = misread])
            ELSE Goto(p, "c_save") /\ UNCHANGED my
    /\ UNCHANGED <<stores, lock>>

CreateReactivate(p) ==
    /\ pc[p] = "c_reactivate"
    /\ UpdateRoomStatus("active")
    /\ Goto(p, IF bucket = NoBucket THEN "c_failed" ELSE "c_answer")
    /\ UNCHANGED <<lock, rows, media, hooks, duration, phase, my, spent>>

(* Variant with a bug: the row that was read is not reused.                *)
CreateSaveNewRow(p) ==
    /\ pc[p] = "c_save"
    /\ \E s \in Sid, r \in RowId :
         /\ phase[s] = "fresh" /\ rows[r] = NewRow
         /\ rows' = [rows EXCEPT ![r] = [sid |-> s, running |-> TRUE]]
         /\ phase' = [phase EXCEPT ![s] = "open"]
         /\ Keep(p, [my[p] EXCEPT !.id = r, !.sid = s])
    /\ Goto(p, "c_bucket")
    /\ UNCHANGED <<lock, kv, media, hooks, duration, spent>>

(* prepareRoomDbInfo and Save: a new row, or every column of the row that  *)
(* was read, is_running = 1 among them, with a fresh sid.                  *)
CreateSave(p) ==
    /\ pc[p] = "c_save"
    /\ \E s \in Sid, r \in RowId :
         /\ phase[s] = "fresh"
         /\ IF my[p].id = 0
            THEN /\ rows[r] = NewRow
                 /\ \A q \in RowId : rows[q] = NewRow => r <= q
            ELSE r = my[p].id
         /\ rows' = [rows EXCEPT ![r] = [sid |-> s, running |-> TRUE]]
         /\ phase' = [phase EXCEPT ![s] = "open"]
         /\ Keep(p, [my[p] EXCEPT !.id = r, !.sid = s])
    /\ Goto(p, "c_bucket")
    /\ UNCHANGED <<lock, kv, media, hooks, duration, spent>>

(* AddRoom, first half: CreateOrUpdateKeyValue keeps an existing bucket.   *)
CreateBucket(p) ==
    /\ pc[p] = "c_bucket"
    /\ IF bucket = NoBucket THEN PutBucket(EmptyBucket) ELSE UNCHANGED kv
    /\ Goto(p, "c_put")
    /\ Keep(p, [my[p] EXCEPT !.puts = RoomKeys])
    /\ UNCHANGED <<lock, rows, media, hooks, duration, phase, spent>>

(* AddRoom, second half: one PutString per key, in the map's random order. *)
CreatePut(p) ==
    /\ pc[p] = "c_put"
    /\ \E key \in my[p].puts :
         /\ \/ bucket = NoBucket /\ UNCHANGED kv
            \/ bucket # NoBucket /\ PutBucket(
                 CASE key = "id" -> [bucket EXCEPT !.id = my[p].id]
                   [] key = "sid" -> [bucket EXCEPT !.sid = my[p].sid]
                   [] key = "status" -> [bucket EXCEPT !.status = "created"])
         /\ Keep(p, [my[p] EXCEPT !.puts = @ \ {key}])
         /\ Goto(p, CASE bucket = NoBucket -> "c_failed"
                      [] bucket # NoBucket /\ my[p].puts = {key} -> "c_answer"
                      [] OTHER -> "c_put")
    /\ UNCHANGED <<lock, rows, media, hooks, duration, phase, spent>>

(* A DB or NATS call returns an error, or the bounds leave no row or sid.  *)
CreateFails(p) ==
    /\ pc[p] \in {"c_db", "c_nats", "c_reactivate", "c_save", "c_bucket", "c_put"}
    /\ \/ CallFails
       \/ /\ pc[p] = "c_save"
          /\ \/ \A s \in Sid : phase[s] # "fresh"
             \/ my[p].id = 0 /\ \A r \in RowId : rows[r] # NewRow
          /\ UNCHANGED spent
    /\ Goto(p, "c_failed")
    /\ UNCHANGED <<stores, lock, my>>

(* Variant with a bug: an early error return that is not unlocked.         *)
CreateUnlockOnSuccess(p) ==
    /\ pc[p] \in {"c_answer", "c_failed"}
    /\ IF pc[p] = "c_answer" THEN UnlockRoomCreation(p) ELSE UNCHANGED lock
    /\ Return(p)
    /\ UNCHANGED <<stores, spent>>

(* The deferred unlock; CreateRoom answers when it comes from c_answer.    *)
CreateUnlock(p) ==
    /\ pc[p] \in {"c_answer", "c_failed"}
    /\ UnlockRoomCreation(p)
    /\ Return(p)
    /\ UNCHANGED <<stores, spent>>

-----------------------------------------------------------------------------
(* EndRoom and onAfterRoomEnded.                                           *)

EndRequest(p) ==
    /\ "end" \in Ops
    /\ pc[p] = "idle"
    /\ Request
    /\ Goto(p, "e_wait")
    /\ UNCHANGED <<stores, lock, my>>

(* waitUntilRoomCreationCompletes: goes on without a lock, gives up with   *)
(* one.                                                                    *)
EndWait(p) ==
    /\ pc[p] = "e_wait"
    /\ IF lock = NoProc THEN Goto(p, "e_lock") /\ UNCHANGED my ELSE Return(p)
    /\ UNCHANGED <<stores, lock, spent>>

(* Variant with a bug: EndRoom goes on without the lock.                   *)
EndLockIgnored(p) ==
    /\ pc[p] = "e_lock"
    /\ Goto(p, "e_nats")
    /\ TakeLock(p) \/ (lock # NoProc /\ UNCHANGED lock)
    /\ UNCHANGED <<stores, my, spent>>

(* LockRoomCreation; when someone else was faster EndRoom returns success. *)
EndLock(p) ==
    /\ pc[p] = "e_lock"
    /\ \/ TakeLock(p) /\ Goto(p, "e_nats") /\ UNCHANGED my
       \/ lock # NoProc /\ Return(p) /\ UNCHANGED lock
    /\ UNCHANGED <<stores, spent>>

(* Without an answer, or with an error, the table is asked.                *)
EndReadNats(p) ==
    /\ pc[p] = "e_nats"
    /\ \/ \E info \in Current \cup Misread, misread \in BOOLEAN :
            /\ GetRoomInfo(info, misread)
            /\ IF info = NoBucket
               THEN Goto(p, "e_db") /\ Keep(p, [my[p] EXCEPT !.misread = misread])
               ELSE /\ Goto(p, "t_trigger")
                    /\ Keep(p, [my[p] EXCEPT !.sid = info.sid,
                                  !.ended = (info.status = "ended"),
                                  !.misread = misread])
       \/ /\ CallFails
          /\ Goto(p, "e_db")
          /\ Keep(p, [my[p] EXCEPT !.misread = TRUE])
    /\ UNCHANGED <<stores, lock>>

(* The running row decides, and carries no status.  An error ends the      *)
(* attempt as if there was none.                                           *)
EndReadDb(p) ==
    /\ pc[p] = "e_db"
    /\ \/ Running = {} /\ Goto(p, "e_nothing") /\ UNCHANGED <<my, spent>>
       \/ CallFails /\ Goto(p, "e_nothing") /\ UNCHANGED my
       \/ \E r \in Running :
            /\ Goto(p, "t_trigger")
            /\ Keep(p, [my[p] EXCEPT !.sid = rows[r].sid])
            /\ UNCHANGED spent
    /\ UNCHANGED <<stores, lock>>

EndNothing(p) ==
    /\ pc[p] = "e_nothing"
    /\ UnlockRoomCreation(p)
    /\ Return(p)
    /\ UNCHANGED <<stores, spent>>

TriggerEnd(p) ==
    /\ pc[p] = "t_trigger"
    /\ IF my[p].ended THEN UNCHANGED kv ELSE UpdateRoomStatus("triggered_end")
    /\ Goto(p, "t_announce")
    /\ UNCHANGED <<lock, rows, media, hooks, duration, phase, my, spent>>

(* waitForAllUsersToDisconnect takes its time and changes nothing; then    *)
(* the session_ended notification leaves.                                  *)
SendSessionEnded(p) ==
    /\ pc[p] = "t_announce"
    /\ phase' = [s \in Sid |->
                   IF s # my[p].sid THEN phase[s]
                   ELSE IF phase[s] = "open" THEN "announced" ELSE "repeated"]
    /\ Goto(p, "t_ended")
    /\ UNCHANGED <<lock, rows, kv, media, hooks, duration, my, spent>>

MarkEnded(p) ==
    /\ pc[p] = "t_ended"
    /\ IF my[p].ended THEN UNCHANGED kv ELSE UpdateRoomStatus("ended")
    /\ Goto(p, "t_media")
    /\ UNCHANGED <<lock, rows, media, hooks, duration, phase, my, spent>>

EndMedia(p) ==
    /\ pc[p] = "t_media"
    /\ IF my[p].ended THEN UNCHANGED <<media, hooks>> ELSE LivekitEndRoom
    /\ Goto(p, "t_rows")
    /\ UNCHANGED <<lock, rows, kv, duration, phase, my, spent>>

(* Variant with a bug: the lock is given back before the cleanup is        *)
(* through.                                                                *)
CloseRowsAndUnlock(p) ==
    /\ pc[p] = "t_rows"
    /\ rows' = [r \in RowId |-> [rows[r] EXCEPT !.running = FALSE]]
    /\ UnlockRoomCreation(p)
    /\ Goto(p, "t_duration")
    /\ UNCHANGED <<kv, media, hooks, duration, phase, my, spent>>

(* DatabaseService.UpdateRoomStatus with only a RoomId: every running row  *)
(* of the room id is closed, whatever its table id or sid.                 *)
CloseRows(p) ==
    /\ pc[p] = "t_rows"
    /\ rows' = [r \in RowId |-> [rows[r] EXCEPT !.running = FALSE]]
    /\ Goto(p, "t_duration")
    /\ UNCHANGED <<lock, kv, media, hooks, duration, phase, my, spent>>

DeleteDuration(p) ==
    /\ pc[p] = "t_duration"
    /\ duration' = NoSid
    /\ Goto(p, "t_bucket")
    /\ UNCHANGED <<lock, rows, kv, media, hooks, phase, my, spent>>

(* Variant with a bug: a bucket that was set active meanwhile is kept.     *)
DeleteEndedBucket(p) ==
    /\ pc[p] = "t_bucket"
    /\ IF bucket.status = "ended" THEN PutBucket(NoBucket) ELSE UNCHANGED kv
    /\ phase' = [s \in Sid |->
                   IF /\ s = my[p].sid /\ phase[s] = "announced"
                      /\ \A r \in Running : rows[r].sid # s
                   THEN "closed" ELSE phase[s]]
    /\ Goto(p, "t_unlock")
    /\ UNCHANGED <<lock, rows, media, hooks, duration, my, spent>>

(* OnAfterSessionEndCleanup, the last call: the bucket goes, by room id.   *)
DeleteBucket(p) ==
    /\ pc[p] = "t_bucket"
    /\ PutBucket(NoBucket)
    /\ phase' = [s \in Sid |->
                   IF /\ s = my[p].sid /\ phase[s] = "announced"
                      /\ \A r \in Running : rows[r].sid # s
                   THEN "closed" ELSE phase[s]]
    /\ Goto(p, "t_unlock")
    /\ UNCHANGED <<lock, rows, media, hooks, duration, my, spent>>

(* A call of the cleanup that returns an error is logged and gone over.    *)
AfterFailure == [t_trigger |-> "t_announce", t_ended |-> "t_media",
                 t_media |-> "t_rows", t_rows |-> "t_duration",
                 t_duration |-> "t_bucket", t_bucket |-> "t_unlock"]

CleanupFails(p) ==
    /\ pc[p] \in DOMAIN AfterFailure
    /\ CallFails
    /\ Goto(p, AfterFailure[pc[p]])
    /\ UNCHANGED <<stores, lock, my>>

CleanupUnlock(p) ==
    /\ pc[p] = "t_unlock"
    /\ UnlockRoomCreation(p)
    /\ Return(p)
    /\ UNCHANGED <<stores, spent>>

-----------------------------------------------------------------------------
(* The LiveKit webhooks, handled by a worker pool and so in any order.     *)

(* roomStarted: reads the room info, ends LiveKit rooms that have none.    *)
(* An error, or metadata that is not written yet, ends the handler.  The   *)
(* status that was read decides, not the one that is stored later.         *)
StartedRead(p, h) ==
    /\ pc[p] = "idle"
    /\ h \in hooks /\ h.event = "room_started"
    /\ hooks' = hooks \ {h}
    /\ \/ \E info \in Current \cup Misread, misread \in BOOLEAN :
            /\ GetRoomInfo(info, misread)
            /\ Goto(p, CASE info = NoBucket -> "s_kill"
                         [] info.status = "active" -> "s_duration"
                         [] OTHER -> "s_activate")
            /\ Keep(p, [NoLocals EXCEPT !.sid = info.sid])
       \/ bucket # NoBucket /\ UNCHANGED <<pc, my, spent>>
    /\ UNCHANGED <<lock, rows, kv, media, duration, phase>>

StartedKill(p) ==
    /\ pc[p] = "s_kill"
    /\ LivekitEndRoom
    /\ Return(p)
    /\ UNCHANGED <<lock, rows, kv, duration, phase, spent>>

StartedActivate(p) ==
    /\ pc[p] = "s_activate"
    /\ UpdateRoomStatus("active")
    /\ IF bucket = NoBucket THEN Return(p)
                            ELSE Goto(p, "s_duration") /\ UNCHANGED my
    /\ UNCHANGED <<lock, rows, media, hooks, duration, phase, spent>>

(* AddRoomWithDurationInfo, for a room that has a duration.                *)
StartedDuration(p) ==
    /\ pc[p] = "s_duration"
    /\ duration' \in {duration, my[p].sid}
    /\ Return(p)
    /\ UNCHANGED <<lock, rows, kv, media, hooks, phase, spent>>

(* roomFinished: nothing left to end when the status is ended, or when,    *)
(* for want of an answer, the room info came from Redis, which says ended  *)
(* too.                                                                    *)
FinishedRead(p, h) ==
    /\ pc[p] = "idle"
    /\ h \in hooks /\ h.event = "room_finished"
    /\ hooks' = hooks \ {h}
    /\ \/ \E info \in Current \cup Misread, misread \in BOOLEAN :
            /\ GetRoomInfo(info, misread)
            /\ IF info.status \in {"absent", "ended"}
               THEN UNCHANGED <<pc, my>>
               ELSE Goto(p, "f_mark") /\ Keep(p, [NoLocals EXCEPT !.sid = info.sid])
       \/ CallFails /\ UNCHANGED <<pc, my>>
    /\ UNCHANGED <<lock, rows, kv, media, duration, phase>>

FinishedMark(p) ==
    /\ pc[p] = "f_mark"
    /\ UpdateRoomStatus("ended")
    /\ Goto(p, "e_wait")
    /\ Keep(p, NoLocals)
    /\ UNCHANGED <<lock, rows, media, hooks, duration, phase, spent>>

(* The handlers' calls that fail: roomStarted gives up, or is through;     *)
(* roomFinished goes on to EndRoom.                                        *)
WebhookFails(p) ==
    /\ pc[p] \in WebhookSteps
    /\ CallFails
    /\ Goto(p, IF pc[p] = "f_mark" THEN "e_wait" ELSE "idle")
    /\ Keep(p, NoLocals)
    /\ UNCHANGED <<stores, lock>>

-----------------------------------------------------------------------------
(* The janitor.                                                            *)

(* activeRoomChecker: the rows that run now are looked at one by one.      *)
JanitorRead(p) ==
    /\ "janitor" \in Ops
    /\ pc[p] = "idle"
    /\ Running # {}
    /\ Goto(p, "j_check")
    /\ Keep(p, [NoLocals EXCEPT !.queue = Running])
    /\ UNCHANGED <<stores, lock, spent>>

JanitorNext(p, rest) ==
    /\ Goto(p, IF rest = {} THEN "idle" ELSE "j_check")
    /\ Keep(p, [NoLocals EXCEPT !.queue = rest])

(* Variant with a bug: rows without a bucket are skipped.                  *)
JanitorCheckSkips(p) ==
    /\ pc[p] = "j_check"
    /\ \E r \in my[p].queue :
         \/ JanitorNext(p, my[p].queue \ {r})
         \/ bucket # NoBucket /\ Goto(p, "e_wait") /\ Keep(p, NoLocals)
    /\ UNCHANGED <<stores, lock, spent>>

(* No room info: the row is to be closed.  Nobody online past the empty    *)
(* timeout: EndRoom.  An error: the next one.  The loop then goes on with  *)
(* other room ids, whose state is not here; a second running row of this   *)
(* id, which only an expired lock can leave behind, is met again at the    *)
(* next tick.                                                              *)
JanitorCheck(p) ==
    /\ pc[p] = "j_check"
    /\ \E r \in my[p].queue :
         \/ \E info \in Current \cup Misread, misread \in BOOLEAN :
              /\ GetRoomInfo(info, misread)
              /\ IF info = NoBucket
                 THEN /\ Goto(p, "j_close")
                      /\ Keep(p, [my[p] EXCEPT !.id = r, !.queue = @ \ {r}])
                 ELSE \/ JanitorNext(p, my[p].queue \ {r})
                      \/ Goto(p, "e_wait") /\ Keep(p, NoLocals)
         \/ CallFails /\ JanitorNext(p, my[p].queue \ {r})
    /\ UNCHANGED <<stores, lock>>

(* DatabaseService.UpdateRoomStatus by table id, without the room lock.    *)
JanitorClose(p) ==
    /\ pc[p] = "j_close"
    /\ \/ /\ rows' = [rows EXCEPT ![my[p].id].running = FALSE]
          /\ UNCHANGED spent
       \/ CallFails /\ UNCHANGED rows
    /\ JanitorNext(p, my[p].queue)
    /\ UNCHANGED <<lock, kv, media, hooks, duration, phase>>

(* checkRoomWithDuration: the stored duration has passed.                  *)
JanitorDuration(p) ==
    /\ "janitor" \in Ops
    /\ pc[p] = "idle"
    /\ duration # NoSid
    /\ Goto(p, "e_wait")
    /\ UNCHANGED <<stores, lock, my, spent>>

-----------------------------------------------------------------------------
(* LiveKit, time and failures.                                             *)

(* A participant opens the LiveKit room of the live session, or comes with *)
(* a token of an earlier one after the bucket went away.                   *)
MediaStart ==
    /\ "livekit" \in Ops
    /\ Request
    /\ media = NoSid
    /\ \E s \in Sid :
         /\ \/ bucket.status \in {"created", "active"} /\ bucket.sid = s
            \/ bucket = NoBucket /\ phase[s] # "fresh"
         /\ media' = s
         /\ hooks' = hooks \cup {[event |-> "room_started", sid |-> s]}
    /\ UNCHANGED <<lock, rows, kv, duration, phase, pc, my>>

(* LiveKit ends a room nobody is in.                                       *)
MediaEmpty ==
    /\ media # NoSid
    /\ LivekitEndRoom
    /\ UNCHANGED <<lock, rows, kv, duration, phase, pc, my, spent>>

(* Redis drops the lock key at its TTL: 60s for CreateRoom, 20s for        *)
(* EndRoom, neither of which the handlers' work is limited to.             *)
LockExpires ==
    /\ lock # NoProc
    /\ lock' = NoProc
    /\ \/ pc[lock] = "crashed" /\ UNCHANGED spent
       \/ /\ pc[lock] # "crashed"
          /\ spent.expiries < MaxExpiries
          /\ spent' = [spent EXCEPT !.expiries = @ + 1]
    /\ UNCHANGED <<stores, pc, my>>

(* The replica dies; what the handler still had to do is never done.       *)
Crash(p) ==
    /\ pc[p] \notin {"idle", "crashed"}
    /\ spent.crashes < MaxCrashes
    /\ spent' = [spent EXCEPT !.crashes = @ + 1]
    /\ Goto(p, "crashed")
    /\ Keep(p, NoLocals)
    /\ UNCHANGED <<stores, lock>>

-----------------------------------------------------------------------------
Create(p) ==
    \/ CreateReadDb(p) \/ CreateReadNats(p) \/ CreateReactivate(p)
    \/ CreateSave(p) \/ CreateBucket(p) \/ CreatePut(p)
    \/ CreateFails(p) \/ CreateUnlock(p)

End(p) == EndWait(p) \/ EndLock(p) \/ EndReadNats(p) \/ EndReadDb(p) \/ EndNothing(p)

Cleanup(p) ==
    \/ TriggerEnd(p) \/ SendSessionEnded(p) \/ MarkEnded(p) \/ EndMedia(p)
    \/ CloseRows(p) \/ DeleteDuration(p) \/ DeleteBucket(p)
    \/ CleanupFails(p) \/ CleanupUnlock(p)

Webhook(p) ==
    \/ StartedKill(p) \/ StartedActivate(p) \/ StartedDuration(p)
    \/ FinishedMark(p) \/ WebhookFails(p)

Janitor(p) == JanitorCheck(p) \/ JanitorClose(p)

(* What a handler that has begun goes on with.                             *)
Step(p) == Create(p) \/ End(p) \/ Cleanup(p) \/ Webhook(p) \/ Janitor(p)

Begin(p) ==
    \/ CreateLock(p) \/ EndRequest(p) \/ JanitorRead(p) \/ JanitorDuration(p)
    \/ \E h \in hooks : StartedRead(p, h) \/ FinishedRead(p, h)

Next ==
    \/ \E p \in Proc : Begin(p) \/ Step(p) \/ Crash(p)
    \/ MediaStart \/ MediaEmpty \/ LockExpires

Spec == Init /\ [][Next]_vars

(* Fairness.  A handler that has begun makes its next call: goroutines are *)
(* scheduled and every client call has a deadline.  Redis drops the lock   *)
(* of a dead holder at its TTL.  The janitor's ticker keeps firing.        *)
Fairness ==
    /\ \A p \in Proc : WF_vars(Step(p))
    /\ \A p \in Proc : WF_vars(JanitorRead(p))
    /\ WF_vars(lock # NoProc /\ pc[lock] = "crashed" /\ LockExpires)

FairSpec == Spec /\ Fairness

-----------------------------------------------------------------------------
(* Properties.                                                             *)

(* Every variable keeps its shape.                                         *)
Row == [sid : Session, running : BOOLEAN]
Bucket == [id : 0 .. MaxRow, sid : Session, status : Status]
Hook == [event : {"room_started", "room_finished"}, sid : Sid]
Phase == {"fresh", "open", "announced", "repeated", "closed"}
Counts == [requests : Nat, expiries : Nat, crashes : Nat, failures : Nat,
           misreads : Nat]
Locals == [id : 0 .. MaxRow, sid : Session, ended : BOOLEAN, misread : BOOLEAN,
           puts : SUBSET RoomKeys, queue : SUBSET RowId]

TypeOK ==
    /\ lock \in Proc \cup {NoProc}
    /\ rows \in [RowId -> Row]
    /\ bucket \in Bucket
    /\ copies \subseteq [id : RowId, sid : Session]
    /\ media \in Session
    /\ hooks \subseteq Hook
    /\ duration \in Session
    /\ phase \in [Sid -> Phase]
    /\ pc \in [Proc -> Steps]
    /\ my \in [Proc -> Locals]
    /\ spent \in Counts

Holds(p) == pc[p] \in LockedSteps

(* The room lock is a mutual exclusion between room creations and room     *)
(* ends (room_create.go:40, room_end.go:41) as long as no TTL runs out     *)
(* under its holder: whoever is between SetNX and the unlock script is the *)
(* owner of the key.                                                       *)
LockProtects == spent.expiries = 0 => \A p \in Proc : Holds(p) => lock = p

(* The table never has two running rows for one room id, which CreateRoom  *)
(* (Take returns any of them), EndRoom and the janitor all rely on; the    *)
(* janitor closes rows without the lock and replicas may die anywhere.     *)
AtMostOneRunningRow ==
    spent.expiries = 0 => \A q, r \in Running : q = r

(* A handler died or a call failed somewhere.                              *)
CutShort == spent.crashes # 0 \/ spent.failures # 0

(* What a handler read is still so when it acts on it: CreateRoom found    *)
(* every running row there is before it saves its own, and EndRoom, unless *)
(* its read of the room failed or was not of the bucket's session, falls   *)
(* back to the table only while there is no bucket.                        *)
ReadsStillHold ==
    spent.expiries = 0 =>
      \A p \in Proc :
        /\ pc[p] \in {"c_nats", "c_save"} => Running \subseteq {my[p].id}
        /\ pc[p] = "e_db" /\ ~my[p].misread => bucket = NoBucket

(* onAfterRoomEnded addresses the bucket by room id only.  What it deletes *)
(* and marks as ended is nevertheless the session EndRoom read, never one  *)
(* that was created in between; except for the EndRoom whose own read of   *)
(* the room failed or was answered from a copy of another session.         *)
CleanupTargetsItsSession ==
    spent.expiries = 0 =>
      \A p \in Proc :
        pc[p] \in CleanupSteps \ {"t_unlock"} /\ ~my[p].misread =>
          bucket = NoBucket \/ bucket.sid = my[p].sid

(* Nobody meets a half written bucket: a bucket has its id and its sid     *)
(* except while the lock holder is in AddRoom, or after a creation that    *)
(* died or failed in there.  The keys the holder has put, and those of the *)
(* room it compared, are the bucket's own even then.                       *)
BucketIsWhole ==
    spent.expiries = 0 =>
      /\ \/ bucket = NoBucket
         \/ bucket.id \in RowId /\ bucket.sid \in Sid
         \/ \E p \in Proc : pc[p] = "c_put"
         \/ CutShort
      /\ \A p \in Proc :
           /\ pc[p] = "c_nats" => my[p].id \in RowId
           /\ pc[p] \in {"c_bucket", "c_put"} =>
                my[p].id \in RowId /\ my[p].sid \in Sid
           /\ pc[p] = "c_put" =>
                /\ bucket # NoBucket
                /\ "id" \notin my[p].puts => bucket.id = my[p].id
                /\ "sid" \notin my[p].puts => bucket.sid = my[p].sid
           /\ pc[p] = "c_reactivate" /\ ~my[p].misread =>
                /\ bucket.id \in RowId
                /\ bucket.id = my[p].id /\ bucket.sid = my[p].sid

(* CreateRoom answers with a session that exists: when it returns, NATS    *)
(* holds the id and the sid it hands out, in spite of janitor, webhooks,   *)
(* crashes and failed calls of any handler, unless its own read of the     *)
(* room was answered from a copy of another session.  The sid is not empty *)
(* unless some creation died or failed half way through AddRoom: a bucket  *)
(* with its id and without its sid is then answered with (room_modify.go   *)
(* :75-82, room_create.go:175).                                            *)
AnswerIsLive ==
    spent.expiries = 0 =>
      \A p \in Proc : pc[p] = "c_answer" /\ ~my[p].misread =>
        /\ bucket # NoBucket
        /\ bucket.sid = my[p].sid /\ bucket.id = my[p].id
        /\ my[p].sid # NoSid \/ CutShort

(* Integrators get one session_ended per session: API calls, webhooks and  *)
(* the janitor may all try to end it, and who announces an end is the      *)
(* first to.  A cleanup that died or whose last call failed leaves the     *)
(* session to be announced again, and so does an EndRoom that is answered  *)
(* from a copy of a session that has ended.                                *)
EndedOnce ==
    spent.expiries = 0 /\ ~CutShort =>
      \A p \in Proc : pc[p] = "t_announce" /\ ~my[p].misread =>
        my[p].sid \in Sid /\ phase[my[p].sid] = "open"

(* A session whose cleanup went through never comes back: no running row   *)
(* and no bucket carries its sid again, late webhooks, stale copies, the   *)
(* janitor's unlocked writes, crashes and failed calls notwithstanding.    *)
ClosedStaysClosed ==
    spent.expiries = 0 =>
      \A s \in Sid : phase[s] = "closed" =>
        bucket.sid # s /\ \A r \in Running : rows[r].sid # s

(* The course of a session, whoever works on it: its bucket is met half    *)
(* written only where a creation was cut short, what was read of it still  *)
(* holds when it is acted on, it is announced once, and stays closed.      *)
SessionTakesItsCourse ==
    BucketIsWhole /\ ReadsStillHold /\ EndedOnce /\ ClosedStaysClosed

(* Without the janitor, whenever the lock is free and nothing failed, NATS *)
(* and the table tell the same story: a bucket has a running row with its  *)
(* id and sid, and a running row has its bucket.                           *)
StoresAgree ==
    lock = NoProc /\ "janitor" \notin Ops
      /\ spent.expiries = 0 /\ ~CutShort =>
      /\ bucket # NoBucket =>
           bucket.id \in Running /\ rows[bucket.id].sid = bucket.sid
      /\ \A r \in Running : bucket.id = r

(* Without the janitor, without failures and with room infos that are      *)
(* those of the bucket's session, if late, the sessions of the room follow *)
(* one another as RoomSession says: an announced session is closed before  *)
(* the next one opens.                                                     *)
OneSessionAtATime == INSTANCE RoomSession WITH Sid <- Sid, phase <- phase
ImplementsRoomSession == OneSessionAtATime!Spec

(* CreateRoom never answers without a sid (ActiveRoomInfo.Sid of           *)
(* room_create.go:175).  A creation that died inside AddRoom refutes it.   *)
AnswerHasItsSid ==
    \A p \in Proc : pc[p] = "c_answer" => my[p].sid # NoSid

(* A session is announced as ended once whatever copy EndRoom is answered  *)
(* from and whatever was cut short.  A copy of an ended session refutes    *)
(* it, and so does an EndRoom that died or whose last call failed.         *)
NeverAnnouncedAgain ==
    \A s \in Sid : phase[s] # "repeated"

(* Two onAfterRoomEnded never work on the room at the same time, what the  *)
(* lock is taken for (room_end.go:41: "Acquire a distributed lock to       *)
(* prevent multiple end-room processes from running simultaneously").      *)
OneCleanupAtATime ==
    \A p, q \in Proc : pc[p] \in CleanupSteps /\ pc[q] \in CleanupSteps => p = q

(* A session marked triggered_end or ended is not opened for users again   *)
(* (room_end.go:138: "update status immediately to prevent user to join"). *)
EndedIsFinal ==
    [][ bucket.status \in {"triggered_end", "ended"} /\ bucket'.sid = bucket.sid
          => bucket'.status \notin {"created", "active"} ]_vars

(* A row whose session is being created is left alone by the janitor       *)
(* (janitor_room.go:40: "if room RoomSid is empty then we won't do         *)
(* anything because may be the session is creating").                      *)
JanitorSparesCreation ==
    [][ \A p, q \in Proc : JanitorClose(p) =>
          ~(pc[q] \in {"c_bucket", "c_put", "c_answer"} /\ my[q].id = my[p].id) ]_vars

(* room_finished starts the end of a session only for that session's own   *)
(* LiveKit room (webhook_room.go:109: "This means the room was ended       *)
(* directly by LiveKit (e.g., empty timeout), not through the plugNmeet    *)
(* API").                                                                  *)
FinishedEndsItsOwnSession ==
    [][ \A p \in Proc, h \in hooks :
          FinishedRead(p, h) /\ pc'[p] = "f_mark" => bucket.sid = h.sid ]_vars

(* The duration checker forgets an ended session (room_end.go:192: "Remove *)
(* the room from the duration checker if it was being monitored").         *)
DurationForgotten ==
    duration # NoSid => phase[duration] # "closed"

(* The lock never stays taken: its holder unlocks it or its TTL does.      *)
LockIsFreed == lock # NoProc ~> lock = NoProc

(* A running row without a bucket (CreateRoom failed or died after Save)   *)
(* does not stay: a creation completes it or the janitor closes it.        *)
OrphanRowReconciled ==
    \A r \in RowId : r \in Running /\ bucket = NoBucket
                       ~> r \notin Running \/ bucket # NoBucket

=============================================================================
