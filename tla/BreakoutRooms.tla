---------------------------- MODULE BreakoutRooms -----------------------------
(***************************************************************************)
(* The breakout rooms of a parent room and the duration a room may last.   *)
(*                                                                         *)
(* What is known of the breakout rooms is kept in four places that no      *)
(* transaction joins: a hash in Redis with a record of each room, the flag *)
(* in the parent's metadata, the duration checker's key in Redis and the   *)
(* room's own metadata.  Requests, the webhooks of LiveKit and the cleanup *)
(* of rooms that ended change them at the same time.                       *)
(*                                                                         *)
(* Creating and ending a room is in RoomLifecycle: here a room is "ending" *)
(* from EndRoom until the end of its cleanup, which holds its lock.  Time  *)
(* is in seconds, durations are in minutes.                                *)
(***************************************************************************)
EXTENDS Naturals, FiniteSets

CONSTANTS
    Breakout,       \* breakout rooms of the one parent
    Request,        \* requests that are handled, one by each
    ParentDurations, \* what the parent room may last; 0 is no limit
    BkDuration,     \* asked for when breakout rooms are created
    Increase,       \* asked for when a duration is increased
    PerMinute,      \* seconds: 60 in the code
    Huge,           \* where the unsigned difference of two times wraps around
    MaxTime,
    MaxBusy         \* bound: how many run when another one begins

Parent == "parent"
Room == Breakout \cup {Parent}

VARIABLES
    status,  \* of each room
    flag,    \* the parent's metadata: BreakoutRoomFeatures.IsActive
    record,  \* Redis: the hash of the parent's breakout rooms
    checker, \* Redis: what the duration checker knows of each room
    granted, \* each room's metadata: RoomFeatures.RoomDuration
    time,
    work,    \* requests, webhooks and cleanups
    mixed    \* what overlapped or went wrong so far

breakoutVars == <<status, flag, record, checker, granted, time, work, mixed>>

Started(b) == <<"room_started", b>>
Cleanup(r) == <<"cleanup", r>>
Worker == Request \cup {Started(b) : b \in Breakout} \cup {Cleanup(r) : r \in Room}

NoRecord == [there |-> FALSE, started |-> FALSE, duration |-> 0]
NoKey == [there |-> FALSE, startedAt |-> 0, duration |-> 0]
Key(start, duration) == [there |-> TRUE, startedAt |-> start, duration |-> duration]
Idle == [at |-> "idle", job |-> "none", room |-> Parent, todo |-> {}, made |-> FALSE,
         rec |-> NoRecord, had |-> 0]

(* The parent runs; its duration began when it started.                    *)
BreakoutInit ==
    \E d \in ParentDurations :
        /\ status = [r \in Room |-> IF r = Parent THEN "running" ELSE "off"]
        /\ flag = FALSE
        /\ record = [b \in Breakout |-> NoRecord]
        /\ checker = [r \in Room |-> IF r = Parent /\ d > 0 THEN Key(0, d) ELSE NoKey]
        /\ granted = [r \in Room |-> IF r = Parent THEN d ELSE 0]
        /\ time = 0
        /\ work = [w \in Worker |-> Idle]
        /\ mixed = {}

Over == [Idle EXCEPT !.at = "over"]
Busy(wk) == {w \in Worker : wk[w].at \notin {"idle", "over"}}
Writing == {"create", "increase", "start"}

(* Which changes ran while a room was being ended, and whether two changes *)
(* of one room's duration did.                                             *)
Overlaps(wk) ==
    {wk[w].job : w \in {v \in Busy(wk) : /\ wk[v].job \in Writing
                                         /\ \E u \in Busy(wk) : wk[u].job = "end"}}
      \cup {"twice" : w \in {v \in Busy(wk) : \E u \in Busy(wk) \ {v} :
               /\ wk[v].room = wk[u].room
               /\ {wk[v].job, wk[u].job} \subseteq {"increase", "start"}}}

(* A step that goes wrong is noted by what it may spoil: "fault" when a    *)
(* room could not be created or ended as it should, "books" what is told   *)
(* of the rooms, "clock" what is told of their durations.                  *)
Notes(wk, wrongs) == work' = wk /\ mixed' = mixed \cup Overlaps(wk) \cup wrongs

Becomes(wk) == Notes(wk, {})
MayBegin == Cardinality(Busy(work)) < MaxBusy
Put(w, fields) == Becomes([work EXCEPT ![w] = fields])
Goto(w, at) == Put(w, [work[w] EXCEPT !.at = at])
Wrong(w, fields, wrong) == Notes([work EXCEPT ![w] = fields], {wrong})

Begin(w, at, job, room, todo) ==
    Put(w, [Idle EXCEPT !.at = at, !.job = job, !.room = room, !.todo = todo])

At(w, job, at) == work[w].job = job /\ work[w].at = at

-----------------------------------------------------------------------------
(* CompareDurationWithParentRoom.  Of the time that is left only whole     *)
(* minutes count.  It is unsigned: past the parent's end it wraps around   *)
(* to more than any duration.                                              *)
End(key) == key.startedAt + PerMinute * key.duration
Seconds(key) == IF End(key) >= time THEN End(key) - time ELSE Huge - (time - End(key))
Left(key) == Seconds(key) \div PerMinute

Limited(key) == key.there /\ key.duration > 0

(* Variant with a bug: what the breakout room has left is not counted.     *)
LongestOnly(had) == Increase

(* The duration that is compared when one is increased.                    *)
Longest(had) == had + Increase

FitsParent(duration) == Limited(checker[Parent]) => Left(checker[Parent]) >= duration

-----------------------------------------------------------------------------
(* CreateBreakoutRooms.                                                    *)

CreateBreakoutRooms(w, rooms) ==
    /\ work[w].at = "idle" /\ MayBegin
    /\ status[Parent] # "off"
    /\ granted[Parent] > 0 => FitsParent(BkDuration)
    /\ Begin(w, "next", "create", Parent, rooms)
    /\ UNCHANGED <<status, flag, record, checker, granted, time>>

(* CreateRoom answers with the room when there is one already, and waits   *)
(* for one that is ending.                                                 *)
CreateOne(w) ==
    /\ At(w, "create", "next")
    /\ \E b \in work[w].todo :
          /\ status[b] # "ending"
          /\ status' = [status EXCEPT ![b] = IF @ = "off" THEN "created" ELSE @]
          /\ granted' = [granted EXCEPT ![b] = IF status[b] = "off" THEN BkDuration ELSE @]
          /\ Put(w, [work[w] EXCEPT !.at = "insert", !.room = b, !.todo = @ \ {b}])
    /\ UNCHANGED <<flag, record, checker, time>>

CreateFails(w) ==
    /\ At(w, "create", "next")
    /\ \E b \in work[w].todo : Put(w, [work[w] EXCEPT !.todo = @ \ {b}])
    /\ UNCHANGED <<status, flag, record, checker, granted, time>>

(* InsertOrUpdateBreakoutRoom.                                             *)
Insert(w) ==
    /\ At(w, "create", "insert")
    /\ record' = [record EXCEPT ![work[w].room] =
                    [there |-> TRUE, started |-> FALSE, duration |-> BkDuration]]
    /\ Put(w, [work[w] EXCEPT !.at = "next", !.made = TRUE])
    /\ UNCHANGED <<status, flag, checker, granted, time>>

(* The record is not stored: the room is there and not in the hash.  So it *)
(* is when CreateRoom fails after it made the room.                        *)
InsertFails(w) ==
    /\ At(w, "create", "insert")
    /\ Wrong(w, [work[w] EXCEPT !.at = "next"], "fault")
    /\ UNCHANGED <<status, flag, record, checker, granted, time>>

(* Unless every room failed, the flag is set in the parent's metadata, as  *)
(* they were read at first ...                                             *)
CreateEnds(w) ==
    /\ At(w, "create", "next")
    /\ work[w].todo = {}
    /\ flag' = (flag \/ (work[w].made /\ status[Parent] # "off"))
    /\ Put(w, Over)
    /\ UNCHANGED <<status, record, checker, granted, time>>

(* ... or that fails, and the request with it.                             *)
FlagFails(w) ==
    /\ At(w, "create", "next")
    /\ work[w].todo = {}
    /\ Wrong(w, Over, "books")
    /\ UNCHANGED <<status, flag, record, checker, granted, time>>

-----------------------------------------------------------------------------
(* room_started of LiveKit, for a breakout room: the metadata are read ... *)
RoomStarted(b) ==
    /\ status[b] = "created"
    /\ work[Started(b)].at = "idle" /\ MayBegin
    /\ status' = [status EXCEPT ![b] = "running"]
    /\ Put(Started(b), [Idle EXCEPT !.at = "check", !.job = "start", !.room = b,
                                    !.had = granted[b]])
    /\ UNCHANGED <<flag, record, checker, granted, time>>

(* ... the duration checker is told if there is a limit                    *)
(* (AddRoomWithDurationInfo) ...                                           *)
AddDuration(b) ==
    /\ At(Started(b), "start", "check")
    /\ work[Started(b)].had > 0
    /\ checker' = [checker EXCEPT ![b] = Key(time, work[Started(b)].had)]
    /\ Goto(Started(b), "fetch")
    /\ UNCHANGED <<status, flag, record, granted, time>>

(* ... after a pause the record is read (PostTaskAfterRoomStartWebhook) ...*)
FetchRecord(b) ==
    /\ At(Started(b), "start", "fetch")
    /\ Put(Started(b), [work[Started(b)] EXCEPT
            !.at = IF record[b].there THEN "store" ELSE "meta", !.rec = record[b]])
    /\ UNCHANGED <<status, flag, record, checker, granted, time>>

(* ... and put back as started ...                                         *)
StoreRecord(b) ==
    /\ At(Started(b), "start", "store")
    /\ record' = [record EXCEPT ![b] = [work[Started(b)].rec EXCEPT !.started = TRUE]]
    /\ Put(Started(b), [work[Started(b)] EXCEPT !.at = "meta", !.rec = NoRecord])
    /\ UNCHANGED <<status, flag, checker, granted, time>>

(* ... and the metadata that were read first are put back.                 *)
PutStarted(b) ==
    /\ At(Started(b), "start", "meta")
    /\ granted' = [granted EXCEPT ![b] = IF status[b] = "off" THEN @ ELSE work[Started(b)].had]
    /\ Put(Started(b), Idle)
    /\ UNCHANGED <<status, flag, record, checker, time>>

(* Each of these may fail; the next one is done all the same.              *)
StartStepFails(b) ==
    LET w == Started(b) IN
    /\ \/ At(w, "start", "check") /\ Goto(w, "fetch")
       \/ (At(w, "start", "fetch") \/ At(w, "start", "store")) /\ Goto(w, "meta")
       \/ At(w, "start", "meta") /\ Put(w, Idle)
    /\ UNCHANGED <<status, flag, record, checker, granted, time>>

-----------------------------------------------------------------------------
(* IncreaseBreakoutRoomDuration and IncreaseRoomDuration.                  *)

IncreaseBreakoutRoomDuration(w, b) ==
    /\ work[w].at = "idle" /\ MayBegin
    /\ record[b].there
    /\ Put(w, [Idle EXCEPT !.at = "info", !.job = "increase", !.room = b, !.rec = record[b]])
    /\ UNCHANGED <<status, flag, record, checker, granted, time>>

(* The room has to be there, running and limited.                          *)
GetRoomDurationInfo(w) ==
    LET b == work[w].room IN
    /\ At(w, "increase", "info")
    /\ IF status[b] # "off" /\ checker[b].startedAt + checker[b].duration > 0 /\ Limited(checker[b])
       THEN Put(w, [work[w] EXCEPT !.at = "compare", !.had = Left(checker[b])])
       ELSE Put(w, Over)
    /\ UNCHANGED <<status, flag, record, checker, granted, time>>

Compare(w) ==
    /\ At(w, "increase", "compare")
    /\ IF FitsParent(Longest(work[w].had)) THEN Goto(w, "grow") ELSE Put(w, Over)
    /\ UNCHANGED <<status, flag, record, checker, granted, time>>

(* UpdateRoomDuration is one HINCRBY; it makes the key when it is gone.    *)
UpdateRoomDuration(w) ==
    LET b == work[w].room IN
    /\ At(w, "increase", "grow")
    /\ checker' = [checker EXCEPT ![b].there = TRUE, ![b].duration = @ + Increase]
    /\ Put(w, [work[w] EXCEPT !.at = "meta", !.had = checker[b].duration + Increase])
    /\ UNCHANGED <<status, flag, record, granted, time>>

PutDuration(w) ==
    LET b == work[w].room IN
    /\ At(w, "increase", "meta")
    /\ status[b] # "off"
    /\ granted' = [granted EXCEPT ![b] = work[w].had]
    /\ Goto(w, "store")
    /\ UNCHANGED <<status, flag, record, checker, time>>

(* The metadata cannot be put: SetRoomDuration takes the increase back.    *)
SetRoomDuration(w) ==
    /\ At(w, "increase", "meta")
    /\ checker' = [checker EXCEPT ![work[w].room].there = TRUE,
                                  ![work[w].room].duration = work[w].had - Increase]
    /\ Put(w, Over)
    /\ UNCHANGED <<status, flag, record, granted, time>>

(* The record that was read first is put back with the new duration.       *)
StoreDuration(w) ==
    /\ At(w, "increase", "store")
    /\ record' = [record EXCEPT ![work[w].room] =
                    [work[w].rec EXCEPT !.duration = work[w].had]]
    /\ Put(w, Over)
    /\ UNCHANGED <<status, flag, checker, granted, time>>

(* A read or a write before or after these fails, and the request ends.    *)
IncreaseFails(w) ==
    /\ \E at \in {"info", "compare", "grow", "store"} : At(w, "increase", at)
    /\ Put(w, Over)
    /\ UNCHANGED <<status, flag, record, checker, granted, time>>

(* The increase is not taken back: that fails too, or the answer of        *)
(* HINCRBY was lost.                                                       *)
IncreaseStays(w) ==
    /\ At(w, "increase", "meta")
    /\ Wrong(w, Over, "clock")
    /\ UNCHANGED <<status, flag, record, checker, granted, time>>

-----------------------------------------------------------------------------
(* Ending rooms.                                                           *)

EndBreakoutRoom(w, b) ==
    /\ work[w].at = "idle" /\ MayBegin
    /\ record[b].there
    /\ Begin(w, "kill", "end", b, {})
    /\ UNCHANGED <<status, flag, record, checker, granted, time>>

(* The ids are read from the hash; when there are none only the flag is    *)
(* looked at.  A request that cannot read them changes nothing.            *)
EndAllFrom(w) ==
    LET ids == {b \in Breakout : record[b].there}
    IN IF ids = {} THEN Begin(w, "drop", "end", Parent, {})
       ELSE \E b \in ids : Begin(w, "kill", "end", b, ids \ {b})

EndAllBreakoutRoomsByParentRoomId(w) ==
    /\ work[w].at = "idle" /\ MayBegin
    /\ EndAllFrom(w)
    /\ UNCHANGED <<status, flag, record, checker, granted, time>>

Running == {r \in Room : status[r] \in {"created", "running"}}

(* EndRoom: the cleanup of a room that runs is started.                    *)
Ended(r, wk) ==
    [wk EXCEPT ![Cleanup(r)] = IF r \in Running
       THEN [Idle EXCEPT !.at = "undo", !.job = "end", !.room = r] ELSE @]

EndOne(w) ==
    LET b == work[w].room IN
    /\ At(w, "end", "kill")
    /\ status' = [status EXCEPT ![b] = IF b \in Running THEN "ending" ELSE @]
    /\ Becomes(Ended(b, [work EXCEPT ![w].at = "delete"]))
    /\ UNCHANGED <<flag, record, checker, granted, time>>

(* EndRoom does not get the room's lock; the room is forgotten all the same. *)
EndOneFails(w) ==
    /\ At(w, "end", "kill")
    /\ Wrong(w, [work[w] EXCEPT !.at = "delete"], "fault")
    /\ UNCHANGED <<status, flag, record, checker, granted, time>>

(* Variant with a bug: the record of the room that ended stays.            *)
DeleteBreakoutRoomNot(w) ==
    /\ At(w, "end", "delete")
    /\ Goto(w, "count")
    /\ UNCHANGED <<status, flag, record, checker, granted, time>>

DeleteBreakoutRoom(w) ==
    /\ At(w, "end", "delete")
    /\ record' = [record EXCEPT ![work[w].room] = NoRecord]
    /\ Goto(w, "count")
    /\ UNCHANGED <<status, flag, checker, granted, time>>

(* The record is not deleted.                                              *)
DeleteFails(w) ==
    /\ At(w, "end", "delete")
    /\ Wrong(w, [work[w] EXCEPT !.at = "count"], "books")
    /\ UNCHANGED <<status, flag, record, checker, granted, time>>

(* What is next: another room, or the end.                                 *)
Further(w) ==
    IF work[w].todo = {}
    THEN {IF w \in Request THEN Over ELSE [work[w] EXCEPT !.at = "done"]}
    ELSE {[work[w] EXCEPT !.at = "kill", !.room = b, !.todo = @ \ {b}] : b \in work[w].todo}

Onward(w) == \E f \in Further(w) : Put(w, f)

(* onAfterBkRoomEnded: only when no record is left ...                     *)
CountBreakoutRooms(w) ==
    /\ At(w, "end", "count")
    /\ IF \E b \in Breakout : record[b].there THEN Onward(w) ELSE Goto(w, "purge")
    /\ UNCHANGED <<status, flag, record, checker, granted, time>>

(* ... is the hash deleted ...                                             *)
DeleteAll(w) ==
    /\ At(w, "end", "purge")
    /\ record' = [b \in Breakout |-> NoRecord]
    /\ Goto(w, "drop")
    /\ UNCHANGED <<status, flag, checker, granted, time>>

(* ... and the flag dropped: updateParentRoomMetadata reads it ...         *)
ReadFlag(w) ==
    /\ At(w, "end", "drop")
    /\ IF flag /\ status[Parent] # "off" THEN Goto(w, "deactivate") ELSE Onward(w)
    /\ UNCHANGED <<status, flag, record, checker, granted, time>>

(* ... and puts it.                                                        *)
DropFlag(w) ==
    /\ At(w, "end", "deactivate")
    /\ flag' = (flag /\ status[Parent] = "off")
    /\ Onward(w)
    /\ UNCHANGED <<status, record, checker, granted, time>>

(* A step of these fails, or the flag is read from a copy that lags.       *)
BooksFail(w) ==
    /\ \/ At(w, "end", "purge") /\ Wrong(w, [work[w] EXCEPT !.at = "drop"], "books")
       \/ /\ \E at \in {"count", "drop", "deactivate"} : At(w, "end", at)
          /\ \E f \in Further(w) : Wrong(w, f, "books")
    /\ UNCHANGED <<status, flag, record, checker, granted, time>>

(* The metadata are put back whole by every request that changes a setting *)
(* of the room (RoomRequests): one of them has the flag, or the duration   *)
(* that was granted, as it was before.                                     *)
OtherRequest(r) ==
    /\ status[r] # "off"
    /\ \/ /\ r = Parent
          /\ flag' = ~flag
          /\ Notes(work, {"books"})
          /\ UNCHANGED granted
       \/ /\ r # Parent
          /\ granted' = [granted EXCEPT ![r] = BkDuration]
          /\ Notes(work, {"clock"})
          /\ UNCHANGED flag
    /\ UNCHANGED <<status, record, checker, time>>

-----------------------------------------------------------------------------
(* A room ends by itself, by its moderator, by LiveKit, ...                *)
EndRoom(r) ==
    /\ r \in Running /\ MayBegin
    /\ status' = [status EXCEPT ![r] = "ending"]
    /\ Becomes(Ended(r, work))
    /\ UNCHANGED <<flag, record, checker, granted, time>>

(* ... or by the janitor, when the duration checker says it is over.       *)
checkRoomWithDuration(r) ==
    /\ checker[r].there
    /\ time > End(checker[r])
    /\ EndRoom(r)

(* onAfterRoomEnded: DeleteRoomWithDuration, and then                      *)
(* PostTaskAfterRoomEndWebhook, which ends the breakout rooms of a parent. *)
DeleteRoomWithDuration(r) ==
    /\ At(Cleanup(r), "end", "undo")
    /\ checker' = [checker EXCEPT ![r] = NoKey]
    /\ Goto(Cleanup(r), IF r = Parent THEN "all" ELSE "delete")
    /\ UNCHANGED <<status, flag, record, granted, time>>

PostTaskAfterRoomEnd ==
    /\ At(Cleanup(Parent), "end", "all")
    /\ EndAllFrom(Cleanup(Parent))
    /\ UNCHANGED <<status, flag, record, checker, granted, time>>

(* The checker's key cannot be deleted.                                    *)
KeyStays(r) ==
    /\ At(Cleanup(r), "end", "undo")
    /\ Wrong(Cleanup(r), [work[Cleanup(r)] EXCEPT !.at = IF r = Parent THEN "all" ELSE "delete"],
             "clock")
    /\ UNCHANGED <<status, flag, record, checker, granted, time>>

(* The metadata that were handed to PostTaskAfterRoomEndWebhook are empty  *)
(* or unreadable, or the ids cannot be read: nothing of it is done.        *)
PostTaskFails(r) ==
    /\ At(Cleanup(r), "end", IF r = Parent THEN "all" ELSE "delete")
    /\ Wrong(Cleanup(r), [work[Cleanup(r)] EXCEPT !.at = "done", !.todo = {}],
             IF r = Parent THEN "fault" ELSE "books")
    /\ UNCHANGED <<status, flag, record, checker, granted, time>>

(* The bucket is deleted last, and the room's id is free again.            *)
CleanupEnds(r) ==
    /\ At(Cleanup(r), "end", "done")
    /\ status' = [status EXCEPT ![r] = "off"]
    /\ granted' = [granted EXCEPT ![r] = 0]
    /\ Put(Cleanup(r), Idle)
    /\ UNCHANGED <<flag, record, checker, time>>

Tick ==
    /\ time < MaxTime
    /\ time' = time + 1
    /\ UNCHANGED <<status, flag, record, checker, granted, work, mixed>>

-----------------------------------------------------------------------------
BreakoutNext ==
    \/ \E w \in Request :
         \/ \E rooms \in (SUBSET Breakout) \ {{}} : CreateBreakoutRooms(w, rooms)
         \/ CreateOne(w) \/ CreateFails(w) \/ Insert(w) \/ InsertFails(w)
         \/ CreateEnds(w) \/ FlagFails(w)
         \/ \E b \in Breakout : IncreaseBreakoutRoomDuration(w, b) \/ EndBreakoutRoom(w, b)
         \/ GetRoomDurationInfo(w) \/ Compare(w) \/ UpdateRoomDuration(w)
         \/ PutDuration(w) \/ SetRoomDuration(w) \/ StoreDuration(w)
         \/ IncreaseFails(w) \/ IncreaseStays(w)
         \/ EndAllBreakoutRoomsByParentRoomId(w)
    \/ \E b \in Breakout :
         \/ RoomStarted(b) \/ AddDuration(b) \/ FetchRecord(b) \/ StoreRecord(b) \/ PutStarted(b)
         \/ StartStepFails(b)
    \/ \E w \in Worker :
         \/ EndOne(w) \/ EndOneFails(w) \/ DeleteBreakoutRoom(w) \/ CountBreakoutRooms(w)
         \/ DeleteAll(w) \/ ReadFlag(w) \/ DropFlag(w) \/ DeleteFails(w) \/ BooksFail(w)
    \/ \E r \in Room :
         \/ EndRoom(r) \/ checkRoomWithDuration(r) \/ DeleteRoomWithDuration(r) \/ CleanupEnds(r)
         \/ KeyStays(r) \/ PostTaskFails(r) \/ OtherRequest(r)
    \/ PostTaskAfterRoomEnd
    \/ Tick

BreakoutSpec == BreakoutInit /\ [][BreakoutNext]_breakoutVars

-----------------------------------------------------------------------------
Steps == {"idle", "over", "next", "insert", "check", "fetch", "store", "meta", "info", "compare",
          "grow", "kill", "delete", "count", "purge", "drop", "deactivate", "done", "undo", "all"}
Record == [there : BOOLEAN, started : BOOLEAN, duration : Nat]
Work == [at : Steps, job : Writing \cup {"none", "end"}, room : Room, todo : SUBSET Breakout,
         made : BOOLEAN, rec : Record, had : Nat]

BreakoutTypeOK ==
    /\ status \in [Room -> {"off", "created", "running", "ending"}]
    /\ flag \in BOOLEAN
    /\ record \in [Breakout -> Record]
    /\ checker \in [Room -> [there : BOOLEAN, startedAt : 0 .. MaxTime, duration : Nat]]
    /\ granted \in [Room -> Nat]
    /\ time \in 0 .. MaxTime
    /\ work \in [Worker -> Work]
    /\ mixed \subseteq Writing \cup {"twice", "fault", "books", "clock"}

Quiet == Busy(work) = {}

(* When nobody is at it, the hash lists the breakout rooms that run, the   *)
(* parent's flag is set iff there are any, and none is left once the       *)
(* parent ended, however many rooms were ended at the same time: unless a  *)
(* room was created, started or given more time while one was being ended, *)
(* which may list a dead room or forget a live one, a write or a read of   *)
(* these failed, or another request put an older flag back.                *)
BreakoutsAreTracked ==
    Quiet /\ mixed \subseteq {"twice", "clock"} =>
        /\ \A b \in Breakout : record[b].there <=> b \in Running
        /\ status[Parent] # "off" => (flag <=> \E b \in Breakout : record[b].there)

(* The parent's end takes every breakout room along, whatever else is      *)
(* started or given time and whatever becomes of the flag and the records, *)
(* unless a creation is under way, a room that was made is not in the      *)
(* hash, or the task after the parent's end or EndRoom fails.              *)
ParentTakesBreakouts ==
    Quiet /\ status[Parent] = "off" /\ mixed \cap {"create", "fault"} = {} =>
        Running = {}

Untimely == {"twice", "increase", "start", "clock"}

(* The duration checker and the metadata of a room that runs agree on how  *)
(* long it may last, also after an increase that was taken back, unless    *)
(* two changes of its duration overlapped, it was ending, the increase     *)
(* could not be taken back or the key not deleted, or a setting that was   *)
(* changed beside put an older duration back.                              *)
DurationsAgree ==
    Quiet /\ mixed \cap Untimely = {} =>
        \A b \in Breakout : checker[b].there /\ b \in Running =>
            checker[b].duration = granted[b]

(* A room that is given more time never gets as much as a minute past the  *)
(* end of its parent, less than one it may: what is left of both is cut to *)
(* whole minutes.  It does get more when two changes overlap, the room is  *)
(* ending, or the parent's time is over: what is left then wraps around.   *)
IncreaseFits ==
    \A b \in Breakout :
        /\ checker[b].there
        /\ checker'[b].duration > checker[b].duration
        /\ mixed \cap Untimely = {}
        /\ Limited(checker[Parent])
        /\ time <= End(checker[Parent])
        => End(checker'[b]) < End(checker[Parent]) + PerMinute

(* What these rest on.  Every overlap is noted; workers keep to their      *)
(* rooms, and a room is ending for as long as its cleanup runs.            *)
IsBusy(w) == work[w].at \notin {"idle", "over"}
Does(w, job) == IsBusy(w) /\ work[w].job = job
Timing(w) == Does(w, "increase") \/ Does(w, "start")

OverlapsAreMixed ==
    \A v, w \in Worker :
        /\ Does(w, "end") /\ IsBusy(v) /\ work[v].job \in Writing => work[v].job \in mixed
        /\ Timing(v) /\ Timing(w) /\ v # w /\ work[v].room = work[w].room => "twice" \in mixed

WorkerKeeps(w) ==
    /\ Timing(w) => work[w].room \in Breakout
    /\ Does(w, "start") => w = Started(work[w].room)
    /\ At(w, "create", "insert") => work[w].room \in Breakout
    /\ At(w, "end", "kill") \/ At(w, "end", "delete") => work[w].room \in Breakout
    /\ At(w, "end", "done") => work[w].todo = {}
    /\ At(w, "increase", "meta") => work[w].had >= Increase
    /\ Does(w, "increase") \/ At(w, "start", "store") => work[w].rec.there

CleanupKeeps(r) ==
    /\ status[r] = "ending" <=> IsBusy(Cleanup(r))
    /\ IsBusy(Cleanup(r)) => work[Cleanup(r)].job = "end"
    /\ At(Cleanup(r), "end", "undo") => work[Cleanup(r)].room = r

WorkersKeepToRooms ==
    /\ \A w \in Worker : WorkerKeeps(w)
    /\ \A r \in Room : CleanupKeeps(r)
    /\ status[Parent] # "created"

(* The checker knows of rooms that run.  What a request has found out      *)
(* about a duration holds until it is changed: what is left gets less as   *)
(* time goes on, and so does what the parent has left.                     *)
CheckerFollows(b) ==
    /\ status[b] \in {"off", "created"} => ~checker[b].there
    /\ IsBusy(Cleanup(b)) => At(Cleanup(b), "end", "undo") \/ ~checker[b].there
    /\ checker[b].there /\ status[b] = "running" =>
         \/ checker[b].duration = granted[b]
         \/ \E w \in Worker : At(w, "increase", "meta") /\ work[w].room = b

DurationHolds(w) ==
    LET b == work[w].room IN
    /\ Does(w, "start") => status[b] = "running" /\ work[w].had = granted[b]
    /\ At(w, "start", "check") => ~checker[b].there
    /\ At(w, "increase", "compare") =>
         checker[b].there /\ End(checker[b]) < time + PerMinute * work[w].had + PerMinute
    /\ At(w, "increase", "grow") =>
         /\ checker[b].there
         /\ Limited(checker[Parent]) /\ time <= End(checker[Parent]) =>
              End(checker[b]) + PerMinute * Increase < End(checker[Parent]) + PerMinute
    /\ At(w, "increase", "meta") =>
         /\ checker[b].there /\ checker[b].duration = work[w].had
         /\ work[w].had = granted[b] + Increase

DurationsAreFollowed ==
    (\A b \in Breakout : CheckerFollows(b)) /\ (\A w \in Worker : DurationHolds(w))

(* A room that runs is in the hash or about to be, and the parent's        *)
(* cleanup has it among those it still ends.                               *)
Listed(b) ==
    record[b].there \/ \E w \in Worker : At(w, "create", "insert") /\ work[w].room = b

EndHolds(w) ==
    /\ At(w, "end", "delete") => work[w].room \notin Running
    /\ At(w, "end", "purge") => Breakout \cap Running = {}

ParentTakes(b) ==
    LET p == work[Cleanup(Parent)] IN
    p.at \notin {"idle", "over", "undo", "all"} /\ b \in Running =>
        b \in p.todo \/ (p.at = "kill" /\ p.room = b)

EndsTakeAll ==
    /\ \A b \in Breakout : (b \in Running => Listed(b)) /\ ParentTakes(b)
    /\ \A w \in Worker : EndHolds(w)
    /\ status[Parent] = "off" =>
         Breakout \cap Running = {} /\ \A w \in Worker : ~Does(w, "create")

(* What is in the hash runs or is about to be deleted from it, and the     *)
(* flag follows the hash.                                                  *)
Dropping(w) == \E at \in {"purge", "drop", "deactivate"} : At(w, "end", at)

RecordHolds(b) ==
    record[b].there =>
        \/ b \in Running
        \/ At(Cleanup(b), "end", "undo")
        \/ \E w \in Worker : At(w, "end", "delete") /\ work[w].room = b

HashHolds(w) ==
    LET b == work[w].room IN
    /\ At(w, "create", "insert") => b \in Running
    /\ Timing(w) => b \in Running
    /\ Does(w, "increase") \/ At(w, "start", "store") => record[b].there
    /\ Dropping(w) => \A c \in Breakout : ~record[c].there
    /\ Does(w, "create") /\ work[w].made => \E c \in Breakout : record[c].there

FlagHolds ==
    status[Parent] # "off" =>
        /\ flag => \/ \E b \in Breakout : record[b].there
                   \/ \E w \in Worker : At(w, "end", "count") \/ Dropping(w)
        /\ (\E b \in Breakout : record[b].there) =>
             flag \/ \E w \in Worker : Does(w, "create") /\ work[w].made

HashIsFollowed ==
    /\ \A b \in Breakout : RecordHolds(b)
    /\ \A w \in Worker : HashHolds(w)
    /\ FlagHolds

BreakoutInvariant ==
    /\ BreakoutTypeOK /\ OverlapsAreMixed /\ WorkersKeepToRooms
    /\ mixed \cap Untimely = {} => DurationsAreFollowed
    /\ mixed \cap {"create", "fault"} = {} => EndsTakeAll
    /\ mixed \subseteq {"twice", "clock"} => HashIsFollowed
=============================================================================
