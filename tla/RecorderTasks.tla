----------------------------- MODULE RecorderTasks -----------------------------
(***************************************************************************)
(* Recording and RTMP broadcasting of one session: the requests that start *)
(* and stop them, the end of the session, and the events the recorders     *)
(* post.  What is on the air is known in three places: by the recorder, in *)
(* the room's row and in the metadata, where both flags and the options of *)
(* both tasks are put back together with everything else.                  *)
(*                                                                         *)
(* A recorder is external.  It answers a request or is too late, and for   *)
(* every job it posts that it started and, later, that it ended; it waits  *)
(* for the answer to the first before it posts the second.                 *)
(*                                                                         *)
(* Other components put the same metadata whole, so they can bring back    *)
(* what these were, and a read is answered from the server's own copy,     *)
(* which may lag (NatsRoomCache).  An event is not posted again: what one  *)
(* fails to write stays as it was.                                         *)
(***************************************************************************)
EXTENDS Naturals

CONSTANTS
    Worker,    \* requests and posts that are handled at the same time
    NoWorker,
    Job        \* the jobs recorders may take

Task == {"recording", "rtmp"}

VARIABLES
    row,      \* the room's row: running, and the tasks it has as active
    bucket,   \* the room's bucket: whether it exists, and its metadata
    lock,     \* recorderTaskLock of each task
    work,     \* each worker: its request or post, where it is, what it read
    job,      \* the recorders' jobs
    tangled,  \* tasks two recorders had, of which two posts were handled at
              \* once or one was lost or half done, and, where metadata that
              \* somebody changed in between were put, both
    expired,  \* tasks whose lock expired while a start still had it
    past      \* the metadata the room had before

taskVars == <<row, bucket, lock, work, job, tangled, expired, past>>

-----------------------------------------------------------------------------
NoMeta == [active |-> {}, options |-> {}]
Free == [at |-> "free", does |-> "start", task |-> "recording", job |-> {}, meta |-> NoMeta]

TasksInit ==
    /\ row = [running |-> TRUE, active |-> {}]
    /\ bucket = [there |-> TRUE, meta |-> NoMeta]
    /\ lock = [t \in Task |-> NoWorker]
    /\ work = [w \in Worker |-> Free]
    /\ job = [j \in Job |-> [at |-> "none", task |-> "recording"]]
    /\ tangled = {}
    /\ expired = {}
    /\ past = {}

Put(w, step) == work' = [work EXCEPT ![w] = step]
Goto(w, at) == Put(w, [work[w] EXCEPT !.at = at])
At(w, at, does) == work[w].at = at /\ work[w].does = does

On(task) == {j \in Job : job[j].at \in {"taken", "started", "ending"} /\ job[j].task = task}
Started(task) == {j \in On(task) : job[j].at # "taken"}

(* A recorder has a job until it posts that it ended, also one that was    *)
(* stopped before it began.                                                *)
Had(task) == {j \in Job : job[j].at \notin {"none", "over"} /\ job[j].task = task}

-----------------------------------------------------------------------------
(* A request: what the row says is checked, then it is dispatched.         *)

HandleStart(w, t) ==
    /\ work[w].at = "free"
    /\ row.running
    /\ t \notin row.active
    /\ Put(w, [Free EXCEPT !.at = "lock", !.task = t])
    /\ UNCHANGED <<row, bucket, lock, job, tangled, expired, past>>

HandleStop(w, t) ==
    /\ work[w].at = "free"
    /\ row.running
    /\ t \in row.active
    /\ Put(w, [Free EXCEPT !.at = "send", !.does = "stop", !.task = t])
    /\ UNCHANGED <<row, bucket, lock, job, tangled, expired, past>>

(* Variant with a bug: a lock that is held is taken over.                  *)
TryLockAnyway(w) ==
    /\ work[w].at = "lock"
    /\ lock' = [lock EXCEPT ![work[w].task] = w]
    /\ Goto(w, "send")
    /\ UNCHANGED <<row, bucket, job, tangled, expired, past>>

(* Only a start takes the lock; who does not get it is refused.            *)
TryLock(w) ==
    /\ work[w].at = "lock"
    /\ IF lock[work[w].task] = NoWorker
       THEN lock' = [lock EXCEPT ![work[w].task] = w] /\ Goto(w, "send")
       ELSE lock' = lock /\ Put(w, Free)
    /\ UNCHANGED <<row, bucket, job, tangled, expired, past>>

(* The deferred Unlock: by value, when the request returns.                *)
Return(w) ==
    /\ Put(w, Free)
    /\ lock' = [t \in Task |-> IF lock[t] = w THEN NoWorker ELSE lock[t]]

(* No recorder is active, or the token fails.                              *)
NoRecorder(w) ==
    /\ At(w, "send", "start")
    /\ Return(w)
    /\ UNCHANGED <<row, bucket, job, tangled, expired, past>>

(* The recorder that was chosen takes the job, or never gets the message.  *)
SendStart(w) ==
    LET t == work[w].task IN
    /\ At(w, "send", "start")
    /\ \/ /\ \E j \in Job :
                /\ job[j].at = "none"
                /\ job' = [job EXCEPT ![j] = [at |-> "taken", task |-> t]]
                /\ Put(w, [work[w] EXCEPT !.at = "wait", !.job = {j}])
          /\ tangled' = tangled \cup (IF Had(t) # {} THEN {t} ELSE {})
       \/ Goto(w, "wait") /\ UNCHANGED <<job, tangled>>
    /\ UNCHANGED <<row, bucket, lock, expired, past>>

(* STOP ends every task of the room, the others the task they name.        *)
Stopped(w) == IF work[w].does = "end" THEN Task ELSE {work[w].task}

SendStop(w) ==
    /\ work[w].at = "send"
    /\ work[w].does \in {"stop", "end"}
    /\ \/ job' = [j \in Job |->
                    IF job[j].at \in {"taken", "started"} /\ job[j].task \in Stopped(w)
                    THEN [job[j] EXCEPT !.at = IF @ = "taken" THEN "lost" ELSE "ending"]
                    ELSE job[j]]
       \/ UNCHANGED job
    /\ Goto(w, "wait")
    /\ UNCHANGED <<row, bucket, lock, tangled, expired, past>>

(* A good answer: a start goes on to the metadata if it came with options. *)
Answered(w) ==
    /\ work[w].at = "wait"
    /\ \/ /\ work[w].does = "start"
          /\ work[w].job # {}
          /\ Goto(w, "readOptions")
          /\ UNCHANGED lock
       \/ work[w].does # "end" /\ (work[w].does = "start" => work[w].job # {}) /\ Return(w)
       \/ work[w].does = "end" /\ Goto(w, "cleanup") /\ UNCHANGED lock
    /\ UNCHANGED <<row, bucket, job, tangled, expired, past>>

(* No answer within 3 s, or a bad one: the job may have been taken.        *)
TimedOut(w) ==
    /\ work[w].at = "wait"
    /\ IF work[w].does = "end" THEN Goto(w, "cleanup") /\ UNCHANGED lock ELSE Return(w)
    /\ UNCHANGED <<row, bucket, job, tangled, expired, past>>

-----------------------------------------------------------------------------
(* The metadata are read and put back, by a start for its options and by   *)
(* an event for its flag.                                                  *)

Reading == {"readOptions", "readFlag"}
Putting == {"putOptions", "putFlag"}

(* From the copy, which may have what the bucket had before.               *)
ReadMeta(w) ==
    /\ work[w].at \in Reading
    /\ bucket.there
    /\ \E seen \in {bucket.meta} \cup past :
          /\ Put(w, [work[w] EXCEPT
                       !.at = IF @ = "readOptions" THEN "putOptions" ELSE "putFlag",
                       !.meta = seen])
          /\ tangled' = IF \/ seen # bucket.meta
                           \/ \E v \in Worker \ {w} : work[v].at \in Putting
                        THEN Task ELSE tangled
    /\ UNCHANGED <<row, bucket, lock, job, expired, past>>

(* The room is gone, or a copy that was read finds no bucket.              *)
NoRoom(w) ==
    /\ work[w].at \in Reading \cup Putting
    /\ ~bucket.there
    /\ Return(w)
    /\ UNCHANGED <<row, bucket, job, tangled, expired, past>>

(* The metadata cannot be read, or cannot be put: an event's flag stays.   *)
MetaFails(w) ==
    /\ work[w].at \in Reading \cup Putting
    /\ Return(w)
    /\ tangled' = IF work[w].does = "start" THEN tangled ELSE tangled \cup {work[w].task}
    /\ UNCHANGED <<row, bucket, job, expired, past>>

PutOptions(w) ==
    /\ work[w].at = "putOptions"
    /\ bucket.there
    /\ bucket' = [bucket EXCEPT !.meta = [work[w].meta EXCEPT !.options = @ \cup {work[w].task}]]
    /\ past' = past \cup {bucket.meta}
    /\ Return(w)
    /\ UNCHANGED <<row, job, tangled, expired>>

Flagged(w, active) ==
    IF work[w].does = "started" THEN active \cup {work[w].task} ELSE active \ {work[w].task}

(* Variant with a bug: the flag of the other task is dropped.              *)
PutFlagAlone(w) ==
    /\ work[w].at = "putFlag"
    /\ bucket.there
    /\ bucket' = [bucket EXCEPT !.meta = [work[w].meta EXCEPT !.active = Flagged(w, {})]]
    /\ past' = past \cup {bucket.meta}
    /\ Return(w)
    /\ UNCHANGED <<row, job, tangled, expired>>

PutFlag(w) ==
    /\ work[w].at = "putFlag"
    /\ bucket.there
    /\ bucket' = [bucket EXCEPT !.meta = [work[w].meta EXCEPT !.active = Flagged(w, @)]]
    /\ past' = past \cup {bucket.meta}
    /\ Return(w)
    /\ UNCHANGED <<row, job, tangled, expired>>

-----------------------------------------------------------------------------
(* The recorder posts: HandleRecorderEvents finds the room by its table id, *)
(* so also when the session is over.                                       *)

Posts(t) == {w \in Worker : /\ work[w].at # "free"
                            /\ work[w].does \in {"started", "ended"}
                            /\ work[w].task = t}
Posted(j) == \E w \in Posts(job[j].task) : work[w].job = {j}

(* The posts of two jobs may be handled at the same time.                  *)
Receive(w, j, does) ==
    /\ work[w].at = "free"
    /\ ~Posted(j)
    /\ Put(w, [Free EXCEPT !.at = "setRow", !.does = does, !.task = job[j].task, !.job = {j}])
    /\ tangled' = tangled \cup (IF Posts(job[j].task) # {} THEN {job[j].task} ELSE {})

PostStarted(w, j) ==
    /\ job[j].at = "taken"
    /\ job' = [job EXCEPT ![j].at = "started"]
    /\ Receive(w, j, "started")
    /\ UNCHANGED <<row, bucket, lock, expired, past>>

(* It was stopped, or it ended by itself; a job that was stopped before it *)
(* started posts its end alone.                                            *)
PostEnded(w, j) ==
    /\ job[j].at \in {"started", "ending", "lost"}
    /\ job' = [job EXCEPT ![j].at = "over"]
    /\ Receive(w, j, "ended")
    /\ UNCHANGED <<row, bucket, lock, expired, past>>

(* The recorder posted, and the room's row could not be read (500).        *)
PostDropped(j) ==
    /\ job[j].at \in {"taken", "started", "ending", "lost"}
    /\ ~Posted(j)
    /\ job' = [job EXCEPT ![j].at = IF @ = "taken" THEN "started" ELSE "over"]
    /\ tangled' = tangled \cup {job[j].task}
    /\ UNCHANGED <<row, bucket, lock, work, expired, past>>

(* UpdateRoomRecordingStatus, UpdateRoomRTMPStatus: an error is logged.    *)
RowFails(w) ==
    /\ work[w].at = "setRow"
    /\ Goto(w, "readFlag")
    /\ tangled' = tangled \cup {work[w].task}
    /\ UNCHANGED <<row, bucket, lock, job, expired, past>>

SetRow(w) ==
    /\ work[w].at = "setRow"
    /\ row' = [row EXCEPT !.active = Flagged(w, @)]
    /\ Goto(w, "readFlag")
    /\ UNCHANGED <<bucket, lock, job, tangled, expired, past>>

-----------------------------------------------------------------------------
(* A request of another component puts the metadata back as it had read    *)
(* them before they were changed here.                                     *)
OtherRequest ==
    /\ bucket.there
    /\ \E seen \in past \ {bucket.meta} : bucket' = [bucket EXCEPT !.meta = seen]
    /\ past' = past \cup {bucket.meta}
    /\ tangled' = Task
    /\ UNCHANGED <<row, lock, work, job, expired>>

(* The 30 s of a lock are over, and the start that took it still waits for *)
(* a call to return.                                                       *)
LockExpires(t) ==
    /\ lock[t] # NoWorker
    /\ lock' = [lock EXCEPT ![t] = NoWorker]
    /\ expired' = expired \cup {t}
    /\ UNCHANGED <<row, bucket, work, job, tangled, past>>

-----------------------------------------------------------------------------
(* The session ends: the row is closed and loses its flags, STOP is sent,  *)
(* and after the rest of the cleanup the bucket is deleted.                *)

CloseRow(w) ==
    /\ work[w].at = "free"
    /\ row.running
    /\ row' = [running |-> FALSE, active |-> {}]
    /\ Put(w, [Free EXCEPT !.at = "send", !.does = "end"])
    /\ UNCHANGED <<bucket, lock, job, tangled, expired, past>>

Cleanup(w) ==
    /\ work[w].at = "cleanup"
    /\ bucket' = [there |-> FALSE, meta |-> NoMeta]
    /\ Put(w, Free)
    /\ UNCHANGED <<row, lock, job, tangled, expired, past>>

-----------------------------------------------------------------------------
WorkerStep(w) ==
    \/ TryLock(w) \/ NoRecorder(w) \/ SendStart(w) \/ SendStop(w) \/ Answered(w) \/ TimedOut(w)
    \/ ReadMeta(w) \/ NoRoom(w) \/ MetaFails(w) \/ PutOptions(w) \/ PutFlag(w)
    \/ RowFails(w) \/ SetRow(w) \/ Cleanup(w)

TasksNext ==
    \/ \E w \in Worker :
          \/ WorkerStep(w)
          \/ CloseRow(w)
          \/ \E t \in Task : HandleStart(w, t) \/ HandleStop(w, t)
          \/ \E j \in Job : PostStarted(w, j) \/ PostEnded(w, j)
    \/ \E j \in Job : PostDropped(j)
    \/ OtherRequest
    \/ \E t \in Task : LockExpires(t)

TasksSpec == TasksInit /\ [][TasksNext]_taskVars

-----------------------------------------------------------------------------
(* Every variable has its type.                                            *)
Meta == [active : SUBSET Task, options : SUBSET Task]
WorkerState ==
    [at : {"free", "lock", "send", "wait", "cleanup", "setRow"} \cup Reading \cup Putting,
     does : {"start", "stop", "end", "started", "ended"},
     task : Task, job : SUBSET Job, meta : Meta]
JobState == [at : {"none", "taken", "started", "ending", "lost", "over"}, task : Task]

TasksTypeOK ==
    /\ row \in [running : BOOLEAN, active : SUBSET Task]
    /\ bucket \in [there : BOOLEAN, meta : Meta]
    /\ lock \in [Task -> Worker \cup {NoWorker}]
    /\ work \in [Worker -> WorkerState]
    /\ job \in [Job -> JobState]
    /\ tangled \subseteq Task /\ expired \subseteq Task /\ past \subseteq Meta

(* "we'll use a lock to ensure that we're not sending multiple requests    *)
(* for the same task" (recording_dispatch.go:33): at most one start of a   *)
(* task is between its lock and its return, the time it waits for the      *)
(* recorder and the time it changes the metadata included, until the lock  *)
(* of the task has expired under a start that took longer than its 30 s.   *)
OneStartAtATime ==
    \A v, w \in Worker :
        /\ v # w
        /\ work[v].does = "start" /\ work[w].does = "start"
        /\ work[v].at \notin {"free", "lock"} /\ work[w].at \notin {"free", "lock"}
        => work[v].task # work[w].task \/ work[v].task \in expired

(* The row, the metadata and the recorder agree on what is on the air      *)
(* whenever nothing is being handled, although each is changed by its own  *)
(* step and a request may be refused, lost or answered too late.  They     *)
(* part only over a task that two recorders had, of which two events were  *)
(* handled at once, or one was dropped or failed to write what it should,  *)
(* and over both when the metadata were put by one who had read them       *)
(* before another changed them.                                            *)
(* After the session only the row is left, and it follows the recorder.    *)
AirAgrees ==
    (\A w \in Worker : work[w].at = "free")
    => \A t \in Task \ tangled :
          /\ row.running => (t \in row.active) = (Started(t) # {})
          /\ row.running => (t \in bucket.meta.active) = (Started(t) # {})
          /\ ~row.running /\ On(t) = {} => t \notin row.active

(* What OneStartAtATime and AirAgrees rest on while requests and posts are *)
(* handled.  Each request keeps to its own steps, and the bucket is there  *)
(* as long as the row runs.                                                *)
RequestsKeepOrder ==
    /\ \A w \in Worker :
         LET at == work[w].at  does == work[w].does IN
         /\ at \in {"lock", "readOptions", "putOptions"} => does = "start"
         /\ at \in {"setRow", "readFlag", "putFlag"} => does \in {"started", "ended"}
         /\ at = "cleanup" => does = "end"
         /\ at # "free" /\ does \in {"started", "ended"} =>
              at \in {"setRow", "readFlag", "putFlag"}
         /\ at # "free" /\ does = "end" => ~row.running
    /\ row.running => bucket.there

(* A start that is past its lock holds it, or the lock has expired.        *)
StartsHoldLock ==
    \A w \in Worker :
        work[w].does = "start" /\ work[w].at \notin {"free", "lock"} =>
            work[w].task \in expired \/ lock[work[w].task] = w

(* Unless all tasks are tangled one worker has the metadata to itself, and *)
(* puts back what is still there.                                          *)
MetaIsOwned ==
    tangled # Task =>
        \A w \in Worker : work[w].at \in Putting =>
            /\ \A v \in Worker \ {w} : work[v].at \notin Putting
            /\ bucket.there => work[w].meta = bucket.meta

(* One recorder has a task, one post about it is handled; a post tells how *)
(* things are, and without one row and metadata do.                        *)
AirIsFollowed ==
    \A t \in Task \ tangled :
        /\ \A j, k \in Had(t) : j = k
        /\ \A v, w \in Posts(t) : v = w
        /\ \A w \in Posts(t) : work[w].does = "started" <=> Started(t) # {}
        /\ (\A w \in Posts(t) : work[w].at # "setRow") =>
              /\ t \in row.active => Started(t) # {}
              /\ row.running /\ Started(t) # {} => t \in row.active
        /\ row.running /\ Posts(t) = {} => (t \in bucket.meta.active <=> Started(t) # {})

TasksInvariant ==
    TasksTypeOK /\ RequestsKeepOrder /\ StartsHoldLock /\ MetaIsOwned /\ AirIsFollowed

=============================================================================
