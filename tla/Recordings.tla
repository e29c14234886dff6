------------------------------- MODULE Recordings -------------------------------
(***************************************************************************)
(* The recordings of a room after the recorders made them: the row and the *)
(* file of each, the requests that change its metadata, delete it or merge *)
(* several into one, the posts of the transcoder, and the janitor's sweep  *)
(* of the backups.  One worker handles one request; the recording a merge  *)
(* makes is named after the worker that asked for it.                      *)
(*                                                                         *)
(* External: the transcoder (a job is worked off once it is in the stream, *)
(* and it has jobs of the room that are not merges) and JetStream's window *)
(* in which a message id is taken only once.                               *)
(***************************************************************************)
EXTENDS Naturals, FiniteSets

CONSTANTS
    Recorded,   \* recordings that recorders made
    Worker,
    NoWorker,
    MaxErrors   \* errors of the database

Recording == Recorded \cup Worker
Field == {"title", "subtitles"}
Policy == {"backup", "remove", "hook"}

VARIABLES
    policy,   \* how this server deletes
    row,      \* each recording's row: its metadata, NoRow or Deleted
    file,     \* where each recording's file is
    work,     \* each worker: its request, where it is, what it read
    held,     \* mergeRecording lock of the room: the request that holds it
    msgId,    \* whether JetStream remembers the message id
    task,     \* the transcoding task each worker published
    astray,   \* "task": the lock was freed under a merge, or one whose request
              \* does not hold it lost its message id; "lock": the lock that is
              \* held was left behind
    errors

recordingsVars == <<policy, row, file, work, held, msgId, task, astray, errors>>

NoRow == [field |-> "none"]
Deleted == [field |-> "deleted"]
NoMeta == [f \in Field |-> NoWorker]
HasRow(r) == row[r] \notin {NoRow, Deleted}
Asked == [at |-> "new", does |-> "none", of |-> {}, field |-> "title", meta |-> NoMeta]

RecordingsInit ==
    /\ policy \in Policy
    /\ row = [r \in Recording |-> NoRow]
    /\ file = [r \in Recording |-> IF r \in Recorded THEN "there" ELSE "none"]
    /\ work = [w \in Worker |-> Asked]
    /\ held = NoWorker
    /\ msgId = FALSE
    /\ task = [w \in Worker |-> "none"]
    /\ astray = {}
    /\ errors = 0

Goto(w, at) == work' = [work EXCEPT ![w].at = at]
Return(w) == work' = [work EXCEPT ![w] = [Asked EXCEPT !.at = "over"]]
At(w, at, does) == work[w].at = at /\ work[w].does = does
Pending == {w \in Worker : task[w] \in {"queued", "made", "failed"}}
Merging == {w \in Worker : work[w].at = "publish"} \cup Pending

-----------------------------------------------------------------------------
(* RECORDING_PROCEEDED: the row is inserted once, with the room's title;   *)
(* if the database fails, the information file is all there is.            *)

Insert(r) == row' = [row EXCEPT ![r] = NoMeta]

Proceeded(r) ==
    /\ r \in Recorded
    /\ row[r] = NoRow
    /\ Insert(r)
    /\ UNCHANGED <<policy, file, work, held, msgId, task, astray, errors>>

-----------------------------------------------------------------------------
(* UpdateRecordingMetadata: FetchRecording, the patch, and an UPDATE of    *)
(* all the metadata, which finds no row if it was deleted in between.      *)

AskUpdate(w, r, f) ==
    /\ work[w].at = "new"
    /\ HasRow(r)
    /\ work' = [work EXCEPT ![w] = [at |-> "save", does |-> "update", of |-> {r}, field |-> f,
                                    meta |-> row[r]]]
    /\ UNCHANGED <<policy, row, file, held, msgId, task, astray, errors>>

(* Variant with a bug: the row is saved, and so inserted if it is gone.    *)
SaveInserts(w) ==
    \E r \in work[w].of :
        /\ At(w, "save", "update")
        /\ row' = [row EXCEPT ![r] = [work[w].meta EXCEPT ![work[w].field] = w]]
        /\ Return(w)
        /\ UNCHANGED <<policy, file, held, msgId, task, astray, errors>>

Save(w) ==
    \E r \in work[w].of :
        /\ At(w, "save", "update")
        /\ row' = IF HasRow(r) THEN [row EXCEPT ![r] = [work[w].meta EXCEPT ![work[w].field] = w]]
                  ELSE row
        /\ Return(w)
        /\ UNCHANGED <<policy, file, held, msgId, task, astray, errors>>

-----------------------------------------------------------------------------
(* DeleteRecording: FetchRecording, then the file, then the row.           *)

AskDelete(w, r) ==
    /\ work[w].at = "new"
    /\ HasRow(r)
    /\ work' = [work EXCEPT ![w] = [Asked EXCEPT !.does = "delete", !.of = {r},
                                       !.at = IF policy = "hook" THEN "hook" ELSE "stat"]]
    /\ UNCHANGED <<policy, row, file, held, msgId, task, astray, errors>>

(* The hook may fail; the row is deleted all the same.                     *)
RunDeleteHook(w) ==
    \E r \in work[w].of :
        /\ work[w].at = "hook"
        /\ file' \in {file, [file EXCEPT ![r] = "none"]}
        /\ Goto(w, "row")
        /\ UNCHANGED <<policy, row, held, msgId, task, astray, errors>>

(* A file that does not exist does not stop the deletion.                  *)
Stat(w) ==
    \E r \in work[w].of :
        /\ work[w].at = "stat"
        /\ Goto(w, IF file[r] = "there" THEN "remove" ELSE "row")
        /\ UNCHANGED <<policy, row, file, held, msgId, task, astray, errors>>

(* The file is moved to the backups, as old as it is, or removed.  If it   *)
(* is gone since the Stat, the request fails and the row stays.            *)
Remove(w) ==
    \E r \in work[w].of :
        /\ work[w].at = "remove"
        /\ \/ /\ file[r] = "there"
              /\ file' = [file EXCEPT ![r] = IF policy = "backup" THEN "moved" ELSE "none"]
              /\ Goto(w, IF policy = "backup" THEN "chtimes" ELSE "row")
           \/ file[r] # "there" /\ Return(w) /\ UNCHANGED file
        /\ UNCHANGED <<policy, row, held, msgId, task, astray, errors>>

(* Chtimes: from now on the backup's age counts.                           *)
Chtimes(w) ==
    \E r \in work[w].of :
        /\ work[w].at = "chtimes"
        /\ file' = [file EXCEPT ![r] = IF @ = "moved" THEN "backup" ELSE @]
        /\ Goto(w, "row")
        /\ UNCHANGED <<policy, row, held, msgId, task, astray, errors>>

DeleteRow(w) ==
    \E r \in work[w].of :
        /\ work[w].at = "row"
        /\ \/ row' = [row EXCEPT ![r] = Deleted] /\ UNCHANGED errors
           \/ errors < MaxErrors /\ errors' = errors + 1 /\ UNCHANGED row
        /\ Return(w)
        /\ UNCHANGED <<policy, file, held, msgId, task, astray>>

(* checkDelRecordingBackupPath: what is older than the backup duration.    *)
CheckDelRecordingBackupPath(r) ==
    /\ file[r] \in {"moved", "backup"}
    /\ file' = [file EXCEPT ![r] = "none"]
    /\ UNCHANGED <<policy, row, work, held, msgId, task, astray, errors>>

-----------------------------------------------------------------------------
(* Variant with a bug: nothing to merge is not an error.                   *)
AskMergeOfNothing(w, of) ==
    /\ work[w].at = "new"
    /\ \A r \in of : HasRow(r)
    /\ work' = [work EXCEPT ![w] = [Asked EXCEPT !.at = "lock", !.does = "merge", !.of = of]]
    /\ UNCHANGED <<policy, row, file, held, msgId, task, astray, errors>>

(* MergeRecordings: the rows are read first, then the lock is taken.  They *)
(* are the ones named, or the latest 20 of a session, newest first, less   *)
(* those excluded.                                                         *)

AskMerge(w, of) ==
    /\ work[w].at = "new"
    /\ of # {}
    /\ \A r \in of : HasRow(r)
    /\ work' = [work EXCEPT ![w] = [Asked EXCEPT !.at = "lock", !.does = "merge", !.of = of]]
    /\ UNCHANGED <<policy, row, file, held, msgId, task, astray, errors>>

TryLock(w) ==
    /\ work[w].at = "lock"
    /\ IF held = NoWorker THEN held' = w /\ Goto(w, "publish")
       ELSE UNCHANGED held /\ Return(w)
    /\ UNCHANGED <<policy, row, file, msgId, task, astray, errors>>

(* Variant with a bug: the lock stays after an error.                      *)
FailKeeps(w) == Return(w) /\ UNCHANGED <<held, astray>>

(* The deferred function: an error gives the lock back, if it is held by   *)
(* this request.  An error of Unlock is discarded, and the lock is left.   *)
Unlock(w) == held' = IF held = w THEN NoWorker ELSE held
LeaveLock(w) == UNCHANGED held /\ astray' = IF held = w THEN astray \cup {"lock"} ELSE astray
Fail(w) == Return(w) /\ ((Unlock(w) /\ UNCHANGED astray) \/ LeaveLock(w))

(* Fewer than two files, or the message is not published.                  *)
RefuseMerge(w) ==
    /\ work[w].at = "publish"
    /\ Fail(w)
    /\ UNCHANGED <<policy, row, file, msgId, task, errors>>

(* Publish with the lock's key as the message id: a duplicate is an error; *)
(* the acknowledgement may be lost, and then the task is there and the     *)
(* lock is not.                                                            *)
Publish(w) ==
    /\ work[w].at = "publish"
    /\ Cardinality(work[w].of) >= 2
    /\ msgId' = TRUE
    /\ IF msgId THEN Fail(w) /\ UNCHANGED task
       ELSE /\ task' = [task EXCEPT ![w] = "queued"]
            /\ Return(w)
            /\ UNCHANGED held \/ Unlock(w)
            /\ UNCHANGED astray
    /\ UNCHANGED <<policy, row, file, errors>>

(* The server stops while it handles a request.                            *)
Crash(w) ==
    /\ work[w].at \notin {"new", "over"}
    /\ Return(w)
    /\ LeaveLock(w)
    /\ UNCHANGED <<policy, row, file, msgId, task, errors>>

(* Two minutes after the message.                                          *)
ForgetMsgId ==
    /\ msgId
    /\ msgId' = FALSE
    /\ astray' = IF Pending \in {{}, {held}} THEN astray ELSE astray \cup {"task"}
    /\ UNCHANGED <<policy, row, file, work, held, task, errors>>

(* The transcoder; RECORDING_PROCEEDED of the merged recording.            *)
Transcode(w) ==
    /\ task[w] = "queued"
    /\ task' = [task EXCEPT ![w] = "made"]
    /\ file' = [file EXCEPT ![w] = "there"]
    /\ Insert(w)
    /\ UNCHANGED <<policy, work, held, msgId, astray, errors>>

TranscodingFails(w) ==
    /\ task[w] = "queued"
    /\ task' = [task EXCEPT ![w] = "failed"]
    /\ UNCHANGED <<policy, row, file, work, held, msgId, astray, errors>>

(* RECORDING_TRANSCODING_FINISHED: the lock of the room is deleted,        *)
(* whichever request holds it; an error of the deletion is discarded.      *)
DeleteLock(done) ==
    /\ held' = NoWorker
    /\ astray' = (astray \ {"lock"}) \cup (IF held \in Merging \ done THEN {"task"} ELSE {})

TranscodingFinished(w) ==
    /\ task[w] \in {"made", "failed"}
    /\ task' = [task EXCEPT ![w] = "over"]
    /\ DeleteLock({w}) \/ LeaveLock(w)
    /\ UNCHANGED <<policy, row, file, work, msgId, errors>>

(* The job was no merge; the 24 hours of the lock end the same way.        *)
OtherFinished ==
    /\ held # NoWorker
    /\ DeleteLock({})
    /\ UNCHANGED <<policy, row, file, work, msgId, task, errors>>

-----------------------------------------------------------------------------
RecordingsNext ==
    \/ ForgetMsgId \/ OtherFinished
    \/ \E r \in Recording : Proceeded(r) \/ CheckDelRecordingBackupPath(r)
    \/ \E w \in Worker :
          \/ \E r \in Recording : AskDelete(w, r) \/ \E f \in Field : AskUpdate(w, r, f)
          \/ \E of \in SUBSET Recording : AskMerge(w, of)
          \/ Save(w) \/ RunDeleteHook(w) \/ Stat(w) \/ Remove(w) \/ Chtimes(w) \/ DeleteRow(w)
          \/ TryLock(w) \/ RefuseMerge(w) \/ Publish(w) \/ Crash(w)
          \/ Transcode(w) \/ TranscodingFails(w) \/ TranscodingFinished(w)

RecordingsSpec == RecordingsInit /\ [][RecordingsNext]_recordingsVars

-----------------------------------------------------------------------------
(* Every variable has its type.                                            *)
Meta == [Field -> Worker \cup {NoWorker}]
RequestState ==
    [at : {"new", "save", "hook", "stat", "remove", "chtimes", "row", "lock", "publish", "over"},
     does : {"none", "update", "delete", "merge"},
     of : SUBSET Recording, field : Field, meta : Meta]

RecordingsTypeOK ==
    /\ policy \in Policy
    /\ row \in [Recording -> Meta \cup {NoRow, Deleted}]
    /\ file \in [Recording -> {"none", "there", "moved", "backup"}]
    /\ work \in [Worker -> RequestState]
    /\ \A w \in Worker : work[w].at \notin {"new", "over"} => work[w].of # {}
    /\ held \in Worker \cup {NoWorker}
    /\ msgId \in BOOLEAN
    /\ task \in [Worker -> {"none", "queued", "made", "failed", "over"}]
    /\ astray \subseteq {"task", "lock"}
    /\ errors \in 0..MaxErrors

(* The lock lasts 24 hours, so a request that fails must give it back and  *)
(* a task that ends must free it: whoever holds it is about to publish or  *)
(* has a task in the stream (recording.go:89, recording_modify.go:403).    *)
(* Not so only a lock that a crash or a failing deletion left behind, and  *)
(* that only until the next job of the room is over.                       *)
MergeLockHasTask == held \in {NoWorker} \cup Merging \/ "lock" \in astray

(* At most one merge of a room is on its way, although the acknowledgement *)
(* may be lost and the lock given back with the task in the stream, and    *)
(* whoever crashes: the message id covers the first for its two minutes.   *)
(* After them, and once another job of the room freed the lock under a     *)
(* merge, there may be two.                                                *)
OneMergeAtATime == "task" \notin astray => \A v, w \in Pending : v = w

(* A recording that was deleted does not come back, whatever a request     *)
(* read before that and writes after it (recording_modify.go:192, :302).   *)
StaysDeleted == \A r \in Recording : row[r] = Deleted => row'[r] = Deleted

(* What these rest on.  A request that has not returned has no task yet;   *)
(* the recording a merge makes has its row from the transcoder only, and   *)
(* what a request is about had one.                                        *)
MergesAreFresh ==
    \A w \in Worker : /\ work[w].at # "over" => task[w] = "none"
                      /\ task[w] \in {"none", "queued"} => row[w] = NoRow
                      /\ \A r \in work[w].of : row[r] # NoRow

(* Until something went astray, the request that is about to publish holds *)
(* the lock, one task is on its way, and once its message id is forgotten  *)
(* it is the holder's.                                                     *)
MergeIsCovered ==
    "task" \notin astray =>
        /\ \A w \in Worker : work[w].at = "publish" => held = w
        /\ \A v, w \in Pending : v = w
        /\ ~msgId => Pending \subseteq {held}

RecordingsInvariant ==
    RecordingsTypeOK /\ MergeLockHasTask /\ MergesAreFresh /\ MergeIsCovered
=============================================================================
