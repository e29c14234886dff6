# A TLA+ model of plugNmeet-server

plugNmeet-server is the Go back end of a web conference: it creates and ends
rooms, lets users join them, keeps what happens in them, records, transcribes and
summarises them, and tells integrators about it. It runs as any number of replicas.
What a room is, is spread over stores that no transaction spans: a row in MariaDB
(`pnm_room_info`), a NATS JetStream key-value bucket (`pnm-room-<roomId>`), Redis
keys, files, and the room LiveKit runs for the media. Most of what is hard in this
code comes from three facts:

* everything is found by **room id**, while the things that exist belong to a
  **session** (a `sid`), and a room id has one session after another;
* handlers on different replicas, goroutines that wait, webhooks handled in any
  order and a janitor all act on these stores, and a few Redis locks with a TTL are
  all that orders some of them;
* whole documents (the metadata of a room, a user, a recording) are read, changed
  and put back, with calls to other services in between.

The modules here model those parts at the grain of one call to a store (or one
critical section of a mutex, or one operation on a channel) per action. `src/` in
`PROJECT.json` and the paths below are those of the repository.

## Inventory

| Component | State it keeps | Operations | What is hard | Here |
|---|---|---|---|---|
| Room lifecycle (`models/room_create.go`, `room_end.go`, `webhook_room.go`, `janitor_room.go`) | row, bucket, LiveKit room, room duration | CreateRoom, EndRoom and onAfterRoomEnded, room_started, room_finished, activeRoomChecker | four stores, partial failure, crash, late webhooks, janitor without the lock | `RoomLifecycle`, `RoomSession` |
| Room lock (`services/redis/lock.go`, `models/room.go`) | one Redis key per room id | SetNX with TTL, release by value, waits with back-off | TTL under a working holder, dead holder | in `RoomLifecycle` and `AnalyticsExport` |
| NATS room cache (`services/nats/nats_cache*.go`, `room_modify.go`, `room_info.go`) | per server a copy of the bucket, its watcher | watch, put and set, deliver, clean | own sets against the watcher, cleanup by room id | `NatsRoomCache` |
| Presence and joining (`models/nats_user_connection.go`, `janitor_user.go`, `user_join.go`, `webhook_user.go`) | user status and its copies, consumer | join token, connect, ping, disconnect, delayed offline tasks, ping deadline | grace periods across replicas, late events, stale copies | `UserPresence` |
| Room and user settings (`models/room_features.go`, `room_waiting.go`, `user_lock.go`, `user_presenter.go`, `user_join.go`, handlers of insights and SIP) | metadata of the room and of its users, ingresses, dispatch rules | some twenty changes of the metadata, switch of the presenter, lock all, join | whole metadata read and put back around calls | `RoomRequests` |
| Breakout rooms and room duration (`models/bkroom_*.go`, `room_duration.go`) | a hash and the duration checker in Redis, a flag and durations in metadata | create, increase, end one or all, the hooks of a room's start and end, the checker | four places, ends at the same time, unsigned arithmetic | `BreakoutRooms` |
| Recorder tasks (`models/recording_dispatch.go`, `recording_end.go`, `recording_modify.go`, `recording.go`) | active tasks in the row and the metadata, a lock per task | start, stop, end of session, events of recorders | lock TTL and answers against posts | `RecorderTasks` |
| Recordings (`models/recording_modify.go`, `recording_delete.go`, `janitor_recording.go`) | rows, files, backups, the merge lock | add, update, delete, merge, sweep | read-modify-write against deletion, a lock of 24 hours freed by name | `Recordings` |
| Analytics (`models/analytics*.go`) | Redis keys by room id, artifacts | record an event, export 50 s after a session | next session records under the same keys | `AnalyticsExport` |
| Webhook registration and notifier (`helpers/webhook_notifier.go`, `services/redis/webhook.go`) | a Redis hash field per room id, one worker per server | register, send, delete | read-modify-write in Redis, notifiers on demand, cleanup by publish | `WebhookRegistry` |
| Polls (`models/poll_*.go`, `services/redis/poll_*.go`) | five kinds of Redis keys | create, submit, close, clean up | double submission, cleanup against late writers | `Polls` |
| Files (`models/file_upload*.go`, `file_convert.go`, `file_download.go`) | parts, files, pages, the bucket's list of files | resumable upload, PDF export, base64 upload, three ways to convert a document | repeated posts, pool of commands, deadline of the handler and TTL of the lock | `FileUploads`, `WhiteboardConversion` |
| Janitor (`models/janitor*.go`) | a Redis lease | acquire, renew, run the tasks | tasks longer than the lease | `JanitorLeader`, the tasks in the modules of what they look after |
| Insights agents (`models/insights_agent.go`, `insights.go`, `services/insights/room_agent.go`) | per server a map of agents, a Redis lease for each; per agent users, subscriptions, pipelines | configure, end, supervise; activate, end, callbacks of tracks, shutdown | lost lease, two agents; callbacks against ends | `InsightsAgents`, `RoomAgent` |
| Transcription stream (`services/insights/task_transcription.go`, `insights/providers/openai/realtime*.go`) | seven goroutines and those of translations, two channels, four wait groups | one call of RunAudioStream | who closes what, who waits for whom | `TranscriptionStream`, `AudioTask` |
| Speech synthesis (`services/insights/task_transcription_synthesis.go`) | a worker for each language | create, speak, shut down | singleflight and wait group against shutdown | `SynthesisTask` |
| Meeting summaries (`services/insights/task_meeting_summarizing.go`, `models/janitor_insights.go`, providers) | a job, batches, artifacts | publish, start batch, collect | redelivery, crash, two leaders | `SummaryJobs` (on `JanitorLeader`) |
| Usage (`models/artifact_*.go`, `services/redis/insights_*.go`) | counters and conversations in Redis | count, meter, settle at the end | counters by room id and by user | `UsageArtifacts` |
| Other AI providers, TURN, LiveKit and SIP clients, controllers, configuration | none of their own | calls to other services, parsing, wiring | — | not modelled, or as calls that succeed or fail |

How they interact: CreateRoom and EndRoom drive everything else. CreateRoom
writes the row and the bucket (through the cache), registers the webhook and sends
`room_created`; the cleanup of EndRoom closes the row, ends the recorder's tasks,
deletes the duration, the uploads, the polls, the breakout rooms and the bucket, tells
the insights agents, settles the usage, and schedules the export of the analytics, at
the end of which the webhook is deleted. LiveKit's webhooks come
back through a pool of 100 workers (`controllers/webhook.go:66`) and therefore in any
order. The agent of a room runs one `RunAudioStream` for each track it listens to.

Correctness, by component: one running row per room id, buckets that belong to
the running row, one announcement per session and no session that comes back
(lifecycle); mutual exclusion (lock); copies that follow the bucket
and go with the room (cache); who is there is online in the end, and who is gone is not
(presence); no change is lost but to a change it overlaps (settings); hash, flag and
checker tell of the rooms that run (breakouts); row, metadata and recorder agree
(recorder tasks); no deleted recording comes back, one merge at a time (recordings); no
event exported twice or to a wrong session (analytics); no leaked worker (webhooks);
consistent tallies, one ballot per user (polls); listed files are whole (files); no
pipeline, agent or worker out of everybody's reach, and every shutdown ends (insights);
usage in exactly one place (usage), one summary for a meeting (summaries).

## Modules

### RoomLifecycle

One room id. `Proc` are handler goroutines on any replica; `pc[p]` is the next
call a handler makes and `my[p]` its local variables, so that handlers
interleave exactly at their calls. The stores are `lock`, `rows`, `bucket`,
`media` (LiveKit), `hooks` (webhooks sent and not handled: a set, since they are
handled in any order) and `duration`.

Handlers do not read the bucket: `GetRoomInfo` (`nats/room_info.go:13`) answers from the
replica's own copy while it has one with a table id that is not ended. `copies` is what a copy
can hold, of any session the room id ever had, since a copy may outlive its session
(`cache_zombie`). A read (`GetRoomInfo`) gives the bucket or, always and for nothing, a copy of its session that is
late with the status (`Current`); or, at most `MaxMisreads` times, the copy of *another* session, one that is not
filled yet, or a bucket of which a key could not be read (`Misread`). `my[p].misread` tells that this handler's
own read was of that kind, or failed: the properties excuse that handler and nobody else.

| Code | Actions |
|---|---|
| `CreateRoom`, `handleExistingRoom`, `prepareRoomDbInfo`, `AddRoom` | `CreateLock`, `CreateReadDb`, `CreateReadNats`, `CreateReactivate`, `CreateSave`, `CreateBucket`, `CreatePut` (once per key, in any order), `CreateUnlock`; `CreateFails` for the calls that may fail |
| `EndRoom` | `EndRequest`, `EndWait`, `EndLock`, `EndReadNats`, `EndReadDb`, `EndNothing` |
| `onAfterRoomEnded` | `TriggerEnd`, `SendSessionEnded`, `MarkEnded`, `EndMedia`, `CloseRows`, `DeleteDuration`, `DeleteBucket`, `CleanupUnlock`; `CleanupFails` for each call whose error is logged and gone over |
| `roomStarted` / `roomFinished` | `StartedRead`, `StartedKill`, `StartedActivate`, `StartedDuration` / `FinishedRead`, `FinishedMark`; `WebhookFails` |
| `activeRoomChecker`, `checkRoomWithDuration` | `JanitorRead`, `JanitorCheck`, `JanitorClose`, `JanitorDuration` |
| LiveKit, Redis TTL, a replica that dies | `MediaStart`, `MediaEmpty`, `LockExpires`, `Crash` |

A running goroutine of a dead replica is `"crashed"`: it does nothing more, and
its lock goes when its TTL does. (An unlock that fails leaves the lock just so.) `phase` is history, only told and never read by
a handler: how far each session got.

### RoomSession and AudioTask

Two abstract specifications. `RoomSession` is what the lifecycle promises: sessions one
after another, each opened, announced as ended once, closed for good, and an announced
one is closed. `RoomLifecycle` implements it without janitor and faults
(`ImplementsRoomSession`, with `phase` as the mapping), and `AnalyticsExport` and
`WebhookRegistry` use it for the sessions around them. `AudioTask` is what a room agent
may rely on when it runs a task on a track: the call fails at once or runs, and the
user's usage session it opens is closed when it returns and not opened again.
`TranscriptionStream` implements it (`ImplementsAudioTask`), and the states of a run in
`RoomAgent` are its phases.

### NatsRoomCache

Every server's copy of the bucket. A value is named by the put it came from
(bucket, revision), so that "newer", "of an older session" and "the ended status" can be
said of it without its text. The copies of `roomsInfoStore` are numbered: which
of them a server has is `store`, their channels (`closes`) and their `watcher` live
on after they were dropped, as the goroutines do. Watchers deliver late, may skip what
was overwritten in between (the bucket has no history) and notice the closed
channel whenever `select` picks it. `AddRoom`, `UpdateRoomStatus(ended)` and
`DeleteRoom` are one process, which the room lock makes of them; they run on
any server.

### UserPresence

One user of a room that goes on. Every server has a copy of the status. The copy keeps
one `LastRevision` for all fields of a user, so what the server puts itself, be it the status
(`PutStatus`) or the time of a ping (`PutOther`), makes it ignore every put of another server
that its watcher has not delivered yet (`behind`). Handlers act on the copy (`Seen`), as
`GetRoomUserStatus` does.

| Code | Actions |
|---|---|
| `OnAfterUserJoined`, of CONNECT and of `HandleClientPing` | `UserConnected`, `HandleClientPing`, `JoinOnline`, `StorePing` |
| `OnAfterUserDisconnected`, of DISCONNECT and of `ensureUserIsOffline` | `UserDisconnected`, `ParticipantLeft`, `LeavePut`, `LeaveSpawn` |
| `handleDelayedOfflineTasks`, `waitForReconnect` | `Reconnected`, `WaitIsOver` (both stages), `TaskOffline`, `TaskDeleteConsumer` |
| `GetPNMJoinToken` / the auth callout | `AddUser` / `Connect` |
| `checkOnlineUsersStatus` of the leader | `JanitorFinds`, `JanitorOffline` |
| the browser, a replica that dies and starts again | `Connect`, `Disconnect`, `SendPing`, `PingAges`, `Crash` |

`join` and `leave` are the singleflight groups: a second caller on the same server waits
for the first and does nothing. A put and the update of the server's own copy are one
step, and so are the two puts of `UpdateUserStatus`. The 8 seconds of `ensureUserIsOffline`
are left out, since LiveKit may lose a user at any time; so are internal users (agents,
SIP, recorder), the participant counter of the row and the messages. The room does not end.

### RoomRequests

Every request that changes the room's metadata is one definition (`UpdateExternalMedia`,
`EnableRoomSipDialIn`, `CreateIngress`, ...), a record of the feature it changes, of what it calls on the
way (LiveKit, SIP, the insights agents) and whether before or after its read; the steps
`CallFirst`, `ReadRoom`, `CallOut`, `PutRoom` and the failures are shared. A field of the metadata
holds the request that set it last, so that a lost change shows. Requests about a user (`RaisedHand`, `LockUser`, ...)
do the same with `ReadUser` and `PutUser`; `Promote` and `Demote` (`SwitchPresenter`) put the flag and then
the metadata of the new presenter and of each old one (`SwitchStart`, `PutFlag`, `ReadPresenter`, `PutPresenter`);
`LockAll` changes the default and then everybody; `Join` assigns presenter and locks (`JoinRead`, `JoinAssign`, `JoinAdd`).
Reads are answered from the server's copy, which may lag: `pastMeta` and `pastMember` are what was put before (`CopiesLag`), and `Seen`,
`SeenOf` what a read may give. Every read, call and put may fail (`RoomReadFails`, `CallFails`, `RoomPutFails`, `UserFails`, `LockSkips`, `SwitchFails`, `JoinFails`).
`disturbed` is history: the objects that two requests had at once, that one left half
changed, or that one put back from a copy that lagged. The properties excuse exactly those, which says that these are the *only* ways
to lose a change.

### BreakoutRooms

The rooms of one parent, each `off`, `created`, `running` or `ending`; the hash of records, the
parent's flag, the duration checker and the durations in the rooms' metadata. `CreateBreakoutRooms` .. `CreateEnds`,
`IncreaseBreakoutRoomDuration` with `GetRoomDurationInfo`, `Compare` and the three writes, `EndBreakoutRoom` and
`EndAllBreakoutRoomsByParentRoomId` with `EndOne`, `DeleteBreakoutRoom`, `CountBreakoutRooms`, `DeleteAll`, `DropFlag`; the
hook of `room_started` (`RoomStarted` .. `PutStarted`); `checkRoomWithDuration`; `PostTaskAfterRoomEnd`. Subtraction is
that of `uint64`, with `Huge` for 2^64: a room over its time has a huge rest. Time is in seconds, durations in minutes of `PerMinute` seconds, and what is left is cut to
whole minutes (`Seconds`, `Left`, `Longest`), as `room_duration.go:130` and `:188` do.
Steps that fail are `CreateFails`, `InsertFails` (a room that runs and is not in the hash), `FlagFails`, `StartStepFails`, `IncreaseFails`, `IncreaseStays` (Redis has the increase
and the metadata do not), `EndOneFails`, `DeleteFails`, `BooksFail`, `KeyStays` and `PostTaskFails` (the metadata or the ids cannot be read: no breakout room is ended);
`OtherRequest` is a setting of `RoomRequests` that puts older metadata back.
`mixed` is history of the kinds of work that overlapped with an end, `"twice"` for two changes of one duration, and of what a step that failed may have
spoilt: `"fault"` which rooms there are, `"books"` what hash and flag tell of them, `"clock"` what is told of their durations.

### RecorderTasks and Recordings

`RecorderTasks`: start and stop of recording and RTMP through the lock, the row and the metadata; the end of the session;
what recorders post (`PostStarted`, `PostEnded`), with recorders that answer late, before or after their post, or
die. Row and metadata are each written or not (`SetRow`, `RowFails`; `ReadMeta`, `PutFlag`, `MetaFails`), a post is dropped when the room cannot be read (`PostDropped`), a setting puts back older metadata (`OtherRequest`, with
`past`), and the lock of a start expires under it (`LockExpires`). `tangled` is history: the tasks of which an event was lost, half written or handled beside another, or that two recorders had; `expired` those whose lock ran out. `Recordings`: the rows and files afterwards. `AskUpdate`/`Save`; `AskDelete` with the hook, the backup (rename and `Chtimes`) or removal,
and the row; `AskMerge`, `TryLock`, `Publish` (whose acknowledgement may be lost, and whose message id JetStream remembers for two minutes),
`Transcode`, `TranscodingFinished`; `OtherFinished`, the same event of a job that is no merge; `Crash` of the server; the janitor's sweep. A deletion of the
lock may fail, and its error is discarded (`LeaveLock`); `astray` is history: the lock was left without a task, a task lost its lock to another job. Recorder, transcoder and JetStream's window are external.

### AnalyticsExport

Events are put under keys that carry the room id only. The exporter of a session
takes the room lock, checks that no other session exists, lists and reads the
keys, deletes them and stores the artifact (the order of the code: the deletion
comes first). Replicas die, the lock's TTL runs out, the NATS read of the check may
fail; a failed read lets the export go on, as the code does. `MaxMishaps` bounds all of these
together.

### WebhookRegistry

The registration in Redis, and per server a cached notifier with the URLs it was
created for and a worker goroutine. A task is one call of the notifier
(`room_created`, `room_started`, `room_finished`, `session_ended`, `delete`) on behalf of
a session, on some server. `swept` and `lost` are history.

### Polls

The Redis keys of the polls of one room id, each command an action, since the
commands given to the `tx` of `WATCH` are sent one by one (go-redis queues only
what is given to `TxPipelined`). Users submit from several tabs; the cleanup of the
session reads the ids and deletes everything in one pipeline. A session's requests
end with the cleanup, those that began before it go on.

### FileUploads and WhiteboardConversion

`FileUploads`: `CheckPart`, `PostPart`, `RemovePart`, `SavePart`, `UploadedFileMerge` with `Create`, one `CopyPart` for each part, `CleanParts`;
the slices of a PDF export and `BuildPdf`; the base64 upload; `CheckFile` and `ListFile`. A post that fails leaves a part `cut`;
the client posts again whatever it heard. `WhiteboardConversion`: the handler and the goroutine of a request side by side, the pool with
its workers (`DrawStart`, `DrawRange`, `DrawFails`, `DrawKilled`), `EarlyError`, the count of pages, the meta files and the list; the lock
with its TTL, which the API's requests take and the client's do not. In both, the room may end under the request. Storage hooks are left out.

### JanitorLeader and SummaryJobs

`JanitorLeader` is the election: take the lease, run tasks and renew in one loop, step down, expire, restart.
`SummaryJobs` extends it by the one task that creates something: from the agent's job (`doRoomSummarizing`) through the queue
(`Deliver`, `Ack`, `AckWaitEnds`), the batch (`StartBatchSummarizeAudioFile`; Google runs it, for OpenAI a goroutine of the server does and dies with it) and
its registration, to `CheckInsightsPendingSummarizeJobs` with the artifacts and the cleanup.

### InsightsAgents, RoomAgent, TranscriptionStream, SynthesisTask

`InsightsAgents`: a request is a message that every server handles in order; who takes the Redis lock after its jitter joins the room and starts
a supervisor. Servers restart, the lock expires under a holder, a refresh fails. `RoomAgent`: one agent; `UpdateAllowedUsers`,
`ActivateTaskForUser`, `EndTasksForUser`, the callbacks of published, subscribed and ended tracks, runs of a task, and the shutdown, each cut at the
agent's lock. `TranscriptionStream`: one call of `RunAudioStream`: its seven goroutines and the translations, with the two channels `wsWriteChan` and `results` at
capacity 2, the mutex of the queue, the wait groups, the contexts (`pipeline`, `task`, `stream`) and the socket. `SynthesisTask`: creation of a worker through singleflight by the
task's loop and by the subscription's callback, with the shutdown at any moment.

### UsageArtifacts

Counters by room id, what counts them, and the end of a session that takes them: in one transaction (`metered`), or in two steps (`chat`, `history`). The
meter of a user's transcription is `SessionStarted`, `ReadStart`, `DeleteStart`, `CountDuration`, over a clock; each of them may fail
(`SessionStartedFails`, `ReadStartFails`, `DeleteStartFails`, `DurationIsNotCounted`), keys expire after a day (`StartExpires`, `CounterExpires`), a count may fail (`TextIsNotCounted`), the answer of `TakeUsage` may
be lost with the key deleted, an artifact may not be created, and a server may stop in the middle of an end (`EndStops`). `lost` is what the failing steps had in their hands. `course` tells what a user's start in Redis
is worth: `"alone"` of the task at work, `"left"` there by a task that could not read or delete it, `"mixed"` once tasks overlapped or one found such a start.

## Runs

`MCRoomLifecycle` and `MCUserPresence` only define symmetry sets. The other four `MC` modules
each check several components in one run: `active` says which one a behaviour follows, chosen by the
initial state. The components of a module share no state, with one exception: `RoomRequests`, `BreakoutRooms` and `RecorderTasks` put back the
same whole metadata of a room. What a request of another component does to these is therefore a step of each (`OtherRequest`, which puts back an older flag or duration at any moment; in
`RoomRequests` any request on the metadata is one of many), in place of a product that TLC could not finish. They take their variables from one set of cells `c1`, `c2`, ...
(a state costs TLC by its variables), and the cells the active one does not need stay empty.
A property of such a module joins those of a component, or says `active = ... =>` one of them.
Deadlock is not checked anywhere: each model has bounded stimuli and stops when they are used up.

| Run | Shows |
|---|---|
| `lifecycle_safe` | two handlers, three requests or joins, two sessions, all stimuli; one crash, one failed call and one misread room info, at any steps: types; mutual exclusion; the cleanup acts on the session that was read, except in the handler that misread; CreateRoom answers with what the bucket holds, with a sid unless a creation was cut short; one running row; and `SessionTakesItsCourse`: half-written buckets come only of creations that were cut short, what was read under the lock still holds, one `session_ended` per session if no end was cut short or misled, a closed session stays closed |
| `lifecycle_session` | no janitor, no faults, copies late with the status only: row and bucket agree whenever the lock is free, and the sessions follow `RoomSession` including its fairness |
| `lifecycle_live` | a crash, a failed call, a misread room info: the lock is freed, an orphan row is completed or closed |
| `presence_live` | two servers, three stimuli (token, connections, lost users, crashes): who stays connected is online in the end, who is gone is not, delayed tasks end |
| `session_data` | cache: each copy has its watcher, no channel is closed twice, no goroutine leaks, no key of a copy goes back; webhooks: no worker leaks or is killed while cached; polls: the keys agree, no vote after a successful one |
| `room_services` | requests: a change is lost only to one it overlaps, one left half done or one put back from a copy that lags, flags agree, one switch keeps a presenter; breakouts: hash, flag and checker tell of the rooms that run, and the parent takes them along, but for the overlaps and failures that each property names; recorder tasks: one start at a time while the lock lasts, row, metadata and recorder agree over every task that is not `tangled`; recordings: the merge lock has one task unless it was left or taken away; no step brings back a deleted recording or gives a breakout room a minute more than its parent |
| `artifacts` | uploads and conversions: what is listed is whole, the conversion lock has somebody who frees it; usage: what was counted is in one place or was lost with a step that failed, nobody is billed beyond the time used unless a start was left behind; summaries: a meeting ends with a summary or a reason, and gets one only |
| `background_live` | the stream closes its results last, commits only queued audio, implements `AudioTask` and returns when cancelled; runs of an agent stay within reach and a shutdown stops them; agents in the room stay within reach and two become one; a synthesis agent always has somebody to take it out; exports take no event twice, spare the open session, and end |
| `janitor_create_race` | **violated**: the janitor closes the row of a creation under way |
| `polls_twice` | **violated**: two ballots of one user |
| `cache_zombie` | **violated**: a server goes on answering for an ended room |
| `presence_consumer` | **violated**: the consumer of a user who is online is deleted |

**Bounds.** Two sessions are enough for one to be mistaken for the other; two
rows for two running ones; two servers for one to be behind. Two handlers can
stand at any two calls at once, which is what a race needs; each serves one request (in
`RoomLifecycle`, several in turn). In particular:

* `RoomLifecycle`: requests are bounded because every creation and end
  could be repeated for ever; with four, a session can be created, joined, ended and
  followed by another one while all its webhooks are still under way. `lifecycle_safe` has three, since its janitor and `room_finished` end sessions without a request.
  One crash, one failure and one misread (`MaxCrashes`, `MaxFailures`, `MaxMisreads`) meet in one behaviour: each takes one handler off its
  course, and what is checked is what the others then meet; the theorems have no such bound.
* `NatsRoomCache`: `Added` bounds the keys AddRoom puts one by one: in `cache_zombie` to the
  two whose order matters (`id`, without which a copy does not answer, and `status`), in
  `session_data` to `id` and the metadata, the key that is put more than once; the status is
  put later, when the room ends. One handler and two copies (successive on a server or one on each).
* `WebhookRegistry`: three of the five calls, two at a time. `Polls`: one poll, two users, three submissions, two options.
* `UserPresence`: `MaxStimuli = 3` is a token, a connection and one of: a second connection,
  a crash, a user lost by LiveKit, a new token. `MaxBusy` lets a join and
  a leave overlap; with `MaxBehind = 1` a put waits for a watcher that is one put behind,
  which bounds how late a copy is and not that it may miss a put.
* `BreakoutRooms`: two rooms, two requests and the webhooks of both, two workers at once (`MaxBusy`), time up to 3 seconds, minutes of 2 seconds (`PerMinute`, so that a minute can be cut in two), a parent without a limit or one of 2 minutes, rooms of 1 minute and increases of 1; `Huge = 1000` is far above these times. `Focus` (a
  constraint of `room_services`) leaves out states in which overlaps or faults of one kind are combined with those of another that the
  properties excuse anyway: under a parent without a limit two rooms are created, started and ended, without increases and with no failure but that of a start; under one with a limit one room at a time is, and
  one kind of overlap or of failure in a behaviour.
* `RoomRequests`: three users, two of them admins, two requests at a time out of all of them; what a third would add is a second overlap (one such case, two joins of a user during a switch, is told under Proofs). `RecorderTasks`: both tasks, two recorder
  jobs, two workers that serve one request or post after another; things go wrong (`Focus`) with the recording only, be it its lock or what is written. `Recordings`: two recordings and the ones two merges make, one database error.
* `FileUploads`: two uploads of two parts, with the same name or not. `WhiteboardConversion`: two requests, documents of two ranges, a pool of two.
  `UsageArtifacts`: one unit of each kind, one end, two tasks of one user over three seconds; a request to the AI chat, which shares only the end with them, is followed while these were not mixed up (`Focus` of `MCArtifacts`). `SummaryJobs`: two servers, two deliveries, two
  terms of the lease and one kind of mishap (a crash, a lost lease, a failure) in a behaviour, as often as it likes.
* `TranscriptionStream`: channels of two places, so that both can be full; `RoomAgent`: one user whose microphone is published twice, two runs: what
  two users share is the lock only. `InsightsAgents`: two servers, three requests, two agents, one fault. `SynthesisTask`: two workers, three texts,
  a queue of one. `AnalyticsExport`: two sessions, two keys, one mishap.

**Fairness.** `RoomLifecycle`: a handler that has begun makes its next call
(goroutines are scheduled, every client call has a deadline), the janitor's ticker
fires again, and the lock of a dead holder expires (Redis). Nothing is assumed of
API requests, LiveKit or webhooks, nor of failures, which are optional
disjuncts. `AnalyticsExport`: exporters make their next call and a dead one's lock
expires. `UserPresence`: handlers, delayed tasks and watchers take their next step, the
janitor's ticker fires, and a client that is connected pings (the janitor's ping deadline rests on it).
Pings come by a consumer that all replicas share; strong fairness of
`HandleClientPing` on every server says that each of them gets some of the pings of a user
who goes on pinging. `TranscriptionStream`: weak fairness for each goroutine of what it can do by itself; nothing is assumed of
the provider, which may send or close or do neither. `RoomAgent`: runs start, return when cancelled, and the shutdown goes on; callbacks of LiveKit may never come.
`InsightsAgents`: a server's handler takes the next message, supervisors tick, a lock that is not renewed expires, and a room that an
agent leaves is told. The other modules state safety only.

**Mutants and variants.** Operators commented *Variant with a bug* are plausible slips in the
code next to them (a dropped guard, a missing delete, SET for SETNX); each property of
a passing run is violated when one of them takes the place of its original. Where a run's property joins several, the modules keep
a variant for each part, and each of them violates the joined property as well.

## What the models say about the code

Four disagreements between a comment and what the code does are runs:

1. `janitor_room.go:40` skips rows with an empty sid because "may be the session is
   creating", but `prepareRoomDbInfo` has stored the sid by then: between the row and the
   bucket, a creation's row is closed under it.
2. `nats_user_connection.go:163` says that the consumer of a user who reconnected is not
   deleted, but the last look of the second wait is up to 5 seconds old (and a LiveKit
   call follows) when `DeleteConsumer` is called: a user who comes back in between is
   online without the consumer that room events arrive by.
3. `poll_create.go:61-75` takes the commands for queued; they are sent at once and
   the watched key is never compared, so two tabs of a user are both counted.
4. `nats_cache_room.go:21` compares one revision for all keys of a room. A server that
   puts the metadata at a higher revision ignores the ended status it had not been told
   of, keeps the copy for good, and ignores the next session's puts, which begin at 1.

More were met, and are stated at the end of their modules (commented *Refuted*), without a run of their
own; a cfg with two processes and one or two sessions shows each in seconds:

| Definition | What happens |
|---|---|
| `RoomLifecycle!OneCleanupAtATime` | the 20-second lock of EndRoom runs out while the cleanup works (needs `MaxExpiries = 1`) |
| `RoomLifecycle!FinishedEndsItsOwnSession`, `EndedIsFinal`, `DurationForgotten` | a late `room_finished` ends whatever session has the room id; a late `room_started` sets the status back to active, or stores the duration after the cleanup deleted it |
| `RoomLifecycle!AnswerHasItsSid` | a creation that was cut short inside AddRoom left a bucket with an id and no sid, and the next CreateRoom answers with an empty one (needs a crash or a failure) |
| `RoomLifecycle!NeverAnnouncedAgain` | an EndRoom that is answered from the copy of a session long ended announces it again and deletes the next one's bucket; an end that was cut short is announced again by the next (needs a misread, a crash or a failure) |
| `AnalyticsExport!DeletesOnlyItsOwn` | two sessions that end within 50 seconds share one export |
| `WebhookRegistry!RegistrationSurvives`, `CleanedUpForGood` | DeleteWebhook takes the next session's registration; a notifier is cached after the cleanup |
| `Polls!PollsCleanedUp` | a submission or a close under way recreates its keys after the cleanup |
| `UserPresence!GoneIsNotOnline` with `OthersOnline = TRUE` | `GetOnlineUsersId` asks the bucket only when the leader's copy names nobody, so that a user whom it missed going online is not looked at as long as somebody else is online |
| `RoomRequests!NeverWithoutPresenter`, `OneIngress` | two switches at once leave nobody presenter (`user_presenter.go:36` guarantees the opposite); two requests create two ingresses, of which the metadata name one |
| `RoomAgent!EndedTaskIsOff` | a pipeline is made after its user's task was ended, by an activation or a callback that had begun |
| `TranscriptionStream!EndsWithItsReader` | when the provider closes the connection the reader ends and the task does not, until its pipeline is cancelled |
| `InsightsAgents!EndAllCloses` | the message that ends all agents of a room does not carry the room (`insights.go:195`) and closes none; they end when LiveKit disconnects them |
| `SynthesisTask!NoAddAfterWait`, `OneWorkerEach` | the check of `shuttingDown` and `wg.Add` are two steps; a caller that looked before the flight stored its worker begins another flight after it |
| `SummaryJobs!SafeIfLeaderChanges` | a leader whose task outlives its lease and the next one both collect a batch: two summaries (`janitor.go:156` says that the tasks are safe) |
| `UsageArtifacts!ChatUsageIsAccounted` | what is counted between the reading of the usage and the cleanup of its key is lost |
| `FileUploads!NothingLeftBehind` | a post or merge under way creates the room's directory again after it was removed |
| `WhiteboardConversion!OneConversion` | the lock of 5 minutes expires under a conversion, which may take longer; a client's conversion takes none |

Weaknesses that the modules show and that no property states: a breakout room that is
started, updated or given time while it is ended is written back to the hash; a breakout
room whose EndRoom fails is forgotten all the same. Once a parent is over its time any increase fits. What a breakout room and its parent have left is cut to
whole minutes, so that an increase can reach past the parent's end by less than a minute (TLC refutes the bound without that minute); a creation takes the duration from the moment of the request and the room starts later, so that its first duration is not
bounded by the parent's end at all. A breakout room whose record could not be stored (`bkroom_create.go:96`) runs on after its parent, and so do all of them when the metadata of a parent that ends cannot be read (`bkroom_end.go:128`). Two requests on two replicas, one after the other, lose the
first change when the second replica's copy lags. The event of an ordinary recording's job frees the lock of a merge (`recording.go:90`), and a deletion of that lock that fails keeps it for its 24 hours. A start of a transcription that could not be deleted in Redis is billed again
by the task that ends next. A user who joins while
everybody is being locked misses the lock. A START or END event of a recorder that comes late is applied to the room's next session
(`recording_modify.go:42`). A merge whose acknowledgement was lost can be published again after the two minutes of
JetStream's window. Between the rename of a recording and its `Chtimes` the backup is as old as the recording, and the sweep may take it.
A second file of the same name replaces the one the list already shows. A directory whose file cannot be listed stays. Usage that
arrives after a session's end is billed to the next session; overlapping tasks of one user lose or double time. The
OpenAI batch of a server that died stays "running" for good. A writer of the transcription stream that first runs after the queue was closed waits for ever (`TaskReturns` excuses it).

## Proofs

TLAPS proves, for every set of processes, sessions, servers, users, keys and jobs and every
value of the bounds:

| Module | Theorem | Says | Rests on |
|---|---|---|---|
| `RoomLifecycleProofs` | `TypeCorrect` | `[]TypeOK` | the assumptions on the constants |
| | `LockExcludes` | `[]LockProtects` | `TypeOK` |
| | `OneRunningRow` | `[]AtMostOneRunningRow` | the lock and `ReadsStillHold` |
| | `CleanupIsAimed` | `[]CleanupTargetsItsSession` | the lock and the bucket while it is written |
| | `AnswersAreLive` | `[]AnswerIsLive` | the lock and `BucketIsWhole` |
| | `SessionsTakeTheirCourse` | `[]SessionTakesItsCourse` | the above and `Course` |
| | `StoresFollowEachOther` | `[]StoresAgree` | the lock and `StoresFollow` |
| | `SessionsFollowOneAnother` | without janitor, faults and copies of other sessions `RoomLifecycle` implements the safety part of `RoomSession` | `Course`, `StoresFollow`, `SessionsAreKept` |
| `NatsRoomCacheProofs` | `CacheTypeCorrect` | `[]CacheTypeOK` | `Shape`: the puts that handlers and watchers refer to exist |
| | `CopiesAreWatched`, `ChannelsClosedOnce`, `NoWatcherLeft` | `[]CopyIsWatched`, `[]ClosedOnce`, `[]NoWatcherLeaks` | `Shape` and `CopyInv` |
| | `KeysNeverGoBack` | `NeverBackwards` | `Shape` and `InfosOK` |
| `RoomServicesProofs` | `ChangesAlwaysStick` | `[]ChangesStick` | `RequestsInvariant` |
| | `TasksAlwaysAgree` | `[]TasksAgree` | `TasksInvariant` |
| | `OneMergeAlwaysHoldsTheLock` | `[]OneMergeHoldsTheLock` | `RecordingsInvariant` |
| | `RecordingsStayDeleted` | the recordings' half of `StepsStayInBounds` | `RecordingsInvariant` |
| `BreakoutRoomsProofs` | `BreakoutsAlwaysFollow` | `[]BreakoutsFollowParent` | `BreakoutInvariant` |
| | `StepsAlwaysStayInBounds` | `StepsStayInBounds` | `BreakoutInvariant`, `RecordingsStayDeleted` |
| | `ServicesTypesCorrect` | `[]TypesOK` of `MCRoomServices` | the four invariants of its components |
| `UserPresenceProofs` | `PresenceTypesCorrect` | `[]PresenceTypeOK` | `PresenceAssumption` |
| `SessionDataProofs` | `WorkersAlwaysOwned` | `[]NotifiersOwnWorkers` | `RegistryInvariant` |
| | `VotesAlwaysCounted` | `[]VotesAreCounted` | `PollsInvariant` |
| | `DataTypesCorrect` | `[]TypesOK` of `MCSessionData` | these and `CacheTypeCorrect` |
| `BackgroundProofs` | `StreamsKeepOrder` | `[]StreamKeepsOrder` | `StreamInvariant` |
| | `StreamsAreAudioTasks` | `ImplementsAudioTask`: a stream implements `AudioTask` | `StreamInvariant` |
| | `RunsStayReachable` | `[]RunIsReachable` | `AgentInvariant` |
| | `AgentsStayReachable` | `[]AgentsAreReachable` | `AgentsInvariant` |
| | `AgentsStayOwned` | `[]AgentsAreOwned` | `SynthesisInvariant` |
| | `EventsAreExportedOnce`, `ExportsSpareSessions` | `[]NoEventTwice`, `ExportSparesOpenSession` | `ExportInvariant` |
| | `BackgroundTypesCorrect` | `[]TypesOK` of `MCBackground` | the five invariants |
| `ArtifactsProofs` | `FilesAreAlwaysInOrder` | `[]FilesAreInOrder` | `UploadsInvariant`, `ConvertInvariant` |
| | `UsageIsAlwaysRight` | `[]UsageIsRight` | `UsageInvariant` |
| | `SummariesAreAlwaysRight` | `[]SummariesAreRight` | `SummaryInvariant` |
| | `ArtifactTypesCorrect` | `[]TypesOK` of `MCArtifacts` | the four invariants |

The theorems are about the specifications the runs check, so that a theorem and a run state the
same formula. The only assumptions are those named in the modules that declare the
constants: those of `RoomLifecycle` and `NatsRoomCache` (`ConstantsAssumption`, `CacheAssumption`);
that a marker such as `None` or `"room"` is no session, server, worker or user
(`ServicesAssumption`, `NotifierAssumption`, `LockAssumption`); that there are users and servers
(`SomebodyAssumption`), that a channel has a place (`QueueAssumption`), and that
bounds are natural numbers (`BoundsAssumption`; in `ArtifactsAssumption` also that an upload has a part); that the janitor's leader is a server (`PresenceAssumption`);
and that the parent is none of its breakout rooms, and times are below `Huge`, where the difference of two `uint64` wraps around (`BreakoutsAssumption`). A bound such as `MaxErrors` or `MaxAgents`
is a parameter of the theorems as well, not a number that was chosen.

**The argument for the room lock.** `LockProtects` says that whoever is between SetNX and
the unlock script owns the key, as long as no TTL ran out under its holder. It is
inductive together with `TypeOK`: only `TakeLock` enters the locked steps, and the
script deletes only the caller's own value. What a handler reads (`GetRoomInfo`) is the id and sid of the bucket, or the
read is noted as misread; either way it changes nothing. Everything else is proved on top of it,
since a step of another process that is not locked can do little: the lemmas about
*fading* actions say exactly what webhooks, the janitor and LiveKit may change (they
close rows, touch the status, never add a row or change an id or sid).
`AtMostOneRunningRow` needs to know that a creation that is about to save read all
running rows (`ReadsStillHold`), and `CleanupTargetsItsSession`
and `AnswerIsLive` need what is true of the bucket in the middle of AddRoom
(`BucketIsWhole`), whose parts about the lock's holder hold through crashes and failures, when that a bucket is whole does not.

**The course of a session.** `EndedOnce` and `ClosedStaysClosed` say where a session must not be
met; to keep them, `CourseIsKept` says where it still can be: AddRoom writes an open session, a cleanup
at the duration has closed every row, a session that was announced is in the stores only for the cleanup that announced it. `StoresAgree`
speaks of the moments when nobody holds the lock and nothing was cut short. `StoresFollow` adds what row and bucket hold in
between: only at the steps of `Writing` they differ, and in one way each. With
`SessionsAreKept` (an open session has its running row, an announced one its cleanup) each step
of the handlers is a step of `RoomSession` or leaves `phase` alone. `ImplementsRoomSession` as the
run checks it says more, namely fairness and that the whole behaviour is undisturbed; the theorem says it of each step up to
which nothing failed and no room info was another session's (`Undeceived`).

**The argument for the cache.** None of the three properties of copies is inductive:
a copy is watched only because its goroutine or its setting up is never taken from it,
and a channel is closed once only because what is in the store is open. `CopyInv` says all of
it at once: a process that sets up a goroutine has a copy of its own that has none yet
(`SettersOK`, `OneSetter`), a copy in the store is open and has either of them
(`StoredOK`), and a copy that has either is in the store or closed (`ServedOK`). One
lemma, `CopyStep`, covers every action but `WatchReserve`: it holds for any step that
drops at most one server's copy and closes its channel (`Touches`), however late that
cleanup comes. For `KeysNeverGoBack` the copy's revision must bound those of its keys.

**Requests.** Until two requests had an object at once or one put it back from a copy that lagged, at most one writes it (`Alone`), and what that one holds
is what the object still is (`RoomIsOwned`); the flag and the key of a user differ only while one switch stands
between them (`UserIsOwned`). `PresenterIsKept` needs more than one switch at a time:
a user who joins twice in parallel overwrites the presenter's key with the second
`AddUser`, a case that takes three handlers and that the proof found; `OneSwitch` names it.

**Recorder tasks and recordings.** `AirAgrees` speaks of the moments when no worker is busy.
`AirIsFollowed` says what row, metadata and recorders hold while a post is handled, task by task,
until the task is `tangled`: a second recorder was sent while the first still had it, two posts about it are handled at once, or one was dropped or not written; `MetaIsOwned` that the metadata a worker is
about to put are still what it read, until both tasks are.
That a recorder which was told to stop still has its task until it posts the end (`Had`) was missed with two
recorder jobs and shows with three. The merge lock has a holder with a task because a request that has not returned has none of its own
(`MergesAreFresh`), and one task only until another job freed the lock under one (`MergeIsCovered`, with `astray`); a lock that a crash or a failed deletion left behind is the only one without a task.

**Breakout rooms.** All of it is on condition of what overlapped, and the condition itself needs proof: `OverlapsAreMixed` says that every overlap
is in `mixed`. For that, a worker must keep to what it began (`WorkersKeepToRooms`): a cleanup runs exactly while its room is ending, a change of
a duration is about a breakout room, and a request that stores a record has read one. What the three properties say of quiet moments is then followed through the
steps, each part under the overlaps that would break it:

* `DurationsAreFollowed`: a room that runs has in the checker what its metadata grant, or one increase has added and not yet granted it; what that request found out before
  (`DurationHolds`) stays true because what is left of the room only gets less and the parent's limit does not shrink. `IncreaseFits` is a consequence at `UpdateRoomDuration`; the
  division by `PerMinute` is taken through lemmas that bound it from both sides, which is where the minute in its bound comes from.
* `EndsTakeAll`: a room that runs is in the hash or about to be inserted, so the parent's cleanup, which reads the hash once, still has it in its list (`ParentTakes`).
* `HashIsFollowed`: a record is of a room that runs, or is deleted by a step that is yet to come (`RecordHolds`); a worker that drops the flag has seen an empty hash, and
  only creations, which would be an overlap, could fill it (`HashHolds`, `FlagHolds`).

`BreakoutStep` first says of every action what it does to which room and worker, so that the five parts of the invariant are proved from these sentences and not from the
actions.

**Webhooks and polls.** A worker has an owner because a task on its way to the cache runs the worker it will cache or discard
(`TasksAreOnServers`); nothing is lost without a cleanup because every notifier that is cached or
used has its worker (`UsedOnesRun`). The keys of a poll agree when nothing is under way because each tells, at any
time, how many submissions are past its command (`KeysTellSteps`).

**What goes on in the background.** `EventsAreSpent`: an event that an export has stored or is about to is in Redis no more, as long as the lock
makes exports take turns. `AgentsAreAtHome` places each agent on one server, in one hand; without faults the lease is that of
the agent that lives (`LeaseIsOfTheAgent`), so there is one. In a stream the results are closed by the one goroutine that has waited for the reader and
the translations (`ClosedByCloser`), nothing is queued before the session is configured and nothing begins twice (`BegunInOrder`);
the `started` event is in the channel once and before the meter opens (`MeterFollows`), which is what `AudioTask` needs of it.

**The files a room leaves.** A listed upload is whole because every part that the client was told of stays saved until one request merges them
(`AnsweredIsSaved`, `MergesAlone`), and no other writes to its path meanwhile (`PathIsOwned`), all of it only while
nobody disputes the name. A page once drawn stays until the room's directory goes (`PagesAreDrawn`). A user's start in Redis is that of the one task at work, or was left there and the task has noted it
(`OneAtWork`, `StartIsRight`). Whatever crashes, a summary's job that is done has a batch that is registered or settled (`BatchesAreFollowed`), for a batch is forgotten
only when it has its outcome; and until something goes wrong the leader's lock alone keeps it to one summary: one server leads
(`OneLeads`), the job is handed out once (`JobIsHandedOutOnce`), and a batch that has its summary is registered only while the round that made it goes on (`SummaryIsLast`).

TLC checked every inductive invariant as an invariant before it was proved. Several were not inductive at first,
and what was missing is now a named part of them, next to the properties in the module of the component.

**Only model-checked**: `ImplementsRoomSession` with its fairness; of the invariants and action properties of the passing runs nothing else. **Out of the prover's
reach**: liveness (`LockIsFreed`, `OrphanRowReconciled`, `EndsInTheEnd`,
`ConnectedStaysOnline`, `GoneIsNotOnline`, `TasksEnd`, the fairness of `RoomSession`) and
anything with ENABLED. No module has a RECURSIVE operator.

## What is not modelled

Time: a TTL runs out at any moment (bounded in number), delays end at any moment; only
`BreakoutRooms` and `UsageArtifacts`, which compute with it, have a clock. The
text of metadata, tokens and messages. The database and NATS themselves: a call is
atomic and its answer arrives, or it fails where the model says so. Dropped Redis errors in AddPollResponse (a lost connection leaves a user marked and not counted) are left
out, and so are writes that fail while an upload is merged (`file_upload.go:314`, `:332`) and calls that fail before a handler has changed anything: it ends as if it had not begun. What a watcher of a deleted bucket receives
is the NATS client's affair; the model delivers what was put before the deletion, at
some time or never. The caches of users, files and recorders share the watcher and the cleanup of the room's; a user's is in
`UserPresence`, for the status alone.

Storage hooks (scripts an operator may configure for uploads, recordings and artifacts). The modes of a room agent that capture
everybody from the beginning; the audio itself, its encoding and its mixing. The Azure provider, whose streaming is in the vendor's SDK, and single requests to providers. Listing, downloading and
deleting artifacts: a row and a file, as in `Recordings`. TURN: credentials are computed or asked for on each request. The controllers of BigBlueButton and
LTI, which translate a request into calls that are modelled; parsing and validation everywhere. Configuration and wiring, which run once before anything
is concurrent.

## Plan

1. Proofs: every safety property of the passing runs has its theorem. Left are the implementation of an abstract lock (4) and what the *Refuted* definitions
   exclude, stated as theorems with the condition under which each holds.
2. The participant counter of the row, which joins and leaves of `UserPresence`
   count up and down, and the writes that fail in `FileUploads`.
3. The agent's mode that captures everybody (`RoomAgent`), and the composition of `RoomAgent` with `AudioTask` for each run.
4. An abstract lock with expiry that the room lock, `JanitorLeader` and the lease of `InsightsAgents` implement.
