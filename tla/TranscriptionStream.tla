------------------------ MODULE TranscriptionStream ------------------------
(***************************************************************************)
(* One call of TranscriptionTask.RunAudioStream with the OpenAI realtime   *)
(* provider: the goroutine that pipes audio, the one that handles results, *)
(* and the stream's own writer, reader, commit loop, translations and the  *)
(* goroutine that closes the results.  They share two channels, a mutex,   *)
(* four wait groups, three nested contexts and a websocket.                *)
(*                                                                         *)
(* Audio comes in chunks that are speech or silence; what they say, and    *)
(* what comes back as text, is left out.  The error of WriteSample is left *)
(* out too: with a session this provider returns none, so the count of     *)
(* consecutive errors stays at zero.                                       *)
(***************************************************************************)
EXTENDS Naturals, Sequences

CONSTANTS
    QueueSize,   \* places of wsWriteChan (500 in the code)
    ResultsSize, \* places of results (50 in the code)
    MinCommit,   \* transcriptionMinCommitSamples, in chunks
    MaxFinals    \* bound: final transcripts being translated at a time

VARIABLES
    pc,      \* where each goroutine is
    ctx,     \* the contexts that were cancelled themselves
    audio,   \* the channel of the transcoder is open
    sock,    \* the websocket
    closed,  \* the stream's atomic flag
    queue,   \* wsWriteChan: whether it is open, and its messages
    seg,     \* the segment that is being recorded
    unsaid,  \* history: chunks queued since the last commit, up to MinCommit
    res,     \* the results channel
    resOpen, \* it is open
    finals,  \* translations under way (eventWg)
    meter    \* the user's usage session in Redis

streamVars == <<pc, ctx, audio, sock, closed, queue, seg, unsaid, res, resOpen,
                finals, meter>>

Goroutine == {"task", "pipe", "handle", "write", "read", "commit", "close"}

StreamInit ==
    /\ pc = [g \in Goroutine |-> IF g = "task" THEN "dial" ELSE "none"]
    /\ ctx = {}
    /\ audio = TRUE
    /\ sock = "none"
    /\ closed = FALSE
    /\ queue = [open |-> TRUE, len |-> 0]
    /\ seg = [manual |-> TRUE, speech |-> FALSE, samples |-> 0, pending |-> 0]
    /\ unsaid = 0
    /\ res = <<>>
    /\ resOpen = TRUE
    /\ finals = 0
    /\ meter = "none"

(* A context is done when it or one it derives from was cancelled.         *)
StreamCtxDone == ctx \cap {"pipeline", "stream"} # {}
TaskCtxDone == ctx \cap {"pipeline", "task"} # {}

AtMost(n, bound) == IF n > bound THEN bound ELSE n

-----------------------------------------------------------------------------
(* The world outside.                                                      *)

(* The agent cancels the pipeline; NewTranscoder's goroutine then closes   *)
(* the audio channel, as does the end of the track.                        *)
CancelPipeline ==
    /\ "pipeline" \notin ctx
    /\ ctx' = ctx \cup {"pipeline"}
    /\ UNCHANGED <<pc, audio, sock, closed, queue, seg, unsaid, res, resOpen,
                   finals, meter>>

CloseAudio ==
    /\ audio
    /\ "pipeline" \in ctx
    /\ audio' = FALSE
    /\ UNCHANGED <<pc, ctx, sock, closed, queue, seg, unsaid, res, resOpen,
                   finals, meter>>

(* The provider hangs up.                                                  *)
PeerCloses ==
    /\ sock = "open"
    /\ sock' = "peer closed"
    /\ UNCHANGED <<pc, ctx, audio, closed, queue, seg, unsaid, res, resOpen,
                   finals, meter>>

-----------------------------------------------------------------------------
(* CreateTranscription, in the caller's goroutine.                         *)

(* Dial; the writer is started before anything is queued.                  *)
Dial ==
    /\ pc["task"] = "dial"
    /\ \/ /\ pc' = [pc EXCEPT !["task"] = "config", !["write"] = "start"]
          /\ sock' = "open"
          /\ UNCHANGED ctx
       \/ /\ pc' = [pc EXCEPT !["task"] = "failed"]
          /\ ctx' = ctx \cup {"stream"}
          /\ UNCHANGED sock
    /\ UNCHANGED <<audio, closed, queue, seg, unsaid, res, resOpen, finals, meter>>

(* The session's configuration is queued, or the select takes the context  *)
(* that is done: the socket is closed and nothing stops the writer.        *)
Configure ==
    /\ pc["task"] = "config"
    /\ \/ /\ queue' = [queue EXCEPT !.len = @ + 1]
          /\ \E manual \in BOOLEAN :
                /\ seg' = [seg EXCEPT !.manual = manual]
                /\ pc' = [pc EXCEPT !["task"] = "announce", !["read"] = "loop",
                                    !["commit"] = IF manual THEN "tick" ELSE "done"]
          /\ UNCHANGED <<ctx, sock>>
       \/ /\ StreamCtxDone
          /\ pc' = [pc EXCEPT !["task"] = "failed"]
          /\ sock' = "closed"
          /\ ctx' = ctx \cup {"stream"}
          /\ UNCHANGED <<queue, seg>>
    /\ UNCHANGED <<audio, closed, unsaid, res, resOpen, finals, meter>>

(* safeSend: the event is put when there is room, or dropped when the      *)
(* context is done; otherwise the sender waits.                            *)
SafeSend(event) ==
    \/ /\ Len(res) < ResultsSize
       /\ res' = Append(res, event)
    \/ /\ StreamCtxDone
       /\ UNCHANGED res

(* SessionStarted, then the goroutine that will close the results, then    *)
(* the two goroutines of RunAudioStream.                                   *)
Announce ==
    /\ pc["task"] = "announce"
    /\ SafeSend("started")
    /\ pc' = [pc EXCEPT !["task"] = "running", !["close"] = "write",
                        !["pipe"] = "loop", !["handle"] = "loop"]
    /\ UNCHANGED <<ctx, audio, sock, closed, queue, seg, unsaid, resOpen, finals,
                   meter>>

(* wg.Wait of RunAudioStream.                                              *)
TaskReturn ==
    /\ pc["task"] = "running"
    /\ pc["pipe"] = "done"
    /\ pc["handle"] = "done"
    /\ pc' = [pc EXCEPT !["task"] = "returned"]
    /\ UNCHANGED <<ctx, audio, sock, closed, queue, seg, unsaid, res, resOpen,
                   finals, meter>>

-----------------------------------------------------------------------------
(* The goroutine that pipes audio.                                         *)

(* queueWebSocketMessage, for n messages of one chunk, n at most 1: how     *)
(* many are queued.  It drops one when the queue is full, and may when the *)
(* context is done.                                                        *)
Offers(len, n) ==
    {k \in 0 .. n : /\ k < n => len = QueueSize \/ StreamCtxDone
                    /\ k > 0 => len < QueueSize}

Put(k) == queue' = [queue EXCEPT !.len = @ + k]
Record(s, k) ==
    /\ seg' = [s EXCEPT !.samples = AtMost(@ + k, MinCommit)]
    /\ unsaid' = AtMost(unsaid + k, MinCommit)

(* Speech begins a segment and sends what was kept from before it.         *)
WriteSpeech ==
    LET begun == IF seg.speech THEN seg
                 ELSE [seg EXCEPT !.speech = TRUE, !.samples = 0, !.pending = 0]
    IN \E k \in Offers(queue.len, seg.pending - begun.pending) :
         \E j \in Offers(queue.len + k, 1) :
            Put(k + j) /\ Record(begun, k + j)

(* Variant with a bug: a chunk counts whether or not it was queued.        *)
WriteSilenceCounted ==
    IF seg.speech
    THEN /\ \E k \in Offers(queue.len, 1) : Put(k) /\ unsaid' = AtMost(unsaid + k, MinCommit)
         /\ seg' = [seg EXCEPT !.samples = AtMost(@ + 1, MinCommit)]
    ELSE seg' = [seg EXCEPT !.pending = 1] /\ UNCHANGED <<queue, unsaid>>

(* Silence within a segment is sent like speech; outside of one the last   *)
(* of it is kept.                                                          *)
WriteSilence ==
    IF seg.speech
    THEN \E k \in Offers(queue.len, 1) : Put(k) /\ Record(seg, k)
    ELSE seg' = [seg EXCEPT !.pending = 1] /\ UNCHANGED <<queue, unsaid>>

(* With turn detection at the provider everything is sent as it comes.     *)
WriteThrough ==
    /\ \E k \in Offers(queue.len, 1) : Put(k)
    /\ UNCHANGED <<seg, unsaid>>

(* WriteSample holds the mutex that the commit loop holds.                 *)
PipeSample ==
    /\ pc["pipe"] = "loop"
    /\ audio
    /\ pc["commit"] # "queue"
    /\ IF seg.manual THEN WriteSpeech \/ WriteSilence ELSE WriteThrough
    /\ UNCHANGED <<pc, ctx, audio, sock, closed, res, resOpen, finals, meter>>

(* The loop ends; the deferred Close marks the stream closed and cancels   *)
(* its context.                                                            *)
PipeStop ==
    /\ pc["pipe"] = "loop"
    /\ TaskCtxDone \/ ~audio
    /\ pc' = [pc EXCEPT !["pipe"] = "flush"]
    /\ closed' = TRUE
    /\ ctx' = ctx \cup {"stream"}
    /\ UNCHANGED <<audio, sock, queue, seg, unsaid, res, resOpen, finals, meter>>

(* commitWg.Wait, then the last commit, if the segment is long enough.     *)
CloseFlush ==
    LET commits == seg.manual /\ seg.speech /\ seg.samples >= MinCommit
                   /\ queue.len < QueueSize
    IN /\ pc["pipe"] = "flush"
       /\ pc["commit"] = "done"
       /\ Put(IF commits THEN 1 ELSE 0)
       /\ unsaid' = IF commits THEN 0 ELSE unsaid
       /\ seg' = [seg EXCEPT !.speech = FALSE, !.samples = 0, !.pending = 0]
       /\ pc' = [pc EXCEPT !["pipe"] = "hang up"]
       /\ UNCHANGED <<ctx, audio, sock, closed, res, resOpen, finals, meter>>

(* Variant with a bug: the queue is not closed, and the writer waits on.   *)
CloseSocketOnly ==
    /\ pc["pipe"] = "hang up"
    /\ sock' = "closed"
    /\ pc' = [pc EXCEPT !["pipe"] = "wait"]
    /\ UNCHANGED <<ctx, audio, closed, queue, seg, unsaid, res, resOpen, finals, meter>>

(* closeWriteQueue, and the socket, before the writer has drained it.      *)
CloseSocket ==
    /\ pc["pipe"] = "hang up"
    /\ queue' = [queue EXCEPT !.open = FALSE]
    /\ sock' = "closed"
    /\ pc' = [pc EXCEPT !["pipe"] = "wait"]
    /\ UNCHANGED <<ctx, audio, closed, seg, unsaid, res, resOpen, finals, meter>>

(* The wait groups, then the other deferred calls: the task's context is   *)
(* cancelled and the goroutine ends.                                       *)
CloseWait ==
    /\ pc["pipe"] = "wait"
    /\ pc["write"] = "done"
    /\ pc["read"] = "done"
    /\ finals = 0
    /\ pc' = [pc EXCEPT !["pipe"] = "done"]
    /\ ctx' = ctx \cup {"task"}
    /\ UNCHANGED <<audio, sock, closed, queue, seg, unsaid, res, resOpen, finals,
                   meter>>

-----------------------------------------------------------------------------
(* The commit loop.                                                        *)

(* A tick of the commit loop that finds a segment worth committing, by     *)
(* silence or by length; it keeps the mutex for the next step.             *)
CommitTick ==
    /\ pc["commit"] = "tick"
    /\ ~closed
    /\ seg.speech
    /\ seg.samples >= MinCommit
    /\ pc' = [pc EXCEPT !["commit"] = "queue"]
    /\ UNCHANGED <<ctx, audio, sock, closed, queue, seg, unsaid, res, resOpen, finals,
                   meter>>

(* queueAudioCommit takes a closed stream for a success; after an error    *)
(* the segment stays.                                                      *)
CommitQueue ==
    /\ pc["commit"] = "queue"
    /\ \E k \in IF closed THEN {0} ELSE Offers(queue.len, 1) :
          /\ Put(k)
          /\ unsaid' = IF k = 1 THEN 0 ELSE unsaid
          /\ seg' = IF k = 1 \/ closed
                    THEN [seg EXCEPT !.speech = FALSE, !.samples = 0, !.pending = 0]
                    ELSE seg
    /\ pc' = [pc EXCEPT !["commit"] = "tick"]
    /\ UNCHANGED <<ctx, audio, sock, closed, res, resOpen, finals, meter>>

CommitEnd ==
    /\ pc["commit"] = "tick"
    /\ closed \/ StreamCtxDone
    /\ pc' = [pc EXCEPT !["commit"] = "done"]
    /\ UNCHANGED <<ctx, audio, sock, closed, queue, seg, unsaid, res, resOpen, finals,
                   meter>>

-----------------------------------------------------------------------------
(* The writer.                                                             *)

(* range evaluates wsWriteChan when the goroutine first runs; closing the  *)
(* queue sets the field to nil, on which a range waits for ever.           *)
WriterBegin ==
    /\ pc["write"] = "start"
    /\ pc' = [pc EXCEPT !["write"] = IF queue.open THEN "loop" ELSE "nil"]
    /\ UNCHANGED <<ctx, audio, sock, closed, queue, seg, unsaid, res, resOpen, finals,
                   meter>>

(* A message is written, or the writer ends with an error: the socket was  *)
(* closed, or the peer took nothing for ten seconds.                       *)
WriterWrite ==
    /\ pc["write"] = "loop"
    /\ queue.len > 0
    /\ queue' = [queue EXCEPT !.len = @ - 1]
    /\ \/ sock # "closed" /\ UNCHANGED pc
       \/ pc' = [pc EXCEPT !["write"] = "done"]
    /\ UNCHANGED <<ctx, audio, sock, closed, seg, unsaid, res, resOpen, finals, meter>>

WriterEnd ==
    /\ pc["write"] = "loop"
    /\ queue.len = 0
    /\ ~queue.open
    /\ pc' = [pc EXCEPT !["write"] = "done"]
    /\ UNCHANGED <<ctx, audio, sock, closed, queue, seg, unsaid, res, resOpen, finals,
                   meter>>

-----------------------------------------------------------------------------
(* The reader and the translations it starts.                              *)

(* A round: the context is looked at, then the next message is waited for. *)
ReaderLoop ==
    /\ pc["read"] = "loop"
    /\ pc' = [pc EXCEPT !["read"] = IF StreamCtxDone THEN "stopped" ELSE "message"]
    /\ UNCHANGED <<ctx, audio, sock, closed, queue, seg, unsaid, res, resOpen, finals,
                   meter>>

(* A partial result or an error is sent on; a final one is translated by a *)
(* goroutine of its own.  The first message, or failure, takes a round     *)
(* trip, and the session is announced by then.                             *)
ReaderMessage ==
    /\ pc["read"] = "message"
    /\ sock = "open"
    /\ pc["task"] # "announce"
    /\ \/ pc' = [pc EXCEPT !["read"] = "send"] /\ UNCHANGED finals
       \/ /\ finals < MaxFinals
          /\ finals' = finals + 1
          /\ pc' = [pc EXCEPT !["read"] = "loop"]
    /\ UNCHANGED <<ctx, audio, sock, closed, queue, seg, unsaid, res, resOpen, meter>>

ReaderSend ==
    /\ pc["read"] = "send"
    /\ SafeSend("result")
    /\ pc' = [pc EXCEPT !["read"] = "loop"]
    /\ UNCHANGED <<ctx, audio, sock, closed, queue, seg, unsaid, resOpen, finals, meter>>

(* ReadMessage fails: the peer or Close closed the socket, or nothing came *)
(* for thirty seconds, as when nobody speaks.                              *)
ReaderFails ==
    /\ pc["read"] = "message"
    /\ pc["task"] # "announce"
    /\ \/ pc' = [pc EXCEPT !["read"] = "stopped"]
       \/ ~StreamCtxDone /\ ~closed /\ pc' = [pc EXCEPT !["read"] = "error"]
    /\ UNCHANGED <<ctx, audio, sock, closed, queue, seg, unsaid, res, resOpen, finals,
                   meter>>

(* The error, and then SessionStopped, are sent, and the reader is gone.   *)
ReaderStop ==
    /\ pc["read"] \in {"error", "stopped"}
    /\ SafeSend("result")
    /\ pc' = [pc EXCEPT !["read"] = IF @ = "error" THEN "stopped" ELSE "done"]
    /\ UNCHANGED <<ctx, audio, sock, closed, queue, seg, unsaid, resOpen, finals, meter>>

(* A translation comes back, or fails, and its result is sent.             *)
TranslationEnds ==
    /\ finals > 0
    /\ SafeSend("result")
    /\ finals' = finals - 1
    /\ UNCHANGED <<pc, ctx, audio, sock, closed, queue, seg, unsaid, resOpen, meter>>

-----------------------------------------------------------------------------
(* The goroutine that closes the results waits for the four groups in turn.*)

CloserNext == [write |-> "read", read |-> "commit", commit |-> "event", event |-> "done"]

GroupDone(g) == IF g = "event" THEN finals = 0 ELSE pc[g] = "done"

CloserWait ==
    /\ pc["close"] \in {"write", "read", "commit", "event"}
    /\ GroupDone(pc["close"])
    /\ pc' = [pc EXCEPT !["close"] = CloserNext[@]]
    /\ resOpen' = (CloserNext[pc["close"]] # "done")
    /\ UNCHANGED <<ctx, audio, sock, closed, queue, seg, unsaid, res, finals, meter>>

-----------------------------------------------------------------------------
(* The goroutine that handles results.                                     *)

(* handleTranscriptionEvent: SessionStarted opens the usage session.       *)
HandleEvent ==
    /\ pc["handle"] \in {"loop", "drain"}
    /\ res # <<>>
    /\ res' = Tail(res)
    /\ meter' = IF Head(res) = "started" THEN "open" ELSE meter
    /\ UNCHANGED <<pc, ctx, audio, sock, closed, queue, seg, unsaid, resOpen, finals>>

(* Variant with a bug: the usage session is closed before the rest of the  *)
(* results is drained.                                                     *)
HandleDrainClosing ==
    /\ pc["handle"] = "loop"
    /\ TaskCtxDone
    /\ pc' = [pc EXCEPT !["handle"] = "drain"]
    /\ meter' = "closed"
    /\ UNCHANGED <<ctx, audio, sock, closed, queue, seg, unsaid, res, resOpen, finals>>

(* The task's context is done: what is left is drained until the channel   *)
(* is closed.                                                              *)
HandleDrain ==
    /\ pc["handle"] = "loop"
    /\ TaskCtxDone
    /\ pc' = [pc EXCEPT !["handle"] = "drain"]
    /\ UNCHANGED <<ctx, audio, sock, closed, queue, seg, unsaid, res, resOpen, finals,
                   meter>>

(* The deferred calls: the usage session is closed, and the task's context *)
(* cancelled.                                                              *)
HandleEnd ==
    /\ pc["handle"] \in {"loop", "drain"}
    /\ res = <<>>
    /\ ~resOpen
    /\ meter' = "closed"
    /\ ctx' = ctx \cup {"task"}
    /\ pc' = [pc EXCEPT !["handle"] = "done"]
    /\ UNCHANGED <<audio, sock, closed, queue, seg, unsaid, res, resOpen, finals>>

-----------------------------------------------------------------------------
StreamNext ==
    \/ CancelPipeline \/ CloseAudio \/ PeerCloses
    \/ Dial \/ Configure \/ Announce \/ TaskReturn
    \/ PipeSample \/ PipeStop \/ CloseFlush \/ CloseSocket \/ CloseWait
    \/ CommitTick \/ CommitQueue \/ CommitEnd
    \/ WriterBegin \/ WriterWrite \/ WriterEnd
    \/ ReaderLoop \/ ReaderMessage \/ ReaderSend \/ ReaderFails \/ ReaderStop
    \/ TranslationEnds \/ CloserWait
    \/ HandleEvent \/ HandleDrain \/ HandleEnd

TaskStep == Dial \/ Configure \/ Announce \/ TaskReturn
PipeEnds == PipeStop \/ CloseFlush \/ CloseSocket \/ CloseWait
CommitStep == CommitQueue \/ CommitEnd
WriterStep == WriterBegin \/ WriterWrite \/ WriterEnd
ReaderStep == ReaderLoop \/ ReaderSend \/ ReaderFails \/ ReaderStop
HandleStep == HandleEvent \/ HandleEnd

(* Every goroutine goes on when it can.  A write ends within its deadline  *)
(* of ten seconds, a read within its thirty, and so does a request to the  *)
(* translator; a select takes each of the cases that stay ready.           *)
StreamFairness ==
    /\ WF_streamVars(CloseAudio)
    /\ WF_streamVars(TaskStep) /\ WF_streamVars(PipeEnds)
    /\ WF_streamVars(CommitStep) /\ WF_streamVars(WriterStep)
    /\ WF_streamVars(ReaderStep) /\ WF_streamVars(TranslationEnds)
    /\ WF_streamVars(CloserWait) /\ WF_streamVars(HandleStep)

StreamSpec == StreamInit /\ [][StreamNext]_streamVars /\ StreamFairness

-----------------------------------------------------------------------------
StreamTypeOK ==
    /\ DOMAIN pc = Goroutine
    /\ ctx \subseteq {"pipeline", "stream", "task"}
    /\ audio \in BOOLEAN
    /\ sock \in {"none", "open", "peer closed", "closed"}
    /\ closed \in BOOLEAN
    /\ queue \in [open : BOOLEAN, len : 0 .. QueueSize]
    /\ seg \in [manual : BOOLEAN, speech : BOOLEAN, samples : 0 .. MinCommit,
                pending : 0 .. 1]
    /\ unsaid \in 0 .. MinCommit
    /\ Len(res) \in 0 .. ResultsSize
    /\ resOpen \in BOOLEAN
    /\ finals \in 0 .. MaxFinals
    /\ meter \in {"none", "open", "closed"}

(* The results are closed only when the reader and every translation it    *)
(* started are gone, so that no result is sent to a closed channel, which  *)
(* safeSend would lose.                                                    *)
ResultsClosedLast ==
    ~resOpen => pc["read"] \in {"none", "done"} /\ finals = 0

(* A segment never counts a chunk that was not queued since the last       *)
(* commit: otherwise a commit is sent for less audio than the provider     *)
(* accepts.                                                                *)
CommitHasAudio == seg.samples <= unsaid

(* What these rest on.  Every goroutine is somewhere; ...                  *)
Places == [
    task   |-> {"dial", "config", "announce", "running", "returned", "failed"},
    pipe   |-> {"none", "loop", "flush", "hang up", "wait", "done"},
    handle |-> {"none", "loop", "drain", "done"},
    write  |-> {"none", "start", "loop", "nil", "done"},
    read   |-> {"none", "loop", "message", "send", "error", "stopped", "done"},
    commit |-> {"none", "tick", "queue", "done"},
    close  |-> {"none", "write", "read", "commit", "event", "done"} ]

PlacesOK ==
    /\ pc \in [Goroutine -> UNION {Places[g] : g \in Goroutine}]
    /\ \A g \in Goroutine : pc[g] \in Places[g]
    /\ res \in Seq({"started", "result"})

(* ... nothing is queued before the session's configuration, and what      *)
(* begins with the session has not begun before; ...                       *)
BegunInOrder ==
    /\ pc["task"] \in {"dial", "config"} =>
          queue.len = 0 /\ pc["read"] = "none" /\ pc["commit"] = "none"
    /\ pc["task"] \in {"dial", "config", "announce", "failed"} =>
          pc["pipe"] = "none" /\ pc["handle"] = "none" /\ pc["close"] = "none"
    /\ pc["task"] = "running" => pc["handle"] # "none"
    /\ pc["task"] = "returned" => pc["handle"] = "done"

(* ... the results are closed by who waited for the reader and the         *)
(* translations; ...                                                       *)
ClosedByCloser ==
    /\ ~resOpen <=> pc["close"] = "done"
    /\ pc["close"] \in {"commit", "event", "done"} => pc["read"] = "done"
    /\ pc["close"] = "done" => finals = 0

(* ... and the session is announced once, before its usage is counted.     *)
MeterFollows ==
    /\ "started" \in {res[i] : i \in 1 .. Len(res)} =>
          meter = "none" /\ pc["task"] \in {"running", "returned"}
    /\ \A i, j \in 1 .. Len(res) : res[i] = "started" /\ res[j] = "started" => i = j
    /\ pc["handle"] = "none" => meter = "none"
    /\ meter = "closed" <=> pc["handle"] = "done"

StreamInvariant ==
    /\ StreamTypeOK /\ PlacesOK /\ BegunInOrder /\ ClosedByCloser /\ MeterFollows
    /\ ResultsClosedLast /\ CommitHasAudio

(* Where the call of RunAudioStream is, for who called it.                 *)
Phase ==
    CASE pc["task"] \in {"dial", "config", "announce"} -> "new"
      [] OTHER -> pc["task"]

(* A call of RunAudioStream is what a room agent takes it for: the usage   *)
(* session of the user is closed when it returns, and is not opened by an  *)
(* event that is drained after it was closed.                              *)
Task == INSTANCE AudioTask WITH phase <- Phase, meter <- meter
ImplementsAudioTask == Task!TaskSpec

(* Once the pipeline was cancelled every wait group comes to zero and the  *)
(* call returns; unless the writer first ran when the queue was already    *)
(* nil, on which it waits for ever, and Close with it.                     *)
Cancelled == "pipeline" \in ctx
Gone == pc["task"] \in {"returned", "failed"} \/ pc["write"] = "nil"
TaskReturns == Cancelled ~> Gone

(* Refuted: without its reader a stream gives no more results, and the     *)
(* task should end (task_transcription.go:85).                             *)
EndsWithItsReader == pc["read"] = "done" ~> pc["task"] \in {"returned", "failed"}
=============================================================================
