----------------------------- MODULE SummaryJobs -----------------------------
(***************************************************************************)
(* From the recorded audio of a meeting to its summary.  The agent         *)
(* publishes a job when it has closed the file; a server takes it from the *)
(* queue, starts a batch at the provider and registers the batch in Redis; *)
(* the leading server's janitor asks for the registered batches, creates   *)
(* the summary artifact of one that is complete, and cleans up.            *)
(*                                                                         *)
(* Google runs the batch; for OpenAI the server runs it itself, in a       *)
(* goroutine that writes the batch's status to Redis.                      *)
(* One agent's recording; the hooks that store files elsewhere are left    *)
(* out: the file is where the agent wrote it.                              *)
(***************************************************************************)
EXTENDS JanitorLeader

CONSTANTS
    MaxDeliver,  \* times the queue hands out a job before it gives up
    MaxSummaries,\* bound: summaries of one batch
    MaxMishaps,  \* bound: kinds of things that go wrong in a behaviour
    Nobody       \* stands for no server

VARIABLES
    job,      \* the job's message in the queue
    times,    \* how often it was handed out
    hand,     \* every server's handler: where it is, and its delivery
    batch,    \* the batch each delivery started, and the server that runs it
    pending,  \* the batches registered in Redis
    summary,  \* summary artifacts created for each batch
    check,    \* every janitor's round: where it is, its batch and those left
    source    \* the recorded file is there

jobVars == <<job, times, hand, batch, pending, summary, check, source>>
summaryVars == <<leaderVars, jobVars>>

Delivery == 1 .. MaxDeliver
Provider == {"google", "openai"}
Resting == [at |-> "idle", n |-> 0]
NoRound == [at |-> "idle", b |-> 0, left |-> {}]

SummaryInit ==
    /\ LeaderInit
    /\ job = "recorded"
    /\ times = 0
    /\ hand = [s \in Server |-> Resting]
    /\ batch = [n \in Delivery |-> [state |-> "none", on |-> Nobody]]
    /\ pending = {}
    /\ summary = [n \in Delivery |-> 0]
    /\ check = [s \in Server |-> NoRound]
    /\ source = TRUE

Up(s) == leader[s].at # "gone"

Mishap(kind) ==
    /\ Cardinality(mishaps \cup {kind}) <= MaxMishaps
    /\ mishaps' = mishaps \cup {kind}

-----------------------------------------------------------------------------
(* doRoomSummarizing: a job that cannot be published is only logged.       *)
doRoomSummarizing ==
    /\ job = "recorded"
    /\ \/ job' = "queued" /\ UNCHANGED mishaps
       \/ job' = "unpublished" /\ Mishap("error")
    /\ UNCHANGED <<leader, lease, terms, times, hand, batch, pending, summary, check, source>>

\* The consumer handles one message at a time.
Deliver(s) ==
    /\ Up(s)
    /\ hand[s].at = "idle"
    /\ job = "queued"
    /\ times < MaxDeliver
    /\ job' = "out"
    /\ times' = times + 1
    /\ hand' = [hand EXCEPT ![s] = [at |-> "start", n |-> times + 1]]
    /\ UNCHANGED <<leaderVars, batch, pending, summary, check, source>>

\* Five minutes without an answer: the handler is gone, or slower than that.
AckWaitEnds ==
    /\ job = "out"
    /\ \/ (\A s \in Server : hand[s].at = "idle") /\ UNCHANGED mishaps
       \/ (\E s \in Server : hand[s].at # "idle") /\ Mishap("ackwait")
    /\ job' = IF times < MaxDeliver THEN "queued" ELSE "dead"
    /\ UNCHANGED <<leader, lease, terms, times, hand, batch, pending, summary, check, source>>

\* The job goes back for a while.  After the last delivery the file is thrown away.
Nak(s) ==
    /\ hand' = [hand EXCEPT ![s] = Resting]
    /\ job' = IF job = "done" THEN "done" ELSE IF times < MaxDeliver THEN "queued" ELSE "dead"
    /\ source' = (source /\ hand[s].n # MaxDeliver)
    /\ Mishap("error")

StartFails(s) ==
    /\ hand[s].at = "start"
    /\ Nak(s)
    /\ UNCHANGED <<leader, lease, terms, times, batch, pending, summary, check>>

StartBatchSummarizeAudioFile(s, provider) ==
    /\ hand[s].at = "start"
    /\ source \/ provider = "openai"
    /\ batch' = [batch EXCEPT ![hand[s].n] =
                   [state |-> "running", on |-> IF provider = "openai" THEN s ELSE Nobody]]
    /\ hand' = [hand EXCEPT ![s].at = "register"]
    /\ UNCHANGED <<leaderVars, job, times, pending, summary, check, source>>

RegisterFails(s) ==
    /\ hand[s].at = "register"
    /\ Nak(s)
    /\ UNCHANGED <<leader, lease, terms, times, batch, pending, summary, check>>

Register(s) ==
    /\ hand[s].at = "register"
    /\ pending' = pending \cup {hand[s].n}
    /\ hand' = [hand EXCEPT ![s].at = "ack"]
    /\ UNCHANGED <<leaderVars, job, times, batch, summary, check, source>>

Ack(s) ==
    /\ hand[s].at = "ack"
    /\ hand' = [hand EXCEPT ![s] = Resting]
    /\ job' = "done"
    /\ UNCHANGED <<leaderVars, times, batch, pending, summary, check, source>>

\* runBatchJob, or the provider's own batch: it ends one way or the other.
BatchEnds(n, state) ==
    /\ batch[n].state = "running"
    /\ batch' = [batch EXCEPT ![n].state = state]
    /\ UNCHANGED <<leaderVars, job, times, hand, pending, summary, check, source>>

-----------------------------------------------------------------------------
(* CheckInsightsPendingSummarizeJobs: the jobs are read once, then one     *)
(* after another is asked for; none of it takes a lock of its own.         *)
CheckInsightsPendingSummarizeJobs(s) ==
    /\ leader[s].at = "lead"
    /\ pending # {}
    /\ Stand(s, "task")
    /\ check' = [check EXCEPT ![s] = [at |-> "ask", b |-> 0, left |-> pending]]
    /\ UNCHANGED <<lease, terms, mishaps, job, times, hand, batch, pending, summary, source>>

\* A batch whose server is gone still has the status "running".
CheckBatchJobStatus(s, b) ==
    /\ check[s].at = "ask"
    /\ b \in check[s].left
    /\ check' = [check EXCEPT ![s] =
                   [at |-> CASE batch[b].state = "completed" -> "file"
                             [] batch[b].state = "failed" -> "clean"
                             [] OTHER -> "ask",
                    b |-> b, left |-> @.left \ {b}]]
    /\ UNCHANGED <<leaderVars, job, times, hand, batch, pending, summary, source>>

\* The file artifact comes first, the usage artifact that points to it second;
\* a failure of either ends the whole round and leaves the job registered.
Abandon(s) ==
    /\ check' = [check EXCEPT ![s] = [at |-> "ask", b |-> 0, left |-> {}]]
    /\ Mishap("error")

\* Variant with a bug: the failure is logged only, and the job cleaned up.
FileArtifactFailsLogged(s) ==
    /\ check[s].at = "file"
    /\ check' = [check EXCEPT ![s].at = "clean"]
    /\ Mishap("error")
    /\ UNCHANGED <<leader, lease, terms, job, times, hand, batch, pending, summary, source>>

FileArtifactFails(s) ==
    /\ check[s].at = "file"
    /\ Abandon(s)
    /\ UNCHANGED <<leader, lease, terms, job, times, hand, batch, pending, summary, source>>

CreateMeetingSummaryArtifact(s) ==
    /\ check[s].at = "file"
    /\ summary[check[s].b] < MaxSummaries
    /\ summary' = [summary EXCEPT ![check[s].b] = @ + 1]
    /\ check' = [check EXCEPT ![s].at = "usage"]
    /\ UNCHANGED <<leaderVars, job, times, hand, batch, pending, source>>

UsageArtifact(s) ==
    /\ check[s].at = "usage"
    /\ \/ check' = [check EXCEPT ![s].at = "clean"] /\ UNCHANGED mishaps
       \/ Abandon(s)
    /\ UNCHANGED <<leader, lease, terms, job, times, hand, batch, pending, summary, source>>

\* The recording is thrown away, then the job is forgotten; the second may fail.
Cleanup(s) ==
    /\ check[s].at = "clean"
    /\ source' = FALSE
    /\ \/ pending' = pending \ {check[s].b} /\ UNCHANGED mishaps
       \/ UNCHANGED pending /\ Mishap("error")
    /\ check' = [check EXCEPT ![s].at = "ask"]
    /\ UNCHANGED <<leader, lease, terms, job, times, hand, batch, summary>>

RoundEnds(s) ==
    /\ check[s].at = "ask"
    /\ check[s].left = {}
    /\ check' = [check EXCEPT ![s] = NoRound]
    /\ Stand(s, "lead")
    /\ UNCHANGED <<lease, terms, mishaps, job, times, hand, batch, pending, summary, source>>

-----------------------------------------------------------------------------
(* A server goes: its handler, its janitor's round and the batches it runs *)
(* stop where they are.                                                    *)
Crash(s) ==
    /\ Gone(s)
    /\ Mishap("stop")
    /\ hand' = [hand EXCEPT ![s] = Resting]
    /\ check' = [check EXCEPT ![s] = NoRound]
    /\ batch' = [n \in Delivery |-> IF batch[n].on = s /\ batch[n].state = "running"
                                    THEN [batch[n] EXCEPT !.state = "lost"] ELSE batch[n]]
    /\ UNCHANGED <<job, times, pending, summary, source>>

SummaryNext ==
    \/ LeaderNext /\ Cardinality(mishaps') <= MaxMishaps /\ UNCHANGED jobVars
    \/ doRoomSummarizing \/ AckWaitEnds
    \/ \E n \in Delivery, state \in {"completed", "failed"} : BatchEnds(n, state)
    \/ \E s \in Server :
          \/ Deliver(s) \/ StartFails(s) \/ RegisterFails(s) \/ Register(s) \/ Ack(s)
          \/ \E provider \in Provider : StartBatchSummarizeAudioFile(s, provider)
          \/ CheckInsightsPendingSummarizeJobs(s)
          \/ \E b \in Delivery : CheckBatchJobStatus(s, b)
          \/ FileArtifactFails(s) \/ CreateMeetingSummaryArtifact(s) \/ UsageArtifact(s)
          \/ Cleanup(s) \/ RoundEnds(s)
          \/ Crash(s)

SummarySpec == SummaryInit /\ [][SummaryNext]_summaryVars

-----------------------------------------------------------------------------
SummaryTypeOK ==
    /\ LeaderTypeOK
    /\ job \in {"recorded", "unpublished", "queued", "out", "dead", "done"}
    /\ times \in 0 .. MaxDeliver
    /\ hand \in [Server -> [at : {"idle", "start", "register", "ack"}, n : 0 .. MaxDeliver]]
    /\ batch \in [Delivery -> [state : {"none", "running", "lost", "completed", "failed"},
                               on : Server \cup {Nobody}]]
    /\ pending \subseteq Delivery
    /\ summary \in [Delivery -> 0 .. MaxSummaries]
    /\ check \in [Server -> [at : {"idle", "ask", "file", "usage", "clean"},
                             b : 0 .. MaxDeliver, left : SUBSET Delivery]]
    /\ source \in BOOLEAN

Tried(n) == batch[n].state # "none"

\* A recorded meeting is accounted for whatever fails or crashes: once the queue
\* is done with the job, no handler works on it and no batch of it is registered,
\* a summary exists, a batch failed, or every delivery was used up.
RecordingIsAccounted ==
    /\ job \in {"dead", "done"}
    /\ \A s \in Server : hand[s].at = "idle"
    /\ pending = {}
    => \/ \E n \in Delivery : summary[n] > 0 \/ batch[n].state = "failed"
       \/ times = MaxDeliver

\* As long as nothing goes wrong a meeting gets at most one summary.  Two servers
\* may ask for the same batch, and nothing marks it as taken: only the leader's
\* lock keeps them apart.
OneSummaryWithoutMishaps ==
    mishaps = {} => \A m, n \in Delivery : summary[m] > 0 /\ summary[n] > 0 => m = n /\ summary[n] = 1

\* What these rest on.  Every delivery has a number of its own, and a batch is
\* started for it once; what is registered, asked for or cleaned up was started,
\* and has its outcome when it is cleaned up.
Settled(n) == summary[n] > 0 \/ batch[n].state = "failed"

DeliveriesAreCounted ==
    /\ \A s \in Server : hand[s].at # "idle" => hand[s].n \in 1 .. times
    /\ \A s, t \in Server : hand[s].at # "idle" /\ hand[t].at # "idle" /\ s # t =>
                            hand[s].n # hand[t].n
    /\ \A s \in Server : hand[s].at = "start" => ~Tried(hand[s].n)
    /\ \A s \in Server : hand[s].at \in {"register", "ack"} => Tried(hand[s].n)
    /\ \A n \in Delivery : n \in pending \/ summary[n] > 0 => Tried(n)
    /\ \A n \in Delivery : Tried(n) => n <= times

BatchesAreFollowed ==
    /\ \A s \in Server :
         /\ hand[s].at = "ack" => hand[s].n \in pending \/ Settled(hand[s].n)
         /\ check[s].at \in {"file", "usage", "clean"} => check[s].b \in Delivery
         /\ check[s].at = "file" => batch[check[s].b].state = "completed"
         /\ check[s].at = "usage" => summary[check[s].b] > 0
         /\ check[s].at = "clean" => Settled(check[s].b)
    /\ job = "dead" => times = MaxDeliver
    /\ job = "done" => \E n \in Delivery : n \in pending \/ Settled(n)

\* And as long as nothing goes wrong one server leads, holds the lease and does
\* the rounds, the job is handed out once, and its batch is forgotten with its
\* summary.
OneLeads ==
    /\ \A s, t \in Server : leader[s].at # "follow" /\ leader[t].at # "follow" => s = t
    /\ \A s \in Server :
         /\ leader[s].at # "follow" => lease = leader[s].won /\ lease # 0 /\ Up(s)
         /\ Leading(s) => leader[s].val = lease
         /\ check[s].at # "idle" => leader[s].at = "task"

JobIsHandedOutOnce ==
    /\ job \in {"recorded", "queued"} => times = 0
    /\ times <= 1
    /\ job = "out" <=> \E s \in Server : hand[s].at # "idle"

SummaryIsLast ==
    /\ \A s \in Server :
         /\ hand[s].at \in {"start", "register"} => pending = {} /\ summary[hand[s].n] = 0
         /\ check[s].at # "idle" => check[s].left \subseteq pending
         /\ check[s].at \in {"file", "usage", "clean"} => check[s].b \in pending \ check[s].left
         /\ check[s].at = "file" => summary[check[s].b] = 0
    /\ \A n \in Delivery : summary[n] > 0 =>
         /\ n = 1 /\ summary[n] = 1
         /\ n \in pending => \E s \in Server : check[s].at \in {"usage", "clean"} /\ check[s].b = n

SummaryInvariant ==
    /\ SummaryTypeOK /\ DeliveriesAreCounted /\ BatchesAreFollowed
    /\ mishaps = {} => OneLeads /\ JobIsHandedOutOnce /\ SummaryIsLast

\* Refuted: what the comment in runJanitorTasks says of the tasks, that they are
\* safe even if the leader changes in the middle of one (models/janitor.go:156).
SafeIfLeaderChanges ==
    mishaps \subseteq {"lease"} => \A n \in Delivery : summary[n] <= 1
=============================================================================
