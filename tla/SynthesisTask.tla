---------------------------- MODULE SynthesisTask ----------------------------
(***************************************************************************)
(* The speech synthesis of a room's agent, for one language: the task      *)
(* subscribes to the translations, creates the language's worker (a second *)
(* agent that joins the room to speak) and hands it the texts.             *)
(*                                                                         *)
(* A worker is created by the task's own loop and by the subscription's    *)
(* callback when it finds none; singleflight lets the two share a creation *)
(* in progress.  Shutdown may come at any moment of it.                    *)
(* What a text costs is counted in UsageArtifacts.                         *)
(***************************************************************************)
EXTENDS Naturals

CONSTANTS
    MaxWorkers,  \* bound: agents that join the room to speak
    MaxTexts,    \* bound: translations that arrive
    QueueSize    \* capacity of a worker's queue

VARIABLES
    caller,   \* where Run and the subscription's callback are
    flight,   \* the creation in progress: where it is, and its worker
    conn,     \* the workers whose agent is in the room
    on,       \* the workers whose goroutine runs, counted in the WaitGroup
    queue,    \* texts that wait in each worker's queue
    table,    \* the language's worker in t.workers, 0 for none
    begun,    \* workers begun so far
    texts,    \* translations that arrived so far
    target,   \* the worker the callback was given
    shut      \* where Shutdown is

synthesisVars == <<caller, flight, conn, on, queue, table, begun, texts, target, shut>>

Caller == {"run", "dispatch"}
WorkerId == 1 .. MaxWorkers
Landed == [at |-> "none", worker |-> 0]

SynthesisInit ==
    /\ caller = [run |-> "create", dispatch |-> "idle"]
    /\ flight = Landed
    /\ conn = {}
    /\ on = {}
    /\ queue = [w \in WorkerId |-> 0]
    /\ table = 0
    /\ begun = 0
    /\ texts = 0
    /\ target = 0
    /\ shut = "none"

\* The task's context, from which every worker's context is derived.
Cancelled == shut \in {"cancelled", "waiting", "done"}

Goto(c, place) == caller' = [caller EXCEPT ![c] = place]

-----------------------------------------------------------------------------
(* The subscription's callback: one message after another, until Run has   *)
(* seen the end and unsubscribed.                                          *)
Receive ==
    /\ caller["dispatch"] = "idle"
    /\ caller["run"] # "off"
    /\ texts < MaxTexts
    /\ texts' = texts + 1
    /\ Goto("dispatch", IF table = 0 THEN "create" ELSE "send")
    /\ target' = table
    /\ UNCHANGED <<flight, conn, on, queue, table, begun, shut>>

\* The text is dropped when the queue is full, and may be when the task ends.
Send ==
    /\ caller["dispatch"] = "send"
    /\ Goto("dispatch", "idle")
    /\ \/ /\ queue[target] < QueueSize
          /\ queue' = [queue EXCEPT ![target] = @ + 1]
       \/ /\ queue[target] = QueueSize \/ Cancelled
          /\ UNCHANGED queue
    /\ UNCHANGED <<flight, conn, on, table, begun, texts, target, shut>>

\* Run has created the workers it was asked for.
Unsubscribe ==
    /\ caller["run"] = "subscribed"
    /\ Cancelled
    /\ Goto("run", "off")
    /\ UNCHANGED <<flight, conn, on, queue, table, begun, texts, target, shut>>

-----------------------------------------------------------------------------
(* createAgentWorker.                                                      *)
Served == [run |-> "subscribed", dispatch |-> "send"]
Refused == [run |-> "subscribed", dispatch |-> "idle"]

FastPath(c) ==
    /\ caller[c] = "create"
    /\ Goto(c, IF table # 0 THEN Served[c] ELSE "missed")
    /\ target' = IF c = "dispatch" THEN table ELSE target
    /\ UNCHANGED <<flight, conn, on, queue, table, begun, texts, shut>>

\* sf.Do: the first caller flies, another one waits for the same result.
Do(c) ==
    /\ caller[c] = "missed"
    /\ Goto(c, "flying")
    /\ IF flight.at = "none"
       THEN /\ begun < MaxWorkers
            /\ begun' = begun + 1
            /\ flight' = [at |-> "connect", worker |-> begun + 1]
       ELSE UNCHANGED <<begun, flight>>
    /\ UNCHANGED <<conn, on, queue, table, texts, target, shut>>

\* Every caller of the flight gets its result.
Land(result) ==
    /\ flight' = Landed
    /\ caller' = [c \in Caller |-> IF caller[c] = "flying" THEN result[c] ELSE caller[c]]

\* LiveKit drops the participant that had the agent's identity before.
Connect ==
    /\ flight.at = "connect"
    /\ \/ /\ conn' = {flight.worker}
          /\ flight' = [flight EXCEPT !.at = "publish"]
          /\ UNCHANGED caller
       \/ /\ Land(Refused)
          /\ UNCHANGED conn
    /\ UNCHANGED <<on, queue, table, begun, texts, target, shut>>

PublishFails ==
    /\ flight.at = "publish"
    /\ conn' = conn \ {flight.worker}
    /\ Land(Refused)
    /\ UNCHANGED <<on, queue, table, begun, texts, target, shut>>

\* The publisher is made and the worker goes into the map, whatever Shutdown does.
Store ==
    /\ flight.at = "publish"
    /\ table' = flight.worker
    /\ flight' = [flight EXCEPT !.at = "check"]
    /\ UNCHANGED <<caller, conn, on, queue, begun, texts, target, shut>>

\* Variant with a bug: the agent of a refused worker stays in the room.
CheckShutdownStays ==
    /\ flight.at = "check"
    /\ IF shut # "none"
       THEN Land(Refused)
       ELSE /\ flight' = [flight EXCEPT !.at = "go"]
            /\ UNCHANGED caller
    /\ UNCHANGED <<conn, on, queue, table, begun, texts, target, shut>>

CheckShutdown ==
    /\ flight.at = "check"
    /\ IF shut # "none"
       THEN /\ conn' = conn \ {flight.worker}
            /\ Land(Refused)
       ELSE /\ flight' = [flight EXCEPT !.at = "go"]
            /\ UNCHANGED <<caller, conn>>
    /\ UNCHANGED <<on, queue, table, begun, texts, target, shut>>

Go ==
    /\ flight.at = "go"
    /\ on' = on \cup {flight.worker}
    /\ Land(Served)
    /\ target' = IF caller["dispatch"] = "flying" THEN flight.worker ELSE target
    /\ UNCHANGED <<conn, queue, table, begun, texts, shut>>

-----------------------------------------------------------------------------
(* ttsWorker.run.                                                          *)
Speak(w) ==
    /\ w \in on
    /\ queue[w] > 0
    /\ queue' = [queue EXCEPT ![w] = @ - 1]
    /\ UNCHANGED <<caller, flight, conn, on, table, begun, texts, target, shut>>

WorkerEnds(w) ==
    /\ w \in on
    /\ Cancelled
    /\ on' = on \ {w}
    /\ conn' = conn \ {w}
    /\ UNCHANGED <<caller, flight, queue, table, begun, texts, target, shut>>

-----------------------------------------------------------------------------
(* Shutdown: once, by the flag; the contexts end; then it waits.           *)
ShutdownStep(from, to) ==
    /\ shut = from
    /\ shut' = to
    /\ UNCHANGED <<caller, flight, conn, on, queue, table, begun, texts, target>>

ShutdownBegin == ShutdownStep("none", "set")
ShutdownCancels == ShutdownStep("set", "cancelled")
ShutdownWaits == ShutdownStep("cancelled", "waiting")
ShutdownReturns == on = {} /\ ShutdownStep("waiting", "done")

SynthesisNext ==
    \/ Receive \/ Send \/ Unsubscribe
    \/ \E c \in Caller : FastPath(c) \/ Do(c)
    \/ Connect \/ PublishFails \/ Store \/ CheckShutdown \/ Go
    \/ \E w \in WorkerId : Speak(w) \/ WorkerEnds(w)
    \/ ShutdownBegin \/ ShutdownCancels \/ ShutdownWaits \/ ShutdownReturns

SynthesisSpec == SynthesisInit /\ [][SynthesisNext]_synthesisVars

-----------------------------------------------------------------------------
SynthesisTypeOK ==
    /\ caller \in [Caller -> {"idle", "create", "missed", "flying", "send", "subscribed", "off"}]
    /\ flight \in [at : {"none", "connect", "publish", "check", "go"}, worker : 0 .. MaxWorkers]
    /\ conn \subseteq WorkerId
    /\ on \subseteq WorkerId
    /\ queue \in [WorkerId -> 0 .. QueueSize]
    /\ table \in 0 .. MaxWorkers
    /\ begun \in 0 .. MaxWorkers
    /\ texts \in 0 .. MaxTexts
    /\ target \in 0 .. MaxWorkers
    /\ shut \in {"none", "set", "cancelled", "waiting", "done"}

\* An agent in the room has somebody who will take it out: the creation that
\* works on it or the goroutine that leaves when the task's context ends.
\* Whatever the interleaving of a creation with Shutdown, no agent stays.
AgentsAreOwned ==
    \A w \in conn : w \in on \/ (flight.at # "none" /\ flight.worker = w)

\* What it rests on: workers are numbered as they are begun, and the one that
\* is about to connect is not in the room yet.  The callback has a worker
\* whenever it sends.
WorkersAreCounted ==
    /\ conn \subseteq 1 .. begun
    /\ flight.at # "none" => flight.worker \in 1 .. begun
    /\ flight.at = "connect" => flight.worker \notin conn
    /\ caller["dispatch"] = "send" => target # 0

SynthesisInvariant == SynthesisTypeOK /\ WorkersAreCounted /\ AgentsAreOwned

\* Refuted: what the comment of createAgentWorker says of the WaitGroup, "Never
\* Add [...] once Shutdown has started waiting on it".
NoAddAfterWait ==
    [][on' \subseteq on \/ shut \notin {"waiting", "done"}]_synthesisVars

\* Refuted: one worker for a language, as the comments say of singleflight.
OneWorkerEach == \A v, w \in on : v = w
=============================================================================
