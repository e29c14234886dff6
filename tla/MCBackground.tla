---------------------------- MODULE MCBackground ----------------------------
(* What goes on in the background of a room and has to come to an end, for *)
(* TLC: a transcription stream, the runs of a room agent, the agents of a  *)
(* room over the servers, speech synthesis, and the export of analytics.   *)
(* A behaviour follows the one that active names.  TLC pays for each       *)
(* variable of each state: the components take theirs from one set of      *)
(* cells, and the cells that the active one leaves over stay empty.        *)
EXTENDS Naturals, TLC

CONSTANTS
    Host, User, Sids, Key, None,
    AudioQueue, ResultsSize, MinCommit, MaxFinals, \* of a stream
    MaxMishaps,                                    \* of the export
    MaxTracks, MaxRuns,                            \* of a room agent
    MaxRequests, MaxAgents, MaxFaults,             \* of the agents of a room
    MaxWorkers, MaxTexts, TextQueue                \* of speech synthesis

(* Whoever holds the room lock is told from others, there are users and    *)
(* servers, and the stream's queue has a place for its configuration.      *)
ASSUME LockAssumption == None \notin Sids /\ "room" \notin Sids \cup {None}
ASSUME SomebodyAssumption == User # {} /\ Host # {}
ASSUME QueueAssumption == AudioQueue \in Nat \ {0}
ASSUME BoundsAssumption ==
    /\ ResultsSize \in Nat /\ MinCommit \in Nat /\ MaxFinals \in Nat
    /\ MaxMishaps \in Nat /\ MaxTracks \in Nat /\ MaxRuns \in Nat
    /\ MaxRequests \in Nat /\ MaxAgents \in Nat /\ MaxFaults \in Nat
    /\ MaxWorkers \in Nat /\ MaxTexts \in Nat /\ TextQueue \in Nat

VARIABLES active, c1, c2, c3, c4, c5, c6, c7, c8, c9, c10, c11, c12

V == INSTANCE TranscriptionStream WITH
        pc <- c1, ctx <- c2, audio <- c3, sock <- c4, closed <- c5, queue <- c6,
        seg <- c7, unsaid <- c8, res <- c9, resOpen <- c10, finals <- c11, meter <- c12,
        QueueSize <- AudioQueue
E == INSTANCE AnalyticsExport WITH
        phase <- c1, lock <- c2, records <- c3, pc <- c4, my <- c5, happened <- c6,
        artifact <- c7, spent <- c8,
        Sid <- Sids, Analysed <- Sids, Free <- None, Room <- "room"
G == INSTANCE RoomAgent WITH
        allowed <- c1, active <- c2, turning <- c3, track <- c4, up <- c5, sub <- c6,
        gone <- c7, leaving <- c8, callback <- c9, pipeline <- c10, runs <- c11,
        down <- c12,
        AgentUser <- User
I == INSTANCE InsightsAgents WITH
        bus <- c1, seen <- c2, hand <- c3, reg <- c4, agent <- c5, sup <- c6, lease <- c7,
        live <- c8, faults <- c9
S == INSTANCE SynthesisTask WITH
        caller <- c1, flight <- c2, conn <- c3, on <- c4, queue <- c5, table <- c6,
        begun <- c7, texts <- c8, target <- c9, shut <- c10,
        QueueSize <- TextQueue

cells8 == <<c1, c2, c3, c4, c5, c6, c7, c8>>
cells9 == <<cells8, c9>>
cells == <<c1, c2, c3, c4, c5, c6, c7, c8, c9, c10, c11, c12>>

Init ==
    \/ active = "stream" /\ V!StreamInit
    \/ active = "export" /\ E!Init /\ c9 = None /\ c10 = None /\ c11 = None /\ c12 = None
    \/ active = "room agent" /\ G!AgentInit
    \/ active = "agents" /\ I!AgentsInit /\ c10 = None /\ c11 = None /\ c12 = None
    \/ active = "synthesis" /\ S!SynthesisInit /\ c11 = None /\ c12 = None

Next ==
    \/ active = "stream" /\ V!StreamNext /\ UNCHANGED active
    \/ active = "export" /\ E!Next /\ UNCHANGED <<active, c9, c10, c11, c12>>
    \/ active = "room agent" /\ G!AgentNext /\ UNCHANGED active
    \/ active = "agents" /\ I!AgentsNext /\ UNCHANGED <<active, c10, c11, c12>>
    \/ active = "synthesis" /\ S!SynthesisNext /\ UNCHANGED <<active, c11, c12>>

(* The fairness of the components' own specifications.                     *)
Fairness ==
    /\ WF_cells(active = "stream" /\ V!CloseAudio)
    /\ WF_cells(active = "stream" /\ V!TaskStep)
    /\ WF_cells(active = "stream" /\ V!PipeEnds)
    /\ WF_cells(active = "stream" /\ V!CommitStep)
    /\ WF_cells(active = "stream" /\ V!WriterStep)
    /\ WF_cells(active = "stream" /\ V!ReaderStep)
    /\ WF_cells(active = "stream" /\ V!TranslationEnds)
    /\ WF_cells(active = "stream" /\ V!CloserWait)
    /\ WF_cells(active = "stream" /\ V!HandleStep)
    /\ \A s \in Sids : WF_cells8(active = "export" /\ E!Export(s))
    /\ WF_cells8(active = "export" /\ E!DeadLockExpires)
    /\ \A r \in 1 .. MaxRuns :
          /\ WF_cells(active = "room agent" /\ G!StartRun(r))
          /\ WF_cells(active = "room agent" /\ G!CancelledRunReturns(r))
    /\ WF_cells(active = "room agent" /\ G!ShutdownCancel)
    /\ WF_cells(active = "room agent" /\ G!ShutdownWait)
    /\ \A s \in Host : WF_cells9(active = "agents" /\ I!HandlerStep(s))
    /\ \A a \in 1 .. MaxAgents :
          /\ WF_cells9(active = "agents" /\ I!SupervisorStep(a))
          /\ WF_cells9(active = "agents" /\ I!RoomDisconnects(a))
    /\ WF_cells9(active = "agents" /\ I!LeaseExpires)

Spec == Init /\ [][Next]_<<active, cells>> /\ Fairness

-----------------------------------------------------------------------------
(* The properties of the component that is active, as its module has them. *)

(* Every variable keeps its shape.                                         *)
TypesOK ==
    CASE active = "stream" -> V!StreamTypeOK
      [] active = "export" -> E!ExportTypeOK
      [] active = "room agent" -> G!AgentTypeOK
      [] active = "agents" -> I!AgentsTypeOK
      [] active = "synthesis" -> S!SynthesisTypeOK

(* The results are closed after the last sender is gone, and a segment     *)
(* counts only chunks that were queued (realtime_stream.go).               *)
StreamKeepsOrder == active = "stream" => V!ResultsClosedLast /\ V!CommitHasAudio

(* A call of RunAudioStream is what a room agent takes it for: an inactive *)
(* stream is a call that is not made.                                      *)
Task == INSTANCE AudioTask WITH
          phase <- IF active = "stream" THEN V!Phase ELSE "new",
          meter <- IF active = "stream" THEN c12 ELSE "none"
ImplementsAudioTask == Task!TaskSpec

(* A run nobody cancelled is found by whoever ends the task, the track or  *)
(* the permission (room_agent.go).                                         *)
RunIsReachable == active = "room agent" => G!RunIsReachable

(* An agent that is connected is in its server's map or about to be closed,*)
(* and without faults a room has one (insights_agent.go).                  *)
AgentsAreReachable ==
    active = "agents" => I!OneAgentWithoutFaults /\ I!ConnectedIsReachable

(* An agent of a synthesis worker has somebody who will take it out        *)
(* (task_transcription_synthesis.go).                                      *)
AgentsAreOwned == active = "synthesis" => S!AgentsAreOwned

(* No event is in the artifacts of two sessions (analytics_export.go).     *)
NoEventTwice == active = "export" => E!NoEventTwice

(* An export never deletes what the session that runs now has recorded     *)
(* (analytics_export.go:47-72).                                            *)
ExportSparesOpenSession == [][active = "export" => E!SparesOpenSession]_cells

(* TaskReturns, ExportsEnd, ShutdownStopsRuns and AgentsConverge, as one   *)
(* formula: a cancelled stream returns, a scheduled export ends and gives  *)
(* its lock back, a shutdown stops every run, and two agents become one.   *)
Begun ==
    CASE active = "stream" -> V!Cancelled
      [] active = "export" -> \E s \in Sids : E!Scheduled(s)
      [] active = "room agent" -> G!ShuttingDown
      [] active = "agents" -> I!Several
      [] active = "synthesis" -> FALSE
Over ==
    CASE active = "stream" -> V!Gone
      [] active = "export" -> \A s \in Sids : E!Ended(s)
      [] active = "room agent" -> G!Stopped
      [] active = "agents" -> ~I!Several
      [] active = "synthesis" -> FALSE
EndsInTheEnd == Begun ~> Over
=============================================================================
