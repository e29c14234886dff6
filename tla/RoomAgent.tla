----------------------------- MODULE RoomAgent -----------------------------
(***************************************************************************)
(* One insights agent of a room: whose tasks are on, which microphone      *)
(* tracks it is subscribed to, and a pipeline for each, with one run of    *)
(* insights.Task (AudioTask).  Requests, callbacks of the LiveKit client   *)
(* and the shutdown interleave; the agent's lock covers parts of them.     *)
(*                                                                         *)
(* The agent is in the mode in which users turn their tasks on one by one. *)
(* LiveKit is modelled from how the agent uses it: a subscription that was *)
(* asked for is confirmed by one callback, one that ends by another, and   *)
(* asking for what there is already does nothing.                          *)
(***************************************************************************)
EXTENDS Naturals, FiniteSets

CONSTANTS
    AgentUser, \* users of the room
    MaxTracks, \* bound: times a user publishes the microphone
    MaxRuns    \* bound: pipelines that are made

VARIABLES
    allowed,  \* allowedUsers; empty for everybody
    active,   \* activeUserTasks: whose task is on
    turning,  \* users between ActivateTaskForUser's lock and its subscription
    track,    \* how often each user published
    up,       \* users whose microphone is published now
    sub,      \* the subscription to each user's present track
    gone,     \* ends of subscriptions the agent is not told of yet
    leaving,  \* users whom endTasksForUser's goroutine will unsubscribe
    callback, \* onTrackSubscribed between its two locked parts: user and track
    pipeline, \* activePipelines: each user's run, 0 for none
    runs,     \* every run: whose, of which track, cancelled, and its state
    down      \* the shutdown: "no", "flag", "cancelled" or "done"

agentVars == <<allowed, active, turning, track, up, sub, gone, leaving, callback,
               pipeline, runs, down>>

Run == 1 .. MaxRuns
RunState == {"none", "adding", "running", "over"}

AgentInit ==
    /\ allowed = {}
    /\ active = {}
    /\ turning = {}
    /\ track = [u \in AgentUser |-> 0]
    /\ up = {}
    /\ sub = [u \in AgentUser |-> "off"]
    /\ gone = {}
    /\ leaving = {}
    /\ callback = {}
    /\ pipeline = [u \in AgentUser |-> 0]
    /\ runs = [r \in Run |-> [state |-> "none", user |-> CHOOSE u \in AgentUser : TRUE,
                              track |-> 0, cancelled |-> FALSE]]
    /\ down = "no"

Nobody == {}
Allows(list, u) == list = Nobody \/ u \in list

(* The lock is kept from the look at shuttingDown until wg.Add.            *)
LockIsFree == \A r \in Run : runs[r].state # "adding"

Cancel(R) == [r \in Run |-> IF r \in R THEN [runs[r] EXCEPT !.cancelled = TRUE] ELSE runs[r]]

(* endTasksForUser, for several users: their pipelines are cancelled, and  *)
(* a goroutine will unsubscribe those who had one.                         *)
EndFor(U) ==
    /\ active' = active \ U
    /\ pipeline' = [u \in AgentUser |-> IF u \in U THEN 0 ELSE pipeline[u]]
    /\ runs' = Cancel({pipeline[u] : u \in U})
    /\ leaving' = leaving \cup {u \in U : pipeline[u] # 0}

-----------------------------------------------------------------------------
(* Requests from the model, while the agent is in the map.                 *)

(* UpdateAllowedUsers: users who are not listed are stopped.               *)
UpdateAllowedUsers(list) ==
    /\ down = "no"
    /\ LockIsFree
    /\ allowed' = list
    /\ EndFor(active \ list)
    /\ UNCHANGED <<turning, track, up, sub, gone, callback, down>>

(* ActivateTaskForUser, under the lock.                                    *)
ActivateTaskForUser(u) ==
    /\ down = "no"
    /\ LockIsFree
    /\ Allows(allowed, u)
    /\ u \notin active \cup turning
    /\ active' = active \cup {u}
    /\ turning' = turning \cup {u}
    /\ UNCHANGED <<allowed, track, up, sub, gone, leaving, callback, pipeline, runs, down>>

Ask(u) == sub' = [sub EXCEPT ![u] = IF @ = "off" THEN "asked" ELSE @]

(* ... and its subscription to a microphone that is already there; when    *)
(* that fails the task is taken back.                                      *)
ActivateSubscribe(u) ==
    /\ u \in turning
    /\ turning' = turning \ {u}
    /\ \/ u \in up /\ Ask(u) /\ UNCHANGED active
       \/ u \in up /\ LockIsFree /\ active' = active \ {u} /\ UNCHANGED sub
       \/ u \notin up /\ UNCHANGED <<active, sub>>
    /\ UNCHANGED <<allowed, track, up, gone, leaving, callback, pipeline, runs, down>>

EndTasksForUser(u) ==
    /\ down = "no"
    /\ LockIsFree
    /\ u \in active
    /\ EndFor({u})
    /\ UNCHANGED <<allowed, turning, track, up, sub, gone, callback, down>>

(* What the present subscription leaves behind when it ends.               *)
Ended(u) == IF sub[u] = "on" THEN {<<u, track[u]>>} ELSE {}

(* The goroutine of endTasksForUser.                                       *)
Unsubscribe(u) ==
    /\ u \in leaving
    /\ leaving' = leaving \ {u}
    /\ sub' = [sub EXCEPT ![u] = "off"]
    /\ gone' = gone \cup Ended(u)
    /\ UNCHANGED <<allowed, active, turning, track, up, callback, pipeline, runs, down>>

-----------------------------------------------------------------------------
(* Tracks, and the callbacks of the LiveKit client.                        *)

(* onTrackPublished subscribes when the user's task is on.                 *)
OnTrackPublished(u) ==
    /\ down = "no"
    /\ LockIsFree
    /\ u \notin up
    /\ track[u] < MaxTracks
    /\ track' = [track EXCEPT ![u] = @ + 1]
    /\ up' = up \cup {u}
    /\ sub' = [sub EXCEPT ![u] = IF u \in active THEN "asked" ELSE "off"]
    /\ UNCHANGED <<allowed, active, turning, gone, leaving, callback, pipeline, runs, down>>

Unpublish(u) ==
    /\ u \in up
    /\ up' = up \ {u}
    /\ sub' = [sub EXCEPT ![u] = "off"]
    /\ gone' = gone \cup Ended(u)
    /\ UNCHANGED <<allowed, active, turning, track, leaving, callback, pipeline, runs, down>>

(* onTrackSubscribed, its first part: the options are read.                *)
OnTrackSubscribed(u) ==
    /\ sub[u] = "asked"
    /\ down = "no"
    /\ LockIsFree
    /\ sub' = [sub EXCEPT ![u] = "on"]
    /\ callback' = IF u \in active THEN callback \cup {<<u, track[u]>>} ELSE callback
    /\ UNCHANGED <<allowed, active, turning, track, up, gone, leaving, pipeline, runs, down>>

(* The decryptor or the transcoder cannot be made.                         *)
TranscoderFails(c) ==
    /\ c \in callback
    /\ callback' = callback \ {c}
    /\ UNCHANGED <<allowed, active, turning, track, up, sub, gone, leaving, pipeline, runs,
                   down>>

NextRun == Cardinality({r \in Run : runs[r].state # "none"}) + 1

(* Variant with a bug: the pipeline that is replaced runs on.              *)
StorePipelineOver(c) ==
    LET u == c[1]
        new == [state |-> IF down = "no" THEN "adding" ELSE "over", user |-> u,
                track |-> c[2], cancelled |-> FALSE]
    IN /\ c \in callback
       /\ LockIsFree
       /\ NextRun \in Run
       /\ callback' = callback \ {c}
       /\ runs' = [runs EXCEPT ![NextRun] = new]
       /\ pipeline' = [pipeline EXCEPT ![u] = NextRun]
       /\ UNCHANGED <<allowed, active, turning, track, up, sub, gone, leaving, down>>

(* Its second part: a pipeline of the same user is cancelled and replaced, *)
(* and shuttingDown is looked at.                                          *)
StorePipeline(c) ==
    LET u == c[1]
        new == [state |-> IF down = "no" THEN "adding" ELSE "over", user |-> u,
                track |-> c[2], cancelled |-> FALSE]
    IN /\ c \in callback
       /\ LockIsFree
       /\ NextRun \in Run
       /\ callback' = callback \ {c}
       /\ runs' = [Cancel({pipeline[u]}) EXCEPT ![NextRun] = new]
       /\ pipeline' = [pipeline EXCEPT ![u] = NextRun]
       /\ UNCHANGED <<allowed, active, turning, track, up, sub, gone, leaving, down>>

SetRun(r, state) == runs' = [runs EXCEPT ![r].state = state]

(* wg.Add(1), the lock is given back and the task is run.                  *)
StartRun(r) ==
    /\ runs[r].state = "adding"
    /\ SetRun(r, "running")
    /\ UNCHANGED <<allowed, active, turning, track, up, sub, gone, leaving, callback,
                   pipeline, down>>

(* RunAudioStream returns because it was cancelled, or could not begin.    *)
ContextDone(r) == runs[r].cancelled \/ down \in {"cancelled", "done"}

RunReturns(r) ==
    /\ runs[r].state = "running"
    /\ SetRun(r, "over")
    /\ UNCHANGED <<allowed, active, turning, track, up, sub, gone, leaving, callback,
                   pipeline, down>>

(* onTrackUnsubscribed: only the pipeline of that very track is ended.     *)
OnTrackUnsubscribed(c) ==
    LET u == c[1]
        ends == pipeline[u] # 0 /\ runs[pipeline[u]].track = c[2]
    IN /\ c \in gone
       /\ LockIsFree
       /\ gone' = gone \ {c}
       /\ runs' = IF ends THEN Cancel({pipeline[u]}) ELSE runs
       /\ pipeline' = IF ends THEN [pipeline EXCEPT ![u] = 0] ELSE pipeline
       /\ UNCHANGED <<allowed, active, turning, track, up, sub, leaving, callback, down>>

-----------------------------------------------------------------------------
(* shutdownOnce, from Shutdown or from onDisconnected.                     *)

(* The flag, and Room.Disconnect, which ends every subscription.           *)
ShutdownFlag ==
    /\ down = "no"
    /\ down' = "flag"
    /\ gone' = gone \cup UNION {Ended(u) : u \in AgentUser}
    /\ sub' = [u \in AgentUser |-> "off"]
    /\ UNCHANGED <<allowed, active, turning, track, up, leaving, callback, pipeline, runs>>

(* Variant with a bug: the runs are waited for before their context is     *)
(* cancelled.                                                              *)
ShutdownCancelLate ==
    /\ down = "flag"
    /\ \A r \in Run : runs[r].state # "running"
    /\ down' = "cancelled"
    /\ UNCHANGED <<allowed, active, turning, track, up, sub, gone, leaving, callback,
                   pipeline, runs>>

ShutdownCancel ==
    /\ down = "flag"
    /\ down' = "cancelled"
    /\ UNCHANGED <<allowed, active, turning, track, up, sub, gone, leaving, callback,
                   pipeline, runs>>

(* wg.Wait.                                                                *)
ShutdownWait ==
    /\ down = "cancelled"
    /\ \A r \in Run : runs[r].state # "running"
    /\ down' = "done"
    /\ UNCHANGED <<allowed, active, turning, track, up, sub, gone, leaving, callback,
                   pipeline, runs>>

-----------------------------------------------------------------------------
AgentNext ==
    \/ \E list \in SUBSET AgentUser : UpdateAllowedUsers(list)
    \/ \E u \in AgentUser :
          \/ ActivateTaskForUser(u) \/ ActivateSubscribe(u) \/ EndTasksForUser(u)
          \/ Unsubscribe(u) \/ OnTrackPublished(u) \/ Unpublish(u) \/ OnTrackSubscribed(u)
    \/ \E c \in callback : TranscoderFails(c) \/ StorePipeline(c)
    \/ \E c \in gone : OnTrackUnsubscribed(c)
    \/ \E r \in Run : StartRun(r) \/ RunReturns(r)
    \/ ShutdownFlag \/ ShutdownCancel \/ ShutdownWait

(* The agent's goroutines go on, callbacks are delivered, and a run whose  *)
(* context is done returns (AudioTask, TranscriptionStream!TaskReturns).   *)
CancelledRunReturns(r) == ContextDone(r) /\ RunReturns(r)
AgentFairness ==
    /\ \A r \in Run : WF_agentVars(StartRun(r)) /\ WF_agentVars(CancelledRunReturns(r))
    /\ WF_agentVars(ShutdownCancel) /\ WF_agentVars(ShutdownWait)

AgentSpec == AgentInit /\ [][AgentNext]_agentVars /\ AgentFairness

-----------------------------------------------------------------------------
AgentTypeOK ==
    /\ allowed \subseteq AgentUser
    /\ active \subseteq AgentUser
    /\ turning \subseteq AgentUser
    /\ track \in [AgentUser -> 0 .. MaxTracks]
    /\ up \subseteq AgentUser
    /\ sub \in [AgentUser -> {"off", "asked", "on"}]
    /\ gone \subseteq AgentUser \X (1 .. MaxTracks)
    /\ leaving \subseteq AgentUser
    /\ callback \subseteq AgentUser \X (1 .. MaxTracks)
    /\ pipeline \in [AgentUser -> 0 .. MaxRuns]
    /\ runs \in [Run -> [state : RunState, user : AgentUser, track : 0 .. MaxTracks,
                         cancelled : BOOLEAN]]
    /\ down \in {"no", "flag", "cancelled", "done"}

(* A run that nobody cancelled is its user's entry in the pipelines, where *)
(* the end of the task, of the track or of the permission finds it: no run *)
(* is left over when a track is negotiated again and the end of the old    *)
(* subscription is told late.                                              *)
RunIsReachable ==
    \A r \in Run :
        runs[r].state \in {"adding", "running"} /\ ~runs[r].cancelled
            => pipeline[runs[r].user] = r

(* Who publishes, or is subscribed to, has published a track.              *)
TracksAreNumbered == \A u \in AgentUser : sub[u] # "off" \/ u \in up => track[u] # 0

AgentInvariant == AgentTypeOK /\ TracksAreNumbered /\ RunIsReachable

(* A shutdown, whatever callbacks are under way, comes to an end, and      *)
(* leaves no run behind.                                                   *)
Stopped == down = "done" /\ \A r \in Run : runs[r].state # "running"
ShuttingDown == down # "no"
ShutdownStopsRuns == ShuttingDown ~> Stopped

(* Refuted: once a user's task was ended, no pipeline of the user runs     *)
(* (room_agent.go:343).                                                    *)
EndedTaskIsOff ==
    \A u \in AgentUser \ active :
        \A r \in Run : runs[r].user = u /\ runs[r].state = "running" => ContextDone(r)
=============================================================================
