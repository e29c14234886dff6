----------------------------- MODULE AudioTask -----------------------------
(***************************************************************************)
(* What a room agent may rely on when it starts insights.Task on a track:  *)
(* RunAudioStream fails at once or runs until it returns, and the usage    *)
(* session it opens for the user is closed by then and not opened again.   *)
(***************************************************************************)
VARIABLES
    phase, \* the call: not made, running, returned an error, returned
    meter  \* the user's entry among the transcription sessions in Redis

taskVars == <<phase, meter>>

TaskInit == phase = "new" /\ meter = "none"

Start == phase = "new" /\ phase' = "running" /\ UNCHANGED meter

Refuse == phase = "new" /\ phase' = "failed" /\ UNCHANGED meter

(* The provider says that the session began; it may never do so.           *)
OpenMeter ==
    /\ phase = "running"
    /\ meter = "none"
    /\ meter' = "open"
    /\ UNCHANGED phase

CloseMeter ==
    /\ phase = "running"
    /\ meter # "closed"
    /\ meter' = "closed"
    /\ UNCHANGED phase

Return ==
    /\ phase = "running"
    /\ meter = "closed"
    /\ phase' = "returned"
    /\ UNCHANGED meter

TaskNext == Start \/ Refuse \/ OpenMeter \/ CloseMeter \/ Return

TaskSpec == TaskInit /\ [][TaskNext]_taskVars
=============================================================================
