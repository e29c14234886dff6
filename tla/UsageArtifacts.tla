---------------------------- MODULE UsageArtifacts ----------------------------
(***************************************************************************)
(* What a session used of the paid services, from the counters in Redis to *)
(* the artifacts that are created when the session ends.                   *)
(*                                                                         *)
(* Counters are kept by room id, so the sessions of a room share them, and *)
(* what an agent or a request counts late is found there by the next       *)
(* session's end.  Three kinds are told apart by how the end takes them:   *)
(*   metered  transcription, chat translation and synthesis: read and      *)
(*            deleted in one transaction;                                  *)
(*   chat     AI chat: read, then deleted with the users' conversations;   *)
(*   history  the texts of the transcription: read, then deleted.          *)
(* What a unit costs is not modelled.                                      *)
(***************************************************************************)
EXTENDS Naturals, FiniteSets

CONSTANTS
    Chat,      \* requests to the AI chat, of one user
    Audio,     \* transcription tasks of one user, which may overlap
    Window,    \* messages of a conversation before it is summarised
    MaxUnits,  \* bound: translations and texts counted
    MaxEnds,   \* bound: sessions of the room that end
    MaxTime    \* bound: seconds

VARIABLES
    usage,     \* what Redis holds of each kind
    made,      \* what was used of each kind and had to be counted
    settled,   \* what artifacts record of each kind
    lost,      \* what a step that failed lost of the metered usage
    end,       \* where the end of a session is, and what it has read
    ended,     \* sessions that have ended
    chat,      \* where each request is
    context,   \* messages in the conversation
    audio,     \* every task: where it is, and the start it has read
    start,     \* the start of the user's transcription in Redis, 0 for none
    clock,     \* seconds
    used,      \* seconds during which a task of the user was at work
    billed,    \* seconds counted for it
    course     \* of the user's tasks: "alone" as long as one at a time is at work,
               \* "left" while the start in Redis is one that an end left there,
               \* "mixed" once two were at work together or such a start was read

usageVars == <<usage, made, settled, lost, end, ended, chat, context,
               audio, start, clock, used, billed, course>>
endVars == <<end, ended, settled, lost>>
audioVars == <<audio, start, clock, used, billed, course>>
chatVars == <<chat, context>>

Kind == {"metered", "chat", "history"}
None == [k \in Kind |-> 0]

UsageInit ==
    /\ usage = None /\ made = None /\ settled = None /\ lost = 0
    /\ end = [at |-> "open", got |-> 0]
    /\ ended = 0
    /\ chat = [c \in Chat |-> "idle"]
    /\ context = 0
    /\ audio = [t \in Audio |-> [at |-> "off", seen |-> 0]]
    /\ start = 0
    /\ clock = 1
    /\ used = 0
    /\ billed = 0
    /\ course = "alone"

Add(counter, k, n) == [counter EXCEPT ![k] = @ + n]

\* HINCRBY of the user's and the total's field, in one transaction.
Count(k, n) ==
    /\ usage' = Add(usage, k, n)
    /\ made' = Add(made, k, n)

-----------------------------------------------------------------------------
(* A text that is translated, one that is spoken and one that is stored.   *)
CountText(k) ==
    /\ made[k] < MaxUnits
    /\ Count(k, 1)
    /\ UNCHANGED <<endVars, chatVars, audioVars>>

UpdateChatTranslationUsage == CountText("metered")
UpdateTTSServiceUsage == CountText("metered")
AddTranscriptionToHistory == CountText("history")

\* The transaction fails: whoever asked for it logs that.
Lose(n) == lost' = lost + n

CountFails(n) ==
    /\ made' = Add(made, "metered", n)
    /\ Lose(n)
    /\ UNCHANGED <<usage, settled, end, ended, chatVars>>

TextIsNotCounted ==
    /\ made["metered"] < MaxUnits
    /\ CountFails(1)
    /\ UNCHANGED audioVars

\* A day after the last count the key is gone.
CounterExpires ==
    /\ usage["metered"] > 0
    /\ Lose(usage["metered"])
    /\ usage' = [usage EXCEPT !["metered"] = 0]
    /\ UNCHANGED <<made, settled, end, ended, chatVars, audioVars>>

-----------------------------------------------------------------------------
(* HandleTranscriptionUsage: the start is kept when the provider says the  *)
(* session has started; the task's end reads it, deletes it and counts.    *)
Move(t, place) == audio' = [audio EXCEPT ![t].at = place]

AtWork(t) == audio[t].at \notin {"off", "done"}

\* Another task at work mixes them up, and so does a start that is not the task's.
After(t, next) ==
    course' = IF course = "mixed" \/ \E other \in Audio \ {t} : AtWork(other)
              THEN "mixed" ELSE next

\* A provider that connects anew says so again.
SessionStarted(t) ==
    /\ audio[t].at \in {"off", "on"}
    /\ start' = clock
    /\ Move(t, "on")
    /\ After(t, "alone")
    /\ UNCHANGED <<usage, made, endVars, chatVars, clock, used, billed>>

\* HSET fails, and the task goes on.
SessionStartedFails(t) ==
    /\ audio[t].at \in {"off", "on"}
    /\ Move(t, "on")
    /\ After(t, course)
    /\ UNCHANGED <<usage, made, endVars, chatVars, start, clock, used, billed>>

\* The task may end before the provider has started anything.
ReadStart(t) ==
    /\ audio[t].at \in {"off", "on"}
    /\ audio' = [audio EXCEPT ![t] = [at |-> IF start = 0 THEN "done" ELSE "delete", seen |-> start]]
    /\ After(t, IF course = "left" THEN "mixed" ELSE course)
    /\ UNCHANGED <<usage, made, endVars, chatVars, start, clock, used, billed>>

\* HGET fails, or the server of the task dies: the start stays.
ReadStartFails(t) ==
    /\ audio[t].at \in {"off", "on"}
    /\ Move(t, "done")
    /\ After(t, IF start = 0 THEN course ELSE "left")
    /\ UNCHANGED <<usage, made, endVars, chatVars, start, clock, used, billed>>

\* Variant with a bug: the start is left where it is.
DeleteStartNot(t) ==
    /\ audio[t].at = "delete"
    /\ Move(t, "count")
    /\ UNCHANGED <<usage, made, endVars, chatVars, start, clock, used, billed, course>>

DeleteStart(t) ==
    /\ audio[t].at = "delete"
    /\ start' = 0
    /\ Move(t, "count")
    /\ UNCHANGED <<usage, made, endVars, chatVars, clock, used, billed, course>>

\* HDEL fails, which is logged: the duration is counted all the same.
DeleteStartFails(t) ==
    /\ audio[t].at = "delete"
    /\ Move(t, "count")
    /\ After(t, "left")
    /\ UNCHANGED <<usage, made, endVars, chatVars, start, clock, used, billed>>

CountDuration(t) ==
    /\ audio[t].at = "count"
    /\ Count("metered", clock - audio[t].seen)
    /\ billed' = billed + (clock - audio[t].seen)
    /\ Move(t, "done")
    /\ UNCHANGED <<endVars, chatVars, start, clock, used, course>>

\* So is the start, a day after any of the room was kept.
StartExpires ==
    /\ start # 0
    /\ start' = 0
    /\ course' = IF course = "left" THEN "alone" ELSE course
    /\ UNCHANGED <<usage, made, endVars, chatVars, audio, clock, used, billed>>

DurationIsNotCounted(t) ==
    /\ audio[t].at = "count"
    /\ CountFails(clock - audio[t].seen)
    /\ Move(t, "done")
    /\ UNCHANGED <<start, clock, used, billed, course>>

Tick ==
    /\ clock < MaxTime
    /\ clock' = clock + 1
    /\ used' = used + (IF \E t \in Audio : AtWork(t) THEN 1 ELSE 0)
    /\ UNCHANGED <<usage, made, endVars, chatVars, audio, start, billed, course>>

-----------------------------------------------------------------------------
(* AITextChatRequest.  A request from the notepad or the whiteboard keeps  *)
(* no conversation and counts nothing: it changes none of this.            *)
Turn(c, from, to) ==
    /\ chat[c] = from
    /\ chat' = [chat EXCEPT ![c] = to]

buildHistoryWithUserPrompt(c) ==
    /\ Turn(c, "idle", "stream")
    /\ context' = context + 1
    /\ UNCHANGED <<usage, made, endVars, audioVars>>

StreamFails(c) ==
    /\ Turn(c, "stream", "done")
    /\ UNCHANGED <<usage, made, endVars, context, audioVars>>

AppendAnswer(c) ==
    /\ Turn(c, "stream", "count")
    /\ context' = context + 1
    /\ UNCHANGED <<usage, made, endVars, audioVars>>

UpdateAITextChatUsage(c) ==
    /\ \/ Turn(c, "count", "check") \/ Turn(c, "countSummary", "done")
    /\ Count("chat", 1)
    /\ UNCHANGED <<endVars, context, audioVars>>

\* The conversation is summarised after every answer once it is long enough:
\* nothing shortens it before the session's end.
CheckAndSummarize(c) ==
    /\ \/ context < Window /\ Turn(c, "check", "done")
       \/ context >= Window /\ Turn(c, "check", "summarise")
    /\ UNCHANGED <<usage, made, endVars, context, audioVars>>

SetAITextChatSummary(c) ==
    /\ \/ Turn(c, "summarise", "countSummary")
       \/ Turn(c, "summarise", "done")
    /\ UNCHANGED <<usage, made, endVars, context, audioVars>>

-----------------------------------------------------------------------------
(* CreateAllRoomUsageArtifacts, one kind after another.  A read that fails *)
(* leaves the kind to the next session.                                    *)
EndGoes(from, to) ==
    /\ end.at = from
    /\ end' = [at |-> to, got |-> 0]

OnAfterRoomEnded ==
    /\ ended < MaxEnds
    /\ EndGoes("open", "history")
    /\ UNCHANGED <<usage, made, settled, lost, ended, chatVars, audioVars>>

GetTranscriptionHistory ==
    /\ end.at = "history"
    /\ \/ end' = [at |-> "forget", got |-> usage["history"]] /\ usage["history"] > 0
       \/ EndGoes("history", "metered")
    /\ UNCHANGED <<usage, made, settled, lost, ended, chatVars, audioVars>>

\* Its error is not looked at.
DeleteTranscriptionHistory ==
    /\ end.at = "forget"
    /\ usage' \in {usage, [usage EXCEPT !["history"] = 0]}
    /\ end' = [end EXCEPT !.at = "file"]
    /\ UNCHANGED <<made, settled, lost, ended, chatVars, audioVars>>

\* createAndSaveArtifact, and what it does not create is only logged.
Lapse == Lose(IF end.at = "artifact" THEN end.got ELSE 0)

createAndSaveArtifact(from, k, to) ==
    /\ EndGoes(from, to)
    /\ \/ settled' = Add(settled, k, end.got) /\ UNCHANGED lost
       \/ Lapse /\ UNCHANGED settled
    /\ UNCHANGED <<usage, made, chatVars, audioVars>>

FileArtifact == createAndSaveArtifact("file", "history", "metered") /\ UNCHANGED ended
UsageArtifact == createAndSaveArtifact("artifact", "metered", "chat") /\ UNCHANGED ended

\* The server dies before the end is done: nobody takes it up.
EndStops ==
    /\ end.at # "open"
    /\ EndGoes(end.at, "open")
    /\ ended' = ended + 1
    /\ Lapse
    /\ UNCHANGED <<usage, made, settled, chatVars, audioVars>>

\* Variant with a bug: the counter is read and deleted by two commands.
TakeUsageInTwo ==
    /\ \/ /\ end.at = "metered"
          /\ end' = [at |-> "delete", got |-> usage["metered"]]
          /\ UNCHANGED usage
       \/ /\ end.at = "delete"
          /\ end' = [end EXCEPT !.at = "artifact"]
          /\ usage' = [usage EXCEPT !["metered"] = 0]
    /\ UNCHANGED <<made, settled, lost, ended, chatVars, audioVars>>

\* HGETALL and DEL in one transaction: it fails as a whole, or its answer is lost.
TakeUsage ==
    /\ end.at = "metered"
    /\ \/ /\ end' = [at |-> "artifact", got |-> usage["metered"]]
          /\ usage["metered"] > 0
          /\ usage' = [usage EXCEPT !["metered"] = 0]
          /\ UNCHANGED lost
       \/ /\ EndGoes("metered", "chat")
          /\ \/ UNCHANGED <<usage, lost>>
             \/ Lose(usage["metered"]) /\ usage' = [usage EXCEPT !["metered"] = 0]
    /\ UNCHANGED <<made, settled, ended, chatVars, audioVars>>

\* GetAITextChatRoomUsage reads the counter; nobody was counted, nothing is cleaned.
GetAITextChatRoomUsage ==
    /\ end.at = "chat"
    /\ \/ end' = [at |-> "clean", got |-> usage["chat"]] /\ usage["chat"] > 0 /\ UNCHANGED ended
       \/ EndGoes("chat", "open") /\ ended' = ended + 1
    /\ UNCHANGED <<usage, made, settled, lost, chatVars, audioVars>>

\* The counter and the conversations of those it counted go; an error is logged.
CleanupAITextChat ==
    /\ end.at = "clean"
    /\ end' = [end EXCEPT !.at = "chatArtifact"]
    /\ \/ usage' = [usage EXCEPT !["chat"] = 0] /\ context' = 0
       \/ UNCHANGED <<usage, context>>
    /\ UNCHANGED <<made, settled, lost, ended, chat, audioVars>>

ChatArtifacts == createAndSaveArtifact("chatArtifact", "chat", "open") /\ ended' = ended + 1

UsageNext ==
    \/ UpdateChatTranslationUsage \/ UpdateTTSServiceUsage \/ AddTranscriptionToHistory
    \/ TextIsNotCounted \/ CounterExpires \/ StartExpires
    \/ \E t \in Audio :
          \/ SessionStarted(t) \/ SessionStartedFails(t) \/ ReadStart(t) \/ ReadStartFails(t)
          \/ DeleteStart(t) \/ DeleteStartFails(t) \/ CountDuration(t) \/ DurationIsNotCounted(t)
    \/ Tick
    \/ \E c \in Chat :
          \/ buildHistoryWithUserPrompt(c) \/ StreamFails(c) \/ AppendAnswer(c)
          \/ UpdateAITextChatUsage(c) \/ CheckAndSummarize(c) \/ SetAITextChatSummary(c)
    \/ OnAfterRoomEnded \/ EndStops \/ GetTranscriptionHistory \/ DeleteTranscriptionHistory
    \/ FileArtifact \/ TakeUsage \/ UsageArtifact
    \/ GetAITextChatRoomUsage \/ CleanupAITextChat \/ ChatArtifacts

UsageSpec == UsageInit /\ [][UsageNext]_usageVars

-----------------------------------------------------------------------------
UsageTypeOK ==
    /\ usage \in [Kind -> Nat] /\ made \in [Kind -> Nat] /\ settled \in [Kind -> Nat]
    /\ end \in [at : {"open", "history", "forget", "file", "metered", "artifact",
                      "chat", "clean", "chatArtifact"}, got : Nat]
    /\ ended \in 0 .. MaxEnds
    /\ chat \in [Chat -> {"idle", "stream", "count", "check", "summarise", "countSummary", "done"}]
    /\ context \in Nat
    /\ audio \in [Audio -> [at : {"off", "on", "delete", "count", "done"}, seen : 0 .. MaxTime]]
    /\ start \in 0 .. MaxTime
    /\ clock \in 1 .. MaxTime
    /\ used \in Nat /\ billed \in Nat
    /\ course \in {"alone", "left", "mixed"}
    /\ lost \in Nat

\* Where the units of a kind are: in Redis, in an artifact, or in the hand of the
\* end that is about to create one.
Found(k, place) == usage[k] + settled[k] + (IF end.at = place THEN end.got ELSE 0)

\* Whatever fails, what transcription, translation and synthesis count is never
\* counted twice, and no more of it is missing than what the steps that failed
\* had in their hands or the day's limit took: however late it came and whatever the end of a session was
\* doing, it is in Redis or recorded by one artifact.
UsageIsAccounted == made["metered"] = Found("metered", "artifact") + lost

\* As long as the tasks of a user do not overlap nobody is billed for more time
\* than a task was at work: not even by a task that ended before it had started,
\* unless it finds the start that an earlier end could not read or delete.
BilledWhenAlone == course # "mixed" => billed <= used

\* What it rests on: until they are mixed up the start in Redis is that of the
\* task at work, if it was stored, and what will be counted for it has passed since.
StartIsRight(t) ==
    /\ audio[t].at = "on" /\ course = "alone" /\ start # 0 => billed + (clock - start) <= used
    /\ audio[t].at \in {"delete", "count"} => billed + (clock - audio[t].seen) <= used

OneAtWork ==
    /\ \A t, u \in Audio : AtWork(t) /\ AtWork(u) => t = u
    /\ course = "alone" /\ start # 0 => \E t \in Audio : audio[t].at \in {"on", "delete"}
    /\ \A t \in Audio : StartIsRight(t)

UsageInvariant ==
    /\ UsageTypeOK
    /\ start <= clock /\ \A t \in Audio : audio[t].seen <= clock
    /\ end.at # "open" => ended < MaxEnds
    /\ UsageIsAccounted /\ BilledWhenAlone
    /\ course # "mixed" => OneAtWork

\* Refuted: the usage of the AI chat is taken and its key cleaned up atomically,
\* so that none of it is lost (artifact_ai_text_chat_session.go, the comment "1.
\* Atomically get all usage data from Redis and clean up the key").
ChatUsageIsAccounted ==
    made["chat"] <= Found("chat", "chatArtifact") \/ end.at = "clean"
=============================================================================
