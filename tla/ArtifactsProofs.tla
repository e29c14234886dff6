-------------------------- MODULE ArtifactsProofs --------------------------
(***************************************************************************)
(* Theorems about the files a room leaves behind, for any number of        *)
(* requests, uploads, parts, pages and servers.                            *)
(***************************************************************************)
EXTENDS MCArtifacts, TLAPS

USE ArtifactsAssumption DEF ArtifactsAssumption

-----------------------------------------------------------------------------
(* Usage.  Its variables are the cells: c1 is what Redis holds, c2 what    *)
(* was counted, c3 what was settled, c4 the end of a session, c5 the       *)
(* sessions that ended, c6 and c7 the chat, c8 the tasks, c9 the start in  *)
(* Redis, c10 the clock, c11 and c12 what was used and billed, c13 the     *)
(* course of the tasks, and c14 what was lost.                             *)

LEMMA UsageStarts == C!UsageInit => C!UsageInvariant
<1> SUFFICES ASSUME C!UsageInit PROVE C!UsageInvariant
  OBVIOUS
<1> USE DEF C!UsageInit
<1>1. C!UsageTypeOK
  <2>1. c1 \in [C!Kind -> Nat] /\ c2 \in [C!Kind -> Nat] /\ c3 \in [C!Kind -> Nat]
    BY DEF C!None
  <2>2. c4 \in [at : {"open", "history", "forget", "file", "metered", "artifact",
                     "chat", "clean", "chatArtifact"}, got : Nat]
    OBVIOUS
  <2>3. c8 \in [Handler -> [at : {"off", "on", "delete", "count", "done"}, seen : 0 .. MaxTime]]
    OBVIOUS
  <2>4. c6 \in [Chat -> {"idle", "stream", "count", "check", "summarise", "countSummary", "done"}]
    OBVIOUS
  <2>5. c5 \in 0 .. MaxEnds /\ c9 \in 0 .. MaxTime /\ c10 \in 1 .. MaxTime
    OBVIOUS
  <2>6. /\ c7 \in Nat /\ c11 \in Nat /\ c12 \in Nat /\ c14 \in Nat
        /\ c13 \in {"alone", "left", "mixed"}
    OBVIOUS
  <2> HIDE DEF C!UsageInit
  <2> QED
    BY <2>1, <2>2, <2>3, <2>4, <2>5, <2>6 DEF C!UsageTypeOK
<1>2. C!UsageIsAccounted
  BY DEF C!UsageIsAccounted, C!Found, C!None, C!Kind
<1>3. C!BilledWhenAlone /\ C!OneAtWork
  BY DEF C!BilledWhenAlone, C!OneAtWork, C!StartIsRight, C!AtWork
<1> QED
  BY <1>1, <1>2, <1>3 DEF C!UsageInvariant

(* What is added to a counter.                                             *)
LEMMA CounterGrows ==
  ASSUME NEW counter \in [C!Kind -> Nat], NEW k \in C!Kind, NEW n \in Nat
  PROVE  /\ C!Add(counter, k, n) \in [C!Kind -> Nat]
         /\ C!Add(counter, k, n)[k] = counter[k] + n
         /\ \A j \in C!Kind : j # k => C!Add(counter, k, n)[j] = counter[j]
BY DEF C!Add

LEMMA KindsAre == "metered" \in C!Kind /\ "chat" \in C!Kind /\ "history" \in C!Kind
BY DEF C!Kind

LEMMA UsageTypeNext ==
  ASSUME C!UsageInvariant, C!UsageNext
  PROVE  C!UsageTypeOK'
<1> USE KindsAre DEF C!UsageTypeOK
<1>a. /\ C!UsageTypeOK /\ \A t \in Handler : c8[t].seen <= c10
      /\ c4.at # "open" => c5 < MaxEnds
  BY DEF C!UsageInvariant
<1>1. CASE C!UpdateChatTranslationUsage \/ C!UpdateTTSServiceUsage \/ C!AddTranscriptionToHistory
  <2>1. PICK k \in C!Kind : C!CountText(k)
    BY <1>1 DEF C!UpdateChatTranslationUsage, C!UpdateTTSServiceUsage, C!AddTranscriptionToHistory
  <2>2. C!Add(c1, k, 1) \in [C!Kind -> Nat] /\ C!Add(c2, k, 1) \in [C!Kind -> Nat]
    BY <1>a, CounterGrows
  <2> QED
    BY <2>1, <2>2, <1>a DEF C!CountText, C!Count, C!endVars, C!chatVars, C!audioVars
<1>2. ASSUME NEW t \in Handler, \/ C!SessionStarted(t) \/ C!SessionStartedFails(t)
                                 \/ C!ReadStart(t) \/ C!ReadStartFails(t)
                                 \/ C!DeleteStart(t) \/ C!DeleteStartFails(t)
      PROVE  C!UsageTypeOK'
  <2>1. c8' \in [Handler -> [at : {"off", "on", "delete", "count", "done"}, seen : 0 .. MaxTime]]
    BY <1>2, <1>a DEF C!SessionStarted, C!SessionStartedFails, C!ReadStart, C!ReadStartFails,
       C!DeleteStart, C!DeleteStartFails, C!Move
  <2>2. c13' \in {"alone", "left", "mixed"}
    BY <1>2, <1>a DEF C!SessionStarted, C!SessionStartedFails, C!ReadStart, C!ReadStartFails,
       C!DeleteStart, C!DeleteStartFails, C!After
  <2> QED
    BY <1>2, <1>a, <2>1, <2>2
       DEF C!SessionStarted, C!SessionStartedFails, C!ReadStart, C!ReadStartFails, C!DeleteStart,
           C!DeleteStartFails, C!endVars, C!chatVars
<1>3. ASSUME NEW t \in Handler, C!CountDuration(t) \/ C!DurationIsNotCounted(t)
      PROVE  C!UsageTypeOK'
  <2>1. c10 - c8[t].seen \in Nat
    BY <1>a
  <2>2. /\ C!Add(c1, "metered", c10 - c8[t].seen) \in [C!Kind -> Nat]
        /\ C!Add(c2, "metered", c10 - c8[t].seen) \in [C!Kind -> Nat]
    BY <1>a, <2>1, CounterGrows
  <2> QED
    BY <1>3, <1>a, <2>1, <2>2
       DEF C!CountDuration, C!DurationIsNotCounted, C!CountFails, C!Lose, C!Count, C!Move,
           C!endVars, C!chatVars
<1>4. CASE C!Tick \/ C!StartExpires
  BY <1>4, <1>a DEF C!Tick, C!StartExpires, C!endVars, C!chatVars
<1>11. CASE C!TextIsNotCounted \/ C!CounterExpires
  <2>1. C!Add(c2, "metered", 1) \in [C!Kind -> Nat]
    BY <1>a, CounterGrows
  <2> QED
    BY <1>11, <1>a, <2>1
       DEF C!TextIsNotCounted, C!CounterExpires, C!CountFails, C!Lose, C!chatVars, C!audioVars
<1>5. ASSUME NEW c \in Chat, \/ C!buildHistoryWithUserPrompt(c) \/ C!StreamFails(c)
                             \/ C!AppendAnswer(c) \/ C!UpdateAITextChatUsage(c)
                             \/ C!CheckAndSummarize(c) \/ C!SetAITextChatSummary(c)
      PROVE  C!UsageTypeOK'
  <2>1. C!Add(c1, "chat", 1) \in [C!Kind -> Nat] /\ C!Add(c2, "chat", 1) \in [C!Kind -> Nat]
    BY <1>a, CounterGrows
  <2>2. CASE C!UpdateAITextChatUsage(c)
    BY <2>1, <2>2, <1>a DEF C!UpdateAITextChatUsage, C!Turn, C!Count, C!endVars, C!audioVars
  <2>3. CASE \/ C!buildHistoryWithUserPrompt(c) \/ C!StreamFails(c) \/ C!AppendAnswer(c)
             \/ C!CheckAndSummarize(c) \/ C!SetAITextChatSummary(c)
    BY <2>3, <1>a
       DEF C!buildHistoryWithUserPrompt, C!StreamFails, C!AppendAnswer, C!CheckAndSummarize,
           C!SetAITextChatSummary, C!Turn, C!endVars, C!audioVars
  <2> QED
    BY <1>5, <2>2, <2>3
<1>6. CASE \/ C!OnAfterRoomEnded \/ C!GetTranscriptionHistory
           \/ C!DeleteTranscriptionHistory \/ C!EndStops
  BY <1>6, <1>a
     DEF C!OnAfterRoomEnded, C!GetTranscriptionHistory, C!DeleteTranscriptionHistory,
         C!EndStops, C!Lapse, C!Lose, C!EndGoes, C!chatVars, C!audioVars
<1>7. CASE C!FileArtifact \/ C!UsageArtifact
  <2>1. /\ C!Add(c3, "history", c4.got) \in [C!Kind -> Nat]
        /\ C!Add(c3, "metered", c4.got) \in [C!Kind -> Nat]
    BY <1>a, CounterGrows
  <2> QED
    BY <1>7, <1>a, <2>1
       DEF C!FileArtifact, C!UsageArtifact, C!createAndSaveArtifact, C!Lapse, C!Lose, C!EndGoes,
           C!chatVars, C!audioVars
<1>8. CASE C!TakeUsage
  BY <1>8, <1>a DEF C!TakeUsage, C!Lose, C!EndGoes, C!chatVars, C!audioVars
<1>9. CASE C!GetAITextChatRoomUsage \/ C!CleanupAITextChat
  BY <1>9, <1>a
     DEF C!GetAITextChatRoomUsage, C!CleanupAITextChat, C!EndGoes, C!chatVars, C!audioVars
<1>10. CASE C!ChatArtifacts
  <2>1. C!Add(c3, "chat", c4.got) \in [C!Kind -> Nat]
    BY <1>a, CounterGrows
  <2> QED
    BY <1>10, <1>a, <2>1
       DEF C!ChatArtifacts, C!createAndSaveArtifact, C!Lapse, C!Lose, C!EndGoes,
           C!chatVars, C!audioVars
<1> QED
  BY <1>1, <1>2, <1>3, <1>4, <1>5, <1>6, <1>7, <1>8, <1>9, <1>10, <1>11 DEF C!UsageNext

(* The end of a session moves units from Redis to an artifact by way of    *)
(* its hand, nobody else takes any, and what a step loses is noted.        *)
LEMMA UsageAccountedNext ==
  ASSUME C!UsageInvariant, C!UsageNext
  PROVE  C!UsageIsAccounted'
<1> USE KindsAre
<1>a. /\ c1 \in [C!Kind -> Nat] /\ c2 \in [C!Kind -> Nat] /\ c3 \in [C!Kind -> Nat]
      /\ c4.got \in Nat /\ c14 \in Nat /\ C!UsageIsAccounted
      /\ \A t \in Handler : c10 - c8[t].seen \in Nat
  BY DEF C!UsageInvariant, C!UsageTypeOK
<1>b. ASSUME NEW k \in C!Kind, NEW n \in Nat, C!Count(k, n), UNCHANGED <<c3, c4, c14>>
      PROVE  C!UsageIsAccounted'
  <2>1. /\ C!Add(c1, k, n)[k] = c1[k] + n /\ C!Add(c2, k, n)[k] = c2[k] + n
        /\ \A j \in C!Kind : j # k => C!Add(c1, k, n)[j] = c1[j] /\ C!Add(c2, k, n)[j] = c2[j]
    BY <1>a DEF C!Add
  <2>2. c1'["metered"] + c2["metered"] = c2'["metered"] + c1["metered"]
    BY <1>a, <1>b, <2>1 DEF C!Count
  <2>3. c1'["metered"] \in Nat /\ c2'["metered"] \in Nat
    BY <1>a, <1>b, <2>1 DEF C!Count
  <2> QED
    BY <1>a, <1>b, <2>2, <2>3 DEF C!UsageIsAccounted, C!Found
<1>c. ASSUME UNCHANGED <<c1, c2, c3, c4, c14>>
      PROVE  C!UsageIsAccounted'
  BY <1>a, <1>c DEF C!UsageIsAccounted, C!Found
<1>e. ASSUME NEW n \in Nat, C!CountFails(n)
      PROVE  C!UsageIsAccounted'
  <2>1. C!Add(c2, "metered", n)["metered"] = c2["metered"] + n
    BY <1>a DEF C!Add
  <2>2. c2'["metered"] = c2["metered"] + n /\ c14' = c14 + n /\ UNCHANGED <<c1, c3, c4>>
    BY <1>e, <2>1 DEF C!CountFails, C!Lose
  <2> QED
    BY <1>a, <2>2 DEF C!UsageIsAccounted, C!Found
<1>1. CASE C!UpdateChatTranslationUsage \/ C!UpdateTTSServiceUsage \/ C!AddTranscriptionToHistory
  BY <1>1, <1>b
     DEF C!UpdateChatTranslationUsage, C!UpdateTTSServiceUsage, C!AddTranscriptionToHistory,
         C!CountText, C!endVars
<1>2. ASSUME NEW t \in Handler, \/ C!SessionStarted(t) \/ C!SessionStartedFails(t)
                                 \/ C!ReadStart(t) \/ C!ReadStartFails(t)
                                 \/ C!DeleteStart(t) \/ C!DeleteStartFails(t)
      PROVE  C!UsageIsAccounted'
  BY <1>2, <1>c DEF C!SessionStarted, C!SessionStartedFails, C!ReadStart, C!ReadStartFails,
     C!DeleteStart, C!DeleteStartFails, C!endVars
<1>3. ASSUME NEW t \in Handler, C!CountDuration(t)
      PROVE  C!UsageIsAccounted'
  <2>1. C!Count("metered", c10 - c8[t].seen) /\ UNCHANGED <<c3, c4, c14>>
    BY <1>3 DEF C!CountDuration, C!endVars
  <2> QED
    BY <2>1, <1>a, <1>b
<1>7. ASSUME NEW t \in Handler, C!DurationIsNotCounted(t)
      PROVE  C!UsageIsAccounted'
  BY <1>7, <1>a, <1>e DEF C!DurationIsNotCounted
<1>4. CASE C!Tick \/ C!StartExpires
  BY <1>4, <1>c DEF C!Tick, C!StartExpires, C!endVars
<1>13. CASE C!TextIsNotCounted
  BY <1>13, <1>e DEF C!TextIsNotCounted
<1>14. CASE C!CounterExpires
  <2>1. /\ c1'["metered"] = 0 /\ c14' = c14 + c1["metered"] /\ UNCHANGED <<c2, c3, c4>>
    BY <1>14, <1>a DEF C!CounterExpires, C!Lose
  <2> QED
    BY <1>a, <2>1 DEF C!UsageIsAccounted, C!Found
<1>5. ASSUME NEW c \in Chat, C!UpdateAITextChatUsage(c)
      PROVE  C!UsageIsAccounted'
  BY <1>5, <1>b DEF C!UpdateAITextChatUsage, C!endVars
<1>6. ASSUME NEW c \in Chat, \/ C!buildHistoryWithUserPrompt(c) \/ C!StreamFails(c)
                             \/ C!AppendAnswer(c) \/ C!CheckAndSummarize(c)
                             \/ C!SetAITextChatSummary(c)
      PROVE  C!UsageIsAccounted'
  BY <1>6, <1>c
     DEF C!buildHistoryWithUserPrompt, C!StreamFails, C!AppendAnswer, C!CheckAndSummarize,
         C!SetAITextChatSummary, C!endVars
<1>d. c4 \in [at : {"open", "history", "forget", "file", "metered", "artifact",
                 "chat", "clean", "chatArtifact"}, got : Nat]
  BY DEF C!UsageInvariant, C!UsageTypeOK
<1>8. CASE C!OnAfterRoomEnded \/ C!GetTranscriptionHistory \/ C!DeleteTranscriptionHistory
  BY <1>8, <1>a, <1>d
     DEF C!OnAfterRoomEnded, C!GetTranscriptionHistory, C!DeleteTranscriptionHistory, C!EndGoes,
         C!UsageIsAccounted, C!Found
<1>9. CASE C!TakeUsage
  BY <1>9, <1>a, <1>d DEF C!TakeUsage, C!Lose, C!EndGoes, C!UsageIsAccounted, C!Found
<1>15. CASE C!EndStops
  <2>1. /\ c4'.at = "open" /\ UNCHANGED <<c1, c2, c3>>
        /\ c14' = c14 + (IF c4.at = "artifact" THEN c4.got ELSE 0)
    BY <1>15 DEF C!EndStops, C!EndGoes, C!Lapse, C!Lose
  <2> QED
    BY <1>a, <2>1 DEF C!UsageIsAccounted, C!Found
<1>10. CASE C!GetAITextChatRoomUsage \/ C!CleanupAITextChat
  BY <1>10, <1>a, <1>d
     DEF C!GetAITextChatRoomUsage, C!CleanupAITextChat, C!EndGoes, C!UsageIsAccounted, C!Found
<1>11. CASE C!FileArtifact \/ C!ChatArtifacts
  <2>a. \A k \in C!Kind : k # "metered" => C!Add(c3, k, c4.got)["metered"] = c3["metered"]
    BY <1>a DEF C!Add
  <2>1. /\ c4.at # "artifact" /\ c4'.at # "artifact" /\ UNCHANGED <<c1, c2>>
        /\ c3'["metered"] = c3["metered"] /\ c14' = c14
    BY <1>11, <1>a, <2>a
       DEF C!FileArtifact, C!ChatArtifacts, C!createAndSaveArtifact, C!Lapse, C!Lose, C!EndGoes
  <2> QED
    BY <2>1, <1>a DEF C!UsageIsAccounted, C!Found
<1>12. CASE C!UsageArtifact
  <2>a. C!Add(c3, "metered", c4.got)["metered"] = c3["metered"] + c4.got
    BY <1>a DEF C!Add
  <2>1. /\ c4.at = "artifact" /\ c4'.at # "artifact" /\ UNCHANGED <<c1, c2>>
        /\ \/ c3'["metered"] = c3["metered"] + c4.got /\ c14' = c14
           \/ c3' = c3 /\ c14' = c14 + c4.got
    BY <1>12, <1>a, <2>a DEF C!UsageArtifact, C!createAndSaveArtifact, C!Lapse, C!Lose, C!EndGoes
  <2> QED
    BY <2>1, <1>a DEF C!UsageIsAccounted, C!Found
<1> QED
  BY <1>1, <1>2, <1>3, <1>4, <1>5, <1>6, <1>7, <1>8, <1>9, <1>10, <1>11, <1>12, <1>13, <1>14,
     <1>15 DEF C!UsageNext

(* As long as one task at a time is at work, what it will be billed for    *)
(* has passed while it was.  The tasks' part of a step: how the course     *)
(* goes on, and who is at work.                                            *)
TimesKeep ==
    /\ c9' <= c10' /\ \A t \in Handler : c8'[t].seen <= c10'
    /\ C!BilledWhenAlone'
    /\ c13' # "mixed" => C!OneAtWork'

TimeFacts ==
    /\ c8 \in [Handler -> [at : {"off", "on", "delete", "count", "done"}, seen : 0 .. MaxTime]]
    /\ c9 \in 0 .. MaxTime /\ c10 \in 1 .. MaxTime /\ c11 \in Nat /\ c12 \in Nat
    /\ c13 \in {"alone", "left", "mixed"}
    /\ c9 <= c10 /\ \A t \in Handler : c8[t].seen <= c10
    /\ c13 # "mixed" => c12 <= c11 /\ C!OneAtWork

(* One task moves on its own: as long as it does not mix them up, it is    *)
(* the one at work.                                                        *)
LEMMA OneMoves ==
  ASSUME TimeFacts, NEW t \in Handler, C!AtWork(t) \/ c8[t].at = "off",
         NEW next, C!After(t, next)
  PROVE  \/ c13' = "mixed"
         \/ /\ c13' = next /\ c13 # "mixed" /\ c12 <= c11 /\ C!OneAtWork
            /\ \A u \in Handler \ {t} : ~C!AtWork(u)
BY DEF TimeFacts, C!After

LEMMA TaskMoves ==
  ASSUME TimeFacts, NEW t \in Handler, NEW f,
         f \in [at : {"off", "on", "delete", "count", "done"}, seen : 0 .. MaxTime],
         c8' = [c8 EXCEPT ![t] = f], f.seen <= c10,
         c9' \in {0, c9, c10}, UNCHANGED <<c10, c11, c12>>,
         c13' # "mixed" =>
            /\ c12 <= c11 /\ \A u \in Handler \ {t} : ~C!AtWork(u)
            /\ c13' = "alone" /\ c9' # 0 => f.at \in {"on", "delete"}
            /\ f.at = "on" /\ c13' = "alone" /\ c9' # 0 => c12 + (c10 - c9') <= c11
            /\ f.at \in {"delete", "count"} => c12 + (c10 - f.seen) <= c11
  PROVE  TimesKeep
<1> USE DEF TimeFacts
<1>1. c8'[t] = f /\ \A u \in Handler \ {t} : c8'[u] = c8[u]
  OBVIOUS
<1>2. c9' <= c10' /\ \A u \in Handler : c8'[u].seen <= c10'
  BY <1>1
<1>3. CASE c13' = "mixed"
  BY <1>2, <1>3 DEF TimesKeep, C!BilledWhenAlone
<1>4. CASE c13' # "mixed"
  <2>1. \A u \in Handler \ {t} : c8'[u].at \in {"off", "done"} /\ ~C!AtWork(u)'
    BY <1>1, <1>4 DEF C!AtWork
  <2>2. \A u \in Handler : C!StartIsRight(u)'
    BY <1>1, <1>4, <2>1 DEF C!StartIsRight
  <2>3. C!OneAtWork'
    BY <1>1, <1>4, <2>1, <2>2 DEF C!OneAtWork
  <2> QED
    BY <1>2, <1>4, <2>3 DEF TimesKeep, C!BilledWhenAlone
<1> QED
  BY <1>3, <1>4

LEMMA TaskSteps ==
  ASSUME TimeFacts, NEW t \in Handler,
         \/ C!SessionStarted(t) \/ C!SessionStartedFails(t) \/ C!ReadStart(t)
         \/ C!ReadStartFails(t) \/ C!DeleteStart(t) \/ C!DeleteStartFails(t)
  PROVE  TimesKeep
<1>a. c8[t] \in [at : {"off", "on", "delete", "count", "done"}, seen : 0 .. MaxTime]
  BY DEF TimeFacts
<1>b. /\ c8[t].seen \in 0 .. MaxTime /\ c8[t].seen <= c10 /\ c9 \in 0 .. MaxTime /\ c9 <= c10
      /\ c10 \in 1 .. MaxTime /\ c11 \in Nat /\ c12 \in Nat
  BY DEF TimeFacts
<1>1. CASE C!SessionStarted(t)
  <2> DEFINE f == [c8[t] EXCEPT !.at = "on"]
  <2>1. /\ c8[t].at \in {"off", "on"} /\ c8' = [c8 EXCEPT ![t] = f] /\ c9' = c10
        /\ UNCHANGED <<c10, c11, c12>> /\ C!After(t, "alone")
    BY <1>1 DEF C!SessionStarted, C!Move, TimeFacts
  <2>2. f \in [at : {"off", "on", "delete", "count", "done"}, seen : 0 .. MaxTime]
        /\ f.at = "on" /\ f.seen <= c10
    BY <1>a, <1>b
  <2>3. c13' # "mixed" => c12 <= c11 /\ \A u \in Handler \ {t} : ~C!AtWork(u)
    BY <2>1, OneMoves DEF C!AtWork
  <2>4. c12 <= c11 => c12 + (c10 - c9') <= c11
    BY <1>b, <2>1
  <2> HIDE DEF f
  <2> QED
    BY <2>1, <2>2, <2>3, <2>4, TaskMoves
<1>2. CASE C!SessionStartedFails(t)
  <2> DEFINE f == [c8[t] EXCEPT !.at = "on"]
  <2>1. /\ c8[t].at \in {"off", "on"} /\ c8' = [c8 EXCEPT ![t] = f]
        /\ UNCHANGED <<c9, c10, c11, c12>> /\ C!After(t, c13)
    BY <1>2 DEF C!SessionStartedFails, C!Move, TimeFacts
  <2>2. f \in [at : {"off", "on", "delete", "count", "done"}, seen : 0 .. MaxTime]
        /\ f.at = "on" /\ f.seen <= c10
    BY <1>a, <1>b
  <2>3. c13' # "mixed" => /\ c13' = c13 /\ c12 <= c11 /\ C!OneAtWork
                          /\ \A u \in Handler \ {t} : ~C!AtWork(u)
    BY <2>1, OneMoves DEF C!AtWork
  <2>4. c13' = "alone" /\ c9 # 0 => c8[t].at = "on" /\ c12 + (c10 - c9) <= c11
    BY <2>1, <2>3 DEF C!OneAtWork, C!StartIsRight, C!AtWork
  <2> HIDE DEF f
  <2> QED
    BY <2>1, <2>2, <2>3, <2>4, TaskMoves
<1>3. CASE C!ReadStart(t)
  <2> DEFINE f == [at |-> IF c9 = 0 THEN "done" ELSE "delete", seen |-> c9]
  <2>1. /\ c8[t].at \in {"off", "on"} /\ c8' = [c8 EXCEPT ![t] = f]
        /\ UNCHANGED <<c9, c10, c11, c12>>
        /\ C!After(t, IF c13 = "left" THEN "mixed" ELSE c13)
    BY <1>3 DEF C!ReadStart
  <2>2. /\ f \in [at : {"off", "on", "delete", "count", "done"}, seen : 0 .. MaxTime]
        /\ f.at \in {"done", "delete"} /\ f.seen = c9 /\ (f.at = "delete" <=> c9 # 0)
    BY <1>b
  <2>3. c13' # "mixed" => /\ c13' = "alone" /\ c13 = "alone" /\ c12 <= c11 /\ C!OneAtWork
                          /\ \A u \in Handler \ {t} : ~C!AtWork(u)
    <3>1. c13 \in {"alone", "left", "mixed"}
      BY DEF TimeFacts
    <3> QED
      BY <2>1, <3>1, OneMoves DEF C!AtWork
  <2>4. c13' # "mixed" /\ c9 # 0 => c12 + (c10 - c9) <= c11
    BY <2>1, <2>3 DEF C!OneAtWork, C!StartIsRight, C!AtWork
  <2> HIDE DEF f
  <2> QED
    BY <1>b, <2>1, <2>2, <2>3, <2>4, TaskMoves
<1>4. CASE C!ReadStartFails(t)
  <2> DEFINE f == [c8[t] EXCEPT !.at = "done"]
  <2>1. /\ c8[t].at \in {"off", "on"} /\ c8' = [c8 EXCEPT ![t] = f]
        /\ UNCHANGED <<c9, c10, c11, c12>> /\ C!After(t, IF c9 = 0 THEN c13 ELSE "left")
    BY <1>4 DEF C!ReadStartFails, C!Move, TimeFacts
  <2>2. f \in [at : {"off", "on", "delete", "count", "done"}, seen : 0 .. MaxTime]
        /\ f.at = "done" /\ f.seen <= c10
    BY <1>a, <1>b
  <2>3. c13' # "mixed" => /\ c12 <= c11 /\ \A u \in Handler \ {t} : ~C!AtWork(u)
                          /\ c13' = "alone" => c9 = 0
    BY <2>1, OneMoves DEF C!AtWork
  <2> HIDE DEF f
  <2> QED
    BY <2>1, <2>2, <2>3, TaskMoves
<1>5. CASE C!DeleteStart(t) \/ C!DeleteStartFails(t)
  <2> DEFINE f == [c8[t] EXCEPT !.at = "count"]
  <2>1. /\ c8[t].at = "delete" /\ c8' = [c8 EXCEPT ![t] = f] /\ UNCHANGED <<c10, c11, c12>>
        /\ \/ c9' = 0 /\ c13' = c13
           \/ c9' = c9 /\ C!After(t, "left")
    BY <1>5 DEF C!DeleteStart, C!DeleteStartFails, C!Move, TimeFacts
  <2>2. f \in [at : {"off", "on", "delete", "count", "done"}, seen : 0 .. MaxTime]
        /\ f.at = "count" /\ f.seen = c8[t].seen
    BY <1>a, <1>b
  <2>3. c13' # "mixed" => c12 <= c11 /\ C!OneAtWork /\ (c13' = "alone" => c9' = 0)
    BY <2>1, OneMoves DEF C!AtWork, TimeFacts
  <2>4. c13' # "mixed" => /\ \A u \in Handler \ {t} : ~C!AtWork(u)
                          /\ c12 + (c10 - c8[t].seen) <= c11
    BY <2>1, <2>3 DEF C!OneAtWork, C!StartIsRight, C!AtWork
  <2> HIDE DEF f
  <2> QED
    BY <1>b, <2>1, <2>2, <2>3, <2>4, TaskMoves
<1> QED
  BY <1>1, <1>2, <1>3, <1>4, <1>5

LEMMA BilledNext ==
  ASSUME C!UsageInvariant, C!UsageNext
  PROVE  TimesKeep
<1>a. TimeFacts
  BY DEF TimeFacts, C!UsageInvariant, C!UsageTypeOK, C!BilledWhenAlone
<1>1. ASSUME UNCHANGED <<c8, c9, c10, c11, c12, c13>>
      PROVE  TimesKeep
  BY <1>1, <1>a DEF TimesKeep, TimeFacts, C!BilledWhenAlone, C!OneAtWork, C!StartIsRight, C!AtWork
<1>2. ASSUME NEW t \in Handler, C!CountDuration(t) \/ C!DurationIsNotCounted(t)
      PROVE  TimesKeep
  <2>1. /\ c8[t].at = "count" /\ c8' = [c8 EXCEPT ![t].at = "done"]
        /\ c12' \in {c12, c12 + (c10 - c8[t].seen)}
        /\ UNCHANGED <<c9, c10, c11, c13>>
    BY <1>2 DEF C!CountDuration, C!DurationIsNotCounted, C!Move
  <2> QED
    BY <1>a, <2>1 DEF TimesKeep, TimeFacts, C!BilledWhenAlone, C!OneAtWork, C!StartIsRight, C!AtWork
<1>3. CASE C!StartExpires
  <2>1. c9' = 0 /\ c13' = (IF c13 = "left" THEN "alone" ELSE c13)
        /\ UNCHANGED <<c8, c10, c11, c12>>
    BY <1>3 DEF C!StartExpires
  <2> QED
    BY <1>a, <2>1 DEF TimesKeep, TimeFacts, C!BilledWhenAlone, C!OneAtWork, C!StartIsRight, C!AtWork
<1>4. CASE C!Tick
  <2>1. /\ c10' = c10 + 1
        /\ c11' = c11 + (IF \E t \in Handler : C!AtWork(t) THEN 1 ELSE 0)
        /\ UNCHANGED <<c8, c9, c12, c13>>
    BY <1>4 DEF C!Tick
  <2>2. /\ c11' >= c11 /\ c11' \in Nat
        /\ \A t \in Handler : C!AtWork(t) => c11' = c11 + 1
    BY <1>a, <2>1 DEF TimeFacts
  <2> QED
    BY <1>a, <2>1, <2>2
       DEF TimesKeep, TimeFacts, C!BilledWhenAlone, C!OneAtWork, C!StartIsRight, C!AtWork
<1> QED
  BY <1>a, <1>1, <1>2, <1>3, <1>4, TaskSteps
     DEF C!UsageNext, C!UpdateChatTranslationUsage, C!UpdateTTSServiceUsage,
         C!AddTranscriptionToHistory, C!CountText, C!TextIsNotCounted, C!CounterExpires,
         C!buildHistoryWithUserPrompt, C!StreamFails,
         C!AppendAnswer, C!UpdateAITextChatUsage, C!CheckAndSummarize, C!SetAITextChatSummary,
         C!OnAfterRoomEnded, C!EndStops, C!GetTranscriptionHistory, C!DeleteTranscriptionHistory,
         C!FileArtifact, C!UsageArtifact, C!ChatArtifacts, C!createAndSaveArtifact, C!TakeUsage,
         C!GetAITextChatRoomUsage, C!CleanupAITextChat, C!audioVars

LEMMA UsageNextKeeps ==
  ASSUME C!UsageInvariant, [C!UsageNext]_(C!usageVars)
  PROVE  C!UsageInvariant'
<1>1. CASE UNCHANGED C!usageVars
  BY <1>1
     DEF C!usageVars, C!UsageInvariant, C!UsageTypeOK, C!UsageIsAccounted, C!Found,
         C!BilledWhenAlone, C!OneAtWork, C!StartIsRight, C!AtWork
<1>2. CASE C!UsageNext
  <2>1. c4'.at # "open" => c5' < MaxEnds
    <3>1. c4.at # "open" => c5 < MaxEnds
      BY DEF C!UsageInvariant
    <3>2. c4 \in [at : {"open", "history", "forget", "file", "metered", "artifact",
                      "chat", "clean", "chatArtifact"}, got : Nat]
      BY DEF C!UsageInvariant, C!UsageTypeOK
    <3> QED
      BY <1>2, <3>1, <3>2
         DEF C!UsageNext, C!UpdateChatTranslationUsage, C!UpdateTTSServiceUsage,
             C!AddTranscriptionToHistory, C!CountText, C!TextIsNotCounted, C!CountFails,
             C!CounterExpires, C!StartExpires, C!SessionStarted, C!SessionStartedFails, C!ReadStart,
             C!ReadStartFails, C!DeleteStart, C!DeleteStartFails, C!CountDuration,
             C!DurationIsNotCounted, C!Tick, C!EndStops, C!buildHistoryWithUserPrompt, C!StreamFails,
             C!AppendAnswer, C!UpdateAITextChatUsage, C!CheckAndSummarize, C!SetAITextChatSummary,
             C!OnAfterRoomEnded, C!GetTranscriptionHistory, C!DeleteTranscriptionHistory,
             C!FileArtifact, C!UsageArtifact, C!ChatArtifacts, C!createAndSaveArtifact,
             C!TakeUsage, C!GetAITextChatRoomUsage, C!CleanupAITextChat, C!EndGoes, C!endVars
  <2> QED
    BY <1>2, <2>1, UsageTypeNext, UsageAccountedNext, BilledNext DEF C!UsageInvariant, TimesKeep
<1> QED
  BY <1>1, <1>2

-----------------------------------------------------------------------------
(* Conversions.  The cells: c1 is the kind of each request, c2 and c3 say  *)
(* where its handler and its goroutine are, c4 which requests failed, c7 is *)
(* the pool, c8 the directories, c9 the pages, c10 the ranges counted, c11 *)
(* the room's list, c12 the lock and c14 the room.                         *)

LEMMA ConvertStarts == W!ConvertInit => W!ConvertInvariant
BY DEF W!ConvertInit, W!ConvertInvariant, W!ConvertTypeOK, W!RequestsAreInOrder,
       W!PagesAreDrawn, W!PagesFollow, W!ListedPagesAreWhole, W!LockWillBeFreed, W!Blank

LEMMA ConvertTypeNext ==
  ASSUME W!ConvertInvariant, W!ConvertNext
  PROVE  W!ConvertTypeOK'
<1> USE DEF W!HandlerGoto, W!JobGoto, W!Unlock, W!Fail, W!documents, W!Blank, W!ConvertTypeOK
<1>a. W!ConvertTypeOK
  BY DEF W!ConvertInvariant
<1>1. CASE W!LockExpires
  BY <1>1, <1>a DEF W!LockExpires
<1>2. CASE W!RemoveRoomDir
  BY <1>2, <1>a DEF W!RemoveRoomDir
<1>3. CASE W!RemoveBucket
  BY <1>3, <1>a DEF W!RemoveBucket
<1>4. ASSUME NEW r \in Handler, W!TryLock(r) PROVE W!ConvertTypeOK'
  BY <1>4, <1>a DEF W!TryLock
<1>5. ASSUME NEW r \in Handler, W!HandleConvertWhiteboardFile(r) PROVE W!ConvertTypeOK'
  BY <1>5, <1>a DEF W!HandleConvertWhiteboardFile
<1>6. ASSUME NEW r \in Handler, W!Refuse(r) PROVE W!ConvertTypeOK'
  BY <1>6, <1>a DEF W!Refuse
<1>7. ASSUME NEW r \in Handler, W!StartDownload(r) PROVE W!ConvertTypeOK'
  BY <1>7, <1>a DEF W!StartDownload
<1>8. ASSUME NEW r \in Handler, W!SaveDocument(r) PROVE W!ConvertTypeOK'
  BY <1>8, <1>a DEF W!SaveDocument
<1>9. ASSUME NEW r \in Handler, W!HandleResult(r) PROVE W!ConvertTypeOK'
  BY <1>9, <1>a DEF W!HandleResult
<1>10. ASSUME NEW r \in Handler, W!HandlerTimeout(r) PROVE W!ConvertTypeOK'
  BY <1>10, <1>a DEF W!HandlerTimeout
<1>11. ASSUME NEW r \in Handler, W!HandlerUnlock(r) PROVE W!ConvertTypeOK'
  BY <1>11, <1>a DEF W!HandlerUnlock
<1>12. ASSUME NEW r \in Handler, W!Download(r) PROVE W!ConvertTypeOK'
  BY <1>12, <1>a DEF W!Download
<1>13. ASSUME NEW r \in Handler, W!DownloadFails(r) PROVE W!ConvertTypeOK'
  BY <1>13, <1>a DEF W!DownloadFails
<1>14. ASSUME NEW r \in Handler, W!OpenDocument(r) PROVE W!ConvertTypeOK'
  BY <1>14, <1>a DEF W!OpenDocument
<1>15. ASSUME NEW r \in Handler, W!ConvertToPDF(r) PROVE W!ConvertTypeOK'
  BY <1>15, <1>a DEF W!ConvertToPDF
<1>16. ASSUME NEW r \in Handler, W!CountPDF(r) PROVE W!ConvertTypeOK'
  BY <1>16, <1>a DEF W!CountPDF
<1>17. ASSUME NEW r \in Handler, W!EarlyError(r) PROVE W!ConvertTypeOK'
  BY <1>17, <1>a DEF W!EarlyError
<1>18. ASSUME NEW r \in Handler, W!StopWait(r) PROVE W!ConvertTypeOK'
  <2>1. [c7 EXCEPT ![r] = W!Blank] \in
           [Handler -> [W!Range -> {"none", "queued", "running", "over"}]]
    BY <1>a
  <2>2. [c9 EXCEPT ![r] = W!Blank] \in [Handler -> [W!Range -> {"none", "part", "whole"}]]
    BY <1>a
  <2>3. c7' = [c7 EXCEPT ![r] = W!Blank] /\ c9' \in {c9, [c9 EXCEPT ![r] = W!Blank]}
    BY <1>18 DEF W!StopWait
  <2> HIDE DEF W!Blank
  <2>4. UNCHANGED <<c1, c2, c5, c6, c10, c11, c12, c13, c14>>
    BY <1>18 DEF W!StopWait
  <2>5. /\ c3' \in {[c3 EXCEPT ![r] = "unlock"], [c3 EXCEPT ![r] = "meta"]}
        /\ c4' \in {c4, c4 \cup {r}} /\ c8' \in {c8, c8 \ {r}}
    BY <1>18 DEF W!StopWait
  <2> QED
    BY <1>a, <2>1, <2>2, <2>3, <2>4, <2>5
<1>19. ASSUME NEW r \in Handler, W!WritePageMetaFiles(r) PROVE W!ConvertTypeOK'
  <2>1. [c10 EXCEPT ![r] = W!Drawn(r)] \in [Handler -> SUBSET W!Range]
    BY <1>a DEF W!Drawn
  <2> QED
    BY <1>19, <1>a, <2>1 DEF W!WritePageMetaFiles
<1>20. ASSUME NEW r \in Handler, W!MetaFails(r) PROVE W!ConvertTypeOK'
  BY <1>20, <1>a DEF W!MetaFails
<1>21. ASSUME NEW r \in Handler, W!AddFileToNatsStore(r) PROVE W!ConvertTypeOK'
  BY <1>21, <1>a DEF W!AddFileToNatsStore
<1>22. ASSUME NEW r \in Handler, W!JobUnlock(r) PROVE W!ConvertTypeOK'
  BY <1>22, <1>a DEF W!JobUnlock
<1>23. ASSUME NEW r \in Handler, NEW c \in W!Range, W!DrawStart(r, c) PROVE W!ConvertTypeOK'
  BY <1>23, <1>a DEF W!DrawStart
<1>24. ASSUME NEW r \in Handler, NEW c \in W!Range, W!DrawRange(r, c) PROVE W!ConvertTypeOK'
  BY <1>24, <1>a DEF W!DrawRange
<1>25. ASSUME NEW r \in Handler, NEW c \in W!Range, W!DrawFails(r, c) PROVE W!ConvertTypeOK'
  BY <1>25, <1>a DEF W!DrawFails
<1>26. ASSUME NEW r \in Handler, NEW c \in W!Range, W!DrawKilled(r, c) PROVE W!ConvertTypeOK'
  BY <1>26, <1>a DEF W!DrawKilled
<1> QED
  BY <1>1, <1>2, <1>3, <1>4, <1>5, <1>6, <1>7, <1>8, <1>9, <1>10, <1>11, <1>12, <1>13, <1>14,
     <1>15, <1>16, <1>17, <1>18, <1>19, <1>20, <1>21, <1>22, <1>23, <1>24, <1>25, <1>26
  DEF W!ConvertNext

(* Whoever gives up first leaves the lock to the other.                    *)
LEMMA ConvertOrderNext ==
  ASSUME W!ConvertInvariant, W!ConvertNext
  PROVE  W!RequestsAreInOrder' /\ W!LockWillBeFreed'
<1> DEFINE Order == W!RequestsAreInOrder /\ W!LockWillBeFreed
<1> USE DEF W!HandlerGoto, W!JobGoto, W!Unlock, W!Fail, W!documents, W!Blank, W!ConvertTypeOK,
            W!RequestsAreInOrder, W!LockWillBeFreed
<1>a. W!ConvertTypeOK /\ Order
  BY DEF W!ConvertInvariant
<1>1. CASE W!LockExpires
  BY <1>1, <1>a DEF W!LockExpires
<1>2. CASE W!RemoveRoomDir
  BY <1>2, <1>a DEF W!RemoveRoomDir
<1>3. CASE W!RemoveBucket
  BY <1>3, <1>a DEF W!RemoveBucket
<1>4. ASSUME NEW r \in Handler, W!TryLock(r) PROVE Order'
  BY <1>4, <1>a DEF W!TryLock
<1>5. ASSUME NEW r \in Handler, W!HandleConvertWhiteboardFile(r) PROVE Order'
  BY <1>5, <1>a DEF W!HandleConvertWhiteboardFile
<1>6. ASSUME NEW r \in Handler, W!Refuse(r) PROVE Order'
  BY <1>6, <1>a DEF W!Refuse
<1>7. ASSUME NEW r \in Handler, W!StartDownload(r) PROVE Order'
  BY <1>7, <1>a DEF W!StartDownload
<1>8. ASSUME NEW r \in Handler, W!SaveDocument(r) PROVE Order'
  BY <1>8, <1>a DEF W!SaveDocument
<1>9. ASSUME NEW r \in Handler, W!HandleResult(r) PROVE Order'
  BY <1>9, <1>a DEF W!HandleResult
<1>10. ASSUME NEW r \in Handler, W!HandlerTimeout(r) PROVE Order'
  BY <1>10, <1>a DEF W!HandlerTimeout
<1>11. ASSUME NEW r \in Handler, W!HandlerUnlock(r) PROVE Order'
  BY <1>11, <1>a DEF W!HandlerUnlock
<1>12. ASSUME NEW r \in Handler, W!Download(r) PROVE Order'
  BY <1>12, <1>a DEF W!Download
<1>13. ASSUME NEW r \in Handler, W!DownloadFails(r) PROVE Order'
  BY <1>13, <1>a DEF W!DownloadFails
<1>14. ASSUME NEW r \in Handler, W!OpenDocument(r) PROVE Order'
  BY <1>14, <1>a DEF W!OpenDocument
<1>15. ASSUME NEW r \in Handler, W!ConvertToPDF(r) PROVE Order'
  BY <1>15, <1>a DEF W!ConvertToPDF
<1>16. ASSUME NEW r \in Handler, W!CountPDF(r) PROVE Order'
  BY <1>16, <1>a DEF W!CountPDF
<1>17. ASSUME NEW r \in Handler, W!EarlyError(r) PROVE Order'
  BY <1>17, <1>a DEF W!EarlyError
<1>18. ASSUME NEW r \in Handler, W!StopWait(r) PROVE Order'
  BY <1>18, <1>a DEF W!StopWait
<1>19. ASSUME NEW r \in Handler, W!WritePageMetaFiles(r) PROVE Order'
  BY <1>19, <1>a DEF W!WritePageMetaFiles
<1>20. ASSUME NEW r \in Handler, W!MetaFails(r) PROVE Order'
  BY <1>20, <1>a DEF W!MetaFails
<1>21. ASSUME NEW r \in Handler, W!AddFileToNatsStore(r) PROVE Order'
  BY <1>21, <1>a DEF W!AddFileToNatsStore
<1>22. ASSUME NEW r \in Handler, W!JobUnlock(r) PROVE Order'
  BY <1>22, <1>a DEF W!JobUnlock
<1>23. ASSUME NEW r \in Handler, NEW c \in W!Range, W!DrawStart(r, c) PROVE Order'
  BY <1>23, <1>a DEF W!DrawStart
<1>24. ASSUME NEW r \in Handler, NEW c \in W!Range, W!DrawRange(r, c) PROVE Order'
  BY <1>24, <1>a DEF W!DrawRange
<1>25. ASSUME NEW r \in Handler, NEW c \in W!Range, W!DrawFails(r, c) PROVE Order'
  BY <1>25, <1>a DEF W!DrawFails
<1>26. ASSUME NEW r \in Handler, NEW c \in W!Range, W!DrawKilled(r, c) PROVE Order'
  BY <1>26, <1>a DEF W!DrawKilled
<1> QED
  BY <1>1, <1>2, <1>3, <1>4, <1>5, <1>6, <1>7, <1>8, <1>9, <1>10, <1>11, <1>12, <1>13, <1>14,
     <1>15, <1>16, <1>17, <1>18, <1>19, <1>20, <1>21, <1>22, <1>23, <1>24, <1>25, <1>26
  DEF W!ConvertNext

(* What is drawn stays, as long as its directory does and the job goes on. *)
LEMMA ConvertPagesNext ==
  ASSUME W!ConvertInvariant, W!ConvertNext
  PROVE  W!PagesAreDrawn' /\ W!ListedPagesAreWhole'
<1> DEFINE Pages == W!PagesAreDrawn /\ W!ListedPagesAreWhole
           Whole(r) == c14 = "open" /\ c11[r] # {} =>
                          c11[r] = W!Range /\ r \in c8 /\ \A c \in W!Range : c9[r][c] = "whole"
           Same(r) == /\ c3'[r] = c3[r] /\ c7'[r] = c7[r] /\ c9'[r] = c9[r]
                      /\ c10'[r] = c10[r] /\ c11'[r] = c11[r]
                      /\ r \in c8' <=> r \in c8
                      /\ r \in c4' <=> r \in c4
<1> USE DEF W!HandlerGoto, W!JobGoto, W!Unlock, W!Fail, W!documents, W!Blank, W!ConvertTypeOK,
            W!RequestsAreInOrder, W!PagesAreDrawn, W!PagesFollow, W!ListedPagesAreWhole
<1>a. W!ConvertTypeOK /\ W!RequestsAreInOrder /\ Pages
  BY DEF W!ConvertInvariant
<1>b. ASSUME NEW r \in Handler, c14' = c14, \A u \in Handler : u # r => Same(u),
             W!PagesFollow(r)', Whole(r)'
      PROVE  Pages'
  <2>1. \A u \in Handler : W!PagesFollow(u) /\ Whole(u)
    BY <1>a
  <2>2. \A u \in Handler : u # r => W!PagesFollow(u)' /\ Whole(u)'
    BY <1>b, <2>1
  <2> HIDE DEF W!PagesFollow
  <2>3. \A u \in Handler : W!PagesFollow(u)' /\ Whole(u)'
    BY <1>b, <2>2
  <2> QED
    BY <2>3
<1>1. CASE W!LockExpires
  BY <1>1, <1>a DEF W!LockExpires
<1>2. CASE W!RemoveRoomDir
  BY <1>2, <1>a DEF W!RemoveRoomDir
<1>3. CASE W!RemoveBucket
  BY <1>3, <1>a DEF W!RemoveBucket
<1>4. ASSUME NEW r \in Handler, W!TryLock(r) PROVE Pages'
  BY <1>4, <1>a DEF W!TryLock
<1>5. ASSUME NEW r \in Handler, W!HandleConvertWhiteboardFile(r) PROVE Pages'
  BY <1>5, <1>a DEF W!HandleConvertWhiteboardFile
<1>6. ASSUME NEW r \in Handler, W!Refuse(r) PROVE Pages'
  BY <1>6, <1>a DEF W!Refuse
<1>7. ASSUME NEW r \in Handler, W!StartDownload(r) PROVE Pages'
  BY <1>7, <1>a DEF W!StartDownload
<1>8. ASSUME NEW r \in Handler, W!SaveDocument(r) PROVE Pages'
  <2>1. c14' = c14 /\ \A u \in Handler : u # r => Same(u)
    BY <1>8, <1>a DEF W!SaveDocument
  <2>2. W!PagesFollow(r)'
    BY <1>8, <1>a DEF W!SaveDocument
  <2>3. Whole(r)'
    BY <1>8, <1>a DEF W!SaveDocument
  <2> QED
    BY <1>b, <2>1, <2>2, <2>3
<1>9. ASSUME NEW r \in Handler, W!HandleResult(r) PROVE Pages'
  BY <1>9, <1>a DEF W!HandleResult
<1>10. ASSUME NEW r \in Handler, W!HandlerTimeout(r) PROVE Pages'
  BY <1>10, <1>a DEF W!HandlerTimeout
<1>11. ASSUME NEW r \in Handler, W!HandlerUnlock(r) PROVE Pages'
  BY <1>11, <1>a DEF W!HandlerUnlock
<1>12. ASSUME NEW r \in Handler, W!Download(r) PROVE Pages'
  <2>1. c14' = c14 /\ \A u \in Handler : u # r => Same(u)
    BY <1>12, <1>a DEF W!Download
  <2>2. W!PagesFollow(r)'
    <3>1. c3[r] = "download" /\ c3'[r] = "open" /\ c11' = c11
      BY <1>12, <1>a DEF W!Download
    <3> QED
      BY <1>a, <3>1
  <2>3. Whole(r)'
    BY <1>12, <1>a DEF W!Download
  <2> QED
    BY <1>b, <2>1, <2>2, <2>3
<1>13. ASSUME NEW r \in Handler, W!DownloadFails(r) PROVE Pages'
  BY <1>13, <1>a DEF W!DownloadFails
<1>14. ASSUME NEW r \in Handler, W!OpenDocument(r) PROVE Pages'
  BY <1>14, <1>a DEF W!OpenDocument
<1>15. ASSUME NEW r \in Handler, W!ConvertToPDF(r) PROVE Pages'
  BY <1>15, <1>a DEF W!ConvertToPDF
<1>16. ASSUME NEW r \in Handler, W!CountPDF(r) PROVE Pages'
  BY <1>16, <1>a DEF W!CountPDF
<1>17. ASSUME NEW r \in Handler, W!EarlyError(r) PROVE Pages'
  <2>1. c14' = c14 /\ \A u \in Handler : u # r => Same(u)
    BY <1>17, <1>a DEF W!EarlyError
  <2>2. W!PagesFollow(r)'
    BY <1>17, <1>a DEF W!EarlyError
  <2>3. Whole(r)'
    BY <1>17, <1>a DEF W!EarlyError
  <2> QED
    BY <1>b, <2>1, <2>2, <2>3
<1>18. ASSUME NEW r \in Handler, W!StopWait(r) PROVE Pages'
  <2>1. c14' = c14 /\ \A u \in Handler : u # r => Same(u)
    BY <1>18, <1>a DEF W!StopWait
  <2>a. c3[r] = "draw" /\ c11' = c11 /\ \A d \in W!Range : c7[r][d] = "over"
    BY <1>18 DEF W!StopWait
  <2>b. \/ c3' = [c3 EXCEPT ![r] = "unlock"]
        \/ c3' = [c3 EXCEPT ![r] = "meta"] /\ r \notin c4 /\ UNCHANGED <<c4, c8, c9, c10>>
    BY <1>18 DEF W!StopWait
  <2>2. c11[r] = {} /\ W!PagesFollow(r)
    BY <1>a, <2>a
  <2>3. c3'[r] = "unlock" \/ (c3'[r] = "meta" /\ r \notin c4 /\ UNCHANGED <<c4, c8, c9, c10>>)
    <3>1. c3 \in [Handler -> {"none", "download", "open", "pdf", "count", "draw", "meta", "list",
                             "unlock", "done"}]
      BY <1>a
    <3> QED
      BY <2>b, <3>1
  <2>4. W!PagesFollow(r)'
    BY <2>1, <2>a, <2>2, <2>3
  <2>5. Whole(r)'
    BY <2>a, <2>2
  <2> QED
    BY <1>b, <2>1, <2>4, <2>5
<1>19. ASSUME NEW r \in Handler, W!WritePageMetaFiles(r) PROVE Pages'
  <2>1. c14' = c14 /\ \A u \in Handler : u # r => Same(u)
    BY <1>19, <1>a DEF W!WritePageMetaFiles
  <2>2. W!PagesFollow(r)'
    <3>1. /\ c3[r] = "meta" /\ c3'[r] = "list" /\ c10'[r] = W!Drawn(r)
          /\ UNCHANGED <<c4, c7, c8, c9, c11, c14>>
      BY <1>19, <1>a DEF W!WritePageMetaFiles
    <3>4. r \notin c4 /\ \A d \in W!Range : c7[r][d] = "none"
      BY <1>a, <3>1
    <3>2. c14 = "open" => r \in c8 /\ \A d \in W!Range : c9[r][d] = "whole"
      BY <1>a, <3>1, <3>4
    <3>3. c14 = "open" => W!Drawn(r) = W!Range
      BY <3>2 DEF W!Drawn
    <3> QED
      BY <1>a, <3>1, <3>2, <3>3
  <2>3. Whole(r)'
    BY <1>19, <1>a DEF W!WritePageMetaFiles
  <2> QED
    BY <1>b, <2>1, <2>2, <2>3
<1>20. ASSUME NEW r \in Handler, W!MetaFails(r) PROVE Pages'
  <2>1. c14' = c14 /\ \A u \in Handler : u # r => Same(u)
    BY <1>20, <1>a DEF W!MetaFails
  <2>2. W!PagesFollow(r)'
    BY <1>20, <1>a DEF W!MetaFails
  <2>3. Whole(r)'
    BY <1>20, <1>a DEF W!MetaFails
  <2> QED
    BY <1>b, <2>1, <2>2, <2>3
<1>21. ASSUME NEW r \in Handler, W!AddFileToNatsStore(r) PROVE Pages'
  <2>1. c14' = c14 /\ \A u \in Handler : u # r => Same(u)
    BY <1>21, <1>a DEF W!AddFileToNatsStore
  <2>2. W!PagesFollow(r)'
    BY <1>21, <1>a DEF W!AddFileToNatsStore
  <2>3. Whole(r)'
    <3>1. /\ c3[r] = "list" /\ UNCHANGED <<c8, c9>>
          /\ c11'[r] = c11[r] \/ c11'[r] = c10[r]
      BY <1>21, <1>a DEF W!AddFileToNatsStore
    <3>2. c14 = "open" => /\ r \in c8 /\ c10[r] = W!Range
                          /\ \A d \in W!Range : c9[r][d] = "whole"
      <4>1. r \notin c4 /\ c7[r] = [c \in W!Range |-> "none"] /\ W!PagesFollow(r)
        BY <1>a, <3>1
      <4>2. \A d \in W!Range : c7[r][d] = "none"
        BY <4>1
      <4> HIDE DEF W!ConvertTypeOK, W!RequestsAreInOrder, W!PagesAreDrawn, W!ListedPagesAreWhole
      <4> QED
        BY <3>1, <4>1, <4>2
    <3> QED
      BY <1>a, <2>1, <3>1, <3>2
  <2> QED
    BY <1>b, <2>1, <2>2, <2>3
<1>22. ASSUME NEW r \in Handler, W!JobUnlock(r) PROVE Pages'
  BY <1>22, <1>a DEF W!JobUnlock
<1>23. ASSUME NEW r \in Handler, NEW c \in W!Range, W!DrawStart(r, c) PROVE Pages'
  BY <1>23, <1>a DEF W!DrawStart
<1>24. ASSUME NEW r \in Handler, NEW c \in W!Range, W!DrawRange(r, c) PROVE Pages'
  BY <1>24, <1>a DEF W!DrawRange
<1>25. ASSUME NEW r \in Handler, NEW c \in W!Range, W!DrawFails(r, c) PROVE Pages'
  <2>1. c14' = c14 /\ \A u \in Handler : u # r => Same(u)
    BY <1>25, <1>a DEF W!DrawFails
  <2>2. W!PagesFollow(r)'
    BY <1>25, <1>a DEF W!DrawFails
  <2>3. Whole(r)'
    <3>1. c7[r][c] = "running" /\ c11' = c11
      BY <1>25 DEF W!DrawFails
    <3>2. c3[r] = "draw" /\ c11'[r] = {}
      BY <1>a, <3>1
    <3> QED
      BY <3>2
  <2> QED
    BY <1>b, <2>1, <2>2, <2>3
<1>26. ASSUME NEW r \in Handler, NEW c \in W!Range, W!DrawKilled(r, c) PROVE Pages'
  <2>1. c14' = c14 /\ \A u \in Handler : u # r => Same(u)
    BY <1>26, <1>a DEF W!DrawKilled
  <2>2. W!PagesFollow(r)'
    BY <1>26, <1>a DEF W!DrawKilled
  <2>3. Whole(r)'
    <3>1. c7[r][c] = "running" /\ c11' = c11
      BY <1>26 DEF W!DrawKilled
    <3>2. c3[r] = "draw" /\ c11'[r] = {}
      BY <1>a, <3>1
    <3> QED
      BY <3>2
  <2> QED
    BY <1>b, <2>1, <2>2, <2>3
<1> QED
  BY <1>1, <1>2, <1>3, <1>4, <1>5, <1>6, <1>7, <1>8, <1>9, <1>10, <1>11, <1>12, <1>13, <1>14,
     <1>15, <1>16, <1>17, <1>18, <1>19, <1>20, <1>21, <1>22, <1>23, <1>24, <1>25, <1>26
  DEF W!ConvertNext

LEMMA ConvertNextKeeps ==
  ASSUME W!ConvertInvariant, [W!ConvertNext]_(W!convertVars)
  PROVE  W!ConvertInvariant'
<1>1. CASE UNCHANGED W!convertVars
  BY <1>1
     DEF W!convertVars, W!ConvertInvariant, W!ConvertTypeOK, W!RequestsAreInOrder,
         W!PagesAreDrawn, W!PagesFollow, W!ListedPagesAreWhole, W!LockWillBeFreed
<1>2. CASE W!ConvertNext
  BY <1>2, ConvertTypeNext, ConvertOrderNext, ConvertPagesNext DEF W!ConvertInvariant
<1> QED
  BY <1>1, <1>2

-----------------------------------------------------------------------------
(* Uploads.  The cells: c1 and c2 are the kind and the path of each upload, *)
(* c3 its parts, c4 those the client knows of, c5 what is at each path, c6 *)
(* the room's list, c7 the workers, c8 the room and c9 what is disputed.   *)

LEMMA UploadsStart == U!UploadsInit => U!UploadsInvariant
BY DEF U!UploadsInit, U!UploadsInvariant, U!UploadsTypeOK, U!RequestsKeepKind, U!AnsweredIsSaved,
       U!MergesAlone, U!PathIsOwned, U!ListedIsWhole, U!Writes, U!On, U!Merging, U!Merged,
       U!Free, U!Nothing, U!Part, U!Kind

(* A worker goes on or is free again, and the others stay where they are.  *)
Served == [at : {"free", "save", "unlink"} \cup U!Merging, up : Thing \cup {Nil}, part : U!Part]
File == [of : Thing \cup {Nil}, got : SUBSET U!Part]

LEMMA WorkerGoes ==
  ASSUME c7 \in [Handler -> Served], NEW w \in Handler
  PROVE  /\ \A a \in {"free", "save", "unlink"} \cup U!Merging :
              U!Goto(w, a) => /\ c7' \in [Handler -> Served]
                              /\ c7'[w] = [at |-> a, up |-> c7[w].up, part |-> c7[w].part]
                              /\ \A x \in Handler : x # w => c7'[x] = c7[x]
         /\ \A q \in U!Part :
              c7' = [c7 EXCEPT ![w].part = q] =>
                 /\ c7' \in [Handler -> Served]
                 /\ c7'[w] = [at |-> c7[w].at, up |-> c7[w].up, part |-> q]
                 /\ \A x \in Handler : x # w => c7'[x] = c7[x]
         /\ U!Return(w) => /\ c7' \in [Handler -> Served] /\ c7'[w] = U!Free
                           /\ \A x \in Handler : x # w => c7'[x] = c7[x]
<1>1. U!Free \in Served
  BY DEF U!Free, Served, U!Part
<1>2. U!Return(w) => /\ c7' \in [Handler -> Served] /\ c7'[w] = U!Free
                    /\ \A x \in Handler : x # w => c7'[x] = c7[x]
  BY <1>1 DEF U!Return
<1>3. ASSUME NEW a \in {"free", "save", "unlink"} \cup U!Merging, U!Goto(w, a)
      PROVE  /\ c7' \in [Handler -> Served]
             /\ c7'[w] = [at |-> a, up |-> c7[w].up, part |-> c7[w].part]
             /\ \A x \in Handler : x # w => c7'[x] = c7[x]
  BY <1>3 DEF U!Goto, Served
<1>4. ASSUME NEW q \in U!Part, c7' = [c7 EXCEPT ![w].part = q]
      PROVE  /\ c7' \in [Handler -> Served]
             /\ c7'[w] = [at |-> c7[w].at, up |-> c7[w].up, part |-> q]
             /\ \A x \in Handler : x # w => c7'[x] = c7[x]
  BY <1>4 DEF Served
<1> QED
  BY <1>2, <1>3, <1>4

LEMMA PathIsWritten ==
  ASSUME c5 \in [FileName -> File], NEW n \in FileName, NEW g \in SUBSET U!Part,
         c5' = [c5 EXCEPT ![n].got = g]
  PROVE  /\ c5' \in [FileName -> File]
         /\ c5'[n] = [of |-> c5[n].of, got |-> g]
         /\ \A m \in FileName : m # n => c5'[m] = c5[m]
BY DEF File

LEMMA UploadsTypeNext ==
  ASSUME U!UploadsInvariant, U!UploadsNext
  PROVE  U!UploadsTypeOK'
<1> DEFINE Types == /\ c1 \in [Thing -> U!Kind] /\ c2 \in [Thing -> FileName]
                    /\ c3 \in [Thing -> [U!Part -> {"none", "cut", "whole"}]]
                    /\ c4 \in [Thing -> SUBSET U!Part]
                    /\ c5 \in [FileName -> File]
                    /\ c6 \subseteq Thing /\ c9 \subseteq Thing
                    /\ c7 \in [Handler -> Served]
                    /\ c8 \in {"open", "cleaned", "gone"}
<1> SUFFICES Types'
  BY DEF U!UploadsTypeOK, Served, File
<1>a. Types
  BY DEF U!UploadsInvariant, U!UploadsTypeOK, Served, File
<1>b. \A w \in Handler : c7[w].at # "free" => c7[w].up \in Thing
  BY DEF U!UploadsInvariant, U!RequestsKeepKind
<1>1. CASE U!DeleteRoomUploadedDir
  BY <1>1, <1>a DEF U!DeleteRoomUploadedDir, U!Nothing, File
<1>2. CASE U!DeleteBucket
  BY <1>2, <1>a DEF U!DeleteBucket
<1>3. ASSUME NEW w \in Handler, NEW u \in Thing, NEW p \in U!Part, U!CheckPart(w, u, p)
      PROVE  Types'
  <2>1. c4' \in [Thing -> SUBSET U!Part] /\ UNCHANGED <<c1, c2, c3, c5, c6, c8, c9>>
    BY <1>3, <1>a DEF U!CheckPart
  <2>2. c7' = c7 \/ c7' = [c7 EXCEPT ![w] = [at |-> "unlink", up |-> u, part |-> p]]
    BY <1>3 DEF U!CheckPart, U!Serve
  <2>3. [at |-> "unlink", up |-> u, part |-> p] \in Served
    BY DEF Served
  <2> QED
    BY <1>a, <2>1, <2>2, <2>3
<1>4. ASSUME NEW w \in Handler, NEW u \in Thing, NEW p \in U!Part, c1[u] # "inline", U!Post(w, u, p)
      PROVE  Types'
  <2>1. [at |-> "save", up |-> u, part |-> p] \in Served
    BY DEF Served, U!Merging, U!Part
  <2>2. c7' \in [Handler -> Served]
    BY <1>4, <1>a, <2>1 DEF U!Post, U!Serve
  <2> QED
    BY <1>4, <1>a, <2>2 DEF U!Post
<1>5. ASSUME NEW w \in Handler, NEW u \in Thing, c1[u] # "inline", U!Ask(w, u) PROVE Types'
  <2>1. [at |-> "create", up |-> u, part |-> 1] \in Served
    BY DEF Served, U!Merging, U!Part
  <2>2. c7' \in [Handler -> Served]
    BY <1>5, <1>a, <2>1 DEF U!Ask, U!Serve
  <2> QED
    BY <1>5, <1>a, <2>2 DEF U!Ask
<1>6. ASSUME NEW w \in Handler, NEW u \in Thing, U!UploadBase64EncodedData(w, u) PROVE Types'
  <2>1. [at |-> "create", up |-> u, part |-> 1] \in Served
    BY DEF Served, U!Merging, U!Part
  <2>2. c7' \in [Handler -> Served]
    BY <1>6, <1>a, <2>1 DEF U!UploadBase64EncodedData, U!Serve
  <2> QED
    BY <1>6, <1>a, <2>2 DEF U!UploadBase64EncodedData
<1>7. ASSUME NEW w \in Handler, U!RemovePart(w) PROVE Types'
  <2>1. c7' \in [Handler -> Served]
    BY <1>7, <1>a, WorkerGoes DEF U!RemovePart
  <2> QED
    BY <1>7, <1>a, <1>b, <2>1 DEF U!RemovePart
<1>8. ASSUME NEW w \in Handler, U!SavePart(w) PROVE Types'
  <2>1. c7' \in [Handler -> Served]
    BY <1>8, <1>a, WorkerGoes DEF U!SavePart
  <2> QED
    <3>1. c7[w].at # "free" /\ c7[w].up \in Thing /\ c7[w].part \in U!Part
      BY <1>8, <1>a, <1>b DEF U!SavePart, Served
    <3> QED
      BY <1>8, <1>a, <2>1, <3>1 DEF U!SavePart
<1>9. ASSUME NEW w \in Handler, U!PostFails(w) PROVE Types'
  <2>1. c7' \in [Handler -> Served]
    BY <1>9, <1>a, WorkerGoes DEF U!PostFails
  <2> QED
    BY <1>9, <1>a, <1>b, <2>1 DEF U!PostFails
<1>10. ASSUME NEW w \in Handler, U!Create(w) PROVE Types'
  <2>1. c7' \in [Handler -> Served]
    BY <1>10, <1>a, WorkerGoes DEF U!Create, U!Merging
  <2> QED
    BY <1>10, <1>a, <1>b, <2>1 DEF U!Create, File
<1>11. ASSUME NEW w \in Handler, U!CopyPart(w) PROVE Types'
  <2> DEFINE u == c7[w].up
             p == c7[w].part
             g == IF c3[u][p] = "whole" THEN c5[c2[u]].got \cup {p} ELSE c5[c2[u]].got
  <2>1. c7[w].at = "copy" /\ UNCHANGED <<c1, c2, c3, c4, c6, c8, c9>>
    BY <1>11 DEF U!CopyPart
  <2>2. u \in Thing /\ c2[u] \in FileName /\ p \in U!Part /\ c5[c2[u]].got \in SUBSET U!Part
    BY <1>a, <1>b, <2>1 DEF Served, File
  <2>3. g \in SUBSET U!Part
    BY <2>2
  <2>4. c5' = c5 \/ c5' = [c5 EXCEPT ![c2[u]].got = g]
    BY <1>11 DEF U!CopyPart
  <2>5. \/ U!Return(w) \/ U!Goto(w, "clean")
        \/ p + 1 \in U!Part /\ c7' = [c7 EXCEPT ![w].part = p + 1]
    BY <1>11, <2>2 DEF U!CopyPart, U!Part
  <2> HIDE DEF g, u, p
  <2>6. c5' \in [FileName -> File]
    BY <1>a, <2>2, <2>3, <2>4, PathIsWritten
  <2>7. c7' \in [Handler -> Served]
    BY <1>a, <2>5, WorkerGoes DEF U!Merging
  <2> QED
    BY <1>a, <2>1, <2>6, <2>7
<1>12. ASSUME NEW w \in Handler, U!BuildPdf(w) PROVE Types'
  <2> DEFINE u == c7[w].up
             g == {p \in U!Part : c3[u][p] = "whole"}
  <2>1. c7[w].at = "copy" /\ UNCHANGED <<c1, c2, c3, c4, c6, c8, c9>>
    BY <1>12 DEF U!BuildPdf
  <2>2. u \in Thing /\ c2[u] \in FileName
    BY <1>a, <1>b, <2>1
  <2>3. g \in SUBSET U!Part
    OBVIOUS
  <2>4. c5' = c5 \/ c5' = [c5 EXCEPT ![c2[u]].got = g]
    BY <1>12 DEF U!BuildPdf
  <2>5. U!Return(w) \/ U!Goto(w, "clean")
    BY <1>12 DEF U!BuildPdf
  <2> HIDE DEF g, u
  <2>6. c5' \in [FileName -> File]
    BY <1>a, <2>2, <2>3, <2>4, PathIsWritten
  <2>7. c7' \in [Handler -> Served]
    BY <1>a, <2>5, WorkerGoes DEF U!Merging
  <2> QED
    BY <1>a, <2>1, <2>6, <2>7
<1>13. ASSUME NEW w \in Handler, U!WriteFile(w) PROVE Types'
  <2> DEFINE u == c7[w].up
             g == U!Part
  <2>1. c7[w].at = "copy" /\ UNCHANGED <<c1, c2, c3, c4, c6, c8, c9>>
    BY <1>13 DEF U!WriteFile
  <2>2. u \in Thing /\ c2[u] \in FileName
    BY <1>a, <1>b, <2>1
  <2>3. g \in SUBSET U!Part
    OBVIOUS
  <2>4. c5' = c5 \/ c5' = [c5 EXCEPT ![c2[u]].got = g]
    BY <1>13 DEF U!WriteFile
  <2>5. U!Return(w) \/ U!Goto(w, "list")
    BY <1>13 DEF U!WriteFile
  <2> HIDE DEF g, u
  <2>6. c5' \in [FileName -> File]
    BY <1>a, <2>2, <2>3, <2>4, PathIsWritten
  <2>7. c7' \in [Handler -> Served]
    BY <1>a, <2>5, WorkerGoes DEF U!Merging
  <2> QED
    BY <1>a, <2>1, <2>6, <2>7
<1>14. ASSUME NEW w \in Handler, U!CleanParts(w) PROVE Types'
  <2>1. c7' \in [Handler -> Served]
    BY <1>14, <1>a, WorkerGoes DEF U!CleanParts, U!Merging
  <2> QED
    BY <1>14, <1>a, <1>b, <2>1 DEF U!CleanParts, File
<1>15. ASSUME NEW w \in Handler, U!CheckFile(w) PROVE Types'
  <2>1. /\ c7[w].at = "check" /\ UNCHANGED <<c1, c2, c3, c4, c6, c8>>
        /\ c9' = c9 \cup {v \in c6 : c2[v] = c2[c7[w].up]}
        /\ c5' = c5 \/ c5' = [c5 EXCEPT ![c2[c7[w].up]] = U!Nothing]
        /\ U!Goto(w, "list") \/ U!Return(w)
    BY <1>15 DEF U!CheckFile
  <2>2. c7' \in [Handler -> Served]
    BY <1>a, <2>1, WorkerGoes DEF U!Merging
  <2>3. U!Nothing \in File
    BY DEF U!Nothing, File
  <2>4. c5' \in [FileName -> File]
    BY <1>a, <2>1, <2>3
  <2> QED
    BY <1>a, <2>1, <2>2, <2>4
<1>16. ASSUME NEW w \in Handler, U!ListFile(w) PROVE Types'
  <2>1. c7' \in [Handler -> Served]
    BY <1>16, <1>a, WorkerGoes DEF U!ListFile
  <2> QED
    BY <1>16, <1>a, <1>b, <2>1 DEF U!ListFile, U!AddRoomFile
<1> QED
  BY <1>a, <1>1, <1>2, <1>3, <1>4, <1>5, <1>6, <1>7, <1>8, <1>9, <1>10, <1>11, <1>12, <1>13,
     <1>14, <1>15, <1>16
     DEF U!UploadsNext, U!PostPart, U!WhiteboardPdfExportSliceUpload, U!UploadedFileMerge,
         U!MergeWhiteboardPdfExport

(* What the steps of a worker w do that can go several ways, seen from the *)
(* cells: its place and its upload's file; all else stays.                 *)
OthersStay(w) == \A x \in Handler : x # w => c7'[x] = c7[x]
OnlyWrites(n) == \A m \in FileName : m # n => c5'[m] = c5[m]

PartIsChecked(w, u, p) ==
    /\ c1[u] = "resumable" /\ p \notin c4[u] /\ c7[w].at = "free"
    /\ UNCHANGED <<c1, c2, c3, c5, c6, c8, c9>>
    /\ \/ /\ c7' = c7 /\ c3[u][p] = "whole" /\ c4'[u] = c4[u] \cup {p}
          /\ \A v \in Thing : v # u => c4'[v] = c4[v]
       \/ /\ c4' = c4 /\ c3[u][p] = "cut" /\ OthersStay(w)
          /\ c7'[w] = [at |-> "unlink", up |-> u, part |-> p]

PartIsSaved(w) ==
    LET u == c7[w].up  p == c7[w].part IN
    /\ c7[w].at = "save" /\ u \in Thing /\ p \in U!Part
    /\ UNCHANGED <<c1, c2, c5, c6, c8, c9>>
    /\ OthersStay(w) /\ c7'[w] = U!Free
    /\ c3'[u][p] = IF c3[u][p] = "cut" THEN "whole" ELSE c3[u][p]
    /\ \A v \in Thing, q \in U!Part : v # u \/ q # p => c3'[v][q] = c3[v][q]
    /\ c4'[u] = c4[u] \/ c4'[u] = c4[u] \cup {p}
    /\ \A v \in Thing : v # u => c4'[v] = c4[v]

MergeGoesOn(w) ==
    LET u == c7[w].up  p == c7[w].part  n == c2[u]
        Copied == IF c3[u][p] = "whole" THEN c5[n].got \cup {p} ELSE c5[n].got IN
    /\ c7[w].at = "copy" /\ u \in Thing /\ p \in U!Part /\ n \in FileName
    /\ UNCHANGED <<c1, c2, c3, c4, c6, c8, c9>>
    /\ OthersStay(w) /\ OnlyWrites(n)
    /\ \/ c7'[w] = U!Free
       \/ /\ c1[u] = "resumable" /\ p # Parts /\ c3[u][p] # "none"
          /\ c7'[w] = [at |-> "copy", up |-> u, part |-> p + 1]
          /\ c5'[n] = [of |-> c5[n].of, got |-> Copied]
       \/ /\ c1[u] = "resumable" /\ p = Parts /\ c3[u][p] # "none"
          /\ c7'[w] = [at |-> "clean", up |-> u, part |-> p]
          /\ c5'[n] = [of |-> c5[n].of, got |-> Copied]
       \/ /\ c1[u] = "export"
          /\ c7'[w] = [at |-> "clean", up |-> u, part |-> p]
          /\ c5'[n] = [of |-> c5[n].of, got |-> {q \in U!Part : c3[u][q] = "whole"}]
       \/ /\ c1[u] = "inline"
          /\ c7'[w] = [at |-> "list", up |-> u, part |-> p]
          /\ c5'[n] = [of |-> c5[n].of, got |-> U!Part]

FileIsChecked(w) ==
    LET u == c7[w].up  p == c7[w].part IN
    /\ c7[w].at = "check" /\ u \in Thing /\ p \in U!Part /\ c2[u] \in FileName
    /\ UNCHANGED <<c1, c2, c3, c4, c6, c8>>
    /\ c9' = c9 \cup {v \in c6 : c2[v] = c2[u]}
    /\ OthersStay(w) /\ OnlyWrites(c2[u])
    /\ \/ c7'[w] = U!Free
       \/ c7'[w] = [at |-> "list", up |-> u, part |-> p] /\ c5' = c5

LEMMA CheckPartDoes ==
  ASSUME U!UploadsInvariant, NEW w \in Handler, NEW u \in Thing, NEW p \in U!Part,
         U!CheckPart(w, u, p)
  PROVE  PartIsChecked(w, u, p)
BY DEF PartIsChecked, U!UploadsInvariant, U!UploadsTypeOK, U!CheckPart, U!Serve, OthersStay

LEMMA SavePartDoes ==
  ASSUME U!UploadsInvariant, NEW w \in Handler, U!SavePart(w)
  PROVE  PartIsSaved(w)
<1>1. c7[w].at = "save" /\ c7[w].up \in Thing /\ c7[w].part \in U!Part
  BY DEF U!UploadsInvariant, U!UploadsTypeOK, U!RequestsKeepKind, U!SavePart
<1>2. OthersStay(w) /\ c7'[w] = U!Free
  BY DEF U!UploadsInvariant, U!UploadsTypeOK, U!SavePart, U!Return, OthersStay
<1> QED
  BY <1>1, <1>2 DEF PartIsSaved, U!UploadsInvariant, U!UploadsTypeOK, U!SavePart

LEMMA MergeDoes ==
  ASSUME U!UploadsInvariant, NEW w \in Handler, U!CopyPart(w) \/ U!BuildPdf(w) \/ U!WriteFile(w)
  PROVE  MergeGoesOn(w)
<1> DEFINE u == c7[w].up
           p == c7[w].part
           n == c2[u]
           Copied == IF c3[u][p] = "whole" THEN c5[n].got \cup {p} ELSE c5[n].got
<1>a. /\ c7 \in [Handler -> Served] /\ c5 \in [FileName -> File] /\ c2 \in [Thing -> FileName]
      /\ c7[w].at # "free" => u \in Thing
  BY DEF U!UploadsInvariant, U!UploadsTypeOK, U!RequestsKeepKind, Served, File
<1>1. /\ c7[w].at = "copy" /\ u \in Thing /\ p \in U!Part /\ n \in FileName
      /\ UNCHANGED <<c1, c2, c3, c4, c6, c8, c9>>
  BY <1>a DEF U!CopyPart, U!BuildPdf, U!WriteFile, Served
<1>2. Copied \in SUBSET U!Part
  BY <1>a, <1>1 DEF File
<1>3. ASSUME U!Return(w), c5' = c5
      PROVE  OthersStay(w) /\ OnlyWrites(n) /\ c7'[w] = U!Free
  BY <1>3, <1>a, WorkerGoes DEF OthersStay, OnlyWrites
<1>4. ASSUME NEW a \in {"copy", "clean", "list"}, NEW q \in U!Part, NEW g \in SUBSET U!Part,
             \/ U!Goto(w, a) /\ q = p
             \/ a = "copy" /\ c7' = [c7 EXCEPT ![w].part = q],
             c5' = [c5 EXCEPT ![n].got = g]
      PROVE  /\ OthersStay(w) /\ OnlyWrites(n)
             /\ c7'[w] = [at |-> a, up |-> u, part |-> q]
             /\ c5'[n] = [of |-> c5[n].of, got |-> g]
  <2>1. c5'[n] = [of |-> c5[n].of, got |-> g] /\ OnlyWrites(n)
    BY <1>a, <1>1, <1>4, PathIsWritten DEF OnlyWrites
  <2>2. OthersStay(w) /\ c7'[w] = [at |-> a, up |-> u, part |-> q]
    <3>1. CASE U!Goto(w, a) /\ q = p
      BY <1>a, <3>1, WorkerGoes DEF OthersStay, U!Merging
    <3>2. CASE a = "copy" /\ c7' = [c7 EXCEPT ![w].part = q]
      BY <1>a, <1>1, <3>2, WorkerGoes DEF OthersStay
    <3> QED
      BY <1>4, <3>1, <3>2
  <2> QED
    BY <2>1, <2>2
<1> HIDE DEF Copied
<1>5. CASE U!CopyPart(w)
  <2>1. \/ U!Return(w) /\ c5' = c5
        \/ /\ c3[u][p] # "none" /\ c5' = [c5 EXCEPT ![n].got = Copied]
           /\ \/ p = Parts /\ U!Goto(w, "clean")
              \/ p # Parts /\ p + 1 \in U!Part /\ c7' = [c7 EXCEPT ![w].part = p + 1]
    BY <1>5, <1>1 DEF U!CopyPart, Copied, U!Part
  <2>2. c1[u] = "resumable"
    BY <1>5 DEF U!CopyPart
  <2> DEFINE Went(a, q, g) == /\ OthersStay(w) /\ OnlyWrites(n)
                              /\ c7'[w] = [at |-> a, up |-> u, part |-> q]
                              /\ c5'[n] = [of |-> c5[n].of, got |-> g]
  <2>3. CASE /\ c3[u][p] # "none" /\ c5' = [c5 EXCEPT ![n].got = Copied]
             /\ p = Parts /\ U!Goto(w, "clean")
    <3>1. Went("clean", p, Copied)
      BY <1>1, <1>2, <1>4, <2>3
    <3> QED
      BY <1>1, <2>2, <2>3, <3>1 DEF Copied, MergeGoesOn
  <2>4. CASE /\ c3[u][p] # "none" /\ c5' = [c5 EXCEPT ![n].got = Copied]
             /\ p # Parts /\ p + 1 \in U!Part /\ c7' = [c7 EXCEPT ![w].part = p + 1]
    <3>1. Went("copy", p + 1, Copied)
      BY <1>1, <1>2, <1>4, <2>4
    <3> QED
      BY <1>1, <2>2, <2>4, <3>1 DEF Copied, MergeGoesOn
  <2> QED
    BY <1>1, <1>3, <2>1, <2>3, <2>4 DEF MergeGoesOn
<1>6. CASE U!BuildPdf(w)
  <2>1. /\ c1[u] = "export"
        /\ \/ U!Return(w) /\ c5' = c5
           \/ /\ c5' = [c5 EXCEPT ![n].got = {q \in U!Part : c3[u][q] = "whole"}]
              /\ U!Goto(w, "clean")
    BY <1>6 DEF U!BuildPdf
  <2>2. {q \in U!Part : c3[u][q] = "whole"} \in SUBSET U!Part
    OBVIOUS
  <2> QED
    BY <1>1, <1>3, <1>4, <2>1, <2>2 DEF MergeGoesOn
<1>7. CASE U!WriteFile(w)
  <2>1. /\ c1[u] = "inline"
        /\ \/ U!Return(w) /\ c5' = c5
           \/ c5' = [c5 EXCEPT ![n].got = U!Part] /\ U!Goto(w, "list")
    BY <1>7 DEF U!WriteFile
  <2> QED
    BY <1>1, <1>3, <1>4, <2>1 DEF MergeGoesOn
<1> QED
  BY <1>5, <1>6, <1>7

LEMMA CheckFileDoes ==
  ASSUME U!UploadsInvariant, NEW w \in Handler, U!CheckFile(w)
  PROVE  FileIsChecked(w)
<1>a. /\ c7 \in [Handler -> Served] /\ c5 \in [FileName -> File] /\ c2 \in [Thing -> FileName]
      /\ c7[w].at # "free" => c7[w].up \in Thing
  BY DEF U!UploadsInvariant, U!UploadsTypeOK, U!RequestsKeepKind, Served, File
<1>1. /\ c7[w].at = "check" /\ UNCHANGED <<c1, c2, c3, c4, c6, c8>>
      /\ c9' = c9 \cup {v \in c6 : c2[v] = c2[c7[w].up]}
      /\ \/ U!Goto(w, "list") /\ c5' = c5
         \/ U!Return(w) /\ c5' = [c5 EXCEPT ![c2[c7[w].up]] = U!Nothing]
  BY DEF U!CheckFile
<1>2. OnlyWrites(c2[c7[w].up])
  BY <1>a, <1>1 DEF OnlyWrites
<1>3. /\ OthersStay(w)
      /\ \/ c7'[w] = U!Free
         \/ c7'[w] = [at |-> "list", up |-> c7[w].up, part |-> c7[w].part] /\ c5' = c5
  BY <1>a, <1>1, WorkerGoes DEF OthersStay, U!Merging
<1> QED
  BY <1>a, <1>1, <1>2, <1>3 DEF FileIsChecked, Served

LEMMA UploadsKindNext ==
  ASSUME U!UploadsInvariant, U!UploadsNext
  PROVE  U!RequestsKeepKind'
<1>a. U!UploadsTypeOK /\ U!RequestsKeepKind
  BY DEF U!UploadsInvariant
<1> USE DEF U!Free, U!Merging, U!UploadsTypeOK, U!RequestsKeepKind
<1>1. CASE U!DeleteRoomUploadedDir
  BY <1>1, <1>a DEF U!DeleteRoomUploadedDir
<1>2. CASE U!DeleteBucket
  BY <1>2, <1>a DEF U!DeleteBucket
<1>3. ASSUME NEW w \in Handler, NEW u \in Thing, NEW p \in U!Part, U!CheckPart(w, u, p)
      PROVE  U!RequestsKeepKind'
  <2>1. PartIsChecked(w, u, p)
    BY <1>3, CheckPartDoes
  <2>2. \A v \in Thing : c4[v] = U!Part => c4'[v] = U!Part
    BY <2>1, <1>a DEF PartIsChecked
  <2>3. CASE c7' = c7
    BY <2>1, <2>2, <2>3, <1>a DEF PartIsChecked
  <2>4. CASE OthersStay(w) /\ c7'[w] = [at |-> "unlink", up |-> u, part |-> p]
    <3>1. c1' = c1 /\ c1[u] = "resumable"
      BY <2>1 DEF PartIsChecked
    <3>2. c7'[w].at = "unlink" /\ c7'[w].up = u
      BY <2>4
    <3>3. \A x \in Handler : x # w => c7'[x] = c7[x]
      BY <2>4 DEF OthersStay
    <3> QED
      BY <3>1, <3>2, <3>3, <2>2, <1>a
  <2> QED
    BY <2>1, <2>3, <2>4 DEF PartIsChecked
<1>4. ASSUME NEW w \in Handler, NEW u \in Thing, NEW p \in U!Part, c1[u] # "inline", U!Post(w, u, p)
      PROVE  U!RequestsKeepKind'
  BY <1>4, <1>a DEF U!Post, U!Goto, U!Return, U!Serve
<1>5. ASSUME NEW w \in Handler, NEW u \in Thing, c1[u] # "inline", U!Ask(w, u)
      PROVE  U!RequestsKeepKind'
  BY <1>5, <1>a DEF U!Ask, U!Goto, U!Return, U!Serve
<1>6. ASSUME NEW w \in Handler, NEW u \in Thing, U!UploadBase64EncodedData(w, u)
      PROVE  U!RequestsKeepKind'
  BY <1>6, <1>a DEF U!UploadBase64EncodedData, U!Goto, U!Return, U!Serve
<1>7. ASSUME NEW w \in Handler, U!RemovePart(w) PROVE U!RequestsKeepKind'
  BY <1>7, <1>a DEF U!RemovePart, U!Goto, U!Return, U!Serve
<1>8. ASSUME NEW w \in Handler, U!SavePart(w) PROVE U!RequestsKeepKind'
  <2>1. PartIsSaved(w)
    BY <1>8, SavePartDoes
  <2>2. \A v \in Thing : c4[v] = U!Part => c4'[v] = U!Part
    <3>1. \A q \in U!Part : U!Part \cup {q} = U!Part
      OBVIOUS
    <3> QED
      BY <2>1, <3>1 DEF PartIsSaved
  <2>3. c1' = c1 /\ c7'[w].at = "free" /\ \A x \in Handler : x # w => c7'[x] = c7[x]
    BY <2>1 DEF PartIsSaved, OthersStay
  <2> QED
    BY <2>2, <2>3, <1>a
<1>9. ASSUME NEW w \in Handler, U!PostFails(w) PROVE U!RequestsKeepKind'
  BY <1>9, <1>a DEF U!PostFails, U!Goto, U!Return, U!Serve
<1>10. ASSUME NEW w \in Handler, U!Create(w) PROVE U!RequestsKeepKind'
  BY <1>10, <1>a DEF U!Create, U!Goto, U!Return, U!Serve
<1>11. ASSUME NEW w \in Handler, U!CopyPart(w) \/ U!BuildPdf(w) \/ U!WriteFile(w)
      PROVE  U!RequestsKeepKind'
  <2>1. MergeGoesOn(w)
    BY <1>11, MergeDoes
  <2> QED
    BY <2>1, <1>a DEF MergeGoesOn, OthersStay
<1>12. ASSUME NEW w \in Handler, U!CleanParts(w) PROVE U!RequestsKeepKind'
  BY <1>12, <1>a DEF U!CleanParts, U!Goto, U!Return, U!Serve
<1>13. ASSUME NEW w \in Handler, U!CheckFile(w) PROVE U!RequestsKeepKind'
  <2>1. FileIsChecked(w)
    BY <1>13, CheckFileDoes
  <2> QED
    BY <2>1, <1>a DEF FileIsChecked, OthersStay
<1>14. ASSUME NEW w \in Handler, U!ListFile(w) PROVE U!RequestsKeepKind'
  BY <1>14, <1>a DEF U!ListFile, U!Goto, U!Return, U!Serve
<1> QED
  BY <1>a, <1>1, <1>2, <1>3, <1>4, <1>5, <1>6, <1>7, <1>8, <1>9, <1>10, <1>11, <1>12, <1>13,
     <1>14
     DEF U!UploadsNext, U!PostPart, U!WhiteboardPdfExportSliceUpload, U!UploadedFileMerge,
         U!MergeWhiteboardPdfExport

LEMMA UploadsSavedNext ==
  ASSUME U!UploadsInvariant, U!UploadsNext, c8' = "open"
  PROVE  U!AnsweredIsSaved'
<1>a. /\ U!UploadsTypeOK /\ U!RequestsKeepKind /\ c8' = "open"
      /\ c8 = "open" => U!AnsweredIsSaved
  BY DEF U!UploadsInvariant
<1> USE DEF U!Free, U!Merging, U!Merged, U!On, U!UploadsTypeOK, U!RequestsKeepKind,
            U!AnsweredIsSaved
<1>1. CASE U!DeleteRoomUploadedDir
  BY <1>1, <1>a DEF U!DeleteRoomUploadedDir
<1>2. CASE U!DeleteBucket
  BY <1>2, <1>a DEF U!DeleteBucket
<1>3. ASSUME NEW w \in Handler, NEW u \in Thing, NEW p \in U!Part, U!CheckPart(w, u, p)
      PROVE  U!AnsweredIsSaved'
  <2>1. PartIsChecked(w, u, p)
    BY <1>3, CheckPartDoes
  <2>2. U!AnsweredIsSaved /\ UNCHANGED <<c1, c3>>
    BY <2>1, <1>a DEF PartIsChecked
  <2>3. CASE /\ c7' = c7 /\ c3[u][p] = "whole" /\ c4'[u] = c4[u] \cup {p}
             /\ \A v \in Thing : v # u => c4'[v] = c4[v]
    <3>1. \A v \in Thing : U!Merged(v) => U!Merged(v)'
      BY <2>2, <2>3, <1>a
    <3>2. \A v \in Thing, q \in U!Part : q \in c4'[v] => q \in c4[v] \/ (v = u /\ q = p)
      BY <2>3
    <3> HIDE DEF U!Merged
    <3> QED
      BY <2>2, <2>3, <3>1, <3>2
  <2>4. CASE c4' = c4 /\ OthersStay(w) /\ c7'[w] = [at |-> "unlink", up |-> u, part |-> p]
    BY <2>2, <2>4 DEF OthersStay
  <2> QED
    BY <2>1, <2>3, <2>4 DEF PartIsChecked
<1>4. ASSUME NEW w \in Handler, NEW u \in Thing, NEW p \in U!Part, c1[u] # "inline", U!Post(w, u, p)
      PROVE  U!AnsweredIsSaved'
  BY <1>4, <1>a DEF U!Post, U!Goto, U!Return, U!Serve
<1>5. ASSUME NEW w \in Handler, NEW u \in Thing, c1[u] # "inline", U!Ask(w, u)
      PROVE  U!AnsweredIsSaved'
  BY <1>5, <1>a DEF U!Ask, U!Goto, U!Return, U!Serve
<1>6. ASSUME NEW w \in Handler, NEW u \in Thing, U!UploadBase64EncodedData(w, u)
      PROVE  U!AnsweredIsSaved'
  BY <1>6, <1>a DEF U!UploadBase64EncodedData, U!Goto, U!Return, U!Serve
<1>7. ASSUME NEW w \in Handler, U!RemovePart(w) PROVE U!AnsweredIsSaved'
  BY <1>7, <1>a DEF U!RemovePart, U!Goto, U!Return, U!Serve
<1>8. ASSUME NEW w \in Handler, U!SavePart(w) PROVE U!AnsweredIsSaved'
  <2> DEFINE u == c7[w].up
             p == c7[w].part
  <2>1. PartIsSaved(w)
    BY <1>8, SavePartDoes
  <2>2. U!AnsweredIsSaved /\ c1' = c1 /\ u \in Thing /\ p \in U!Part /\ w \in U!On(u, {"save"})
    BY <2>1, <1>a DEF PartIsSaved
  <2>3. \A v \in Thing, q \in U!Part :
          /\ c3'[v][q] = "none" <=> c3[v][q] = "none"
          /\ c3'[v][q] = "cut" => c3[v][q] = "cut" /\ (v # u \/ q # p)
          /\ q \in c4'[v] => q \in c4[v] \/ (v = u /\ q = p)
    BY <2>1 DEF PartIsSaved
  <2>4. \A v \in Thing : U!Merged(v) => U!Merged(v)'
    <3>a. \A q \in U!Part : U!Part \cup {q} = U!Part
      OBVIOUS
    <3>1. \A v \in Thing : c4[v] = U!Part => c4'[v] = U!Part
      BY <2>1, <3>a DEF PartIsSaved
    <3> QED
      BY <2>3, <3>1
  <2>5. \A v \in Thing : U!On(v, {"save"})' \subseteq U!On(v, {"save"})
    BY <2>1 DEF PartIsSaved, OthersStay
  <2>6. \A x \in Handler : x # w => c7'[x] = c7[x]
    BY <2>1 DEF PartIsSaved, OthersStay
  <2>7. \A v \in Thing : w \notin U!On(v, {"save"})'
    BY <2>1 DEF PartIsSaved
  <2> HIDE DEF U!Merged, U!On, u, p
  <2>8. \A v \in Thing, q \in U!Part : q \in c4'[v] => c3'[v][q] # "cut"
    BY <2>2, <2>3
  <2>9. ASSUME NEW v \in Thing, NEW q \in U!Part,
               q \in c4'[v] \/ (\E x \in U!On(v, {"save"})' : c7'[x].part = q),
               c1[v] = "export", c3'[v][q] = "none"
        PROVE  U!Merged(v)'
    <3>1. q \in c4[v] \/ \E x \in U!On(v, {"save"}) : c7[x].part = q
      <4>1. CASE q \in c4'[v]
        BY <2>2, <2>3, <4>1 DEF p
      <4>2. CASE \E x \in U!On(v, {"save"})' : c7'[x].part = q
        <5>1. PICK x \in U!On(v, {"save"})' : c7'[x].part = q
          BY <4>2
        <5>2. x \in Handler /\ x \in U!On(v, {"save"}) /\ x # w
          BY <2>5, <2>7, <5>1 DEF U!On
        <5> QED
          BY <2>6, <5>1, <5>2
      <4> QED
        BY <2>9, <4>1, <4>2
    <3> QED
      BY <2>2, <2>3, <2>4, <2>9, <3>1
  <2> QED
    BY <2>2, <2>8, <2>9
<1>9. ASSUME NEW w \in Handler, U!PostFails(w) PROVE U!AnsweredIsSaved'
  BY <1>9, <1>a DEF U!PostFails, U!Goto, U!Return, U!Serve
<1>10. ASSUME NEW w \in Handler, U!Create(w) PROVE U!AnsweredIsSaved'
  BY <1>10, <1>a DEF U!Create, U!Goto, U!Return, U!Serve
<1>11. ASSUME NEW w \in Handler, U!CopyPart(w) \/ U!BuildPdf(w) \/ U!WriteFile(w)
      PROVE  U!AnsweredIsSaved'
  <2>1. MergeGoesOn(w)
    BY <1>11, MergeDoes
  <2>2. U!AnsweredIsSaved /\ UNCHANGED <<c1, c3, c4>>
    BY <2>1, <1>a DEF MergeGoesOn
  <2>3. \A v \in Thing : U!On(v, {"save"})' \subseteq U!On(v, {"save"})
    BY <2>1 DEF MergeGoesOn, OthersStay
  <2>4. \A v \in Thing : \A x \in U!On(v, {"save"})' : c7'[x] = c7[x]
    BY <2>1 DEF MergeGoesOn, OthersStay
  <2> HIDE DEF U!On
  <2> QED
    BY <2>2, <2>3, <2>4
<1>12. ASSUME NEW w \in Handler, U!CleanParts(w) PROVE U!AnsweredIsSaved'
  BY <1>12, <1>a DEF U!CleanParts, U!Goto, U!Return, U!Serve
<1>13. ASSUME NEW w \in Handler, U!CheckFile(w) PROVE U!AnsweredIsSaved'
  <2>1. FileIsChecked(w)
    BY <1>13, CheckFileDoes
  <2>2. U!AnsweredIsSaved /\ UNCHANGED <<c1, c3, c4>>
    BY <2>1, <1>a DEF FileIsChecked
  <2>3. \A v \in Thing : U!On(v, {"save"})' \subseteq U!On(v, {"save"})
    BY <2>1 DEF FileIsChecked, OthersStay
  <2>4. \A v \in Thing : \A x \in U!On(v, {"save"})' : c7'[x] = c7[x]
    BY <2>1 DEF FileIsChecked, OthersStay
  <2> HIDE DEF U!On
  <2> QED
    BY <2>2, <2>3, <2>4
<1>14. ASSUME NEW w \in Handler, U!ListFile(w) PROVE U!AnsweredIsSaved'
  BY <1>14, <1>a DEF U!ListFile, U!Goto, U!Return, U!Serve
<1> QED
  BY <1>a, <1>1, <1>2, <1>3, <1>4, <1>5, <1>6, <1>7, <1>8, <1>9, <1>10, <1>11, <1>12, <1>13,
     <1>14
     DEF U!UploadsNext, U!PostPart, U!WhiteboardPdfExportSliceUpload, U!UploadedFileMerge,
         U!MergeWhiteboardPdfExport

LEMMA UploadsMergesNext ==
  ASSUME U!UploadsInvariant, U!UploadsNext, c8' = "open", NEW v \in Thing, v \notin c9'
  PROVE  U!MergesAlone(v)'
<1>a. /\ U!UploadsTypeOK /\ U!RequestsKeepKind /\ c8' = "open" /\ v \notin c9'
      /\ c8 = "open" => U!AnsweredIsSaved /\ (v \notin c9 => U!MergesAlone(v))
  BY DEF U!UploadsInvariant
<1> USE DEF U!Free, U!Merging, U!Merged, U!On, U!UploadsTypeOK, U!RequestsKeepKind,
            U!AnsweredIsSaved, U!MergesAlone
<1>b. ASSUME v \notin c9, c8 = "open", c1' = c1, c6' = c6, c4'[v] = c4[v],
             \A q \in U!Part : c3'[v][q] = c3[v][q],
             \A x \in Handler :
                (c7'[x].at # "free" /\ c7'[x].up = v) \/ (c7[x].at # "free" /\ c7[x].up = v) =>
                c7'[x] = c7[x]
      PROVE  U!MergesAlone(v)'
  <2>1. \A ats \in SUBSET ({"save", "unlink"} \cup U!Merging) : U!On(v, ats)' = U!On(v, ats)
    BY <1>b
  <2>2. /\ U!On(v, U!Merging)' = U!On(v, U!Merging)
        /\ U!On(v, {"save", "unlink"})' = U!On(v, {"save", "unlink"})
        /\ U!On(v, {"check", "list"})' = U!On(v, {"check", "list"})
        /\ U!On(v, {"create", "copy", "clean"})' = U!On(v, {"create", "copy", "clean"})
    BY <2>1
  <2>3. U!Merged(v)' = U!Merged(v)
    BY <1>b
  <2>4. U!MergesAlone(v)
    BY <1>a, <1>b
  <2> HIDE DEF U!On, U!Merged, U!Merging
  <2> QED
    BY <1>b, <2>2, <2>3, <2>4
<1>1. CASE U!DeleteRoomUploadedDir
  BY <1>1, <1>a DEF U!DeleteRoomUploadedDir
<1>2. CASE U!DeleteBucket
  BY <1>2, <1>a DEF U!DeleteBucket
<1>3. ASSUME NEW w \in Handler, NEW u \in Thing, NEW p \in U!Part, U!CheckPart(w, u, p)
      PROVE  U!MergesAlone(v)'
  <2>1. PartIsChecked(w, u, p)
    BY <1>3, CheckPartDoes
  <2>2. /\ U!MergesAlone(v) /\ UNCHANGED <<c1, c3, c6, c8, c9>> /\ c1[u] = "resumable"
        /\ p \notin c4[u] /\ c7[w].at = "free" /\ v \notin c9 /\ c8 = "open"
        /\ c4'[u] = c4[u] \/ c3[u][p] = "whole"
    BY <2>1, <1>a DEF PartIsChecked
  <2>3. CASE v # u
    <3>1. /\ c4'[v] = c4[v]
          /\ \A x \in Handler :
               (c7'[x].at # "free" /\ c7'[x].up = v) \/ (c7[x].at # "free" /\ c7[x].up = v) =>
               c7'[x] = c7[x]
      BY <2>1, <2>3 DEF PartIsChecked, OthersStay
    <3> QED
      BY <1>b, <2>2, <3>1
  <2>4. CASE v = u
    <3>1. U!On(v, U!Merging) = {} /\ v \notin c6
      BY <2>2, <2>4
    <3>2. \A x \in Handler : c7'[x].at \in U!Merging => c7'[x] = c7[x]
      BY <2>1 DEF PartIsChecked, OthersStay
    <3>3. \A ats \in SUBSET U!Merging : U!On(v, ats)' = {}
      BY <3>1, <3>2
    <3>4. /\ U!On(v, U!Merging)' = {} /\ U!On(v, {"check", "list"})' = {}
          /\ U!On(v, {"create", "copy", "clean"})' = {}
      BY <3>3
    <3> HIDE DEF U!On, U!Merged
    <3> QED
      BY <2>2, <3>1, <3>4
  <2> QED
    BY <2>3, <2>4
<1>4. ASSUME NEW w \in Handler, NEW u \in Thing, NEW p \in U!Part, c1[u] # "inline", U!Post(w, u, p)
      PROVE  U!MergesAlone(v)'
  BY <1>4, <1>a DEF U!Post, U!Goto, U!Return, U!Serve
<1>5. ASSUME NEW w \in Handler, NEW u \in Thing, c1[u] # "inline", U!Ask(w, u)
      PROVE  U!MergesAlone(v)'
  BY <1>5, <1>a DEF U!Ask, U!Goto, U!Return, U!Serve
<1>6. ASSUME NEW w \in Handler, NEW u \in Thing, U!UploadBase64EncodedData(w, u)
      PROVE  U!MergesAlone(v)'
  BY <1>6, <1>a DEF U!UploadBase64EncodedData, U!Goto, U!Return, U!Serve
<1>7. ASSUME NEW w \in Handler, U!RemovePart(w) PROVE U!MergesAlone(v)'
  BY <1>7, <1>a DEF U!RemovePart, U!Goto, U!Return, U!Serve
<1>8. ASSUME NEW w \in Handler, U!SavePart(w) PROVE U!MergesAlone(v)'
  <2> DEFINE u == c7[w].up
  <2>1. PartIsSaved(w)
    BY <1>8, SavePartDoes
  <2>2. /\ U!MergesAlone(v) /\ UNCHANGED <<c1, c6, c8, c9>>
        /\ v \notin c9 /\ c8 = "open" /\ u \in Thing
    BY <2>1, <1>a DEF PartIsSaved
  <2>3. CASE v # u
    <3>1. /\ c4'[v] = c4[v] /\ \A q \in U!Part : c3'[v][q] = c3[v][q]
          /\ \A x \in Handler :
               (c7'[x].at # "free" /\ c7'[x].up = v) \/ (c7[x].at # "free" /\ c7[x].up = v) =>
               c7'[x] = c7[x]
      <4>1. c7'[w].at = "free" \/ c7'[w].up = u
        BY <2>1 DEF PartIsSaved
      <4>2. \A x \in Handler : x # w => c7'[x] = c7[x]
        BY <2>1 DEF PartIsSaved, OthersStay
      <4>3. c4'[v] = c4[v] /\ \A q \in U!Part : c3'[v][q] = c3[v][q]
        BY <2>1, <2>3 DEF PartIsSaved
      <4> QED
        BY <2>3, <4>1, <4>2, <4>3
    <3> QED
      BY <1>b, <2>2, <3>1
  <2>4. CASE v = u
    <3>1. w \in U!On(v, {"save", "unlink"})
      BY <2>1, <2>4 DEF PartIsSaved
    <3>2. U!On(v, U!Merging) = {} /\ v \notin c6
      BY <2>2, <3>1
    <3>3. \A x \in Handler : c7'[x].at \in U!Merging => c7'[x] = c7[x]
      BY <2>1 DEF PartIsSaved, OthersStay
    <3>4. \A ats \in SUBSET U!Merging : U!On(v, ats)' = {}
      BY <3>2, <3>3
    <3>5. /\ U!On(v, U!Merging)' = {} /\ U!On(v, {"check", "list"})' = {}
          /\ U!On(v, {"create", "copy", "clean"})' = {}
      BY <3>4
    <3> HIDE DEF U!On, U!Merged
    <3> QED
      BY <2>2, <3>2, <3>5
  <2> QED
    BY <2>3, <2>4
<1>9. ASSUME NEW w \in Handler, U!PostFails(w) PROVE U!MergesAlone(v)'
  BY <1>9, <1>a DEF U!PostFails, U!Goto, U!Return, U!Serve
<1>10. ASSUME NEW w \in Handler, U!Create(w) PROVE U!MergesAlone(v)'
  BY <1>10, <1>a DEF U!Create, U!Goto, U!Return, U!Serve
<1>11. ASSUME NEW w \in Handler, U!CopyPart(w) \/ U!BuildPdf(w) \/ U!WriteFile(w)
      PROVE  U!MergesAlone(v)'
  <2> DEFINE u == c7[w].up
  <2>1. MergeGoesOn(w)
    BY <1>11, MergeDoes
  <2>2. /\ U!MergesAlone(v) /\ UNCHANGED <<c1, c3, c4, c6, c8, c9>>
        /\ v \notin c9 /\ c8 = "open" /\ u \in Thing
    BY <2>1, <1>a DEF MergeGoesOn
  <2>3. CASE v # u
    <3>1. /\ c3'[v] = c3[v] /\ c4'[v] = c4[v]
          /\ \A x \in Handler :
               (c7'[x].at # "free" /\ c7'[x].up = v) \/ (c7[x].at # "free" /\ c7[x].up = v) =>
               c7'[x] = c7[x]
      <4>1. c7'[w].at = "free" \/ c7'[w].up = u
        BY <2>1 DEF MergeGoesOn
      <4>2. \A x \in Handler : x # w => c7'[x] = c7[x]
        BY <2>1 DEF MergeGoesOn, OthersStay
      <4>3. c3'[v] = c3[v] /\ c4'[v] = c4[v]
        BY <2>1, <2>3 DEF MergeGoesOn
      <4> QED
        BY <2>3, <4>1, <4>2, <4>3
    <3> QED
      BY <1>b, <2>2, <3>1
  <2>4. CASE v = u
    <3>1. w \in U!On(v, U!Merging) /\ \A x \in U!On(v, U!Merging) : x = w
      BY <2>1, <2>2, <2>4 DEF MergeGoesOn
    <3>2. v \notin c6 /\ U!On(v, {"save", "unlink"}) = {} /\ (c1[v] # "inline" => c4[v] = U!Part)
      BY <2>2, <3>1
    <3>3. \A x \in Handler : x # w => c7'[x] = c7[x] /\ x \notin U!On(v, U!Merging)
      BY <2>1, <3>1 DEF MergeGoesOn, OthersStay
    <3>4. \A ats \in SUBSET U!Merging : U!On(v, ats)' \subseteq {w}
      BY <3>3
    <3>5. /\ U!On(v, U!Merging)' \subseteq {w} /\ U!On(v, {"check", "list"})' \subseteq {w}
          /\ U!On(v, {"create", "copy", "clean"})' \subseteq {w}
      BY <3>4
    <3>6. U!On(v, {"save", "unlink"})' = {}
      <4>1. c7'[w].at \notin {"save", "unlink"}
        BY <2>1 DEF MergeGoesOn
      <4> QED
        BY <3>2, <3>3, <4>1
    <3>7. c1[v] # "inline" => w \notin U!On(v, {"check", "list"})'
      BY <2>1, <2>4 DEF MergeGoesOn
    <3>8. c1[v] = "export" => ~U!Merged(v)
      <4>1. w \in U!On(v, {"create", "copy", "clean"})
        BY <2>1, <2>4 DEF MergeGoesOn
      <4> QED
        BY <2>2, <4>1
    <3>9. U!Merged(v)' = U!Merged(v)
      BY <2>2
    <3> HIDE DEF U!On, U!Merged
    <3> QED
      BY <2>2, <3>2, <3>5, <3>6, <3>7, <3>8, <3>9
  <2> QED
    BY <2>3, <2>4
<1>12. ASSUME NEW w \in Handler, U!CleanParts(w) PROVE U!MergesAlone(v)'
  BY <1>12, <1>a DEF U!CleanParts, U!Goto, U!Return, U!Serve
<1>13. ASSUME NEW w \in Handler, U!CheckFile(w) PROVE U!MergesAlone(v)'
  <2> DEFINE u == c7[w].up
  <2>1. FileIsChecked(w)
    BY <1>13, CheckFileDoes
  <2>2. /\ U!MergesAlone(v) /\ UNCHANGED <<c1, c3, c4, c6, c8>>
        /\ v \notin c9 /\ c8 = "open" /\ u \in Thing
    BY <2>1, <1>a DEF FileIsChecked
  <2>3. CASE v # u
    <3>1. /\ c3'[v] = c3[v] /\ c4'[v] = c4[v]
          /\ \A x \in Handler :
               (c7'[x].at # "free" /\ c7'[x].up = v) \/ (c7[x].at # "free" /\ c7[x].up = v) =>
               c7'[x] = c7[x]
      <4>1. c7'[w].at = "free" \/ c7'[w].up = u
        BY <2>1 DEF FileIsChecked
      <4>2. \A x \in Handler : x # w => c7'[x] = c7[x]
        BY <2>1 DEF FileIsChecked, OthersStay
      <4>3. c3'[v] = c3[v] /\ c4'[v] = c4[v]
        BY <2>1, <2>3 DEF FileIsChecked
      <4> QED
        BY <2>3, <4>1, <4>2, <4>3
    <3> QED
      BY <1>b, <2>2, <3>1
  <2>4. CASE v = u
    <3>1. w \in U!On(v, U!Merging) /\ \A x \in U!On(v, U!Merging) : x = w
      BY <2>1, <2>2, <2>4 DEF FileIsChecked
    <3>2. v \notin c6 /\ U!On(v, {"save", "unlink"}) = {} /\ (c1[v] # "inline" => c4[v] = U!Part)
      BY <2>2, <3>1
    <3>3. \A x \in Handler : x # w => c7'[x] = c7[x] /\ x \notin U!On(v, U!Merging)
      BY <2>1, <3>1 DEF FileIsChecked, OthersStay
    <3>4. \A ats \in SUBSET U!Merging : U!On(v, ats)' \subseteq {w}
      BY <3>3
    <3>5. /\ U!On(v, U!Merging)' \subseteq {w} /\ U!On(v, {"check", "list"})' \subseteq {w}
          /\ U!On(v, {"create", "copy", "clean"})' \subseteq {w}
      BY <3>4
    <3>6. U!On(v, {"save", "unlink"})' = {} /\ w \notin U!On(v, {"create", "copy", "clean"})'
      <4>1. c7'[w].at \notin {"save", "unlink", "create", "copy", "clean"}
        BY <2>1 DEF FileIsChecked
      <4> QED
        BY <3>2, <3>3, <4>1
    <3>7. c1[v] # "inline" => U!Merged(v)
      <4>1. w \in U!On(v, {"check", "list"})
        BY <2>1, <2>4 DEF FileIsChecked
      <4> QED
        BY <2>2, <4>1
    <3>8. U!Merged(v)' = U!Merged(v)
      BY <2>2
    <3> HIDE DEF U!On, U!Merged
    <3> QED
      BY <2>2, <3>2, <3>5, <3>6, <3>7, <3>8
  <2> QED
    BY <2>3, <2>4
<1>14. ASSUME NEW w \in Handler, U!ListFile(w) PROVE U!MergesAlone(v)'
  <2> DEFINE u == c7[w].up
  <2>1. /\ c7[w].at = "list" /\ UNCHANGED <<c1, c3, c4, c8, c9>>
        /\ c6' = c6 \/ c6' = c6 \cup {u}
        /\ c7' = [c7 EXCEPT ![w] = U!Free]
    BY <1>14 DEF U!ListFile, U!AddRoomFile, U!Return
  <2>2. U!MergesAlone(v) /\ v \notin c9 /\ c8 = "open" /\ u \in Thing
    BY <2>1, <1>a
  <2>3. \A x \in Handler : c7'[x].at # "free" => x # w /\ c7'[x] = c7[x]
    BY <2>1, <1>a
  <2>4. \A ats \in SUBSET ({"save", "unlink"} \cup U!Merging) :
           U!On(v, ats)' \subseteq U!On(v, ats) \ {w}
    BY <2>3
  <2>5. /\ U!On(v, U!Merging)' \subseteq U!On(v, U!Merging) \ {w}
        /\ U!On(v, {"save", "unlink"})' \subseteq U!On(v, {"save", "unlink"})
        /\ U!On(v, {"check", "list"})' \subseteq U!On(v, {"check", "list"})
        /\ U!On(v, {"create", "copy", "clean"})' \subseteq U!On(v, {"create", "copy", "clean"})
    <3>1. /\ U!Merging \in SUBSET ({"save", "unlink"} \cup U!Merging)
          /\ {"save", "unlink"} \in SUBSET ({"save", "unlink"} \cup U!Merging)
          /\ {"check", "list"} \in SUBSET ({"save", "unlink"} \cup U!Merging)
          /\ {"create", "copy", "clean"} \in SUBSET ({"save", "unlink"} \cup U!Merging)
      OBVIOUS
    <3> QED
      BY <2>4, <3>1
  <2>6. U!Merged(v)' = U!Merged(v)
    BY <2>1
  <2>7. v = u => w \in U!On(v, U!Merging) /\ w \in U!On(v, {"check", "list"})
    BY <2>1
  <2>8. v \in c6' => v \in c6 \/ v = u
    BY <2>1
  <2> HIDE DEF U!On, U!Merged
  <2> QED
    BY <2>1, <2>2, <2>5, <2>6, <2>7, <2>8
<1> QED
  BY <1>a, <1>1, <1>2, <1>3, <1>4, <1>5, <1>6, <1>7, <1>8, <1>9, <1>10, <1>11, <1>12, <1>13,
     <1>14
     DEF U!UploadsNext, U!PostPart, U!WhiteboardPdfExportSliceUpload, U!UploadedFileMerge,
         U!MergeWhiteboardPdfExport

LEMMA UploadsPathNext ==
  ASSUME U!UploadsInvariant, U!UploadsNext, c8' = "open", NEW v \in Thing, v \notin c9'
  PROVE  U!PathIsOwned(v)'
<1>a. /\ U!UploadsTypeOK /\ U!RequestsKeepKind /\ c8' = "open" /\ v \notin c9'
      /\ c8 = "open" =>
           U!AnsweredIsSaved /\ (v \notin c9 => U!MergesAlone(v) /\ U!PathIsOwned(v))
  BY DEF U!UploadsInvariant
<1> USE DEF U!Free, U!Merging, U!Merged, U!On, U!Writes, U!UploadsTypeOK, U!RequestsKeepKind,
            U!AnsweredIsSaved, U!MergesAlone, U!PathIsOwned
<1> DEFINE Apart == \A x, y \in Handler :
                      /\ U!Writes(x) /\ U!Writes(y) /\ c7[x].up = v /\ c2[c7[y].up] = c2[v] => x = y
                      /\ U!Writes(x) /\ v \in c6 => c2[c7[x].up] # c2[v]
           Got(x) == IF c7[x].at = "copy"
                     THEN (IF c1[v] = "resumable" THEN 1 .. c7[x].part - 1 ELSE {})
                     ELSE U!Part
           Holds == \A x \in Handler : U!Writes(x) /\ c7[x].up = v =>
                                       c5[c2[v]] = [of |-> v, got |-> Got(x)]
<1>b. ASSUME Apart', Holds'
      PROVE  U!PathIsOwned(v)'
  BY <1>b DEF U!On, U!Writes
<1>c. ASSUME v \notin c9, c8 = "open"
      PROVE  U!AnsweredIsSaved /\ U!MergesAlone(v) /\ Apart /\ Holds
  BY <1>a, <1>c DEF U!On, U!Writes
<1>d. ASSUME v \notin c9, c8 = "open", UNCHANGED <<c2, c6>>,
             \A x \in Handler : U!Writes(x)' => U!Writes(x) /\ c7'[x].up = c7[x].up
      PROVE  Apart'
  <2>1. Apart
    BY <1>c, <1>d
  <2> HIDE DEF U!Writes
  <2> QED
    BY <1>d, <2>1
<1>e. ASSUME v \notin c9, c8 = "open", UNCHANGED <<c1, c2>>,
             \A x \in Handler : U!Writes(x)' /\ c7'[x].up = v =>
                U!Writes(x) /\ c7'[x] = c7[x] /\ c5'[c2[v]] = c5[c2[v]]
      PROVE  Holds'
  <2>1. Holds
    BY <1>c, <1>e
  <2> HIDE DEF U!Writes
  <2> QED
    BY <1>e, <2>1
<1>1. CASE U!DeleteRoomUploadedDir
  BY <1>1, <1>a DEF U!DeleteRoomUploadedDir
<1>2. CASE U!DeleteBucket
  BY <1>2, <1>a DEF U!DeleteBucket
<1>3. ASSUME NEW w \in Handler, NEW u \in Thing, NEW p \in U!Part, U!CheckPart(w, u, p)
      PROVE  U!PathIsOwned(v)'
  <2>1. PartIsChecked(w, u, p)
    BY <1>3, CheckPartDoes
  <2>2. UNCHANGED <<c1, c2, c5, c6, c8, c9>>
    BY <2>1 DEF PartIsChecked
  <2>3. \A x \in Handler : U!Writes(x)' => U!Writes(x) /\ c7'[x] = c7[x]
    BY <2>1 DEF PartIsChecked, OthersStay, U!Writes
  <2> HIDE DEF U!Writes
  <2>4. v \notin c9 /\ c8 = "open"
    BY <1>a, <2>2
  <2> QED
    BY <1>b, <1>d, <1>e, <2>2, <2>3, <2>4
<1>4. ASSUME NEW w \in Handler, NEW u \in Thing, NEW p \in U!Part, c1[u] # "inline", U!Post(w, u, p)
      PROVE  U!PathIsOwned(v)'
  BY <1>4, <1>a DEF U!Post, U!Goto, U!Return, U!Serve
<1>5. ASSUME NEW w \in Handler, NEW u \in Thing, c1[u] # "inline", U!Ask(w, u)
      PROVE  U!PathIsOwned(v)'
  BY <1>5, <1>a DEF U!Ask, U!Goto, U!Return, U!Serve
<1>6. ASSUME NEW w \in Handler, NEW u \in Thing, U!UploadBase64EncodedData(w, u)
      PROVE  U!PathIsOwned(v)'
  BY <1>6, <1>a DEF U!UploadBase64EncodedData, U!Goto, U!Return, U!Serve
<1>7. ASSUME NEW w \in Handler, U!RemovePart(w) PROVE U!PathIsOwned(v)'
  BY <1>7, <1>a DEF U!RemovePart, U!Goto, U!Return, U!Serve
<1>8. ASSUME NEW w \in Handler, U!SavePart(w) PROVE U!PathIsOwned(v)'
  <2>1. PartIsSaved(w)
    BY <1>8, SavePartDoes
  <2>2. UNCHANGED <<c1, c2, c5, c6, c8, c9>>
    BY <2>1 DEF PartIsSaved
  <2>3. \A x \in Handler : U!Writes(x)' => U!Writes(x) /\ c7'[x] = c7[x]
    BY <2>1 DEF PartIsSaved, OthersStay, U!Writes
  <2> HIDE DEF U!Writes
  <2>4. v \notin c9 /\ c8 = "open"
    BY <1>a, <2>2
  <2> QED
    BY <1>b, <1>d, <1>e, <2>2, <2>3, <2>4
<1>9. ASSUME NEW w \in Handler, U!PostFails(w) PROVE U!PathIsOwned(v)'
  BY <1>9, <1>a DEF U!PostFails, U!Goto, U!Return, U!Serve
<1>10. ASSUME NEW w \in Handler, U!Create(w) PROVE U!PathIsOwned(v)'
  <2> DEFINE u == c7[w].up
             same == {z \in Thing : c2[z] = c2[u]}
             busy == {z \in same : U!On(z, U!Merging \ {"create"}) # {}}
  <2>1. /\ c7[w].at = "create" /\ u \in Thing /\ c7[w].part = 1 /\ c2[u] \in FileName
        /\ UNCHANGED <<c1, c2, c3, c4, c6, c8>>
        /\ c9' = c9 \cup busy \cup ((c6 \cap same) \ {u}) \cup (IF busy # {} THEN {u} ELSE {})
        /\ c5' = [c5 EXCEPT ![c2[u]] = [of |-> u, got |-> {}]]
        /\ c7' = [c7 EXCEPT ![w].at = "copy"]
    BY <1>10, <1>a DEF U!Create, U!Goto
  <2>2. v \notin c9 /\ c8 = "open" /\ v \notin busy /\ (v = u => busy = {})
        /\ (v \in c6 /\ v # u => v \notin same)
    BY <1>a, <2>1
  <2>3. /\ \A x \in Handler : x # w => c7'[x] = c7[x] /\ U!Writes(x)' = U!Writes(x)
        /\ U!Writes(w)' /\ ~U!Writes(w) /\ c7'[w].up = u /\ c7'[w].at = "copy" /\ c7'[w].part = 1
    BY <2>1, <1>a DEF U!Writes
  <2>4. v = u => v \notin c6
    <3>1. v = u => w \in U!On(v, U!Merging)
      BY <2>1 DEF U!On
    <3> QED
      BY <1>c, <2>2, <3>1
  <2>5. \A x \in Handler : U!Writes(x) /\ c2[c7[x].up] = c2[u] => c7[x].up \in busy
    BY <1>a, <2>1 DEF U!Writes, U!On
  <2> HIDE DEF busy, U!Writes
  <2>6. CASE c2[v] # c2[u]
    <3>1. Apart
      BY <1>c, <2>2
    <3>2. Apart'
      BY <2>1, <2>3, <2>6, <3>1
    <3>3. c5'[c2[v]] = c5[c2[v]]
      BY <2>1, <2>6, <1>a
    <3>4. Holds'
      BY <1>e, <2>1, <2>2, <2>3, <2>6, <3>3
    <3> QED
      BY <1>b, <3>2, <3>4
  <2>7. CASE c2[v] = c2[u]
    <3>1. v \notin c6
      BY <2>2, <2>4, <2>7
    <3>2. \A x \in Handler : U!Writes(x) => c7[x].up # v
      BY <2>2, <2>5, <2>7
    <3>3. v = u => \A x \in Handler : U!Writes(x) => c2[c7[x].up] # c2[v]
      BY <2>2, <2>5
    <3>4. \A x \in Handler : U!Writes(x)' /\ c7'[x].up = v => x = w /\ v = u
      BY <2>3, <3>2
    <3>5. Apart'
      BY <2>1, <2>3, <3>1, <3>3, <3>4
    <3>6. c5'[c2[u]] = [of |-> u, got |-> {}]
      BY <2>1, <1>a
    <3>7. Got(w)' = {}
      BY <2>3
    <3>8. Holds'
      BY <2>1, <3>4, <3>6, <3>7
    <3> QED
      BY <1>b, <3>5, <3>8
  <2> QED
    BY <2>6, <2>7
<1>11. ASSUME NEW w \in Handler, U!CopyPart(w) \/ U!BuildPdf(w) \/ U!WriteFile(w)
      PROVE  U!PathIsOwned(v)'
  <2> DEFINE u == c7[w].up
             n == c2[u]
  <2>1. MergeGoesOn(w)
    BY <1>11, MergeDoes
  <2>2. /\ UNCHANGED <<c1, c2, c3, c4, c6, c8>> /\ v \notin c9 /\ c8 = "open"
        /\ u \in Thing /\ n \in FileName /\ OthersStay(w) /\ OnlyWrites(n) /\ U!Writes(w)
        /\ U!Writes(w)' => c7'[w].up = u
    <3>1. /\ UNCHANGED <<c1, c2, c3, c4, c6, c8>> /\ u \in Thing /\ n \in FileName
          /\ OthersStay(w) /\ OnlyWrites(n)
      BY <2>1 DEF MergeGoesOn
    <3>2. v \notin c9 /\ c8 = "open"
      BY <2>1, <1>a DEF MergeGoesOn
    <3>3. U!Writes(w) /\ (U!Writes(w)' => c7'[w].up = u)
      BY <2>1 DEF MergeGoesOn, U!Writes
    <3> QED
      BY <3>1, <3>2, <3>3
  <2>3. \A x \in Handler : x # w => c7'[x] = c7[x] /\ U!Writes(x)' = U!Writes(x)
    BY <2>2 DEF OthersStay, U!Writes
  <2>4. Apart /\ Holds
    BY <1>c, <2>2
  <2>5. Apart'
    <3> HIDE DEF U!Writes
    <3> QED
      BY <1>d, <2>2, <2>3
  <2>6. CASE v # u
    <3>1. \A x \in Handler : U!Writes(x)' /\ c7'[x].up = v => x # w /\ U!Writes(x) /\ c7'[x] = c7[x]
      <4> HIDE DEF U!Writes
      <4> QED
        BY <2>2, <2>3, <2>6
    <3>2. c2[v] = n => \A x \in Handler : U!Writes(x) => c7[x].up # v
      <4> HIDE DEF U!Writes
      <4> QED
        BY <2>2, <2>4, <2>6
    <3>3. c2[v] # n => c5'[c2[v]] = c5[c2[v]]
      BY <2>2, <1>a DEF OnlyWrites
    <3>4. Holds'
      <4> HIDE DEF U!Writes
      <4> QED
        BY <1>e, <2>2, <3>1, <3>2, <3>3
    <3> QED
      BY <1>b, <2>5, <3>4
  <2>7. CASE v = u
    <3> DEFINE p == c7[w].part
    <3>1. \A x \in Handler : U!Writes(x)' /\ c7'[x].up = v => x = w
      <4> HIDE DEF U!Writes
      <4> QED
        BY <2>2, <2>3, <2>4, <2>7
    <3>2. c5[n].of = v /\ (c1[v] = "resumable" => c5[n].got = 1 .. p - 1)
      <4>1. c5[n] = [of |-> v, got |-> Got(w)] /\ c7[w].at = "copy"
        BY <2>1, <2>2, <2>4, <2>7 DEF MergeGoesOn
      <4> QED
        BY <4>1
    <3>3. c1[v] # "inline" => c4[v] = U!Part /\ \A q \in U!Part : c3[v][q] # "cut"
      <4>1. c1[v] # "inline" => c4[v] = U!Part
        BY <2>1, <2>7, <1>a DEF MergeGoesOn
      <4> QED
        BY <4>1, <1>c, <2>2
    <3>4. c1[v] = "export" => \A q \in U!Part : c3[v][q] = "whole"
      <4>1. w \in U!On(v, {"create", "copy", "clean"})
        BY <2>1, <2>7 DEF MergeGoesOn
      <4>2. c1[v] = "export" => ~U!Merged(v)
        BY <1>c, <2>2, <4>1
      <4>3. c1[v] = "export" => \A q \in U!Part : c3[v][q] # "none"
        BY <1>c, <2>2, <3>3, <4>2
      <4> QED
        BY <1>a, <3>3, <4>3
    <3>5. p \in U!Part /\ Parts \in Nat /\ (c1[v] = "resumable" => 1 .. p - 1 \cup {p} = 1 .. p)
      BY <2>1 DEF MergeGoesOn, U!Part
    <3>6. U!Writes(w)' => c5'[n] = [of |-> v, got |-> Got(w)']
      <4>1. CASE c7'[w] = U!Free
        BY <4>1 DEF U!Writes
      <4>2. CASE c1[v] = "resumable" /\ c3[u][p] # "none"
        <5>1. c3[u][p] = "whole"
          BY <1>a, <2>7, <3>3, <3>5, <4>2
        <5>2. c7'[w] # U!Free => c5'[n] = [of |-> v, got |-> 1 .. p]
          BY <2>1, <2>7, <3>2, <3>5, <4>2, <5>1 DEF MergeGoesOn
        <5>3. c7'[w] # U!Free => \/ c7'[w].at = "copy" /\ c7'[w].part = p + 1
                                 \/ c7'[w].at = "clean" /\ p = Parts
          BY <2>1, <2>7, <4>2 DEF MergeGoesOn
        <5>4. c7'[w] # U!Free => Got(w)' = 1 .. p
          BY <2>2, <3>5, <4>2, <5>3 DEF U!Part
        <5> QED
          BY <4>1, <5>2, <5>4
      <4>3. CASE c1[v] = "export" /\ c7'[w] # U!Free
        <5> DEFINE slices == {q \in U!Part : c3[u][q] = "whole"}
        <5>1. slices = U!Part
          BY <2>7, <3>4, <4>3
        <5>2. /\ c5'[n] = [of |-> c5[n].of, got |-> slices]
              /\ c7'[w] = [at |-> "clean", up |-> u, part |-> p]
          BY <2>1, <2>7, <4>3 DEF MergeGoesOn
        <5> HIDE DEF slices
        <5>3. c5'[n] = [of |-> v, got |-> U!Part] /\ c7'[w].at = "clean"
          BY <3>2, <5>1, <5>2
        <5> QED
          BY <5>3
      <4>4. CASE c1[v] = "inline" /\ c7'[w] # U!Free
        <5>2. c5'[n] = [of |-> v, got |-> U!Part] /\ c7'[w].at = "list"
          BY <2>1, <2>7, <3>2, <4>4 DEF MergeGoesOn
        <5> QED
          BY <5>2
      <4>5. c7'[w] = U!Free \/ c1[v] \in {"export", "inline"}
            \/ (c1[v] = "resumable" /\ c3[u][p] # "none")
        BY <2>1, <2>7 DEF MergeGoesOn
      <4> QED
        BY <4>1, <4>2, <4>3, <4>4, <4>5
    <3>7. Holds'
      <4> HIDE DEF U!Writes, Got
      <4> QED
        BY <2>2, <2>7, <3>1, <3>6
    <3> QED
      BY <1>b, <2>5, <3>7
  <2> QED
    BY <2>6, <2>7
<1>12. ASSUME NEW w \in Handler, U!CleanParts(w) PROVE U!PathIsOwned(v)'
  BY <1>12, <1>a DEF U!CleanParts, U!Goto, U!Return, U!Serve
<1>13. ASSUME NEW w \in Handler, U!CheckFile(w) PROVE U!PathIsOwned(v)'
  <2> DEFINE u == c7[w].up
             n == c2[u]
  <2>1. FileIsChecked(w)
    BY <1>13, CheckFileDoes
  <2>2. /\ UNCHANGED <<c1, c2, c3, c4, c6, c8>> /\ v \notin c9 /\ c8 = "open"
        /\ u \in Thing /\ n \in FileName /\ OthersStay(w) /\ OnlyWrites(n) /\ U!Writes(w)
        /\ U!Writes(w)' => c7'[w].up = u
    <3>1. /\ UNCHANGED <<c1, c2, c3, c4, c6, c8>> /\ u \in Thing /\ n \in FileName
          /\ OthersStay(w) /\ OnlyWrites(n)
      BY <2>1 DEF FileIsChecked
    <3>2. v \notin c9 /\ c8 = "open"
      BY <2>1, <1>a DEF FileIsChecked
    <3>3. U!Writes(w) /\ (U!Writes(w)' => c7'[w].up = u)
      BY <2>1 DEF FileIsChecked, U!Writes
    <3> QED
      BY <3>1, <3>2, <3>3
  <2>3. \A x \in Handler : x # w => c7'[x] = c7[x] /\ U!Writes(x)' = U!Writes(x)
    BY <2>2 DEF OthersStay, U!Writes
  <2>4. Apart /\ Holds
    BY <1>c, <2>2
  <2>5. Apart'
    <3> HIDE DEF U!Writes
    <3> QED
      BY <1>d, <2>2, <2>3
  <2>6. CASE v # u
    <3>1. \A x \in Handler : U!Writes(x)' /\ c7'[x].up = v => x # w /\ U!Writes(x) /\ c7'[x] = c7[x]
      <4> HIDE DEF U!Writes
      <4> QED
        BY <2>2, <2>3, <2>6
    <3>2. c2[v] = n => \A x \in Handler : U!Writes(x) => c7[x].up # v
      <4> HIDE DEF U!Writes
      <4> QED
        BY <2>2, <2>4, <2>6
    <3>3. c2[v] # n => c5'[c2[v]] = c5[c2[v]]
      BY <2>2, <1>a DEF OnlyWrites
    <3>4. Holds'
      <4> HIDE DEF U!Writes
      <4> QED
        BY <1>e, <2>2, <3>1, <3>2, <3>3
    <3> QED
      BY <1>b, <2>5, <3>4
  <2>7. CASE v = u
    <3>1. \A x \in Handler : U!Writes(x)' /\ c7'[x].up = v => x = w
      <4> HIDE DEF U!Writes
      <4> QED
        BY <2>2, <2>3, <2>4, <2>7
    <3>2. c5[n] = [of |-> v, got |-> U!Part]
      BY <2>1, <2>2, <2>4, <2>7 DEF FileIsChecked
    <3>3. U!Writes(w)' => c5' = c5 /\ c7'[w].at = "list"
      BY <2>1 DEF FileIsChecked, U!Writes
    <3>4. U!Writes(w)' => c5'[n] = [of |-> v, got |-> Got(w)']
      BY <3>2, <3>3
    <3>5. Holds'
      <4> HIDE DEF U!Writes, Got
      <4> QED
        BY <2>2, <2>7, <3>1, <3>4
    <3> QED
      BY <1>b, <2>5, <3>5
  <2> QED
    BY <2>6, <2>7
<1>14. ASSUME NEW w \in Handler, U!ListFile(w) PROVE U!PathIsOwned(v)'
  <2> DEFINE u == c7[w].up
  <2>1. /\ c7[w].at = "list" /\ UNCHANGED <<c1, c2, c3, c4, c5, c8, c9>>
        /\ c6' = c6 \/ c6' = c6 \cup {u}
        /\ c7' = [c7 EXCEPT ![w] = U!Free]
    BY <1>14 DEF U!ListFile, U!AddRoomFile, U!Return
  <2>2. v \notin c9 /\ c8 = "open" /\ u \in Thing
    BY <2>1, <1>a
  <2>3. /\ \A x \in Handler : x # w => c7'[x] = c7[x] /\ U!Writes(x)' = U!Writes(x)
        /\ U!Writes(w) /\ ~U!Writes(w)'
    BY <2>1, <1>a DEF U!Writes
  <2>4. Apart
    BY <1>c, <2>2
  <2> HIDE DEF U!Writes
  <2>5. Apart'
    BY <2>1, <2>3, <2>4
  <2>6. Holds'
    BY <1>e, <2>1, <2>2, <2>3
  <2> QED
    BY <1>b, <2>5, <2>6
<1> QED
  BY <1>a, <1>1, <1>2, <1>3, <1>4, <1>5, <1>6, <1>7, <1>8, <1>9, <1>10, <1>11, <1>12, <1>13,
     <1>14
     DEF U!UploadsNext, U!PostPart, U!WhiteboardPdfExportSliceUpload, U!UploadedFileMerge,
         U!MergeWhiteboardPdfExport

LEMMA UploadsListedNext ==
  ASSUME U!UploadsInvariant, U!UploadsNext
  PROVE  U!ListedIsWhole'
<1>a. /\ c1 \in [Thing -> U!Kind] /\ c2 \in [Thing -> FileName] /\ c6 \subseteq Thing
      /\ c9 \subseteq Thing /\ c7 \in [Handler -> Served]
      /\ c5 \in [FileName -> File]
      /\ \A w \in Handler : c7[w].at # "free" => c7[w].up \in Thing
      /\ U!ListedIsWhole
      /\ c8 = "open" => \A v \in Thing \ c9 : U!MergesAlone(v) /\ U!PathIsOwned(v)
  BY DEF U!UploadsInvariant, U!UploadsTypeOK, U!RequestsKeepKind, Served, File
<1> USE DEF U!ListedIsWhole
<1>1. CASE U!DeleteRoomUploadedDir
  BY <1>1, <1>a DEF U!DeleteRoomUploadedDir
<1>2. CASE U!DeleteBucket
  BY <1>2, <1>a DEF U!DeleteBucket
<1>3. ASSUME NEW w \in Handler, NEW u \in Thing, NEW p \in U!Part, U!CheckPart(w, u, p)
      PROVE  U!ListedIsWhole'
  <2>1. PartIsChecked(w, u, p)
    BY <1>3, CheckPartDoes
  <2> QED
    BY <2>1, <1>a DEF PartIsChecked
<1>4. ASSUME NEW w \in Handler, NEW u \in Thing, NEW p \in U!Part, c1[u] # "inline", U!Post(w, u, p)
      PROVE  U!ListedIsWhole'
  BY <1>4, <1>a DEF U!Post, U!Goto, U!Return, U!Serve
<1>5. ASSUME NEW w \in Handler, NEW u \in Thing, c1[u] # "inline", U!Ask(w, u)
      PROVE  U!ListedIsWhole'
  BY <1>5, <1>a DEF U!Ask, U!Goto, U!Return, U!Serve
<1>6. ASSUME NEW w \in Handler, NEW u \in Thing, U!UploadBase64EncodedData(w, u)
      PROVE  U!ListedIsWhole'
  BY <1>6, <1>a DEF U!UploadBase64EncodedData, U!Goto, U!Return, U!Serve
<1>7. ASSUME NEW w \in Handler, U!RemovePart(w) PROVE U!ListedIsWhole'
  BY <1>7, <1>a DEF U!RemovePart, U!Goto, U!Return, U!Serve
<1>8. ASSUME NEW w \in Handler, U!SavePart(w) PROVE U!ListedIsWhole'
  <2>1. PartIsSaved(w)
    BY <1>8, SavePartDoes
  <2> QED
    BY <2>1, <1>a DEF PartIsSaved
<1>9. ASSUME NEW w \in Handler, U!PostFails(w) PROVE U!ListedIsWhole'
  BY <1>9, <1>a DEF U!PostFails, U!Goto, U!Return, U!Serve
<1>10. ASSUME NEW w \in Handler, U!Create(w) PROVE U!ListedIsWhole'
  <2> DEFINE u == c7[w].up
             same == {z \in Thing : c2[z] = c2[u]}
  <2>1. /\ c7[w].at = "create" /\ u \in Thing /\ UNCHANGED <<c2, c6, c8>>
        /\ c9 \subseteq c9' /\ (c6 \cap same) \ {u} \subseteq c9'
        /\ \A n \in FileName : n # c2[u] => c5'[n] = c5[n]
    BY <1>10, <1>a DEF U!Create
  <2>2. c8 = "open" => u \in c9 \/ u \notin c6
    <3>1. w \in U!On(u, U!Merging)
      BY <2>1 DEF U!On, U!Merging
    <3> QED
      BY <1>a, <2>1, <3>1 DEF U!MergesAlone
  <2>3. \A v \in c6 \ c9' : c8 = "open" => c2[v] # c2[u]
    BY <1>a, <2>1, <2>2
  <2> QED
    BY <1>a, <2>1, <2>3
<1>11. ASSUME NEW w \in Handler, U!CopyPart(w) \/ U!BuildPdf(w) \/ U!WriteFile(w)
      PROVE  U!ListedIsWhole'
  <2>1. MergeGoesOn(w)
    BY <1>11, MergeDoes
  <2>2. /\ UNCHANGED <<c2, c6, c8, c9>> /\ U!Writes(w) /\ OnlyWrites(c2[c7[w].up])
        /\ c7[w].up \in Thing
    BY <2>1 DEF MergeGoesOn, U!Writes, U!Merging
  <2>3. \A v \in c6 \ c9 : c8 = "open" => c2[c7[w].up] # c2[v]
    BY <1>a, <2>2 DEF U!PathIsOwned
  <2>4. \A v \in c6 \ c9 : c8 = "open" => c5'[c2[v]] = c5[c2[v]]
    BY <1>a, <2>2, <2>3 DEF OnlyWrites
  <2> QED
    BY <1>a, <2>2, <2>4
<1>12. ASSUME NEW w \in Handler, U!CleanParts(w) PROVE U!ListedIsWhole'
  BY <1>12, <1>a DEF U!CleanParts, U!Goto, U!Return, U!Serve
<1>13. ASSUME NEW w \in Handler, U!CheckFile(w) PROVE U!ListedIsWhole'
  <2>1. FileIsChecked(w)
    BY <1>13, CheckFileDoes
  <2>2. \A v \in c6 \ c9' : c5'[c2[v]] = c5[c2[v]]
    BY <1>a, <2>1 DEF FileIsChecked, OnlyWrites
  <2> QED
    BY <1>a, <2>1, <2>2 DEF FileIsChecked
<1>14. ASSUME NEW w \in Handler, U!ListFile(w) PROVE U!ListedIsWhole'
  <2> DEFINE u == c7[w].up
  <2>1. /\ c7[w].at = "list" /\ u \in Thing /\ UNCHANGED <<c2, c5, c8, c9>>
        /\ c6' = c6 \/ c6' = c6 \cup {u}
    BY <1>14, <1>a DEF U!ListFile, U!AddRoomFile
  <2>2. c8 = "open" /\ u \notin c9 => c5[c2[u]] = [of |-> u, got |-> U!Part]
    <3>1. w \in U!On(u, U!Merging \ {"create"})
      BY <2>1 DEF U!On, U!Merging
    <3> QED
      BY <1>a, <2>1, <3>1 DEF U!PathIsOwned
  <2> QED
    BY <1>a, <2>1, <2>2
<1> QED
  BY <1>a, <1>1, <1>2, <1>3, <1>4, <1>5, <1>6, <1>7, <1>8, <1>9, <1>10, <1>11, <1>12, <1>13,
     <1>14
     DEF U!UploadsNext, U!PostPart, U!WhiteboardPdfExportSliceUpload, U!UploadedFileMerge,
         U!MergeWhiteboardPdfExport

LEMMA UploadsNextKeeps ==
  ASSUME U!UploadsInvariant, [U!UploadsNext]_(U!uploadVars)
  PROVE  U!UploadsInvariant'
<1>1. CASE UNCHANGED U!uploadVars
  BY <1>1
     DEF U!uploadVars, U!UploadsInvariant, U!UploadsTypeOK, U!RequestsKeepKind,
         U!AnsweredIsSaved, U!MergesAlone, U!PathIsOwned, U!ListedIsWhole, U!Writes, U!On,
         U!Merged
<1>2. CASE U!UploadsNext
  BY <1>2, UploadsTypeNext, UploadsKindNext, UploadsSavedNext, UploadsMergesNext,
     UploadsPathNext, UploadsListedNext
     DEF U!UploadsInvariant
<1> QED
  BY <1>1, <1>2

-----------------------------------------------------------------------------
(* Summaries.  The cells: c1 to c4 are the leader's, c5 and c6 the job and *)
(* how often it was handed out, c7 the handlers, c8 the batches, c9 those  *)
(* that are registered, c10 the summaries, c11 the janitors' rounds and    *)
(* c12 the recorded file.                                                  *)

LEMMA SummariesStart == J!SummaryInit => J!SummaryInvariant
BY DEF J!SummaryInit, J!LeaderInit, J!SummaryInvariant, J!SummaryTypeOK, J!LeaderTypeOK,
       J!DeliveriesAreCounted, J!BatchesAreFollowed, J!OneLeads, J!JobIsHandedOutOnce,
       J!SummaryIsLast, J!Tried, J!Settled, J!Follower, J!Resting, J!NoRound, J!Up, J!Leading,
       J!Delivery

Leads == [at : {"follow", "won", "lead", "task", "gone"}, won : 0 .. MaxTerms, val : 0 .. MaxTerms]
Hand == [at : {"idle", "start", "register", "ack"}, n : 0 .. MaxDeliver]
Batch == [state : {"none", "running", "lost", "completed", "failed"}, on : Handler \cup {Nil}]
Round == [at : {"idle", "ask", "file", "usage", "clean"}, b : 0 .. MaxDeliver,
          left : SUBSET J!Delivery]

(* One loop, handler, round or batch goes on, and the others stay.         *)
LeadersStay(s) == \A t \in Handler : t # s => c1'[t] = c1[t]
HandsStay(s) == \A t \in Handler : t # s => c7'[t] = c7[t]
RoundsStay(s) == \A t \in Handler : t # s => c11'[t] = c11[t]
BatchesStay(n) == \A m \in J!Delivery : m # n => c8'[m] = c8[m]

LEMMA LeaderGoes ==
  ASSUME c1 \in [Handler -> Leads], NEW s \in Handler
  PROVE  /\ \A a \in {"follow", "won", "lead", "task", "gone"} : J!Stand(s, a) =>
              /\ c1' \in [Handler -> Leads] /\ LeadersStay(s)
              /\ c1'[s] = [at |-> a, won |-> c1[s].won, val |-> c1[s].val]
         /\ \A n \in 0 .. MaxTerms : c1' = [c1 EXCEPT ![s].at = "won", ![s].won = n] =>
              /\ c1' \in [Handler -> Leads] /\ LeadersStay(s)
              /\ c1'[s] = [at |-> "won", won |-> n, val |-> c1[s].val]
         /\ c1' = [c1 EXCEPT ![s].at = "lead", ![s].val = c1[s].won] =>
              /\ c1' \in [Handler -> Leads] /\ LeadersStay(s)
              /\ c1'[s] = [at |-> "lead", won |-> c1[s].won, val |-> c1[s].won]
         /\ c1' = [c1 EXCEPT ![s] = J!Follower] =>
              c1' \in [Handler -> Leads] /\ LeadersStay(s) /\ c1'[s] = J!Follower
<1>1. J!Follower \in Leads
  BY DEF J!Follower, Leads
<1>2. ASSUME NEW a \in {"follow", "won", "lead", "task", "gone"}, J!Stand(s, a)
      PROVE  /\ c1' \in [Handler -> Leads] /\ LeadersStay(s)
             /\ c1'[s] = [at |-> a, won |-> c1[s].won, val |-> c1[s].val]
  BY <1>2 DEF J!Stand, Leads, LeadersStay
<1>3. ASSUME NEW n \in 0 .. MaxTerms, c1' = [c1 EXCEPT ![s].at = "won", ![s].won = n]
      PROVE  /\ c1' \in [Handler -> Leads] /\ LeadersStay(s)
             /\ c1'[s] = [at |-> "won", won |-> n, val |-> c1[s].val]
  BY <1>3 DEF Leads, LeadersStay
<1>4. ASSUME c1' = [c1 EXCEPT ![s].at = "lead", ![s].val = c1[s].won]
      PROVE  /\ c1' \in [Handler -> Leads] /\ LeadersStay(s)
             /\ c1'[s] = [at |-> "lead", won |-> c1[s].won, val |-> c1[s].won]
  BY <1>4 DEF Leads, LeadersStay
<1>5. ASSUME c1' = [c1 EXCEPT ![s] = J!Follower]
      PROVE  c1' \in [Handler -> Leads] /\ LeadersStay(s) /\ c1'[s] = J!Follower
  BY <1>1, <1>5 DEF LeadersStay
<1> QED
  BY <1>2, <1>3, <1>4, <1>5

LEMMA HandGoes ==
  ASSUME c7 \in [Handler -> Hand], NEW s \in Handler
  PROVE  /\ \A a \in {"idle", "start", "register", "ack"} : c7' = [c7 EXCEPT ![s].at = a] =>
              /\ c7' \in [Handler -> Hand] /\ HandsStay(s)
              /\ c7'[s] = [at |-> a, n |-> c7[s].n]
         /\ \A h \in Hand : c7' = [c7 EXCEPT ![s] = h] =>
              c7' \in [Handler -> Hand] /\ HandsStay(s) /\ c7'[s] = h
BY DEF Hand, HandsStay

LEMMA RoundGoes ==
  ASSUME c11 \in [Handler -> Round], NEW s \in Handler
  PROVE  /\ \A a \in {"idle", "ask", "file", "usage", "clean"} : c11' = [c11 EXCEPT ![s].at = a] =>
              /\ c11' \in [Handler -> Round] /\ RoundsStay(s)
              /\ c11'[s] = [at |-> a, b |-> c11[s].b, left |-> c11[s].left]
         /\ \A r \in Round : c11' = [c11 EXCEPT ![s] = r] =>
              c11' \in [Handler -> Round] /\ RoundsStay(s) /\ c11'[s] = r
<1>1. ASSUME NEW a \in {"idle", "ask", "file", "usage", "clean"}, c11' = [c11 EXCEPT ![s].at = a]
      PROVE  /\ c11' \in [Handler -> Round] /\ RoundsStay(s)
             /\ c11'[s] = [at |-> a, b |-> c11[s].b, left |-> c11[s].left]
  BY <1>1 DEF Round, RoundsStay
<1>2. ASSUME NEW r \in Round, c11' = [c11 EXCEPT ![s] = r]
      PROVE  c11' \in [Handler -> Round] /\ RoundsStay(s) /\ c11'[s] = r
  BY <1>2 DEF RoundsStay
<1> QED
  BY <1>1, <1>2

LEMMA BatchGoes ==
  ASSUME c8 \in [J!Delivery -> Batch], NEW n \in J!Delivery
  PROVE  /\ \A x \in {"none", "running", "lost", "completed", "failed"} :
              c8' = [c8 EXCEPT ![n].state = x] =>
                /\ c8' \in [J!Delivery -> Batch] /\ BatchesStay(n)
                /\ c8'[n] = [state |-> x, on |-> c8[n].on]
         /\ \A b \in Batch : c8' = [c8 EXCEPT ![n] = b] =>
              c8' \in [J!Delivery -> Batch] /\ BatchesStay(n) /\ c8'[n] = b
BY DEF Batch, BatchesStay

Shaped ==
    /\ c1 \in [Handler -> Leads] /\ c3 \in 0 .. MaxTerms /\ c2 \in 0 .. c3
    /\ c4 \subseteq {"lease", "stop", "error", "ackwait"}
    /\ c5 \in {"recorded", "unpublished", "queued", "out", "dead", "done"}
    /\ c6 \in 0 .. MaxDeliver
    /\ c7 \in [Handler -> Hand] /\ c8 \in [J!Delivery -> Batch]
    /\ c9 \subseteq J!Delivery /\ c10 \in [J!Delivery -> 0 .. MaxSummaries]
    /\ c11 \in [Handler -> Round] /\ c12 \in BOOLEAN

LEMMA SummaryTypes ==
  ASSUME J!SummaryInvariant
  PROVE  /\ Shaped
         /\ \A s \in Handler : c7[s].at # "idle" => c7[s].n \in J!Delivery
         /\ \A s \in Handler : c11[s].at \in {"file", "usage", "clean"} => c11[s].b \in J!Delivery
BY DEF J!SummaryInvariant, J!SummaryTypeOK, J!LeaderTypeOK, J!DeliveriesAreCounted,
       J!BatchesAreFollowed, Leads, Hand, Batch, Round, J!Delivery, Shaped

LEMMA MishapGoes ==
  ASSUME Shaped, NEW kind \in {"lease", "stop", "error", "ackwait"}, J!Mishap(kind)
  PROVE  c4' \subseteq {"lease", "stop", "error", "ackwait"} /\ c4' # {}
BY DEF Shaped, J!Mishap

(* What the actions do, one function's value at a time.                    *)
Taken(s) ==
    /\ c1[s].at = "follow" /\ c2 = 0 /\ c2' = c3 + 1 /\ c3' = c3 + 1 /\ LeadersStay(s)
    /\ c1'[s] = [at |-> "won", won |-> c3 + 1, val |-> c1[s].val]
    /\ UNCHANGED <<c4, c5, c6, c7, c8, c9, c10, c11, c12>>

Kept(s) ==
    /\ c1[s].at = "won" /\ LeadersStay(s)
    /\ c1'[s] = [at |-> "lead", won |-> c1[s].won, val |-> c1[s].won]
    /\ UNCHANGED <<c2, c3, c4, c5, c6, c7, c8, c9, c10, c11, c12>>

Lost(s) ==
    /\ c1[s].at = "lead" /\ LeadersStay(s)
    /\ c1'[s] = [at |-> "follow", won |-> c1[s].won, val |-> c1[s].val]
    /\ c4' = {} => c4 = {} /\ c2 # c1[s].val
    /\ UNCHANGED <<c2, c3, c5, c6, c7, c8, c9, c10, c11, c12>>

LEMMA LockTaken ==
  ASSUME Shaped, NEW s \in Handler, J!AcquireJanitorLeaderLock(s), UNCHANGED J!jobVars
  PROVE  Shaped' /\ Taken(s)
<1>1. /\ c1[s].at = "follow" /\ c3 < MaxTerms /\ c2 = 0 /\ c3' = c3 + 1 /\ c2' = c3'
      /\ c1' = [c1 EXCEPT ![s].at = "won", ![s].won = c3'] /\ c4' = c4
      /\ UNCHANGED <<c5, c6, c7, c8, c9, c10, c11, c12>>
  BY DEF J!AcquireJanitorLeaderLock, J!TakeLease, J!jobVars
<1>2. c3' \in 0 .. MaxTerms /\ c2' \in 0 .. c3'
  BY <1>1 DEF Shaped
<1>3. /\ c1' \in [Handler -> Leads] /\ LeadersStay(s)
      /\ c1'[s] = [at |-> "won", won |-> c3', val |-> c1[s].val]
  BY <1>1, <1>2, LeaderGoes DEF Shaped
<1> QED
  BY <1>1, <1>2, <1>3 DEF Shaped, Taken, J!Delivery

LEMMA LockKept ==
  ASSUME Shaped, NEW s \in Handler, J!StartJanitor(s), UNCHANGED J!jobVars
  PROVE  Shaped' /\ Kept(s)
<1>1. /\ c1[s].at = "won" /\ c1' = [c1 EXCEPT ![s].at = "lead", ![s].val = c1[s].won]
      /\ UNCHANGED <<c2, c3, c4, c5, c6, c7, c8, c9, c10, c11, c12>>
  BY DEF J!StartJanitor, J!jobVars
<1>2. /\ c1' \in [Handler -> Leads] /\ LeadersStay(s)
      /\ c1'[s] = [at |-> "lead", won |-> c1[s].won, val |-> c1[s].won]
  BY <1>1, LeaderGoes DEF Shaped
<1> QED
  BY <1>1, <1>2 DEF Shaped, Kept, J!Delivery

LEMMA LockLost ==
  ASSUME Shaped, NEW s \in Handler, J!RenewFails(s), UNCHANGED J!jobVars
  PROVE  Shaped' /\ Lost(s)
<1>1. /\ c1[s].at = "lead" /\ J!Stand(s, "follow")
      /\ c4' = IF c2 = c1[s].val THEN c4 \cup {"error"} ELSE c4
      /\ UNCHANGED <<c2, c3, c5, c6, c7, c8, c9, c10, c11, c12>>
  BY DEF J!RenewFails, J!jobVars
<1>2. /\ c1' \in [Handler -> Leads] /\ LeadersStay(s)
      /\ c1'[s] = [at |-> "follow", won |-> c1[s].won, val |-> c1[s].val]
  BY <1>1, LeaderGoes DEF Shaped
<1>3. /\ c4' \subseteq {"lease", "stop", "error", "ackwait"}
      /\ c4' = {} => c4 = {} /\ c2 # c1[s].val
  BY <1>1 DEF Shaped
<1> QED
  BY <1>1, <1>2, <1>3 DEF Shaped, Lost, J!Delivery

(* The job and its handlers.                                               *)
Waited ==
    /\ c5 = "out" /\ c5' \in {"queued", "dead"} /\ (c5' = "dead" => c6 = MaxDeliver)
    /\ c4' = {} => c4 = {} /\ \A s \in Handler : c7[s].at = "idle"
    /\ UNCHANGED <<c1, c2, c3, c6, c7, c8, c9, c10, c11, c12>>

HandedOut(s) ==
    /\ c7[s].at = "idle" /\ c5 = "queued" /\ c5' = "out"
    /\ c6' = c6 + 1 /\ c6' \in J!Delivery
    /\ HandsStay(s) /\ c7'[s] = [at |-> "start", n |-> c6 + 1]
    /\ UNCHANGED <<c1, c2, c3, c4, c8, c9, c10, c11, c12>>

GivenBack(s) ==
    /\ HandsStay(s) /\ c7'[s] = J!Resting /\ c4' # {}
    /\ c5' = c5 \/ c5' = "queued" \/ (c5' = "dead" /\ c6 = MaxDeliver)
    /\ UNCHANGED <<c1, c2, c3, c6, c8, c9, c10, c11>>

Started(s) ==
    /\ c7[s].at = "start" /\ c7[s].n \in J!Delivery
    /\ HandsStay(s) /\ c7'[s] = [at |-> "register", n |-> c7[s].n]
    /\ BatchesStay(c7[s].n) /\ c8'[c7[s].n].state = "running"
    /\ UNCHANGED <<c1, c2, c3, c4, c5, c6, c9, c10, c11, c12>>

Registered(s) ==
    /\ c7[s].at = "register" /\ c7[s].n \in J!Delivery
    /\ HandsStay(s) /\ c7'[s] = [at |-> "ack", n |-> c7[s].n]
    /\ c9' = c9 \cup {c7[s].n}
    /\ UNCHANGED <<c1, c2, c3, c4, c5, c6, c8, c10, c11, c12>>

Answered(s) ==
    /\ c7[s].at = "ack" /\ c7[s].n \in J!Delivery
    /\ HandsStay(s) /\ c7'[s] = J!Resting /\ c5' = "done"
    /\ UNCHANGED <<c1, c2, c3, c4, c6, c8, c9, c10, c11, c12>>

Ended(n, x) ==
    /\ c8[n].state = "running" /\ BatchesStay(n) /\ c8'[n].state = x
    /\ UNCHANGED <<c1, c2, c3, c4, c5, c6, c7, c9, c10, c11, c12>>

LEMMA RestingIsHand == J!Resting \in Hand
BY DEF J!Resting, Hand

LEMMA JobWaited ==
  ASSUME Shaped, J!AckWaitEnds
  PROVE  Shaped' /\ Waited
<1>1. /\ c5 = "out" /\ c5' = IF c6 < MaxDeliver THEN "queued" ELSE "dead"
      /\ UNCHANGED <<c1, c2, c3, c6, c7, c8, c9, c10, c11, c12>>
  BY DEF J!AckWaitEnds
<1>2. c5' \in {"queued", "dead"} /\ (c5' = "dead" => c6 = MaxDeliver)
  BY <1>1 DEF Shaped
<1>3. CASE (\A s \in Handler : c7[s].at = "idle") /\ UNCHANGED c4
  BY <1>1, <1>2, <1>3 DEF Shaped, Waited, J!Delivery
<1>4. CASE J!Mishap("ackwait")
  <2>1. c4' \subseteq {"lease", "stop", "error", "ackwait"} /\ c4' # {}
    BY <1>4, MishapGoes
  <2> QED
    BY <1>1, <1>2, <2>1 DEF Shaped, Waited, J!Delivery
<1> QED
  BY <1>3, <1>4 DEF J!AckWaitEnds

LEMMA JobHandedOut ==
  ASSUME Shaped, NEW s \in Handler, J!Deliver(s)
  PROVE  Shaped' /\ HandedOut(s)
<1>1. /\ c7[s].at = "idle" /\ c5 = "queued" /\ c6 < MaxDeliver /\ c5' = "out" /\ c6' = c6 + 1
      /\ c7' = [c7 EXCEPT ![s] = [at |-> "start", n |-> c6 + 1]]
      /\ UNCHANGED <<c1, c2, c3, c4, c8, c9, c10, c11, c12>>
  BY DEF J!Deliver, J!leaderVars
<1>2. c6' \in 0 .. MaxDeliver /\ c6' \in J!Delivery
  BY <1>1 DEF Shaped, J!Delivery
<1>3. [at |-> "start", n |-> c6 + 1] \in Hand
  BY <1>1, <1>2 DEF Hand
<1>4. c7' \in [Handler -> Hand] /\ HandsStay(s) /\ c7'[s] = [at |-> "start", n |-> c6 + 1]
  BY <1>1, <1>3, HandGoes DEF Shaped
<1> QED
  BY <1>1, <1>2, <1>4 DEF Shaped, HandedOut, J!Delivery

LEMMA JobGivenBack ==
  ASSUME Shaped, NEW s \in Handler, J!Nak(s), UNCHANGED <<c1, c2, c3, c6, c8, c9, c10, c11>>
  PROVE  Shaped' /\ GivenBack(s)
<1>1. /\ c7' = [c7 EXCEPT ![s] = J!Resting] /\ J!Mishap("error")
      /\ c5' = IF c5 = "done" THEN "done" ELSE IF c6 < MaxDeliver THEN "queued" ELSE "dead"
      /\ c12' = (c12 /\ c7[s].n # MaxDeliver)
  BY DEF J!Nak
<1>2. c7' \in [Handler -> Hand] /\ HandsStay(s) /\ c7'[s] = J!Resting
  BY <1>1, RestingIsHand, HandGoes DEF Shaped
<1>3. c4' \subseteq {"lease", "stop", "error", "ackwait"} /\ c4' # {}
  BY <1>1, MishapGoes
<1>4. /\ c5' = c5 \/ c5' = "queued" \/ (c5' = "dead" /\ c6 = MaxDeliver)
      /\ c5' \in {"recorded", "unpublished", "queued", "out", "dead", "done"}
  BY <1>1 DEF Shaped
<1>5. c12' \in BOOLEAN
  BY <1>1 DEF Shaped
<1> QED
  BY <1>2, <1>3, <1>4, <1>5 DEF Shaped, GivenBack, J!Delivery

LEMMA BatchStarted ==
  ASSUME Shaped, NEW s \in Handler, c7[s].n \in J!Delivery, NEW provider \in J!Provider,
         J!StartBatchSummarizeAudioFile(s, provider)
  PROVE  Shaped' /\ Started(s)
<1> DEFINE b == [state |-> "running", on |-> IF provider = "openai" THEN s ELSE Nil]
<1>1. /\ c7[s].at = "start" /\ c8' = [c8 EXCEPT ![c7[s].n] = b]
      /\ c7' = [c7 EXCEPT ![s].at = "register"]
      /\ UNCHANGED <<c1, c2, c3, c4, c5, c6, c9, c10, c11, c12>>
  BY DEF J!StartBatchSummarizeAudioFile, J!leaderVars
<1>2. b \in Batch /\ b.state = "running"
  BY DEF Batch
<1> HIDE DEF b
<1>3. c8' \in [J!Delivery -> Batch] /\ BatchesStay(c7[s].n) /\ c8'[c7[s].n] = b
  BY <1>1, <1>2, BatchGoes DEF Shaped
<1>4. c7' \in [Handler -> Hand] /\ HandsStay(s) /\ c7'[s] = [at |-> "register", n |-> c7[s].n]
  BY <1>1, HandGoes DEF Shaped
<1> QED
  BY <1>1, <1>2, <1>3, <1>4 DEF Shaped, Started, J!Delivery

LEMMA BatchRegistered ==
  ASSUME Shaped, NEW s \in Handler, c7[s].n \in J!Delivery, J!Register(s)
  PROVE  Shaped' /\ Registered(s)
<1>1. /\ c7[s].at = "register" /\ c9' = c9 \cup {c7[s].n} /\ c7' = [c7 EXCEPT ![s].at = "ack"]
      /\ UNCHANGED <<c1, c2, c3, c4, c5, c6, c8, c10, c11, c12>>
  BY DEF J!Register, J!leaderVars
<1>2. c7' \in [Handler -> Hand] /\ HandsStay(s) /\ c7'[s] = [at |-> "ack", n |-> c7[s].n]
  BY <1>1, HandGoes DEF Shaped
<1>3. c9' \subseteq J!Delivery
  BY <1>1 DEF Shaped
<1> QED
  BY <1>1, <1>2, <1>3 DEF Shaped, Registered, J!Delivery

LEMMA JobAnswered ==
  ASSUME Shaped, NEW s \in Handler, c7[s].n \in J!Delivery, J!Ack(s)
  PROVE  Shaped' /\ Answered(s)
<1>1. /\ c7[s].at = "ack" /\ c7' = [c7 EXCEPT ![s] = J!Resting] /\ c5' = "done"
      /\ UNCHANGED <<c1, c2, c3, c4, c6, c8, c9, c10, c11, c12>>
  BY DEF J!Ack, J!leaderVars
<1>2. c7' \in [Handler -> Hand] /\ HandsStay(s) /\ c7'[s] = J!Resting
  BY <1>1, RestingIsHand, HandGoes DEF Shaped
<1> QED
  BY <1>1, <1>2 DEF Shaped, Answered, J!Delivery

LEMMA BatchEnded ==
  ASSUME Shaped, NEW n \in J!Delivery, NEW x \in {"completed", "failed"}, J!BatchEnds(n, x)
  PROVE  Shaped' /\ Ended(n, x)
<1>1. /\ c8[n].state = "running" /\ c8' = [c8 EXCEPT ![n].state = x]
      /\ UNCHANGED <<c1, c2, c3, c4, c5, c6, c7, c9, c10, c11, c12>>
  BY DEF J!BatchEnds, J!leaderVars
<1>2. c8' \in [J!Delivery -> Batch] /\ BatchesStay(n) /\ c8'[n] = [state |-> x, on |-> c8[n].on]
  BY <1>1, BatchGoes DEF Shaped
<1> QED
  BY <1>1, <1>2 DEF Shaped, Ended, J!Delivery

(* The janitor's round.                                                    *)
Begun(s) ==
    /\ c1[s].at = "lead" /\ LeadersStay(s)
    /\ c1'[s] = [at |-> "task", won |-> c1[s].won, val |-> c1[s].val]
    /\ RoundsStay(s) /\ c11'[s] = [at |-> "ask", b |-> 0, left |-> c9]
    /\ UNCHANGED <<c2, c3, c4, c5, c6, c7, c8, c9, c10, c12>>

Asked(s, b) ==
    /\ c11[s].at = "ask" /\ b \in c11[s].left /\ RoundsStay(s)
    /\ c11'[s].b = b /\ c11'[s].left = c11[s].left \ {b}
    /\ c11'[s].at \in {"file", "clean", "ask"}
    /\ c11'[s].at = "file" => c8[b].state = "completed"
    /\ c11'[s].at = "clean" => c8[b].state = "failed"
    /\ UNCHANGED <<c1, c2, c3, c4, c5, c6, c7, c8, c9, c10, c12>>

Abandoned(s) ==
    /\ RoundsStay(s) /\ c11'[s] = [at |-> "ask", b |-> 0, left |-> {}] /\ c4' # {}
    /\ UNCHANGED <<c1, c2, c3, c5, c6, c7, c8, c9, c10, c12>>

Summarised(s) ==
    /\ c11[s].at = "file" /\ c11[s].b \in J!Delivery /\ RoundsStay(s)
    /\ c11'[s] = [at |-> "usage", b |-> c11[s].b, left |-> c11[s].left]
    /\ c10'[c11[s].b] = c10[c11[s].b] + 1
    /\ \A n \in J!Delivery : n # c11[s].b => c10'[n] = c10[n]
    /\ UNCHANGED <<c1, c2, c3, c4, c5, c6, c7, c8, c9, c12>>

Charged(s) ==
    /\ c11[s].at = "usage" /\ RoundsStay(s)
    /\ c11'[s] = [at |-> "clean", b |-> c11[s].b, left |-> c11[s].left]
    /\ UNCHANGED <<c1, c2, c3, c4, c5, c6, c7, c8, c9, c10, c12>>

Cleaned(s) ==
    /\ c11[s].at = "clean" /\ RoundsStay(s)
    /\ c11'[s] = [at |-> "ask", b |-> c11[s].b, left |-> c11[s].left]
    /\ c9' = c9 \ {c11[s].b} \/ (c9' = c9 /\ c4' # {})
    /\ c4' = {} => c4 = {}
    /\ UNCHANGED <<c1, c2, c3, c5, c6, c7, c8, c10>>

Over(s) ==
    /\ c11[s].at = "ask" /\ c11[s].left = {} /\ RoundsStay(s) /\ c11'[s] = J!NoRound
    /\ LeadersStay(s) /\ c1'[s] = [at |-> "lead", won |-> c1[s].won, val |-> c1[s].val]
    /\ UNCHANGED <<c2, c3, c4, c5, c6, c7, c8, c9, c10, c12>>

Crashed(s) ==
    /\ LeadersStay(s) /\ HandsStay(s) /\ RoundsStay(s) /\ c4' # {}
    /\ c7'[s] = J!Resting /\ c11'[s] = J!NoRound
    /\ \A n \in J!Delivery : \/ c8'[n] = c8[n]
                             \/ c8[n].state = "running" /\ c8'[n].state = "lost"
    /\ UNCHANGED <<c2, c3, c5, c6, c9, c10, c12>>

LEMMA RoundsAre ==
  /\ J!NoRound \in Round /\ [at |-> "ask", b |-> 0, left |-> {}] \in Round
  /\ \A X \in SUBSET J!Delivery : [at |-> "ask", b |-> 0, left |-> X] \in Round
BY DEF J!NoRound, Round

LEMMA RoundBegun ==
  ASSUME Shaped, NEW s \in Handler, J!CheckInsightsPendingSummarizeJobs(s)
  PROVE  Shaped' /\ Begun(s)
<1>1. /\ c1[s].at = "lead" /\ J!Stand(s, "task")
      /\ c11' = [c11 EXCEPT ![s] = [at |-> "ask", b |-> 0, left |-> c9]]
      /\ UNCHANGED <<c2, c3, c4, c5, c6, c7, c8, c9, c10, c12>>
  BY DEF J!CheckInsightsPendingSummarizeJobs
<1>2. /\ c1' \in [Handler -> Leads] /\ LeadersStay(s)
      /\ c1'[s] = [at |-> "task", won |-> c1[s].won, val |-> c1[s].val]
  BY <1>1, LeaderGoes DEF Shaped
<1>3. [at |-> "ask", b |-> 0, left |-> c9] \in Round
  BY RoundsAre DEF Shaped
<1>4. /\ c11' \in [Handler -> Round] /\ RoundsStay(s)
      /\ c11'[s] = [at |-> "ask", b |-> 0, left |-> c9]
  BY <1>1, <1>3, RoundGoes DEF Shaped
<1> QED
  BY <1>1, <1>2, <1>4 DEF Shaped, Begun, J!Delivery

LEMMA BatchAsked ==
  ASSUME Shaped, NEW s \in Handler, NEW b \in J!Delivery, J!CheckBatchJobStatus(s, b)
  PROVE  Shaped' /\ Asked(s, b)
<1> DEFINE r == [at |-> CASE c8[b].state = "completed" -> "file"
                          [] c8[b].state = "failed" -> "clean"
                          [] OTHER -> "ask",
                 b |-> b, left |-> c11[s].left \ {b}]
<1>1. /\ c11[s].at = "ask" /\ b \in c11[s].left
      /\ UNCHANGED <<c1, c2, c3, c4, c5, c6, c7, c8, c9, c10, c12>>
  BY DEF J!CheckBatchJobStatus, J!leaderVars
<1>2. c11' = [c11 EXCEPT ![s] = r]
  BY DEF J!CheckBatchJobStatus, Shaped
<1>3. /\ r.b = b /\ r.left = c11[s].left \ {b} /\ r.at \in {"file", "clean", "ask"}
      /\ r.at = "file" => c8[b].state = "completed"
      /\ r.at = "clean" => c8[b].state = "failed"
  OBVIOUS
<1>4. r \in Round
  <2>1. c11[s].left \in SUBSET J!Delivery
    BY DEF Shaped, Round
  <2>2. r.left \in SUBSET J!Delivery
    BY <1>3, <2>1
  <2> QED
    BY <1>3, <2>2 DEF Round, J!Delivery
<1> HIDE DEF r
<1>5. c11' \in [Handler -> Round] /\ RoundsStay(s) /\ c11'[s] = r
  BY <1>2, <1>4, RoundGoes DEF Shaped
<1> QED
  BY <1>1, <1>3, <1>5 DEF Shaped, Asked, J!Delivery

LEMMA RoundAbandoned ==
  ASSUME Shaped, NEW s \in Handler, J!Abandon(s),
         UNCHANGED <<c1, c2, c3, c5, c6, c7, c8, c9, c10, c12>>
  PROVE  Shaped' /\ Abandoned(s)
<1>1. /\ c11' = [c11 EXCEPT ![s] = [at |-> "ask", b |-> 0, left |-> {}]]
      /\ J!Mishap("error")
  BY DEF J!Abandon
<1>2. /\ c11' \in [Handler -> Round] /\ RoundsStay(s)
      /\ c11'[s] = [at |-> "ask", b |-> 0, left |-> {}]
  BY <1>1, RoundsAre, RoundGoes DEF Shaped
<1>3. c4' \subseteq {"lease", "stop", "error", "ackwait"} /\ c4' # {}
  BY <1>1, MishapGoes
<1> QED
  BY <1>2, <1>3 DEF Shaped, Abandoned, J!Delivery

LEMMA SummaryMade ==
  ASSUME Shaped, NEW s \in Handler, c11[s].b \in J!Delivery, J!CreateMeetingSummaryArtifact(s)
  PROVE  Shaped' /\ Summarised(s)
<1>1. /\ c11[s].at = "file" /\ c10[c11[s].b] < MaxSummaries
      /\ c10' = [c10 EXCEPT ![c11[s].b] = c10[c11[s].b] + 1]
      /\ c11' = [c11 EXCEPT ![s].at = "usage"]
      /\ UNCHANGED <<c1, c2, c3, c4, c5, c6, c7, c8, c9, c12>>
  BY DEF J!CreateMeetingSummaryArtifact, J!leaderVars
<1>2. /\ c11' \in [Handler -> Round] /\ RoundsStay(s)
      /\ c11'[s] = [at |-> "usage", b |-> c11[s].b, left |-> c11[s].left]
  BY <1>1, RoundGoes DEF Shaped
<1>3. c10[c11[s].b] + 1 \in 0 .. MaxSummaries
  BY <1>1 DEF Shaped
<1>4. /\ c10' \in [J!Delivery -> 0 .. MaxSummaries] /\ c10'[c11[s].b] = c10[c11[s].b] + 1
      /\ \A n \in J!Delivery : n # c11[s].b => c10'[n] = c10[n]
  BY <1>1, <1>3 DEF Shaped
<1> QED
  BY <1>1, <1>2, <1>4 DEF Shaped, Summarised, J!Delivery

LEMMA UsageCharged ==
  ASSUME Shaped, NEW s \in Handler, J!UsageArtifact(s)
  PROVE  Shaped' /\ (Charged(s) \/ Abandoned(s))
<1>1. /\ c11[s].at = "usage" /\ UNCHANGED <<c1, c2, c3, c5, c6, c7, c8, c9, c10, c12>>
  BY DEF J!UsageArtifact
<1>2. CASE c11' = [c11 EXCEPT ![s].at = "clean"] /\ UNCHANGED c4
  <2>1. /\ c11' \in [Handler -> Round] /\ RoundsStay(s)
        /\ c11'[s] = [at |-> "clean", b |-> c11[s].b, left |-> c11[s].left]
    BY <1>2, RoundGoes DEF Shaped
  <2> QED
    BY <1>1, <1>2, <2>1 DEF Shaped, Charged, J!Delivery
<1>3. CASE J!Abandon(s)
  BY <1>1, <1>3, RoundAbandoned
<1> QED
  BY <1>2, <1>3 DEF J!UsageArtifact

LEMMA BatchCleaned ==
  ASSUME Shaped, NEW s \in Handler, J!Cleanup(s)
  PROVE  Shaped' /\ Cleaned(s)
<1>1. /\ c11[s].at = "clean" /\ c12' = FALSE /\ c11' = [c11 EXCEPT ![s].at = "ask"]
      /\ UNCHANGED <<c1, c2, c3, c5, c6, c7, c8, c10>>
  BY DEF J!Cleanup
<1>2. /\ c11' \in [Handler -> Round] /\ RoundsStay(s)
      /\ c11'[s] = [at |-> "ask", b |-> c11[s].b, left |-> c11[s].left]
  BY <1>1, RoundGoes DEF Shaped
<1>3. CASE c9' = c9 \ {c11[s].b} /\ UNCHANGED c4
  <2>1. c9' \subseteq J!Delivery
    BY <1>3 DEF Shaped
  <2> QED
    BY <1>1, <1>2, <1>3, <2>1 DEF Shaped, Cleaned, J!Delivery
<1>4. CASE UNCHANGED c9 /\ J!Mishap("error")
  <2>1. c4' \subseteq {"lease", "stop", "error", "ackwait"} /\ c4' # {}
    BY <1>4, MishapGoes
  <2> QED
    BY <1>1, <1>2, <1>4, <2>1 DEF Shaped, Cleaned, J!Delivery
<1> QED
  BY <1>3, <1>4 DEF J!Cleanup

LEMMA RoundOver ==
  ASSUME Shaped, NEW s \in Handler, J!RoundEnds(s)
  PROVE  Shaped' /\ Over(s)
<1>1. /\ c11[s].at = "ask" /\ c11[s].left = {} /\ c11' = [c11 EXCEPT ![s] = J!NoRound]
      /\ J!Stand(s, "lead") /\ UNCHANGED <<c2, c3, c4, c5, c6, c7, c8, c9, c10, c12>>
  BY DEF J!RoundEnds
<1>2. /\ c1' \in [Handler -> Leads] /\ LeadersStay(s)
      /\ c1'[s] = [at |-> "lead", won |-> c1[s].won, val |-> c1[s].val]
  BY <1>1, LeaderGoes DEF Shaped
<1>3. c11' \in [Handler -> Round] /\ RoundsStay(s) /\ c11'[s] = J!NoRound
  BY <1>1, RoundsAre, RoundGoes DEF Shaped
<1> QED
  BY <1>1, <1>2, <1>3 DEF Shaped, Over, J!Delivery

LEMMA ServerCrashed ==
  ASSUME Shaped, NEW s \in Handler, J!Crash(s)
  PROVE  Shaped' /\ Crashed(s)
<1> DEFINE Lose(n) == c8[n].on = s /\ c8[n].state = "running"
           lost == [n \in J!Delivery |-> IF Lose(n) THEN [c8[n] EXCEPT !.state = "lost"] ELSE c8[n]]
<1>1. /\ J!Stand(s, "gone") /\ J!Mishap("stop") /\ c7' = [c7 EXCEPT ![s] = J!Resting]
      /\ c11' = [c11 EXCEPT ![s] = J!NoRound] /\ c8' = lost
      /\ UNCHANGED <<c2, c3, c5, c6, c9, c10, c12>>
  BY DEF J!Crash, J!Gone
<1>2. c1' \in [Handler -> Leads] /\ LeadersStay(s)
  BY <1>1, LeaderGoes DEF Shaped
<1>3. c7' \in [Handler -> Hand] /\ HandsStay(s) /\ c7'[s] = J!Resting
  BY <1>1, RestingIsHand, HandGoes DEF Shaped
<1>4. c11' \in [Handler -> Round] /\ RoundsStay(s) /\ c11'[s] = J!NoRound
  BY <1>1, RoundsAre, RoundGoes DEF Shaped
<1>5. c4' \subseteq {"lease", "stop", "error", "ackwait"} /\ c4' # {}
  BY <1>1, MishapGoes
<1>6. \A n \in J!Delivery : c8[n] \in Batch /\ [c8[n] EXCEPT !.state = "lost"] \in Batch
                            /\ [c8[n] EXCEPT !.state = "lost"].state = "lost"
  BY DEF Shaped, Batch
<1>7. c8' \in [J!Delivery -> Batch]
  BY <1>1, <1>6
<1>8. \A n \in J!Delivery : \/ c8'[n] = c8[n]
                            \/ c8[n].state = "running" /\ c8'[n].state = "lost"
  BY <1>1, <1>6
<1> QED
  BY <1>1, <1>2, <1>3, <1>4, <1>5, <1>7, <1>8 DEF Shaped, Crashed, J!Delivery

(* And those that change no function, or one that is simple.               *)
LeaseIsGone ==
    /\ c2' = 0 /\ c4' # {}
    /\ UNCHANGED <<c1, c3, c5, c6, c7, c8, c9, c10, c11, c12>>

Back(s) ==
    /\ c1[s].at = "gone" /\ LeadersStay(s) /\ c1'[s] = J!Follower
    /\ UNCHANGED <<c2, c3, c4, c5, c6, c7, c8, c9, c10, c11, c12>>

Published ==
    /\ c5 = "recorded"
    /\ (c5' = "queued" /\ c4' = c4) \/ (c5' = "unpublished" /\ c4' # {})
    /\ UNCHANGED <<c1, c2, c3, c6, c7, c8, c9, c10, c11, c12>>

LEMMA LeaseGoes ==
  ASSUME Shaped, UNCHANGED J!jobVars,
         J!LeaseExpires \/ \E s \in Handler : J!ShutdownReleases(s)
  PROVE  Shaped' /\ LeaseIsGone
<1>1. c2' = 0 /\ UNCHANGED <<c1, c3>> /\ (c4' = c4 \cup {"lease"} \/ c4' = c4 \cup {"stop"})
  BY DEF J!LeaseExpires, J!ShutdownReleases
<1>2. c4' \subseteq {"lease", "stop", "error", "ackwait"} /\ c4' # {}
  BY <1>1 DEF Shaped
<1>3. c2' \in 0 .. c3'
  BY <1>1 DEF Shaped
<1> QED
  BY <1>1, <1>2, <1>3 DEF Shaped, LeaseIsGone, J!Delivery, J!jobVars

LEMMA ServerBack ==
  ASSUME Shaped, NEW s \in Handler, J!Restart(s), UNCHANGED J!jobVars
  PROVE  Shaped' /\ Back(s)
<1>1. /\ c1[s].at = "gone" /\ c1' = [c1 EXCEPT ![s] = J!Follower]
      /\ UNCHANGED <<c2, c3, c4, c5, c6, c7, c8, c9, c10, c11, c12>>
  BY DEF J!Restart, J!jobVars
<1>2. c1' \in [Handler -> Leads] /\ LeadersStay(s) /\ c1'[s] = J!Follower
  BY <1>1, LeaderGoes DEF Shaped
<1> QED
  BY <1>1, <1>2 DEF Shaped, Back, J!Delivery

LEMMA JobPublished ==
  ASSUME Shaped, J!doRoomSummarizing
  PROVE  Shaped' /\ Published
<1>1. /\ c5 = "recorded" /\ UNCHANGED <<c1, c2, c3, c6, c7, c8, c9, c10, c11, c12>>
      /\ (c5' = "queued" /\ c4' = c4) \/ (c5' = "unpublished" /\ J!Mishap("error"))
  BY DEF J!doRoomSummarizing
<1>2. J!Mishap("error") => c4' \subseteq {"lease", "stop", "error", "ackwait"} /\ c4' # {}
  BY MishapGoes
<1> QED
  BY <1>1, <1>2 DEF Shaped, Published, J!Delivery

SummaryDoes ==
    \/ LeaseIsGone \/ Published \/ Waited
    \/ \E n \in J!Delivery, x \in {"completed", "failed"} : Ended(n, x)
    \/ \E s \in Handler :
          \/ Taken(s) \/ Kept(s) \/ Lost(s) \/ Back(s)
          \/ HandedOut(s) \/ GivenBack(s) \/ Started(s) \/ Registered(s) \/ Answered(s)
          \/ Begun(s) \/ Abandoned(s) \/ Summarised(s) \/ Charged(s) \/ Cleaned(s) \/ Over(s)
          \/ \E b \in J!Delivery : Asked(s, b)
          \/ Crashed(s)

LEMMA SummaryStep ==
  ASSUME J!SummaryInvariant, J!SummaryNext
  PROVE  Shaped' /\ SummaryDoes
<1>a. /\ Shaped
      /\ \A s \in Handler : c7[s].at # "idle" => c7[s].n \in J!Delivery
      /\ \A s \in Handler : c11[s].at \in {"file", "usage", "clean"} => c11[s].b \in J!Delivery
  BY SummaryTypes
<1>1. CASE J!LeaderNext /\ UNCHANGED J!jobVars
  <2>1. CASE J!LeaseExpires \/ \E s \in Handler : J!ShutdownReleases(s)
    BY <1>1, <1>a, <2>1, LeaseGoes DEF SummaryDoes
  <2>2. ASSUME NEW s \in Handler, J!AcquireJanitorLeaderLock(s) PROVE Shaped' /\ SummaryDoes
    BY <1>1, <1>a, <2>2, LockTaken DEF SummaryDoes
  <2>3. ASSUME NEW s \in Handler, J!StartJanitor(s) PROVE Shaped' /\ SummaryDoes
    BY <1>1, <1>a, <2>3, LockKept DEF SummaryDoes
  <2>4. ASSUME NEW s \in Handler, J!RenewFails(s) PROVE Shaped' /\ SummaryDoes
    BY <1>1, <1>a, <2>4, LockLost DEF SummaryDoes
  <2>5. ASSUME NEW s \in Handler, J!Restart(s) PROVE Shaped' /\ SummaryDoes
    BY <1>1, <1>a, <2>5, ServerBack DEF SummaryDoes
  <2> QED
    BY <1>1, <2>1, <2>2, <2>3, <2>4, <2>5 DEF J!LeaderNext
<1>2. CASE J!doRoomSummarizing
  BY <1>2, <1>a, JobPublished DEF SummaryDoes
<1>3. CASE J!AckWaitEnds
  BY <1>3, <1>a, JobWaited DEF SummaryDoes
<1>4. ASSUME NEW n \in J!Delivery, NEW x \in {"completed", "failed"}, J!BatchEnds(n, x)
      PROVE  Shaped' /\ SummaryDoes
  BY <1>4, <1>a, BatchEnded DEF SummaryDoes
<1>5. ASSUME NEW s \in Handler, J!Deliver(s) PROVE Shaped' /\ SummaryDoes
  BY <1>5, <1>a, JobHandedOut DEF SummaryDoes
<1>6. ASSUME NEW s \in Handler, J!StartFails(s) \/ J!RegisterFails(s)
      PROVE  Shaped' /\ SummaryDoes
  <2>1. J!Nak(s) /\ UNCHANGED <<c1, c2, c3, c6, c8, c9, c10, c11>>
    BY <1>6 DEF J!StartFails, J!RegisterFails
  <2> QED
    BY <1>a, <2>1, JobGivenBack DEF SummaryDoes
<1>7. ASSUME NEW s \in Handler, J!Register(s) PROVE Shaped' /\ SummaryDoes
  <2>1. c7[s].n \in J!Delivery
    BY <1>7, <1>a DEF J!Register
  <2> QED
    BY <1>7, <1>a, <2>1, BatchRegistered DEF SummaryDoes
<1>8. ASSUME NEW s \in Handler, J!Ack(s) PROVE Shaped' /\ SummaryDoes
  <2>1. c7[s].n \in J!Delivery
    BY <1>8, <1>a DEF J!Ack
  <2> QED
    BY <1>8, <1>a, <2>1, JobAnswered DEF SummaryDoes
<1>9. ASSUME NEW s \in Handler, NEW provider \in J!Provider,
             J!StartBatchSummarizeAudioFile(s, provider)
      PROVE  Shaped' /\ SummaryDoes
  <2>1. c7[s].n \in J!Delivery
    BY <1>9, <1>a DEF J!StartBatchSummarizeAudioFile
  <2> QED
    BY <1>9, <1>a, <2>1, BatchStarted DEF SummaryDoes
<1>10. ASSUME NEW s \in Handler, J!CheckInsightsPendingSummarizeJobs(s)
       PROVE  Shaped' /\ SummaryDoes
  BY <1>10, <1>a, RoundBegun DEF SummaryDoes
<1>11. ASSUME NEW s \in Handler, NEW b \in J!Delivery, J!CheckBatchJobStatus(s, b)
       PROVE  Shaped' /\ SummaryDoes
  BY <1>11, <1>a, BatchAsked DEF SummaryDoes
<1>12. ASSUME NEW s \in Handler, J!FileArtifactFails(s) PROVE Shaped' /\ SummaryDoes
  BY <1>12, <1>a, RoundAbandoned DEF SummaryDoes, J!FileArtifactFails
<1>13. ASSUME NEW s \in Handler, J!CreateMeetingSummaryArtifact(s) PROVE Shaped' /\ SummaryDoes
  <2>1. c11[s].b \in J!Delivery
    BY <1>13, <1>a DEF J!CreateMeetingSummaryArtifact
  <2> QED
    BY <1>13, <1>a, <2>1, SummaryMade DEF SummaryDoes
<1>14. ASSUME NEW s \in Handler, J!UsageArtifact(s) PROVE Shaped' /\ SummaryDoes
  BY <1>14, <1>a, UsageCharged DEF SummaryDoes
<1>15. ASSUME NEW s \in Handler, J!Cleanup(s) PROVE Shaped' /\ SummaryDoes
  BY <1>15, <1>a, BatchCleaned DEF SummaryDoes
<1>16. ASSUME NEW s \in Handler, J!RoundEnds(s) PROVE Shaped' /\ SummaryDoes
  BY <1>16, <1>a, RoundOver DEF SummaryDoes
<1>17. ASSUME NEW s \in Handler, J!Crash(s) PROVE Shaped' /\ SummaryDoes
  BY <1>17, <1>a, ServerCrashed DEF SummaryDoes
<1> QED
  BY <1>1, <1>2, <1>3, <1>4, <1>5, <1>6, <1>7, <1>8, <1>9, <1>10, <1>11, <1>12, <1>13, <1>14,
     <1>15, <1>16, <1>17 DEF J!SummaryNext

LEMMA SummaryFollowedNext ==
  ASSUME J!SummaryInvariant, J!SummaryNext
  PROVE  J!DeliveriesAreCounted' /\ J!BatchesAreFollowed'
<1> DEFINE Followed == J!DeliveriesAreCounted /\ J!BatchesAreFollowed
<1>a. /\ Shaped /\ Shaped' /\ Followed
      /\ \A s \in Handler : c7[s].at # "idle" => c7[s].n \in J!Delivery
      /\ \A s \in Handler : c11[s].at \in {"file", "usage", "clean"} => c11[s].b \in J!Delivery
  BY SummaryTypes, SummaryStep DEF J!SummaryInvariant
<1>b. /\ c2 \in Nat /\ c3 \in Nat /\ c2 <= c3 /\ c6 \in 0 .. MaxDeliver /\ c6' \in 0 .. MaxDeliver
      /\ c9 \subseteq J!Delivery /\ \A n \in J!Delivery : c10[n] \in Nat
      /\ \A s \in Handler : /\ c7[s].at \in {"idle", "start", "register", "ack"}
                             /\ c11[s].at \in {"idle", "ask", "file", "usage", "clean"}
                             /\ c1[s].at \in {"follow", "won", "lead", "task", "gone"}
  BY <1>a DEF Shaped, Leads, Hand, Round
<1>d. SummaryDoes
  BY SummaryStep
<1> USE DEF J!Tried, J!Settled, J!DeliveriesAreCounted, J!BatchesAreFollowed, J!Resting,
            J!NoRound, J!Delivery, LeadersStay, HandsStay, RoundsStay, BatchesStay
<1>1. CASE LeaseIsGone
  BY <1>1, <1>a, <1>b DEF LeaseIsGone
<1>2. CASE Published
  BY <1>2, <1>a, <1>b DEF Published
<1>3. CASE Waited
  BY <1>3, <1>a, <1>b DEF Waited
<1>4. ASSUME NEW n \in J!Delivery, NEW x \in {"completed", "failed"}, Ended(n, x) PROVE Followed'
  BY <1>4, <1>a, <1>b DEF Ended
<1>5. ASSUME NEW s \in Handler, Taken(s) PROVE Followed'
  BY <1>5, <1>a, <1>b DEF Taken
<1>6. ASSUME NEW s \in Handler, Kept(s) PROVE Followed'
  BY <1>6, <1>a, <1>b DEF Kept
<1>7. ASSUME NEW s \in Handler, Lost(s) PROVE Followed'
  BY <1>7, <1>a, <1>b DEF Lost
<1>8. ASSUME NEW s \in Handler, Back(s) PROVE Followed'
  BY <1>8, <1>a, <1>b DEF Back
<1>9. ASSUME NEW s \in Handler, HandedOut(s) PROVE Followed'
  BY <1>9, <1>a, <1>b DEF HandedOut
<1>10. ASSUME NEW s \in Handler, GivenBack(s) PROVE Followed'
  BY <1>10, <1>a, <1>b DEF GivenBack
<1>11. ASSUME NEW s \in Handler, Started(s) PROVE Followed'
  BY <1>11, <1>a, <1>b DEF Started
<1>12. ASSUME NEW s \in Handler, Registered(s) PROVE Followed'
  BY <1>12, <1>a, <1>b DEF Registered
<1>13. ASSUME NEW s \in Handler, Answered(s) PROVE Followed'
  BY <1>13, <1>a, <1>b DEF Answered
<1>14. ASSUME NEW s \in Handler, Begun(s) PROVE Followed'
  BY <1>14, <1>a, <1>b DEF Begun
<1>15. ASSUME NEW s \in Handler, Abandoned(s) PROVE Followed'
  BY <1>15, <1>a, <1>b DEF Abandoned
<1>16. ASSUME NEW s \in Handler, Summarised(s) PROVE Followed'
  BY <1>16, <1>a, <1>b DEF Summarised
<1>17. ASSUME NEW s \in Handler, Charged(s) PROVE Followed'
  BY <1>17, <1>a, <1>b DEF Charged
<1>18. ASSUME NEW s \in Handler, Cleaned(s) PROVE Followed'
  BY <1>18, <1>a, <1>b DEF Cleaned
<1>19. ASSUME NEW s \in Handler, Over(s) PROVE Followed'
  BY <1>19, <1>a, <1>b DEF Over
<1>20. ASSUME NEW s \in Handler, NEW b \in J!Delivery, Asked(s, b) PROVE Followed'
  BY <1>20, <1>a, <1>b DEF Asked
<1>21. ASSUME NEW s \in Handler, Crashed(s) PROVE Followed'
  BY <1>21, <1>a, <1>b DEF Crashed
<1> QED
  BY <1>a, <1>d, <1>1, <1>2, <1>3, <1>4, <1>5, <1>6, <1>7, <1>8, <1>9, <1>10, <1>11, <1>12,
     <1>13, <1>14, <1>15, <1>16, <1>17, <1>18, <1>19, <1>20, <1>21 DEF SummaryDoes

LEMMA SummaryCalmNext ==
  ASSUME J!SummaryInvariant, J!SummaryNext, c4' = {}
  PROVE  J!OneLeads' /\ J!JobIsHandedOutOnce' /\ J!SummaryIsLast'
<1> DEFINE Calm == J!OneLeads /\ J!JobIsHandedOutOnce /\ J!SummaryIsLast
<1>a. /\ Shaped /\ Shaped' /\ J!DeliveriesAreCounted /\ J!BatchesAreFollowed /\ c4' = {}
      /\ c4 = {} => Calm
      /\ \A s \in Handler : c7[s].at # "idle" => c7[s].n \in J!Delivery
      /\ \A s \in Handler : c11[s].at \in {"file", "usage", "clean"} => c11[s].b \in J!Delivery
  BY SummaryTypes, SummaryStep DEF J!SummaryInvariant
<1>b. /\ c2 \in Nat /\ c3 \in Nat /\ c2 <= c3 /\ c6 \in 0 .. MaxDeliver /\ c6' \in 0 .. MaxDeliver
      /\ c9 \subseteq J!Delivery /\ \A n \in J!Delivery : c10[n] \in Nat
      /\ \A s \in Handler : /\ c7[s].at \in {"idle", "start", "register", "ack"}
                             /\ c11[s].at \in {"idle", "ask", "file", "usage", "clean"}
                             /\ c1[s].at \in {"follow", "won", "lead", "task", "gone"}
  BY <1>a DEF Shaped, Leads, Hand, Round
<1>d. SummaryDoes
  BY SummaryStep
<1> USE DEF J!Tried, J!Settled, J!Up, J!Leading, J!DeliveriesAreCounted, J!BatchesAreFollowed,
            J!OneLeads, J!JobIsHandedOutOnce, J!SummaryIsLast, J!Follower, J!Resting, J!NoRound,
            J!Delivery, LeadersStay, HandsStay, RoundsStay, BatchesStay
<1>1. CASE LeaseIsGone
  BY <1>1, <1>a, <1>b DEF LeaseIsGone
<1>2. CASE Published
  BY <1>2, <1>a, <1>b DEF Published
<1>3. CASE Waited
  BY <1>3, <1>a, <1>b DEF Waited
<1>4. ASSUME NEW n \in J!Delivery, NEW x \in {"completed", "failed"}, Ended(n, x) PROVE Calm'
  BY <1>4, <1>a, <1>b DEF Ended
<1>5. ASSUME NEW s \in Handler, Taken(s) PROVE Calm'
  BY <1>5, <1>a, <1>b DEF Taken
<1>6. ASSUME NEW s \in Handler, Kept(s) PROVE Calm'
  BY <1>6, <1>a, <1>b DEF Kept
<1>7. ASSUME NEW s \in Handler, Lost(s) PROVE Calm'
  BY <1>7, <1>a, <1>b DEF Lost
<1>8. ASSUME NEW s \in Handler, Back(s) PROVE Calm'
  BY <1>8, <1>a, <1>b DEF Back
<1>9. ASSUME NEW s \in Handler, HandedOut(s) PROVE Calm'
  BY <1>9, <1>a, <1>b DEF HandedOut
<1>10. ASSUME NEW s \in Handler, GivenBack(s) PROVE Calm'
  BY <1>10, <1>a, <1>b DEF GivenBack
<1>11. ASSUME NEW s \in Handler, Started(s) PROVE Calm'
  BY <1>11, <1>a, <1>b DEF Started
<1>12. ASSUME NEW s \in Handler, Registered(s) PROVE Calm'
  BY <1>12, <1>a, <1>b DEF Registered
<1>13. ASSUME NEW s \in Handler, Answered(s) PROVE Calm'
  BY <1>13, <1>a, <1>b DEF Answered
<1>14. ASSUME NEW s \in Handler, Begun(s) PROVE Calm'
  BY <1>14, <1>a, <1>b DEF Begun
<1>15. ASSUME NEW s \in Handler, Abandoned(s) PROVE Calm'
  BY <1>15, <1>a, <1>b DEF Abandoned
<1>16. ASSUME NEW s \in Handler, Summarised(s) PROVE Calm'
  BY <1>16, <1>a, <1>b DEF Summarised
<1>17. ASSUME NEW s \in Handler, Charged(s) PROVE Calm'
  BY <1>17, <1>a, <1>b DEF Charged
<1>18. ASSUME NEW s \in Handler, Cleaned(s) PROVE Calm'
  BY <1>18, <1>a, <1>b DEF Cleaned
<1>19. ASSUME NEW s \in Handler, Over(s) PROVE Calm'
  BY <1>19, <1>a, <1>b DEF Over
<1>20. ASSUME NEW s \in Handler, NEW b \in J!Delivery, Asked(s, b) PROVE Calm'
  BY <1>20, <1>a, <1>b DEF Asked
<1>21. ASSUME NEW s \in Handler, Crashed(s) PROVE Calm'
  BY <1>21, <1>a, <1>b DEF Crashed
<1> QED
  BY <1>a, <1>d, <1>1, <1>2, <1>3, <1>4, <1>5, <1>6, <1>7, <1>8, <1>9, <1>10, <1>11, <1>12,
     <1>13, <1>14, <1>15, <1>16, <1>17, <1>18, <1>19, <1>20, <1>21 DEF SummaryDoes

LEMMA SummaryNextKeeps ==
  ASSUME J!SummaryInvariant, [J!SummaryNext]_(J!summaryVars)
  PROVE  J!SummaryInvariant'
<1>1. CASE UNCHANGED J!summaryVars
  BY <1>1
     DEF J!summaryVars, J!leaderVars, J!jobVars, J!SummaryInvariant, J!SummaryTypeOK,
         J!LeaderTypeOK, J!DeliveriesAreCounted, J!BatchesAreFollowed, J!OneLeads,
         J!JobIsHandedOutOnce, J!SummaryIsLast, J!Tried, J!Settled, J!Up, J!Leading
<1>2. CASE J!SummaryNext
  <2>1. Shaped'
    BY <1>2, SummaryStep
  <2>2. J!SummaryTypeOK'
    BY <2>1 DEF Shaped, J!SummaryTypeOK, J!LeaderTypeOK, Leads, Hand, Batch, Round, J!Delivery
  <2> QED
    BY <1>2, <2>2, SummaryFollowedNext, SummaryCalmNext DEF J!SummaryInvariant
<1> QED
  BY <1>1, <1>2

-----------------------------------------------------------------------------
(* The components in one module: the one that is active takes its steps.   *)

LEMMA UsageHolds ==
  /\ Init => (active = "usage" => C!UsageInvariant)
  /\ (active = "usage" => C!UsageInvariant) /\ [Next]_<<active, cells>> =>
        (active = "usage" => C!UsageInvariant)'
<1>1. Init => (active = "usage" => C!UsageInvariant)
  BY UsageStarts DEF Init
<1>2. ASSUME active = "usage" => C!UsageInvariant, [Next]_<<active, cells>>, active' = "usage"
      PROVE  C!UsageInvariant'
  <2>1. active = "usage" /\ [C!UsageNext]_(C!usageVars)
    BY <1>2 DEF Next, cells, C!usageVars
  <2> QED
    BY <1>2, <2>1, UsageNextKeeps
<1> QED
  BY <1>1, <1>2

LEMMA ConversionsHold ==
  /\ Init => (active = "conversions" => W!ConvertInvariant)
  /\ (active = "conversions" => W!ConvertInvariant) /\ [Next]_<<active, cells>> =>
        (active = "conversions" => W!ConvertInvariant)'
<1>1. Init => (active = "conversions" => W!ConvertInvariant)
  BY ConvertStarts DEF Init
<1>2. ASSUME active = "conversions" => W!ConvertInvariant, [Next]_<<active, cells>>,
             active' = "conversions"
      PROVE  W!ConvertInvariant'
  <2>1. active = "conversions" /\ [W!ConvertNext]_(W!convertVars)
    BY <1>2 DEF Next, cells, W!convertVars
  <2> QED
    BY <1>2, <2>1, ConvertNextKeeps
<1> QED
  BY <1>1, <1>2

LEMMA UploadsHold ==
  /\ Init => (active = "uploads" => U!UploadsInvariant)
  /\ (active = "uploads" => U!UploadsInvariant) /\ [Next]_<<active, cells>> =>
        (active = "uploads" => U!UploadsInvariant)'
<1>1. Init => (active = "uploads" => U!UploadsInvariant)
  BY UploadsStart DEF Init
<1>2. ASSUME active = "uploads" => U!UploadsInvariant, [Next]_<<active, cells>>,
             active' = "uploads"
      PROVE  U!UploadsInvariant'
  <2>1. active = "uploads" /\ [U!UploadsNext]_(U!uploadVars)
    BY <1>2 DEF Next, cells, U!uploadVars
  <2> QED
    BY <1>2, <2>1, UploadsNextKeeps
<1> QED
  BY <1>1, <1>2

LEMMA SummariesHold ==
  /\ Init => (active = "summaries" => J!SummaryInvariant)
  /\ (active = "summaries" => J!SummaryInvariant) /\ [Next]_<<active, cells>> =>
        (active = "summaries" => J!SummaryInvariant)'
<1>1. Init => (active = "summaries" => J!SummaryInvariant)
  BY SummariesStart DEF Init
<1>2. ASSUME active = "summaries" => J!SummaryInvariant, [Next]_<<active, cells>>,
             active' = "summaries"
      PROVE  J!SummaryInvariant'
  <2>1. active = "summaries" /\ [J!SummaryNext]_(J!summaryVars)
    BY <1>2 DEF Next, cells, J!summaryVars, J!leaderVars, J!jobVars
  <2> QED
    BY <1>2, <2>1, SummaryNextKeeps
<1> QED
  BY <1>1, <1>2

(* Whatever fails, usage is not counted twice, and no more of it is        *)
(* missing from Redis and the artifacts than what the steps that failed    *)
(* had in their hands or the day's limit of a key took; and a user whose   *)
(* tasks do not overlap is billed for no more time than one was at work,   *)
(* as long as none finds the start that an earlier end could not take      *)
(* along (artifact_speech_transcription.go,                                *)
(* services/redis/insights_transcription.go:23-67).                        *)
THEOREM UsageIsAlwaysRight == Spec => []UsageIsRight
<1> DEFINE Inv == active = "usage" => C!UsageInvariant
<1>1. Inv => UsageIsRight
  BY DEF UsageIsRight, C!UsageInvariant
<1> QED
  BY <1>1, UsageHolds, PTL DEF Spec

(* Whatever a room lists is there, all parts of an upload in their order   *)
(* and all pages of a document, and the lock of a conversion has a holder  *)
(* who will give it back (file_upload.go, file_convert.go).                *)
THEOREM FilesAreAlwaysInOrder == Spec => []FilesAreInOrder
<1> DEFINE Inv == /\ active = "uploads" => U!UploadsInvariant
                  /\ active = "conversions" => W!ConvertInvariant
<1>1. Init => Inv
  BY UploadsHold, ConversionsHold
<1>2. Inv /\ [Next]_<<active, cells>> => Inv'
  BY UploadsHold, ConversionsHold
<1>3. Inv => FilesAreInOrder
  BY DEF FilesAreInOrder, U!UploadsInvariant, W!ConvertInvariant
<1> QED
  BY <1>1, <1>2, <1>3, PTL DEF Spec

LEMMA SummaryIsRight == J!SummaryInvariant => J!RecordingIsAccounted /\ J!OneSummaryWithoutMishaps
<1> SUFFICES ASSUME J!SummaryInvariant
             PROVE  J!RecordingIsAccounted /\ J!OneSummaryWithoutMishaps
  OBVIOUS
<1>1. J!RecordingIsAccounted
  BY DEF J!SummaryInvariant, J!BatchesAreFollowed, J!RecordingIsAccounted, J!Settled
<1>2. J!OneSummaryWithoutMishaps
  BY DEF J!SummaryInvariant, J!SummaryIsLast, J!OneSummaryWithoutMishaps
<1> QED
  BY <1>1, <1>2

(* A recorded meeting is accounted for whatever fails, and gets one        *)
(* summary at most as long as nothing does (insights.go,                   *)
(* janitor_insights.go).                                                   *)
THEOREM SummariesAreAlwaysRight == Spec => []SummariesAreRight
<1> DEFINE Inv == active = "summaries" => J!SummaryInvariant
<1>1. Inv => SummariesAreRight
  BY SummaryIsRight DEF SummariesAreRight
<1> QED
  BY <1>1, SummariesHold, PTL DEF Spec

(* Every variable of every component keeps its shape, in particular the    *)
(* parts written and asked for are parts of their upload, and the times a  *)
(* job is handed out stay within the queue's limit.                        *)
THEOREM ArtifactTypesCorrect == Spec => []TypesOK
<1> DEFINE Inv == /\ active \in {"uploads", "conversions", "usage", "summaries"}
                  /\ active = "uploads" => U!UploadsInvariant
                  /\ active = "conversions" => W!ConvertInvariant
                  /\ active = "usage" => C!UsageInvariant
                  /\ active = "summaries" => J!SummaryInvariant
<1>1. Init => Inv
  BY UploadsHold, ConversionsHold, UsageHolds, SummariesHold DEF Init
<1>2. Inv /\ [Next]_<<active, cells>> => Inv'
  <2>1. [Next]_<<active, cells>> => active' = active
    BY DEF Next
  <2> QED
    BY <2>1, UploadsHold, ConversionsHold, UsageHolds, SummariesHold
<1>3. Inv => TypesOK
  BY DEF TypesOK, U!UploadsInvariant, W!ConvertInvariant, C!UsageInvariant, J!SummaryInvariant
<1> QED
  BY <1>1, <1>2, <1>3, PTL DEF Spec
=============================================================================
