---------------------------- MODULE MCArtifacts ----------------------------
(* The files that a room leaves behind, for TLC: the uploads, the pages of *)
(* a converted document, the usage that is billed, and the summary of a    *)
(* meeting.  None of them reads what another writes, so a behaviour        *)
(* follows the one that active names.  TLC pays for each variable of each  *)
(* state: the components take theirs from one set of cells, and the cells  *)
(* that the active one leaves over stay empty.                             *)
EXTENDS Naturals, TLC

CONSTANTS
    Handler,                 \* goroutines that serve requests; servers of summaries
    Thing, FileName,         \* uploads and the names of their files
    Chat,                    \* requests to the AI chat
    Nil,
    Parts,                   \* of an upload
    Ranges, PoolSize,        \* of a conversion
    Window, MaxUnits, MaxEnds, MaxTime,                 \* of the usage
    MaxTerms, MaxDeliver, MaxSummaries, MaxMishaps      \* of the summaries

(* An upload has parts, the clock starts at 1, and the bounds are numbers. *)
ASSUME ArtifactsAssumption ==
    /\ Parts \in Nat \ {0} /\ MaxTime \in Nat \ {0}
    /\ Ranges \in Nat /\ MaxUnits \in Nat /\ MaxEnds \in Nat
    /\ MaxTerms \in Nat /\ MaxDeliver \in Nat /\ MaxSummaries \in Nat

VARIABLES active, c1, c2, c3, c4, c5, c6, c7, c8, c9, c10, c11, c12, c13, c14

U == INSTANCE FileUploads WITH
        kind <- c1, name <- c2, part <- c3, answered <- c4, dest <- c5, list <- c6,
        work <- c7, room <- c8, disputed <- c9,
        Worker <- Handler, NoUpload <- Nil, Upload <- Thing, Name <- FileName
W == INSTANCE WhiteboardConversion WITH
        kind <- c1, handler <- c2, job <- c3, failed <- c4, office <- c5, source <- c6,
        pool <- c7, dir <- c8, page <- c9, found <- c10, list <- c11, lock <- c12,
        overran <- c13, room <- c14,
        Request <- Handler, NoRequest <- Nil
C == INSTANCE UsageArtifacts WITH
        usage <- c1, made <- c2, settled <- c3, end <- c4, ended <- c5, chat <- c6,
        context <- c7, audio <- c8, start <- c9, clock <- c10, used <- c11, billed <- c12,
        course <- c13, lost <- c14,
        Audio <- Handler
J == INSTANCE SummaryJobs WITH
        leader <- c1, lease <- c2, terms <- c3, mishaps <- c4, job <- c5, times <- c6,
        hand <- c7, batch <- c8, pending <- c9, summary <- c10, check <- c11, source <- c12,
        Server <- Handler, Nobody <- Nil

cells == <<c1, c2, c3, c4, c5, c6, c7, c8, c9, c10, c11, c12, c13, c14>>

Init ==
    \/ active = "uploads" /\ U!UploadsInit
       /\ c10 = Nil /\ c11 = Nil /\ c12 = Nil /\ c13 = Nil /\ c14 = Nil
    \/ active = "conversions" /\ W!ConvertInit
    \/ active = "usage" /\ C!UsageInit
    \/ active = "summaries" /\ J!SummaryInit /\ c13 = Nil /\ c14 = Nil

Next ==
    \/ active = "uploads" /\ U!UploadsNext /\ UNCHANGED <<active, c10, c11, c12, c13, c14>>
    \/ active = "conversions" /\ W!ConvertNext /\ UNCHANGED active
    \/ active = "usage" /\ C!UsageNext /\ UNCHANGED active
    \/ active = "summaries" /\ J!SummaryNext /\ UNCHANGED <<active, c13, c14>>

Spec == Init /\ [][Next]_<<active, cells>>

Symmetry == Permutations(Handler) \cup Permutations(Thing) \cup Permutations(FileName)

(* Bound: the AI chat shares nothing with the transcription of a user but  *)
(* the end of the session: a request to it is followed as long as the      *)
(* user's tasks were not mixed up.                                         *)
Focus ==
    active = "usage" =>
        LET chat == c6  course == c13 IN
        course = "mixed" => \A c \in Chat : chat[c] = "idle"

-----------------------------------------------------------------------------
(* The properties of the component that is active, as its module has them. *)

(* Every variable keeps its shape.                                         *)
TypesOK ==
    CASE active = "uploads" -> U!UploadsTypeOK
      [] active = "conversions" -> W!ConvertTypeOK
      [] active = "usage" -> C!UsageTypeOK
      [] active = "summaries" -> J!SummaryTypeOK

(* What the room lists is there: all parts of an upload, in their order    *)
(* (file_upload.go), and all pages of a document; and the conversion lock  *)
(* of a document has a holder who will give it back (file_convert.go).     *)
FilesAreInOrder ==
    /\ active = "uploads" => U!ListedIsWhole
    /\ active = "conversions" => W!ListedPagesAreWhole /\ W!LockWillBeFreed

(* What was counted is in Redis or in one artifact, however late it came,  *)
(* but for what a step that failed had in its hands                        *)
(* (artifact_speech_transcription.go), and a user whose tasks do not       *)
(* overlap is billed for no more time than one was at work, unless a task  *)
(* finds the start that an earlier one could not take along                *)
(* (services/redis/insights_transcription.go:23-67).                       *)
UsageIsRight == active = "usage" => C!UsageIsAccounted /\ C!BilledWhenAlone

(* When nobody works on a recorded meeting any more there is a summary, a  *)
(* batch that failed, or no delivery left; and as long as no server dies   *)
(* and no lease is lost it gets one summary at most (insights.go,          *)
(* janitor_insights.go).                                                   *)
SummariesAreRight == active = "summaries" => J!RecordingIsAccounted /\ J!OneSummaryWithoutMishaps
=============================================================================
