--------------------------- MODULE MCRoomServices ---------------------------
(* What a room's users ask of it while it runs, for TLC: breakout rooms,   *)
(* changes of the room and of its users, recorder tasks, and recordings.   *)
(* The first three put back the same whole metadata of the room: what a    *)
(* request of another component does to them is a step of each             *)
(* (OtherRequest), so a behaviour follows the one that active names.  TLC  *)
(* pays for each variable of each state: the components take theirs from   *)
(* one set of cells, and the cells that the active one leaves over stay    *)
(* empty.                                                                  *)
EXTENDS Naturals, FiniteSets, TLC

CONSTANTS
    Breakout,                \* the breakout rooms
    Handler,                 \* goroutines that serve requests, and the requests
    Thing,                   \* the recorder's jobs, the recordings
    None,
    Member, Admin,          \* the users of the room, and its admins
    ParentDurations, BkDuration, Increase, PerMinute, Huge, MaxTime, MaxBusy,  \* breakout rooms
    MaxErrors

(* The recording a request merges is none of those the recorders made, the *)
(* room is none of its users.                                              *)
ASSUME ServicesAssumption ==
    /\ None \notin Handler
    /\ Handler \cap Thing = {}
    /\ Admin \subseteq Member /\ "room" \notin Member
    /\ MaxErrors \in Nat

(* The parent is none of its breakout rooms and no request a webhook or a  *)
(* cleanup; times are far below where their difference wraps around.       *)
ASSUME BreakoutsAssumption ==
    /\ "parent" \notin Breakout
    /\ Handler \cap ({"room_started", "cleanup"} \X (Breakout \cup {"parent"})) = {}
    /\ ParentDurations \subseteq Nat /\ BkDuration \in Nat /\ Increase \in Nat
    /\ PerMinute \in Nat \ {0} /\ Huge \in Nat /\ MaxTime \in 0 .. Huge

VARIABLES active, c1, c2, c3, c4, c5, c6, c7, c8, c9

B == INSTANCE BreakoutRooms WITH
        status <- c1, flag <- c2, record <- c3, checker <- c4, granted <- c5, time <- c6,
        work <- c7, mixed <- c8,
        Request <- Handler
R == INSTANCE RoomRequests WITH
        meta <- c1, member <- c2, work <- c3, disturbed <- c4, last <- c5, ingress <- c6,
        rules <- c7, pastMeta <- c8, pastMember <- c9,
        Worker <- Handler, NoWorker <- None
T == INSTANCE RecorderTasks WITH
        row <- c1, bucket <- c2, lock <- c3, work <- c4, job <- c5, tangled <- c6,
        expired <- c7, past <- c8,
        Worker <- Handler, NoWorker <- None, Job <- Thing
D == INSTANCE Recordings WITH
        policy <- c1, row <- c2, file <- c3, work <- c4, held <- c5, msgId <- c6, task <- c7,
        astray <- c8, errors <- c9,
        Worker <- Handler, NoWorker <- None, Recorded <- Thing

cells == <<c1, c2, c3, c4, c5, c6, c7, c8, c9>>

Init ==
    \/ active = "breakouts" /\ B!BreakoutInit /\ c9 = None
    \/ active = "requests" /\ R!RequestsInit
    \/ active = "tasks" /\ T!TasksInit /\ c9 = None
    \/ active = "recordings" /\ D!RecordingsInit

Next ==
    \/ active = "breakouts" /\ B!BreakoutNext /\ UNCHANGED <<active, c9>>
    \/ active = "requests" /\ R!RequestsNext /\ UNCHANGED active
    \/ active = "tasks" /\ T!TasksNext /\ UNCHANGED <<active, c9>>
    \/ active = "recordings" /\ D!RecordingsNext /\ UNCHANGED active

Spec == Init /\ [][Next]_<<active, cells>>

Symmetry == Permutations(Breakout) \cup Permutations(Handler) \cup Permutations(Thing)

(* Bound: overlaps and faults that excuse the properties are left out one  *)
(* way or the other.  Under a parent without a limit both breakout rooms   *)
(* are created, started and ended, and no more goes wrong than a start     *)
(* that fails; under one with a limit there is one breakout room at a      *)
(* time, and one kind of overlap or of fault.  What goes wrong with a      *)
(* recorder task goes wrong with the recording, and only while its lock    *)
(* holds.                                                                  *)
Focus ==
 /\ active = "tasks" =>
        LET tangled == c6  expired == c7 IN
        /\ tangled \cup expired \subseteq {"recording"}
        /\ tangled = {} \/ expired = {}
 /\ active = "breakouts" =>
        LET status == c1  granted == c5  time == c6  work == c7  mixed == c8 IN
        IF granted["parent"] = 0
        THEN /\ time = 0
             /\ \A w \in Handler : work[w].job # "increase"
             /\ mixed \cap {"create", "fault", "clock", "books"} = {}
        ELSE /\ Cardinality({b \in Breakout :
                    \/ status[b] # "off"
                    \/ \E w \in Handler : b = work[w].room \/ b \in work[w].todo}) < 2
             /\ Cardinality(mixed) < 2

-----------------------------------------------------------------------------
(* The properties of the component that is active, as its module has them. *)

(* Every variable keeps its shape.                                         *)
TypesOK ==
    CASE active = "breakouts" -> B!BreakoutTypeOK
      [] active = "requests" -> R!RequestsTypeOK /\ R!PastTypeOK
      [] active = "tasks" -> T!TasksTypeOK
      [] active = "recordings" -> D!RecordingsTypeOK

(* Whatever is asked of the room, its metadata hold the last change, no    *)
(* second ingress is made and a user's two presenter flags agree, unless   *)
(* two changes of one object overlapped, one was left half done, or one    *)
(* put back what it had read from a copy that lagged; and one switch never *)
(* leaves the room without a presenter, whatever else is under way         *)
(* (room_features.go, user_lock.go, user_presenter.go).                    *)
ChangesStick ==
    active = "requests" =>
        R!RoomChangesStick /\ R!FlagsAgree /\ R!OneSwitchKeepsPresenter

(* The hash, the parent's flag and the duration checker tell of the        *)
(* breakout rooms that run, and none outlives its parent, however ends and *)
(* increases meet; except for what a step that failed, a change that       *)
(* overlapped an end, or a setting put back beside may have spoilt, which  *)
(* each of the three names (bkroom_end.go, bkroom_create.go).              *)
BreakoutsFollowParent ==
    active = "breakouts" =>
        B!BreakoutsAreTracked /\ B!ParentTakesBreakouts /\ B!DurationsAgree

(* The lock lets one start of a task through at a time while it lasts, and *)
(* row, metadata and recorder agree on what is on the air, except over     *)
(* tasks of which an event was lost, half done or handled beside another,  *)
(* or that two recorders had (recording_dispatch.go, recording_modify.go,  *)
(* recording_end.go).                                                      *)
TasksAgree == active = "tasks" => T!OneStartAtATime /\ T!AirAgrees

(* Whoever holds the room's merge lock has a task on its way, unless it    *)
(* was left behind, and it is the only one, unless another job of the room *)
(* freed the lock under it (recording_modify.go, recording.go).            *)
OneMergeHoldsTheLock == active = "recordings" => D!MergeLockHasTask /\ D!OneMergeAtATime

(* No step brings back a recording that was deleted, or gives a breakout   *)
(* room, alone with its parent, a minute or more past the parent's end     *)
(* (recording_modify.go, room_duration.go).                                *)
StepsStayInBounds ==
    [][ /\ active = "recordings" => D!StaysDeleted
        /\ active = "breakouts" => B!IncreaseFits ]_cells
=============================================================================
