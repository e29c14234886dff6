----------------------------- MODULE RoomRequests -----------------------------
(***************************************************************************)
(* Requests that change the metadata of a room or of a user.  Every one    *)
(* reads the whole metadata, changes a field of its copy and puts the copy *)
(* back; some call the insights agents or LiveKit in between.  Requests    *)
(* are handled concurrently, and nothing orders the reads and the puts of  *)
(* two of them.                                                            *)
(*                                                                         *)
(* A field of the room's metadata holds the request that set it last.  A   *)
(* read is answered from the server's own copy of the room or of the user, *)
(* and a copy that lags holds what the bucket held before (how it comes to *)
(* lag, and for how long, is in NatsRoomCache); other components put the   *)
(* same metadata, and their requests are like these.  Users do not leave   *)
(* (UserPresence).                                                         *)
(***************************************************************************)
EXTENDS Naturals, FiniteSets

CONSTANTS
    Member,   \* users
    Admin,    \* those who are admins
    Worker,   \* requests that are handled, one by each
    NoWorker

VARIABLES
    meta,      \* the room's metadata: who set each feature
    member,    \* each user's keys and metadata in the bucket
    work,      \* each worker: its request, where it is, what it read
    disturbed, \* what two requests that overlapped both write, one left half
               \* done, or put back from a copy that lagged
    last,      \* the worker that finished a change of each feature last
    ingress,   \* ingresses that exist in LiveKit
    rules,     \* SIP dispatch rules that exist in LiveKit
    pastMeta,  \* metadata the room had before, which a copy may still hold
    pastMember \* what the bucket had of each user before

requestVars == <<meta, member, work, disturbed, last, ingress, rules, pastMeta, pastMember>>

TheRoom == "room"

-----------------------------------------------------------------------------
(* The requests.  What is called on the way is in "calls"; "first" says    *)
(* that it is called before the metadata are read.                         *)

Change(feature, calls, first) ==
    [kind |-> "room", feature |-> feature, calls |-> calls, first |-> first]
Simply(feature) == Change(feature, "nothing", FALSE)

UpdateWaitingRoomMessage == Simply("waiting")
ChangeVisibility == Simply("visibility")
UpdateExternalMedia == Simply("media")
UpdateExternalDisplay == Simply("display")
ChangeSharedNotepadStatus == Simply("notepad")
ManageActivation == Simply("polls")
UpdateOfficeFile == Simply("whiteboard")
ChatTranslationConfigure == Simply("chatTranslation")
ChatEndTranslation == Simply("chatTranslation")
AITextChatConfigure == Simply("aiTextChat")
EndAITextChat == Simply("aiTextChat")
BroadcastEndTranscription == Simply("transcription")
TranscriptionConfigure == Change("transcription", "agent", FALSE)
EndTranscription == Change("transcription", "agent", TRUE)
AIMeetingSummarizationConfig == Change("summary", "agent", FALSE)
EndEndAIMeetingSummarization == Change("summary", "agent", FALSE)
EnableRoomSipDialIn == Change("sip", "sip", FALSE)
CreateIngress == Change("ingress", "ingress", FALSE)
LockDefault == Simply("lock")

Changes == {UpdateWaitingRoomMessage, ChangeVisibility, UpdateExternalMedia,
            UpdateExternalDisplay, ChangeSharedNotepadStatus, ManageActivation,
            UpdateOfficeFile, ChatTranslationConfigure, ChatEndTranslation,
            AITextChatConfigure, EndAITextChat, BroadcastEndTranscription,
            TranscriptionConfigure, EndTranscription, AIMeetingSummarizationConfig,
            EndEndAIMeetingSummarization, EnableRoomSipDialIn, CreateIngress}

Feature == {c.feature : c \in Changes} \cup {LockDefault.feature}

(* Requests about a user, and those about all of them.                     *)
About(u, field, value) == [kind |-> "user", user |-> u, field |-> field, value |-> value]

RaisedHand(u) == About(u, "raised", TRUE)
LowerHand(u) == About(u, "raised", FALSE)
ApproveUser(u) == About(u, "waiting", FALSE)
LockUser(u, lock) == About(u, "locked", lock)

UserChanges == (UNION {{RaisedHand(u), LowerHand(u), ApproveUser(u)} : u \in Member})
                 \cup {LockUser(u, lock) : u \in Member \ Admin, lock \in BOOLEAN}

Promote(u) == [kind |-> "promote", user |-> u]
Demote(u, by) == [kind |-> "demote", user |-> u, by |-> by]
LockAll(by) == [kind |-> "lockall", by |-> by]
Join(u) == [kind |-> "join", user |-> u]

Requests == Changes \cup UserChanges
              \cup {Promote(u) : u \in Member} \cup {Demote(u, by) : u \in Member, by \in Admin}
              \cup {LockAll(by) : by \in Admin} \cup {Join(u) : u \in Member}

(* What a request may write.                                               *)
Writes(q) == CASE q.kind = "room" -> {TheRoom}
               [] q.kind = "user" -> {q.user}
               [] q.kind = "demote" -> {q.user, q.by}
               [] q.kind = "promote" -> Member
               [] q.kind = "lockall" -> {TheRoom} \cup Member
               [] q.kind = "join" -> {q.user}

-----------------------------------------------------------------------------
NoCopy == [f \in Feature |-> NoWorker]
NoFlags == [presenter |-> FALSE, raised |-> FALSE, locked |-> FALSE, waiting |-> FALSE]
Free == [at |-> "free", req |-> ManageActivation, copy |-> NoCopy, flags |-> NoFlags, todo |-> {},
         old |-> {}]

(* A room with one presenter; who is not in the bucket may join.           *)
RequestsInit ==
    /\ meta = NoCopy
    /\ \E p \in Admin, absent \in SUBSET Member :
          /\ p \notin absent
          /\ Cardinality(absent) <= 1
          /\ member = [u \in Member |->
                [online |-> u \notin absent, presenter |-> u = p,
                 meta |-> [NoFlags EXCEPT !.presenter = (u = p),
                                          !.waiting = u \notin absent \cup Admin]]]
    /\ work = [w \in Worker |-> Free]
    /\ disturbed = {}
    /\ last = NoCopy
    /\ ingress = {}
    /\ rules = {}
    /\ pastMeta = {}
    /\ pastMember = [u \in Member |-> {}]

(* What a read may be answered with: the server's copy, which may lag.     *)
Seen == {meta} \cup pastMeta
SeenOf(u) == {member[u]} \cup pastMember[u]

(* What is read from a copy that lags is put back as it was.               *)
Misled(obj, lags) == disturbed' = IF lags THEN disturbed \cup {obj} ELSE disturbed

Online == {u \in Member : member[u].online}
Busy == {w \in Worker : work[w].at \notin {"free", "over"}}

Start(w, q) ==
    /\ work[w].at = "free"
    /\ q.kind = "join" => ~member[q.user].online
    /\ q.kind \in {"user", "promote", "demote"} => q.user \in Online
    /\ q.kind \in {"demote", "lockall"} => q.by \in Online
    /\ work' = [work EXCEPT ![w] = [Free EXCEPT !.at = "read", !.req = q]]
    /\ disturbed' = disturbed \cup (Writes(q) \cap UNION {Writes(work[v].req) : v \in Busy})
    /\ UNCHANGED <<meta, member, last, ingress, rules>>

At(w, at, kind) == work[w].at = at /\ work[w].req.kind = kind

Put(w, fields) == work' = [work EXCEPT ![w] = fields]
Over(w) == Put(w, [Free EXCEPT !.at = "over", !.req = work[w].req])

-----------------------------------------------------------------------------
(* Changes of the room's metadata.                                         *)

(* Variant with a bug: a second ingress or dispatch rule may be asked for. *)
RefusedNever(w, seen) == FALSE

Refused(w, seen) ==
    LET f == work[w].req.feature IN f \in {"sip", "ingress"} /\ seen[f] # NoWorker

(* The agents answer, before anything is read.                             *)
CallFirst(w) ==
    /\ At(w, "read", "room")
    /\ work[w].req.first
    /\ Put(w, [work[w] EXCEPT !.req.first = FALSE, !.req.calls = "nothing"])
    /\ UNCHANGED <<meta, member, disturbed, last, ingress, rules>>

(* GetRoomMetadataStruct, and the checks on what was read.                 *)
ReadRoom(w) ==
    /\ At(w, "read", "room")
    /\ ~work[w].req.first
    /\ \E seen \in Seen :
          IF Refused(w, seen) THEN Over(w) /\ UNCHANGED disturbed
          ELSE /\ Put(w, [work[w] EXCEPT !.copy = seen,
                          !.at = IF work[w].req.calls = "nothing" THEN "put" ELSE "call"])
               /\ Misled(TheRoom, seen # meta)
    /\ UNCHANGED <<meta, member, last, ingress, rules>>

(* The agent or LiveKit is called; an ingress has to be added as a user.   *)
LivekitMakes(w) ==
    LET calls == work[w].req.calls IN
    /\ ingress' = IF calls = "ingress" THEN ingress \cup {w} ELSE ingress
    /\ rules' = IF calls = "sip" THEN rules \cup {w} ELSE rules

CallOut(w) ==
    /\ At(w, "call", "room")
    /\ Put(w, [work[w] EXCEPT !.at = "put"])
    /\ LivekitMakes(w)
    /\ UNCHANGED <<meta, member, disturbed, last>>

(* The metadata cannot be read; the call fails, or its answer is lost; or  *)
(* what was made cannot be put down: the bucket does not take the          *)
(* ingress's user, or the metadata.                                        *)
RoomReadFails(w) ==
    /\ At(w, "read", "room")
    /\ ~work[w].req.first
    /\ Over(w)
    /\ UNCHANGED <<meta, member, disturbed, last, ingress, rules>>

CallFails(w) ==
    /\ At(w, "call", "room")
    /\ Over(w)
    /\ \/ UNCHANGED <<disturbed, ingress, rules>>
       \/ LivekitMakes(w) /\ disturbed' = disturbed \cup {TheRoom}
    /\ UNCHANGED <<meta, member, last>>

RoomPutFails(w) ==
    /\ At(w, "put", "room")
    /\ Over(w)
    /\ disturbed' = IF work[w].req.calls = "nothing" THEN disturbed
                    ELSE disturbed \cup {TheRoom}
    /\ UNCHANGED <<meta, member, last, ingress, rules>>

(* UpdateAndBroadcastRoomMetadata.                                         *)
PutRoom(w) ==
    LET f == work[w].req.feature IN
    /\ At(w, "put", "room")
    /\ meta' = [work[w].copy EXCEPT ![f] = w]
    /\ last' = [last EXCEPT ![f] = w]
    /\ Over(w)
    /\ UNCHANGED <<member, disturbed, ingress, rules>>

-----------------------------------------------------------------------------
(* Changes of a user's metadata.                                           *)

ReadUser(w) ==
    /\ At(w, "read", "user")
    /\ \E seen \in SeenOf(work[w].req.user) :
          /\ Put(w, [work[w] EXCEPT !.at = "put", !.flags = seen.meta])
          /\ Misled(work[w].req.user, seen.meta # member[work[w].req.user].meta)
    /\ UNCHANGED <<meta, member, last, ingress, rules>>

(* The metadata cannot be read, or put.                                    *)
UserFails(w) ==
    /\ At(w, "read", "user") \/ At(w, "put", "user")
    /\ Over(w)
    /\ UNCHANGED <<meta, member, disturbed, last, ingress, rules>>

(* UpdateAndBroadcastUserMetadata.                                         *)
PutUser(w) ==
    LET q == work[w].req IN
    /\ At(w, "put", "user")
    /\ member' = [member EXCEPT ![q.user].meta = [work[w].flags EXCEPT ![q.field] = q.value]]
    /\ Over(w)
    /\ UNCHANGED <<meta, disturbed, last, ingress, rules>>

-----------------------------------------------------------------------------
(* SwitchPresenter: updatePresenterStatus for the new presenter, then for  *)
(* the old one.  "todo" holds the users that are left, with the flag.      *)

Switching == {"promote", "demote"}

(* Who is presenter afterwards: a presenter who is demoted hands over to   *)
(* the admin who asks for it.                                              *)
NewPresenter(q) == IF q.kind = "demote" THEN q.by ELSE q.user

(* FindCurrentPresenter takes any online user whose copy says presenter;   *)
(* it finds nobody, or fails, and then nobody is demoted.                  *)
Presenters == {u \in Online : member[u].presenter}
FindCurrentPresenter == {u \in Online : \E seen \in SeenOf(u) : seen.presenter}
FindsNobody == \A u \in Online : \E seen \in SeenOf(u) : ~seen.presenter

(* Variant with a bug: the old presenter is demoted first.                 *)
SwitchStartDemoteFirst(w) ==
    LET q == work[w].req IN
    /\ work[w].at = "read"
    /\ q.kind \in Switching
    /\ \E old \in IF q.kind = "demote" THEN {q.user}
                  ELSE FindCurrentPresenter \cup {q.user} :
          Put(w, [work[w] EXCEPT !.at = IF old = NewPresenter(q) THEN "flag" ELSE "unflag",
                                 !.todo = {NewPresenter(q)}, !.old = {old}])
    /\ UNCHANGED <<meta, member, disturbed, last, ingress, rules>>

InTurn == {"flagged", "promoted", "unflag", "unflagged", "demoted"}

SwitchStart(w) ==
    LET q == work[w].req IN
    /\ work[w].at = "read"
    /\ q.kind \in Switching
    /\ \E old \in IF q.kind = "demote" THEN {q.user}
                  ELSE FindCurrentPresenter \cup {q.user} :
          Put(w, [work[w] EXCEPT !.at = "flag", !.todo = {NewPresenter(q)},
                                 !.old = {old} \ {NewPresenter(q)}])
    /\ UNCHANGED <<meta, member, disturbed, last, ingress, rules>>

(* updatePresenterStatus, its first part: the key is_presenter, ...        *)
PutFlag(w) ==
    \E u \in IF work[w].at = "flag" THEN work[w].todo ELSE work[w].old :
        /\ work[w].at \in {"flag", "unflag"}
        /\ work[w].req.kind \in Switching
        /\ member' = [member EXCEPT ![u].presenter = (work[w].at = "flag")]
        /\ Put(w, [work[w] EXCEPT !.at = IF @ = "flag" THEN "flagged" ELSE "unflagged"])
        /\ UNCHANGED <<meta, disturbed, last, ingress, rules>>

(* ... then the metadata are read ...                                      *)
ReadPresenter(w) ==
    \E u \in IF work[w].at = "flagged" THEN work[w].todo ELSE work[w].old :
        /\ work[w].at \in {"flagged", "unflagged"}
        /\ \E seen \in SeenOf(u) :
              Put(w, [work[w] EXCEPT !.at = IF @ = "flagged" THEN "promoted" ELSE "demoted",
                                     !.flags = seen.meta])
        /\ UNCHANGED <<meta, member, disturbed, last, ingress, rules>>

(* Variant with a bug: the metadata keep the flag they had.                *)
PutPresenterKeeps(w) ==
    /\ work[w].at \in {"promoted", "demoted"}
    /\ UNCHANGED member
    /\ IF work[w].at = "promoted" /\ work[w].old # {}
       THEN Put(w, [work[w] EXCEPT !.at = "unflag"])
       ELSE Over(w)
    /\ UNCHANGED <<meta, disturbed, last, ingress, rules>>

(* ... and put back with it; the old presenter's turn comes next.          *)
PutPresenter(w) ==
    \E u \in IF work[w].at = "promoted" THEN work[w].todo ELSE work[w].old :
        /\ work[w].at \in {"promoted", "demoted"}
        /\ member' = [member EXCEPT ![u].meta =
                         [work[w].flags EXCEPT !.presenter = (work[w].at = "promoted")]]
        /\ IF work[w].at = "promoted" /\ work[w].old # {}
           THEN Put(w, [work[w] EXCEPT !.at = "unflag"])
           ELSE Over(w)
        /\ UNCHANGED <<meta, disturbed, last, ingress, rules>>

(* The key cannot be put, or the metadata cannot be read or put: a         *)
(* promotion that fails ends the request, and so does a demotion.          *)
SwitchFails(w) ==
    /\ work[w].at \in {"flag"} \cup InTurn
    /\ disturbed' = disturbed \cup
          CASE work[w].at \in {"flagged", "promoted"} -> work[w].todo
            [] work[w].at \in {"unflagged", "demoted"} -> work[w].old
            [] OTHER -> {}
    /\ Over(w)
    /\ UNCHANGED <<meta, member, last, ingress, rules>>

-----------------------------------------------------------------------------
(* UpdateUserLockSettings for all: the default of the room, then every     *)
(* online user but the one who asks and the admins.                        *)

LockReadRoom(w) ==
    /\ At(w, "read", "lockall")
    /\ \E seen \in Seen : /\ Put(w, [work[w] EXCEPT !.at = "put", !.copy = seen])
                         /\ Misled(TheRoom, seen # meta)
    /\ UNCHANGED <<meta, member, last, ingress, rules>>

(* The default cannot be read or put, or one user's metadata cannot be:    *)
(* the request goes on with the users, or the next one.                    *)
LockSkips(w) ==
    /\ At(w, "read", "lockall") \/ At(w, "put", "lockall") \/ At(w, "one", "lockall")
    /\ Put(w, [work[w] EXCEPT !.at = IF @ = "one" THEN "each" ELSE "list"])
    /\ UNCHANGED <<meta, member, disturbed, last, ingress, rules>>

LockPutRoom(w) ==
    /\ At(w, "put", "lockall")
    /\ meta' = [work[w].copy EXCEPT ![LockDefault.feature] = w]
    /\ last' = [last EXCEPT ![LockDefault.feature] = w]
    /\ Put(w, [work[w] EXCEPT !.at = "list"])
    /\ UNCHANGED <<member, disturbed, ingress, rules>>

LockList(w) ==
    /\ At(w, "list", "lockall")
    /\ Put(w, [work[w] EXCEPT !.at = "each", !.todo = Online \ {work[w].req.by}])
    /\ UNCHANGED <<meta, member, disturbed, last, ingress, rules>>

LockRead(w) ==
    /\ At(w, "each", "lockall")
    /\ IF work[w].todo \subseteq Admin THEN Over(w)
            /\ UNCHANGED disturbed
       ELSE \E u \in work[w].todo \ Admin : \E seen \in SeenOf(u) :
               /\ Put(w, [work[w] EXCEPT !.at = "one", !.todo = @ \ {u}, !.old = {u},
                                         !.flags = seen.meta])
               /\ Misled(u, seen.meta # member[u].meta)
    /\ UNCHANGED <<meta, member, last, ingress, rules>>

LockPut(w) ==
    /\ At(w, "one", "lockall")
    /\ member' = [u \in Member |->
          IF u \in work[w].old
          THEN [member[u] EXCEPT !.meta = [work[w].flags EXCEPT !.locked = TRUE]]
          ELSE member[u]]
    /\ Put(w, [work[w] EXCEPT !.at = "each"])
    /\ UNCHANGED <<meta, disturbed, last, ingress, rules>>

-----------------------------------------------------------------------------
(* GetPNMJoinToken: the room's metadata are read ...                       *)
JoinRead(w) ==
    /\ At(w, "read", "join")
    /\ \E seen \in Seen : Put(w, [work[w] EXCEPT !.at = "assign", !.copy = seen])
    /\ UNCHANGED <<meta, member, disturbed, last, ingress, rules>>

(* ... an admin becomes presenter when there is none (CreateNewPresenter), *)
(* another user gets the room's locks (AssignLockSettingsToUser) ...       *)
JoinAssign(w) ==
    LET u == work[w].req.user IN
    /\ At(w, "assign", "join")
    /\ \E isPresenter \in BOOLEAN :
          /\ isPresenter => u \in Admin /\ FindsNobody
          /\ ~isPresenter => u \notin Admin \/ FindCurrentPresenter # {}
          /\ Put(w, [work[w] EXCEPT !.at = "add",
                       !.flags = [NoFlags EXCEPT
                           !.presenter = isPresenter,
                           !.locked = u \notin Admin /\ work[w].copy["lock"] # NoWorker,
                           !.waiting = u \notin Admin]])
    /\ UNCHANGED <<meta, member, disturbed, last, ingress, rules>>

(* ... and AddUser puts all of it; the user connects.                      *)
JoinAdd(w) ==
    /\ At(w, "add", "join")
    /\ member' = [member EXCEPT ![work[w].req.user] =
                     [online |-> TRUE, presenter |-> work[w].flags.presenter,
                      meta |-> work[w].flags]]
    /\ Over(w)
    /\ UNCHANGED <<meta, disturbed, last, ingress, rules>>

(* The room or the users cannot be read, or the user cannot be added.      *)
JoinFails(w) ==
    /\ At(w, "read", "join") \/ At(w, "assign", "join") \/ At(w, "add", "join")
    /\ Over(w)
    /\ UNCHANGED <<meta, member, disturbed, last, ingress, rules>>

-----------------------------------------------------------------------------
RequestsStep(w) ==
    \/ \E q \in Requests : Start(w, q)
    \/ CallFirst(w) \/ ReadRoom(w) \/ RoomReadFails(w) \/ CallOut(w) \/ CallFails(w)
    \/ RoomPutFails(w) \/ PutRoom(w)
    \/ ReadUser(w) \/ UserFails(w) \/ PutUser(w)
    \/ SwitchStart(w) \/ PutFlag(w) \/ ReadPresenter(w) \/ PutPresenter(w)
    \/ SwitchFails(w)
    \/ LockReadRoom(w) \/ LockPutRoom(w) \/ LockSkips(w) \/ LockList(w) \/ LockRead(w)
    \/ LockPut(w)
    \/ JoinRead(w) \/ JoinAssign(w) \/ JoinAdd(w) \/ JoinFails(w)

(* What a put replaces stays in the copies that lag.                       *)
CopiesLag ==
    /\ pastMeta' = IF meta' = meta THEN pastMeta ELSE pastMeta \cup {meta}
    /\ pastMember' = [u \in Member |->
          IF member'[u] # member[u] /\ member[u].online THEN pastMember[u] \cup {member[u]}
          ELSE pastMember[u]]

RequestsNext == (\E w \in Worker : RequestsStep(w)) /\ CopiesLag

RequestsSpec == RequestsInit /\ [][RequestsNext]_requestVars

-----------------------------------------------------------------------------
(* Every variable has its type.                                            *)
Flags == [presenter : BOOLEAN, raised : BOOLEAN, locked : BOOLEAN, waiting : BOOLEAN]
Copy == [Feature -> Worker \cup {NoWorker}]
Request ==
    [kind : {"room"}, feature : Feature, calls : {"nothing", "agent", "sip", "ingress"},
     first : BOOLEAN]
      \cup [kind : {"user"}, user : Member, field : {"raised", "waiting", "locked"},
            value : BOOLEAN]
      \cup [kind : {"promote", "join"}, user : Member]
      \cup [kind : {"demote"}, user : Member, by : Admin]
      \cup [kind : {"lockall"}, by : Admin]
WorkerState ==
    [at : {"free", "over", "read", "call", "put", "flag", "flagged", "promoted", "unflag",
           "unflagged", "demoted", "list", "each", "one", "assign", "add"},
     req : Request, copy : Copy, flags : Flags, todo : SUBSET Member, old : SUBSET Member]

MemberKeys == [online : BOOLEAN, presenter : BOOLEAN, meta : Flags]

RequestsTypeOK ==
    /\ meta \in Copy
    /\ member \in [Member -> MemberKeys]
    /\ work \in [Worker -> WorkerState]
    /\ disturbed \subseteq {TheRoom} \cup Member
    /\ last \in Copy
    /\ ingress \subseteq Worker
    /\ rules \subseteq Worker

Idle(obj) == \A w \in Busy : obj \notin Writes(work[w].req)

PastTypeOK ==
    /\ pastMeta \subseteq Copy
    /\ pastMember \in [Member -> SUBSET MemberKeys]

(* Whatever changes are asked, in any order, the metadata hold the last    *)
(* change of every feature, and no second ingress or dispatch rule is made.*)
(* A change is lost only if two changes of the room overlapped, if one was *)
(* left half done, or if one put back what it had read from a server's     *)
(* copy that lagged behind an earlier change.                              *)
RoomChangesStick ==
    TheRoom \notin disturbed =>
        /\ Idle(TheRoom) => meta = last
        /\ \A v, w \in ingress : v = w
        /\ \A v, w \in rules : v = w

(* A user's key is_presenter and the flag in the metadata, which are       *)
(* written one after the other, agree again when nobody is at it, unless   *)
(* requests about that very user overlapped, one was left half done, or    *)
(* one put back metadata from a copy that lagged.                          *)
FlagsAgree ==
    \A u \in Member \ disturbed :
        Idle(u) => member[u].presenter = member[u].meta.presenter

(* One switch at a time, whatever else is under way and whoever a lagging  *)
(* copy takes for the presenter, never leaves the room without a presenter:*)
(* the new one is promoted before the old is demoted; unless a user joins  *)
(* twice at the same time, and what is put for the second join takes the   *)
(* presenter's key away again.                                             *)
Switches == {w \in Worker : work[w].at # "free" /\ work[w].req.kind \in Switching}
Joins(u) == {w \in Worker : work[w].at # "free" /\ work[w].req = Join(u)}
OneSwitch == /\ \A v, w \in Switches : v = w
             /\ \A u \in Member : \A v, w \in Joins(u) : v = w

OneSwitchKeepsPresenter == OneSwitch => Presenters # {}

(* Refuted: the room is never left without a presenter                     *)
(* (models/user_presenter.go:36-38: "guaranteeing the room is never left   *)
(* without a presenter").                                                  *)
NeverWithoutPresenter == Presenters # {}

(* Refuted: no second ingress is created (models/room_features.go:102:     *)
(* "multiple ingress creation request not allowed").                       *)
OneIngress == Cardinality(ingress) <= 1

(* What these rest on.  A request keeps to what it writes, and a switch is *)
(* about one new presenter and at most one old one.                        *)
KeepsToIts(w) ==
    LET q == work[w].req IN
    /\ q.kind = "room" /\ q.calls \in {"sip", "ingress"} => q.feature = q.calls
    /\ work[w].at = "read" /\ q.kind \in Switching => NewPresenter(q) \in Online
    /\ work[w].at \in {"flag"} \cup InTurn =>
         /\ q.kind \in Switching
         /\ work[w].todo \cup work[w].old \subseteq Writes(q)
         /\ \E x \in Online : work[w].todo = {x} /\ x \notin work[w].old
         /\ \A x, y \in work[w].old : x = y

(* Until requests about an object overlapped, one at most writes it.       *)
Alone(obj) ==
    \A v, w \in Busy : obj \in Writes(work[v].req) \cap Writes(work[w].req) => v = w

(* What LiveKit was asked for is put down, or about to be.                 *)
IsPutDown(made, f) ==
    /\ \A v, w \in made : v = w
    /\ \A w \in made : \/ meta[f] # NoWorker
                       \/ At(w, "put", "room") /\ work[w].req.calls = f

RoomIsOwned ==
    TheRoom \notin disturbed =>
        /\ Alone(TheRoom)
        /\ meta = last
        /\ \A w \in Worker :
             /\ work[w].at \in {"call", "put"} /\ work[w].req.kind \in {"room", "lockall"} =>
                  work[w].copy = meta
             /\ At(w, "call", "room") => ~Refused(w, meta)
        /\ IsPutDown(ingress, "ingress")
        /\ IsPutDown(rules, "sip")

(* Between a user's key and the flag in the metadata stands one switch.    *)
Raises(w, u) == work[w].at \in {"flagged", "promoted"} /\ u \in work[w].todo
Lowers(w, u) == work[w].at \in {"unflagged", "demoted"} /\ u \in work[w].old

Copies(w, u) == \/ At(w, "put", "user") /\ work[w].req.user = u
                \/ At(w, "one", "lockall") /\ u \in work[w].old

UserIsOwned(u) ==
    /\ Alone(u)
    /\ \/ member[u].presenter = member[u].meta.presenter
       \/ \E w \in Worker : Raises(w, u) \/ Lowers(w, u)
    /\ \A w \in Worker :
         /\ Raises(w, u) => member[u].presenter
         /\ Lowers(w, u) => ~member[u].presenter
         /\ Copies(w, u) => work[w].flags.presenter = member[u].meta.presenter

(* The one switch keeps the new presenter; who joins is not online yet.    *)
PresenterIsKept ==
    OneSwitch =>
        /\ Presenters # {}
        /\ \A w \in Switches : work[w].at \in InTurn => work[w].todo \subseteq Presenters
        /\ \A w \in Busy : work[w].req.kind = "join" => work[w].req.user \notin Online

RequestsInvariant ==
    /\ RequestsTypeOK
    /\ PastTypeOK
    /\ \A w \in Worker : KeepsToIts(w)
    /\ RoomIsOwned
    /\ \A u \in Member \ disturbed : UserIsOwned(u)
    /\ PresenterIsKept
=============================================================================
