------------------------- MODULE BreakoutRoomsProofs -------------------------
(***************************************************************************)
(* Theorems about breakout rooms, for every number of them, of requests    *)
(* handled at the same time and of parallel workers, and from them what    *)
(* all the room's services keep to together.                               *)
(*                                                                         *)
(* The component's variables are the cells: c1 is each room's status, c2   *)
(* the parent's flag, c3 the hash, c4 the duration checker, c5 what was    *)
(* granted, c6 the time, c7 the workers and c8 what overlapped or went     *)
(* wrong.                                                                  *)
(***************************************************************************)
EXTENDS RoomServicesProofs

-----------------------------------------------------------------------------
(* What may excuse a breakout room from following its parent.              *)
Excuses == B!Writing \cup {"twice", "fault", "books", "clock"}

(* Who the workers are.                                                    *)
LEMMA BreakoutWorkers ==
  /\ Handler \subseteq B!Worker /\ Breakout \subseteq B!Room /\ "parent" \in B!Room
  /\ "parent" \notin Breakout
  /\ \A r \in B!Room : B!Cleanup(r) \in B!Worker /\ B!Cleanup(r) \notin Handler
  /\ \A b \in Breakout : B!Started(b) \in B!Worker /\ B!Started(b) \notin Handler
  /\ \A q, r \in B!Room : B!Cleanup(q) = B!Cleanup(r) => q = r
  /\ \A b, c \in Breakout : B!Started(b) = B!Started(c) => b = c
  /\ \A b \in Breakout, r \in B!Room : B!Started(b) # B!Cleanup(r)
  /\ \A r \in B!Room : r \in Breakout \/ r = "parent"
BY BreakoutsAssumption DEF BreakoutsAssumption, B!Worker, B!Room, B!Started, B!Cleanup, B!Parent

LEMMA WorkFields ==
  ASSUME NEW f \in B!Work
  PROVE  /\ f.at \in B!Steps /\ f.room \in B!Room /\ f.todo \subseteq Breakout
         /\ f.made \in BOOLEAN /\ f.rec \in B!Record /\ f.had \in Nat
         /\ f.job \in B!Writing \cup {"none", "end"}
BY DEF B!Work

LEMMA WorkMade ==
  ASSUME NEW at \in B!Steps, NEW job \in B!Writing \cup {"none", "end"}, NEW room \in B!Room,
         NEW todo \in SUBSET Breakout, NEW made \in BOOLEAN, NEW rec \in B!Record, NEW had \in Nat
  PROVE  [at |-> at, job |-> job, room |-> room, todo |-> todo, made |-> made, rec |-> rec,
          had |-> had] \in B!Work
BY DEF B!Work

LEMMA IdleIsWork ==
  /\ B!NoRecord \in B!Record /\ B!Idle \in B!Work /\ B!Over \in B!Work
  /\ B!Idle.at = "idle" /\ B!Over.at = "over" /\ B!NoRecord.there = FALSE
<1>1. B!NoRecord \in B!Record /\ B!NoRecord.there = FALSE
  BY DEF B!NoRecord, B!Record
<1>2. B!Idle \in B!Work /\ B!Over \in B!Work /\ B!Idle.at = "idle" /\ B!Over.at = "over"
  BY <1>1, BreakoutWorkers DEF B!Idle, B!Over, B!Work, B!Steps, B!Parent
<1> QED
  BY <1>1, <1>2

WorkersStay(w) == \A v \in B!Worker : v # w => c7'[v] = c7[v]
Noted == c8 \subseteq c8' /\ c8' \subseteq Excuses /\ B!OverlapsAreMixed'

(* Whatever the workers become, their overlaps are noted, and what goes    *)
(* wrong.                                                                  *)
LEMMA WrongsNoted ==
  ASSUME c8 \subseteq Excuses, NEW wk, NEW wrongs \in SUBSET Excuses, B!Notes(wk, wrongs)
  PROVE  c7' = wk /\ Noted /\ wrongs \subseteq c8'
<1>1. c7' = wk /\ c8' = c8 \cup B!Overlaps(wk) \cup wrongs
  BY DEF B!Notes
<1>2. B!Overlaps(wk) \subseteq Excuses
  BY DEF B!Overlaps, Excuses
<1>3. ASSUME NEW v \in B!Worker, NEW w \in B!Worker
      PROVE  /\ B!Does(w, "end")' /\ B!IsBusy(v)' /\ c7'[v].job \in B!Writing => c7'[v].job \in c8'
             /\ B!Timing(v)' /\ B!Timing(w)' /\ v # w /\ c7'[v].room = c7'[w].room =>
                   "twice" \in c8'
  <2>1. ASSUME B!Does(w, "end")', B!IsBusy(v)', c7'[v].job \in B!Writing
        PROVE  c7'[v].job \in B!Overlaps(wk)
    BY <1>1, <2>1 DEF B!Does, B!IsBusy, B!Overlaps, B!Busy
  <2>2. ASSUME B!Timing(v)', B!Timing(w)', v # w, c7'[v].room = c7'[w].room
        PROVE  "twice" \in B!Overlaps(wk)
    <3>1. v \in B!Busy(wk) /\ w \in B!Busy(wk) \ {v}
      BY <1>1, <2>2 DEF B!Timing, B!Does, B!IsBusy, B!Busy
    <3>2. wk[v].room = wk[w].room /\ {wk[v].job, wk[w].job} \subseteq {"increase", "start"}
      BY <1>1, <2>2 DEF B!Timing, B!Does
    <3> QED
      BY <3>1, <3>2 DEF B!Overlaps
  <2> QED
    BY <1>1, <2>1, <2>2
<1>4. B!OverlapsAreMixed'
  BY <1>3 DEF B!OverlapsAreMixed
<1> QED
  BY <1>1, <1>2, <1>4 DEF Noted

LEMMA OverlapsNoted ==
  ASSUME c8 \subseteq Excuses, NEW wk, B!Becomes(wk)
  PROVE  c7' = wk /\ Noted
BY WrongsNoted DEF B!Becomes

LEMMA WorkerErrs ==
  ASSUME c8 \subseteq Excuses, c7 \in [B!Worker -> B!Work], NEW w \in B!Worker, NEW f \in B!Work,
         NEW wrong \in Excuses, B!Wrong(w, f, wrong)
  PROVE  /\ c7' \in [B!Worker -> B!Work] /\ WorkersStay(w) /\ c7'[w] = f /\ Noted
         /\ wrong \in c8'
<1>1. {wrong} \in SUBSET Excuses /\ B!Notes([c7 EXCEPT ![w] = f], {wrong})
  BY DEF B!Wrong
<1>2. c7' = [c7 EXCEPT ![w] = f] /\ Noted /\ {wrong} \subseteq c8'
  BY <1>1, WrongsNoted
<1> QED
  BY <1>2 DEF WorkersStay

LEMMA WorkerPuts ==
  ASSUME c8 \subseteq Excuses, c7 \in [B!Worker -> B!Work], NEW w \in B!Worker, NEW f \in B!Work,
         B!Put(w, f)
  PROVE  c7' \in [B!Worker -> B!Work] /\ WorkersStay(w) /\ c7'[w] = f /\ Noted
<1>1. c7' = [c7 EXCEPT ![w] = f] /\ Noted
  BY OverlapsNoted DEF B!Put
<1> QED
  BY <1>1 DEF WorkersStay

Moved(w, at) ==
    /\ WorkersStay(w) /\ c7'[w].at = at
    /\ c7'[w].job = c7[w].job /\ c7'[w].room = c7[w].room /\ c7'[w].todo = c7[w].todo
    /\ c7'[w].made = c7[w].made /\ c7'[w].rec = c7[w].rec /\ c7'[w].had = c7[w].had

LEMMA WorkerMoves ==
  ASSUME c8 \subseteq Excuses, c7 \in [B!Worker -> B!Work], NEW w \in B!Worker,
         NEW at \in B!Steps, B!Goto(w, at)
  PROVE  c7' \in [B!Worker -> B!Work] /\ Moved(w, at) /\ Noted
<1> DEFINE f == [c7[w] EXCEPT !.at = at]
<1>1. c7[w] \in B!Work
  OBVIOUS
<1>2. f \in B!Work
  BY <1>1 DEF B!Work
<1>3. /\ f.at = at /\ f.job = c7[w].job /\ f.room = c7[w].room /\ f.todo = c7[w].todo
      /\ f.made = c7[w].made /\ f.rec = c7[w].rec /\ f.had = c7[w].had
  BY <1>1 DEF B!Work
<1>4. B!Put(w, f)
  BY DEF B!Goto
<1> HIDE DEF f
<1>5. c7' \in [B!Worker -> B!Work] /\ WorkersStay(w) /\ c7'[w] = f /\ Noted
  BY <1>2, <1>4, WorkerPuts
<1> QED
  BY <1>3, <1>5 DEF Moved

LEMMA WorkerErrsOn ==
  ASSUME c8 \subseteq Excuses, c7 \in [B!Worker -> B!Work], NEW w \in B!Worker,
         NEW at \in B!Steps, NEW wrong \in Excuses, B!Wrong(w, [c7[w] EXCEPT !.at = at], wrong)
  PROVE  c7' \in [B!Worker -> B!Work] /\ Moved(w, at) /\ Noted /\ wrong \in c8'
<1> DEFINE f == [c7[w] EXCEPT !.at = at]
<1>1. c7[w] \in B!Work
  OBVIOUS
<1>2. f \in B!Work
  BY <1>1 DEF B!Work
<1>3. /\ f.at = at /\ f.job = c7[w].job /\ f.room = c7[w].room /\ f.todo = c7[w].todo
      /\ f.made = c7[w].made /\ f.rec = c7[w].rec /\ f.had = c7[w].had
  BY <1>1 DEF B!Work
<1> HIDE DEF f
<1>5. c7' \in [B!Worker -> B!Work] /\ WorkersStay(w) /\ c7'[w] = f /\ Noted /\ wrong \in c8'
  BY <1>2, WorkerErrs DEF f
<1> QED
  BY <1>3, <1>5 DEF Moved

(* What the actions do.  First a request that creates rooms.               *)
Rests(w) == WorkersStay(w) /\ c7'[w].at \in {"idle", "over"}
StatusStays(r) == \A q \in B!Room : q # r => c1'[q] = c1[q]
CheckerStays(r) == \A q \in B!Room : q # r => c4'[q] = c4[q]
GrantedStays(r) == \A q \in B!Room : q # r => c5'[q] = c5[q]
HashStays(b) == \A c \in Breakout : c # b => c3'[c] = c3[c]

CreateBegun(w) ==
    /\ w \in Handler /\ c7[w].at = "idle" /\ c1["parent"] # "off"
    /\ WorkersStay(w)
    /\ c7'[w].at = "next" /\ c7'[w].job = "create" /\ ~c7'[w].made
    /\ UNCHANGED <<c1, c2, c3, c4, c5, c6>>

RoomMade(w, b) ==
    /\ w \in Handler /\ B!At(w, "create", "next")
    /\ c1[b] # "ending" /\ StatusStays(b)
    /\ c1'[b] = IF c1[b] = "off" THEN "created" ELSE c1[b]
    /\ GrantedStays(b) /\ (c1[b] # "off" => c5'[b] = c5[b])
    /\ WorkersStay(w) /\ c7'[w].at = "insert" /\ c7'[w].job = "create" /\ c7'[w].room = b
    /\ c7'[w].made = c7[w].made
    /\ UNCHANGED <<c2, c3, c4, c6>>

NotMade(w) ==
    /\ w \in Handler
    /\ B!At(w, "create", "next") \/ (B!At(w, "create", "insert") /\ "fault" \in c8')
    /\ WorkersStay(w) /\ c7'[w].at = "next" /\ c7'[w].job = "create"
    /\ c7'[w].made = c7[w].made
    /\ UNCHANGED <<c1, c2, c3, c4, c5, c6>>

Inserted(w) ==
    /\ w \in Handler /\ B!At(w, "create", "insert")
    /\ HashStays(c7[w].room) /\ (c7[w].room \in Breakout => c3'[c7[w].room].there)
    /\ WorkersStay(w) /\ c7'[w].at = "next" /\ c7'[w].job = "create" /\ c7'[w].made
    /\ UNCHANGED <<c1, c2, c4, c5, c6>>

Created(w) ==
    /\ w \in Handler /\ B!At(w, "create", "next") /\ Rests(w)
    /\ c2 => c2'
    /\ c7[w].made /\ c1["parent"] # "off" => c2'
    /\ c2' => c2 \/ c7[w].made
    /\ UNCHANGED <<c1, c3, c4, c5, c6>>

LEMMA CreateBegins ==
  ASSUME B!BreakoutTypeOK, NEW w \in Handler, NEW rooms \in SUBSET Breakout,
         B!CreateBreakoutRooms(w, rooms)
  PROVE  B!BreakoutTypeOK' /\ Noted /\ CreateBegun(w)
<1> DEFINE f == [B!Idle EXCEPT !.at = "next", !.job = "create", !.room = "parent", !.todo = rooms]
<1>1. /\ c7[w].at = "idle" /\ c1["parent"] # "off" /\ B!Put(w, f)
      /\ UNCHANGED <<c1, c2, c3, c4, c5, c6>>
  BY DEF B!CreateBreakoutRooms, B!Begin, B!Parent
<1>2. f \in B!Work /\ f.at = "next" /\ f.job = "create" /\ ~f.made
  BY IdleIsWork, BreakoutWorkers DEF B!Idle, B!Work, B!Steps, B!Writing
<1> HIDE DEF f
<1>3. c7' \in [B!Worker -> B!Work] /\ WorkersStay(w) /\ c7'[w] = f /\ Noted
  BY <1>1, <1>2, BreakoutWorkers, WorkerPuts DEF B!BreakoutTypeOK, Excuses
<1> QED
  BY <1>1, <1>2, <1>3 DEF B!BreakoutTypeOK, CreateBegun, Noted, Excuses

LEMMA RoomIsMade ==
  ASSUME B!BreakoutTypeOK, NEW w \in Handler, B!CreateOne(w)
  PROVE  B!BreakoutTypeOK' /\ Noted /\ \E b \in Breakout : RoomMade(w, b)
<1>1. w \in B!Worker /\ c7[w] \in B!Work /\ B!At(w, "create", "next") /\ UNCHANGED <<c2, c3, c4, c6>>
  BY BreakoutWorkers DEF B!CreateOne, B!BreakoutTypeOK
<1>2. PICK b \in c7[w].todo :
        /\ c1[b] # "ending"
        /\ c1' = [c1 EXCEPT ![b] = IF c1[b] = "off" THEN "created" ELSE c1[b]]
        /\ c5' = [c5 EXCEPT ![b] = IF c1[b] = "off" THEN BkDuration ELSE c5[b]]
        /\ B!Put(w, [c7[w] EXCEPT !.at = "insert", !.room = b, !.todo = c7[w].todo \ {b}])
  BY <1>1, WorkFields DEF B!CreateOne, B!BreakoutTypeOK, B!Room
<1>3. b \in Breakout /\ b \in B!Room
  BY <1>1, <1>2, WorkFields, BreakoutWorkers
<1> DEFINE f == [c7[w] EXCEPT !.at = "insert", !.room = b, !.todo = c7[w].todo \ {b}]
<1>4. f \in B!Work /\ f.at = "insert" /\ f.job = c7[w].job /\ f.room = b /\ f.made = c7[w].made
  BY <1>1, <1>3 DEF B!Work, B!Steps
<1>5. B!Put(w, f)
  BY <1>2
<1> HIDE DEF f
<1>6. c7' \in [B!Worker -> B!Work] /\ WorkersStay(w) /\ c7'[w] = f /\ Noted
  BY <1>1, <1>4, <1>5, WorkerPuts DEF B!BreakoutTypeOK, Excuses
<1>7. /\ c1' \in [B!Room -> {"off", "created", "running", "ending"}] /\ StatusStays(b)
      /\ c1'[b] = IF c1[b] = "off" THEN "created" ELSE c1[b]
  BY <1>2, <1>3 DEF B!BreakoutTypeOK, StatusStays
<1>8. c5' \in [B!Room -> Nat] /\ GrantedStays(b) /\ (c1[b] # "off" => c5'[b] = c5[b])
  BY <1>2, <1>3, BreakoutsAssumption DEF B!BreakoutTypeOK, GrantedStays, BreakoutsAssumption
<1> QED
  BY <1>1, <1>2, <1>3, <1>4, <1>6, <1>7, <1>8
     DEF B!BreakoutTypeOK, RoomMade, Noted, Excuses, B!At

LEMMA RoomIsNotMade ==
  ASSUME B!BreakoutTypeOK, NEW w \in Handler, B!CreateFails(w)
  PROVE  B!BreakoutTypeOK' /\ Noted /\ NotMade(w)
<1>1. w \in B!Worker /\ c7[w] \in B!Work /\ B!At(w, "create", "next")
      /\ UNCHANGED <<c1, c2, c3, c4, c5, c6>>
  BY BreakoutWorkers DEF B!CreateFails, B!BreakoutTypeOK
<1>2. PICK b \in c7[w].todo : B!Put(w, [c7[w] EXCEPT !.todo = c7[w].todo \ {b}])
  BY <1>1, WorkFields DEF B!CreateFails
<1> DEFINE f == [c7[w] EXCEPT !.todo = c7[w].todo \ {b}]
<1>4. f \in B!Work /\ f.at = c7[w].at /\ f.job = c7[w].job /\ f.made = c7[w].made
  BY <1>1 DEF B!Work
<1>5. B!Put(w, f)
  BY <1>2
<1> HIDE DEF f
<1>6. c7' \in [B!Worker -> B!Work] /\ WorkersStay(w) /\ c7'[w] = f /\ Noted
  BY <1>1, <1>4, <1>5, WorkerPuts DEF B!BreakoutTypeOK, Excuses
<1> QED
  BY <1>1, <1>4, <1>6 DEF B!BreakoutTypeOK, NotMade, Noted, Excuses, B!At

LEMMA RoomIsInserted ==
  ASSUME B!BreakoutTypeOK, NEW w \in Handler, B!Insert(w)
  PROVE  B!BreakoutTypeOK' /\ Noted /\ Inserted(w)
<1> DEFINE f == [c7[w] EXCEPT !.at = "next", !.made = TRUE]
           new == [there |-> TRUE, started |-> FALSE, duration |-> BkDuration]
<1>1. w \in B!Worker /\ c7[w] \in B!Work /\ B!At(w, "create", "insert")
      /\ UNCHANGED <<c1, c2, c4, c5, c6>> /\ B!Put(w, f) /\ c3' = [c3 EXCEPT ![c7[w].room] = new]
  BY BreakoutWorkers DEF B!Insert, B!BreakoutTypeOK
<1>2. new \in B!Record /\ new.there
  BY BreakoutsAssumption DEF B!Record, BreakoutsAssumption
<1>4. f \in B!Work /\ f.at = "next" /\ f.job = c7[w].job /\ f.made
  BY <1>1 DEF B!Work, B!Steps
<1> HIDE DEF f, new
<1>5. /\ c3' \in [Breakout -> B!Record] /\ HashStays(c7[w].room)
      /\ c7[w].room \in Breakout => c3'[c7[w].room].there
  BY <1>1, <1>2 DEF B!BreakoutTypeOK, HashStays
<1>6. c7' \in [B!Worker -> B!Work] /\ WorkersStay(w) /\ c7'[w] = f /\ Noted
  BY <1>1, <1>4, WorkerPuts DEF B!BreakoutTypeOK, Excuses
<1> QED
  BY <1>1, <1>4, <1>5, <1>6 DEF B!BreakoutTypeOK, Inserted, Noted, Excuses, B!At

LEMMA RoomIsNotInserted ==
  ASSUME B!BreakoutTypeOK, NEW w \in Handler, B!InsertFails(w)
  PROVE  B!BreakoutTypeOK' /\ Noted /\ NotMade(w)
<1>1. /\ w \in B!Worker /\ B!At(w, "create", "insert") /\ UNCHANGED <<c1, c2, c3, c4, c5, c6>>
      /\ B!Wrong(w, [c7[w] EXCEPT !.at = "next"], "fault")
  BY BreakoutWorkers DEF B!InsertFails
<1>2. c7' \in [B!Worker -> B!Work] /\ Moved(w, "next") /\ Noted /\ "fault" \in c8'
  BY <1>1, WorkerErrsOn DEF B!BreakoutTypeOK, Excuses, B!Steps
<1> QED
  BY <1>1, <1>2 DEF B!BreakoutTypeOK, NotMade, Moved, Noted, Excuses, B!At

LEMMA CreateReturns ==
  ASSUME B!BreakoutTypeOK, NEW w \in Handler, B!CreateEnds(w)
  PROVE  B!BreakoutTypeOK' /\ Noted /\ Created(w)
<1>1. /\ w \in B!Worker /\ c7[w] \in B!Work /\ B!At(w, "create", "next") /\ B!Put(w, B!Over)
      /\ c2' = (c2 \/ (c7[w].made /\ c1["parent"] # "off")) /\ UNCHANGED <<c1, c3, c4, c5, c6>>
  BY BreakoutWorkers DEF B!CreateEnds, B!BreakoutTypeOK, B!Parent
<1>2. c2' \in BOOLEAN
  BY <1>1
<1>3. c7' \in [B!Worker -> B!Work] /\ WorkersStay(w) /\ c7'[w] = B!Over /\ Noted
  BY <1>1, IdleIsWork, WorkerPuts DEF B!BreakoutTypeOK, Excuses
<1> QED
  BY <1>1, <1>2, <1>3, IdleIsWork DEF B!BreakoutTypeOK, Created, Rests, Noted, Excuses, B!At

(* The webhook of a room that starts.                                      *)
Opened(b) ==
    /\ c1[b] = "created" /\ StatusStays(b) /\ c1'[b] = "running"
    /\ c7[B!Started(b)].at = "idle" /\ WorkersStay(B!Started(b))
    /\ c7'[B!Started(b)].at = "check" /\ c7'[B!Started(b)].job = "start"
    /\ c7'[B!Started(b)].room = b /\ c7'[B!Started(b)].had = c5[b]
    /\ UNCHANGED <<c2, c3, c4, c5, c6>>

Limiting(b) ==
    /\ B!At(B!Started(b), "start", "check") /\ Moved(B!Started(b), "fetch")
    /\ CheckerStays(b) /\ c4'[b].there /\ c4'[b].duration = c7[B!Started(b)].had
    /\ UNCHANGED <<c1, c2, c3, c5, c6>>

Fetched(b) ==
    /\ B!At(B!Started(b), "start", "fetch")
    /\ WorkersStay(B!Started(b)) /\ c7'[B!Started(b)].job = "start"
    /\ c7'[B!Started(b)].room = c7[B!Started(b)].room
    /\ c7'[B!Started(b)].had = c7[B!Started(b)].had
    /\ c7'[B!Started(b)].rec = c3[b]
    /\ c7'[B!Started(b)].at = IF c3[b].there THEN "store" ELSE "meta"
    /\ UNCHANGED <<c1, c2, c3, c4, c5, c6>>

Stored(b) ==
    /\ B!At(B!Started(b), "start", "store")
    /\ WorkersStay(B!Started(b)) /\ c7'[B!Started(b)].at = "meta"
    /\ c7'[B!Started(b)].job = "start"
    /\ c7'[B!Started(b)].room = c7[B!Started(b)].room
    /\ c7'[B!Started(b)].had = c7[B!Started(b)].had
    /\ HashStays(b) /\ c3'[b].there = c7[B!Started(b)].rec.there
    /\ UNCHANGED <<c1, c2, c4, c5, c6>>

Announced(b) ==
    /\ B!At(B!Started(b), "start", "meta") /\ Rests(B!Started(b))
    /\ GrantedStays(b) /\ c5'[b] = IF c1[b] = "off" THEN c5[b] ELSE c7[B!Started(b)].had
    /\ UNCHANGED <<c1, c2, c3, c4, c6>>

Skipped(b) ==
    LET w == B!Started(b) IN
    /\ \/ B!At(w, "start", "check") /\ Moved(w, "fetch")
       \/ (B!At(w, "start", "fetch") \/ B!At(w, "start", "store")) /\ Moved(w, "meta")
       \/ B!At(w, "start", "meta") /\ Rests(w)
    /\ UNCHANGED <<c1, c2, c3, c4, c5, c6>>

LEMMA RoomOpens ==
  ASSUME B!BreakoutTypeOK, NEW b \in Breakout, B!RoomStarted(b)
  PROVE  B!BreakoutTypeOK' /\ Noted /\ Opened(b)
<1> DEFINE f == [B!Idle EXCEPT !.at = "check", !.job = "start", !.room = b, !.had = c5[b]]
           w == B!Started(b)
<1>1. /\ c1[b] = "created" /\ c7[w].at = "idle" /\ c1' = [c1 EXCEPT ![b] = "running"]
      /\ B!Put(w, f) /\ UNCHANGED <<c2, c3, c4, c5, c6>>
  BY DEF B!RoomStarted
<1>2. b \in B!Room /\ c5[b] \in Nat /\ w \in B!Worker
  BY BreakoutWorkers DEF B!BreakoutTypeOK
<1>3. f \in B!Work /\ f.at = "check" /\ f.job = "start" /\ f.room = b /\ f.had = c5[b]
  BY <1>2, IdleIsWork DEF B!Idle, B!Work, B!Steps, B!Writing
<1>4. c1' \in [B!Room -> {"off", "created", "running", "ending"}] /\ StatusStays(b)
      /\ c1'[b] = "running"
  BY <1>1, <1>2 DEF B!BreakoutTypeOK, StatusStays
<1> HIDE DEF f, w
<1>5. c7' \in [B!Worker -> B!Work] /\ WorkersStay(w) /\ c7'[w] = f /\ Noted
  BY <1>1, <1>2, <1>3, WorkerPuts DEF B!BreakoutTypeOK, Excuses
<1> QED
  BY <1>1, <1>3, <1>4, <1>5 DEF B!BreakoutTypeOK, Opened, Noted, Excuses, w

LEMMA DurationIsAdded ==
  ASSUME B!BreakoutTypeOK, NEW b \in Breakout, B!AddDuration(b)
  PROVE  B!BreakoutTypeOK' /\ Noted /\ Limiting(b)
<1> DEFINE w == B!Started(b)
           key == B!Key(c6, c7[w].had)
<1>1. /\ B!At(w, "start", "check") /\ c4' = [c4 EXCEPT ![b] = key] /\ B!Goto(w, "fetch")
      /\ UNCHANGED <<c1, c2, c3, c5, c6>>
  BY DEF B!AddDuration
<1>2. b \in B!Room /\ w \in B!Worker /\ c7[w].had \in Nat
  BY BreakoutWorkers, WorkFields DEF B!BreakoutTypeOK
<1>3. /\ key \in [there : BOOLEAN, startedAt : 0 .. MaxTime, duration : Nat]
      /\ key.there /\ key.duration = c7[w].had
  BY <1>2 DEF B!Key, B!BreakoutTypeOK
<1> HIDE DEF w, key
<1>4. /\ c4' \in [B!Room -> [there : BOOLEAN, startedAt : 0 .. MaxTime, duration : Nat]]
      /\ CheckerStays(b) /\ c4'[b] = key
  BY <1>1, <1>2, <1>3 DEF B!BreakoutTypeOK, CheckerStays
<1>5. c7' \in [B!Worker -> B!Work] /\ Moved(w, "fetch") /\ Noted
  BY <1>1, <1>2, WorkerMoves DEF B!BreakoutTypeOK, Excuses, B!Steps
<1> QED
  BY <1>1, <1>3, <1>4, <1>5 DEF B!BreakoutTypeOK, Limiting, Noted, Excuses, w

LEMMA RecordIsFetched ==
  ASSUME B!BreakoutTypeOK, NEW b \in Breakout, B!FetchRecord(b)
  PROVE  B!BreakoutTypeOK' /\ Noted /\ Fetched(b)
<1> DEFINE w == B!Started(b)
           at == IF c3[b].there THEN "store" ELSE "meta"
           f == [c7[w] EXCEPT !.at = at, !.rec = c3[b]]
<1>1. B!At(w, "start", "fetch") /\ B!Put(w, f) /\ UNCHANGED <<c1, c2, c3, c4, c5, c6>>
  BY DEF B!FetchRecord
<1>2. w \in B!Worker /\ c7[w] \in B!Work /\ c3[b] \in B!Record
  BY BreakoutWorkers DEF B!BreakoutTypeOK
<1>3. /\ f \in B!Work /\ f.at = at /\ f.rec = c3[b] /\ f.job = c7[w].job /\ f.room = c7[w].room
      /\ f.had = c7[w].had
  BY <1>2 DEF B!Work, B!Steps
<1> HIDE DEF w, f
<1>4. c7' \in [B!Worker -> B!Work] /\ WorkersStay(w) /\ c7'[w] = f /\ Noted
  BY <1>1, <1>2, <1>3, WorkerPuts DEF B!BreakoutTypeOK, Excuses
<1> QED
  BY <1>1, <1>3, <1>4 DEF B!BreakoutTypeOK, Fetched, Noted, Excuses, w, B!At

LEMMA RecordIsStored ==
  ASSUME B!BreakoutTypeOK, NEW b \in Breakout, B!StoreRecord(b)
  PROVE  B!BreakoutTypeOK' /\ Noted /\ Stored(b)
<1> DEFINE w == B!Started(b)
           new == [c7[w].rec EXCEPT !.started = TRUE]
           f == [c7[w] EXCEPT !.at = "meta", !.rec = B!NoRecord]
<1>1. /\ B!At(w, "start", "store") /\ c3' = [c3 EXCEPT ![b] = new] /\ B!Put(w, f)
      /\ UNCHANGED <<c1, c2, c4, c5, c6>>
  BY DEF B!StoreRecord
<1>2. w \in B!Worker /\ c7[w] \in B!Work /\ c7[w].rec \in B!Record
  BY BreakoutWorkers, WorkFields DEF B!BreakoutTypeOK
<1>3. new \in B!Record /\ new.there = c7[w].rec.there
  BY <1>2 DEF B!Record
<1>4. /\ f \in B!Work /\ f.at = "meta" /\ f.job = c7[w].job /\ f.room = c7[w].room
      /\ f.had = c7[w].had
  BY <1>2, IdleIsWork DEF B!Work, B!Steps
<1> HIDE DEF w, f, new
<1>5. c3' \in [Breakout -> B!Record] /\ HashStays(b) /\ c3'[b] = new
  BY <1>1, <1>3 DEF B!BreakoutTypeOK, HashStays
<1>6. c7' \in [B!Worker -> B!Work] /\ WorkersStay(w) /\ c7'[w] = f /\ Noted
  BY <1>1, <1>2, <1>4, WorkerPuts DEF B!BreakoutTypeOK, Excuses
<1> QED
  BY <1>1, <1>3, <1>4, <1>5, <1>6 DEF B!BreakoutTypeOK, Stored, Noted, Excuses, w, B!At

LEMMA RoomIsAnnounced ==
  ASSUME B!BreakoutTypeOK, NEW b \in Breakout, B!PutStarted(b)
  PROVE  B!BreakoutTypeOK' /\ Noted /\ Announced(b)
<1> DEFINE w == B!Started(b)
           had == IF c1[b] = "off" THEN c5[b] ELSE c7[w].had
<1>1. /\ B!At(w, "start", "meta") /\ B!Put(w, B!Idle)
      /\ c5' = [c5 EXCEPT ![b] = IF c1[b] = "off" THEN c5[b] ELSE c7[w].had]
      /\ UNCHANGED <<c1, c2, c3, c4, c6>>
  BY DEF B!PutStarted
<1>2. w \in B!Worker /\ had \in Nat /\ b \in B!Room
  BY BreakoutWorkers, WorkFields DEF B!BreakoutTypeOK
<1> HIDE DEF w
<1>3. c5' \in [B!Room -> Nat] /\ GrantedStays(b) /\ c5'[b] = had
  BY <1>1, <1>2 DEF B!BreakoutTypeOK, GrantedStays
<1>4. c7' \in [B!Worker -> B!Work] /\ WorkersStay(w) /\ c7'[w] = B!Idle /\ Noted
  BY <1>1, <1>2, IdleIsWork, WorkerPuts DEF B!BreakoutTypeOK, Excuses
<1> QED
  BY <1>1, <1>3, <1>4, IdleIsWork DEF B!BreakoutTypeOK, Announced, Rests, Noted, Excuses, w

LEMMA StepIsSkipped ==
  ASSUME B!BreakoutTypeOK, NEW b \in Breakout, B!StartStepFails(b)
  PROVE  B!BreakoutTypeOK' /\ Noted /\ Skipped(b)
<1> DEFINE w == B!Started(b)
<1>1. w \in B!Worker /\ UNCHANGED <<c1, c2, c3, c4, c5, c6>>
  BY BreakoutWorkers DEF B!StartStepFails
<1>2. \/ B!At(w, "start", "check") /\ B!Goto(w, "fetch")
      \/ (B!At(w, "start", "fetch") \/ B!At(w, "start", "store")) /\ B!Goto(w, "meta")
      \/ B!At(w, "start", "meta") /\ B!Put(w, B!Idle)
  BY DEF B!StartStepFails
<1> HIDE DEF w
<1>3. ASSUME NEW at \in {"fetch", "meta"}, B!Goto(w, at)
      PROVE  c7' \in [B!Worker -> B!Work] /\ Moved(w, at) /\ Noted
  BY <1>1, <1>3, WorkerMoves DEF B!BreakoutTypeOK, Excuses, B!Steps
<1>4. ASSUME B!Put(w, B!Idle)
      PROVE  c7' \in [B!Worker -> B!Work] /\ Rests(w) /\ Noted
  BY <1>1, <1>4, IdleIsWork, WorkerPuts DEF B!BreakoutTypeOK, Excuses, Rests
<1>5. c7' \in [B!Worker -> B!Work] /\ Noted
  BY <1>2, <1>3, <1>4
<1>6. Skipped(b)
  BY <1>1, <1>2, <1>3, <1>4 DEF Skipped, w
<1> QED
  BY <1>1, <1>5, <1>6 DEF B!BreakoutTypeOK, Noted, Excuses

(* A request that increases a duration.                                    *)
Minutes(m) == PerMinute * m

IncreaseBegun(w, b) ==
    /\ w \in Handler /\ c7[w].at = "idle" /\ c3[b].there
    /\ WorkersStay(w) /\ c7'[w].at = "info" /\ c7'[w].job = "increase" /\ c7'[w].room = b
    /\ c7'[w].rec = c3[b]
    /\ UNCHANGED <<c1, c2, c3, c4, c5, c6>>

Stays(w) ==
    /\ c7'[w].job = c7[w].job /\ c7'[w].room = c7[w].room /\ c7'[w].rec = c7[w].rec

Informed(w) ==
    /\ w \in Handler /\ B!At(w, "increase", "info")
    /\ \/ Rests(w)
       \/ /\ c1[c7[w].room] # "off" /\ c4[c7[w].room].there
          /\ WorkersStay(w) /\ c7'[w].at = "compare" /\ Stays(w)
          /\ B!End(c4[c7[w].room]) < c6 + Minutes(c7'[w].had) + PerMinute
    /\ UNCHANGED <<c1, c2, c3, c4, c5, c6>>

Compared(w) ==
    /\ w \in Handler /\ B!At(w, "increase", "compare")
    /\ \/ Rests(w)
       \/ /\ Moved(w, "grow")
          /\ B!Limited(c4["parent"]) /\ c6 <= B!End(c4["parent"]) =>
                c6 + Minutes(c7[w].had) + Minutes(Increase) <= B!End(c4["parent"])
    /\ UNCHANGED <<c1, c2, c3, c4, c5, c6>>

Grown(w) ==
    LET b == c7[w].room IN
    /\ w \in Handler /\ B!At(w, "increase", "grow")
    /\ CheckerStays(b) /\ c4'[b].there /\ c4'[b].duration = c4[b].duration + Increase
    /\ c4'[b].startedAt = c4[b].startedAt
    /\ WorkersStay(w) /\ c7'[w].at = "meta" /\ Stays(w)
    /\ c7'[w].had = c4[b].duration + Increase
    /\ UNCHANGED <<c1, c2, c3, c5, c6>>

Granted(w) ==
    LET b == c7[w].room IN
    /\ w \in Handler /\ B!At(w, "increase", "meta") /\ c1[b] # "off" /\ Moved(w, "store")
    /\ GrantedStays(b) /\ c5'[b] = c7[w].had
    /\ UNCHANGED <<c1, c2, c3, c4, c6>>

TakenBack(w) ==
    LET b == c7[w].room IN
    /\ w \in Handler /\ B!At(w, "increase", "meta") /\ Rests(w)
    /\ CheckerStays(b) /\ c4'[b].there /\ c4'[b].duration = c7[w].had - Increase
    /\ c4'[b].startedAt = c4[b].startedAt
    /\ UNCHANGED <<c1, c2, c3, c5, c6>>

Kept(w) ==
    LET b == c7[w].room IN
    /\ w \in Handler /\ B!At(w, "increase", "store") /\ Rests(w)
    /\ HashStays(b) /\ (b \in Breakout => c3'[b].there = c7[w].rec.there)
    /\ UNCHANGED <<c1, c2, c4, c5, c6>>

(* A request that creates rooms or increases a duration, and fails.        *)
GivesUp(w) ==
    /\ w \in Handler /\ Rests(w) /\ B!IsBusy(w) /\ c7[w].job \in {"create", "increase"}
    /\ c7[w].job = "create" => c7[w].at = "next" /\ "books" \in c8'
    /\ B!At(w, "increase", "meta") => "clock" \in c8'
    /\ UNCHANGED <<c1, c2, c3, c4, c5, c6>>

LEMMA IncreaseBegins ==
  ASSUME B!BreakoutTypeOK, NEW w \in Handler, NEW b \in Breakout,
         B!IncreaseBreakoutRoomDuration(w, b)
  PROVE  B!BreakoutTypeOK' /\ Noted /\ IncreaseBegun(w, b)
<1> DEFINE f == [B!Idle EXCEPT !.at = "info", !.job = "increase", !.room = b, !.rec = c3[b]]
<1>1. /\ c7[w].at = "idle" /\ c3[b].there /\ B!Put(w, f) /\ UNCHANGED <<c1, c2, c3, c4, c5, c6>>
  BY DEF B!IncreaseBreakoutRoomDuration
<1>2. b \in B!Room /\ w \in B!Worker /\ c3[b] \in B!Record
  BY BreakoutWorkers DEF B!BreakoutTypeOK
<1>3. f \in B!Work /\ f.at = "info" /\ f.job = "increase" /\ f.room = b /\ f.rec = c3[b]
  BY <1>2, IdleIsWork DEF B!Idle, B!Work, B!Steps, B!Writing
<1> HIDE DEF f
<1>4. c7' \in [B!Worker -> B!Work] /\ WorkersStay(w) /\ c7'[w] = f /\ Noted
  BY <1>1, <1>2, <1>3, WorkerPuts DEF B!BreakoutTypeOK, Excuses
<1> QED
  BY <1>1, <1>3, <1>4 DEF B!BreakoutTypeOK, IncreaseBegun, Noted, Excuses

LEMMA RequestRests ==
  ASSUME B!BreakoutTypeOK, NEW w \in B!Worker, B!Put(w, B!Over)
  PROVE  c7' \in [B!Worker -> B!Work] /\ Rests(w) /\ Noted
BY IdleIsWork, WorkerPuts DEF B!BreakoutTypeOK, Excuses, Rests

LEMMA RequestGivesUp ==
  ASSUME B!BreakoutTypeOK, NEW w \in Handler,
         B!FlagFails(w) \/ B!IncreaseFails(w) \/ B!IncreaseStays(w)
  PROVE  B!BreakoutTypeOK' /\ Noted /\ GivesUp(w)
<1>1. w \in B!Worker /\ UNCHANGED <<c1, c2, c3, c4, c5, c6>>
  BY BreakoutWorkers DEF B!FlagFails, B!IncreaseFails, B!IncreaseStays
<1>2. ASSUME NEW wrong \in Excuses, B!Wrong(w, B!Over, wrong)
      PROVE  c7' \in [B!Worker -> B!Work] /\ Rests(w) /\ Noted /\ wrong \in c8'
  BY <1>1, <1>2, IdleIsWork, WorkerErrs DEF B!BreakoutTypeOK, Excuses, Rests
<1>3. CASE B!FlagFails(w)
  <2>1. B!At(w, "create", "next") /\ B!Wrong(w, B!Over, "books")
    BY <1>3 DEF B!FlagFails
  <2>2. c7' \in [B!Worker -> B!Work] /\ Rests(w) /\ Noted /\ "books" \in c8'
    BY <1>2, <2>1 DEF Excuses
  <2> QED
    BY <1>1, <2>1, <2>2 DEF B!BreakoutTypeOK, GivesUp, Noted, Excuses, B!At, B!IsBusy
<1>4. CASE B!IncreaseFails(w)
  <2>1. /\ B!Put(w, B!Over) /\ c7[w].job = "increase"
        /\ c7[w].at \in {"info", "compare", "grow", "store"}
    BY <1>4 DEF B!IncreaseFails, B!At
  <2>2. c7' \in [B!Worker -> B!Work] /\ Rests(w) /\ Noted
    BY <1>1, <2>1, RequestRests
  <2> QED
    BY <1>1, <2>1, <2>2 DEF B!BreakoutTypeOK, GivesUp, Noted, Excuses, B!At, B!IsBusy
<1>5. CASE B!IncreaseStays(w)
  <2>1. B!At(w, "increase", "meta") /\ B!Wrong(w, B!Over, "clock")
    BY <1>5 DEF B!IncreaseStays
  <2>2. c7' \in [B!Worker -> B!Work] /\ Rests(w) /\ Noted /\ "clock" \in c8'
    BY <1>2, <2>1 DEF Excuses
  <2> QED
    BY <1>1, <2>1, <2>2 DEF B!BreakoutTypeOK, GivesUp, Noted, Excuses, B!At, B!IsBusy
<1> QED
  BY <1>3, <1>4, <1>5

(* Minutes are seconds, and what is cut off is less than a minute.         *)
LEMMA MinutesAreCut ==
  ASSUME NEW s \in Nat
  PROVE  /\ s \div PerMinute \in Nat
         /\ Minutes(s \div PerMinute) <= s /\ s < Minutes(s \div PerMinute) + PerMinute
BY BreakoutsAssumption DEF BreakoutsAssumption, Minutes

LEMMA MinutesAdd ==
  ASSUME NEW m \in Nat, NEW n \in Nat
  PROVE  /\ Minutes(m) \in Nat /\ Minutes(m + n) = Minutes(m) + Minutes(n)
         /\ m <= n => Minutes(m) <= Minutes(n)
BY BreakoutsAssumption DEF BreakoutsAssumption, Minutes

LEMMA KeyFields ==
  ASSUME B!BreakoutTypeOK, NEW r \in B!Room
  PROVE  /\ c4[r].there \in BOOLEAN /\ c4[r].startedAt \in 0 .. MaxTime /\ c4[r].duration \in Nat
         /\ B!End(c4[r]) \in Nat /\ B!Left(c4[r]) \in Nat
         /\ B!End(c4[r]) < c6 + Minutes(B!Left(c4[r])) + PerMinute
         /\ c6 <= B!End(c4[r]) => c6 + Minutes(B!Left(c4[r])) <= B!End(c4[r])
<1>1. /\ c4[r].there \in BOOLEAN /\ c4[r].startedAt \in 0 .. MaxTime /\ c4[r].duration \in Nat
      /\ c6 \in 0 .. MaxTime
  BY DEF B!BreakoutTypeOK
<1>2. Huge \in Nat /\ MaxTime \in 0 .. Huge /\ PerMinute \in Nat
  BY BreakoutsAssumption DEF BreakoutsAssumption
<1>3. Minutes(c4[r].duration) \in Nat /\ B!End(c4[r]) = c4[r].startedAt + Minutes(c4[r].duration)
  BY <1>1, MinutesAdd DEF B!End, Minutes
<1>4. /\ B!End(c4[r]) \in Nat /\ B!Seconds(c4[r]) \in Nat
      /\ B!End(c4[r]) <= c6 + B!Seconds(c4[r])
      /\ c6 <= B!End(c4[r]) => B!Seconds(c4[r]) = B!End(c4[r]) - c6
  <2> HIDE DEF Minutes
  <2> QED
    BY <1>1, <1>2, <1>3 DEF B!Seconds
<1>5. /\ B!Left(c4[r]) \in Nat /\ Minutes(B!Left(c4[r])) <= B!Seconds(c4[r])
      /\ B!Seconds(c4[r]) < Minutes(B!Left(c4[r])) + PerMinute
  BY <1>4, MinutesAreCut DEF B!Left
<1>6. Minutes(B!Left(c4[r])) \in Nat
  BY <1>5, MinutesAdd
<1> QED
  BY <1>1, <1>2, <1>4, <1>5, <1>6

LEMMA RequestIsInformed ==
  ASSUME B!BreakoutTypeOK, NEW w \in Handler, B!GetRoomDurationInfo(w)
  PROVE  B!BreakoutTypeOK' /\ Noted /\ Informed(w)
<1> DEFINE b == c7[w].room
           f == [c7[w] EXCEPT !.at = "compare", !.had = B!Left(c4[b])]
<1>1. B!At(w, "increase", "info") /\ UNCHANGED <<c1, c2, c3, c4, c5, c6>>
  BY DEF B!GetRoomDurationInfo
<1>2. w \in B!Worker /\ c7[w] \in B!Work /\ b \in B!Room
  BY BreakoutWorkers, WorkFields DEF B!BreakoutTypeOK
<1>3. CASE B!Put(w, B!Over)
  BY <1>1, <1>2, <1>3, RequestRests DEF B!BreakoutTypeOK, Informed, Noted, Excuses
<1>4. CASE c1[b] # "off" /\ B!Limited(c4[b]) /\ B!Put(w, f)
  <2>1. /\ B!Left(c4[b]) \in Nat /\ c4[b].there
        /\ B!End(c4[b]) < c6 + Minutes(B!Left(c4[b])) + PerMinute
    BY <1>2, <1>4, KeyFields DEF B!Limited
  <2>2. /\ f \in B!Work /\ f.at = "compare" /\ f.job = c7[w].job /\ f.room = c7[w].room
        /\ f.rec = c7[w].rec /\ f.had = B!Left(c4[b])
    BY <1>2, <2>1 DEF B!Work, B!Steps
  <2> HIDE DEF f
  <2>3. c7' \in [B!Worker -> B!Work] /\ WorkersStay(w) /\ c7'[w] = f /\ Noted
    BY <1>2, <1>4, <2>2, WorkerPuts DEF B!BreakoutTypeOK, Excuses
  <2> QED
    BY <1>1, <1>4, <2>1, <2>2, <2>3 DEF B!BreakoutTypeOK, Informed, Stays, Noted, Excuses
<1> QED
  BY <1>3, <1>4 DEF B!GetRoomDurationInfo

LEMMA RequestCompares ==
  ASSUME B!BreakoutTypeOK, NEW w \in Handler, B!Compare(w)
  PROVE  B!BreakoutTypeOK' /\ Noted /\ Compared(w)
<1>1. B!At(w, "increase", "compare") /\ UNCHANGED <<c1, c2, c3, c4, c5, c6>>
  BY DEF B!Compare
<1>2. w \in B!Worker /\ c7[w] \in B!Work /\ c7[w].had \in Nat /\ "parent" \in B!Room
  BY BreakoutWorkers, WorkFields DEF B!BreakoutTypeOK
<1>3. CASE B!Put(w, B!Over)
  BY <1>1, <1>2, <1>3, RequestRests DEF B!BreakoutTypeOK, Compared, Noted, Excuses
<1>4. CASE B!FitsParent(B!Longest(c7[w].had)) /\ B!Goto(w, "grow")
  <2>1. c7' \in [B!Worker -> B!Work] /\ Moved(w, "grow") /\ Noted
    BY <1>2, <1>4, WorkerMoves DEF B!BreakoutTypeOK, Excuses, B!Steps
  <2>2. B!Limited(c4["parent"]) /\ c6 <= B!End(c4["parent"]) =>
           c6 + Minutes(c7[w].had) + Minutes(Increase) <= B!End(c4["parent"])
    <3>1. B!Limited(c4["parent"]) => c7[w].had + Increase <= B!Left(c4["parent"])
      BY <1>4 DEF B!FitsParent, B!Longest, B!Parent
    <3>2. /\ B!End(c4["parent"]) \in Nat /\ c6 \in Nat /\ Increase \in Nat
          /\ B!Left(c4["parent"]) \in Nat
          /\ c6 <= B!End(c4["parent"]) => c6 + Minutes(B!Left(c4["parent"])) <= B!End(c4["parent"])
      BY <1>2, KeyFields, BreakoutsAssumption DEF B!BreakoutTypeOK, BreakoutsAssumption
    <3>3. /\ Minutes(c7[w].had) \in Nat /\ Minutes(Increase) \in Nat
          /\ Minutes(B!Left(c4["parent"])) \in Nat
          /\ B!Limited(c4["parent"]) =>
                Minutes(c7[w].had) + Minutes(Increase) <= Minutes(B!Left(c4["parent"]))
      <4>1. c7[w].had + Increase \in Nat
        BY <1>2, <3>2
      <4>2. /\ Minutes(c7[w].had) \in Nat /\ Minutes(Increase) \in Nat
            /\ Minutes(B!Left(c4["parent"])) \in Nat
            /\ Minutes(c7[w].had + Increase) = Minutes(c7[w].had) + Minutes(Increase)
        BY <1>2, <3>2, MinutesAdd
      <4>3. c7[w].had + Increase <= B!Left(c4["parent"]) =>
               Minutes(c7[w].had + Increase) <= Minutes(B!Left(c4["parent"]))
        BY <3>2, <4>1, MinutesAdd
      <4> QED
        BY <3>1, <4>2, <4>3
    <3> QED
      BY <3>2, <3>3
  <2> QED
    BY <1>1, <2>1, <2>2 DEF B!BreakoutTypeOK, Compared, Noted, Excuses
<1> QED
  BY <1>3, <1>4 DEF B!Compare

LEMMA DurationGrows ==
  ASSUME B!BreakoutTypeOK, NEW w \in Handler, B!UpdateRoomDuration(w)
  PROVE  B!BreakoutTypeOK' /\ Noted /\ Grown(w)
<1> DEFINE b == c7[w].room
           had == c4[b].duration + Increase
           f == [c7[w] EXCEPT !.at = "meta", !.had = had]
<1>1. /\ B!At(w, "increase", "grow") /\ B!Put(w, f) /\ UNCHANGED <<c1, c2, c3, c5, c6>>
      /\ c4' = [c4 EXCEPT ![b].there = TRUE, ![b].duration = @ + Increase]
  BY DEF B!UpdateRoomDuration
<1>2. w \in B!Worker /\ c7[w] \in B!Work /\ b \in B!Room
  BY BreakoutWorkers, WorkFields DEF B!BreakoutTypeOK
<1>3. had \in Nat
  BY <1>2, KeyFields, BreakoutsAssumption DEF BreakoutsAssumption
<1>4. /\ c4' \in [B!Room -> [there : BOOLEAN, startedAt : 0 .. MaxTime, duration : Nat]]
      /\ CheckerStays(b) /\ c4'[b].there /\ c4'[b].duration = had
      /\ c4'[b].startedAt = c4[b].startedAt
  BY <1>1, <1>2, <1>3 DEF B!BreakoutTypeOK, CheckerStays
<1>5. /\ f \in B!Work /\ f.at = "meta" /\ f.job = c7[w].job /\ f.room = b /\ f.rec = c7[w].rec
      /\ f.had = had
  BY <1>2, <1>3 DEF B!Work, B!Steps
<1> HIDE DEF f
<1>6. c7' \in [B!Worker -> B!Work] /\ WorkersStay(w) /\ c7'[w] = f /\ Noted
  BY <1>1, <1>2, <1>5, WorkerPuts DEF B!BreakoutTypeOK, Excuses
<1> QED
  BY <1>1, <1>4, <1>5, <1>6 DEF B!BreakoutTypeOK, Grown, Stays, Noted, Excuses

LEMMA DurationIsPut ==
  ASSUME B!BreakoutTypeOK, NEW w \in Handler, B!PutDuration(w)
  PROVE  B!BreakoutTypeOK' /\ Noted /\ Granted(w)
<1> DEFINE b == c7[w].room
<1>1. /\ B!At(w, "increase", "meta") /\ B!Goto(w, "store") /\ UNCHANGED <<c1, c2, c3, c4, c6>>
      /\ c1[b] # "off" /\ c5' = [c5 EXCEPT ![b] = c7[w].had]
  BY DEF B!PutDuration
<1>2. w \in B!Worker /\ b \in B!Room /\ c7[w].had \in Nat
  BY BreakoutWorkers, WorkFields DEF B!BreakoutTypeOK
<1>3. c5' \in [B!Room -> Nat] /\ GrantedStays(b) /\ c5'[b] = c7[w].had
  BY <1>1, <1>2 DEF B!BreakoutTypeOK, GrantedStays
<1>4. c7' \in [B!Worker -> B!Work] /\ Moved(w, "store") /\ Noted
  BY <1>1, <1>2, WorkerMoves DEF B!BreakoutTypeOK, Excuses, B!Steps
<1> QED
  BY <1>1, <1>3, <1>4 DEF B!BreakoutTypeOK, Granted, Noted, Excuses

LEMMA DurationIsTakenBack ==
  ASSUME B!BreakoutTypeOK, NEW w \in Handler, c7[w].had - Increase \in Nat, B!SetRoomDuration(w)
  PROVE  B!BreakoutTypeOK' /\ Noted /\ TakenBack(w)
<1> DEFINE b == c7[w].room
           had == c7[w].had - Increase
<1>1. /\ B!At(w, "increase", "meta") /\ B!Put(w, B!Over) /\ UNCHANGED <<c1, c2, c3, c5, c6>>
      /\ c4' = [c4 EXCEPT ![b].there = TRUE, ![b].duration = had]
  BY DEF B!SetRoomDuration
<1>2. w \in B!Worker /\ b \in B!Room
  BY BreakoutWorkers, WorkFields DEF B!BreakoutTypeOK
<1>3. /\ c4' \in [B!Room -> [there : BOOLEAN, startedAt : 0 .. MaxTime, duration : Nat]]
      /\ CheckerStays(b) /\ c4'[b].there /\ c4'[b].duration = had
      /\ c4'[b].startedAt = c4[b].startedAt
  BY <1>1, <1>2 DEF B!BreakoutTypeOK, CheckerStays
<1>4. c7' \in [B!Worker -> B!Work] /\ Rests(w) /\ Noted
  BY <1>1, <1>2, RequestRests
<1> QED
  BY <1>1, <1>3, <1>4 DEF B!BreakoutTypeOK, TakenBack, Noted, Excuses

LEMMA DurationIsStored ==
  ASSUME B!BreakoutTypeOK, NEW w \in Handler, B!StoreDuration(w)
  PROVE  B!BreakoutTypeOK' /\ Noted /\ Kept(w)
<1> DEFINE b == c7[w].room
           new == [c7[w].rec EXCEPT !.duration = c7[w].had]
<1>1. /\ B!At(w, "increase", "store") /\ B!Put(w, B!Over) /\ UNCHANGED <<c1, c2, c4, c5, c6>>
      /\ c3' = [c3 EXCEPT ![b] = new]
  BY DEF B!StoreDuration
<1>2. w \in B!Worker /\ c7[w].rec \in B!Record /\ c7[w].had \in Nat
  BY BreakoutWorkers, WorkFields DEF B!BreakoutTypeOK
<1>3. new \in B!Record /\ new.there = c7[w].rec.there
  BY <1>2 DEF B!Record
<1> HIDE DEF new
<1>4. c3' \in [Breakout -> B!Record] /\ HashStays(b) /\ (b \in Breakout => c3'[b] = new)
  BY <1>1, <1>3 DEF B!BreakoutTypeOK, HashStays
<1>5. c7' \in [B!Worker -> B!Work] /\ Rests(w) /\ Noted
  BY <1>1, <1>2, RequestRests
<1> QED
  BY <1>1, <1>3, <1>4, <1>5 DEF B!BreakoutTypeOK, Kept, Noted, Excuses

(* Ending rooms: whoever ends them, a request or the cleanup of the        *)
(* parent.                                                                 *)
EndBegun(w, b) ==
    /\ w \in Handler /\ c7[w].at = "idle" /\ WorkersStay(w)
    /\ c7'[w].at = "kill" /\ c7'[w].job = "end" /\ c7'[w].room = b
    /\ UNCHANGED <<c1, c2, c3, c4, c5, c6>>

AllBegun(w) ==
    /\ WorkersStay(w) /\ c7'[w].job = "end"
    /\ \/ /\ c7'[w].at = "drop" /\ c7'[w].todo = {}
          /\ \A b \in Breakout : ~c3[b].there
       \/ /\ c7'[w].at = "kill" /\ c7'[w].room \in Breakout
          /\ \A b \in Breakout : c3[b].there => b = c7'[w].room \/ b \in c7'[w].todo
    /\ UNCHANGED <<c1, c2, c3, c4, c5, c6>>

MovesOn(w) ==
    /\ WorkersStay(w)
    /\ \/ c7[w].todo = {} /\ w \in Handler /\ c7'[w].at = "over"
       \/ c7[w].todo = {} /\ w \notin Handler /\ Moved(w, "done")
       \/ /\ c7'[w].at = "kill" /\ c7'[w].job = c7[w].job
          /\ c7'[w].room \in c7[w].todo /\ c7'[w].todo = c7[w].todo \ {c7'[w].room}

RoomEnds(r) ==
    /\ StatusStays(r)
    /\ c1'[r] = IF c1[r] \in {"created", "running"} THEN "ending" ELSE c1[r]

CleanupBegins(r) ==
    c7'[B!Cleanup(r)].at = "undo" /\ c7'[B!Cleanup(r)].job = "end" /\ c7'[B!Cleanup(r)].room = r

Killed(w) ==
    LET b == c7[w].room IN
    /\ B!At(w, "end", "kill") /\ RoomEnds(b)
    /\ w # B!Cleanup(b) \/ c1[b] \notin {"created", "running"} =>
         c7'[w].at = "delete" /\ c7'[w].job = "end" /\ c7'[w].room = b /\ c7'[w].todo = c7[w].todo
    /\ \A v \in B!Worker : v # w /\ v # B!Cleanup(b) => c7'[v] = c7[v]
    /\ IF c1[b] \in {"created", "running"} THEN CleanupBegins(b)
       ELSE w # B!Cleanup(b) => c7'[B!Cleanup(b)] = c7[B!Cleanup(b)]
    /\ UNCHANGED <<c2, c3, c4, c5, c6>>

NotKilled(w) ==
    /\ B!At(w, "end", "kill") /\ Moved(w, "delete") /\ "fault" \in c8'
    /\ UNCHANGED <<c1, c2, c3, c4, c5, c6>>

Deleted(w) ==
    /\ B!At(w, "end", "delete") /\ Moved(w, "count")
    /\ HashStays(c7[w].room) /\ (c7[w].room \in Breakout => ~c3'[c7[w].room].there)
    /\ UNCHANGED <<c1, c2, c4, c5, c6>>

Counted(w) ==
    /\ B!At(w, "end", "count")
    /\ \/ (\E b \in Breakout : c3[b].there) /\ MovesOn(w)
       \/ (\A b \in Breakout : ~c3[b].there) /\ Moved(w, "purge")
    /\ UNCHANGED <<c1, c2, c3, c4, c5, c6>>

Purged(w) ==
    /\ B!At(w, "end", "purge") /\ Moved(w, "drop") /\ \A b \in Breakout : ~c3'[b].there
    /\ UNCHANGED <<c1, c2, c4, c5, c6>>

Seen(w) ==
    /\ B!At(w, "end", "drop")
    /\ \/ c2 /\ c1["parent"] # "off" /\ Moved(w, "deactivate")
       \/ ~(c2 /\ c1["parent"] # "off") /\ MovesOn(w)
    /\ UNCHANGED <<c1, c2, c3, c4, c5, c6>>

Dropped(w) ==
    /\ B!At(w, "end", "deactivate") /\ MovesOn(w)
    /\ c2' => c2 /\ c1["parent"] = "off"
    /\ UNCHANGED <<c1, c3, c4, c5, c6>>

Missed(w) ==
    /\ \/ B!At(w, "end", "delete") /\ Moved(w, "count")
       \/ B!At(w, "end", "purge") /\ Moved(w, "drop")
       \/ B!Does(w, "end") /\ c7[w].at \in {"count", "drop", "deactivate"} /\ MovesOn(w)
    /\ "books" \in c8'
    /\ UNCHANGED <<c1, c2, c3, c4, c5, c6>>

LEMMA EndBegins ==
  ASSUME B!BreakoutTypeOK, NEW w \in Handler, NEW b \in Breakout, B!EndBreakoutRoom(w, b)
  PROVE  B!BreakoutTypeOK' /\ Noted /\ EndBegun(w, b)
<1> DEFINE f == [B!Idle EXCEPT !.at = "kill", !.job = "end", !.room = b, !.todo = {}]
<1>1. c7[w].at = "idle" /\ B!Put(w, f) /\ UNCHANGED <<c1, c2, c3, c4, c5, c6>>
  BY DEF B!EndBreakoutRoom, B!Begin
<1>2. b \in B!Room /\ w \in B!Worker
  BY BreakoutWorkers
<1>3. f \in B!Work /\ f.at = "kill" /\ f.job = "end" /\ f.room = b
  BY <1>2, IdleIsWork DEF B!Idle, B!Work, B!Steps, B!Writing
<1> HIDE DEF f
<1>4. c7' \in [B!Worker -> B!Work] /\ WorkersStay(w) /\ c7'[w] = f /\ Noted
  BY <1>1, <1>2, <1>3, WorkerPuts DEF B!BreakoutTypeOK, Excuses
<1> QED
  BY <1>1, <1>3, <1>4 DEF B!BreakoutTypeOK, EndBegun, Noted, Excuses

LEMMA AllBegins ==
  ASSUME B!BreakoutTypeOK, NEW w \in B!Worker, B!EndAllFrom(w),
         UNCHANGED <<c1, c2, c3, c4, c5, c6>>
  PROVE  B!BreakoutTypeOK' /\ Noted /\ AllBegun(w)
<1> DEFINE ids == {b \in Breakout : c3[b].there}
           f(at, room, todo) == [B!Idle EXCEPT !.at = at, !.job = "end", !.room = room,
                                               !.todo = todo]
<1>1. \/ ids = {} /\ B!Put(w, f("drop", "parent", {}))
      \/ \E b \in ids : B!Put(w, f("kill", b, ids \ {b}))
  BY DEF B!EndAllFrom, B!Begin, B!Parent
<1>2. ASSUME NEW at \in {"drop", "kill"}, NEW room \in B!Room, NEW todo \in SUBSET Breakout
      PROVE  /\ f(at, room, todo) \in B!Work /\ f(at, room, todo).at = at
             /\ f(at, room, todo).job = "end" /\ f(at, room, todo).room = room
             /\ f(at, room, todo).todo = todo
  BY IdleIsWork DEF B!Idle, B!Work, B!Steps, B!Writing
<1> HIDE DEF f
<1>3. ASSUME NEW at \in {"drop", "kill"}, NEW room \in B!Room, NEW todo \in SUBSET Breakout,
             B!Put(w, f(at, room, todo))
      PROVE  /\ B!BreakoutTypeOK' /\ Noted /\ WorkersStay(w)
             /\ c7'[w].at = at /\ c7'[w].job = "end" /\ c7'[w].room = room /\ c7'[w].todo = todo
  <2>1. f(at, room, todo) \in B!Work
    BY <1>2
  <2>2. /\ c7' \in [B!Worker -> B!Work] /\ WorkersStay(w) /\ Noted
        /\ c7'[w] = f(at, room, todo)
    BY <1>3, <2>1, WorkerPuts DEF B!BreakoutTypeOK, Excuses
  <2> QED
    BY <1>2, <2>2 DEF B!BreakoutTypeOK, Noted, Excuses
<1>4. CASE ids = {} /\ B!Put(w, f("drop", "parent", {}))
  <2>1. /\ B!BreakoutTypeOK' /\ Noted /\ WorkersStay(w)
        /\ c7'[w].at = "drop" /\ c7'[w].job = "end" /\ c7'[w].todo = {}
    BY <1>3, <1>4, BreakoutWorkers
  <2> QED
    BY <1>4, <2>1 DEF AllBegun
<1>5. ASSUME NEW b \in ids, B!Put(w, f("kill", b, ids \ {b}))
      PROVE  B!BreakoutTypeOK' /\ Noted /\ AllBegun(w)
  <2>1. b \in Breakout /\ b \in B!Room /\ ids \ {b} \in SUBSET Breakout
    BY BreakoutWorkers
  <2>2. /\ B!BreakoutTypeOK' /\ Noted /\ WorkersStay(w) /\ c7'[w].at = "kill"
        /\ c7'[w].job = "end" /\ c7'[w].room = b /\ c7'[w].todo = ids \ {b}
    BY <1>3, <1>5, <2>1
  <2> QED
    BY <2>1, <2>2 DEF AllBegun
<1> QED
  BY <1>1, <1>4, <1>5

LEMMA FurtherFields ==
  ASSUME NEW w \in B!Worker, c7[w] \in B!Work, NEW f \in B!Further(w)
  PROVE  /\ f \in B!Work
         /\ \/ c7[w].todo = {} /\ w \in Handler /\ f.at = "over"
            \/ /\ c7[w].todo = {} /\ w \notin Handler
               /\ f.at = "done" /\ f.job = c7[w].job /\ f.room = c7[w].room
               /\ f.todo = c7[w].todo /\ f.made = c7[w].made /\ f.rec = c7[w].rec
               /\ f.had = c7[w].had
            \/ /\ f.at = "kill" /\ f.job = c7[w].job
               /\ f.room \in c7[w].todo /\ f.todo = c7[w].todo \ {f.room}
<1>1. CASE c7[w].todo = {} /\ w \in Handler /\ f = B!Over
  BY <1>1, IdleIsWork
<1>2. CASE c7[w].todo = {} /\ w \notin Handler /\ f = [c7[w] EXCEPT !.at = "done"]
  BY <1>2 DEF B!Work, B!Steps
<1>3. CASE \E b \in c7[w].todo :
             f = [c7[w] EXCEPT !.at = "kill", !.room = b, !.todo = c7[w].todo \ {b}]
  <2>1. PICK b \in c7[w].todo :
             f = [c7[w] EXCEPT !.at = "kill", !.room = b, !.todo = c7[w].todo \ {b}]
    BY <1>3
  <2>2. b \in B!Room
    BY BreakoutWorkers, WorkFields
  <2> QED
    BY <2>1, <2>2 DEF B!Work, B!Steps
<1> QED
  BY <1>1, <1>2, <1>3 DEF B!Further

LEMMA FurtherMovesOn ==
  ASSUME NEW w \in B!Worker, c7[w] \in B!Work, NEW f \in B!Further(w),
         WorkersStay(w), c7'[w] = f
  PROVE  MovesOn(w)
BY FurtherFields DEF MovesOn, Moved

LEMMA WorkerMovesOn ==
  ASSUME B!BreakoutTypeOK, NEW w \in B!Worker, B!Onward(w)
  PROVE  c7' \in [B!Worker -> B!Work] /\ Noted /\ MovesOn(w)
<1>1. c7[w] \in B!Work /\ c8 \subseteq Excuses /\ c7 \in [B!Worker -> B!Work]
  BY DEF B!BreakoutTypeOK, Excuses
<1>2. PICK f \in B!Further(w) : B!Put(w, f)
  BY DEF B!Onward
<1>3. f \in B!Work
  BY <1>1, FurtherFields
<1>4. c7' \in [B!Worker -> B!Work] /\ WorkersStay(w) /\ c7'[w] = f /\ Noted
  BY <1>1, <1>2, <1>3, WorkerPuts
<1> QED
  BY <1>1, <1>4, FurtherMovesOn

LEMMA StepIsMissed ==
  ASSUME B!BreakoutTypeOK, NEW w \in B!Worker, B!DeleteFails(w) \/ B!BooksFail(w)
  PROVE  B!BreakoutTypeOK' /\ Noted /\ Missed(w)
<1>1. /\ c7[w] \in B!Work /\ c8 \subseteq Excuses /\ c7 \in [B!Worker -> B!Work]
      /\ "books" \in Excuses /\ UNCHANGED <<c1, c2, c3, c4, c5, c6>>
  BY DEF B!BreakoutTypeOK, Excuses, B!DeleteFails, B!BooksFail
<1>2. ASSUME NEW at \in {"count", "drop"}, B!Wrong(w, [c7[w] EXCEPT !.at = at], "books")
      PROVE  c7' \in [B!Worker -> B!Work] /\ Moved(w, at) /\ Noted /\ "books" \in c8'
  BY <1>1, <1>2, WorkerErrsOn DEF B!Steps
<1>3. ASSUME NEW f \in B!Further(w), B!Wrong(w, f, "books")
      PROVE  c7' \in [B!Worker -> B!Work] /\ MovesOn(w) /\ Noted /\ "books" \in c8'
  <2>1. f \in B!Work
    BY <1>1, FurtherFields
  <2>2. c7' \in [B!Worker -> B!Work] /\ WorkersStay(w) /\ c7'[w] = f /\ Noted /\ "books" \in c8'
    BY <1>1, <1>3, <2>1, WorkerErrs
  <2> QED
    BY <1>1, <2>2, FurtherMovesOn
<1>4. \/ B!At(w, "end", "delete") /\ B!Wrong(w, [c7[w] EXCEPT !.at = "count"], "books")
      \/ B!At(w, "end", "purge") /\ B!Wrong(w, [c7[w] EXCEPT !.at = "drop"], "books")
      \/ /\ B!Does(w, "end") /\ c7[w].at \in {"count", "drop", "deactivate"}
         /\ \E f \in B!Further(w) : B!Wrong(w, f, "books")
  BY DEF B!DeleteFails, B!BooksFail, B!At, B!Does, B!IsBusy
<1>5. c7' \in [B!Worker -> B!Work] /\ Noted /\ Missed(w)
  BY <1>1, <1>2, <1>3, <1>4 DEF Missed
<1> QED
  BY <1>1, <1>5 DEF B!BreakoutTypeOK, Noted, Excuses

LEMMA RoomIsEnded ==
  ASSUME B!BreakoutTypeOK, NEW w \in B!Worker, B!EndOne(w), c7[w].room \in Breakout
  PROVE  B!BreakoutTypeOK' /\ Noted /\ Killed(w)
<1> DEFINE b == c7[w].room
           r == B!Cleanup(b)
           f == [c7[w] EXCEPT !.at = "delete"]
           u == [B!Idle EXCEPT !.at = "undo", !.job = "end", !.room = b]
           wk == B!Ended(b, [c7 EXCEPT ![w].at = "delete"])
           here == c1[b] \in {"created", "running"}
<1>1. /\ B!At(w, "end", "kill") /\ B!Becomes(wk) /\ UNCHANGED <<c2, c3, c4, c5, c6>>
      /\ c1' = [c1 EXCEPT ![b] = IF b \in B!Running THEN "ending" ELSE c1[b]]
  BY DEF B!EndOne
<1>2. b \in B!Room /\ r \in B!Worker /\ c7[w] \in B!Work /\ (b \in B!Running <=> here)
  BY BreakoutWorkers DEF B!BreakoutTypeOK, B!Running
<1>3. c1' \in [B!Room -> {"off", "created", "running", "ending"}] /\ RoomEnds(b)
  BY <1>1, <1>2 DEF B!BreakoutTypeOK, StatusStays, RoomEnds
<1>4. /\ f \in B!Work /\ f.at = "delete" /\ f.job = c7[w].job /\ f.room = b /\ f.todo = c7[w].todo
  BY <1>2 DEF B!Work, B!Steps
<1>5. u \in B!Work /\ u.at = "undo" /\ u.job = "end" /\ u.room = b
  BY <1>2, IdleIsWork DEF B!Idle, B!Work, B!Steps, B!Writing
<1>6. wk = [[c7 EXCEPT ![w] = f] EXCEPT ![r] = IF here THEN u ELSE [c7 EXCEPT ![w] = f][r]]
  BY <1>2 DEF B!Ended
<1>7. c7' = wk /\ Noted
  BY <1>1, OverlapsNoted DEF B!BreakoutTypeOK, Excuses
<1> HIDE DEF f, u, wk, r
<1>8. /\ c7' \in [B!Worker -> B!Work]
      /\ w # r \/ ~here => c7'[w] = f
      /\ \A v \in B!Worker : v # w /\ v # r => c7'[v] = c7[v]
      /\ IF here THEN c7'[r] = u ELSE w # r => c7'[r] = c7[r]
  <2>1. c7 \in [B!Worker -> B!Work]
    BY DEF B!BreakoutTypeOK
  <2> HIDE DEF here
  <2> QED
    BY <1>2, <1>4, <1>5, <1>6, <1>7, <2>1
<1>9. Killed(w)
  BY <1>1, <1>3, <1>4, <1>5, <1>8 DEF Killed, CleanupBegins, r, B!At
<1> QED
  BY <1>1, <1>3, <1>7, <1>8, <1>9 DEF B!BreakoutTypeOK, Noted, Excuses


LEMMA RoomIsNotEnded ==
  ASSUME B!BreakoutTypeOK, NEW w \in B!Worker, B!EndOneFails(w)
  PROVE  B!BreakoutTypeOK' /\ Noted /\ NotKilled(w)
<1>1. /\ B!At(w, "end", "kill") /\ B!Wrong(w, [c7[w] EXCEPT !.at = "delete"], "fault")
      /\ UNCHANGED <<c1, c2, c3, c4, c5, c6>>
  BY DEF B!EndOneFails
<1>2. c7' \in [B!Worker -> B!Work] /\ Moved(w, "delete") /\ Noted /\ "fault" \in c8'
  BY <1>1, WorkerErrsOn DEF B!BreakoutTypeOK, Excuses, B!Steps
<1> QED
  BY <1>1, <1>2 DEF B!BreakoutTypeOK, Noted, Excuses, NotKilled

LEMMA RoomIsDeleted ==
  ASSUME B!BreakoutTypeOK, NEW w \in B!Worker, B!DeleteBreakoutRoom(w)
  PROVE  B!BreakoutTypeOK' /\ Noted /\ Deleted(w)
<1> DEFINE b == c7[w].room
<1>1. /\ B!At(w, "end", "delete") /\ B!Goto(w, "count") /\ UNCHANGED <<c1, c2, c4, c5, c6>>
      /\ c3' = [c3 EXCEPT ![b] = B!NoRecord]
  BY DEF B!DeleteBreakoutRoom
<1>2. c3' \in [Breakout -> B!Record] /\ HashStays(b) /\ (b \in Breakout => ~c3'[b].there)
  BY <1>1, IdleIsWork DEF B!BreakoutTypeOK, HashStays
<1>3. c7' \in [B!Worker -> B!Work] /\ Moved(w, "count") /\ Noted
  BY <1>1, WorkerMoves DEF B!BreakoutTypeOK, Excuses, B!Steps
<1> QED
  BY <1>1, <1>2, <1>3 DEF B!BreakoutTypeOK, Deleted, Noted, Excuses

LEMMA RoomsAreCounted ==
  ASSUME B!BreakoutTypeOK, NEW w \in B!Worker, B!CountBreakoutRooms(w)
  PROVE  B!BreakoutTypeOK' /\ Noted /\ Counted(w)
<1>1. B!At(w, "end", "count") /\ UNCHANGED <<c1, c2, c3, c4, c5, c6>>
  BY DEF B!CountBreakoutRooms
<1>2. CASE (\E b \in Breakout : c3[b].there) /\ B!Onward(w)
  <2>1. c7' \in [B!Worker -> B!Work] /\ Noted /\ MovesOn(w)
    BY <1>2, WorkerMovesOn
  <2> QED
    BY <1>1, <1>2, <2>1 DEF B!BreakoutTypeOK, Counted, Noted, Excuses
<1>3. CASE (\A b \in Breakout : ~c3[b].there) /\ B!Goto(w, "purge")
  <2>1. c7' \in [B!Worker -> B!Work] /\ Moved(w, "purge") /\ Noted
    BY <1>3, WorkerMoves DEF B!BreakoutTypeOK, Excuses, B!Steps
  <2> QED
    BY <1>1, <1>3, <2>1 DEF B!BreakoutTypeOK, Counted, Noted, Excuses
<1> QED
  BY <1>2, <1>3 DEF B!CountBreakoutRooms

LEMMA HashIsPurged ==
  ASSUME B!BreakoutTypeOK, NEW w \in B!Worker, B!DeleteAll(w)
  PROVE  B!BreakoutTypeOK' /\ Noted /\ Purged(w)
<1>1. /\ B!At(w, "end", "purge") /\ B!Goto(w, "drop") /\ UNCHANGED <<c1, c2, c4, c5, c6>>
      /\ c3' = [b \in Breakout |-> B!NoRecord]
  BY DEF B!DeleteAll
<1>2. c3' \in [Breakout -> B!Record] /\ \A b \in Breakout : ~c3'[b].there
  BY <1>1, IdleIsWork
<1>3. c7' \in [B!Worker -> B!Work] /\ Moved(w, "drop") /\ Noted
  BY <1>1, WorkerMoves DEF B!BreakoutTypeOK, Excuses, B!Steps
<1> QED
  BY <1>1, <1>2, <1>3 DEF B!BreakoutTypeOK, Purged, Noted, Excuses

LEMMA FlagIsSeen ==
  ASSUME B!BreakoutTypeOK, NEW w \in B!Worker, B!ReadFlag(w)
  PROVE  B!BreakoutTypeOK' /\ Noted /\ Seen(w)
<1>1. B!At(w, "end", "drop") /\ UNCHANGED <<c1, c2, c3, c4, c5, c6>>
  BY DEF B!ReadFlag
<1>2. CASE c2 /\ c1["parent"] # "off" /\ B!Goto(w, "deactivate")
  <2>1. c7' \in [B!Worker -> B!Work] /\ Moved(w, "deactivate") /\ Noted
    BY <1>2, WorkerMoves DEF B!BreakoutTypeOK, Excuses, B!Steps
  <2> QED
    BY <1>1, <1>2, <2>1 DEF B!BreakoutTypeOK, Seen, Noted, Excuses
<1>3. CASE ~(c2 /\ c1["parent"] # "off") /\ B!Onward(w)
  <2>1. c7' \in [B!Worker -> B!Work] /\ Noted /\ MovesOn(w)
    BY <1>3, WorkerMovesOn
  <2> QED
    BY <1>1, <1>3, <2>1 DEF B!BreakoutTypeOK, Seen, Noted, Excuses
<1> QED
  BY <1>2, <1>3 DEF B!ReadFlag, B!Parent

LEMMA FlagIsDropped ==
  ASSUME B!BreakoutTypeOK, NEW w \in B!Worker, B!DropFlag(w)
  PROVE  B!BreakoutTypeOK' /\ Noted /\ Dropped(w)
<1>1. /\ B!At(w, "end", "deactivate") /\ B!Onward(w) /\ c2' = (c2 /\ c1["parent"] = "off")
      /\ UNCHANGED <<c1, c3, c4, c5, c6>>
  BY DEF B!DropFlag, B!Parent
<1>2. c7' \in [B!Worker -> B!Work] /\ Noted /\ MovesOn(w)
  BY <1>1, WorkerMovesOn
<1>3. c2' \in BOOLEAN
  BY <1>1
<1> QED
  BY <1>1, <1>2, <1>3 DEF B!BreakoutTypeOK, Dropped, Noted, Excuses

(* A room that ends, and its cleanup.                                      *)
Ending(r) ==
    /\ c1[r] \in {"created", "running"} /\ RoomEnds(r)
    /\ CleanupBegins(r) /\ WorkersStay(B!Cleanup(r))
    /\ UNCHANGED <<c2, c3, c4, c5, c6>>

Unlimited(r) ==
    /\ B!At(B!Cleanup(r), "end", "undo")
    /\ CheckerStays(r) /\ ~c4'[r].there /\ c4'[r].duration = 0
    /\ Moved(B!Cleanup(r), IF r = "parent" THEN "all" ELSE "delete")
    /\ UNCHANGED <<c1, c2, c3, c5, c6>>

KeyKept(r) ==
    /\ B!At(B!Cleanup(r), "end", "undo") /\ "clock" \in c8'
    /\ Moved(B!Cleanup(r), IF r = "parent" THEN "all" ELSE "delete")
    /\ UNCHANGED <<c1, c2, c3, c4, c5, c6>>

NotFollowed(r) ==
    LET w == B!Cleanup(r) IN
    /\ B!At(w, "end", IF r = "parent" THEN "all" ELSE "delete")
    /\ (IF r = "parent" THEN "fault" ELSE "books") \in c8'
    /\ WorkersStay(w) /\ c7'[w].at = "done" /\ c7'[w].job = "end" /\ c7'[w].todo = {}
    /\ UNCHANGED <<c1, c2, c3, c4, c5, c6>>

Overwritten(r) ==
    /\ \/ "books" \in c8' /\ c5' = c5
       \/ "clock" \in c8' /\ c2' = c2
    /\ c7' = c7
    /\ UNCHANGED <<c1, c3, c4, c6>>

Cleaned(r) ==
    /\ B!At(B!Cleanup(r), "end", "done")
    /\ StatusStays(r) /\ c1'[r] = "off" /\ GrantedStays(r) /\ Rests(B!Cleanup(r))
    /\ UNCHANGED <<c2, c3, c4, c6>>

Ticks == c6' \in Nat /\ c6' > c6 /\ UNCHANGED <<c1, c2, c3, c4, c5, c7, c8>>

LEMMA RoomIsEnding ==
  ASSUME B!BreakoutTypeOK, NEW r \in B!Room, B!EndRoom(r)
  PROVE  B!BreakoutTypeOK' /\ Noted /\ Ending(r)
<1> DEFINE w == B!Cleanup(r)
           u == [B!Idle EXCEPT !.at = "undo", !.job = "end", !.room = r]
<1>1. /\ r \in B!Running /\ c1' = [c1 EXCEPT ![r] = "ending"]
      /\ B!Becomes(B!Ended(r, c7)) /\ UNCHANGED <<c2, c3, c4, c5, c6>>
  BY DEF B!EndRoom
<1>2. w \in B!Worker
  BY BreakoutWorkers
<1>3. c1' \in [B!Room -> {"off", "created", "running", "ending"}] /\ RoomEnds(r)
      /\ c1[r] \in {"created", "running"}
  BY <1>1 DEF B!BreakoutTypeOK, StatusStays, RoomEnds, B!Running
<1>4. u \in B!Work /\ u.at = "undo" /\ u.job = "end" /\ u.room = r
  BY IdleIsWork DEF B!Idle, B!Work, B!Steps, B!Writing
<1>5. c7' = [c7 EXCEPT ![w] = u] /\ Noted
  <2>1. B!Ended(r, c7) = [c7 EXCEPT ![w] = u]
    BY <1>1 DEF B!Ended
  <2> QED
    BY <1>1, <2>1, OverlapsNoted DEF B!BreakoutTypeOK, Excuses
<1> HIDE DEF w, u
<1>6. c7' \in [B!Worker -> B!Work] /\ WorkersStay(w) /\ c7'[w] = u
  BY <1>2, <1>4, <1>5 DEF B!BreakoutTypeOK, WorkersStay
<1> QED
  BY <1>1, <1>3, <1>4, <1>5, <1>6
     DEF B!BreakoutTypeOK, Ending, CleanupBegins, Noted, Excuses, w

LEMMA RoomIsUnlimited ==
  ASSUME B!BreakoutTypeOK, NEW r \in B!Room, B!DeleteRoomWithDuration(r)
  PROVE  B!BreakoutTypeOK' /\ Noted /\ Unlimited(r)
<1> DEFINE w == B!Cleanup(r)
           at == IF r = "parent" THEN "all" ELSE "delete"
<1>1. /\ B!At(w, "end", "undo") /\ c4' = [c4 EXCEPT ![r] = B!NoKey] /\ B!Goto(w, at)
      /\ UNCHANGED <<c1, c2, c3, c5, c6>>
  BY DEF B!DeleteRoomWithDuration, B!Parent
<1>2. w \in B!Worker /\ at \in B!Steps
  BY BreakoutWorkers DEF B!Steps
<1>3. /\ B!NoKey \in [there : BOOLEAN, startedAt : 0 .. MaxTime, duration : Nat]
      /\ ~B!NoKey.there /\ B!NoKey.duration = 0
  BY BreakoutsAssumption DEF B!NoKey, BreakoutsAssumption
<1> HIDE DEF w, at
<1>4. /\ c4' \in [B!Room -> [there : BOOLEAN, startedAt : 0 .. MaxTime, duration : Nat]]
      /\ CheckerStays(r) /\ ~c4'[r].there /\ c4'[r].duration = 0
  BY <1>1, <1>3 DEF B!BreakoutTypeOK, CheckerStays
<1>5. c7' \in [B!Worker -> B!Work] /\ Moved(w, at) /\ Noted
  BY <1>1, <1>2, WorkerMoves DEF B!BreakoutTypeOK, Excuses
<1> QED
  BY <1>1, <1>4, <1>5 DEF B!BreakoutTypeOK, Unlimited, Noted, Excuses, w, at

LEMMA RoomIsCleaned ==
  ASSUME B!BreakoutTypeOK, NEW r \in B!Room, B!CleanupEnds(r)
  PROVE  B!BreakoutTypeOK' /\ Noted /\ Cleaned(r)
<1> DEFINE w == B!Cleanup(r)
<1>1. /\ B!At(w, "end", "done") /\ c1' = [c1 EXCEPT ![r] = "off"] /\ c5' = [c5 EXCEPT ![r] = 0]
      /\ B!Put(w, B!Idle) /\ UNCHANGED <<c2, c3, c4, c6>>
  BY DEF B!CleanupEnds
<1>2. w \in B!Worker
  BY BreakoutWorkers
<1> HIDE DEF w
<1>3. /\ c1' \in [B!Room -> {"off", "created", "running", "ending"}] /\ StatusStays(r)
      /\ c1'[r] = "off" /\ c5' \in [B!Room -> Nat] /\ GrantedStays(r)
  BY <1>1 DEF B!BreakoutTypeOK, StatusStays, GrantedStays
<1>4. c7' \in [B!Worker -> B!Work] /\ WorkersStay(w) /\ c7'[w] = B!Idle /\ Noted
  BY <1>1, <1>2, IdleIsWork, WorkerPuts DEF B!BreakoutTypeOK, Excuses
<1> QED
  BY <1>1, <1>3, <1>4, IdleIsWork DEF B!BreakoutTypeOK, Cleaned, Rests, Noted, Excuses, w

LEMMA KeyIsKept ==
  ASSUME B!BreakoutTypeOK, NEW r \in B!Room, B!KeyStays(r)
  PROVE  B!BreakoutTypeOK' /\ Noted /\ KeyKept(r)
<1> DEFINE w == B!Cleanup(r)
           at == IF r = "parent" THEN "all" ELSE "delete"
<1>1. /\ B!At(w, "end", "undo") /\ B!Wrong(w, [c7[w] EXCEPT !.at = at], "clock")
      /\ UNCHANGED <<c1, c2, c3, c4, c5, c6>>
  BY DEF B!KeyStays, B!Parent
<1>2. w \in B!Worker /\ at \in B!Steps
  BY BreakoutWorkers DEF B!Steps
<1> HIDE DEF w, at
<1>3. c7' \in [B!Worker -> B!Work] /\ Moved(w, at) /\ Noted /\ "clock" \in c8'
  BY <1>1, <1>2, WorkerErrsOn DEF B!BreakoutTypeOK, Excuses
<1> QED
  BY <1>1, <1>3 DEF B!BreakoutTypeOK, KeyKept, Noted, Excuses, w, at

LEMMA RoomIsNotFollowed ==
  ASSUME B!BreakoutTypeOK, NEW r \in B!Room, B!PostTaskFails(r)
  PROVE  B!BreakoutTypeOK' /\ Noted /\ NotFollowed(r)
<1> DEFINE w == B!Cleanup(r)
           wrong == IF r = "parent" THEN "fault" ELSE "books"
           f == [c7[w] EXCEPT !.at = "done", !.todo = {}]
<1>1. /\ B!At(w, "end", IF r = "parent" THEN "all" ELSE "delete") /\ B!Wrong(w, f, wrong)
      /\ UNCHANGED <<c1, c2, c3, c4, c5, c6>>
  BY DEF B!PostTaskFails, B!Parent
<1>2. w \in B!Worker /\ c7[w] \in B!Work /\ wrong \in Excuses
  BY BreakoutWorkers DEF B!BreakoutTypeOK, Excuses
<1>3. f \in B!Work /\ f.at = "done" /\ f.job = c7[w].job /\ f.todo = {}
  BY <1>2 DEF B!Work, B!Steps
<1> HIDE DEF w, wrong, f
<1>4. c7' \in [B!Worker -> B!Work] /\ WorkersStay(w) /\ c7'[w] = f /\ Noted /\ wrong \in c8'
  BY <1>1, <1>2, <1>3, WorkerErrs DEF B!BreakoutTypeOK, Excuses
<1>5. NotFollowed(r)
  BY <1>1, <1>3, <1>4 DEF NotFollowed, B!At, w, wrong
<1> QED
  BY <1>1, <1>4, <1>5 DEF B!BreakoutTypeOK, Noted, Excuses

LEMMA MetadataIsOverwritten ==
  ASSUME B!BreakoutTypeOK, NEW r \in B!Room, B!OtherRequest(r)
  PROVE  B!BreakoutTypeOK' /\ Noted /\ Overwritten(r)
<1>1. c8 \subseteq Excuses /\ {"books"} \in SUBSET Excuses /\ {"clock"} \in SUBSET Excuses
  BY DEF B!BreakoutTypeOK, Excuses
<1>2. UNCHANGED <<c1, c3, c4, c6>>
  BY DEF B!OtherRequest
<1>3. CASE c2' = ~c2 /\ c5' = c5 /\ B!Notes(c7, {"books"})
  <2>1. c7' = c7 /\ Noted /\ "books" \in c8'
    BY <1>1, <1>3, WrongsNoted
  <2> QED
    BY <1>2, <1>3, <2>1 DEF B!BreakoutTypeOK, Noted, Excuses, Overwritten
<1>4. CASE c5' = [c5 EXCEPT ![r] = BkDuration] /\ c2' = c2 /\ B!Notes(c7, {"clock"})
  <2>1. c7' = c7 /\ Noted /\ "clock" \in c8'
    BY <1>1, <1>4, WrongsNoted
  <2>2. c5' \in [B!Room -> Nat]
    BY <1>4, BreakoutsAssumption DEF B!BreakoutTypeOK, BreakoutsAssumption
  <2> QED
    BY <1>2, <1>4, <2>1, <2>2 DEF B!BreakoutTypeOK, Noted, Excuses, Overwritten
<1> QED
  BY <1>3, <1>4 DEF B!OtherRequest

LEMMA TimeMovesOn ==
  ASSUME B!BreakoutTypeOK, B!OverlapsAreMixed, B!Tick
  PROVE  B!BreakoutTypeOK' /\ Noted /\ Ticks
<1>1. /\ c6 < MaxTime /\ c6' = c6 + 1 /\ UNCHANGED <<c1, c2, c3, c4, c5, c7, c8>>
      /\ c6 \in 0 .. MaxTime /\ MaxTime \in Nat
  BY BreakoutsAssumption DEF B!Tick, B!BreakoutTypeOK, BreakoutsAssumption
<1>2. c6' \in 0 .. MaxTime /\ Ticks
  BY <1>1 DEF Ticks
<1>3. B!OverlapsAreMixed'
  BY <1>1 DEF B!OverlapsAreMixed, B!Does, B!Timing, B!IsBusy
<1> QED
  BY <1>1, <1>2, <1>3 DEF B!BreakoutTypeOK, Noted, Excuses

BreakoutDoes ==
    \/ \E w \in Handler :
         \/ CreateBegun(w) \/ (\E b \in Breakout : RoomMade(w, b)) \/ NotMade(w)
         \/ Inserted(w) \/ Created(w) \/ GivesUp(w)
         \/ \E b \in Breakout : IncreaseBegun(w, b) \/ EndBegun(w, b)
         \/ Informed(w) \/ Compared(w) \/ Grown(w) \/ Granted(w) \/ TakenBack(w) \/ Kept(w)
         \/ c7[w].at = "idle" /\ AllBegun(w)
    \/ \E b \in Breakout : Opened(b) \/ Limiting(b) \/ Fetched(b) \/ Stored(b) \/ Announced(b)
                           \/ Skipped(b)
    \/ \E w \in B!Worker :
         \/ Killed(w) \/ NotKilled(w) \/ Deleted(w) \/ Counted(w) \/ Purged(w)
         \/ Seen(w) \/ Dropped(w) \/ Missed(w)
    \/ \E r \in B!Room : Ending(r) \/ Unlimited(r) \/ Cleaned(r)
                         \/ KeyKept(r) \/ NotFollowed(r) \/ Overwritten(r)
    \/ B!At(B!Cleanup("parent"), "end", "all") /\ AllBegun(B!Cleanup("parent"))
    \/ Ticks

(* Every step does one of these, keeps the types and notes the overlaps.   *)
LEMMA BreakoutStep ==
  ASSUME B!BreakoutTypeOK, B!OverlapsAreMixed, B!WorkersKeepToRooms, B!BreakoutNext
  PROVE  B!BreakoutTypeOK' /\ Noted /\ BreakoutDoes
<1>1. ASSUME NEW w \in Handler, NEW rooms \in SUBSET Breakout, B!CreateBreakoutRooms(w, rooms)
      PROVE  B!BreakoutTypeOK' /\ Noted /\ BreakoutDoes
  BY <1>1, CreateBegins DEF BreakoutDoes
<1>2. ASSUME NEW w \in Handler, B!CreateOne(w)
      PROVE  B!BreakoutTypeOK' /\ Noted /\ BreakoutDoes
  BY <1>2, RoomIsMade DEF BreakoutDoes
<1>19. ASSUME NEW w \in Handler,
              \/ B!InsertFails(w) \/ B!FlagFails(w) \/ B!IncreaseFails(w) \/ B!IncreaseStays(w)
       PROVE  B!BreakoutTypeOK' /\ Noted /\ BreakoutDoes
  BY <1>19, RoomIsNotInserted, RequestGivesUp DEF BreakoutDoes
<1>20. ASSUME NEW b \in Breakout, B!StartStepFails(b)
       PROVE  B!BreakoutTypeOK' /\ Noted /\ BreakoutDoes
  BY <1>20, StepIsSkipped DEF BreakoutDoes
<1>21. ASSUME NEW w \in B!Worker, B!DeleteFails(w) \/ B!BooksFail(w)
       PROVE  B!BreakoutTypeOK' /\ Noted /\ BreakoutDoes
  BY <1>21, StepIsMissed DEF BreakoutDoes
<1>22. ASSUME NEW r \in B!Room, B!KeyStays(r) \/ B!PostTaskFails(r) \/ B!OtherRequest(r)
       PROVE  B!BreakoutTypeOK' /\ Noted /\ BreakoutDoes
  BY <1>22, KeyIsKept, RoomIsNotFollowed, MetadataIsOverwritten DEF BreakoutDoes
<1>3. ASSUME NEW w \in Handler, B!CreateFails(w) \/ B!Insert(w) \/ B!CreateEnds(w)
      PROVE  B!BreakoutTypeOK' /\ Noted /\ BreakoutDoes
  BY <1>3, RoomIsNotMade, RoomIsInserted, CreateReturns DEF BreakoutDoes
<1>4. ASSUME NEW w \in Handler, NEW b \in Breakout,
             B!IncreaseBreakoutRoomDuration(w, b) \/ B!EndBreakoutRoom(w, b)
      PROVE  B!BreakoutTypeOK' /\ Noted /\ BreakoutDoes
  BY <1>4, IncreaseBegins, EndBegins DEF BreakoutDoes
<1>5. ASSUME NEW w \in Handler,
             B!GetRoomDurationInfo(w) \/ B!Compare(w) \/ B!UpdateRoomDuration(w)
      PROVE  B!BreakoutTypeOK' /\ Noted /\ BreakoutDoes
  BY <1>5, RequestIsInformed, RequestCompares, DurationGrows DEF BreakoutDoes
<1>6. ASSUME NEW w \in Handler, B!PutDuration(w) \/ B!StoreDuration(w)
      PROVE  B!BreakoutTypeOK' /\ Noted /\ BreakoutDoes
  BY <1>6, DurationIsPut, DurationIsStored DEF BreakoutDoes
<1>7. ASSUME NEW w \in Handler, B!SetRoomDuration(w)
      PROVE  B!BreakoutTypeOK' /\ Noted /\ BreakoutDoes
  <2>1. w \in B!Worker /\ B!At(w, "increase", "meta") /\ c7[w].had \in Nat /\ Increase \in Nat
    BY <1>7, BreakoutWorkers, WorkFields, BreakoutsAssumption
       DEF B!SetRoomDuration, B!BreakoutTypeOK, BreakoutsAssumption
  <2>2. c7[w].had - Increase \in Nat
    BY <2>1 DEF B!WorkersKeepToRooms, B!WorkerKeeps
  <2> QED
    BY <1>7, <2>2, DurationIsTakenBack DEF BreakoutDoes
<1>8. ASSUME NEW w \in Handler, B!EndAllBreakoutRoomsByParentRoomId(w)
      PROVE  B!BreakoutTypeOK' /\ Noted /\ BreakoutDoes
  BY <1>8, AllBegins, BreakoutWorkers DEF BreakoutDoes, B!EndAllBreakoutRoomsByParentRoomId
<1>9. ASSUME NEW b \in Breakout, B!RoomStarted(b) \/ B!AddDuration(b) \/ B!FetchRecord(b)
      PROVE  B!BreakoutTypeOK' /\ Noted /\ BreakoutDoes
  BY <1>9, RoomOpens, DurationIsAdded, RecordIsFetched DEF BreakoutDoes
<1>10. ASSUME NEW b \in Breakout, B!StoreRecord(b) \/ B!PutStarted(b)
       PROVE  B!BreakoutTypeOK' /\ Noted /\ BreakoutDoes
  BY <1>10, RecordIsStored, RoomIsAnnounced DEF BreakoutDoes
<1>11. ASSUME NEW w \in B!Worker, B!EndOne(w)
       PROVE  B!BreakoutTypeOK' /\ Noted /\ BreakoutDoes
  <2>1. c7[w].room \in Breakout
    BY <1>11 DEF B!EndOne, B!WorkersKeepToRooms, B!WorkerKeeps
  <2> QED
    BY <1>11, <2>1, RoomIsEnded DEF BreakoutDoes
<1>12. ASSUME NEW w \in B!Worker, B!EndOneFails(w) \/ B!DeleteBreakoutRoom(w)
       PROVE  B!BreakoutTypeOK' /\ Noted /\ BreakoutDoes
  BY <1>12, RoomIsNotEnded, RoomIsDeleted DEF BreakoutDoes
<1>13. ASSUME NEW w \in B!Worker, B!CountBreakoutRooms(w) \/ B!DeleteAll(w)
       PROVE  B!BreakoutTypeOK' /\ Noted /\ BreakoutDoes
  BY <1>13, RoomsAreCounted, HashIsPurged DEF BreakoutDoes
<1>14. ASSUME NEW w \in B!Worker, B!ReadFlag(w) \/ B!DropFlag(w)
       PROVE  B!BreakoutTypeOK' /\ Noted /\ BreakoutDoes
  BY <1>14, FlagIsSeen, FlagIsDropped DEF BreakoutDoes
<1>15. ASSUME NEW r \in B!Room, B!EndRoom(r) \/ B!checkRoomWithDuration(r)
       PROVE  B!BreakoutTypeOK' /\ Noted /\ BreakoutDoes
  BY <1>15, RoomIsEnding DEF BreakoutDoes, B!checkRoomWithDuration
<1>16. ASSUME NEW r \in B!Room, B!DeleteRoomWithDuration(r) \/ B!CleanupEnds(r)
       PROVE  B!BreakoutTypeOK' /\ Noted /\ BreakoutDoes
  BY <1>16, RoomIsUnlimited, RoomIsCleaned DEF BreakoutDoes
<1>17. CASE B!PostTaskAfterRoomEnd
  BY <1>17, AllBegins, BreakoutWorkers DEF BreakoutDoes, B!PostTaskAfterRoomEnd, B!Parent
<1>18. CASE B!Tick
  BY <1>18, TimeMovesOn DEF BreakoutDoes
<1> QED
  BY <1>1, <1>2, <1>3, <1>4, <1>5, <1>6, <1>7, <1>8, <1>9, <1>10, <1>11, <1>12, <1>13, <1>14,
     <1>15, <1>16, <1>17, <1>18, <1>19, <1>20, <1>21, <1>22 DEF B!BreakoutNext

LEMMA WorkersFrame ==
  ASSUME B!WorkersKeepToRooms, NEW w \in B!Worker, WorkersStay(w), B!WorkerKeeps(w)',
         \A r \in B!Room : (c1'[r] = c1[r] /\ w # B!Cleanup(r)) \/ B!CleanupKeeps(r)',
         c1'["parent"] # "created"
  PROVE  B!WorkersKeepToRooms'
<1>1. ASSUME NEW v \in B!Worker PROVE B!WorkerKeeps(v)'
  <2>1. CASE v = w
    BY <2>1
  <2>2. CASE v # w
    BY <2>2 DEF B!WorkersKeepToRooms, B!WorkerKeeps, WorkersStay, B!Timing, B!Does, B!At, B!IsBusy
  <2> QED
    BY <2>1, <2>2
<1>2. ASSUME NEW r \in B!Room PROVE B!CleanupKeeps(r)'
  <2>1. CASE c1'[r] = c1[r] /\ w # B!Cleanup(r)
    BY <2>1, BreakoutWorkers DEF B!WorkersKeepToRooms, B!CleanupKeeps, WorkersStay, B!At, B!IsBusy
  <2> QED
    BY <2>1
<1> QED
  BY <1>1, <1>2 DEF B!WorkersKeepToRooms, B!Parent

(* A step of a worker that is no cleanup, or of one at work on an end.       *)
LEMMA OutsiderFrame ==
  ASSUME B!WorkersKeepToRooms, NEW w \in B!Worker, \A r \in B!Room : w # B!Cleanup(r),
         WorkersStay(w), B!WorkerKeeps(w)', c1' = c1
  PROVE  B!WorkersKeepToRooms'
BY WorkersFrame DEF B!WorkersKeepToRooms, B!Parent

LEMMA EnderFrame ==
  ASSUME B!WorkersKeepToRooms, NEW w \in B!Worker, B!Does(w, "end"),
         w \notin Handler => B!Does(w, "end")' /\ c7'[w].at # "undo",
         WorkersStay(w), B!WorkerKeeps(w)', c1' = c1
  PROVE  B!WorkersKeepToRooms'
<1>1. \A r \in B!Room : (c1'[r] = c1[r] /\ w # B!Cleanup(r)) \/ B!CleanupKeeps(r)'
  BY BreakoutWorkers DEF B!WorkersKeepToRooms, B!CleanupKeeps, B!Does, B!At, B!IsBusy
<1> QED
  BY <1>1, WorkersFrame DEF B!WorkersKeepToRooms, B!Parent

(* Workers keep to their rooms.                                            *)
LEMMA WorkersStillKeep ==
  ASSUME B!BreakoutTypeOK, B!BreakoutTypeOK', B!WorkersKeepToRooms, BreakoutDoes
  PROVE  B!WorkersKeepToRooms'
<1>1. ASSUME NEW w \in Handler, CreateBegun(w) PROVE B!WorkersKeepToRooms'
  <2>1. B!WorkerKeeps(w)'
    BY <1>1, BreakoutWorkers
    DEF CreateBegun, B!WorkersKeepToRooms, B!WorkerKeeps, B!At, B!Does, B!IsBusy, B!Timing
  <2> QED
    BY <1>1, <2>1, OutsiderFrame, BreakoutWorkers DEF CreateBegun
<1>2. ASSUME NEW w \in Handler, NEW b \in Breakout, RoomMade(w, b)
      PROVE  B!WorkersKeepToRooms'
  <2>1. w \in B!Worker /\ WorkersStay(w) /\ B!WorkerKeeps(w)
    BY <1>2, BreakoutWorkers
       DEF RoomMade, B!WorkersKeepToRooms
  <2>2. B!WorkerKeeps(w)'
    BY <1>2, <2>1, BreakoutWorkers
       DEF RoomMade, B!WorkerKeeps, B!At, B!Does, B!IsBusy, B!Timing
  <2>3. \A q \in B!Room : (c1'[q] = c1[q] /\ w # B!Cleanup(q)) \/ B!CleanupKeeps(q)'
    BY <1>2, BreakoutWorkers
       DEF RoomMade, WorkersStay, StatusStays, B!WorkersKeepToRooms, B!CleanupKeeps, B!At,
           B!IsBusy
  <2>4. c1'["parent"] # "created"
    BY <1>2, BreakoutWorkers
       DEF RoomMade, StatusStays, B!WorkersKeepToRooms, B!Parent
  <2> QED
    BY <2>1, <2>2, <2>3, <2>4, WorkersFrame
<1>3. ASSUME NEW w \in Handler, NotMade(w) PROVE B!WorkersKeepToRooms'
  <2>1. B!WorkerKeeps(w)'
    BY <1>3, BreakoutWorkers
    DEF NotMade, B!WorkersKeepToRooms, B!WorkerKeeps, B!At, B!Does, B!IsBusy, B!Timing
  <2> QED
    BY <1>3, <2>1, OutsiderFrame, BreakoutWorkers DEF NotMade
<1>4. ASSUME NEW w \in Handler, Inserted(w) PROVE B!WorkersKeepToRooms'
  <2>1. B!WorkerKeeps(w)'
    BY <1>4, BreakoutWorkers
    DEF Inserted, B!WorkersKeepToRooms, B!WorkerKeeps, B!At, B!Does, B!IsBusy, B!Timing
  <2> QED
    BY <1>4, <2>1, OutsiderFrame, BreakoutWorkers DEF Inserted
<1>5. ASSUME NEW w \in Handler, Created(w) PROVE B!WorkersKeepToRooms'
  <2>1. B!WorkerKeeps(w)'
    BY <1>5, BreakoutWorkers
    DEF Created, Rests, B!WorkersKeepToRooms, B!WorkerKeeps, B!At, B!Does, B!IsBusy,
        B!Timing
  <2> QED
    BY <1>5, <2>1, OutsiderFrame, BreakoutWorkers DEF Created, Rests
<1>6. ASSUME NEW w \in Handler, NEW b \in Breakout, IncreaseBegun(w, b)
      PROVE  B!WorkersKeepToRooms'
  <2>1. B!WorkerKeeps(w)'
    BY <1>6, BreakoutWorkers
    DEF IncreaseBegun, B!WorkersKeepToRooms, B!WorkerKeeps, B!At, B!Does, B!IsBusy,
        B!Timing
  <2> QED
    BY <1>6, <2>1, OutsiderFrame, BreakoutWorkers DEF IncreaseBegun
<1>7. ASSUME NEW w \in Handler, NEW b \in Breakout, EndBegun(w, b)
      PROVE  B!WorkersKeepToRooms'
  <2>1. B!WorkerKeeps(w)'
    BY <1>7, BreakoutWorkers
    DEF EndBegun, B!WorkersKeepToRooms, B!WorkerKeeps, B!At, B!Does, B!IsBusy, B!Timing
  <2> QED
    BY <1>7, <2>1, OutsiderFrame, BreakoutWorkers DEF EndBegun
<1>8. ASSUME NEW w \in Handler, Informed(w) PROVE B!WorkersKeepToRooms'
  <2>1. B!WorkerKeeps(w)'
    BY <1>8, BreakoutWorkers
    DEF Informed, Rests, Stays, B!WorkersKeepToRooms, B!WorkerKeeps, B!At, B!Does,
        B!IsBusy, B!Timing
  <2> QED
    BY <1>8, <2>1, OutsiderFrame, BreakoutWorkers DEF Informed, Rests, Stays
<1>9. ASSUME NEW w \in Handler, Compared(w) PROVE B!WorkersKeepToRooms'
  <2>1. B!WorkerKeeps(w)'
    BY <1>9, BreakoutWorkers
    DEF Compared, Rests, Moved, B!WorkersKeepToRooms, B!WorkerKeeps, B!At, B!Does,
        B!IsBusy, B!Timing
  <2> QED
    BY <1>9, <2>1, OutsiderFrame, BreakoutWorkers DEF Compared, Rests, Moved
<1>10. ASSUME NEW w \in Handler, Grown(w) PROVE B!WorkersKeepToRooms'
  <2>1. c7[w].room \in B!Room /\ c4[c7[w].room].duration \in Nat /\ Increase \in Nat
    BY BreakoutWorkers, WorkFields, KeyFields, BreakoutsAssumption
       DEF B!BreakoutTypeOK, BreakoutsAssumption
  <2>2. B!WorkerKeeps(w)'
    BY <1>10, <2>1, BreakoutWorkers
    DEF Grown, Stays, B!WorkersKeepToRooms, B!WorkerKeeps, B!At, B!Does, B!IsBusy, B!Timing
  <2> QED
    BY <1>10, <2>2, OutsiderFrame, BreakoutWorkers DEF Grown, Stays
<1>11. ASSUME NEW w \in Handler, Granted(w) PROVE B!WorkersKeepToRooms'
  <2>1. B!WorkerKeeps(w)'
    BY <1>11, BreakoutWorkers
    DEF Granted, Moved, B!WorkersKeepToRooms, B!WorkerKeeps, B!At, B!Does, B!IsBusy,
        B!Timing
  <2> QED
    BY <1>11, <2>1, OutsiderFrame, BreakoutWorkers DEF Granted, Moved
<1>12. ASSUME NEW w \in Handler, TakenBack(w) PROVE B!WorkersKeepToRooms'
  <2>1. B!WorkerKeeps(w)'
    BY <1>12, BreakoutWorkers
    DEF TakenBack, Rests, B!WorkersKeepToRooms, B!WorkerKeeps, B!At, B!Does, B!IsBusy,
        B!Timing
  <2> QED
    BY <1>12, <2>1, OutsiderFrame, BreakoutWorkers DEF TakenBack, Rests
<1>13. ASSUME NEW w \in Handler, Kept(w) PROVE B!WorkersKeepToRooms'
  <2>1. B!WorkerKeeps(w)'
    BY <1>13, BreakoutWorkers
    DEF Kept, Rests, B!WorkersKeepToRooms, B!WorkerKeeps, B!At, B!Does, B!IsBusy, B!Timing
  <2> QED
    BY <1>13, <2>1, OutsiderFrame, BreakoutWorkers DEF Kept, Rests
<1>14. ASSUME NEW w \in Handler, c7[w].at = "idle", AllBegun(w) PROVE B!WorkersKeepToRooms'
  <2>1. B!WorkerKeeps(w)'
    BY <1>14, BreakoutWorkers
    DEF AllBegun, B!WorkersKeepToRooms, B!WorkerKeeps, B!At, B!Does, B!IsBusy, B!Timing
  <2> QED
    BY <1>14, <2>1, OutsiderFrame, BreakoutWorkers DEF AllBegun
<1>15. ASSUME NEW b \in Breakout, Opened(b)
       PROVE  B!WorkersKeepToRooms'
  <2>1. B!Started(b) \in B!Worker /\ WorkersStay(B!Started(b)) /\ B!WorkerKeeps(B!Started(b))
    BY <1>15, BreakoutWorkers
       DEF Opened, B!WorkersKeepToRooms
  <2>2. B!WorkerKeeps(B!Started(b))'
    BY <1>15, <2>1, BreakoutWorkers
       DEF Opened, B!WorkerKeeps, B!At, B!Does, B!IsBusy, B!Timing
  <2>3. \A q \in B!Room : (c1'[q] = c1[q] /\ B!Started(b) # B!Cleanup(q)) \/ B!CleanupKeeps(q)'
    BY <1>15, BreakoutWorkers
       DEF Opened, WorkersStay, StatusStays, B!WorkersKeepToRooms, B!CleanupKeeps, B!At,
           B!IsBusy
  <2>4. c1'["parent"] # "created"
    BY <1>15, BreakoutWorkers
       DEF Opened, StatusStays, B!WorkersKeepToRooms, B!Parent
  <2> QED
    BY <2>1, <2>2, <2>3, <2>4, WorkersFrame
<1>16. ASSUME NEW b \in Breakout, Limiting(b) PROVE B!WorkersKeepToRooms'
  <2>1. B!WorkerKeeps(B!Started(b))'
    BY <1>16, BreakoutWorkers
    DEF Limiting, Moved, B!WorkersKeepToRooms, B!WorkerKeeps, B!At, B!Does, B!IsBusy,
        B!Timing
  <2> QED
    BY <1>16, <2>1, OutsiderFrame, BreakoutWorkers DEF Limiting, Moved
<1>17. ASSUME NEW b \in Breakout, Fetched(b) PROVE B!WorkersKeepToRooms'
  <2>1. B!WorkerKeeps(B!Started(b))'
    BY <1>17, BreakoutWorkers
    DEF Fetched, B!WorkersKeepToRooms, B!WorkerKeeps, B!At, B!Does, B!IsBusy, B!Timing
  <2> QED
    BY <1>17, <2>1, OutsiderFrame, BreakoutWorkers DEF Fetched
<1>18. ASSUME NEW b \in Breakout, Stored(b) PROVE B!WorkersKeepToRooms'
  <2>1. B!WorkerKeeps(B!Started(b))'
    BY <1>18, BreakoutWorkers
    DEF Stored, B!WorkersKeepToRooms, B!WorkerKeeps, B!At, B!Does, B!IsBusy, B!Timing
  <2> QED
    BY <1>18, <2>1, OutsiderFrame, BreakoutWorkers DEF Stored
<1>19. ASSUME NEW b \in Breakout, Announced(b) PROVE B!WorkersKeepToRooms'
  <2>1. B!WorkerKeeps(B!Started(b))'
    BY <1>19, BreakoutWorkers
    DEF Announced, Rests, B!WorkersKeepToRooms, B!WorkerKeeps, B!At, B!Does, B!IsBusy,
        B!Timing
  <2> QED
    BY <1>19, <2>1, OutsiderFrame, BreakoutWorkers DEF Announced, Rests
<1>20. ASSUME NEW w \in B!Worker, Killed(w)
       PROVE  B!WorkersKeepToRooms'
  <2>a. PICK b \in Breakout : b = c7[w].room
    BY <1>20 DEF Killed, B!WorkersKeepToRooms, B!WorkerKeeps
  <2> DEFINE here == c1[b] \in {"created", "running"}
  <2>1. /\ b \in Breakout /\ B!At(w, "end", "kill") /\ b \in B!Room /\ B!Cleanup(b) \in B!Worker
        /\ \A v \in B!Worker : B!WorkerKeeps(v)
        /\ \A r \in B!Room : B!CleanupKeeps(r)
    BY <1>20, BreakoutWorkers DEF Killed, B!WorkersKeepToRooms, B!WorkerKeeps
  <2>2. /\ RoomEnds(b) /\ \A v \in B!Worker : v # w /\ v # B!Cleanup(b) => c7'[v] = c7[v]
        /\ w # B!Cleanup(b) \/ ~here =>
             /\ c7'[w].at = "delete" /\ c7'[w].job = "end" /\ c7'[w].room = b
             /\ c7'[w].todo = c7[w].todo
        /\ here => CleanupBegins(b)
        /\ ~here /\ w # B!Cleanup(b) => c7'[B!Cleanup(b)] = c7[B!Cleanup(b)]
    BY <1>20, <2>a DEF Killed
  <2> HIDE DEF here
  <2>3. ASSUME NEW v \in B!Worker, v # w, c7'[v] = c7[v] PROVE B!WorkerKeeps(v)'
    BY <2>1, <2>3 DEF B!WorkerKeeps, B!At, B!Does, B!IsBusy, B!Timing
  <2>4. ASSUME NEW v \in B!Worker, v = w \/ v = B!Cleanup(b) PROVE B!WorkerKeeps(v)'
    <3>1. CASE v = B!Cleanup(b) /\ here
      BY <2>2, <3>1 DEF CleanupBegins, B!WorkerKeeps, B!At, B!Does, B!IsBusy, B!Timing
    <3>2. CASE v = w /\ (w # B!Cleanup(b) \/ ~here)
      BY <2>1, <2>2, <3>2 DEF B!WorkerKeeps, B!At, B!Does, B!IsBusy, B!Timing
    <3>3. CASE v # w /\ ~here
      BY <2>2, <2>3, <2>4, <3>3
    <3> QED
      BY <2>4, <3>1, <3>2, <3>3
  <2>5. B!CleanupKeeps(b)'
    <3>1. CASE here
      <4>1. c1'[b] = "ending"
        BY <2>2, <3>1 DEF RoomEnds, here
      <4> QED
        BY <2>2, <3>1, <4>1 DEF CleanupBegins, B!CleanupKeeps, B!At, B!IsBusy
    <3>2. CASE ~here
      <4>1. c1'[b] = c1[b]
        BY <2>2, <3>2 DEF RoomEnds, here
      <4> QED
        BY <2>1, <2>2, <3>2, <4>1 DEF B!CleanupKeeps, B!At, B!IsBusy
    <3> QED
      BY <3>1, <3>2
  <2>6. ASSUME NEW r \in B!Room, r # b PROVE B!CleanupKeeps(r)'
    <3>1. c1'[r] = c1[r] /\ B!Cleanup(r) \in B!Worker /\ B!Cleanup(r) # B!Cleanup(b)
      BY <2>1, <2>2, <2>6, BreakoutWorkers DEF RoomEnds, StatusStays
    <3>2. CASE w = B!Cleanup(r)
      BY <2>1, <2>2, <3>1, <3>2 DEF B!CleanupKeeps, B!At, B!IsBusy
    <3>3. CASE w # B!Cleanup(r)
      BY <2>1, <2>2, <3>1, <3>3 DEF B!CleanupKeeps, B!At, B!IsBusy
    <3> QED
      BY <3>2, <3>3
  <2>7. c1'["parent"] # "created"
    BY <2>1, <2>2, BreakoutWorkers DEF RoomEnds, StatusStays, B!WorkersKeepToRooms, B!Parent
  <2> QED
    BY <2>2, <2>3, <2>4, <2>5, <2>6, <2>7 DEF B!WorkersKeepToRooms, B!Parent
<1>21. ASSUME NEW w \in B!Worker, NotKilled(w) PROVE B!WorkersKeepToRooms'
  <2>1. B!WorkerKeeps(w)'
    BY <1>21, BreakoutWorkers
    DEF NotKilled, Moved, B!WorkersKeepToRooms, B!WorkerKeeps, B!At, B!Does, B!IsBusy,
        B!Timing
  <2> QED
    BY <1>21, <2>1, EnderFrame, BreakoutWorkers
    DEF NotKilled, Moved, B!At, B!Does, B!IsBusy
<1>22. ASSUME NEW w \in B!Worker, Deleted(w) PROVE B!WorkersKeepToRooms'
  <2>1. B!WorkerKeeps(w)'
    BY <1>22, BreakoutWorkers
    DEF Deleted, Moved, B!WorkersKeepToRooms, B!WorkerKeeps, B!At, B!Does, B!IsBusy,
        B!Timing
  <2> QED
    BY <1>22, <2>1, EnderFrame, BreakoutWorkers
    DEF Deleted, Moved, B!At, B!Does, B!IsBusy
<1>23. ASSUME NEW w \in B!Worker, Counted(w) PROVE B!WorkersKeepToRooms'
  <2>1. c7[w].todo \subseteq Breakout
    BY WorkFields DEF B!BreakoutTypeOK
  <2>2. B!WorkerKeeps(w)'
    BY <1>23, <2>1, BreakoutWorkers
    DEF Counted, Moved, MovesOn, B!WorkersKeepToRooms, B!WorkerKeeps, B!At, B!Does,
        B!IsBusy, B!Timing
  <2> QED
    BY <1>23, <2>2, EnderFrame, BreakoutWorkers
    DEF Counted, Moved, MovesOn, B!At, B!Does, B!IsBusy
<1>24. ASSUME NEW w \in B!Worker, Purged(w) PROVE B!WorkersKeepToRooms'
  <2>1. B!WorkerKeeps(w)'
    BY <1>24, BreakoutWorkers
    DEF Purged, Moved, B!WorkersKeepToRooms, B!WorkerKeeps, B!At, B!Does, B!IsBusy,
        B!Timing
  <2> QED
    BY <1>24, <2>1, EnderFrame, BreakoutWorkers
    DEF Purged, Moved, B!At, B!Does, B!IsBusy
<1>25. ASSUME NEW w \in B!Worker, Seen(w) PROVE B!WorkersKeepToRooms'
  <2>1. c7[w].todo \subseteq Breakout
    BY WorkFields DEF B!BreakoutTypeOK
  <2>2. B!WorkerKeeps(w)'
    BY <1>25, <2>1, BreakoutWorkers
    DEF Seen, Moved, MovesOn, B!WorkersKeepToRooms, B!WorkerKeeps, B!At, B!Does, B!IsBusy,
        B!Timing
  <2> QED
    BY <1>25, <2>2, EnderFrame, BreakoutWorkers
    DEF Seen, Moved, MovesOn, B!At, B!Does, B!IsBusy
<1>26. ASSUME NEW w \in B!Worker, Dropped(w) PROVE B!WorkersKeepToRooms'
  <2>1. c7[w].todo \subseteq Breakout
    BY WorkFields DEF B!BreakoutTypeOK
  <2>2. B!WorkerKeeps(w)'
    BY <1>26, <2>1, BreakoutWorkers
    DEF Dropped, Moved, MovesOn, B!WorkersKeepToRooms, B!WorkerKeeps, B!At, B!Does,
        B!IsBusy, B!Timing
  <2> QED
    BY <1>26, <2>2, EnderFrame, BreakoutWorkers
    DEF Dropped, Moved, MovesOn, B!At, B!Does, B!IsBusy
<1>27. ASSUME NEW r \in B!Room, Ending(r)
       PROVE  B!WorkersKeepToRooms'
  <2>1. B!Cleanup(r) \in B!Worker /\ WorkersStay(B!Cleanup(r)) /\ B!WorkerKeeps(B!Cleanup(r))
    BY <1>27, BreakoutWorkers
       DEF Ending, RoomEnds, CleanupBegins, B!WorkersKeepToRooms
  <2>2. B!WorkerKeeps(B!Cleanup(r))'
    BY <1>27, <2>1, BreakoutWorkers
       DEF Ending, RoomEnds, CleanupBegins, B!WorkerKeeps, B!At, B!Does, B!IsBusy, B!Timing
  <2>3. \A q \in B!Room : (c1'[q] = c1[q] /\ B!Cleanup(r) # B!Cleanup(q)) \/ B!CleanupKeeps(q)'
    BY <1>27, BreakoutWorkers
       DEF Ending, RoomEnds, CleanupBegins, WorkersStay, StatusStays, B!WorkersKeepToRooms,
           B!CleanupKeeps, B!At, B!IsBusy
  <2>4. c1'["parent"] # "created"
    BY <1>27, BreakoutWorkers
       DEF Ending, RoomEnds, CleanupBegins, StatusStays, B!WorkersKeepToRooms, B!Parent
  <2> QED
    BY <2>1, <2>2, <2>3, <2>4, WorkersFrame
<1>28. ASSUME NEW r \in B!Room, Unlimited(r) PROVE B!WorkersKeepToRooms'
  <2>1. c7[B!Cleanup(r)].room = r
    BY <1>28
       DEF Unlimited, B!WorkersKeepToRooms, B!CleanupKeeps
  <2>2. B!WorkerKeeps(B!Cleanup(r))'
    BY <1>28, <2>1, BreakoutWorkers
    DEF Unlimited, Moved, B!WorkersKeepToRooms, B!WorkerKeeps, B!At, B!Does, B!IsBusy,
        B!Timing
  <2> QED
    BY <1>28, <2>2, EnderFrame, BreakoutWorkers
    DEF Unlimited, Moved, B!At, B!Does, B!IsBusy
<1>29. ASSUME NEW r \in B!Room, Cleaned(r)
       PROVE  B!WorkersKeepToRooms'
  <2>1. B!Cleanup(r) \in B!Worker /\ WorkersStay(B!Cleanup(r)) /\ B!WorkerKeeps(B!Cleanup(r))
    BY <1>29, BreakoutWorkers
       DEF Cleaned, Rests, B!WorkersKeepToRooms
  <2>2. B!WorkerKeeps(B!Cleanup(r))'
    BY <1>29, <2>1, BreakoutWorkers
       DEF Cleaned, Rests, B!WorkerKeeps, B!At, B!Does, B!IsBusy, B!Timing
  <2>3. \A q \in B!Room : (c1'[q] = c1[q] /\ B!Cleanup(r) # B!Cleanup(q)) \/ B!CleanupKeeps(q)'
    BY <1>29, BreakoutWorkers
       DEF Cleaned, Rests, WorkersStay, StatusStays, B!WorkersKeepToRooms, B!CleanupKeeps, B!At,
           B!IsBusy
  <2>4. c1'["parent"] # "created"
    BY <1>29, BreakoutWorkers
       DEF Cleaned, Rests, StatusStays, B!WorkersKeepToRooms, B!Parent
  <2> QED
    BY <2>1, <2>2, <2>3, <2>4, WorkersFrame
<1>30. CASE B!At(B!Cleanup("parent"), "end", "all") /\ AllBegun(B!Cleanup("parent"))
  <2>1. B!WorkerKeeps(B!Cleanup("parent"))'
    BY <1>30, BreakoutWorkers
    DEF AllBegun, B!WorkersKeepToRooms, B!WorkerKeeps, B!At, B!Does, B!IsBusy, B!Timing
  <2> QED
    BY <1>30, <2>1, EnderFrame, BreakoutWorkers
    DEF AllBegun, B!At, B!Does, B!IsBusy
<1>31. CASE Ticks
  BY <1>31
     DEF Ticks, B!WorkersKeepToRooms, B!CleanupKeeps, B!WorkerKeeps, B!At, B!Does, B!IsBusy,
         B!Timing
<1>32. ASSUME NEW w \in Handler, GivesUp(w) PROVE B!WorkersKeepToRooms'
  <2>1. B!WorkerKeeps(w)'
    BY <1>32, BreakoutWorkers DEF GivesUp, Rests, B!WorkerKeeps, B!At, B!Does, B!IsBusy, B!Timing
  <2> QED
    BY <1>32, <2>1, OutsiderFrame, BreakoutWorkers DEF GivesUp, Rests
<1>33. ASSUME NEW b \in Breakout, Skipped(b) PROVE B!WorkersKeepToRooms'
  <2>1. B!WorkerKeeps(B!Started(b))'
    BY <1>33, BreakoutWorkers
    DEF Skipped, Rests, Moved, B!WorkersKeepToRooms, B!WorkerKeeps, B!At, B!Does, B!IsBusy,
        B!Timing
  <2> QED
    BY <1>33, <2>1, OutsiderFrame, BreakoutWorkers DEF Skipped, Rests, Moved
<1>34. ASSUME NEW w \in B!Worker, Missed(w) PROVE B!WorkersKeepToRooms'
  <2>1. c7[w].todo \subseteq Breakout
    BY WorkFields DEF B!BreakoutTypeOK
  <2>2. B!WorkerKeeps(w)'
    BY <1>34, <2>1, BreakoutWorkers
    DEF Missed, Moved, MovesOn, B!WorkersKeepToRooms, B!WorkerKeeps, B!At, B!Does, B!IsBusy,
        B!Timing
  <2> QED
    BY <1>34, <2>2, EnderFrame, BreakoutWorkers
    DEF Missed, Moved, MovesOn, B!At, B!Does, B!IsBusy
<1>35. ASSUME NEW r \in B!Room, KeyKept(r) PROVE B!WorkersKeepToRooms'
  <2>1. c7[B!Cleanup(r)].room = r
    BY <1>35 DEF KeyKept, B!WorkersKeepToRooms, B!CleanupKeeps
  <2>2. B!WorkerKeeps(B!Cleanup(r))'
    BY <1>35, <2>1, BreakoutWorkers
    DEF KeyKept, Moved, B!WorkersKeepToRooms, B!WorkerKeeps, B!At, B!Does, B!IsBusy, B!Timing
  <2> QED
    BY <1>35, <2>2, EnderFrame, BreakoutWorkers DEF KeyKept, Moved, B!At, B!Does, B!IsBusy
<1>36. ASSUME NEW r \in B!Room, NotFollowed(r) PROVE B!WorkersKeepToRooms'
  <2>1. B!WorkerKeeps(B!Cleanup(r))'
    BY <1>36, BreakoutWorkers DEF NotFollowed, B!WorkerKeeps, B!At, B!Does, B!IsBusy, B!Timing
  <2>2. B!Does(B!Cleanup(r), "end")
    BY <1>36 DEF NotFollowed, B!At, B!Does, B!IsBusy
  <2> QED
    BY <1>36, <2>1, <2>2, EnderFrame, BreakoutWorkers DEF NotFollowed, B!Does, B!IsBusy
<1>37. ASSUME NEW r \in B!Room, Overwritten(r) PROVE B!WorkersKeepToRooms'
  BY <1>37
     DEF Overwritten, B!WorkersKeepToRooms, B!CleanupKeeps, B!WorkerKeeps, B!At, B!Does,
         B!IsBusy, B!Timing
<1> QED
  BY <1>1, <1>2, <1>3, <1>4, <1>5, <1>6, <1>7, <1>8, <1>9, <1>10, <1>11, <1>12, <1>13, <1>14,
     <1>15, <1>16, <1>17, <1>18, <1>19, <1>20, <1>21, <1>22, <1>23, <1>24, <1>25, <1>26, <1>27,
     <1>28, <1>29, <1>30, <1>31, <1>32, <1>33, <1>34, <1>35, <1>36, <1>37
     DEF BreakoutDoes


(* Changes of a duration that do not overlap.                              *)
Alone ==
    /\ \A v, w \in B!Worker : B!Does(w, "end") => ~B!Timing(v)
    /\ \A v, w \in B!Worker : B!Timing(v) /\ B!Timing(w) /\ v # w => c7[v].room # c7[w].room

LEMMA ChangesAreAlone ==
  /\ B!OverlapsAreMixed /\ c8 \cap B!Untimely = {} => Alone
  /\ B!OverlapsAreMixed' /\ c8' \cap B!Untimely = {} => Alone'
<1>1. B!OverlapsAreMixed /\ c8 \cap B!Untimely = {} => Alone
  BY DEF B!OverlapsAreMixed, Alone, B!Timing, B!Does, B!Writing, B!Untimely
<1>2. B!OverlapsAreMixed' /\ c8' \cap B!Untimely = {} => Alone'
  BY DEF B!OverlapsAreMixed, Alone, B!Timing, B!Does, B!Writing, B!Untimely
<1> QED
  BY <1>1, <1>2

(* A worker moves that takes nothing back, and no duration changes.        *)
LEMMA DurationsFrame ==
  ASSUME B!DurationsAreFollowed, NEW w \in B!Worker, WorkersStay(w),
         ~B!At(w, "increase", "meta"), B!DurationHolds(w)',
         \A b \in Breakout : w = B!Cleanup(b) => B!IsBusy(w) /\ ~B!At(w, "end", "undo"),
         UNCHANGED <<c1, c4, c5, c6>>
  PROVE  B!DurationsAreFollowed'
<1>1. ASSUME NEW v \in B!Worker PROVE B!DurationHolds(v)'
  <2>1. CASE v = w
    BY <2>1
  <2>2. CASE v # w
    BY <2>2 DEF B!DurationsAreFollowed, B!DurationHolds, WorkersStay, B!Does, B!At, B!IsBusy
  <2> QED
    BY <2>1, <2>2
<1>2. ASSUME NEW b \in Breakout PROVE B!CheckerFollows(b)'
  <2>1. B!CheckerFollows(b) /\ B!Cleanup(b) \in B!Worker
    BY BreakoutWorkers DEF B!DurationsAreFollowed
  <2>2. B!IsBusy(B!Cleanup(b))' => B!At(B!Cleanup(b), "end", "undo")' \/ ~c4'[b].there
    <3>1. CASE w = B!Cleanup(b)
      BY <2>1, <3>1 DEF B!CheckerFollows
    <3>2. CASE w # B!Cleanup(b)
      BY <2>1, <3>2 DEF B!CheckerFollows, WorkersStay, B!At, B!IsBusy
    <3> QED
      BY <3>1, <3>2
  <2>3. ASSUME NEW v \in B!Worker, B!At(v, "increase", "meta"), c7[v].room = b
        PROVE  B!At(v, "increase", "meta")' /\ c7'[v].room = b
    BY <2>3 DEF WorkersStay, B!At
  <2> QED
    BY <2>1, <2>2, <2>3 DEF B!CheckerFollows
<1> QED
  BY <1>1, <1>2 DEF B!DurationsAreFollowed

LEMMA NoDurationHeld ==
  ASSUME NEW w \in B!Worker, ~B!Timing(w)'
  PROVE  B!DurationHolds(w)'
BY DEF B!DurationHolds, B!Timing, B!Does, B!At, B!IsBusy

DurationFacts ==
    /\ B!BreakoutTypeOK /\ B!WorkersKeepToRooms /\ Alone /\ Alone' /\ B!DurationsAreFollowed
    /\ "clock" \notin c8'

(* Requests and webhooks that have to do with durations.                   *)
LEMMA DurationsFollowChanges ==
  ASSUME DurationFacts
  PROVE  /\ \A w \in Handler :
              /\ \A b \in Breakout : IncreaseBegun(w, b) => B!DurationsAreFollowed'
              /\ Informed(w) \/ Compared(w) \/ Kept(w) \/ GivesUp(w) => B!DurationsAreFollowed'
         /\ \A b \in Breakout : Fetched(b) \/ Stored(b) \/ Skipped(b) => B!DurationsAreFollowed'
<1> USE DEF DurationFacts
<1>1. ASSUME NEW w \in Handler
      PROVE  /\ w \in B!Worker /\ B!DurationHolds(w) /\ \A b \in Breakout : w # B!Cleanup(b)
             /\ B!Timing(w) => c7[w].room \in Breakout
  BY BreakoutWorkers DEF B!DurationsAreFollowed, B!WorkersKeepToRooms, B!WorkerKeeps
<1>2. ASSUME NEW w \in Handler, NEW b \in Breakout, IncreaseBegun(w, b)
      PROVE  B!DurationsAreFollowed'
  <2>1. B!DurationHolds(w)'
    BY <1>2 DEF IncreaseBegun, B!DurationHolds, B!Does, B!At
  <2>2. WorkersStay(w) /\ ~B!At(w, "increase", "meta") /\ UNCHANGED <<c1, c4, c5, c6>>
    BY <1>2 DEF IncreaseBegun, B!At
  <2> QED
    BY <1>1, <2>1, <2>2, DurationsFrame
<1>3. ASSUME NEW w \in Handler, Informed(w) PROVE B!DurationsAreFollowed'
  <2>1. B!DurationHolds(w)'
    BY <1>3 DEF Informed, Rests, Stays, B!DurationHolds, B!Does, B!At, B!IsBusy, B!End, Minutes
  <2>2. WorkersStay(w) /\ ~B!At(w, "increase", "meta") /\ UNCHANGED <<c1, c4, c5, c6>>
    BY <1>3 DEF Informed, Rests, B!At
  <2> QED
    BY <1>1, <2>1, <2>2, DurationsFrame
<1>4. ASSUME NEW w \in Handler, Compared(w) PROVE B!DurationsAreFollowed'
  <2>1. B!DurationHolds(w)'
    <3>1. CASE Rests(w)
      BY <1>1, <3>1, NoDurationHeld DEF Rests, B!Timing, B!Does, B!IsBusy
    <3>2. CASE ~Rests(w)
      <4> DEFINE b == c7[w].room
      <4>1. /\ c4[b].there /\ B!End(c4[b]) < c6 + Minutes(c7[w].had) + PerMinute
            /\ c7'[w].at = "grow" /\ c7'[w].room = b /\ c7'[w].job = "increase"
            /\ B!Limited(c4["parent"]) /\ c6 <= B!End(c4["parent"]) =>
                  c6 + Minutes(c7[w].had) + Minutes(Increase) <= B!End(c4["parent"])
            /\ UNCHANGED <<c1, c4, c5, c6>>
        BY <1>1, <1>4, <3>2 DEF Compared, Moved, B!DurationHolds, B!At, Minutes
      <4>2. /\ b \in B!Room /\ B!End(c4[b]) \in Nat /\ c6 \in Nat /\ PerMinute \in Nat
            /\ B!End(c4["parent"]) \in Nat /\ c7[w].had \in Nat /\ Increase \in Nat
        BY <1>1, WorkFields, KeyFields, BreakoutWorkers, BreakoutsAssumption
           DEF B!BreakoutTypeOK, BreakoutsAssumption
      <4>3. Minutes(c7[w].had) \in Nat /\ Minutes(Increase) \in Nat
        BY <4>2, MinutesAdd
      <4>4. B!Limited(c4["parent"]) /\ c6 <= B!End(c4["parent"]) =>
               B!End(c4[b]) + Minutes(Increase) < B!End(c4["parent"]) + PerMinute
        BY <4>1, <4>2, <4>3
      <4> QED
        BY <4>1, <4>4 DEF B!DurationHolds, B!Does, B!At, B!Parent, B!End, B!Limited, Minutes
    <3> QED
      BY <3>1, <3>2
  <2>2. WorkersStay(w) /\ ~B!At(w, "increase", "meta") /\ UNCHANGED <<c1, c4, c5, c6>>
    BY <1>4 DEF Compared, Rests, Moved, B!At
  <2> QED
    BY <1>1, <2>1, <2>2, DurationsFrame
<1>5. ASSUME NEW w \in Handler, Kept(w) \/ GivesUp(w) PROVE B!DurationsAreFollowed'
  <2>1. B!DurationHolds(w)'
    BY <1>1, <1>5, NoDurationHeld DEF Kept, GivesUp, Rests, B!Timing, B!Does, B!IsBusy
  <2>2. WorkersStay(w) /\ ~B!At(w, "increase", "meta") /\ UNCHANGED <<c1, c4, c5, c6>>
    BY <1>5 DEF Kept, GivesUp, Rests, B!At
  <2> QED
    BY <1>1, <2>1, <2>2, DurationsFrame
<1>6. ASSUME NEW b \in Breakout, Fetched(b) \/ Stored(b) PROVE B!DurationsAreFollowed'
  <2> DEFINE w == B!Started(b)
  <2>1. w \in B!Worker /\ B!DurationHolds(w) /\ \A r \in Breakout : w # B!Cleanup(r)
    BY BreakoutWorkers DEF B!DurationsAreFollowed
  <2>2. /\ WorkersStay(w) /\ UNCHANGED <<c1, c4, c5, c6>>
        /\ c7[w].job = "start" /\ c7[w].at \in {"fetch", "store"}
        /\ c7'[w].job = "start" /\ c7'[w].at \in {"store", "meta"}
        /\ c7'[w].room = c7[w].room /\ c7'[w].had = c7[w].had
    BY <1>6 DEF Fetched, Stored, B!At
  <2> HIDE DEF w
  <2>3. B!DurationHolds(w)'
    BY <2>1, <2>2 DEF B!DurationHolds, B!Does, B!At, B!IsBusy
  <2>4. ~B!At(w, "increase", "meta")
    BY <2>2 DEF B!At
  <2> QED
    BY <2>1, <2>2, <2>3, <2>4, DurationsFrame
<1>7. ASSUME NEW b \in Breakout, Skipped(b) PROVE B!DurationsAreFollowed'
  <2> DEFINE w == B!Started(b)
  <2>1. w \in B!Worker /\ B!DurationHolds(w) /\ \A r \in Breakout : w # B!Cleanup(r)
    BY BreakoutWorkers DEF B!DurationsAreFollowed
  <2>2. /\ WorkersStay(w) /\ UNCHANGED <<c1, c4, c5, c6>>
        /\ c7[w].job = "start" /\ c7[w].at \in {"check", "fetch", "store", "meta"}
        /\ \/ c7'[w].at \in {"idle", "over"}
           \/ /\ c7'[w].job = "start" /\ c7'[w].at \in {"fetch", "meta"}
              /\ c7'[w].room = c7[w].room /\ c7'[w].had = c7[w].had
    BY <1>7 DEF Skipped, Moved, Rests, B!At
  <2> HIDE DEF w
  <2>3. B!DurationHolds(w)'
    BY <2>1, <2>2 DEF B!DurationHolds, B!Does, B!At, B!IsBusy
  <2>4. ~B!At(w, "increase", "meta")
    BY <2>2 DEF B!At
  <2> QED
    BY <2>1, <2>2, <2>3, <2>4, DurationsFrame
<1> QED
  BY <1>2, <1>3, <1>4, <1>5, <1>6, <1>7

(* The worker of a room's only change.                                     *)
LEMMA OnlyChange ==
  ASSUME Alone, NEW w \in B!Worker, B!Timing(w), NEW v \in B!Worker, v # w,
         c7[v].room = c7[w].room
  PROVE  ~B!Timing(v)
BY DEF Alone

(* A room whose duration is being changed runs, and its cleanup does not.  *)
LEMMA ChangedRoomRuns ==
  ASSUME DurationFacts, NEW w \in B!Worker, B!Timing(w), c4[c7[w].room].there
  PROVE  c1[c7[w].room] = "running" /\ ~B!IsBusy(B!Cleanup(c7[w].room))
<1> DEFINE b == c7[w].room
<1>1. /\ b \in Breakout /\ b \in B!Room /\ B!Cleanup(b) \in B!Worker /\ B!CleanupKeeps(b)
      /\ B!CheckerFollows(b)
  BY BreakoutWorkers
     DEF DurationFacts, B!WorkersKeepToRooms, B!WorkerKeeps, B!DurationsAreFollowed
<1>2. ~B!IsBusy(B!Cleanup(b))
  BY <1>1 DEF DurationFacts, Alone, B!CleanupKeeps, B!Does
<1>3. c1[b] \in {"off", "created", "running", "ending"}
  BY <1>1 DEF DurationFacts, B!BreakoutTypeOK
<1> QED
  BY <1>1, <1>2, <1>3 DEF B!CleanupKeeps, B!CheckerFollows

(* Only what concerns one room and one worker has to be shown again.       *)
LEMMA OtherDurationsHold ==
  ASSUME DurationFacts, NEW b \in Breakout, NEW w \in B!Worker, \A c \in Breakout : w # B!Cleanup(c),
         WorkersStay(w), B!Timing(w)' => c7'[w].room = b, B!Timing(w) => c7[w].room = b,
         StatusStays(b), CheckerStays(b), GrantedStays(b), UNCHANGED c6
  PROVE  /\ \A c \in Breakout : c # b => B!CheckerFollows(c)'
         /\ \A v \in B!Worker : v # w /\ c7[v].room # b => B!DurationHolds(v)'
<1> USE DEF DurationFacts
<1>1. ASSUME NEW c \in Breakout, c # b PROVE B!CheckerFollows(c)'
  <2>1. /\ c \in B!Room /\ B!Cleanup(c) \in B!Worker /\ B!CheckerFollows(c)
        /\ c1'[c] = c1[c] /\ c4'[c] = c4[c] /\ c5'[c] = c5[c]
        /\ c7'[B!Cleanup(c)] = c7[B!Cleanup(c)]
    BY <1>1, BreakoutWorkers
       DEF B!DurationsAreFollowed, StatusStays, CheckerStays, GrantedStays, WorkersStay
  <2>2. ASSUME NEW v \in B!Worker, B!At(v, "increase", "meta"), c7[v].room = c
        PROVE  B!At(v, "increase", "meta")' /\ c7'[v].room = c
    <3>1. B!Timing(v)
      BY <2>2 DEF B!Timing, B!Does, B!IsBusy, B!At
    <3>2. v # w
      BY <1>1, <2>2, <3>1
    <3> QED
      BY <2>2, <3>2 DEF WorkersStay, B!At
  <2> QED
    BY <2>1, <2>2 DEF B!CheckerFollows, B!At, B!IsBusy
<1>2. ASSUME NEW v \in B!Worker, v # w, c7[v].room # b PROVE B!DurationHolds(v)'
  <2>1. c7'[v] = c7[v] /\ B!DurationHolds(v) /\ c7[v].room \in B!Room
    BY <1>2, WorkFields DEF B!DurationsAreFollowed, WorkersStay, B!BreakoutTypeOK
  <2> DEFINE c == c7[v].room
  <2>2. c1'[c] = c1[c] /\ c4'[c] = c4[c] /\ c5'[c] = c5[c] /\ c4'["parent"] = c4["parent"]
    BY <1>2, <2>1, BreakoutWorkers DEF StatusStays, CheckerStays, GrantedStays
  <2> QED
    BY <2>1, <2>2 DEF B!DurationHolds, B!Does, B!At, B!IsBusy, B!Parent, B!End, B!Limited
<1> QED
  BY <1>1, <1>2

LEMMA DurationsFollowIncrease ==
  ASSUME DurationFacts, NEW w \in Handler, Grown(w) \/ Granted(w) \/ TakenBack(w)
  PROVE  B!DurationsAreFollowed'
<1> USE DEF DurationFacts
<1>1. /\ w \in B!Worker /\ B!Timing(w) /\ B!DurationHolds(w) /\ B!WorkerKeeps(w)
      /\ \A c \in Breakout : w # B!Cleanup(c) /\ w # B!Started(c)
  BY BreakoutWorkers DEF Grown, Granted, TakenBack, B!Timing, B!Does, B!IsBusy, B!At,
     B!DurationsAreFollowed, B!WorkersKeepToRooms
<1>2. PICK b \in Breakout : b = c7[w].room
  BY <1>1 DEF B!WorkerKeeps
<1>3. c4[b].there
  BY <1>1, <1>2 DEF Grown, Granted, TakenBack, B!DurationHolds
<1>4. c1[b] = "running" /\ ~B!IsBusy(B!Cleanup(b))
  BY <1>1, <1>2, <1>3, ChangedRoomRuns
<1>5. /\ WorkersStay(w) /\ StatusStays(b) /\ CheckerStays(b) /\ GrantedStays(b) /\ UNCHANGED c6
      /\ c1'[b] = c1[b] /\ (B!Timing(w)' => c7'[w].room = b)
  BY <1>2 DEF Grown, Granted, TakenBack, Rests, Stays, Moved, StatusStays, CheckerStays, GrantedStays,
     B!Timing, B!Does, B!IsBusy
<1>6. /\ \A c \in Breakout : c # b => B!CheckerFollows(c)'
      /\ \A v \in B!Worker : v # w /\ c7[v].room # b => B!DurationHolds(v)'
  BY <1>1, <1>2, <1>5, OtherDurationsHold
<1>7. ASSUME NEW v \in B!Worker, v # w, c7[v].room = b PROVE B!DurationHolds(v)'
  <2>1. ~B!Timing(v) /\ c7'[v] = c7[v]
    BY <1>1, <1>2, <1>5, <1>7, OnlyChange DEF WorkersStay
  <2> QED
    BY <2>1, NoDurationHeld DEF B!Timing, B!Does, B!IsBusy
<1>8. /\ b \in B!Room /\ c4[b].duration \in Nat /\ c5[b] \in Nat /\ Increase \in Nat
      /\ c7[w].had \in Nat
  BY <1>1, <1>2, KeyFields, WorkFields, BreakoutWorkers, BreakoutsAssumption
     DEF B!BreakoutTypeOK, BreakoutsAssumption
<1>9. CASE Grown(w)
  <2>1. c4[b].duration = c5[b]
    <3>1. B!CheckerFollows(b)
      BY DEF B!DurationsAreFollowed
    <3>2. ASSUME NEW v \in B!Worker, B!At(v, "increase", "meta"), c7[v].room = b
          PROVE  FALSE
      <4>1. B!Timing(v) /\ v # w
        BY <1>9, <3>2 DEF Grown, B!Timing, B!Does, B!IsBusy, B!At
      <4> QED
        BY <1>1, <1>2, <3>2, <4>1, OnlyChange
    <3> QED
      BY <1>3, <1>4, <3>1, <3>2 DEF B!CheckerFollows
  <2>2. /\ c4'[b].there /\ c4'[b].duration = c4[b].duration + Increase /\ c5'[b] = c5[b]
        /\ c7'[w].at = "meta" /\ c7'[w].job = "increase" /\ c7'[w].room = b
        /\ c7'[w].had = c4[b].duration + Increase
    BY <1>2, <1>9 DEF Grown, Stays, B!At
  <2>3. B!DurationHolds(w)'
    BY <1>8, <2>1, <2>2 DEF B!DurationHolds, B!Does, B!At
  <2>4. B!CheckerFollows(b)'
    BY <1>1, <1>4, <1>5, <2>2, BreakoutWorkers
       DEF B!CheckerFollows, WorkersStay, B!At, B!IsBusy
  <2> QED
    BY <1>6, <1>7, <2>3, <2>4 DEF B!DurationsAreFollowed
<1>10. CASE Granted(w)
  <2>1. /\ c4'[b] = c4[b] /\ c4[b].duration = c7[w].had /\ c5'[b] = c7[w].had
        /\ c7'[w].at = "store" /\ c7'[w].job = "increase"
    BY <1>1, <1>2, <1>10 DEF Granted, Moved, B!DurationHolds, B!At
  <2>2. B!DurationHolds(w)'
    BY <2>1 DEF B!DurationHolds, B!Does, B!At
  <2>3. B!CheckerFollows(b)'
    BY <1>1, <1>4, <1>5, <2>1, BreakoutWorkers DEF B!CheckerFollows, WorkersStay, B!At, B!IsBusy
  <2> QED
    BY <1>6, <1>7, <2>2, <2>3 DEF B!DurationsAreFollowed
<1>11. CASE TakenBack(w)
  <2>1. /\ c7[w].had = c5[b] + Increase /\ c4'[b].duration = c7[w].had - Increase
        /\ c5'[b] = c5[b] /\ c7'[w].at \in {"idle", "over"}
    BY <1>1, <1>2, <1>11 DEF TakenBack, Rests, B!DurationHolds, B!At
  <2>2. c4'[b].duration = c5'[b]
    BY <1>8, <2>1
  <2>3. B!DurationHolds(w)'
    BY <1>1, <2>1, NoDurationHeld DEF B!Timing, B!Does, B!IsBusy
  <2>4. B!CheckerFollows(b)'
    BY <1>1, <1>4, <1>5, <2>2, BreakoutWorkers DEF B!CheckerFollows, WorkersStay, B!At, B!IsBusy
  <2> QED
    BY <1>6, <1>7, <2>3, <2>4 DEF B!DurationsAreFollowed
<1> QED
  BY <1>9, <1>10, <1>11

LEMMA DurationsFollowStarts ==
  ASSUME DurationFacts, NEW b \in Breakout,
         \/ \E w \in Handler : RoomMade(w, b)
         \/ Opened(b) \/ Limiting(b) \/ Announced(b)
  PROVE  B!DurationsAreFollowed'
<1> USE DEF DurationFacts
<1> DEFINE s == B!Started(b)
<1>1. /\ s \in B!Worker /\ B!DurationHolds(s) /\ B!WorkerKeeps(s) /\ B!CheckerFollows(b)
      /\ B!CleanupKeeps(b) /\ \A c \in Breakout : s # B!Cleanup(c)
      /\ b \in B!Room /\ B!Cleanup(b) \in B!Worker
  BY BreakoutWorkers DEF B!DurationsAreFollowed, B!WorkersKeepToRooms
<1>2. ASSUME B!Does(s, "start") PROVE c7[s].room = b
  BY <1>1, <1>2, BreakoutWorkers DEF B!WorkerKeeps, B!Timing
<1>3. ASSUME NEW v \in B!Worker, c7[v].room = b, c1[b] \in {"off", "created"}
      PROVE  /\ ~B!Does(v, "start") /\ ~c4[b].there /\ ~B!At(v, "increase", "compare")
             /\ ~B!At(v, "increase", "grow") /\ ~B!At(v, "increase", "meta")
  BY <1>1, <1>3 DEF B!DurationsAreFollowed, B!DurationHolds, B!CheckerFollows
<1>4. ASSUME NEW w \in Handler, RoomMade(w, b) PROVE B!DurationsAreFollowed'
  <2>1. /\ w \in B!Worker /\ \A c \in Breakout : w # B!Cleanup(c)
        /\ WorkersStay(w) /\ StatusStays(b) /\ CheckerStays(b) /\ GrantedStays(b) /\ UNCHANGED c6
        /\ ~B!Timing(w) /\ ~B!Timing(w)'
        /\ c4' = c4 /\ (c1[b] # "off" => c1'[b] = c1[b] /\ c5'[b] = c5[b])
        /\ (c1[b] = "off" => c1'[b] = "created")
    BY <1>4, BreakoutWorkers DEF RoomMade, CheckerStays, B!Timing, B!Does, B!At
  <2>2. /\ \A c \in Breakout : c # b => B!CheckerFollows(c)'
        /\ \A v \in B!Worker : v # w /\ c7[v].room # b => B!DurationHolds(v)'
    BY <2>1, OtherDurationsHold
  <2>3. B!DurationHolds(w)'
    BY <2>1, NoDurationHeld
  <2>4. ASSUME NEW v \in B!Worker, v # w, c7[v].room = b PROVE B!DurationHolds(v)'
    <3>1. c7'[v] = c7[v] /\ B!DurationHolds(v)
      BY <2>1, <2>4 DEF WorkersStay, B!DurationsAreFollowed
    <3>2. CASE c1[b] = "off"
      BY <1>3, <2>4, <3>1, <3>2 DEF B!DurationHolds, B!Does, B!At, B!IsBusy
    <3>3. CASE c1[b] # "off"
      BY <2>1, <2>4, <3>1, <3>3
         DEF B!DurationHolds, B!Does, B!At, B!IsBusy, B!Parent, B!End, B!Limited
    <3> QED
      BY <3>2, <3>3
  <2>5. B!CheckerFollows(b)'
    <3>1. CASE c1[b] = "off"
      BY <1>1, <2>1, <3>1 DEF B!CheckerFollows
    <3>2. CASE c1[b] # "off"
      <4>1. ASSUME NEW v \in B!Worker, B!At(v, "increase", "meta"), c7[v].room = b
            PROVE  B!At(v, "increase", "meta")' /\ c7'[v].room = b
        BY <2>1, <4>1 DEF WorkersStay, B!At, B!Timing, B!Does, B!IsBusy
      <4> QED
        BY <1>1, <2>1, <3>2, <4>1 DEF B!CheckerFollows, WorkersStay, B!At, B!IsBusy
    <3> QED
      BY <3>1, <3>2
  <2> QED
    BY <2>2, <2>3, <2>4, <2>5 DEF B!DurationsAreFollowed
<1>5. ASSUME Opened(b) \/ Limiting(b) \/ Announced(b)
      PROVE  /\ WorkersStay(s) /\ StatusStays(b) /\ CheckerStays(b) /\ GrantedStays(b)
             /\ UNCHANGED c6 /\ (B!Timing(s)' => c7'[s].room = b)
             /\ (B!Timing(s) => c7[s].room = b)
  BY <1>2, <1>5 DEF Opened, Limiting, Announced, Moved, Rests, StatusStays, CheckerStays,
     GrantedStays, B!Timing, B!Does, B!IsBusy, B!At
<1>6. ASSUME Opened(b) \/ Limiting(b) \/ Announced(b)
      PROVE  /\ \A c \in Breakout : c # b => B!CheckerFollows(c)'
             /\ \A v \in B!Worker : v # s /\ c7[v].room # b => B!DurationHolds(v)'
  BY <1>1, <1>5, <1>6, OtherDurationsHold
<1>7. CASE Opened(b)
  <2>1. ASSUME NEW v \in B!Worker, v # s, c7[v].room = b PROVE B!DurationHolds(v)'
    BY <1>3, <1>5, <1>7, <2>1 DEF Opened, WorkersStay, B!DurationHolds, B!Does, B!At, B!IsBusy
  <2>2. /\ c1'[b] = "running" /\ ~c4'[b].there /\ c5' = c5 /\ c7'[s].at = "check"
        /\ c7'[s].job = "start" /\ c7'[s].room = b /\ c7'[s].had = c5[b]
    BY <1>1, <1>7 DEF Opened, B!CheckerFollows
  <2>3. B!DurationHolds(s)'
    BY <2>2 DEF B!DurationHolds, B!At
  <2>4. B!CheckerFollows(b)'
    BY <2>2 DEF B!CheckerFollows
  <2> QED
    BY <1>6, <1>7, <2>1, <2>3, <2>4 DEF B!DurationsAreFollowed
<1>8. ASSUME Limiting(b) \/ Announced(b)
      PROVE  /\ B!Timing(s) /\ c7[s].room = b /\ c1[b] = "running" /\ c1' = c1
             /\ c7[s].had = c5[b]
  BY <1>1, <1>2, <1>8
     DEF Limiting, Announced, B!Timing, B!Does, B!IsBusy, B!At, B!DurationHolds
<1>9. ASSUME Limiting(b) \/ Announced(b), NEW v \in B!Worker, v # s, c7[v].room = b
      PROVE  B!DurationHolds(v)'
  <2>1. ~B!Timing(v) /\ c7'[v] = c7[v]
    BY <1>1, <1>5, <1>8, <1>9, OnlyChange DEF WorkersStay
  <2> QED
    BY <2>1, NoDurationHeld DEF B!Timing, B!Does, B!IsBusy
<1>10. CASE Limiting(b)
  <2>1. /\ c4'[b].duration = c5[b] /\ c5' = c5 /\ c7'[s].at = "fetch"
        /\ c7'[s].job = "start" /\ c7'[s].room = b /\ c7'[s].had = c5[b]
    BY <1>8, <1>10 DEF Limiting, Moved, B!At
  <2>2. ~B!IsBusy(B!Cleanup(b)) /\ c7'[B!Cleanup(b)] = c7[B!Cleanup(b)]
    BY <1>1, <1>5, <1>8, <1>10 DEF Alone, B!CleanupKeeps, B!Does, WorkersStay
  <2>3. B!DurationHolds(s)'
    BY <1>8, <1>10, <2>1 DEF B!DurationHolds, B!At
  <2>4. B!CheckerFollows(b)'
    BY <1>8, <1>10, <2>1, <2>2 DEF B!CheckerFollows, B!IsBusy
  <2> QED
    BY <1>6, <1>9, <1>10, <2>3, <2>4 DEF B!DurationsAreFollowed
<1>11. CASE Announced(b)
  <2>1. c4' = c4 /\ c5'[b] = c5[b] /\ ~B!Timing(s)'
    BY <1>8, <1>11 DEF Announced, Rests, B!Timing, B!Does, B!IsBusy
  <2>2. c7'[B!Cleanup(b)] = c7[B!Cleanup(b)]
    BY <1>1, <1>5, <1>11 DEF WorkersStay
  <2>3. B!DurationHolds(s)'
    BY <1>1, <2>1, NoDurationHeld
  <2>4. ASSUME NEW v \in B!Worker, B!At(v, "increase", "meta"), c7[v].room = b
        PROVE  B!At(v, "increase", "meta")' /\ c7'[v].room = b
    BY <1>5, <1>11, <2>4 DEF Announced, WorkersStay, B!At
  <2>5. B!CheckerFollows(b)'
    BY <1>1, <1>8, <1>11, <2>1, <2>2, <2>4 DEF B!CheckerFollows, B!At, B!IsBusy
  <2> QED
    BY <1>6, <1>9, <1>11, <2>3, <2>5 DEF B!DurationsAreFollowed
<1> QED
  BY <1>4, <1>7, <1>10, <1>11

LEMMA DurationsFollowEnds ==
  ASSUME DurationFacts,
         \/ \E w \in B!Worker : Killed(w)
         \/ \E r \in B!Room : Ending(r) \/ Unlimited(r) \/ Cleaned(r)
  PROVE  B!DurationsAreFollowed'
<1> USE DEF DurationFacts
<1>1. ASSUME \A v \in B!Worker : ~B!Timing(v)', \A b \in Breakout : B!CheckerFollows(b)'
      PROVE  B!DurationsAreFollowed'
  BY <1>1, NoDurationHeld DEF B!DurationsAreFollowed
<1>2. ASSUME \A v \in B!Worker : ~B!Timing(v), NEW b \in Breakout
      PROVE  /\ B!CheckerFollows(b) /\ b \in B!Room /\ B!Cleanup(b) \in B!Worker
             /\ B!CleanupKeeps(b) /\ (c4[b].there /\ c1[b] = "running" => c4[b].duration = c5[b])
  <2>1. B!CheckerFollows(b) /\ \A v \in B!Worker : ~B!At(v, "increase", "meta")
    BY <1>2 DEF B!DurationsAreFollowed, B!Timing, B!Does, B!IsBusy, B!At
  <2> QED
    BY <2>1, BreakoutWorkers DEF B!CheckerFollows, B!WorkersKeepToRooms
<1>3. ASSUME NEW w \in B!Worker, Killed(w) PROVE B!DurationsAreFollowed'
  <2>1. PICK b \in Breakout : b = c7[w].room
    BY <1>3 DEF Killed, B!WorkersKeepToRooms, B!WorkerKeeps
  <2>2. /\ B!At(w, "end", "kill") /\ RoomEnds(b) /\ c4' = c4 /\ c5' = c5
        /\ \A v \in B!Worker : v # w /\ v # B!Cleanup(b) => c7'[v] = c7[v]
        /\ c1[b] \in {"created", "running"} => CleanupBegins(b)
        /\ w # B!Cleanup(b) \/ c1[b] \notin {"created", "running"} =>
             c7'[w].at = "delete" /\ c7'[w].job = "end"
        /\ c1[b] \notin {"created", "running"} /\ w # B!Cleanup(b) =>
             c7'[B!Cleanup(b)] = c7[B!Cleanup(b)]
    BY <1>3, <2>1 DEF Killed
  <2>3. \A v \in B!Worker : ~B!Timing(v)
    BY <2>2 DEF Alone, B!Does, B!At, B!IsBusy
  <2>4. \A v \in B!Worker : ~B!Timing(v)'
    BY <2>2, <2>3 DEF CleanupBegins, B!Timing, B!Does, B!IsBusy
  <2>5. ASSUME NEW c \in Breakout PROVE B!CheckerFollows(c)'
    <3>1. /\ B!CheckerFollows(c) /\ c \in B!Room /\ B!Cleanup(c) \in B!Worker
          /\ B!CleanupKeeps(c) /\ (c4[c].there /\ c1[c] = "running" => c4[c].duration = c5[c])
      BY <1>2, <2>3
    <3>2. CASE c = b /\ c1[b] \in {"created", "running"}
      BY <2>2, <3>2 DEF RoomEnds, CleanupBegins, B!CheckerFollows, B!At
    <3>3. CASE c # b \/ c1[b] \notin {"created", "running"}
      <4>1. c1'[c] = c1[c]
        BY <2>2, <3>1, <3>3 DEF RoomEnds, StatusStays
      <4>2. CASE w = B!Cleanup(c)
        BY <2>2, <3>1, <4>1, <4>2 DEF B!CheckerFollows, B!At, B!IsBusy
      <4>3. CASE w # B!Cleanup(c)
        <5>1. c7'[B!Cleanup(c)] = c7[B!Cleanup(c)]
          BY <2>2, <3>1, <3>3, <4>3, BreakoutWorkers
        <5> QED
          BY <2>2, <3>1, <4>1, <5>1 DEF B!CheckerFollows, B!At, B!IsBusy
      <4> QED
        BY <4>2, <4>3
    <3> QED
      BY <3>2, <3>3
  <2> QED
    BY <1>1, <2>4, <2>5
<1>4. ASSUME NEW r \in B!Room, Ending(r) PROVE B!DurationsAreFollowed'
  <2>1. /\ c1[r] \in {"created", "running"} /\ RoomEnds(r) /\ CleanupBegins(r)
        /\ WorkersStay(B!Cleanup(r)) /\ c4' = c4 /\ c5' = c5
        /\ B!Cleanup(r) \in B!Worker /\ B!CleanupKeeps(r)
    BY <1>4, BreakoutWorkers DEF Ending, B!WorkersKeepToRooms
  <2>2. \A v \in B!Worker : ~B!Timing(v)'
    BY <2>1 DEF Alone, CleanupBegins, B!Does, B!IsBusy
  <2>3. \A v \in B!Worker : ~B!Timing(v)
    BY <2>1, <2>2 DEF WorkersStay, B!CleanupKeeps, B!Timing, B!Does, B!IsBusy
  <2>4. ASSUME NEW c \in Breakout PROVE B!CheckerFollows(c)'
    <3>1. /\ B!CheckerFollows(c) /\ c \in B!Room /\ B!Cleanup(c) \in B!Worker
          /\ (c4[c].there /\ c1[c] = "running" => c4[c].duration = c5[c])
      BY <1>2, <2>3
    <3>2. CASE c = r
      BY <2>1, <3>2 DEF RoomEnds, CleanupBegins, B!CheckerFollows, B!At
    <3>3. CASE c # r
      <4>1. c1'[c] = c1[c] /\ c7'[B!Cleanup(c)] = c7[B!Cleanup(c)]
        BY <2>1, <3>1, <3>3, BreakoutWorkers DEF RoomEnds, StatusStays, WorkersStay
      <4> QED
        BY <2>1, <3>1, <4>1 DEF B!CheckerFollows, B!At, B!IsBusy
    <3> QED
      BY <3>2, <3>3
  <2> QED
    BY <1>1, <2>2, <2>4
<1>5. ASSUME NEW r \in B!Room, Unlimited(r) \/ Cleaned(r) PROVE B!DurationsAreFollowed'
  <2> DEFINE w == B!Cleanup(r)
  <2>1. /\ w \in B!Worker /\ B!Does(w, "end") /\ WorkersStay(w) /\ StatusStays(r)
        /\ CheckerStays(r) /\ GrantedStays(r) /\ B!IsBusy(w)
        /\ c7'[w].job = c7[w].job \/ c7'[w].at \in {"idle", "over"}
    BY <1>5, BreakoutWorkers
       DEF Unlimited, Cleaned, Moved, Rests, StatusStays, CheckerStays, GrantedStays,
           B!Does, B!At, B!IsBusy
  <2>2. \A v \in B!Worker : ~B!Timing(v)
    BY <2>1 DEF Alone
  <2>3. \A v \in B!Worker : ~B!Timing(v)'
    BY <2>1, <2>2 DEF WorkersStay, B!Timing, B!Does, B!IsBusy
  <2>4. ASSUME NEW c \in Breakout PROVE B!CheckerFollows(c)'
    <3>1. /\ B!CheckerFollows(c) /\ c \in B!Room /\ B!Cleanup(c) \in B!Worker
          /\ (c4[c].there /\ c1[c] = "running" => c4[c].duration = c5[c])
      BY <1>2, <2>2
    <3>2. CASE c = r
      <4>1. ~c4'[c].there
        BY <1>5, <2>1, <3>1, <3>2 DEF Unlimited, Cleaned, B!CheckerFollows, B!At
      <4> QED
        BY <4>1 DEF B!CheckerFollows
    <3>3. CASE c # r
      <4>1. /\ c1'[c] = c1[c] /\ c7'[B!Cleanup(c)] = c7[B!Cleanup(c)]
            /\ c4'[c] = c4[c] /\ c5'[c] = c5[c]
        BY <2>1, <3>1, <3>3, BreakoutWorkers
           DEF StatusStays, CheckerStays, GrantedStays, WorkersStay
      <4> QED
        BY <3>1, <4>1 DEF B!CheckerFollows, B!At, B!IsBusy
    <3> QED
      BY <3>2, <3>3
  <2> QED
    BY <1>1, <2>3, <2>4
<1> QED
  BY <1>3, <1>4, <1>5

(* Steps of the hash, of the flag and of time.                             *)
LEMMA DurationsFollowOthers ==
  ASSUME DurationFacts,
         \/ \E w \in Handler : \/ CreateBegun(w) \/ NotMade(w) \/ Inserted(w) \/ Created(w)
                               \/ \E b \in Breakout : EndBegun(w, b)
                               \/ c7[w].at = "idle" /\ AllBegun(w)
         \/ \E w \in B!Worker : \/ NotKilled(w) \/ Deleted(w) \/ Counted(w) \/ Purged(w)
                                \/ Seen(w) \/ Dropped(w) \/ Missed(w)
         \/ \E r \in B!Room : NotFollowed(r) \/ Overwritten(r)
         \/ B!At(B!Cleanup("parent"), "end", "all") /\ AllBegun(B!Cleanup("parent"))
         \/ Ticks
  PROVE  B!DurationsAreFollowed'
<1> USE DEF DurationFacts
<1>1. ASSUME NEW w \in B!Worker, WorkersStay(w), UNCHANGED <<c1, c4, c5, c6>>,
             ~B!Timing(w), ~B!Timing(w)',
             \A b \in Breakout : w = B!Cleanup(b) => B!IsBusy(w) /\ ~B!At(w, "end", "undo")
      PROVE  B!DurationsAreFollowed'
  <2>1. ~B!At(w, "increase", "meta")
    BY <1>1 DEF B!Timing, B!Does, B!At, B!IsBusy
  <2> QED
    BY <1>1, <2>1, NoDurationHeld, DurationsFrame
<1>2. ASSUME NEW w \in Handler,
             \/ CreateBegun(w) \/ NotMade(w) \/ Inserted(w) \/ Created(w)
             \/ \E b \in Breakout : EndBegun(w, b)
             \/ c7[w].at = "idle" /\ AllBegun(w)
      PROVE  B!DurationsAreFollowed'
  <2>1. /\ w \in B!Worker /\ WorkersStay(w) /\ UNCHANGED <<c1, c4, c5, c6>>
        /\ \A b \in Breakout : w # B!Cleanup(b)
    BY <1>2, BreakoutWorkers DEF CreateBegun, NotMade, Inserted, Created, EndBegun, AllBegun, Rests
  <2>2. ~B!Timing(w)
    BY <1>2 DEF CreateBegun, NotMade, Inserted, Created, EndBegun, B!Timing, B!Does, B!IsBusy, B!At
  <2>3. ~B!Timing(w)'
    BY <1>2 DEF CreateBegun, NotMade, Inserted, Created, EndBegun, AllBegun, Rests,
       B!Timing, B!Does, B!IsBusy
  <2> QED
    BY <1>1, <2>1, <2>2, <2>3
<1>3. ASSUME NEW w \in B!Worker,
             \/ NotKilled(w) \/ Deleted(w) \/ Counted(w) \/ Purged(w) \/ Seen(w) \/ Dropped(w)
             \/ Missed(w)
      PROVE  B!DurationsAreFollowed'
  <2>1. /\ WorkersStay(w) /\ UNCHANGED <<c1, c4, c5, c6>> /\ c7[w].job = "end"
        /\ c7[w].at \in {"kill", "delete", "count", "purge", "drop", "deactivate"}
    BY <1>3 DEF NotKilled, Deleted, Counted, Purged, Seen, Dropped, Missed, Moved, MovesOn, B!At,
                B!Does
  <2>2. c7'[w].job = "end" \/ c7'[w].at = "over"
    BY <1>3 DEF NotKilled, Deleted, Counted, Purged, Seen, Dropped, Missed, Moved, MovesOn, B!At,
                B!Does
  <2> QED
    BY <1>1, <2>1, <2>2 DEF B!Timing, B!Does, B!IsBusy, B!At
<1>4. ASSUME B!At(B!Cleanup("parent"), "end", "all"), AllBegun(B!Cleanup("parent"))
      PROVE  B!DurationsAreFollowed'
  <2>1. B!Cleanup("parent") \in B!Worker /\ \A b \in Breakout : B!Cleanup("parent") # B!Cleanup(b)
    BY BreakoutWorkers
  <2>2. /\ WorkersStay(B!Cleanup("parent")) /\ UNCHANGED <<c1, c4, c5, c6>>
        /\ ~B!Timing(B!Cleanup("parent")) /\ ~B!Timing(B!Cleanup("parent"))'
    BY <1>4 DEF AllBegun, B!Timing, B!Does, B!At
  <2> QED
    BY <1>1, <2>1, <2>2
<1>5. CASE Ticks
  <2>1. c6' \in Nat /\ c6 \in Nat /\ c6' > c6 /\ UNCHANGED <<c1, c4, c5, c7>>
    BY <1>5 DEF Ticks, B!BreakoutTypeOK
  <2>2. ASSUME NEW b \in Breakout PROVE B!CheckerFollows(b)'
    BY <2>1 DEF B!DurationsAreFollowed, B!CheckerFollows, B!IsBusy, B!At
  <2>3. ASSUME NEW w \in B!Worker PROVE B!DurationHolds(w)'
    <3>1. /\ B!DurationHolds(w) /\ c7[w].room \in B!Room /\ c7[w].had \in Nat
          /\ B!End(c4[c7[w].room]) \in Nat /\ B!End(c4["parent"]) \in Nat
      BY WorkFields, KeyFields, BreakoutWorkers DEF B!DurationsAreFollowed, B!BreakoutTypeOK
    <3>a. Minutes(c7[w].had) \in Nat /\ PerMinute \in Nat
      BY <3>1, MinutesAdd, BreakoutsAssumption DEF BreakoutsAssumption
    <3>2. ASSUME NEW e \in Nat
          PROVE  /\ e < c6 + Minutes(c7[w].had) + PerMinute =>
                       e < c6' + Minutes(c7[w].had) + PerMinute
                 /\ c6' <= e => c6 <= e
      BY <2>1, <3>a
    <3>3. B!At(w, "increase", "compare") =>
             B!End(c4[c7[w].room]) < c6' + Minutes(c7[w].had) + PerMinute
      BY <3>1, <3>2 DEF B!DurationHolds, Minutes
    <3>4. c6' <= B!End(c4["parent"]) => c6 <= B!End(c4["parent"])
      BY <3>1, <3>2
    <3> HIDE DEF B!End
    <3> QED
      BY <2>1, <3>1, <3>3, <3>4
         DEF B!DurationHolds, B!Does, B!At, B!IsBusy, B!Parent, B!Limited, B!End, Minutes
  <2> QED
    BY <2>2, <2>3 DEF B!DurationsAreFollowed
<1>6. ASSUME NEW r \in B!Room, NotFollowed(r) PROVE B!DurationsAreFollowed'
  <2> DEFINE w == B!Cleanup(r)
  <2>1. /\ w \in B!Worker /\ WorkersStay(w) /\ UNCHANGED <<c1, c4, c5, c6>>
        /\ c7[w].job = "end" /\ c7[w].at \in {"all", "delete"} /\ c7'[w].job = "end"
    BY <1>6, BreakoutWorkers DEF NotFollowed, B!At
  <2> QED
    BY <1>1, <2>1 DEF B!Timing, B!Does, B!IsBusy, B!At
<1>7. ASSUME NEW r \in B!Room, Overwritten(r) PROVE B!DurationsAreFollowed'
  <2>1. UNCHANGED <<c1, c4, c5, c6, c7>>
    BY <1>7 DEF Overwritten
  <2>2. ASSUME NEW b \in Breakout PROVE B!CheckerFollows(b)'
    BY <2>1 DEF B!DurationsAreFollowed, B!CheckerFollows, B!IsBusy, B!At
  <2>3. ASSUME NEW w \in B!Worker PROVE B!DurationHolds(w)'
    BY <2>1 DEF B!DurationsAreFollowed, B!DurationHolds, B!Does, B!At, B!IsBusy, B!Parent,
                B!Limited, B!End
  <2> QED
    BY <2>2, <2>3 DEF B!DurationsAreFollowed
<1> QED
  BY <1>2, <1>3, <1>4, <1>5, <1>6, <1>7

(* The checker follows the rooms and what is granted to them.              *)
LEMMA DurationsStillFollow ==
  ASSUME DurationFacts, BreakoutDoes
  PROVE  B!DurationsAreFollowed'
BY DurationsFollowChanges, DurationsFollowIncrease, DurationsFollowStarts, DurationsFollowEnds,
   DurationsFollowOthers DEF BreakoutDoes, DurationFacts, KeyKept

(* Ends take every room along.                                             *)

CreatesAlone == \A v, w \in B!Worker : B!Does(w, "end") => ~B!Does(v, "create")

LEMMA CreatesAreAlone ==
  /\ B!OverlapsAreMixed /\ c8 \cap {"create", "fault"} = {} => CreatesAlone
  /\ B!OverlapsAreMixed' /\ c8' \cap {"create", "fault"} = {} => CreatesAlone'
<1>1. B!OverlapsAreMixed /\ c8 \cap {"create", "fault"} = {} => CreatesAlone
  BY DEF B!OverlapsAreMixed, CreatesAlone, B!Does, B!Writing
<1>2. B!OverlapsAreMixed' /\ c8' \cap {"create", "fault"} = {} => CreatesAlone'
  BY DEF B!OverlapsAreMixed, CreatesAlone, B!Does, B!Writing
<1> QED
  BY <1>1, <1>2

(* A worker moves, no room begins to run and none that runs is forgotten.  *)
LEMMA EndsFrame ==
  ASSUME B!EndsTakeAll, B!WorkersKeepToRooms, NEW w \in B!Worker, WorkersStay(w),
         \A b \in Breakout : b \in B!Running' => b \in B!Running,
         c1'["parent"] = "off" => c1["parent"] = "off",
         \A b \in Breakout : c3[b].there => c3'[b].there \/ b \notin B!Running',
         \A b \in Breakout : B!At(w, "create", "insert") /\ c7[w].room = b => c3'[b].there,
         B!EndHolds(w)',
         w = B!Cleanup("parent") => \A b \in Breakout : B!ParentTakes(b)',
         B!Does(w, "create")' => c1'["parent"] # "off"
  PROVE  B!EndsTakeAll'
<1>1. ASSUME NEW b \in Breakout, b \in B!Running' PROVE B!Listed(b)'
  <2>1. B!Listed(b)
    BY <1>1 DEF B!EndsTakeAll
  <2>2. CASE c3[b].there
    BY <1>1, <2>2 DEF B!Listed
  <2>3. ASSUME NEW v \in B!Worker, B!At(v, "create", "insert"), c7[v].room = b
        PROVE  B!Listed(b)'
    <3>1. CASE v = w
      BY <2>3, <3>1 DEF B!Listed
    <3>2. CASE v # w
      BY <2>3, <3>2 DEF B!Listed, WorkersStay, B!At
    <3> QED
      BY <3>1, <3>2
  <2> QED
    BY <2>1, <2>2, <2>3 DEF B!Listed
<1>2. ASSUME NEW b \in Breakout PROVE B!ParentTakes(b)'
  <2>1. CASE w = B!Cleanup("parent")
    BY <2>1
  <2>2. CASE w # B!Cleanup("parent")
    <3>1. c7'[B!Cleanup("parent")] = c7[B!Cleanup("parent")] /\ B!ParentTakes(b)
      BY <2>2, BreakoutWorkers DEF WorkersStay, B!EndsTakeAll
    <3> QED
      BY <3>1 DEF B!ParentTakes, B!Parent
  <2> QED
    BY <2>1, <2>2
<1>3. ASSUME NEW v \in B!Worker PROVE B!EndHolds(v)'
  <2>1. CASE v # w
    <3>1. /\ c7'[v] = c7[v] /\ B!EndHolds(v)
          /\ B!At(v, "end", "delete") => c7[v].room \in Breakout
      BY <2>1 DEF WorkersStay, B!EndsTakeAll, B!WorkersKeepToRooms, B!WorkerKeeps
    <3> QED
      BY <3>1 DEF B!EndHolds, B!At
  <2> QED
    BY <2>1
<1>4. c1'["parent"] = "off" =>
         Breakout \cap B!Running' = {} /\ \A v \in B!Worker : ~B!Does(v, "create")'
  BY DEF B!EndsTakeAll, WorkersStay, B!Does, B!IsBusy, B!Parent
<1> QED
  BY <1>1, <1>2, <1>3, <1>4 DEF B!EndsTakeAll, B!Parent

EndFacts ==
    /\ B!BreakoutTypeOK /\ B!WorkersKeepToRooms /\ CreatesAlone /\ CreatesAlone' /\ B!EndsTakeAll
    /\ "fault" \notin c8'

LEMMA RunningRooms ==
  /\ \A r \in B!Room : r \in B!Running <=> c1[r] \in {"created", "running"}
  /\ \A r \in B!Room : r \in B!Running' <=> c1'[r] \in {"created", "running"}
  /\ \A r : r \in B!Running => r \in B!Room
BY DEF B!Running

(* Steps of one that ends no rooms, but for the creation of one.           *)
LEMMA EndsAfterRequests ==
  ASSUME EndFacts,
         \/ \E w \in Handler :
              \/ CreateBegun(w) \/ NotMade(w) \/ Inserted(w) \/ Created(w) \/ GivesUp(w)
              \/ \E b \in Breakout : IncreaseBegun(w, b) \/ EndBegun(w, b)
              \/ Informed(w) \/ Compared(w) \/ Grown(w) \/ Granted(w) \/ TakenBack(w) \/ Kept(w)
              \/ c7[w].at = "idle" /\ AllBegun(w)
         \/ \E b \in Breakout :
              Opened(b) \/ Limiting(b) \/ Fetched(b) \/ Stored(b) \/ Announced(b) \/ Skipped(b)
         \/ \E r \in B!Room : Overwritten(r)
         \/ Ticks
  PROVE  B!EndsTakeAll'
<1> USE DEF EndFacts
<1>1. ASSUME NEW w \in B!Worker, w # B!Cleanup("parent"), WorkersStay(w),
             \A b \in Breakout : b \in B!Running' => b \in B!Running, c1'["parent"] = c1["parent"],
             \A b \in Breakout : c3[b].there => c3'[b].there,
             \A b \in Breakout : B!At(w, "create", "insert") /\ c7[w].room = b => c3'[b].there,
             ~B!At(w, "end", "delete")', ~B!At(w, "end", "purge")',
             B!Does(w, "create")' => c1["parent"] # "off"
      PROVE  B!EndsTakeAll'
  <2>1. B!EndHolds(w)'
    BY <1>1 DEF B!EndHolds
  <2> QED
    BY <1>1, <2>1, EndsFrame
<1>2. ASSUME NEW w \in Handler
      PROVE  /\ w \in B!Worker /\ w # B!Cleanup("parent") /\ B!WorkerKeeps(w)
             /\ B!Does(w, "create") => c1["parent"] # "off"
  BY BreakoutWorkers DEF B!WorkersKeepToRooms, B!EndsTakeAll, B!Parent
<1>3. ASSUME NEW w \in Handler, CreateBegun(w) \/ NotMade(w) \/ Inserted(w) \/ Created(w)
      PROVE  B!EndsTakeAll'
  <2>1. /\ WorkersStay(w) /\ c1' = c1 /\ c7'[w].at \in {"next", "idle", "over"}
        /\ (c7[w].at = "idle" /\ c1["parent"] # "off") \/ B!Does(w, "create")
    BY <1>3 DEF CreateBegun, NotMade, Inserted, Created, Rests, B!At, B!Does, B!IsBusy
  <2>2. /\ \A b \in Breakout : c3[b].there => c3'[b].there
        /\ \A b \in Breakout : B!At(w, "create", "insert") /\ c7[w].room = b => c3'[b].there
    BY <1>2, <1>3 DEF CreateBegun, NotMade, Inserted, Created, HashStays, B!At
  <2> QED
    BY <1>1, <1>2, <2>1, <2>2 DEF B!Running, B!At
<1>4. ASSUME NEW w \in Handler,
             \/ \E b \in Breakout : IncreaseBegun(w, b) \/ EndBegun(w, b)
             \/ Informed(w) \/ Compared(w) \/ Grown(w) \/ Granted(w) \/ TakenBack(w) \/ Kept(w)
             \/ c7[w].at = "idle" /\ AllBegun(w)
             \/ GivesUp(w)
      PROVE  B!EndsTakeAll'
  <2>1. /\ WorkersStay(w) /\ c1' = c1
        /\ c7[w].at # "insert" \/ c7[w].job = "increase"
        /\ c7'[w].job \in {"increase", "end"} \/ c7'[w].at \in {"idle", "over"}
        /\ c7'[w].at \notin {"delete", "purge"}
    BY <1>4 DEF IncreaseBegun, EndBegun, Informed, Compared, Grown, Granted, TakenBack, Kept,
       AllBegun, GivesUp, Rests, Stays, Moved, B!At
  <2>2. \A b \in Breakout : c3[b].there => c3'[b].there
    <3>1. CASE Kept(w)
      <4>1. c7[w].rec.there
        BY <1>2, <3>1 DEF Kept, B!WorkerKeeps, B!Does, B!At, B!IsBusy
      <4> QED
        BY <3>1, <4>1 DEF Kept, HashStays
    <3>2. CASE ~Kept(w)
      BY <1>4, <3>2 DEF IncreaseBegun, EndBegun, Informed, Compared, Grown, Granted, TakenBack,
         AllBegun, GivesUp
    <3> QED
      BY <3>1, <3>2
  <2> QED
    BY <1>1, <1>2, <2>1, <2>2 DEF B!Running, B!At, B!Does, B!IsBusy
<1>5. ASSUME NEW b \in Breakout,
             Opened(b) \/ Limiting(b) \/ Fetched(b) \/ Stored(b) \/ Announced(b) \/ Skipped(b)
      PROVE  B!EndsTakeAll'
  <2> DEFINE w == B!Started(b)
  <2>1. /\ w \in B!Worker /\ w # B!Cleanup("parent") /\ B!WorkerKeeps(w) /\ b \in B!Room
        /\ b # "parent" /\ "parent" \in B!Room
    BY BreakoutWorkers DEF B!WorkersKeepToRooms
  <2>2. /\ WorkersStay(w)
        /\ c7[w].at = "idle" \/ c7[w].job = "start"
        /\ c7'[w].job = "start" \/ c7'[w].at \in {"idle", "over"}
        /\ c7'[w].at \notin {"delete", "purge"}
    BY <1>5 DEF Opened, Limiting, Fetched, Stored, Announced, Skipped, Rests, Moved, B!At
  <2>3. (\A c \in Breakout : c \in B!Running' => c \in B!Running) /\ c1'["parent"] = c1["parent"]
    BY <1>5, <2>1, RunningRooms, BreakoutWorkers
       DEF Opened, Limiting, Fetched, Stored, Announced, Skipped, StatusStays
  <2>4. \A c \in Breakout : c3[c].there => c3'[c].there
    <3>1. CASE Stored(b)
      <4>1. c7[w].rec.there
        BY <2>1, <3>1 DEF Stored, B!WorkerKeeps, B!At
      <4> QED
        BY <3>1, <4>1 DEF Stored, HashStays
    <3>2. CASE ~Stored(b)
      BY <1>5, <3>2 DEF Opened, Limiting, Fetched, Announced, Skipped
    <3> QED
      BY <3>1, <3>2
  <2> HIDE DEF w
  <2> QED
    BY <1>1, <2>1, <2>2, <2>3, <2>4 DEF B!At, B!Does, B!IsBusy
<1>6. CASE Ticks \/ \E r \in B!Room : Overwritten(r)
  <2>1. UNCHANGED <<c1, c3, c7>>
    BY <1>6 DEF Ticks, Overwritten
  <2> QED
    BY <2>1 DEF B!EndsTakeAll, B!Listed, B!ParentTakes, B!EndHolds, B!Running, B!At, B!Does,
       B!IsBusy
<1> QED
  BY <1>3, <1>4, <1>5, <1>6

LEMMA EndsAfterCreation ==
  ASSUME EndFacts, NEW w \in Handler, NEW b \in Breakout, RoomMade(w, b)
  PROVE  B!EndsTakeAll'
<1> USE DEF EndFacts
<1>1. /\ w \in B!Worker /\ B!Does(w, "create") /\ WorkersStay(w) /\ c3' = c3
      /\ c7[w].at = "next" /\ c7'[w].at = "insert" /\ c7'[w].job = "create" /\ c7'[w].room = b
      /\ StatusStays(b) /\ b \in B!Room /\ b # "parent" /\ "parent" \in B!Room
  BY BreakoutWorkers DEF RoomMade, B!At, B!Does, B!IsBusy
<1>2. c1'["parent"] = c1["parent"] /\ c1["parent"] # "off"
  BY <1>1 DEF StatusStays, B!EndsTakeAll, B!Parent
<1>3. \A v \in B!Worker : ~B!Does(v, "end") /\ ~B!Does(v, "end")'
  BY <1>1 DEF CreatesAlone, WorkersStay, B!Does, B!IsBusy
<1>4. ASSUME NEW v \in B!Worker PROVE B!EndHolds(v)'
  BY <1>3 DEF B!EndHolds, B!At, B!Does, B!IsBusy
<1>5. ASSUME NEW c \in Breakout PROVE B!ParentTakes(c)'
  <2>1. /\ B!Cleanup("parent") \in B!Worker /\ B!CleanupKeeps("parent")
        /\ B!Cleanup("parent") # w
    BY BreakoutWorkers DEF B!WorkersKeepToRooms
  <2>2. ~B!IsBusy(B!Cleanup("parent"))
    BY <1>3, <2>1 DEF B!CleanupKeeps, B!Does
  <2>3. c7'[B!Cleanup("parent")].at \in {"idle", "over"}
    BY <1>1, <2>1, <2>2 DEF WorkersStay, B!IsBusy
  <2> QED
    BY <2>3 DEF B!ParentTakes, B!Parent
<1>6. ASSUME NEW c \in Breakout, c \in B!Running' PROVE B!Listed(c)'
  <2>1. CASE c = b
    BY <1>1, <2>1 DEF B!Listed, B!At
  <2>2. CASE c # b
    <3>1. c \in B!Running
      BY <1>1, <1>6, <2>2, BreakoutWorkers, RunningRooms DEF StatusStays
    <3>2. B!Listed(c)
      BY <3>1 DEF B!EndsTakeAll
    <3>3. ASSUME NEW v \in B!Worker, B!At(v, "create", "insert"), c7[v].room = c
          PROVE  B!At(v, "create", "insert")' /\ c7'[v].room = c
      BY <1>1, <3>3 DEF WorkersStay, B!At
    <3> QED
      BY <1>1, <3>2, <3>3 DEF B!Listed
  <2> QED
    BY <2>1, <2>2
<1> QED
  BY <1>2, <1>4, <1>5, <1>6 DEF B!EndsTakeAll, B!Parent

(* Steps of one that ends rooms.                                           *)
LEMMA EndsAfterKill ==
  ASSUME EndFacts, NEW w \in B!Worker, Killed(w)
  PROVE  B!EndsTakeAll'
<1> USE DEF EndFacts
<1>1. PICK b \in Breakout : b = c7[w].room
  BY DEF Killed, B!WorkersKeepToRooms, B!WorkerKeeps
<1>2. /\ B!At(w, "end", "kill") /\ RoomEnds(b) /\ c3' = c3
      /\ \A v \in B!Worker : v # w /\ v # B!Cleanup(b) => c7'[v] = c7[v]
      /\ c1[b] \in {"created", "running"} => CleanupBegins(b)
      /\ w # B!Cleanup(b) \/ c1[b] \notin {"created", "running"} =>
           /\ c7'[w].at = "delete" /\ c7'[w].job = "end" /\ c7'[w].room = b
           /\ c7'[w].todo = c7[w].todo
      /\ c1[b] \notin {"created", "running"} /\ w # B!Cleanup(b) =>
           c7'[B!Cleanup(b)] = c7[B!Cleanup(b)]
  BY <1>1 DEF Killed
<1>3. /\ b \in B!Room /\ "parent" \in B!Room /\ b # "parent" /\ B!Cleanup(b) \in B!Worker
      /\ B!Cleanup("parent") \in B!Worker /\ B!Cleanup("parent") # B!Cleanup(b)
      /\ B!CleanupKeeps(b) /\ B!Does(w, "end")
  BY <1>2, BreakoutWorkers DEF B!WorkersKeepToRooms, B!Does, B!At, B!IsBusy
<1>4. /\ \A c \in Breakout : c \in B!Running' => c \in B!Running /\ c # b
      /\ c1'["parent"] = c1["parent"]
  BY <1>2, <1>3, RunningRooms, BreakoutWorkers DEF RoomEnds, StatusStays
<1>5. \A v \in B!Worker : ~B!Does(v, "create") /\ ~B!Does(v, "create")'
  BY <1>2, <1>3 DEF CreatesAlone, CleanupBegins, B!Does, B!IsBusy
<1>6. ASSUME NEW c \in Breakout, c \in B!Running' PROVE B!Listed(c)'
  <2>1. c3[c].there
    BY <1>4, <1>5, <1>6 DEF B!EndsTakeAll, B!Listed, B!Does, B!At, B!IsBusy
  <2> QED
    BY <1>2, <2>1 DEF B!Listed
<1>7. ASSUME NEW v \in B!Worker PROVE B!EndHolds(v)'
  <2>1. /\ B!EndHolds(v) /\ (B!At(v, "end", "delete") => c7[v].room \in Breakout)
    BY DEF B!EndsTakeAll, B!WorkersKeepToRooms, B!WorkerKeeps
  <2>2. CASE c7'[v] = c7[v]
    BY <1>4, <2>1, <2>2 DEF B!EndHolds, B!At
  <2>3. CASE c7'[v].at = "undo"
    BY <2>3 DEF B!EndHolds, B!At
  <2>4. CASE c7'[v].at = "delete" /\ c7'[v].room = b
    BY <1>4, <2>4 DEF B!EndHolds, B!At
  <2> QED
    BY <1>2, <2>2, <2>3, <2>4 DEF CleanupBegins
<1>8. ASSUME NEW c \in Breakout PROVE B!ParentTakes(c)'
  <2>1. B!ParentTakes(c)
    BY DEF B!EndsTakeAll
  <2>2. CASE w = B!Cleanup("parent")
    BY <1>1, <1>2, <1>3, <1>4, <2>1, <2>2 DEF B!ParentTakes, B!Parent, B!At
  <2>3. CASE w # B!Cleanup("parent")
    <3>1. c7'[B!Cleanup("parent")] = c7[B!Cleanup("parent")]
      BY <1>2, <1>3, <2>3
    <3> QED
      BY <1>4, <2>1, <3>1 DEF B!ParentTakes, B!Parent
  <2> QED
    BY <2>2, <2>3
<1>9. c1'["parent"] = "off" => Breakout \cap B!Running' = {}
  BY <1>4 DEF B!EndsTakeAll, B!Parent
<1> QED
  BY <1>5, <1>6, <1>7, <1>8, <1>9 DEF B!EndsTakeAll, B!Parent

LEMMA EndsAfterEnds ==
  ASSUME EndFacts, NEW w \in B!Worker,
         Deleted(w) \/ Counted(w) \/ Purged(w) \/ Seen(w) \/ Dropped(w) \/ Missed(w)
  PROVE  B!EndsTakeAll'
<1> USE DEF EndFacts
<1>1. /\ c7[w].job = "end" /\ c7[w].at \in {"delete", "count", "purge", "drop", "deactivate"}
      /\ WorkersStay(w) /\ c1' = c1 /\ B!Does(w, "end")
      /\ c7'[w].job = "end" \/ c7'[w].at = "over"
  BY DEF Deleted, Counted, Purged, Seen, Dropped, Missed, Moved, MovesOn, B!Does, B!At, B!IsBusy
<1>2. \A v \in B!Worker : ~B!Does(v, "create")
  BY <1>1 DEF CreatesAlone
<1>3. \A b \in Breakout : b \in B!Running => c3[b].there
  BY <1>2 DEF B!EndsTakeAll, B!Listed, B!Does, B!At, B!IsBusy
<1>4. /\ B!EndHolds(w) /\ (B!At(w, "end", "delete") => c7[w].room \in Breakout)
      /\ \A b \in Breakout : B!ParentTakes(b)
  BY DEF B!EndsTakeAll, B!WorkersKeepToRooms, B!WorkerKeeps
<1>5. \A b \in Breakout : c3[b].there => c3'[b].there \/ b \notin B!Running'
  <2>1. CASE Deleted(w)
    BY <1>1, <1>4, <2>1 DEF Deleted, HashStays, B!EndHolds, B!Running
  <2>2. CASE Purged(w)
    BY <1>1, <1>4, <2>2 DEF Purged, B!EndHolds, B!Running
  <2>3. CASE Counted(w) \/ Seen(w) \/ Dropped(w) \/ Missed(w)
    BY <2>3 DEF Counted, Seen, Dropped, Missed
  <2> QED
    BY <2>1, <2>2, <2>3
<1>6. B!EndHolds(w)'
  <2>1. c7'[w].at # "delete"
    BY DEF Deleted, Counted, Purged, Seen, Dropped, Missed, Moved, MovesOn
  <2>2. CASE Counted(w)
    BY <1>1, <1>3, <2>1, <2>2 DEF Counted, MovesOn, Moved, B!EndHolds, B!Running, B!At
  <2>3. CASE ~Counted(w)
    BY <2>1, <2>3 DEF Deleted, Purged, Seen, Dropped, Missed, Moved, MovesOn, B!EndHolds, B!At
  <2> QED
    BY <2>2, <2>3
<1>7. ASSUME w = B!Cleanup("parent"), NEW b \in Breakout PROVE B!ParentTakes(b)'
  <2>1. b \in B!Running' => b \in c7[w].todo
    BY <1>1, <1>4, <1>7 DEF B!ParentTakes, B!Parent, B!Running
  <2>2. \/ c7'[w].todo = c7[w].todo
        \/ c7'[w].at = "kill" /\ c7'[w].todo = c7[w].todo \ {c7'[w].room}
        \/ c7'[w].at = "over"
    BY DEF Deleted, Counted, Purged, Seen, Dropped, Missed, Moved, MovesOn
  <2> QED
    BY <1>7, <2>1, <2>2 DEF B!ParentTakes, B!Parent
<1>8. /\ \A b \in Breakout : b \in B!Running' => b \in B!Running
      /\ c1'["parent"] = "off" => c1["parent"] = "off"
      /\ \A b \in Breakout : B!At(w, "create", "insert") /\ c7[w].room = b => c3'[b].there
      /\ ~B!Does(w, "create")'
  BY <1>1 DEF B!Running, B!Does, B!At, B!IsBusy
<1> QED
  BY <1>1, <1>5, <1>6, <1>7, <1>8, EndsFrame

LEMMA EndsAfterCleanup ==
  ASSUME EndFacts,
         \/ \E r \in B!Room : \/ Ending(r) \/ Unlimited(r) \/ Cleaned(r)
                             \/ KeyKept(r) \/ NotFollowed(r)
         \/ B!At(B!Cleanup("parent"), "end", "all") /\ AllBegun(B!Cleanup("parent"))
  PROVE  B!EndsTakeAll'
<1> USE DEF EndFacts
<1>1. ASSUME NEW r \in B!Room
      PROVE  /\ B!Cleanup(r) \in B!Worker /\ B!CleanupKeeps(r) /\ B!WorkerKeeps(B!Cleanup(r))
             /\ B!Cleanup(r) = B!Cleanup("parent") => r = "parent"
             /\ r \in Breakout \/ r = "parent"
  BY BreakoutWorkers DEF B!WorkersKeepToRooms
<1>2. ASSUME NEW r \in B!Room, Ending(r) PROVE B!EndsTakeAll'
  <2> DEFINE w == B!Cleanup(r)
  <2>1. /\ c1[r] \in {"created", "running"} /\ c1'[r] = "ending" /\ StatusStays(r) /\ c3' = c3
        /\ WorkersStay(w) /\ c7'[w].at = "undo" /\ c7'[w].job = "end" /\ c7[w].at \in {"idle", "over"}
    BY <1>1, <1>2 DEF Ending, RoomEnds, CleanupBegins, B!CleanupKeeps, B!IsBusy
  <2>2. /\ \A b \in Breakout : b \in B!Running' => b \in B!Running
        /\ c1'["parent"] = "off" => c1["parent"] = "off"
    BY <2>1, RunningRooms, BreakoutWorkers DEF StatusStays
  <2>3. B!EndHolds(w)'
    BY <2>1 DEF B!EndHolds, B!At
  <2>4. ASSUME w = B!Cleanup("parent"), NEW b \in Breakout PROVE B!ParentTakes(b)'
    BY <2>1, <2>4 DEF B!ParentTakes, B!Parent
  <2>5. ~B!At(w, "create", "insert") /\ ~B!Does(w, "create")'
    BY <2>1 DEF B!At, B!Does
  <2> HIDE DEF w
  <2> QED
    BY <1>1, <2>1, <2>2, <2>3, <2>4, <2>5, EndsFrame DEF w
<1>3. ASSUME NEW r \in B!Room, Unlimited(r) \/ KeyKept(r) PROVE B!EndsTakeAll'
  <2> DEFINE w == B!Cleanup(r)
  <2>1. /\ B!At(w, "end", "undo") /\ WorkersStay(w) /\ c1' = c1 /\ c3' = c3
        /\ c7'[w].job = "end" /\ c7'[w].room = r
        /\ c7'[w].at = IF r = "parent" THEN "all" ELSE "delete"
        /\ c1[r] = "ending"
    BY <1>1, <1>3 DEF Unlimited, KeyKept, Moved, B!CleanupKeeps, B!At, B!IsBusy
  <2>2. B!EndHolds(w)'
    BY <2>1 DEF B!EndHolds, B!At, B!Running
  <2>3. ASSUME w = B!Cleanup("parent"), NEW b \in Breakout PROVE B!ParentTakes(b)'
    BY <1>1, <2>1, <2>3 DEF B!ParentTakes, B!Parent
  <2>4. /\ ~B!At(w, "create", "insert") /\ ~B!Does(w, "create")'
        /\ \A b \in Breakout : b \in B!Running' => b \in B!Running
    BY <2>1 DEF B!At, B!Does, B!Running
  <2> HIDE DEF w
  <2> QED
    BY <1>1, <2>1, <2>2, <2>3, <2>4, EndsFrame DEF w
<1>4. ASSUME NEW r \in B!Room, Cleaned(r) PROVE B!EndsTakeAll'
  <2> DEFINE w == B!Cleanup(r)
  <2>1. /\ B!At(w, "end", "done") /\ WorkersStay(w) /\ c3' = c3 /\ StatusStays(r)
        /\ c1[r] = "ending" /\ c1'[r] = "off" /\ c7'[w].at \in {"idle", "over"}
    BY <1>1, <1>4 DEF Cleaned, Rests, B!CleanupKeeps, B!At, B!IsBusy
  <2>2. \A b \in Breakout : b \in B!Running' => b \in B!Running
    BY <2>1, RunningRooms, BreakoutWorkers DEF StatusStays
  <2>3. ASSUME NEW b \in Breakout, b \in B!Running' PROVE B!Listed(b)'
    <3>1. B!Listed(b)
      BY <2>2, <2>3 DEF B!EndsTakeAll
    <3>2. ASSUME NEW v \in B!Worker, B!At(v, "create", "insert"), c7[v].room = b
          PROVE  B!At(v, "create", "insert")' /\ c7'[v].room = b
      BY <2>1, <3>2 DEF WorkersStay, B!At
    <3> QED
      BY <2>1, <3>1, <3>2 DEF B!Listed
  <2>4. ASSUME NEW b \in Breakout PROVE B!ParentTakes(b)'
    <3>1. CASE r = "parent"
      BY <2>1, <3>1 DEF B!ParentTakes, B!Parent
    <3>2. CASE r # "parent"
      <4>1. c7'[B!Cleanup("parent")] = c7[B!Cleanup("parent")] /\ B!ParentTakes(b)
        BY <1>1, <2>1, <3>2, BreakoutWorkers DEF WorkersStay, B!EndsTakeAll
      <4> QED
        BY <2>2, <4>1 DEF B!ParentTakes, B!Parent
    <3> QED
      BY <3>1, <3>2
  <2>5. ASSUME NEW v \in B!Worker PROVE B!EndHolds(v)'
    <3>1. CASE v = w
      BY <2>1, <3>1 DEF B!EndHolds, B!At
    <3>2. CASE v # w
      <4>1. /\ c7'[v] = c7[v] /\ B!EndHolds(v)
            /\ B!At(v, "end", "delete") => c7[v].room \in Breakout
        BY <2>1, <3>2 DEF WorkersStay, B!EndsTakeAll, B!WorkersKeepToRooms, B!WorkerKeeps
      <4> QED
        BY <2>2, <4>1 DEF B!EndHolds, B!At
    <3> QED
      BY <3>1, <3>2
  <2>6. \A v \in B!Worker : ~B!Does(v, "create")'
    <3>1. \A v \in B!Worker : ~B!Does(v, "create")
      BY <1>1, <2>1 DEF CreatesAlone, B!Does, B!At, B!IsBusy
    <3> QED
      BY <2>1, <3>1 DEF WorkersStay, B!Does, B!IsBusy
  <2>7. c1'["parent"] = "off" => Breakout \cap B!Running' = {}
    <3>1. CASE r = "parent"
      <4>1. c7[w].todo = {} /\ \A b \in Breakout : B!ParentTakes(b)
        BY <1>1, <2>1 DEF B!WorkerKeeps, B!EndsTakeAll
      <4>2. \A b \in Breakout : b \notin B!Running
        BY <2>1, <3>1, <4>1 DEF B!ParentTakes, B!Parent, B!At
      <4> QED
        BY <2>2, <4>2
    <3>2. CASE r # "parent"
      BY <2>1, <2>2, <3>2, BreakoutWorkers DEF StatusStays, B!EndsTakeAll, B!Parent
    <3> QED
      BY <3>1, <3>2
  <2> QED
    BY <2>3, <2>4, <2>5, <2>6, <2>7 DEF B!EndsTakeAll, B!Parent
<1>5. ASSUME B!At(B!Cleanup("parent"), "end", "all"), AllBegun(B!Cleanup("parent"))
      PROVE  B!EndsTakeAll'
  <2> DEFINE w == B!Cleanup("parent")
  <2>1. w \in B!Worker /\ B!Does(w, "end") /\ WorkersStay(w) /\ c1' = c1 /\ c3' = c3
    BY <1>1, <1>5, BreakoutWorkers DEF AllBegun, B!Does, B!At, B!IsBusy
  <2>2. \A b \in Breakout : b \in B!Running => c3[b].there
    BY <2>1 DEF CreatesAlone, B!EndsTakeAll, B!Listed, B!Does, B!At, B!IsBusy
  <2>3. ASSUME NEW b \in Breakout PROVE B!ParentTakes(b)'
    BY <1>5, <2>1, <2>2 DEF AllBegun, B!ParentTakes, B!Parent, B!Running
  <2>4. B!EndHolds(w)'
    BY <1>5 DEF AllBegun, B!EndHolds, B!At
  <2>5. /\ ~B!At(w, "create", "insert") /\ ~B!Does(w, "create")'
        /\ \A b \in Breakout : b \in B!Running' => b \in B!Running
    BY <1>5, <2>1 DEF AllBegun, B!At, B!Does, B!Running
  <2> HIDE DEF w
  <2> QED
    BY <2>1, <2>3, <2>4, <2>5, EndsFrame DEF w
<1>6. ASSUME NEW r \in B!Room, NotFollowed(r) PROVE B!EndsTakeAll'
  <2> DEFINE w == B!Cleanup(r)
  <2>1. /\ WorkersStay(w) /\ c1' = c1 /\ c3' = c3 /\ c7[w].job = "end" /\ r # "parent"
        /\ c7'[w].job = "end" /\ c7'[w].at = "done"
    BY <1>6 DEF NotFollowed, B!At
  <2>2. B!EndHolds(w)' /\ w # B!Cleanup("parent")
    BY <1>1, <2>1 DEF B!EndHolds, B!At
  <2>3. /\ ~B!At(w, "create", "insert") /\ ~B!Does(w, "create")'
        /\ \A b \in Breakout : b \in B!Running' => b \in B!Running
    BY <2>1 DEF B!At, B!Does, B!Running
  <2> HIDE DEF w
  <2> QED
    BY <1>1, <2>1, <2>2, <2>3, EndsFrame DEF w
<1> QED
  BY <1>2, <1>3, <1>4, <1>5, <1>6

LEMMA EndsStillTakeAll ==
  ASSUME EndFacts, BreakoutDoes
  PROVE  B!EndsTakeAll'
<1>1. \A w \in B!Worker : ~NotKilled(w)
  BY DEF NotKilled, EndFacts
<1> QED
  BY <1>1, EndsAfterRequests, EndsAfterCreation, EndsAfterKill, EndsAfterEnds, EndsAfterCleanup
     DEF BreakoutDoes

(* The hash follows the rooms, and the flag the hash.                      *)
OnlyEnds ==
    \A v, w \in B!Worker : B!Does(w, "end") => ~B!Does(v, "create") /\ ~B!Timing(v)

LEMMA EndsAreAlone ==
  /\ B!OverlapsAreMixed /\ c8 \subseteq {"twice", "clock"} => OnlyEnds
  /\ B!OverlapsAreMixed' /\ c8' \subseteq {"twice", "clock"} => OnlyEnds'
<1>1. B!OverlapsAreMixed /\ c8 \subseteq {"twice", "clock"} => OnlyEnds
  BY DEF B!OverlapsAreMixed, OnlyEnds, B!Does, B!Timing, B!Writing
<1>2. B!OverlapsAreMixed' /\ c8' \subseteq {"twice", "clock"} => OnlyEnds'
  BY DEF B!OverlapsAreMixed, OnlyEnds, B!Does, B!Timing, B!Writing
<1> QED
  BY <1>1, <1>2

HashFacts ==
    /\ B!BreakoutTypeOK /\ B!WorkersKeepToRooms /\ OnlyEnds /\ OnlyEnds' /\ B!HashIsFollowed
    /\ "fault" \notin c8' /\ "books" \notin c8'

(* A worker moves that has nothing in the hash or the flag under way.      *)
LEMMA HashFrame ==
  ASSUME B!HashIsFollowed, B!WorkersKeepToRooms, NEW w \in B!Worker, WorkersStay(w),
         B!HashHolds(w)',
         \A b \in Breakout : c3'[b].there <=> c3[b].there,
         \A b \in B!Room : b \in B!Running' <=> b \in B!Running,
         \A b \in Breakout : B!Cleanup(b) # w,
         c1'["parent"] = "off" <=> c1["parent"] = "off",
         c2' = c2,
         ~B!At(w, "end", "delete"), ~B!At(w, "end", "count"), ~B!Dropping(w),
         B!Does(w, "create") /\ c7[w].made => B!Does(w, "create")' /\ c7'[w].made,
         \A v \in B!Worker : c7[v].room \in B!Room
  PROVE  B!HashIsFollowed'
<1>1. ASSUME NEW b \in Breakout PROVE B!RecordHolds(b)'
  <2>1. B!RecordHolds(b) /\ b \in B!Room /\ c7'[B!Cleanup(b)] = c7[B!Cleanup(b)]
    BY BreakoutWorkers DEF B!HashIsFollowed, WorkersStay
  <2>2. ASSUME NEW v \in B!Worker, B!At(v, "end", "delete"), c7[v].room = b
        PROVE  B!At(v, "end", "delete")' /\ c7'[v].room = b
    BY <2>2 DEF WorkersStay, B!At
  <2> QED
    BY <2>1, <2>2 DEF B!RecordHolds, B!At
<1>2. ASSUME NEW v \in B!Worker PROVE B!HashHolds(v)'
  <2>1. CASE v # w
    <3>1. c7'[v] = c7[v] /\ B!HashHolds(v) /\ c7[v].room \in B!Room
      BY <2>1 DEF WorkersStay, B!HashIsFollowed
    <3>2. B!Does(v, "increase") \/ B!At(v, "start", "store") => c3'[c7[v].room].there
      <4>1. B!Timing(v) => c7[v].room \in Breakout
        BY DEF B!WorkersKeepToRooms, B!WorkerKeeps
      <4> QED
        BY <3>1, <4>1 DEF B!HashHolds, B!Timing, B!Does, B!At, B!IsBusy
    <3> QED
      BY <3>1, <3>2 DEF B!HashHolds, B!Dropping, B!Timing, B!Does, B!At, B!IsBusy
  <2> QED
    BY <2>1
<1>3. B!FlagHolds'
  <2>1. ASSUME NEW v \in B!Worker
        PROVE  /\ B!At(v, "end", "count") => B!At(v, "end", "count")'
               /\ B!Dropping(v) => B!Dropping(v)'
               /\ B!Does(v, "create") /\ c7[v].made => B!Does(v, "create")' /\ c7'[v].made
    BY DEF WorkersStay, B!Dropping, B!At, B!Does, B!IsBusy
  <2>2. B!FlagHolds
    BY DEF B!HashIsFollowed
  <2> QED
    BY <2>1, <2>2 DEF B!FlagHolds, B!Parent
<1> QED
  BY <1>1, <1>2, <1>3 DEF B!HashIsFollowed

LEMMA HashAfterRequests ==
  ASSUME HashFacts,
         \/ \E w \in Handler :
              \/ CreateBegun(w) \/ NotMade(w) \/ GivesUp(w)
              \/ \E b \in Breakout : IncreaseBegun(w, b) \/ EndBegun(w, b)
              \/ Informed(w) \/ Compared(w) \/ Grown(w) \/ Granted(w) \/ TakenBack(w) \/ Kept(w)
              \/ c7[w].at = "idle" /\ AllBegun(w)
         \/ B!At(B!Cleanup("parent"), "end", "all") /\ AllBegun(B!Cleanup("parent"))
         \/ \E r \in B!Room : Overwritten(r)
         \/ Ticks
  PROVE  B!HashIsFollowed'
<1> USE DEF HashFacts
<1>1. \A v \in B!Worker : c7[v].room \in B!Room
  BY WorkFields DEF B!BreakoutTypeOK
<1>2. ASSUME NEW w \in Handler
      PROVE  /\ w \in B!Worker /\ B!WorkerKeeps(w) /\ B!HashHolds(w)
             /\ \A b \in Breakout : B!Cleanup(b) # w
  BY BreakoutWorkers DEF B!WorkersKeepToRooms, B!HashIsFollowed
<1>3. ASSUME NEW w \in B!Worker, WorkersStay(w), B!HashHolds(w)',
             \A b \in Breakout : B!Cleanup(b) # w,
             \A b \in Breakout : c3'[b].there <=> c3[b].there, c1' = c1, c2' = c2,
             c7[w].at \in {"idle", "all"} \/ c7[w].job \in {"create", "increase"},
             B!Does(w, "create") => B!Does(w, "create")' /\ c7'[w].made = c7[w].made
      PROVE  B!HashIsFollowed'
  <2>1. ~B!At(w, "end", "delete") /\ ~B!At(w, "end", "count") /\ ~B!Dropping(w)
    BY <1>3 DEF B!At, B!Dropping
  <2>2. \A b \in B!Room : b \in B!Running' <=> b \in B!Running
    BY <1>3 DEF B!Running
  <2> QED
    BY <1>1, <1>3, <2>1, <2>2, HashFrame
<1>4. ASSUME NEW w \in Handler, CreateBegun(w) \/ NotMade(w) PROVE B!HashIsFollowed'
  <2>1. B!HashHolds(w)'
    BY <1>2, <1>4
       DEF CreateBegun, NotMade, B!HashHolds, B!Timing, B!Dropping, B!Does, B!At, B!IsBusy
  <2> QED
    BY <1>2, <1>3, <1>4, <2>1 DEF CreateBegun, NotMade, B!Does, B!At, B!IsBusy
<1>5. ASSUME NEW w \in Handler, NEW b \in Breakout, IncreaseBegun(w, b) PROVE B!HashIsFollowed'
  <2>1. b \in B!Running
    <3>1. B!RecordHolds(b) /\ B!Cleanup(b) \in B!Worker /\ c3[b].there
      BY <1>5, BreakoutWorkers DEF IncreaseBegun, B!HashIsFollowed
    <3>2. ASSUME NEW v \in B!Worker, v # w PROVE ~B!Does(v, "end")
      <4>1. B!Timing(w)' /\ c7'[v] = c7[v]
        BY <1>5, <3>2 DEF IncreaseBegun, WorkersStay, B!Timing, B!Does, B!IsBusy
      <4> QED
        BY <1>2, <4>1 DEF OnlyEnds, B!Does, B!IsBusy
    <3>3. \A v \in B!Worker : ~B!At(v, "end", "delete") /\ ~B!At(v, "end", "undo")
      BY <1>5, <3>2 DEF IncreaseBegun, B!At, B!Does, B!IsBusy
    <3> QED
      BY <3>1, <3>3 DEF B!RecordHolds
  <2>2. B!HashHolds(w)'
    BY <1>5, <2>1 DEF IncreaseBegun, B!HashHolds, B!Timing, B!Dropping, B!Does, B!At, B!Running
  <2> QED
    BY <1>2, <1>3, <1>5, <2>2 DEF IncreaseBegun, B!Does, B!IsBusy
<1>6. ASSUME NEW w \in Handler,
             \/ Informed(w) \/ Compared(w) \/ Grown(w) \/ Granted(w) \/ TakenBack(w)
             \/ GivesUp(w)
      PROVE  B!HashIsFollowed'
  <2>1. /\ WorkersStay(w) /\ UNCHANGED <<c1, c2, c3>> /\ c7[w].job = "increase" /\ B!IsBusy(w)
        /\ \/ c7'[w].at \in {"idle", "over"}
           \/ c7'[w].job = "increase" /\ c7'[w].room = c7[w].room
    BY <1>6 DEF Informed, Compared, Grown, Granted, TakenBack, GivesUp, Rests, Stays, Moved, B!At,
                B!IsBusy
  <2>2. B!HashHolds(w)'
    BY <1>2, <2>1 DEF B!HashHolds, B!Timing, B!Dropping, B!Does, B!At, B!IsBusy, B!Running
  <2> QED
    BY <1>2, <1>3, <2>1, <2>2 DEF B!Does
<1>7. ASSUME NEW w \in Handler, Kept(w) PROVE B!HashIsFollowed'
  <2>1. B!Does(w, "increase") /\ c7[w].rec.there /\ c7[w].room \in Breakout /\ c3[c7[w].room].there
    BY <1>2, <1>7 DEF Kept, B!WorkerKeeps, B!HashHolds, B!Timing, B!Does, B!At, B!IsBusy
  <2>2. \A b \in Breakout : c3'[b].there <=> c3[b].there
    BY <1>7, <2>1 DEF Kept, HashStays
  <2>3. B!HashHolds(w)'
    BY <1>7 DEF Kept, Rests, B!HashHolds, B!Timing, B!Dropping, B!Does, B!At, B!IsBusy
  <2> QED
    BY <1>2, <1>3, <1>7, <2>1, <2>2, <2>3 DEF Kept, Rests, B!Does
<1>8. ASSUME NEW w \in Handler, NEW b \in Breakout, EndBegun(w, b) PROVE B!HashIsFollowed'
  <2>1. B!HashHolds(w)'
    BY <1>8 DEF EndBegun, B!HashHolds, B!Timing, B!Dropping, B!Does, B!At
  <2> QED
    BY <1>2, <1>3, <1>8, <2>1 DEF EndBegun, B!Does, B!IsBusy
<1>9. ASSUME NEW w \in B!Worker, AllBegun(w), \A b \in Breakout : B!Cleanup(b) # w,
             c7[w].at = "idle" \/ B!At(w, "end", "all")
      PROVE  B!HashIsFollowed'
  <2>1. B!HashHolds(w)'
    BY <1>9 DEF AllBegun, B!HashHolds, B!Timing, B!Dropping, B!Does, B!At
  <2> QED
    BY <1>3, <1>9, <2>1 DEF AllBegun, B!Does, B!At, B!IsBusy
<1>10. CASE Ticks \/ \E r \in B!Room : Overwritten(r)
  <2>1. UNCHANGED <<c1, c2, c3, c7>>
    BY <1>10 DEF Ticks, Overwritten
  <2> QED
    BY <2>1 DEF B!HashIsFollowed, B!RecordHolds, B!HashHolds, B!FlagHolds, B!Running,
       B!Dropping, B!Timing, B!Does, B!At, B!IsBusy
<1> QED
  BY <1>2, <1>4, <1>5, <1>6, <1>7, <1>8, <1>9, <1>10, BreakoutWorkers

LEMMA HashAfterStarts ==
  ASSUME HashFacts, NEW b \in Breakout,
         Opened(b) \/ Limiting(b) \/ Fetched(b) \/ Stored(b) \/ Announced(b) \/ Skipped(b)
  PROVE  B!HashIsFollowed'
<1> USE DEF HashFacts
<1> DEFINE w == B!Started(b)
<1>1. /\ w \in B!Worker /\ B!WorkerKeeps(w) /\ B!HashHolds(w) /\ b \in B!Room /\ b # "parent"
      /\ "parent" \in B!Room /\ \A c \in Breakout : B!Cleanup(c) # w
      /\ \A v \in B!Worker : c7[v].room \in B!Room
  BY BreakoutWorkers, WorkFields DEF B!WorkersKeepToRooms, B!HashIsFollowed, B!BreakoutTypeOK
<1>2. B!Does(w, "start") => c7[w].room = b
  BY <1>1, BreakoutWorkers DEF B!WorkerKeeps, B!Timing
<1>3. /\ WorkersStay(w) /\ c2' = c2
      /\ c7[w].at = "idle" \/ c7[w].job = "start"
      /\ c7'[w].job = "start" \/ c7'[w].at \in {"idle", "over"}
  BY DEF Opened, Limiting, Fetched, Stored, Announced, Skipped, Rests, Moved, B!At
<1>4. (\A c \in B!Room : c \in B!Running' <=> c \in B!Running) /\ c1'["parent"] = c1["parent"]
  BY <1>1, RunningRooms DEF Opened, Limiting, Fetched, Stored, Announced, Skipped, StatusStays
<1>5. \A c \in Breakout : c3[c].there <=> c3'[c].there
  <2>1. CASE Stored(b)
    <3>1. c7[w].rec.there /\ c3[b].there
      BY <1>1, <1>2, <2>1 DEF Stored, B!WorkerKeeps, B!HashHolds, B!Does, B!At, B!IsBusy
    <3> QED
      BY <2>1, <3>1 DEF Stored, HashStays
  <2>2. CASE ~Stored(b)
    BY <2>2 DEF Opened, Limiting, Fetched, Announced, Skipped
  <2> QED
    BY <2>1, <2>2
<1>6. B!Timing(w)' => c7'[w].room = b /\ b \in B!Running'
  <2>1. CASE Opened(b)
    BY <1>1, <2>1, RunningRooms DEF Opened
  <2>2. CASE ~Opened(b)
    <3>1. B!Timing(w) /\ c7[w].room = b
      BY <1>2, <2>2 DEF Limiting, Fetched, Stored, Announced, Skipped, B!Timing, B!Does, B!At, B!IsBusy
    <3>2. B!Timing(w)' => c7'[w].room = b
      BY <2>2, <3>1
         DEF Limiting, Fetched, Stored, Announced, Skipped, Rests, Moved, B!Timing, B!Does, B!IsBusy
    <3> QED
      BY <1>1, <1>4, <3>1, <3>2 DEF B!HashHolds
  <2> QED
    BY <2>1, <2>2
<1>7. B!At(w, "start", "store")' => c3'[b].there
  BY DEF Opened, Limiting, Fetched, Stored, Announced, Skipped, Rests, Moved, B!At
<1> HIDE DEF w
<1>8. B!HashHolds(w)'
  BY <1>3, <1>6, <1>7 DEF B!HashHolds, B!Timing, B!Dropping, B!Does, B!At, B!IsBusy
<1>9. /\ ~B!At(w, "end", "delete") /\ ~B!At(w, "end", "count") /\ ~B!Dropping(w)
      /\ ~B!Does(w, "create")
  BY <1>3 DEF B!At, B!Dropping, B!Does, B!IsBusy
<1> QED
  BY <1>1, <1>3, <1>4, <1>5, <1>8, <1>9, HashFrame

LEMMA HashAfterCreation ==
  ASSUME HashFacts, NEW w \in Handler,
         Inserted(w) \/ Created(w) \/ \E b \in Breakout : RoomMade(w, b)
  PROVE  B!HashIsFollowed'
<1> USE DEF HashFacts
<1>1. /\ w \in B!Worker /\ B!WorkerKeeps(w) /\ B!HashHolds(w) /\ "parent" \in B!Room
      /\ \A c \in Breakout : B!Cleanup(c) # w
      /\ \A v \in B!Worker : c7[v].room \in B!Room
  BY BreakoutWorkers, WorkFields DEF B!WorkersKeepToRooms, B!HashIsFollowed, B!BreakoutTypeOK
<1>2. B!Does(w, "create") /\ WorkersStay(w)
  BY DEF Inserted, Created, RoomMade, Rests, B!Does, B!At, B!IsBusy
<1>3. \A v \in B!Worker : ~B!Does(v, "end")
  BY <1>1, <1>2 DEF OnlyEnds
<1>4. /\ \A v \in B!Worker : ~B!Dropping(v) /\ ~B!At(v, "end", "delete")
                             /\ ~B!At(v, "end", "count") /\ ~B!At(v, "end", "undo")
      /\ \A v \in B!Worker : v # w => ~B!Dropping(v)'
  BY <1>2, <1>3 DEF WorkersStay, B!Dropping, B!Does, B!At, B!IsBusy
<1>5. /\ \A b \in Breakout : c3[b].there => b \in B!Running
      /\ c1["parent"] # "off" =>
           /\ c2 => \E b \in Breakout : c3[b].there
           /\ (\E b \in Breakout : c3[b].there) =>
                c2 \/ \E v \in B!Worker : B!Does(v, "create") /\ c7[v].made
  BY <1>4, BreakoutWorkers DEF B!HashIsFollowed, B!RecordHolds, B!FlagHolds, B!Parent
<1>6. ASSUME NEW v \in B!Worker, v # w,
             \A b \in Breakout : c3[b].there => c3'[b].there,
             \A b \in B!Room : b \in B!Running => b \in B!Running'
      PROVE  B!HashHolds(v)'
  <2>1. /\ c7'[v] = c7[v] /\ B!HashHolds(v) /\ c7[v].room \in B!Room
        /\ B!Timing(v) => c7[v].room \in Breakout
    BY <1>1, <1>2, <1>6 DEF WorkersStay, B!HashIsFollowed, B!WorkersKeepToRooms, B!WorkerKeeps
  <2>2. B!Does(v, "increase") \/ B!At(v, "start", "store") => c3'[c7[v].room].there
    BY <1>6, <2>1 DEF B!HashHolds, B!Timing, B!Does, B!At, B!IsBusy
  <2>3. ~B!Dropping(v)'
    BY <1>4, <1>6
  <2> QED
    BY <1>6, <2>1, <2>2, <2>3 DEF B!HashHolds, B!Timing, B!Does, B!At, B!IsBusy
<1>7. ASSUME NEW b \in Breakout, RoomMade(w, b) PROVE B!HashIsFollowed'
  <2>1. /\ c3' = c3 /\ c2' = c2 /\ c1'["parent"] = c1["parent"] /\ StatusStays(b)
        /\ c7'[w].at = "insert" /\ c7'[w].job = "create" /\ c7'[w].room = b
        /\ c7'[w].made = c7[w].made /\ b \in B!Room
    BY <1>1, <1>7, BreakoutWorkers DEF RoomMade, StatusStays
  <2>2. b \in B!Running' /\ \A c \in B!Room : c \in B!Running => c \in B!Running'
    <3>1. c1[b] \in {"off", "created", "running", "ending"}
      BY <2>1 DEF B!BreakoutTypeOK
    <3>2. c1'[b] \in {"created", "running"}
      BY <1>7, <3>1 DEF RoomMade
    <3> QED
      BY <2>1, <3>2, RunningRooms DEF StatusStays
  <2>3. B!HashHolds(w)'
    BY <1>1, <1>2, <2>1, <2>2 DEF B!HashHolds, B!Timing, B!Dropping, B!Does, B!At
  <2>4. ASSUME NEW c \in Breakout PROVE B!RecordHolds(c)'
    BY <1>5, <2>1, <2>2, BreakoutWorkers DEF B!RecordHolds
  <2>5. B!FlagHolds'
    <3>1. ASSUME NEW v \in B!Worker, B!Does(v, "create"), c7[v].made
          PROVE  B!Does(v, "create")' /\ c7'[v].made
      BY <1>2, <2>1, <3>1 DEF WorkersStay, B!Does, B!IsBusy
    <3> QED
      BY <1>5, <2>1, <3>1 DEF B!FlagHolds, B!Parent
  <2> QED
    BY <1>6, <2>1, <2>2, <2>3, <2>4, <2>5 DEF B!HashIsFollowed
<1>8. CASE Inserted(w)
  <2> DEFINE b == c7[w].room
  <2>1. /\ b \in Breakout /\ b \in B!Running /\ c3'[b].there /\ HashStays(b)
        /\ c1' = c1 /\ c2' = c2
        /\ c7'[w].at = "next" /\ c7'[w].job = "create" /\ c7'[w].made
    BY <1>1, <1>8 DEF Inserted, B!WorkerKeeps, B!HashHolds
  <2>2. /\ \A c \in Breakout : c3[c].there => c3'[c].there
        /\ \A c \in Breakout : c3'[c].there => c \in B!Running'
        /\ \A c \in B!Room : c \in B!Running => c \in B!Running'
        /\ \E c \in Breakout : c3'[c].there
    BY <1>5, <2>1 DEF HashStays, B!Running
  <2>3. B!HashHolds(w)'
    BY <2>1, <2>2 DEF B!HashHolds, B!Timing, B!Dropping, B!Does, B!At
  <2>4. \A c \in Breakout : B!RecordHolds(c)'
    BY <2>2 DEF B!RecordHolds
  <2>5. B!FlagHolds'
    BY <1>1, <2>1, <2>2 DEF B!FlagHolds, B!Parent, B!Does, B!IsBusy
  <2> QED
    BY <1>6, <2>2, <2>3, <2>4, <2>5 DEF B!HashIsFollowed
<1>9. CASE Created(w)
  <2>1. /\ c1' = c1 /\ c3' = c3 /\ c7'[w].at \in {"idle", "over"}
        /\ c2 => c2'
        /\ c7[w].made /\ c1["parent"] # "off" => c2'
        /\ c2' => c2 \/ c7[w].made
    BY <1>9 DEF Created, Rests
  <2>2. B!HashHolds(w)'
    BY <2>1 DEF B!HashHolds, B!Timing, B!Dropping, B!Does, B!At, B!IsBusy
  <2>3. \A c \in Breakout : B!RecordHolds(c)'
    BY <1>5, <2>1 DEF B!RecordHolds, B!Running
  <2>4. B!FlagHolds'
    <3>1. c7[w].made => \E c \in Breakout : c3[c].there
      BY <1>1, <1>2 DEF B!HashHolds
    <3>2. ASSUME NEW v \in B!Worker, v # w, B!Does(v, "create"), c7[v].made
          PROVE  B!Does(v, "create")' /\ c7'[v].made
      BY <1>2, <3>2 DEF WorkersStay, B!Does, B!IsBusy
    <3> QED
      BY <1>5, <2>1, <3>1, <3>2 DEF B!FlagHolds, B!Parent
  <2> QED
    BY <1>6, <2>1, <2>2, <2>3, <2>4 DEF B!HashIsFollowed, B!Running
<1> QED
  BY <1>7, <1>8, <1>9

(* While rooms are ended nothing else is under way.                        *)
LEMMA HashWhileEnding ==
  ASSUME HashFacts,
         \A v \in B!Worker : ~B!Does(v, "create") /\ ~B!Timing(v),
         \A v \in B!Worker : ~B!Does(v, "create")' /\ ~B!Timing(v)',
         \A b \in Breakout : B!RecordHolds(b)',
         \A v \in B!Worker : B!Dropping(v)' => \A b \in Breakout : ~c3'[b].there,
         c1'["parent"] # "off" =>
           /\ c2' => \/ \E b \in Breakout : c3'[b].there
                     \/ \E v \in B!Worker : B!At(v, "end", "count")' \/ B!Dropping(v)'
           /\ (\E b \in Breakout : c3'[b].there) => c2'
  PROVE  B!HashIsFollowed'
<1>1. ASSUME NEW v \in B!Worker PROVE B!HashHolds(v)'
  BY DEF B!HashHolds, B!Timing, B!Does, B!At, B!IsBusy
<1>2. B!FlagHolds'
  BY DEF B!FlagHolds, B!Parent
<1> QED
  BY <1>1, <1>2 DEF B!HashIsFollowed

LEMMA FlagWhileEnding ==
  ASSUME B!HashIsFollowed, \A v \in B!Worker : ~B!Does(v, "create")
  PROVE  /\ \A v \in B!Worker : B!Dropping(v) => \A b \in Breakout : ~c3[b].there
         /\ c1["parent"] # "off" =>
              /\ c2 => \/ \E b \in Breakout : c3[b].there
                       \/ \E v \in B!Worker : B!At(v, "end", "count") \/ B!Dropping(v)
              /\ (\E b \in Breakout : c3[b].there) => c2
BY DEF B!HashIsFollowed, B!HashHolds, B!FlagHolds, B!Parent

LEMMA HashAfterKill ==
  ASSUME HashFacts, NEW w \in B!Worker, Killed(w)
  PROVE  B!HashIsFollowed'
<1> USE DEF HashFacts
<1>1. PICK b \in Breakout : b = c7[w].room
  BY DEF Killed, B!WorkersKeepToRooms, B!WorkerKeeps
<1>2. /\ B!At(w, "end", "kill") /\ RoomEnds(b) /\ c2' = c2 /\ c3' = c3
      /\ \A v \in B!Worker : v # w /\ v # B!Cleanup(b) => c7'[v] = c7[v]
      /\ c1[b] \in {"created", "running"} => CleanupBegins(b)
      /\ w # B!Cleanup(b) \/ c1[b] \notin {"created", "running"} =>
           /\ c7'[w].at = "delete" /\ c7'[w].job = "end" /\ c7'[w].room = b
      /\ c1[b] \notin {"created", "running"} /\ w # B!Cleanup(b) =>
           c7'[B!Cleanup(b)] = c7[B!Cleanup(b)]
  BY <1>1 DEF Killed
<1>3. /\ b \in B!Room /\ "parent" \in B!Room /\ b # "parent" /\ B!Cleanup(b) \in B!Worker
      /\ B!CleanupKeeps(b) /\ B!Does(w, "end")
  BY <1>2, BreakoutWorkers DEF B!WorkersKeepToRooms, B!Does, B!At, B!IsBusy
<1>4. /\ \A v \in B!Worker : ~B!Does(v, "create") /\ ~B!Timing(v)
      /\ \A v \in B!Worker : ~B!Does(v, "create")' /\ ~B!Timing(v)'
  BY <1>2, <1>3 DEF OnlyEnds, CleanupBegins, B!Timing, B!Does, B!IsBusy
<1>5. c1[b] \in {"created", "running"} =>
         w # B!Cleanup(b) /\ ~B!IsBusy(B!Cleanup(b)) /\ c1'[b] = "ending"
  BY <1>2, <1>3 DEF RoomEnds, B!CleanupKeeps, B!IsBusy, B!At
<1>6. ASSUME NEW v \in B!Worker, B!At(v, "end", "delete") \/ B!At(v, "end", "count") \/ B!Dropping(v)
      PROVE  c7'[v] = c7[v]
  BY <1>2, <1>3, <1>5, <1>6 DEF B!Dropping, B!At, B!IsBusy
<1>7. ASSUME NEW v \in B!Worker, B!Dropping(v)' PROVE B!Dropping(v)
  <2>1. c7'[v] = c7[v]
    BY <1>2, <1>5, <1>7 DEF CleanupBegins, B!Dropping, B!At
  <2> QED
    BY <1>7, <2>1 DEF B!Dropping, B!At
<1>8. ASSUME NEW c \in Breakout, c3[c].there PROVE B!RecordHolds(c)'
  <2>1. B!RecordHolds(c) /\ c \in B!Room /\ B!Cleanup(c) \in B!Worker
    BY BreakoutWorkers DEF B!HashIsFollowed
  <2>2. CASE \E v \in B!Worker : B!At(v, "end", "delete") /\ c7[v].room = c
    <3>1. PICK v \in B!Worker : B!At(v, "end", "delete") /\ c7[v].room = c
      BY <2>2
    <3>2. B!At(v, "end", "delete")' /\ c7'[v].room = c
      BY <1>6, <3>1 DEF B!At
    <3> QED
      BY <3>2 DEF B!RecordHolds
  <2>3. CASE c = b
    <3>1. CASE c1[b] \in {"created", "running"}
      BY <1>2, <2>3, <3>1 DEF CleanupBegins, B!RecordHolds, B!At
    <3>2. CASE c1[b] \notin {"created", "running"}
      <4>1. B!At(w, "end", "delete")' /\ c7'[w].room = b
        BY <1>2, <3>2 DEF B!At
      <4> QED
        BY <2>3, <4>1 DEF B!RecordHolds
    <3> QED
      BY <3>1, <3>2
  <2>4. CASE c # b /\ c \in B!Running
    BY <1>2, <2>1, <2>4, RunningRooms DEF RoomEnds, StatusStays, B!RecordHolds
  <2>5. CASE c # b /\ B!At(B!Cleanup(c), "end", "undo")
    <3>1. B!Cleanup(c) # w /\ B!Cleanup(c) # B!Cleanup(b)
      BY <1>2, <1>3, <2>1, <2>5, BreakoutWorkers DEF B!At
    <3> QED
      BY <1>2, <2>1, <2>5, <3>1 DEF B!RecordHolds, B!At
  <2> QED
    BY <1>8, <2>1, <2>2, <2>3, <2>4, <2>5 DEF B!RecordHolds
<1>9. \A c \in Breakout : B!RecordHolds(c)'
  BY <1>2, <1>8 DEF B!RecordHolds
<1>10. \A v \in B!Worker : B!Dropping(v)' => \A c \in Breakout : ~c3'[c].there
  BY <1>2, <1>4, <1>7, FlagWhileEnding
<1>11. c1'["parent"] # "off" =>
         /\ c2' => \/ \E c \in Breakout : c3'[c].there
                   \/ \E v \in B!Worker : B!At(v, "end", "count")' \/ B!Dropping(v)'
         /\ (\E c \in Breakout : c3'[c].there) => c2'
  <2>1. c1'["parent"] = c1["parent"]
    BY <1>2, <1>3 DEF RoomEnds, StatusStays
  <2>2. ASSUME NEW v \in B!Worker, B!At(v, "end", "count") \/ B!Dropping(v)
        PROVE  B!At(v, "end", "count")' \/ B!Dropping(v)'
    BY <1>6, <2>2 DEF B!At, B!Dropping
  <2> QED
    BY <1>2, <1>4, <2>1, <2>2, FlagWhileEnding
<1> QED
  BY <1>4, <1>9, <1>10, <1>11, HashWhileEnding

LEMMA HashAfterEnds ==
  ASSUME HashFacts, NEW w \in B!Worker,
         Deleted(w) \/ Counted(w) \/ Purged(w) \/ Seen(w) \/ Dropped(w)
  PROVE  B!HashIsFollowed'
<1> USE DEF HashFacts
<1>1. /\ c7[w].job = "end" /\ c7[w].at \in {"delete", "count", "purge", "drop", "deactivate"}
      /\ WorkersStay(w) /\ c1' = c1 /\ B!Does(w, "end")
      /\ c7'[w].job = "end" \/ c7'[w].at = "over"
  BY DEF Deleted, Counted, Purged, Seen, Dropped, Moved, MovesOn, B!Does, B!At, B!IsBusy
<1>2. /\ \A v \in B!Worker : ~B!Does(v, "create") /\ ~B!Timing(v)
      /\ \A v \in B!Worker : ~B!Does(v, "create")' /\ ~B!Timing(v)'
  BY <1>1 DEF OnlyEnds, WorkersStay, B!Timing, B!Does, B!IsBusy
<1>3. /\ \A v \in B!Worker : B!Dropping(v) => \A b \in Breakout : ~c3[b].there
      /\ c1["parent"] # "off" =>
           /\ c2 => \/ \E b \in Breakout : c3[b].there
                    \/ \E v \in B!Worker : B!At(v, "end", "count") \/ B!Dropping(v)
           /\ (\E b \in Breakout : c3[b].there) => c2
  BY <1>2, FlagWhileEnding
<1>4. \A b \in Breakout : c3'[b].there => c3[b].there
  BY DEF Deleted, Counted, Purged, Seen, Dropped, HashStays
<1>5. ASSUME NEW b \in Breakout, c3'[b].there PROVE B!RecordHolds(b)'
  <2>1. B!RecordHolds(b) /\ c3[b].there /\ B!Cleanup(b) \in B!Worker
    BY <1>4, <1>5, BreakoutWorkers DEF B!HashIsFollowed
  <2>2. CASE b \in B!Running
    BY <1>1, <2>2 DEF B!RecordHolds, B!Running
  <2>3. CASE B!At(B!Cleanup(b), "end", "undo")
    BY <1>1, <2>1, <2>3 DEF B!RecordHolds, WorkersStay, B!At
  <2>4. ASSUME NEW v \in B!Worker, B!At(v, "end", "delete"), c7[v].room = b
        PROVE  B!RecordHolds(b)'
    <3>1. v # w
      BY <1>1, <1>5, <2>4 DEF Deleted, Counted, Purged, Seen, Dropped, B!At
    <3>2. B!At(v, "end", "delete")' /\ c7'[v].room = b
      BY <1>1, <2>4, <3>1 DEF WorkersStay, B!At
    <3> QED
      BY <3>2 DEF B!RecordHolds
  <2> QED
    BY <2>1, <2>2, <2>3, <2>4 DEF B!RecordHolds
<1>6. ASSUME NEW v \in B!Worker, B!Dropping(v)', NEW b \in Breakout PROVE ~c3'[b].there
  <2>1. CASE v # w
    BY <1>1, <1>3, <1>4, <1>6, <2>1 DEF WorkersStay, B!Dropping, B!At
  <2>2. CASE v = w /\ B!Dropping(w)
    BY <1>3, <1>4, <2>2
  <2>3. CASE v = w /\ ~B!Dropping(w)
    <3>1. Counted(w) /\ c7'[w].at = "purge"
      BY <1>1, <1>6, <2>3
         DEF Deleted, Counted, Purged, Seen, Dropped, Moved, MovesOn, B!Dropping, B!At
    <3> QED
      BY <1>4, <3>1 DEF Counted, MovesOn, Moved
  <2> QED
    BY <2>1, <2>2, <2>3
<1>7. ASSUME NEW v \in B!Worker, v # w, B!At(v, "end", "count") \/ B!Dropping(v)
      PROVE  B!At(v, "end", "count")' \/ B!Dropping(v)'
  BY <1>1, <1>7 DEF WorkersStay, B!At, B!Dropping
<1>8. c1'["parent"] # "off" =>
        /\ c2' => \/ \E b \in Breakout : c3'[b].there
                  \/ \E v \in B!Worker : B!At(v, "end", "count")' \/ B!Dropping(v)'
        /\ (\E b \in Breakout : c3'[b].there) => c2'
  <2>1. CASE Deleted(w)
    <3>1. c2' = c2 /\ B!At(w, "end", "count")'
      BY <2>1 DEF Deleted, Moved, B!At
    <3> QED
      BY <1>1, <1>3, <1>4, <3>1
  <2>2. CASE Counted(w)
    <3>1. /\ c2' = c2 /\ c3' = c3
          /\ (\E b \in Breakout : c3[b].there) \/ B!Dropping(w)'
      BY <2>2 DEF Counted, Moved, B!Dropping, B!At
    <3> QED
      BY <1>1, <1>3, <3>1
  <2>3. CASE Purged(w)
    <3>1. (\A b \in Breakout : ~c3'[b].there) /\ B!Dropping(w)'
      BY <2>3 DEF Purged, Moved, B!Dropping, B!At
    <3> QED
      BY <3>1
  <2>4. CASE Seen(w)
    <3>1. c2' = c2 /\ c3' = c3 /\ B!Dropping(w)
      BY <2>4 DEF Seen, B!Dropping
    <3>2. c1["parent"] # "off" /\ c2 => B!Dropping(w)'
      BY <2>4 DEF Seen, Moved, B!Dropping, B!At
    <3> QED
      BY <1>1, <1>3, <3>1, <3>2
  <2>5. CASE Dropped(w)
    <3>1. c3' = c3 /\ B!Dropping(w) /\ (c1["parent"] # "off" => ~c2')
      BY <2>5 DEF Dropped, B!Dropping
    <3> QED
      BY <1>1, <1>3, <3>1
  <2> QED
    BY <2>1, <2>2, <2>3, <2>4, <2>5
<1>9. \A b \in Breakout : B!RecordHolds(b)'
  BY <1>5 DEF B!RecordHolds
<1> QED
  BY <1>2, <1>6, <1>8, <1>9, HashWhileEnding

LEMMA HashAfterCleanup ==
  ASSUME HashFacts, NEW r \in B!Room, Ending(r) \/ Unlimited(r) \/ Cleaned(r) \/ KeyKept(r)
  PROVE  B!HashIsFollowed'
<1> USE DEF HashFacts
<1> DEFINE w == B!Cleanup(r)
<1>1. /\ w \in B!Worker /\ B!CleanupKeeps(r) /\ "parent" \in B!Room
      /\ \A q \in B!Room : B!Cleanup(q) = w => q = r
  BY BreakoutWorkers DEF B!WorkersKeepToRooms
<1>2. /\ WorkersStay(w) /\ StatusStays(r) /\ c2' = c2 /\ c3' = c3
      /\ c7[w].at \in {"idle", "over", "undo", "done"}
      /\ c7'[w].at \in {"idle", "over", "undo", "all", "delete"}
  BY <1>1 DEF Ending, Unlimited, Cleaned, KeyKept, RoomEnds, CleanupBegins, Moved, Rests, StatusStays,
     B!CleanupKeeps, B!At, B!IsBusy
<1>3. /\ c7[w].at \in {"idle", "over"} \/ c7[w].job = "end"
      /\ c7'[w].at \in {"idle", "over"} \/ c7'[w].job = "end"
      /\ B!Does(w, "end") \/ B!Does(w, "end")'
  BY <1>1 DEF Ending, Unlimited, Cleaned, KeyKept, CleanupBegins, Moved, Rests, B!CleanupKeeps, B!At,
     B!Does, B!IsBusy
<1>4. /\ \A v \in B!Worker : ~B!Does(v, "create") /\ ~B!Timing(v)
      /\ \A v \in B!Worker : ~B!Does(v, "create")' /\ ~B!Timing(v)'
  <2>1. CASE B!Does(w, "end")
    BY <1>1, <1>2, <1>3, <2>1 DEF OnlyEnds, WorkersStay, B!Timing, B!Does, B!IsBusy
  <2>2. CASE B!Does(w, "end")'
    BY <1>1, <1>2, <1>3, <2>2 DEF OnlyEnds, WorkersStay, B!Timing, B!Does, B!IsBusy
  <2> QED
    BY <1>3, <2>1, <2>2
<1>5. \A v \in B!Worker : /\ B!At(v, "end", "count") => B!At(v, "end", "count")'
                          /\ B!Dropping(v)' <=> B!Dropping(v)
  BY <1>2 DEF WorkersStay, B!Dropping, B!At
<1>6. c1'["parent"] # "off" => c1["parent"] # "off"
  BY <1>1 DEF Ending, Unlimited, Cleaned, KeyKept, RoomEnds, StatusStays
<1>7. ASSUME NEW b \in Breakout, c3[b].there PROVE B!RecordHolds(b)'
  <2>1. B!RecordHolds(b) /\ b \in B!Room /\ B!Cleanup(b) \in B!Worker
    BY BreakoutWorkers DEF B!HashIsFollowed
  <2>2. CASE \E v \in B!Worker : B!At(v, "end", "delete") /\ c7[v].room = b
    <3>1. PICK v \in B!Worker : B!At(v, "end", "delete") /\ c7[v].room = b
      BY <2>2
    <3>2. B!At(v, "end", "delete")' /\ c7'[v].room = b
      BY <1>2, <3>1 DEF WorkersStay, B!At
    <3> QED
      BY <3>2 DEF B!RecordHolds
  <2>3. CASE b # r /\ (b \in B!Running \/ B!At(B!Cleanup(b), "end", "undo"))
    <3>1. c1'[b] = c1[b] /\ c7'[B!Cleanup(b)] = c7[B!Cleanup(b)]
      BY <1>1, <1>2, <2>1, <2>3 DEF StatusStays, WorkersStay
    <3> QED
      BY <2>1, <2>3, <3>1, RunningRooms DEF B!RecordHolds, B!At
  <2>4. CASE b = r /\ Ending(r)
    BY <2>4 DEF Ending, CleanupBegins, B!RecordHolds, B!At
  <2>5. CASE b = r /\ (Unlimited(r) \/ KeyKept(r))
    <3>1. b # "parent" /\ c7[w].room = r
      BY <1>1, <2>5, BreakoutWorkers DEF Unlimited, KeyKept, B!CleanupKeeps
    <3>2. B!At(w, "end", "delete")' /\ c7'[w].room = b
      BY <2>5, <3>1 DEF Unlimited, KeyKept, Moved, B!At
    <3> QED
      BY <1>1, <3>2 DEF B!RecordHolds
  <2>6. CASE b = r /\ Cleaned(r) /\ (b \in B!Running \/ B!At(B!Cleanup(b), "end", "undo"))
    BY <1>1, <2>1, <2>6, RunningRooms DEF Cleaned, B!CleanupKeeps, B!At, B!IsBusy
  <2> QED
    BY <1>7, <2>1, <2>2, <2>3, <2>4, <2>5, <2>6 DEF B!RecordHolds
<1>8. \A b \in Breakout : B!RecordHolds(b)'
  BY <1>2, <1>7 DEF B!RecordHolds
<1>9. /\ \A v \in B!Worker : B!Dropping(v)' => \A b \in Breakout : ~c3'[b].there
      /\ c1'["parent"] # "off" =>
           /\ c2' => \/ \E b \in Breakout : c3'[b].there
                     \/ \E v \in B!Worker : B!At(v, "end", "count")' \/ B!Dropping(v)'
           /\ (\E b \in Breakout : c3'[b].there) => c2'
  BY <1>2, <1>4, <1>5, <1>6, FlagWhileEnding
<1> QED
  BY <1>4, <1>8, <1>9, HashWhileEnding

LEMMA HashIsStillFollowed ==
  ASSUME HashFacts, BreakoutDoes
  PROVE  B!HashIsFollowed'
<1>1. /\ \A w \in B!Worker : ~NotKilled(w) /\ ~Missed(w)
      /\ \A r \in B!Room : ~NotFollowed(r)
  BY DEF NotKilled, Missed, NotFollowed, HashFacts
<1> QED
  BY <1>1, HashAfterRequests, HashAfterStarts, HashAfterCreation, HashAfterKill, HashAfterEnds,
     HashAfterCleanup DEF BreakoutDoes

-----------------------------------------------------------------------------
LEMMA BreakoutsStart == B!BreakoutInit => B!BreakoutInvariant
<1> SUFFICES ASSUME B!BreakoutInit PROVE B!BreakoutInvariant
  OBVIOUS
<1>1. PICK d \in ParentDurations :
        /\ c4 = [r \in B!Room |-> IF r = "parent" /\ d > 0 THEN B!Key(0, d) ELSE B!NoKey]
        /\ c5 = [r \in B!Room |-> IF r = "parent" THEN d ELSE 0]
  BY DEF B!BreakoutInit, B!Parent
<1>2. /\ c1 = [r \in B!Room |-> IF r = "parent" THEN "running" ELSE "off"] /\ c2 = FALSE
      /\ c3 = [b \in Breakout |-> B!NoRecord] /\ c6 = 0 /\ c7 = [w \in B!Worker |-> B!Idle]
      /\ c8 = {}
  BY DEF B!BreakoutInit, B!Parent
<1>3. d \in Nat /\ 0 \in 0 .. MaxTime
  BY BreakoutsAssumption DEF BreakoutsAssumption
<1>4. /\ B!NoKey \in [there : BOOLEAN, startedAt : 0 .. MaxTime, duration : Nat] /\ ~B!NoKey.there
      /\ B!Key(0, d) \in [there : BOOLEAN, startedAt : 0 .. MaxTime, duration : Nat]
  BY <1>3 DEF B!NoKey, B!Key
<1>5. B!BreakoutTypeOK
  <2>1. c4 \in [B!Room -> [there : BOOLEAN, startedAt : 0 .. MaxTime, duration : Nat]]
    BY <1>1, <1>4
  <2> QED
    BY <1>1, <1>2, <1>3, <2>1, IdleIsWork DEF B!BreakoutTypeOK
<1>6. /\ \A w \in B!Worker : c7[w].at = "idle"
      /\ \A b \in Breakout : c1[b] = "off" /\ ~c3[b].there /\ ~c4[b].there /\ b \in B!Room
      /\ \A r \in B!Room : c1[r] # "ending" /\ B!Cleanup(r) \in B!Worker
      /\ c1["parent"] = "running" /\ ~c2
  BY <1>1, <1>2, <1>4, IdleIsWork, BreakoutWorkers
<1>7. B!OverlapsAreMixed /\ B!WorkersKeepToRooms
  BY <1>6 DEF B!OverlapsAreMixed, B!WorkersKeepToRooms, B!WorkerKeeps, B!CleanupKeeps, B!Timing,
     B!Does, B!At, B!IsBusy, B!Parent
<1>8. B!DurationsAreFollowed
  BY <1>6 DEF B!DurationsAreFollowed, B!CheckerFollows, B!DurationHolds, B!Does, B!At, B!IsBusy
<1>9. B!EndsTakeAll
  BY <1>6, RunningRooms, BreakoutWorkers
     DEF B!EndsTakeAll, B!Listed, B!ParentTakes, B!EndHolds, B!At, B!Does, B!IsBusy, B!Parent
<1>10. B!HashIsFollowed
  BY <1>6 DEF B!HashIsFollowed, B!RecordHolds, B!HashHolds, B!FlagHolds, B!Dropping, B!Timing,
     B!Does, B!At, B!IsBusy, B!Parent
<1> QED
  BY <1>5, <1>7, <1>8, <1>9, <1>10 DEF B!BreakoutInvariant

(* No room is given as much as a minute past the end of its parent.        *)
LEMMA IncreasesFit ==
  ASSUME B!BreakoutTypeOK, B!WorkersKeepToRooms, BreakoutDoes,
         c8 \cap B!Untimely = {} => B!DurationsAreFollowed
  PROVE  B!IncreaseFits
<1> SUFFICES ASSUME NEW b \in Breakout, c4[b].there, c4'[b].duration > c4[b].duration,
                    B!DurationsAreFollowed, B!Limited(c4["parent"]), c6 <= B!End(c4["parent"])
             PROVE  B!End(c4'[b]) < B!End(c4["parent"]) + PerMinute
  BY DEF B!IncreaseFits, B!Parent
<1>1. /\ b \in B!Room /\ c4[b].duration \in Nat /\ c4[b].startedAt \in Nat /\ Increase \in Nat
      /\ c4' # c4
  BY BreakoutWorkers, KeyFields, BreakoutsAssumption DEF BreakoutsAssumption
<1>2. ASSUME NEW w \in Handler, Grown(w)
      PROVE  B!End(c4'[b]) < B!End(c4["parent"]) + PerMinute
  <2>1. w \in B!Worker /\ B!DurationHolds(w) /\ B!WorkerKeeps(w) /\ B!Timing(w)
    BY <1>2, BreakoutWorkers
       DEF B!DurationsAreFollowed, B!WorkersKeepToRooms, Grown, B!Timing, B!Does, B!At, B!IsBusy
  <2>2. b = c7[w].room
    BY <1>1, <1>2 DEF Grown, CheckerStays
  <2>3. B!End(c4[b]) + Minutes(Increase) < B!End(c4["parent"]) + PerMinute
    BY <1>2, <2>1, <2>2 DEF Grown, B!DurationHolds, B!Parent, Minutes
  <2>4. /\ c4'[b].startedAt = c4[b].startedAt
        /\ c4'[b].duration = c4[b].duration + Increase
    BY <1>1, <1>2, <2>2 DEF Grown
  <2>5. B!End(c4'[b]) = B!End(c4[b]) + Minutes(Increase)
    <3>1. Minutes(c4'[b].duration) = Minutes(c4[b].duration) + Minutes(Increase)
      <4>1. Minutes(c4[b].duration + Increase) = Minutes(c4[b].duration) + Minutes(Increase)
        BY <1>1, MinutesAdd
      <4> QED
        BY <4>1, <2>4
    <3>2. Minutes(c4[b].duration) \in Nat /\ Minutes(Increase) \in Nat
      BY <1>1, MinutesAdd
    <3>3. /\ B!End(c4'[b]) = c4'[b].startedAt + Minutes(c4'[b].duration)
          /\ B!End(c4[b]) = c4[b].startedAt + Minutes(c4[b].duration)
      BY DEF B!End, Minutes
    <3> QED
      BY <1>1, <2>4, <3>1, <3>2, <3>3
  <2> QED
    BY <2>3, <2>5
<1>3. ASSUME NEW w \in Handler, TakenBack(w) PROVE FALSE
  <2>1. w \in B!Worker /\ B!DurationHolds(w) /\ B!At(w, "increase", "meta")
    BY <1>3, BreakoutWorkers DEF B!DurationsAreFollowed, TakenBack
  <2>2. b = c7[w].room
    BY <1>1, <1>3 DEF TakenBack, CheckerStays
  <2>3. c4[b].duration = c7[w].had /\ c4'[b].duration = c7[w].had - Increase
    BY <1>3, <2>1, <2>2 DEF TakenBack, B!DurationHolds
  <2> QED
    BY <1>1, <2>3
<1>4. ASSUME NEW c \in Breakout, Limiting(c) PROVE FALSE
  <2>1. /\ B!Started(c) \in B!Worker /\ B!DurationHolds(B!Started(c))
        /\ B!WorkerKeeps(B!Started(c)) /\ B!At(B!Started(c), "start", "check")
    BY <1>4, BreakoutWorkers DEF B!DurationsAreFollowed, B!WorkersKeepToRooms, Limiting
  <2>2. c7[B!Started(c)].room = c
    BY <2>1, BreakoutWorkers DEF B!WorkerKeeps, B!Timing, B!Does, B!At, B!IsBusy
  <2>3. b = c
    BY <1>1, <1>4 DEF Limiting, CheckerStays
  <2> QED
    BY <2>1, <2>2, <2>3 DEF B!DurationHolds
<1>5. ASSUME NEW r \in B!Room, Unlimited(r) PROVE FALSE
  BY <1>1, <1>5 DEF Unlimited, CheckerStays
<1>6. \/ \E w \in Handler : Grown(w) \/ TakenBack(w)
      \/ \E c \in Breakout : Limiting(c)
      \/ \E r \in B!Room : Unlimited(r)
  BY <1>1 DEF BreakoutDoes, CreateBegun, RoomMade, NotMade, Inserted, Created, IncreaseBegun, EndBegun,
     Informed, Compared, Granted, Kept, AllBegun, Opened, Fetched, Stored, Announced, Killed,
     NotKilled, Deleted, Counted, Purged, Seen, Dropped, Ending, Cleaned, Ticks,
     GivesUp, Skipped, Missed, KeyKept, NotFollowed, Overwritten
<1> QED
  BY <1>2, <1>3, <1>4, <1>5, <1>6

LEMMA BreakoutsNextKeeps ==
  B!BreakoutInvariant /\ [B!BreakoutNext]_(B!breakoutVars) =>
     B!BreakoutInvariant' /\ (B!BreakoutNext => B!IncreaseFits)
<1> SUFFICES ASSUME B!BreakoutInvariant, [B!BreakoutNext]_(B!breakoutVars)
             PROVE  B!BreakoutInvariant' /\ (B!BreakoutNext => B!IncreaseFits)
  OBVIOUS
<1>1. CASE B!BreakoutNext
  <2>1. B!BreakoutTypeOK' /\ Noted /\ BreakoutDoes
    BY <1>1, BreakoutStep DEF B!BreakoutInvariant
  <2>2. B!BreakoutTypeOK /\ B!OverlapsAreMixed /\ B!WorkersKeepToRooms
        /\ B!OverlapsAreMixed' /\ c8 \subseteq c8'
    BY <2>1 DEF B!BreakoutInvariant, Noted
  <2>3. B!WorkersKeepToRooms'
    BY <2>1, <2>2, WorkersStillKeep
  <2>4. c8' \cap B!Untimely = {} => B!DurationsAreFollowed'
    BY <2>1, <2>2, ChangesAreAlone, DurationsStillFollow
       DEF DurationFacts, B!BreakoutInvariant, B!Untimely
  <2>5. c8' \cap {"create", "fault"} = {} => B!EndsTakeAll'
    BY <2>1, <2>2, CreatesAreAlone, EndsStillTakeAll DEF EndFacts, B!BreakoutInvariant
  <2>6. c8' \subseteq {"twice", "clock"} => B!HashIsFollowed'
    BY <2>1, <2>2, EndsAreAlone, HashIsStillFollowed DEF HashFacts, B!BreakoutInvariant
  <2>7. B!IncreaseFits
    BY <2>1, <2>2, IncreasesFit DEF B!BreakoutInvariant
  <2> QED
    BY <2>1, <2>2, <2>3, <2>4, <2>5, <2>6, <2>7 DEF B!BreakoutInvariant
<1>2. CASE UNCHANGED B!breakoutVars
  <2>1. UNCHANGED <<c1, c2, c3, c4, c5, c6, c7, c8>>
    BY <1>2 DEF B!breakoutVars
  <2>2. B!BreakoutTypeOK' /\ B!OverlapsAreMixed' /\ B!WorkersKeepToRooms'
    BY <2>1 DEF B!BreakoutInvariant, B!BreakoutTypeOK, B!OverlapsAreMixed, B!WorkersKeepToRooms,
       B!WorkerKeeps, B!CleanupKeeps, B!Timing, B!Does, B!At, B!IsBusy
  <2>3. B!DurationsAreFollowed => B!DurationsAreFollowed'
    BY <2>1 DEF B!DurationsAreFollowed, B!CheckerFollows, B!DurationHolds, B!Does, B!At, B!IsBusy
  <2>4. B!EndsTakeAll => B!EndsTakeAll'
    BY <2>1 DEF B!EndsTakeAll, B!Listed, B!ParentTakes, B!EndHolds, B!Running, B!Does, B!At, B!IsBusy
  <2>5. B!HashIsFollowed => B!HashIsFollowed'
    BY <2>1 DEF B!HashIsFollowed, B!RecordHolds, B!HashHolds, B!FlagHolds, B!Running, B!Dropping,
       B!Timing, B!Does, B!At, B!IsBusy
  <2>6. B!BreakoutNext => B!IncreaseFits
    BY <1>1, <2>1, KeyFields, BreakoutWorkers DEF B!IncreaseFits, B!BreakoutInvariant
  <2> QED
    BY <2>1, <2>2, <2>3, <2>4, <2>5, <2>6 DEF B!BreakoutInvariant
<1> QED
  BY <1>1, <1>2

LEMMA BreakoutsHold ==
  B!BreakoutInvariant => B!BreakoutsAreTracked /\ B!ParentTakesBreakouts /\ B!DurationsAgree
<1> SUFFICES ASSUME B!BreakoutInvariant, B!Quiet
             PROVE  B!BreakoutsAreTracked /\ B!ParentTakesBreakouts /\ B!DurationsAgree
  BY DEF B!BreakoutsAreTracked, B!ParentTakesBreakouts, B!DurationsAgree
<1> USE DEF B!BreakoutInvariant
<1>1. \A w \in B!Worker : c7[w].at \in {"idle", "over"}
  BY DEF B!Quiet, B!Busy
<1>2. \A b \in Breakout : b \in B!Room /\ B!Cleanup(b) \in B!Worker
  BY BreakoutWorkers
<1>3. B!BreakoutsAreTracked
  <2> SUFFICES ASSUME c8 \subseteq {"twice", "clock"}
               PROVE  /\ \A b \in Breakout : c3[b].there <=> b \in B!Running
                      /\ c1["parent"] # "off" => (c2 <=> \E b \in Breakout : c3[b].there)
    BY DEF B!BreakoutsAreTracked, B!Parent
  <2>1. B!EndsTakeAll /\ B!HashIsFollowed
    OBVIOUS
  <2>2. \A b \in Breakout : c3[b].there <=> b \in B!Running
    BY <1>1, <1>2, <2>1 DEF B!EndsTakeAll, B!Listed, B!HashIsFollowed, B!RecordHolds, B!At
  <2>3. c1["parent"] # "off" => (c2 <=> \E b \in Breakout : c3[b].there)
    <3>1. /\ \A w \in B!Worker : ~B!At(w, "end", "count") /\ ~B!Dropping(w)
          /\ \A w \in B!Worker : ~B!Does(w, "create")
          /\ c2 \in BOOLEAN
      BY <1>1 DEF B!Dropping, B!Does, B!At, B!IsBusy, B!BreakoutTypeOK
    <3> QED
      BY <2>1, <3>1 DEF B!HashIsFollowed, B!FlagHolds, B!Parent
  <2> QED
    BY <2>2, <2>3
<1>4. B!ParentTakesBreakouts
  BY BreakoutWorkers, RunningRooms DEF B!ParentTakesBreakouts, B!EndsTakeAll, B!Parent
<1>5. B!DurationsAgree
  BY <1>1, <1>2, RunningRooms DEF B!DurationsAgree, B!DurationsAreFollowed, B!CheckerFollows, B!At
<1> QED
  BY <1>3, <1>4, <1>5

(* Once nobody is at them, the hash and the parent's flag tell of the      *)
(* breakout rooms that run, none outlives its parent, and the duration     *)
(* checker agrees with the rooms' metadata, however many rooms there are   *)
(* and however many requests, webhooks and cleanups meet.  Each of the     *)
(* three has its own excuses: changes that overlap and take each other's   *)
(* writes back, a read or a write on which it rests that fails, a setting  *)
(* that another request puts back from older metadata (bkroom_create.go,   *)
(* bkroom_end.go, room_duration.go).                                       *)
THEOREM BreakoutsAlwaysFollow == Spec => []BreakoutsFollowParent
<1> DEFINE Inv == active = "breakouts" => B!BreakoutInvariant
<1>1. Init => Inv
  BY BreakoutsStart DEF Init
<1>2. Inv /\ [Next]_<<active, cells>> => Inv'
  <2> SUFFICES ASSUME Inv, [Next]_<<active, cells>>, active' = "breakouts"
               PROVE  B!BreakoutInvariant'
    OBVIOUS
  <2>1. active = "breakouts" /\ [B!BreakoutNext]_(B!breakoutVars)
    BY DEF Next, cells, B!breakoutVars
  <2> QED
    BY <2>1, BreakoutsNextKeeps
<1>3. Inv => BreakoutsFollowParent
  BY BreakoutsHold DEF BreakoutsFollowParent
<1> QED
  BY <1>1, <1>2, <1>3, PTL DEF Spec

(* No step brings a deleted recording back, and none gives a breakout room *)
(* a minute or more past the end of its parent, whatever a minute is: the  *)
(* whole minutes that are compared before still fit when the duration is   *)
(* increased, and less than one was cut off.  A change of the duration     *)
(* that overlaps, or a parent past its end, may (recording_modify.go,      *)
(* room_duration.go).                                                      *)
THEOREM StepsAlwaysStayInBounds == Spec => StepsStayInBounds
<1> DEFINE Inv == active = "breakouts" => B!BreakoutInvariant
<1>1. Init => Inv
  BY BreakoutsStart DEF Init
<1>2. Inv /\ [Next]_<<active, cells>> => Inv' /\ [active = "breakouts" => B!IncreaseFits]_cells
  <2> SUFFICES ASSUME Inv, [Next]_<<active, cells>>
               PROVE  /\ active' = "breakouts" => B!BreakoutInvariant'
                      /\ active = "breakouts" /\ cells' # cells => B!IncreaseFits
    OBVIOUS
  <2>1. /\ active' = "breakouts" <=> active = "breakouts"
        /\ active = "breakouts" => [B!BreakoutNext]_(B!breakoutVars)
        /\ active = "breakouts" /\ cells' # cells => B!BreakoutNext
    BY DEF Next, cells, B!breakoutVars
  <2> QED
    BY <2>1, BreakoutsNextKeeps
<1>3. Spec => [][active = "recordings" => D!StaysDeleted]_cells
  BY RecordingsStayDeleted
<1>4. /\ [active = "recordings" => D!StaysDeleted]_cells
      /\ [active = "breakouts" => B!IncreaseFits]_cells
      => [/\ active = "recordings" => D!StaysDeleted
          /\ active = "breakouts" => B!IncreaseFits]_cells
  OBVIOUS
<1> QED
  BY <1>1, <1>2, <1>3, <1>4, PTL DEF Spec, StepsStayInBounds

(* Every variable of what a room's users ask of it keeps its shape.        *)
THEOREM ServicesTypesCorrect == Spec => []TypesOK
<1> DEFINE Inv == /\ active = "breakouts" => B!BreakoutInvariant
                  /\ active = "requests" => R!RequestsInvariant
                  /\ active = "tasks" => T!TasksInvariant
                  /\ active = "recordings" => D!RecordingsInvariant
                  /\ active \in {"breakouts", "requests", "tasks", "recordings"}
<1>1. Init => Inv
  BY BreakoutsStart, RequestsStart, TasksStart, RecordingsStart DEF Init
<1>2. Inv /\ [Next]_<<active, cells>> => Inv'
  <2> SUFFICES ASSUME Inv, [Next]_<<active, cells>> PROVE Inv'
    OBVIOUS
  <2>1. /\ active' = active
        /\ active = "breakouts" => [B!BreakoutNext]_(B!breakoutVars)
        /\ active = "requests" => [R!RequestsNext]_(R!requestVars)
        /\ active = "tasks" => [T!TasksNext]_(T!taskVars)
        /\ active = "recordings" => [D!RecordingsNext]_(D!recordingsVars)
    BY DEF Next, cells, B!breakoutVars, R!requestVars, T!taskVars, D!recordingsVars
  <2> QED
    BY <2>1, BreakoutsNextKeeps, RequestsNextKeeps, TasksNextKeeps, RecordingsNextKeeps
<1>3. Inv => TypesOK
  BY DEF TypesOK, B!BreakoutInvariant, R!RequestsInvariant, T!TasksInvariant,
     D!RecordingsInvariant
<1> QED
  BY <1>1, <1>2, <1>3, PTL DEF Spec
=============================================================================
