------------------------- MODULE RoomServicesProofs -------------------------
(***************************************************************************)
(* Theorems about what a room's users ask of it while it runs, for every   *)
(* number of requests that are handled at the same time.                   *)
(***************************************************************************)
EXTENDS MCRoomServices, TLAPS

-----------------------------------------------------------------------------
(* Recorder tasks.  Its variables are the cells: c1 is the row, c2 the     *)
(* bucket, c3 the lock, c4 the workers, c5 the jobs, c6 what is tangled,   *)
(* c7 the locks that expired, c8 the metadata there were before.           *)

LEMMA TasksStart == T!TasksInit => T!TasksInvariant
BY DEF T!TasksInit, T!TasksInvariant, T!TasksTypeOK, T!RequestsKeepOrder, T!StartsHoldLock,
       T!MetaIsOwned, T!AirIsFollowed, T!Free, T!NoMeta, T!WorkerState, T!JobState, T!Meta,
       T!Task, T!Reading, T!Putting, T!Had, T!Posts, T!Started, T!On

(* What a worker goes on to, and the other workers.                        *)
LEMMA TasksPut ==
  ASSUME T!TasksTypeOK, NEW w \in Handler, NEW step \in T!WorkerState, T!Put(w, step)
  PROVE  /\ c4' \in [Handler -> T!WorkerState]
         /\ c4'[w] = step
         /\ \A v \in Handler : v # w => c4'[v] = c4[v]
BY DEF T!TasksTypeOK, T!Put

LEMMA TasksWorker ==
  ASSUME T!TasksTypeOK, NEW w \in Handler
  PROVE  /\ c4[w] \in T!WorkerState
         /\ c4[w].task \in T!Task /\ c4[w].meta \in T!Meta /\ c4[w].job \subseteq Thing
         /\ T!Free \in T!WorkerState
BY DEF T!TasksTypeOK, T!WorkerState, T!Free, T!NoMeta, T!Meta, T!Task

LEMMA TasksGoto ==
  ASSUME T!TasksTypeOK, NEW w \in Handler,
         NEW at \in {"free", "lock", "send", "wait", "cleanup", "setRow"}
                      \cup T!Reading \cup T!Putting,
         T!Goto(w, at)
  PROVE  /\ c4' \in [Handler -> T!WorkerState]
         /\ c4'[w].at = at
         /\ c4'[w].does = c4[w].does /\ c4'[w].task = c4[w].task
         /\ c4'[w].job = c4[w].job /\ c4'[w].meta = c4[w].meta
         /\ \A v \in Handler : v # w => c4'[v] = c4[v]
<1>1. [c4[w] EXCEPT !.at = at] \in T!WorkerState
  BY TasksWorker DEF T!WorkerState
<1>2. T!Put(w, [c4[w] EXCEPT !.at = at])
  BY DEF T!Goto
<1>3. c4'[w] = [c4[w] EXCEPT !.at = at]
  BY <1>1, <1>2, TasksPut
<1>4. c4[w] \in T!WorkerState
  BY TasksWorker
<1> QED
  BY <1>1, <1>2, <1>3, <1>4, TasksPut DEF T!WorkerState

(* The handler returns: its worker is free, and so is the lock it held.    *)
LEMMA TasksReturn ==
  ASSUME T!TasksTypeOK, NEW w \in Handler, T!Return(w)
  PROVE  /\ c4' \in [Handler -> T!WorkerState]
         /\ c4'[w] = T!Free
         /\ \A v \in Handler : v # w => c4'[v] = c4[v]
         /\ c3' \in [T!Task -> Handler \cup {None}]
         /\ \A t \in T!Task : c3'[t] = IF c3[t] = w THEN None ELSE c3[t]
<1>1. T!Put(w, T!Free)
  BY DEF T!Return
<1>2. c3' \in [T!Task -> Handler \cup {None}]
  BY DEF T!Return, T!TasksTypeOK
<1> QED
  BY <1>1, <1>2, TasksPut, TasksWorker DEF T!Return

LEMMA TasksTypeNext ==
  ASSUME T!TasksTypeOK, T!TasksNext
  PROVE  T!TasksTypeOK'
<1> USE DEF T!TasksTypeOK
<1>1. ASSUME NEW w \in Handler, NEW t \in T!Task, T!HandleStart(w, t) \/ T!HandleStop(w, t)
      PROVE  T!TasksTypeOK'
  <2>1. /\ [T!Free EXCEPT !.at = "lock", !.task = t] \in T!WorkerState
        /\ [T!Free EXCEPT !.at = "send", !.does = "stop", !.task = t] \in T!WorkerState
    BY DEF T!WorkerState, T!Free, T!NoMeta, T!Meta
  <2> QED
    BY <1>1, <2>1, TasksPut DEF T!HandleStart, T!HandleStop
<1>2. ASSUME NEW w \in Handler, T!TryLock(w)
      PROVE  T!TasksTypeOK'
  BY <1>2, TasksGoto, TasksPut, TasksWorker DEF T!TryLock
<1>3. ASSUME NEW w \in Handler,
             T!NoRecorder(w) \/ T!Answered(w) \/ T!TimedOut(w) \/ T!NoRoom(w)
      PROVE  T!TasksTypeOK'
  BY <1>3, TasksGoto, TasksReturn
     DEF T!NoRecorder, T!Answered, T!TimedOut, T!NoRoom, T!Reading
<1>4. ASSUME NEW w \in Handler, T!SendStart(w)
      PROVE  T!TasksTypeOK'
  <2>1. CASE T!Goto(w, "wait") /\ UNCHANGED <<c5, c6>>
    BY <1>4, <2>1, TasksGoto DEF T!SendStart
  <2>2. ASSUME NEW j \in Thing, c5[j].at = "none",
               c5' = [c5 EXCEPT ![j] = [at |-> "taken", task |-> c4[w].task]],
               T!Put(w, [c4[w] EXCEPT !.at = "wait", !.job = {j}])
        PROVE  c5' \in [Thing -> T!JobState] /\ c4' \in [Handler -> T!WorkerState]
    <3>1. [at |-> "taken", task |-> c4[w].task] \in T!JobState
      BY TasksWorker DEF T!JobState
    <3>2. [c4[w] EXCEPT !.at = "wait", !.job = {j}] \in T!WorkerState
      BY TasksWorker DEF T!WorkerState
    <3> QED
      BY <2>2, <3>1, <3>2, TasksPut
  <2> QED
    BY <1>4, <2>1, <2>2, TasksWorker DEF T!SendStart
<1>5. ASSUME NEW w \in Handler, T!SendStop(w)
      PROVE  T!TasksTypeOK'
  <2>1. c5' \in [Thing -> T!JobState]
    BY <1>5 DEF T!SendStop, T!JobState
  <2> QED
    BY <1>5, <2>1, TasksGoto DEF T!SendStop
<1>6. ASSUME NEW w \in Handler, T!ReadMeta(w)
      PROVE  T!TasksTypeOK'
  <2>1. PICK seen \in {c2.meta} \cup c8 :
          /\ T!Put(w, [c4[w] EXCEPT
                         !.at = IF @ = "readOptions" THEN "putOptions" ELSE "putFlag",
                         !.meta = seen])
          /\ c6' \in {T!Task, c6}
    BY <1>6 DEF T!ReadMeta
  <2>2. \A at \in T!Putting : [c4[w] EXCEPT !.at = at, !.meta = seen] \in T!WorkerState
    BY TasksWorker DEF T!WorkerState
  <2> QED
    BY <1>6, <2>1, <2>2, TasksPut DEF T!ReadMeta, T!Putting
<1>7. ASSUME NEW w \in Handler, T!PutOptions(w) \/ T!PutFlag(w)
      PROVE  T!TasksTypeOK'
  <2>1. c4[w].meta \in T!Meta /\ c4[w].task \in T!Task
    BY TasksWorker
  <2> DEFINE m == c4[w].meta
  <2>2. /\ [m EXCEPT !.options = @ \cup {c4[w].task}] \in T!Meta
        /\ [m EXCEPT !.active = T!Flagged(w, @)] \in T!Meta
    BY <2>1 DEF T!Meta, T!Flagged
  <2>3. \A n \in T!Meta : [c2 EXCEPT !.meta = n] \in [there : BOOLEAN, meta : T!Meta]
    OBVIOUS
  <2> HIDE DEF T!TasksTypeOK
  <2>4. c2' \in [there : BOOLEAN, meta : T!Meta]
    BY <1>7, <2>2, <2>3 DEF T!PutOptions, T!PutFlag
  <2>5. c8' \subseteq T!Meta
    BY <1>7 DEF T!PutOptions, T!PutFlag, T!TasksTypeOK
  <2> QED
    BY <1>7, <2>4, <2>5, TasksReturn DEF T!PutOptions, T!PutFlag, T!TasksTypeOK
<1>8. ASSUME NEW w \in Handler, NEW j \in Thing, T!PostStarted(w, j) \/ T!PostEnded(w, j)
      PROVE  T!TasksTypeOK'
  <2>1. c5[j] \in T!JobState /\ c5[j].task \in T!Task
    BY DEF T!JobState
  <2>2. \A does \in {"started", "ended"} :
          [T!Free EXCEPT !.at = "setRow", !.does = does, !.task = c5[j].task, !.job = {j}]
            \in T!WorkerState
    BY <2>1 DEF T!WorkerState, T!Free, T!NoMeta, T!Meta
  <2>3. c4' \in [Handler -> T!WorkerState] /\ c6' \subseteq T!Task
    BY <1>8, <2>1, <2>2, TasksPut DEF T!PostStarted, T!PostEnded, T!Receive
  <2>4. c5' \in [Thing -> T!JobState]
    BY <1>8 DEF T!PostStarted, T!PostEnded, T!JobState
  <2> QED
    BY <1>8, <2>3, <2>4 DEF T!PostStarted, T!PostEnded
<1>9. ASSUME NEW w \in Handler, T!SetRow(w)
      PROVE  T!TasksTypeOK'
  <2>1. c1' \in [running : BOOLEAN, active : SUBSET T!Task]
    BY <1>9, TasksWorker DEF T!SetRow, T!Flagged
  <2> QED
    BY <1>9, <2>1, TasksGoto DEF T!SetRow, T!Reading
<1>10. ASSUME NEW w \in Handler, T!CloseRow(w)
       PROVE  T!TasksTypeOK'
  <2>1. [T!Free EXCEPT !.at = "send", !.does = "end"] \in T!WorkerState
    BY DEF T!WorkerState, T!Free, T!NoMeta, T!Meta, T!Task
  <2> QED
    BY <1>10, <2>1, TasksPut DEF T!CloseRow
<1>11. ASSUME NEW w \in Handler, T!Cleanup(w)
       PROVE  T!TasksTypeOK'
  <2>1. T!NoMeta \in T!Meta
    BY DEF T!NoMeta, T!Meta
  <2> QED
    BY <1>11, <2>1, TasksPut, TasksWorker DEF T!Cleanup
<1>12. ASSUME NEW w \in Handler, T!MetaFails(w)
       PROVE  T!TasksTypeOK'
  <2>1. c6' \subseteq T!Task
    BY <1>12, TasksWorker DEF T!MetaFails
  <2> QED
    BY <1>12, <2>1, TasksReturn DEF T!MetaFails
<1>13. ASSUME NEW w \in Handler, T!RowFails(w)
       PROVE  T!TasksTypeOK'
  <2>1. c6' \subseteq T!Task
    BY <1>13, TasksWorker DEF T!RowFails
  <2> QED
    BY <1>13, <2>1, TasksGoto DEF T!RowFails, T!Reading
<1>14. ASSUME NEW j \in Thing, T!PostDropped(j)
       PROVE  T!TasksTypeOK'
  <2>1. c5[j] \in T!JobState /\ c5[j].task \in T!Task
    BY DEF T!JobState
  <2>2. c5' \in [Thing -> T!JobState] /\ c6' \subseteq T!Task
    BY <1>14, <2>1 DEF T!PostDropped, T!JobState
  <2> QED
    BY <1>14, <2>2 DEF T!PostDropped
<1>15. CASE T!OtherRequest
  BY <1>15 DEF T!OtherRequest
<1>16. ASSUME NEW t \in T!Task, T!LockExpires(t)
       PROVE  T!TasksTypeOK'
  BY <1>16 DEF T!LockExpires
<1> QED
  BY <1>1, <1>2, <1>3, <1>4, <1>5, <1>6, <1>7, <1>8, <1>9, <1>10, <1>11, <1>12, <1>13, <1>14,
     <1>15, <1>16 DEF T!TasksNext, T!WorkerStep

-----------------------------------------------------------------------------
(* A step of a request that posts nothing and leaves row, metadata and     *)
(* jobs as they are seen leaves AirIsFollowed as it is.                    *)
LEMMA TasksAirKept ==
  ASSUME T!AirIsFollowed, c6 \subseteq c6',
         c1'.active = c1.active, c1'.running => c1.running,
         c2'.meta.active = c2.meta.active,
         \A t \in T!Task : /\ T!Had(t)' \subseteq T!Had(t)
                           /\ T!Started(t)' = T!Started(t)
                           /\ T!Posts(t)' = T!Posts(t),
         \A t \in T!Task : \A w \in T!Posts(t) : /\ c4'[w].does = c4[w].does
                                                 /\ c4'[w].at = "setRow" <=> c4[w].at = "setRow"
  PROVE  T!AirIsFollowed'
<1> SUFFICES ASSUME NEW t \in T!Task, t \notin c6'
             PROVE
        /\ \A j, k \in T!Had(t)' : j = k
        /\ \A v, w \in T!Posts(t) : v = w
        /\ \A w \in T!Posts(t) : c4'[w].does = "started" <=> T!Started(t) # {}
        /\ (\A w \in T!Posts(t) : c4'[w].at # "setRow") =>
              /\ t \in c1'.active => T!Started(t) # {}
              /\ c1'.running /\ T!Started(t) # {} => t \in c1'.active
        /\ c1'.running /\ T!Posts(t) = {} => (t \in c2'.meta.active <=> T!Started(t) # {})
  BY DEF T!AirIsFollowed, T!Task
<1> QED
  BY DEF T!AirIsFollowed

(* The step of a request changes no post.                                  *)
LEMMA TasksNoPost ==
  ASSUME NEW w \in Handler, \A v \in Handler : v # w => c4'[v] = c4[v],
         c4[w].at = "free" \/ c4[w].does \notin {"started", "ended"},
         c4'[w].at = "free" \/ c4'[w].does \notin {"started", "ended"}
  PROVE  /\ \A t \in T!Task : T!Posts(t)' = T!Posts(t)
         /\ \A t \in T!Task : \A v \in T!Posts(t) : c4'[v] = c4[v]
BY DEF T!Posts

(* The step of a request that goes on, or returns, without a store.        *)
LEMMA TasksLocal ==
  ASSUME T!TasksInvariant, NEW w \in Handler, UNCHANGED <<c1, c2, c5, c6, c7>>,
         \A v \in Handler : v # w => c4'[v] = c4[v],
         \A t \in T!Task : \A v \in Handler : v # w /\ c3[t] = v => c3'[t] = v,
         c4[w].at = "free" \/ c4[w].does \notin {"started", "ended"},
         c4[w].at \notin T!Reading \cup T!Putting,
         \/ c4'[w].at = "free"
         \/ /\ c4'[w].at \in {"lock", "send", "wait", "cleanup", "readOptions"}
            /\ c4'[w].does \in {"start", "stop", "end"}
            /\ c4'[w].at \in {"lock", "readOptions"} => c4'[w].does = "start"
            /\ c4'[w].at = "cleanup" => c4'[w].does = "end"
            /\ c4'[w].does = "end" => ~c1.running
            /\ c4'[w].does = "start" /\ c4'[w].at # "lock" =>
                  c4'[w].task \in c7 \/ c3'[c4'[w].task] = w
  PROVE  T!RequestsKeepOrder' /\ T!StartsHoldLock' /\ T!MetaIsOwned' /\ T!AirIsFollowed'
<1> USE DEF T!TasksInvariant
<1>1. T!RequestsKeepOrder'
  BY DEF T!RequestsKeepOrder
<1>2. T!StartsHoldLock'
  <2> SUFFICES ASSUME NEW v \in Handler, c4'[v].does = "start",
                      c4'[v].at \notin {"free", "lock"}
               PROVE  c4'[v].task \in c7' \/ c3'[c4'[v].task] = v
    BY DEF T!StartsHoldLock
  <2>1. CASE v # w
    <3>1. c4'[v] = c4[v] /\ c4[v].task \in T!Task
      BY <2>1, TasksWorker
    <3> QED
      BY <2>1, <3>1 DEF T!StartsHoldLock
  <2>2. CASE v = w
    BY <2>2
  <2> QED
    BY <2>1, <2>2
<1>3. T!MetaIsOwned'
  <2>1. c4'[w].at \notin T!Putting
    BY DEF T!Putting
  <2> QED
    BY <2>1 DEF T!MetaIsOwned
<1>4. T!AirIsFollowed'
  <2>1. /\ \A t \in T!Task : T!Posts(t)' = T!Posts(t)
        /\ \A t \in T!Task : \A v \in T!Posts(t) : c4'[v] = c4[v]
    BY TasksNoPost
  <2>2. \A t \in T!Task : T!Had(t)' = T!Had(t) /\ T!Started(t)' = T!Started(t)
    BY DEF T!Had, T!Started, T!On
  <2> QED
    BY <2>1, <2>2, TasksAirKept
<1> QED
  BY <1>1, <1>2, <1>3, <1>4

LEMMA TasksRequestNext ==
  ASSUME T!TasksInvariant, NEW w \in Handler,
         \/ \E t \in T!Task : T!HandleStart(w, t) \/ T!HandleStop(w, t)
         \/ T!TryLock(w) \/ T!NoRecorder(w) \/ T!Answered(w) \/ T!TimedOut(w)
  PROVE  T!RequestsKeepOrder' /\ T!StartsHoldLock' /\ T!MetaIsOwned' /\ T!AirIsFollowed'
<1> USE DEF T!TasksInvariant
<1>1. ASSUME NEW t \in T!Task, T!HandleStart(w, t) \/ T!HandleStop(w, t)
      PROVE  T!RequestsKeepOrder' /\ T!StartsHoldLock' /\ T!MetaIsOwned' /\ T!AirIsFollowed'
  <2>1. /\ [T!Free EXCEPT !.at = "lock", !.task = t] \in T!WorkerState
        /\ [T!Free EXCEPT !.at = "send", !.does = "stop", !.task = t] \in T!WorkerState
    BY DEF T!WorkerState, T!Free, T!NoMeta, T!Meta
  <2>2. /\ UNCHANGED <<c1, c2, c3, c5, c6, c7>> /\ c4[w].at = "free"
        /\ \A v \in Handler : v # w => c4'[v] = c4[v]
        /\ \/ c4'[w] = [T!Free EXCEPT !.at = "lock", !.task = t]
           \/ c4'[w] = [T!Free EXCEPT !.at = "send", !.does = "stop", !.task = t]
    BY <1>1, <2>1, TasksPut DEF T!HandleStart, T!HandleStop
  <2>3. \/ c4'[w].at = "lock" /\ c4'[w].does = "start"
        \/ c4'[w].at = "send" /\ c4'[w].does = "stop"
    BY <2>2 DEF T!Free
  <2> QED
    BY <2>2, <2>3, TasksLocal DEF T!Reading, T!Putting
<1>2. CASE T!TryLock(w)
  <2>1. c4[w].at = "lock" /\ c4[w].does = "start" /\ UNCHANGED <<c1, c2, c5, c6, c7>>
    BY <1>2 DEF T!TryLock, T!RequestsKeepOrder
  <2>2. CASE c3[c4[w].task] = None
    <3>1. /\ c4'[w].at = "send" /\ c4'[w].does = "start" /\ c4'[w].task = c4[w].task
          /\ \A v \in Handler : v # w => c4'[v] = c4[v]
      BY <1>2, <2>1, <2>2, TasksGoto DEF T!TryLock
    <3>2. c3' = [c3 EXCEPT ![c4[w].task] = w]
      BY <1>2, <2>2 DEF T!TryLock
    <3>3. /\ c3'[c4[w].task] = w
          /\ \A t \in T!Task : \A v \in Handler : v # w /\ c3[t] = v => c3'[t] = v
      BY <2>2, <3>2, TasksWorker, ServicesAssumption DEF ServicesAssumption, T!TasksTypeOK
    <3> QED
      BY <2>1, <3>1, <3>3, TasksLocal DEF T!Reading, T!Putting
  <2>3. CASE c3[c4[w].task] # None
    <3>1. /\ c4'[w] = T!Free /\ c3' = c3
          /\ \A v \in Handler : v # w => c4'[v] = c4[v]
      BY <1>2, <2>3, TasksPut, TasksWorker DEF T!TryLock
    <3> QED
      BY <2>1, <3>1, TasksLocal DEF T!Reading, T!Putting, T!Free
  <2> QED
    BY <2>2, <2>3
<1>3. CASE T!NoRecorder(w) \/ T!Answered(w) \/ T!TimedOut(w)
  <2>1. /\ UNCHANGED <<c1, c2, c5, c6, c7>>
        /\ c4[w].at \in {"send", "wait"} /\ c4[w].does \in {"start", "stop", "end"}
    <3>1. c4[w].at \in {"send", "wait"} /\ UNCHANGED <<c1, c2, c5, c6, c7>>
      BY <1>3 DEF T!NoRecorder, T!Answered, T!TimedOut, T!At
    <3>2. c4[w].does \in {"start", "stop", "end", "started", "ended"}
      BY TasksWorker DEF T!WorkerState
    <3> QED
      BY <3>1, <3>2 DEF T!RequestsKeepOrder
  <2>2. CASE T!Return(w)
    <3>1. /\ c4'[w].at = "free"
          /\ \A v \in Handler : v # w => c4'[v] = c4[v]
          /\ \A t \in T!Task : \A v \in Handler : v # w /\ c3[t] = v => c3'[t] = v
      BY <2>2, TasksReturn DEF T!Free
    <3> QED
      BY <2>1, <3>1, TasksLocal DEF T!Reading, T!Putting
  <2>3. ASSUME UNCHANGED c3,
               \/ T!Goto(w, "readOptions") /\ c4[w].does = "start"
               \/ T!Goto(w, "cleanup") /\ c4[w].does = "end"
        PROVE  T!RequestsKeepOrder' /\ T!StartsHoldLock' /\ T!MetaIsOwned' /\ T!AirIsFollowed'
    <3>1. /\ c4'[w].does = c4[w].does /\ c4'[w].task = c4[w].task
          /\ \/ c4'[w].at = "readOptions" /\ c4[w].does = "start"
             \/ c4'[w].at = "cleanup" /\ c4[w].does = "end"
          /\ \A v \in Handler : v # w => c4'[v] = c4[v]
      BY <2>3, TasksGoto DEF T!Reading
    <3>2. c4[w].does = "end" => ~c1.running
      BY <2>1 DEF T!RequestsKeepOrder
    <3>3. c4[w].does = "start" => c4[w].task \in c7 \/ c3[c4[w].task] = w
      BY <2>1 DEF T!StartsHoldLock
    <3>4. c3' = c3
      BY <2>3
    <3> QED
      BY <2>1, <3>1, <3>2, <3>3, <3>4, TasksLocal DEF T!Reading, T!Putting
  <2> QED
    BY <1>3, <2>2, <2>3 DEF T!NoRecorder, T!Answered, T!TimedOut
<1> QED
  BY <1>1, <1>2, <1>3

(* A recorder takes a job, or is told to end some: nobody else has the     *)
(* task a job is taken for, or it is tangled from here on.                 *)
LEMMA TasksSendNext ==
  ASSUME T!TasksInvariant, NEW w \in Handler, T!SendStart(w) \/ T!SendStop(w)
  PROVE  T!RequestsKeepOrder' /\ T!StartsHoldLock' /\ T!MetaIsOwned' /\ T!AirIsFollowed'
<1> USE DEF T!TasksInvariant
<1>1. /\ UNCHANGED <<c1, c2, c3, c7>> /\ c4[w].at = "send"
      /\ c4[w].does \in {"start", "stop", "end"}
      /\ c4'[w].at = "wait" /\ c4'[w].does = c4[w].does /\ c4'[w].task = c4[w].task
      /\ \A v \in Handler : v # w => c4'[v] = c4[v]
  <2>1. CASE T!SendStart(w)
    <3>1. ASSUME NEW j \in Thing, T!Put(w, [c4[w] EXCEPT !.at = "wait", !.job = {j}])
          PROVE  /\ c4'[w].at = "wait" /\ c4'[w].does = c4[w].does /\ c4'[w].task = c4[w].task
                 /\ \A v \in Handler : v # w => c4'[v] = c4[v]
      <4>1. [c4[w] EXCEPT !.at = "wait", !.job = {j}] \in T!WorkerState
        BY TasksWorker DEF T!WorkerState
      <4>2. /\ c4'[w] = [c4[w] EXCEPT !.at = "wait", !.job = {j}]
            /\ \A v \in Handler : v # w => c4'[v] = c4[v]
        BY <3>1, <4>1, TasksPut
      <4> QED
        BY <4>2, TasksWorker DEF T!WorkerState
    <3>2. ASSUME T!Goto(w, "wait")
          PROVE  /\ c4'[w].at = "wait" /\ c4'[w].does = c4[w].does /\ c4'[w].task = c4[w].task
                 /\ \A v \in Handler : v # w => c4'[v] = c4[v]
      BY <3>2, TasksGoto
    <3> QED
      BY <2>1, <3>1, <3>2 DEF T!SendStart, T!At
  <2>2. CASE T!SendStop(w)
    BY <2>2, TasksGoto DEF T!SendStop
  <2> QED
    BY <2>1, <2>2
<1>2. T!RequestsKeepOrder'
  BY <1>1 DEF T!RequestsKeepOrder
<1>3. T!StartsHoldLock'
  BY <1>1 DEF T!StartsHoldLock
<1>4. T!MetaIsOwned'
  <2>1. c6 \subseteq c6' /\ c6' \subseteq T!Task
    <3>1. c6' = c6 \/ c6' = c6 \cup {c4[w].task}
      BY DEF T!SendStart, T!SendStop
    <3> QED
      BY <3>1, TasksWorker DEF T!TasksTypeOK
  <2> QED
    BY <1>1, <2>1 DEF T!MetaIsOwned, T!Putting
<1>5. /\ \A t \in T!Task : T!Posts(t)' = T!Posts(t)
      /\ \A t \in T!Task : \A v \in T!Posts(t) : c4'[v] = c4[v]
  BY <1>1, TasksNoPost
<1>6. ASSUME c6' = c6,
             \A t \in T!Task : T!Had(t)' \subseteq T!Had(t) /\ T!Started(t)' = T!Started(t)
      PROVE  T!AirIsFollowed'
  <2>1. \A t \in T!Task : \A v \in T!Posts(t) : /\ c4'[v].does = c4[v].does
                                                /\ c4'[v].at = "setRow" <=> c4[v].at = "setRow"
    BY <1>5
  <2>2. c1'.active = c1.active /\ c1'.running = c1.running /\ c2'.meta.active = c2.meta.active
    BY <1>1
  <2> QED
    BY <1>5, <1>6, <2>1, <2>2, TasksAirKept
<1>7. ASSUME NEW j \in Thing, c5[j].at = "none",
             c5' = [c5 EXCEPT ![j] = [at |-> "taken", task |-> c4[w].task]],
             c6' = c6 \cup (IF T!Had(c4[w].task) # {} THEN {c4[w].task} ELSE {})
      PROVE  T!AirIsFollowed'
  <2>1. \A k \in Thing : c5'[k] = IF k = j THEN [at |-> "taken", task |-> c4[w].task] ELSE c5[k]
    BY <1>7 DEF T!TasksTypeOK
  <2>2. ASSUME NEW t \in T!Task
        PROVE  /\ T!Started(t)' = T!Started(t)
               /\ t # c4[w].task => T!Had(t)' = T!Had(t)
    <3>1. \A k \in Thing : /\ k \in T!Started(t)' <=> k \in T!Started(t)
                           /\ t # c4[w].task => (k \in T!Had(t)' <=> k \in T!Had(t))
      BY <1>7, <2>1 DEF T!Started, T!On, T!Had
    <3> QED
      BY <3>1 DEF T!Started, T!On, T!Had
  <2>3. c4[w].task \notin c6' => \A k \in T!Had(c4[w].task)' : k = j
    <3>1. c4[w].task \notin c6' => T!Had(c4[w].task) = {}
      BY <1>7
    <3>2. \A k \in Thing : k \in T!Had(c4[w].task)' => k = j \/ k \in T!Had(c4[w].task)
      BY <1>1, <2>1 DEF T!Had
    <3> QED
      BY <3>1, <3>2 DEF T!Had
  <2> QED
    BY <1>1, <1>5, <1>7, <2>2, <2>3 DEF T!AirIsFollowed
<1>8. T!AirIsFollowed'
  <2>1. CASE T!SendStart(w)
    <3>1. CASE UNCHANGED <<c5, c6>>
      BY <1>6, <3>1 DEF T!Had, T!Started, T!On
    <3> QED
      BY <1>7, <2>1, <3>1 DEF T!SendStart
  <2>2. CASE T!SendStop(w)
    <3>1. \A j \in Thing :
            \/ c5'[j] = c5[j]
            \/ c5[j].at = "taken" /\ c5'[j].at = "lost" /\ c5'[j].task = c5[j].task
            \/ c5[j].at = "started" /\ c5'[j].at = "ending" /\ c5'[j].task = c5[j].task
      <4>1. \A j \in Thing : c5[j] \in T!JobState
        BY DEF T!TasksTypeOK
      <4> QED
        BY <2>2, <4>1 DEF T!SendStop, T!JobState
    <3>2. \A t \in T!Task : T!Had(t)' \subseteq T!Had(t) /\ T!Started(t)' = T!Started(t)
      BY <3>1 DEF T!Had, T!Started, T!On
    <3> QED
      BY <1>6, <2>2, <3>2 DEF T!SendStop
  <2> QED
    BY <2>1, <2>2
<1> QED
  BY <1>2, <1>3, <1>4, <1>8

(* The metadata are read: another worker that is about to put them tangles *)
(* everything.                                                             *)
LEMMA TasksReadNext ==
  ASSUME T!TasksInvariant, NEW w \in Handler, T!ReadMeta(w)
  PROVE  T!RequestsKeepOrder' /\ T!StartsHoldLock' /\ T!MetaIsOwned' /\ T!AirIsFollowed'
<1> USE DEF T!TasksInvariant
<1>1. PICK seen \in {c2.meta} \cup c8 :
        /\ T!Put(w, [c4[w] EXCEPT
                       !.at = IF @ = "readOptions" THEN "putOptions" ELSE "putFlag",
                       !.meta = seen])
        /\ UNCHANGED <<c1, c2, c3, c5, c7>> /\ c2.there
        /\ c6' = IF \/ seen # c2.meta
                    \/ \E v \in Handler \ {w} : c4[v].at \in T!Putting
                 THEN T!Task ELSE c6
  BY DEF T!ReadMeta
<1>2. /\ \/ c4[w].at = "readOptions" /\ c4'[w].at = "putOptions"
         \/ c4[w].at = "readFlag" /\ c4'[w].at = "putFlag"
      /\ c4'[w].does = c4[w].does /\ c4'[w].task = c4[w].task /\ c4'[w].meta = seen
      /\ \A v \in Handler : v # w => c4'[v] = c4[v]
  <2>1. \A at \in T!Putting : [c4[w] EXCEPT !.at = at, !.meta = seen] \in T!WorkerState
    BY TasksWorker DEF T!WorkerState, T!TasksTypeOK
  <2> DEFINE next == IF c4[w].at = "readOptions" THEN "putOptions" ELSE "putFlag"
  <2>2. next \in T!Putting /\ c4[w].at \in {"readOptions", "readFlag"}
    BY DEF T!Putting, T!ReadMeta, T!Reading
  <2>3. T!Put(w, [c4[w] EXCEPT !.at = next, !.meta = seen])
    BY <1>1
  <2>4. /\ c4'[w] = [c4[w] EXCEPT !.at = next, !.meta = seen]
        /\ \A v \in Handler : v # w => c4'[v] = c4[v]
    BY <2>1, <2>2, <2>3, TasksPut
  <2> QED
    BY <2>2, <2>4, TasksWorker DEF T!WorkerState
<1>3. T!RequestsKeepOrder'
  BY <1>1, <1>2 DEF T!RequestsKeepOrder
<1>4. T!StartsHoldLock'
  BY <1>1, <1>2 DEF T!StartsHoldLock
<1>5. T!MetaIsOwned'
  BY <1>1, <1>2 DEF T!MetaIsOwned, T!Putting
<1>6. T!AirIsFollowed'
  <2>1. /\ \A t \in T!Task : T!Posts(t)' = T!Posts(t)
        /\ \A t \in T!Task : \A v \in T!Posts(t) : /\ c4'[v].does = c4[v].does
                                                   /\ c4'[v].at = "setRow" <=> c4[v].at = "setRow"
    BY <1>2 DEF T!Posts
  <2>2. \A t \in T!Task : T!Had(t)' = T!Had(t) /\ T!Started(t)' = T!Started(t)
    BY <1>1 DEF T!Had, T!Started, T!On
  <2>3. c6 \subseteq c6'
    BY <1>1 DEF T!TasksTypeOK
  <2> QED
    BY <1>1, <2>1, <2>2, <2>3, TasksAirKept
<1> QED
  BY <1>3, <1>4, <1>5, <1>6

(* A worker that put the metadata, or found no bucket, returns.  If it was *)
(* a post, its task has none any more.                                     *)
LEMMA TasksPutNext ==
  ASSUME T!TasksInvariant, NEW w \in Handler,
         T!NoRoom(w) \/ T!PutOptions(w) \/ T!PutFlag(w)
  PROVE  T!RequestsKeepOrder' /\ T!StartsHoldLock' /\ T!MetaIsOwned' /\ T!AirIsFollowed'
<1> USE DEF T!TasksInvariant
<1>1. /\ UNCHANGED <<c1, c5, c6, c7>> /\ c2'.there = c2.there
      /\ c4[w].at \in T!Reading \cup T!Putting
      /\ c4'[w] = T!Free
      /\ \A v \in Handler : v # w => c4'[v] = c4[v]
      /\ \A t \in T!Task : c3'[t] = IF c3[t] = w THEN None ELSE c3[t]
  <2>1. T!Return(w) /\ UNCHANGED <<c1, c5, c6, c7>> /\ c4[w].at \in T!Reading \cup T!Putting
    BY DEF T!NoRoom, T!PutOptions, T!PutFlag, T!Putting
  <2>2. c2'.there = c2.there
    BY DEF T!NoRoom, T!PutOptions, T!PutFlag, T!TasksTypeOK
  <2> QED
    BY <2>1, <2>2, TasksReturn
<1>2. c4'[w].at = "free"
  BY <1>1 DEF T!Free
<1>3. T!RequestsKeepOrder'
  BY <1>1, <1>2 DEF T!RequestsKeepOrder
<1>4. T!StartsHoldLock'
  <2> SUFFICES ASSUME NEW v \in Handler, c4'[v].does = "start",
                      c4'[v].at \notin {"free", "lock"}
               PROVE  c4'[v].task \in c7' \/ c3'[c4'[v].task] = v
    BY DEF T!StartsHoldLock
  <2>1. v # w /\ c4'[v] = c4[v] /\ c4[v].task \in T!Task
    BY <1>1, <1>2, TasksWorker
  <2>2. c4[v].task \in c7 \/ c3[c4[v].task] = v
    BY <2>1 DEF T!StartsHoldLock
  <2> QED
    BY <1>1, <2>1, <2>2
<1>5. T!MetaIsOwned'
  <2>1. c4'[w].at \notin T!Putting
    BY <1>2 DEF T!Putting
  <2>2. CASE T!NoRoom(w)
    BY <1>1, <2>1, <2>2 DEF T!MetaIsOwned, T!NoRoom
  <2>3. CASE T!PutOptions(w) \/ T!PutFlag(w)
    <3>1. c4[w].at \in T!Putting
      BY <2>3 DEF T!PutOptions, T!PutFlag, T!Putting
    <3>2. c6' # T!Task => \A v \in Handler : c4'[v].at \notin T!Putting
      BY <1>1, <2>1, <3>1 DEF T!MetaIsOwned
    <3> QED
      BY <3>2 DEF T!MetaIsOwned
  <2> QED
    BY <2>2, <2>3
<1>6. \A t \in T!Task : T!Had(t)' = T!Had(t) /\ T!Started(t)' = T!Started(t)
  BY <1>1 DEF T!Had, T!Started, T!On
<1>7. \A t \in T!Task : T!Posts(t)' = T!Posts(t) \ {w}
  BY <1>1, <1>2 DEF T!Posts
<1>8. CASE c4[w].does = "start"
  <2>1. c4[w].does \notin {"started", "ended"}
    BY <1>8
  <2>2. /\ \A t \in T!Task : T!Posts(t)' = T!Posts(t)
        /\ \A t \in T!Task : \A v \in T!Posts(t) : c4'[v] = c4[v]
    BY <1>1, <1>2, <2>1, TasksNoPost
  <2>3. c4[w].at # "putFlag"
    BY <2>1 DEF T!RequestsKeepOrder
  <2>4. c6' # T!Task => c2'.meta.active = c2.meta.active
    <3>1. CASE T!NoRoom(w)
      BY <3>1 DEF T!NoRoom
    <3>2. CASE T!PutOptions(w)
      <4>1. c2'.meta = [c4[w].meta EXCEPT !.options = @ \cup {c4[w].task}]
        BY <3>2 DEF T!PutOptions, T!TasksTypeOK
      <4>2. c2'.meta.active = c4[w].meta.active
        BY <4>1, TasksWorker DEF T!Meta
      <4>3. c6' # T!Task => c4[w].meta = c2.meta
        BY <1>1, <3>2 DEF T!PutOptions, T!MetaIsOwned, T!Putting
      <4> QED
        BY <4>2, <4>3
    <3> QED
      BY <2>3, <3>1, <3>2 DEF T!PutFlag
  <2>5. ASSUME c6' # T!Task
        PROVE  T!AirIsFollowed'
    <3>1. \A t \in T!Task : \A v \in T!Posts(t) : /\ c4'[v].does = c4[v].does
                                                  /\ c4'[v].at = "setRow" <=> c4[v].at = "setRow"
      BY <2>2
    <3>2. c2'.meta.active = c2.meta.active
      BY <2>4, <2>5
    <3>3. c1' = c1 /\ c6' = c6
      BY <1>1
    <3> QED
      BY <1>6, <2>2, <3>1, <3>2, <3>3, TasksAirKept
  <2>6. ASSUME c6' = T!Task
        PROVE  T!AirIsFollowed'
    BY <2>6 DEF T!AirIsFollowed
  <2> QED
    BY <1>3, <1>4, <1>5, <2>5, <2>6
<1>9. CASE c4[w].does # "start"
  <2>1. c4[w].does \in {"started", "ended"} /\ c4[w].at \notin {"readOptions", "putOptions"}
    <3>1. c4[w].at \in {"readFlag", "putFlag"}
      BY <1>1, <1>9 DEF T!RequestsKeepOrder, T!Reading, T!Putting
    <3> QED
      BY <3>1 DEF T!RequestsKeepOrder
  <2>2. w \in T!Posts(c4[w].task) /\ c4[w].at # "setRow"
    BY <1>1, <2>1 DEF T!Posts, T!Reading, T!Putting
  <2> DEFINE s == c4[w].task
  <2>3. s \in T!Task
    BY TasksWorker
  <2>4. \A t \in T!Task : t # s => T!Posts(t)' = T!Posts(t)
    BY <1>1, <1>7 DEF T!Posts
  <2>5. s \notin c6' => T!Posts(s) = {w} /\ T!Posts(c4[w].task) \ {w} = {}
    BY <1>1, <2>2, <2>3 DEF T!AirIsFollowed
  <2>6. c6' # T!Task /\ c1'.running =>
          \A t \in T!Task :
             t \in c2'.meta.active <=> IF t = s THEN c4[w].does = "started"
                                                ELSE t \in c2.meta.active
    <3>1. CASE T!NoRoom(w)
      BY <1>1, <3>1 DEF T!NoRoom, T!RequestsKeepOrder
    <3>2. CASE T!PutFlag(w)
      <4>1. c2'.meta = [c4[w].meta EXCEPT !.active = T!Flagged(w, @)]
        BY <3>2 DEF T!PutFlag, T!TasksTypeOK
      <4>2. c2'.meta.active = T!Flagged(w, c4[w].meta.active)
        BY <4>1, TasksWorker DEF T!Meta
      <4>3. c6' # T!Task => c4[w].meta = c2.meta
        BY <1>1, <3>2 DEF T!PutFlag, T!MetaIsOwned, T!Putting
      <4> QED
        BY <4>2, <4>3 DEF T!Flagged
    <3> QED
      BY <2>1, <3>1, <3>2 DEF T!PutOptions
  <2> SUFFICES ASSUME NEW t \in T!Task, t \notin c6'
               PROVE  /\ \A j, k \in T!Had(t) : j = k
                      /\ \A u, v \in T!Posts(t)' : u = v
                      /\ \A v \in T!Posts(t)' : c4'[v].does = "started" <=> T!Started(t) # {}
                      /\ (\A v \in T!Posts(t)' : c4'[v].at # "setRow") =>
                            /\ t \in c1.active => T!Started(t) # {}
                            /\ c1.running /\ T!Started(t) # {} => t \in c1.active
                      /\ c1.running /\ T!Posts(t)' = {} =>
                            (t \in c2'.meta.active <=> T!Started(t) # {})
    BY <1>1, <1>3, <1>4, <1>5, <1>6 DEF T!AirIsFollowed
  <2>7. c6' # T!Task
    BY <2>3
  <2>8. \A v \in T!Posts(t)' : v \in T!Posts(t) /\ c4'[v] = c4[v]
    <3>1. T!Posts(t)' = T!Posts(t) \ {w} /\ T!Posts(t) \subseteq Handler
      BY <1>7 DEF T!Posts
    <3> QED
      BY <1>1, <3>1
  <2>9. \A v \in T!Posts(t) : v # w => v \in T!Posts(t)'
    BY <1>7
  <2>10. t \notin c6
    BY <1>1
  <2>11. CASE t = s
    <3>1. T!Posts(t) = {w} /\ T!Posts(t)' = {}
      BY <1>7, <2>5, <2>11
    <3>2. c1.running => (t \in c2'.meta.active <=> T!Started(t) # {})
      BY <1>1, <2>6, <2>7, <2>10, <2>11, <3>1 DEF T!AirIsFollowed
    <3> QED
      BY <2>2, <2>10, <3>1, <3>2 DEF T!AirIsFollowed
  <2>12. CASE t # s
    <3>1. T!Posts(t)' = T!Posts(t)
      BY <2>4, <2>12
    <3>2. c1.running => (t \in c2'.meta.active <=> t \in c2.meta.active)
      BY <1>1, <2>6, <2>7, <2>12
    <3> QED
      BY <2>8, <2>10, <3>1, <3>2 DEF T!AirIsFollowed
  <2> QED
    BY <2>11, <2>12
<1> QED
  BY <1>8, <1>9

(* A worker whose read or put failed returns: a post leaves its task       *)
(* tangled.                                                                *)
LEMMA TasksFailsNext ==
  ASSUME T!TasksInvariant, NEW w \in Handler, T!MetaFails(w)
  PROVE  T!RequestsKeepOrder' /\ T!StartsHoldLock' /\ T!MetaIsOwned' /\ T!AirIsFollowed'
<1> USE DEF T!TasksInvariant
<1>1. /\ UNCHANGED <<c1, c2, c5, c7>> /\ c4[w].at \in T!Reading \cup T!Putting
      /\ c4'[w].at = "free"
      /\ \A v \in Handler : v # w => c4'[v] = c4[v]
      /\ \A t \in T!Task : c3'[t] = IF c3[t] = w THEN None ELSE c3[t]
      /\ c6' = IF c4[w].does = "start" THEN c6 ELSE c6 \cup {c4[w].task}
  BY TasksReturn DEF T!MetaFails, T!Free
<1>2. c6 \subseteq c6' /\ c6' \subseteq T!Task
  BY <1>1, TasksWorker DEF T!TasksTypeOK
<1>3. T!RequestsKeepOrder'
  BY <1>1 DEF T!RequestsKeepOrder
<1>4. T!StartsHoldLock'
  <2> SUFFICES ASSUME NEW v \in Handler, c4'[v].does = "start",
                      c4'[v].at \notin {"free", "lock"}
               PROVE  c4'[v].task \in c7' \/ c3'[c4'[v].task] = v
    BY DEF T!StartsHoldLock
  <2>1. v # w /\ c4'[v] = c4[v] /\ c4[v].task \in T!Task
    BY <1>1, TasksWorker
  <2>2. c4[v].task \in c7 \/ c3[c4[v].task] = v
    BY <2>1 DEF T!StartsHoldLock
  <2> QED
    BY <1>1, <2>1, <2>2
<1>5. T!MetaIsOwned'
  <2>1. c4'[w].at \notin T!Putting
    BY <1>1 DEF T!Putting
  <2>2. c6' # T!Task => c6 # T!Task
    BY <1>2
  <2> QED
    BY <1>1, <2>1, <2>2 DEF T!MetaIsOwned
<1>6. ASSUME NEW t \in T!Task, t \notin c6'
      PROVE  /\ T!Had(t)' = T!Had(t) /\ T!Started(t)' = T!Started(t)
             /\ T!Posts(t)' = T!Posts(t)
             /\ \A v \in T!Posts(t) : c4'[v] = c4[v]
  <2>1. T!Had(t)' = T!Had(t) /\ T!Started(t)' = T!Started(t)
    BY <1>1 DEF T!Had, T!Started, T!On
  <2>2. w \notin T!Posts(t)
    BY <1>1, <1>6 DEF T!Posts
  <2>3. \A v \in Handler : v \in T!Posts(t)' <=> v \in T!Posts(t)
    BY <1>1, <2>2 DEF T!Posts
  <2>4. T!Posts(t)' = T!Posts(t)
    BY <2>3 DEF T!Posts
  <2> QED
    BY <1>1, <2>1, <2>2, <2>4 DEF T!Posts
<1>7. T!AirIsFollowed'
  <2> SUFFICES ASSUME NEW t \in T!Task, t \notin c6'
               PROVE  /\ \A i, k \in T!Had(t) : i = k
                      /\ \A u, v \in T!Posts(t) : u = v
                      /\ \A v \in T!Posts(t) : c4[v].does = "started" <=> T!Started(t) # {}
                      /\ (\A v \in T!Posts(t) : c4[v].at # "setRow") =>
                            /\ t \in c1.active => T!Started(t) # {}
                            /\ c1.running /\ T!Started(t) # {} => t \in c1.active
                      /\ c1.running /\ T!Posts(t) = {} =>
                            (t \in c2.meta.active <=> T!Started(t) # {})
    BY <1>1, <1>6 DEF T!AirIsFollowed
  <2> QED
    BY <1>2 DEF T!AirIsFollowed
<1> QED
  BY <1>3, <1>4, <1>5, <1>7

(* An event that is dropped leaves its task tangled, and the other as it   *)
(* is.                                                                     *)
LEMMA TasksDroppedNext ==
  ASSUME T!TasksInvariant, NEW j \in Thing, T!PostDropped(j)
  PROVE  T!RequestsKeepOrder' /\ T!StartsHoldLock' /\ T!MetaIsOwned' /\ T!AirIsFollowed'
<1> USE DEF T!TasksInvariant
<1>1. /\ UNCHANGED <<c1, c2, c3, c4, c7>>
      /\ c6' = c6 \cup {c5[j].task} /\ c5[j].task \in T!Task
      /\ \A k \in Thing : k # j => c5'[k] = c5[k]
      /\ c5'[j].task = c5[j].task
  <2>1. c5[j] \in T!JobState
    BY DEF T!TasksTypeOK
  <2> QED
    BY <2>1 DEF T!PostDropped, T!TasksTypeOK, T!JobState
<1>2. T!RequestsKeepOrder' /\ T!StartsHoldLock'
  BY <1>1 DEF T!RequestsKeepOrder, T!StartsHoldLock
<1>3. T!MetaIsOwned'
  <2>1. c6' # T!Task => c6 # T!Task
    BY <1>1 DEF T!TasksTypeOK
  <2> QED
    BY <1>1, <2>1 DEF T!MetaIsOwned
<1>4. \A t \in T!Task \ c6' : /\ T!Had(t)' = T!Had(t) /\ T!Started(t)' = T!Started(t)
                              /\ T!Posts(t)' = T!Posts(t)
  BY <1>1 DEF T!Had, T!Started, T!On, T!Posts
<1>5. T!AirIsFollowed'
  BY <1>1, <1>4 DEF T!AirIsFollowed
<1> QED
  BY <1>2, <1>3, <1>5

(* A put of another component tangles everything, and a lock that expires  *)
(* is one that a start need not hold.                                      *)
LEMMA TasksOthersNext ==
  ASSUME T!TasksInvariant, T!OtherRequest \/ \E t \in T!Task : T!LockExpires(t)
  PROVE  T!RequestsKeepOrder' /\ T!StartsHoldLock' /\ T!MetaIsOwned' /\ T!AirIsFollowed'
<1> USE DEF T!TasksInvariant
<1>1. CASE T!OtherRequest
  <2>1. UNCHANGED <<c1, c3, c4, c5, c7>> /\ c2'.there = c2.there /\ c6' = T!Task
    BY <1>1 DEF T!OtherRequest, T!TasksTypeOK
  <2>2. T!RequestsKeepOrder' /\ T!StartsHoldLock'
    BY <2>1 DEF T!RequestsKeepOrder, T!StartsHoldLock
  <2>3. T!MetaIsOwned' /\ T!AirIsFollowed'
    BY <2>1 DEF T!MetaIsOwned, T!AirIsFollowed
  <2> QED
    BY <2>2, <2>3
<1>2. ASSUME NEW t \in T!Task, T!LockExpires(t)
      PROVE  T!RequestsKeepOrder' /\ T!StartsHoldLock' /\ T!MetaIsOwned' /\ T!AirIsFollowed'
  <2>1. /\ UNCHANGED <<c1, c2, c4, c5, c6>>
        /\ c7' = c7 \cup {t} /\ c3' = [c3 EXCEPT ![t] = None]
    BY <1>2 DEF T!LockExpires
  <2>2. T!RequestsKeepOrder' /\ T!MetaIsOwned' /\ T!AirIsFollowed'
    BY <2>1 DEF T!RequestsKeepOrder, T!MetaIsOwned, T!AirIsFollowed, T!Had, T!Started, T!On,
                T!Posts
  <2>3. T!StartsHoldLock'
    <3>1. \A s \in T!Task : s # t => c3'[s] = c3[s]
      BY <2>1 DEF T!TasksTypeOK
    <3> QED
      BY <2>1, <3>1, TasksWorker DEF T!StartsHoldLock
  <2> QED
    BY <2>2, <2>3
<1> QED
  BY <1>1, <1>2

(* A post is handled: another post about the same task tangles it.         *)
LEMMA TasksPostNext ==
  ASSUME T!TasksInvariant, NEW w \in Handler, NEW j \in Thing,
         T!PostStarted(w, j) \/ T!PostEnded(w, j)
  PROVE  T!RequestsKeepOrder' /\ T!StartsHoldLock' /\ T!MetaIsOwned' /\ T!AirIsFollowed'
<1> USE DEF T!TasksInvariant
<1> DEFINE s == c5[j].task
<1>1. c5[j] \in T!JobState /\ s \in T!Task
  BY DEF T!TasksTypeOK, T!JobState
<1>2. PICK does \in {"started", "ended"} :
        /\ does = "started" => c5[j].at = "taken" /\ c5' = [c5 EXCEPT ![j].at = "started"]
        /\ does = "ended" => /\ c5[j].at \in {"started", "ending", "lost"}
                             /\ c5' = [c5 EXCEPT ![j].at = "over"]
        /\ T!Receive(w, j, does)
  BY DEF T!PostStarted, T!PostEnded
<1>3. /\ UNCHANGED <<c1, c2, c3, c7>> /\ c4[w].at = "free"
      /\ c4'[w].at = "setRow" /\ c4'[w].does = does /\ c4'[w].task = s
      /\ \A v \in Handler : v # w => c4'[v] = c4[v]
      /\ c6' = c6 \cup (IF T!Posts(s) # {} THEN {s} ELSE {})
  <2>1. [T!Free EXCEPT !.at = "setRow", !.does = does, !.task = s, !.job = {j}]
          \in T!WorkerState
    BY <1>1 DEF T!WorkerState, T!Free, T!NoMeta, T!Meta
  <2>2. T!Put(w, [T!Free EXCEPT !.at = "setRow", !.does = does, !.task = s, !.job = {j}])
    BY <1>2 DEF T!Receive
  <2>3. /\ c4'[w] = [T!Free EXCEPT !.at = "setRow", !.does = does, !.task = s, !.job = {j}]
        /\ \A v \in Handler : v # w => c4'[v] = c4[v]
    BY <2>1, <2>2, TasksPut
  <2>4. /\ c4[w].at = "free"
        /\ c6' = c6 \cup (IF T!Posts(s) # {} THEN {s} ELSE {})
    BY <1>2 DEF T!Receive
  <2>5. UNCHANGED <<c1, c2, c3, c7>>
    BY DEF T!PostStarted, T!PostEnded
  <2> QED
    BY <2>3, <2>4, <2>5 DEF T!Free
<1>4. T!RequestsKeepOrder'
  BY <1>3 DEF T!RequestsKeepOrder
<1>5. T!StartsHoldLock'
  BY <1>3 DEF T!StartsHoldLock
<1>6. T!MetaIsOwned'
  <2>1. c6' # T!Task => c6 # T!Task
    BY <1>1, <1>3 DEF T!TasksTypeOK
  <2> QED
    BY <1>3, <2>1 DEF T!MetaIsOwned, T!Putting
<1>7. T!AirIsFollowed'
  <2>1. \A k \in Thing : c5'[k].task = c5[k].task /\ (k # j => c5'[k] = c5[k])
    BY <1>2 DEF T!TasksTypeOK, T!JobState
  <2>2. c5'[j].at = IF does = "started" THEN "started" ELSE "over"
    BY <1>1, <1>2 DEF T!TasksTypeOK, T!JobState
  <2>3. \A t \in T!Task : T!Had(t)' \subseteq T!Had(t)
    BY <1>2, <2>1, <2>2 DEF T!Had
  <2>4. ASSUME NEW t \in T!Task, t # s
        PROVE  /\ T!Started(t)' = T!Started(t)
               /\ T!Posts(t)' = T!Posts(t)
               /\ \A v \in T!Posts(t) : c4'[v] = c4[v]
    BY <1>3, <2>1, <2>4 DEF T!Started, T!On, T!Posts
  <2>5. ASSUME s \notin c6'
        PROVE  /\ T!Posts(s)' = {w}
               /\ does = "started" <=> T!Started(s)' # {}
    <3>1. T!Posts(s) = {}
      BY <1>3, <2>5
    <3>2. s' = s
      BY <1>1, <2>1
    <3>3. \A v \in Handler : (v \in T!Posts(s))' <=> v = w
      BY <1>2, <1>3, <3>1, <3>2 DEF T!Posts
    <3>4. T!Posts(s)' = {w}
      BY <3>3 DEF T!Posts
    <3>5. CASE does = "started"
      <4>1. (j \in T!Started(s))'
        BY <2>2, <3>2, <3>5 DEF T!Started, T!On
      <4> QED
        BY <3>4, <3>5, <4>1
    <3>6. CASE does = "ended"
      <4>1. s \notin c6 /\ j \in T!Had(s)
        BY <1>2, <1>3, <2>5, <3>6 DEF T!Had
      <4>2. \A k \in T!Had(s) : k = j
        BY <1>1, <4>1 DEF T!AirIsFollowed
      <4>3. \A k \in Thing : k \notin T!Started(s)'
        BY <2>1, <2>2, <3>2, <3>6, <4>2 DEF T!Started, T!On, T!Had
      <4>4. T!Started(s)' = {}
        BY <4>3 DEF T!Started, T!On
      <4> QED
        BY <3>4, <3>6, <4>4
    <3> QED
      BY <3>5, <3>6
  <2> SUFFICES ASSUME NEW t \in T!Task, t \notin c6'
               PROVE  /\ \A i, k \in T!Had(t)' : i = k
                      /\ \A u, v \in T!Posts(t)' : u = v
                      /\ \A v \in T!Posts(t)' : c4'[v].does = "started" <=> T!Started(t)' # {}
                      /\ (\A v \in T!Posts(t)' : c4'[v].at # "setRow") =>
                            /\ t \in c1.active => T!Started(t)' # {}
                            /\ c1.running /\ T!Started(t)' # {} => t \in c1.active
                      /\ c1.running /\ T!Posts(t)' = {} =>
                            (t \in c2.meta.active <=> T!Started(t)' # {})
    BY <1>3 DEF T!AirIsFollowed
  <2>6. t \notin c6 /\ T!Had(t)' \subseteq T!Had(t)
    BY <1>3, <2>3
  <2>7. CASE t # s
    BY <2>4, <2>6, <2>7 DEF T!AirIsFollowed
  <2>8. CASE t = s
    <3>1. s' = s
      BY <1>1, <2>1
    <3>2. /\ T!Posts(t)' = {w}
          /\ does = "started" <=> T!Started(t)' # {}
      BY <2>5, <2>8, <3>1
    <3>3. \A i, k \in T!Had(t)' : i = k
      BY <2>6 DEF T!AirIsFollowed
    <3> QED
      BY <1>3, <3>2, <3>3
  <2> QED
    BY <2>7, <2>8
<1> QED
  BY <1>4, <1>5, <1>6, <1>7

(* The row follows the post that sets it, or its task is tangled.          *)
LEMMA TasksRowNext ==
  ASSUME T!TasksInvariant, NEW w \in Handler, T!SetRow(w) \/ T!RowFails(w)
  PROVE  T!RequestsKeepOrder' /\ T!StartsHoldLock' /\ T!MetaIsOwned' /\ T!AirIsFollowed'
<1> USE DEF T!TasksInvariant
<1> DEFINE s == c4[w].task
<1>1. /\ UNCHANGED <<c2, c3, c5, c7>> /\ c4[w].at = "setRow"
      /\ c4'[w].at = "readFlag" /\ c4'[w].does = c4[w].does /\ c4'[w].task = s
      /\ \A v \in Handler : v # w => c4'[v] = c4[v]
      /\ c1'.running = c1.running
      /\ \/ c1'.active = T!Flagged(w, c1.active) /\ c6' = c6
         \/ c1'.active = c1.active /\ c6' = c6 \cup {s}
  BY TasksGoto DEF T!SetRow, T!RowFails, T!Reading, T!TasksTypeOK
<1>2. c4[w].does \in {"started", "ended"} /\ s \in T!Task
  BY <1>1, TasksWorker DEF T!RequestsKeepOrder
<1>3. T!RequestsKeepOrder'
  BY <1>1, <1>2 DEF T!RequestsKeepOrder
<1>4. T!StartsHoldLock'
  BY <1>1, <1>2 DEF T!StartsHoldLock
<1>5. T!MetaIsOwned'
  <2>1. c6' # T!Task => c6 # T!Task
    BY <1>1, <1>2 DEF T!TasksTypeOK
  <2> QED
    BY <1>1, <2>1 DEF T!MetaIsOwned, T!Putting
<1>6. \A t \in T!Task : T!Had(t)' = T!Had(t) /\ T!Started(t)' = T!Started(t)
  BY <1>1 DEF T!Had, T!Started, T!On
<1>7. \A t \in T!Task : T!Posts(t)' = T!Posts(t)
  BY <1>1 DEF T!Posts
<1>8. \A t \in T!Task : t # s => /\ \A v \in T!Posts(t) : c4'[v] = c4[v]
                                 /\ t \in c1'.active <=> t \in c1.active
  BY <1>1 DEF T!Posts, T!Flagged
<1>9. w \in T!Posts(s) /\ (s \notin c6' => (s \in c1'.active <=> c4[w].does = "started"))
  BY <1>1, <1>2 DEF T!Posts, T!Flagged
<1>10. T!AirIsFollowed'
  <2> SUFFICES ASSUME NEW t \in T!Task, t \notin c6, t \notin c6'
               PROVE  /\ \A i, k \in T!Had(t) : i = k
                      /\ \A u, v \in T!Posts(t) : u = v
                      /\ \A v \in T!Posts(t) : c4'[v].does = "started" <=> T!Started(t) # {}
                      /\ (\A v \in T!Posts(t) : c4'[v].at # "setRow") =>
                            /\ t \in c1'.active => T!Started(t) # {}
                            /\ c1.running /\ T!Started(t) # {} => t \in c1'.active
                      /\ c1.running /\ T!Posts(t) = {} =>
                            (t \in c2.meta.active <=> T!Started(t) # {})
    BY <1>1, <1>6, <1>7 DEF T!AirIsFollowed
  <2>1. CASE t # s
    BY <1>8, <2>1 DEF T!AirIsFollowed
  <2>2. CASE t = s
    <3>1. \A v \in T!Posts(t) : v = w
      BY <1>9, <2>2 DEF T!AirIsFollowed
    <3>2. c4[w].does = "started" <=> T!Started(t) # {}
      BY <1>9, <2>2 DEF T!AirIsFollowed
    <3> QED
      BY <1>1, <1>9, <2>2, <3>1, <3>2 DEF T!AirIsFollowed
  <2> QED
    BY <2>1, <2>2
<1> QED
  BY <1>3, <1>4, <1>5, <1>10

(* The session ends: the flags go with the row, later the metadata with    *)
(* the bucket.                                                             *)
LEMMA TasksEndNext ==
  ASSUME T!TasksInvariant, NEW w \in Handler, T!CloseRow(w) \/ T!Cleanup(w)
  PROVE  T!RequestsKeepOrder' /\ T!StartsHoldLock' /\ T!MetaIsOwned' /\ T!AirIsFollowed'
<1> USE DEF T!TasksInvariant
<1>1. /\ UNCHANGED <<c3, c5, c6, c7>> /\ ~c1'.running
      /\ \A v \in Handler : v # w => c4'[v] = c4[v]
      /\ c4[w].at = "free" \/ c4[w].does \notin {"started", "ended"}
      /\ c4'[w].does # "start" \/ c4'[w].at = "free"
      /\ c4'[w].at = "free" \/ (c4'[w].at = "send" /\ c4'[w].does = "end")
      /\ c1'.active = {} \/ c1'.active = c1.active
      /\ ~c2'.there \/ c2' = c2
  <2>1. CASE T!CloseRow(w)
    <3>1. [T!Free EXCEPT !.at = "send", !.does = "end"] \in T!WorkerState
      BY DEF T!WorkerState, T!Free, T!NoMeta, T!Meta, T!Task
    <3>2. /\ c4'[w] = [T!Free EXCEPT !.at = "send", !.does = "end"]
          /\ \A v \in Handler : v # w => c4'[v] = c4[v]
      BY <2>1, <3>1, TasksPut DEF T!CloseRow
    <3> QED
      BY <2>1, <3>2 DEF T!CloseRow, T!Free
  <2>2. CASE T!Cleanup(w)
    <3>1. c4'[w] = T!Free /\ \A v \in Handler : v # w => c4'[v] = c4[v]
      BY <2>2, TasksPut, TasksWorker DEF T!Cleanup
    <3>2. c4[w].does = "end" /\ ~c1.running
      BY <2>2 DEF T!Cleanup, T!RequestsKeepOrder
    <3> QED
      BY <2>2, <3>1, <3>2 DEF T!Cleanup, T!Free
  <2> QED
    BY <2>1, <2>2
<1>2. T!RequestsKeepOrder'
  BY <1>1 DEF T!RequestsKeepOrder
<1>3. T!StartsHoldLock'
  BY <1>1 DEF T!StartsHoldLock
<1>4. T!MetaIsOwned'
  BY <1>1 DEF T!MetaIsOwned, T!Putting
<1>5. \A t \in T!Task : T!Had(t)' = T!Had(t) /\ T!Started(t)' = T!Started(t)
  BY <1>1 DEF T!Had, T!Started, T!On
<1>6. /\ \A t \in T!Task : T!Posts(t)' = T!Posts(t)
      /\ \A t \in T!Task : \A v \in T!Posts(t) : c4'[v] = c4[v]
  BY <1>1, TasksNoPost
<1>7. T!AirIsFollowed'
  <2> SUFFICES ASSUME NEW t \in T!Task, t \notin c6
               PROVE  /\ \A i, k \in T!Had(t) : i = k
                      /\ \A u, v \in T!Posts(t) : u = v
                      /\ \A v \in T!Posts(t) : c4'[v].does = "started" <=> T!Started(t) # {}
                      /\ (\A v \in T!Posts(t) : c4'[v].at # "setRow") =>
                            (t \in c1'.active => T!Started(t) # {})
    BY <1>1, <1>5, <1>6 DEF T!AirIsFollowed
  <2> QED
    BY <1>1, <1>6 DEF T!AirIsFollowed
<1> QED
  BY <1>2, <1>3, <1>4, <1>7

LEMMA TasksNextKeeps ==
  T!TasksInvariant /\ [T!TasksNext]_(T!taskVars) => T!TasksInvariant'
<1> SUFFICES ASSUME T!TasksInvariant, [T!TasksNext]_(T!taskVars)
             PROVE  T!TasksInvariant'
  OBVIOUS
<1>1. CASE T!TasksNext
  <2>1. T!TasksTypeOK'
    BY <1>1, TasksTypeNext DEF T!TasksInvariant
  <2>2. T!RequestsKeepOrder' /\ T!StartsHoldLock' /\ T!MetaIsOwned' /\ T!AirIsFollowed'
    BY <1>1, TasksRequestNext, TasksSendNext, TasksReadNext, TasksPutNext, TasksFailsNext,
       TasksPostNext, TasksDroppedNext, TasksRowNext, TasksEndNext, TasksOthersNext
       DEF T!TasksNext, T!WorkerStep
  <2> QED
    BY <2>1, <2>2 DEF T!TasksInvariant
<1>2. CASE UNCHANGED T!taskVars
  BY <1>2 DEF T!taskVars, T!TasksInvariant, T!TasksTypeOK, T!RequestsKeepOrder,
              T!StartsHoldLock, T!MetaIsOwned, T!AirIsFollowed, T!Had, T!Started, T!On, T!Posts
<1> QED
  BY <1>1, <1>2

LEMMA TasksHolds == T!TasksInvariant => T!OneStartAtATime /\ T!AirAgrees
<1> SUFFICES ASSUME T!TasksInvariant
             PROVE  T!OneStartAtATime /\ T!AirAgrees
  OBVIOUS
<1>1. T!OneStartAtATime
  BY DEF T!OneStartAtATime, T!TasksInvariant, T!StartsHoldLock
<1>2. T!AirAgrees
  <2> SUFFICES ASSUME \A w \in Handler : c4[w].at = "free", NEW t \in T!Task \ c6
               PROVE  /\ c1.running => (t \in c1.active) = (T!Started(t) # {})
                      /\ c1.running => (t \in c2.meta.active) = (T!Started(t) # {})
                      /\ ~c1.running /\ T!On(t) = {} => t \notin c1.active
    BY DEF T!AirAgrees
  <2>1. T!Posts(t) = {}
    BY DEF T!Posts
  <2>2. /\ t \in c1.active => T!Started(t) # {}
        /\ c1.running /\ T!Started(t) # {} => t \in c1.active
        /\ c1.running => (t \in c2.meta.active <=> T!Started(t) # {})
    BY <2>1 DEF T!TasksInvariant, T!AirIsFollowed
  <2>3. T!On(t) = {} => T!Started(t) = {}
    BY DEF T!Started
  <2> QED
    BY <2>2, <2>3
<1> QED
  BY <1>1, <1>2

(* At any time at most one start of a task is past its lock, as long as    *)
(* the lock has not expired, and whenever nothing is being handled the     *)
(* row, the metadata and the recorder agree on what is on the air, but for *)
(* a task that two recorders had, of which an event was lost, half done or *)
(* handled beside another, and unless metadata were put that somebody had  *)
(* changed since they were read (recording_dispatch.go,                    *)
(* recording_modify.go, recording_end.go).                                 *)
THEOREM TasksAlwaysAgree == Spec => []TasksAgree
<1> DEFINE Inv == active = "tasks" => T!TasksInvariant
<1>1. Init => Inv
  BY TasksStart DEF Init
<1>2. Inv /\ [Next]_<<active, cells>> => Inv'
  <2> SUFFICES ASSUME Inv, [Next]_<<active, cells>>, active' = "tasks"
               PROVE  T!TasksInvariant'
    OBVIOUS
  <2>1. active = "tasks" /\ [T!TasksNext]_(T!taskVars)
    BY DEF Next, cells, T!taskVars
  <2> QED
    BY <2>1, TasksNextKeeps
<1>3. Inv => TasksAgree
  BY TasksHolds DEF TasksAgree
<1> QED
  BY <1>1, <1>2, <1>3, PTL DEF Spec

-----------------------------------------------------------------------------
(* Recordings: c1 is the policy, c2 the rows, c3 the files, c4 the         *)
(* requests, c5 who holds the merge lock, c6 the message id, c7 the tasks, *)
(* c8 what went astray, c9 the errors.                                     *)

LEMMA RecordingRows ==
  /\ D!NoMeta \in D!Meta
  /\ D!NoRow # D!Deleted /\ D!NoRow \notin D!Meta /\ D!Deleted \notin D!Meta
<1>1. D!NoMeta \in D!Meta
  BY DEF D!NoMeta, D!Meta
<1>2. D!NoRow # D!Deleted
  <2>1. D!NoRow.field = "none" /\ D!Deleted.field = "deleted"
    BY DEF D!NoRow, D!Deleted
  <2> QED
    BY <2>1
<1>3. \A m \in D!Meta : "field" \notin DOMAIN m
  BY DEF D!Meta, D!Field
<1>4. "field" \in DOMAIN D!NoRow /\ "field" \in DOMAIN D!Deleted
  BY DEF D!NoRow, D!Deleted
<1> QED
  BY <1>1, <1>2, <1>3, <1>4

LEMMA RecordingAsked ==
  /\ D!Asked \in D!RequestState
  /\ D!Asked.at = "new" /\ D!Asked.of = {}
  /\ [D!Asked EXCEPT !.at = "over"] \in D!RequestState
  /\ [D!Asked EXCEPT !.at = "over"].at = "over"
  /\ [D!Asked EXCEPT !.at = "over"].of = {}
BY RecordingRows DEF D!Asked, D!RequestState, D!Field

LEMMA RecordingGoto ==
  ASSUME D!RecordingsTypeOK, NEW w \in Handler,
         NEW at \in {"save", "hook", "stat", "remove", "chtimes", "row", "lock", "publish"},
         c4[w].at \notin {"new", "over"}, D!Goto(w, at)
  PROVE  /\ c4' \in [Handler -> D!RequestState]
         /\ c4'[w].at = at /\ c4'[w].of = c4[w].of /\ c4'[w].of # {}
         /\ \A v \in Handler : v # w => c4'[v] = c4[v]
BY DEF D!RecordingsTypeOK, D!Goto, D!RequestState

LEMMA RecordingReturn ==
  ASSUME D!RecordingsTypeOK, NEW w \in Handler, D!Return(w)
  PROVE  /\ c4' \in [Handler -> D!RequestState]
         /\ c4'[w].at = "over" /\ c4'[w].of = {}
         /\ \A v \in Handler : v # w => c4'[v] = c4[v]
BY RecordingAsked DEF D!RecordingsTypeOK, D!Return

(* What a request that begins is about has a row.                          *)
LEMMA RecordingAsk ==
  ASSUME D!RecordingsTypeOK, NEW w \in Handler,
         \/ \E r \in D!Recording : D!AskDelete(w, r) \/ \E f \in D!Field : D!AskUpdate(w, r, f)
         \/ \E of \in SUBSET D!Recording : D!AskMerge(w, of)
  PROVE  /\ UNCHANGED <<c1, c2, c3, c5, c6, c7, c8, c9>> /\ c4[w].at = "new"
         /\ c4' \in [Handler -> D!RequestState]
         /\ c4'[w].at \in {"save", "hook", "stat", "lock"}
         /\ c4'[w].of # {} /\ \A r \in c4'[w].of : c2[r] # D!NoRow
         /\ \A v \in Handler : v # w => c4'[v] = c4[v]
<1> USE DEF D!RecordingsTypeOK
<1>1. ASSUME NEW r \in D!Recording, D!AskDelete(w, r)
      PROVE  /\ c4' \in [Handler -> D!RequestState]
             /\ c4'[w].at \in {"hook", "stat"} /\ c4'[w].of = {r} /\ D!HasRow(r)
  <2> DEFINE n == [D!Asked EXCEPT !.does = "delete", !.of = {r},
                                  !.at = IF c1 = "hook" THEN "hook" ELSE "stat"]
  <2>1. n \in D!RequestState /\ n.at \in {"hook", "stat"} /\ n.of = {r}
    BY RecordingAsked DEF D!RequestState
  <2>2. c4' = [c4 EXCEPT ![w] = n] /\ D!HasRow(r)
    BY <1>1 DEF D!AskDelete
  <2> HIDE DEF n
  <2> QED
    BY <2>1, <2>2
<1>2. ASSUME NEW r \in D!Recording, NEW f \in D!Field, D!AskUpdate(w, r, f)
      PROVE  /\ c4' \in [Handler -> D!RequestState]
             /\ c4'[w].at = "save" /\ c4'[w].of = {r} /\ D!HasRow(r)
  <2> DEFINE n == [at |-> "save", does |-> "update", of |-> {r}, field |-> f, meta |-> c2[r]]
  <2>1. c4' = [c4 EXCEPT ![w] = n] /\ D!HasRow(r)
    BY <1>2 DEF D!AskUpdate
  <2>2. c2[r] \in D!Meta
    BY <2>1 DEF D!HasRow
  <2>3. n \in D!RequestState /\ n.at = "save" /\ n.of = {r}
    BY <2>2 DEF D!RequestState
  <2> HIDE DEF n
  <2> QED
    BY <2>1, <2>3
<1>3. ASSUME NEW of \in SUBSET D!Recording, D!AskMerge(w, of)
      PROVE  /\ c4' \in [Handler -> D!RequestState]
             /\ c4'[w].at = "lock" /\ c4'[w].of = of /\ of # {} /\ \A r \in of : D!HasRow(r)
  <2> DEFINE n == [D!Asked EXCEPT !.at = "lock", !.does = "merge", !.of = of]
  <2>1. n \in D!RequestState /\ n.at = "lock" /\ n.of = of
    BY RecordingAsked DEF D!RequestState
  <2>2. c4' = [c4 EXCEPT ![w] = n] /\ of # {} /\ \A r \in of : D!HasRow(r)
    BY <1>3 DEF D!AskMerge
  <2> HIDE DEF n
  <2> QED
    BY <2>1, <2>2
<1>4. /\ UNCHANGED <<c1, c2, c3, c5, c6, c7, c8, c9>> /\ c4[w].at = "new"
      /\ \A v \in Handler : v # w => c4'[v] = c4[v]
  BY DEF D!AskDelete, D!AskUpdate, D!AskMerge
<1>5. CASE \E r \in D!Recording : D!AskDelete(w, r)
  BY <1>1, <1>4, <1>5 DEF D!HasRow
<1>6. CASE \E r \in D!Recording : \E f \in D!Field : D!AskUpdate(w, r, f)
  <2>1. PICK r \in D!Recording : \E f \in D!Field : D!AskUpdate(w, r, f)
    BY <1>6
  <2>2. /\ c4' \in [Handler -> D!RequestState]
        /\ c4'[w].at = "save" /\ c4'[w].of = {r} /\ D!HasRow(r)
    BY <1>2, <2>1
  <2> QED
    BY <1>4, <2>2 DEF D!HasRow
<1>7. CASE \E of \in SUBSET D!Recording : D!AskMerge(w, of)
  BY <1>3, <1>4, <1>7 DEF D!HasRow
<1> QED
  BY <1>5, <1>6, <1>7

LEMMA RecordingTypeNext ==
  ASSUME D!RecordingsTypeOK, D!RecordingsNext
  PROVE  D!RecordingsTypeOK'
<1> USE DEF D!RecordingsTypeOK
<1>1. CASE D!ForgetMsgId
  BY <1>1 DEF D!ForgetMsgId
<1>2. ASSUME NEW r \in D!Recording, D!Proceeded(r) \/ D!CheckDelRecordingBackupPath(r)
      PROVE  D!RecordingsTypeOK'
  BY <1>2, RecordingRows DEF D!Proceeded, D!Insert, D!CheckDelRecordingBackupPath
<1>3. ASSUME NEW w \in Handler,
             \/ \E r \in D!Recording : D!AskDelete(w, r) \/ \E f \in D!Field : D!AskUpdate(w, r, f)
             \/ \E of \in SUBSET D!Recording : D!AskMerge(w, of)
      PROVE  D!RecordingsTypeOK'
  BY <1>3, RecordingAsk
<1>4. ASSUME NEW w \in Handler, D!Save(w)
      PROVE  D!RecordingsTypeOK'
  <2>1. PICK r \in c4[w].of :
          /\ D!At(w, "save", "update")
          /\ c2' = IF D!HasRow(r)
                   THEN [c2 EXCEPT ![r] = [c4[w].meta EXCEPT ![c4[w].field] = w]] ELSE c2
    BY <1>4 DEF D!Save
  <2>2. [c4[w].meta EXCEPT ![c4[w].field] = w] \in D!Meta
    BY DEF D!RequestState, D!Meta
  <2>3. c2' \in [D!Recording -> D!Meta \cup {D!NoRow, D!Deleted}]
    BY <2>1, <2>2
  <2>4. D!Return(w) /\ UNCHANGED <<c1, c3, c5, c6, c7, c8, c9>>
    BY <1>4 DEF D!Save
  <2> QED
    BY <2>3, <2>4, RecordingReturn
<1>5. ASSUME NEW w \in Handler,
             D!RunDeleteHook(w) \/ D!Stat(w) \/ D!Remove(w) \/ D!Chtimes(w) \/ D!DeleteRow(w)
      PROVE  D!RecordingsTypeOK'
  <2>1. /\ c3' \in [D!Recording -> {"none", "there", "moved", "backup"}]
        /\ UNCHANGED <<c1, c5, c6, c7, c8>>
    BY <1>5 DEF D!RunDeleteHook, D!Stat, D!Remove, D!Chtimes, D!DeleteRow
  <2>2. c2' \in [D!Recording -> D!Meta \cup {D!NoRow, D!Deleted}] /\ c9' \in 0 .. MaxErrors
    BY <1>5, ServicesAssumption
       DEF D!RunDeleteHook, D!Stat, D!Remove, D!Chtimes, D!DeleteRow, ServicesAssumption
  <2>3. /\ c4[w].at \notin {"new", "over"}
        /\ \/ D!Return(w)
           \/ D!Goto(w, "row") \/ D!Goto(w, "remove") \/ D!Goto(w, "chtimes")
    BY <1>5 DEF D!RunDeleteHook, D!Stat, D!Remove, D!Chtimes, D!DeleteRow
  <2> QED
    BY <2>1, <2>2, <2>3, RecordingReturn, RecordingGoto
<1>6. ASSUME NEW w \in Handler, D!TryLock(w) \/ D!RefuseMerge(w) \/ D!Publish(w) \/ D!Crash(w)
      PROVE  D!RecordingsTypeOK'
  <2>1. /\ UNCHANGED <<c1, c2, c3, c9>> /\ c6' \in BOOLEAN
        /\ c5' \in Handler \cup {None} /\ c8' \subseteq {"task", "lock"}
        /\ c7' \in [Handler -> {"none", "queued", "made", "failed", "over"}]
    BY <1>6 DEF D!TryLock, D!RefuseMerge, D!Publish, D!Crash, D!Fail, D!Unlock, D!LeaveLock
  <2>2. c4[w].at \notin {"new", "over"} /\ (D!Return(w) \/ D!Goto(w, "publish"))
    BY <1>6 DEF D!TryLock, D!RefuseMerge, D!Publish, D!Crash, D!Fail
  <2> QED
    BY <2>1, <2>2, RecordingReturn, RecordingGoto
<1>7. ASSUME NEW w \in Handler, D!Transcode(w) \/ D!TranscodingFails(w) \/ D!TranscodingFinished(w)
      PROVE  D!RecordingsTypeOK'
  <2>1. w \in D!Recording
    BY DEF D!Recording
  <2> QED
    BY <1>7, <2>1, RecordingRows
       DEF D!Transcode, D!Insert, D!TranscodingFails, D!TranscodingFinished, D!DeleteLock,
           D!LeaveLock
<1>8. CASE D!OtherFinished
  BY <1>8 DEF D!OtherFinished, D!DeleteLock
<1> QED
  BY <1>1, <1>2, <1>3, <1>4, <1>5, <1>6, <1>7, <1>8 DEF D!RecordingsNext

(* The rows: none but the transcoder inserts the row of a merged           *)
(* recording, and none comes back.                                         *)
LEMMA RecordingRowNext ==
  ASSUME D!RecordingsInvariant, D!RecordingsNext
  PROVE  /\ \A r \in D!Recording : c2[r] # D!NoRow => c2'[r] # D!NoRow
         /\ \A r \in D!Recording : c2[r] = D!Deleted => c2'[r] = D!Deleted
         /\ \A w \in Handler : c2[w] = D!NoRow /\ c2'[w] # D!NoRow =>
              c7[w] = "queued" /\ c7'[w] = "made"
<1> USE DEF D!RecordingsInvariant
<1> DEFINE Kept ==
      /\ \A r \in D!Recording : c2[r] # D!NoRow => c2'[r] # D!NoRow
      /\ \A r \in D!Recording : c2[r] = D!Deleted => c2'[r] = D!Deleted
      /\ \A w \in Handler : c2[w] = D!NoRow /\ c2'[w] # D!NoRow =>
           c7[w] = "queued" /\ c7'[w] = "made"
<1>1. c2 \in [D!Recording -> D!Meta \cup {D!NoRow, D!Deleted}]
  BY DEF D!RecordingsTypeOK
<1>2. CASE c2' = c2
  BY <1>2
<1>3. ASSUME NEW r \in D!Recording, D!Proceeded(r)
      PROVE  Kept
  <2>1. r \notin Handler /\ c2[r] = D!NoRow /\ c2' = [c2 EXCEPT ![r] = D!NoMeta]
    BY <1>3, ServicesAssumption DEF D!Proceeded, D!Insert, ServicesAssumption
  <2>2. D!NoMeta # D!NoRow
    BY RecordingRows
  <2> QED
    BY <1>1, <2>1, <2>2, RecordingRows
<1>4. ASSUME NEW w \in Handler, D!Save(w)
      PROVE  Kept
  <2>1. PICK r \in c4[w].of :
          c2' = IF D!HasRow(r)
                THEN [c2 EXCEPT ![r] = [c4[w].meta EXCEPT ![c4[w].field] = w]] ELSE c2
    BY <1>4 DEF D!Save
  <2>2. [c4[w].meta EXCEPT ![c4[w].field] = w] \in D!Meta
    BY DEF D!RecordingsTypeOK, D!RequestState, D!Meta
  <2>3. [c4[w].meta EXCEPT ![c4[w].field] = w] # D!NoRow
    BY <2>2, RecordingRows
  <2>4. CASE D!HasRow(r)
    BY <1>1, <2>1, <2>3, <2>4 DEF D!HasRow
  <2> QED
    BY <1>2, <2>1, <2>4
<1>5. ASSUME NEW w \in Handler, D!DeleteRow(w)
      PROVE  Kept
  <2>1. PICK r \in c4[w].of : c2' = [c2 EXCEPT ![r] = D!Deleted] \/ c2' = c2
    BY <1>5 DEF D!DeleteRow
  <2>2. c2[r] # D!NoRow
    BY DEF D!MergesAreFresh
  <2>3. CASE c2' = [c2 EXCEPT ![r] = D!Deleted]
    BY <1>1, <2>2, <2>3, RecordingRows
  <2> QED
    BY <1>2, <2>1, <2>3
<1>6. ASSUME NEW w \in Handler, D!Transcode(w)
      PROVE  Kept
  <2>1. /\ c7[w] = "queued" /\ c7'[w] = "made" /\ w \in D!Recording
        /\ c2' = [c2 EXCEPT ![w] = D!NoMeta]
    BY <1>6 DEF D!Transcode, D!Insert, D!RecordingsTypeOK, D!Recording
  <2>2. c2[w] = D!NoRow
    BY <2>1 DEF D!MergesAreFresh
  <2> QED
    BY <1>1, <2>1, <2>2, RecordingRows
<1>7. \/ c2' = c2
      \/ \E r \in D!Recording : D!Proceeded(r)
      \/ \E w \in Handler : D!Save(w) \/ D!DeleteRow(w) \/ D!Transcode(w)
  BY DEF D!RecordingsNext, D!ForgetMsgId, D!CheckDelRecordingBackupPath, D!AskDelete,
         D!AskUpdate, D!AskMerge, D!RunDeleteHook, D!Stat, D!Remove, D!Chtimes, D!TryLock,
         D!RefuseMerge, D!Publish, D!Crash, D!TranscodingFails, D!TranscodingFinished,
         D!OtherFinished
<1> HIDE DEF Kept
<1>8. Kept
  BY <1>2, <1>3, <1>4, <1>5, <1>6, <1>7 DEF Kept
<1> QED
  BY <1>8 DEF Kept

(* What the merge rests on, after the type.                                *)
RecordingRest == D!MergeLockHasTask /\ D!MergesAreFresh /\ D!MergeIsCovered

(* Most steps of a request are not about the merge.                        *)
LEMMA RecordingApart ==
  ASSUME D!RecordingsInvariant, D!RecordingsNext, NEW w \in Handler,
         UNCHANGED <<c5, c6, c7, c8>>, \A v \in Handler : v # w => c4'[v] = c4[v],
         \/ c4'[w] = c4[w]
         \/ /\ c4[w].at \notin {"publish", "over"} /\ c4'[w].at # "publish"
            /\ \A r \in c4'[w].of : c2[r] # D!NoRow
  PROVE  RecordingRest'
<1> USE DEF D!RecordingsInvariant
<1>1. D!Pending' = D!Pending
  BY DEF D!Pending
<1>2. D!MergeLockHasTask'
  <2>1. D!Merging' = D!Merging
    BY <1>1 DEF D!Merging
  <2> QED
    BY <2>1 DEF D!MergeLockHasTask
<1>3. D!MergesAreFresh'
  <2>1. \A v \in Handler : \A r \in c4'[v].of : c2'[r] # D!NoRow
    <3>1. \A v \in Handler : \A r \in c4'[v].of : c2[r] # D!NoRow /\ r \in D!Recording
      <4>1. \A v \in Handler : c4'[v].of \subseteq D!Recording
        BY RecordingTypeNext DEF D!RecordingsTypeOK, D!RequestState
      <4> QED
        BY <4>1 DEF D!MergesAreFresh
    <3> QED
      BY <3>1, RecordingRowNext
  <2>2. \A v \in Handler : /\ c4'[v].at # "over" => c7'[v] = "none"
                           /\ c7'[v] \in {"none", "queued"} => c2'[v] = D!NoRow
    BY RecordingRowNext DEF D!MergesAreFresh
  <2> QED
    BY <2>1, <2>2 DEF D!MergesAreFresh
<1>4. D!MergeIsCovered'
  BY <1>1 DEF D!MergeIsCovered
<1> QED
  BY <1>2, <1>3, <1>4 DEF RecordingRest

LEMMA RecordingOthersNext ==
  ASSUME D!RecordingsInvariant, D!RecordingsNext,
         \/ \E r \in D!Recording : D!Proceeded(r) \/ D!CheckDelRecordingBackupPath(r)
         \/ \E w \in Handler :
               \/ \E r \in D!Recording :
                     D!AskDelete(w, r) \/ \E f \in D!Field : D!AskUpdate(w, r, f)
               \/ \E of \in SUBSET D!Recording : D!AskMerge(w, of)
               \/ D!Save(w) \/ D!RunDeleteHook(w) \/ D!Stat(w) \/ D!Remove(w) \/ D!Chtimes(w)
               \/ D!DeleteRow(w)
  PROVE  RecordingRest'
<1> USE DEF D!RecordingsInvariant
<1>1. ASSUME UNCHANGED <<c4, c5, c6, c7, c8>>
      PROVE  RecordingRest'
  <2>1. CASE Handler = {}
    BY <1>1, <2>1 DEF RecordingRest, D!MergeLockHasTask, D!MergesAreFresh, D!MergeIsCovered,
                      D!Pending, D!Merging
  <2>2. CASE Handler # {}
    BY <1>1, <2>2, RecordingApart
  <2> QED
    BY <2>1, <2>2
<1>2. ASSUME NEW w \in Handler,
             \/ \E r \in D!Recording :
                   D!AskDelete(w, r) \/ \E f \in D!Field : D!AskUpdate(w, r, f)
             \/ \E of \in SUBSET D!Recording : D!AskMerge(w, of)
      PROVE  RecordingRest'
  BY <1>2, RecordingAsk, RecordingApart
<1>3. ASSUME NEW w \in Handler,
             \/ D!Save(w) \/ D!RunDeleteHook(w) \/ D!Stat(w) \/ D!Remove(w) \/ D!Chtimes(w)
             \/ D!DeleteRow(w)
      PROVE  RecordingRest'
  <2>1. /\ UNCHANGED <<c5, c6, c7, c8>>
        /\ c4[w].at \in {"save", "hook", "stat", "remove", "chtimes", "row"}
        /\ \/ D!Return(w)
           \/ D!Goto(w, "row") \/ D!Goto(w, "remove") \/ D!Goto(w, "chtimes")
    BY <1>3 DEF D!Save, D!At, D!RunDeleteHook, D!Stat, D!Remove, D!Chtimes, D!DeleteRow
  <2>2. CASE D!Return(w)
    BY <2>1, <2>2, RecordingReturn, RecordingApart
  <2>3. CASE D!Goto(w, "row") \/ D!Goto(w, "remove") \/ D!Goto(w, "chtimes")
    <3>1. /\ c4'[w].at # "publish" /\ c4'[w].of = c4[w].of
          /\ \A v \in Handler : v # w => c4'[v] = c4[v]
      BY <2>1, <2>3, RecordingGoto
    <3>2. \A r \in c4'[w].of : c2[r] # D!NoRow
      BY <3>1 DEF D!MergesAreFresh
    <3> QED
      BY <2>1, <3>1, <3>2, RecordingApart
  <2> QED
    BY <2>1, <2>2, <2>3
<1>4. CASE \E r \in D!Recording : D!Proceeded(r) \/ D!CheckDelRecordingBackupPath(r)
  BY <1>1, <1>4 DEF D!Proceeded, D!CheckDelRecordingBackupPath
<1> QED
  BY <1>2, <1>3, <1>4

(* A merge takes the lock, fails, or publishes its task; any request may   *)
(* crash.                                                                  *)
LEMMA RecordingMergeNext ==
  ASSUME D!RecordingsInvariant, D!RecordingsNext, NEW w \in Handler,
         D!TryLock(w) \/ D!RefuseMerge(w) \/ D!Publish(w) \/ D!Crash(w)
  PROVE  RecordingRest'
<1> USE DEF D!RecordingsInvariant
<1>1. /\ c2' = c2 /\ c4[w].at \notin {"new", "over"} /\ c7[w] = "none"
      /\ w \notin D!Pending /\ D!Pending \subseteq Handler
  BY DEF D!TryLock, D!RefuseMerge, D!Publish, D!Crash, D!MergesAreFresh, D!Pending
<1>2. c5 \in Handler \cup {None} /\ c7 \in [Handler -> {"none", "queued", "made", "failed", "over"}]
      /\ c6 \in BOOLEAN /\ None \notin Handler
  BY ServicesAssumption DEF D!RecordingsTypeOK, ServicesAssumption
<1>3. CASE D!TryLock(w) /\ c5 = None
  <2>1. /\ c4[w].at = "lock" /\ c5' = w /\ UNCHANGED <<c6, c7, c8>> /\ D!Goto(w, "publish")
    BY <1>2, <1>3 DEF D!TryLock
  <2>2. /\ c4'[w].at = "publish" /\ c4'[w].of = c4[w].of
        /\ \A v \in Handler : v # w => c4'[v] = c4[v]
    BY <1>1, <2>1, RecordingGoto
  <2>3. D!Pending' = D!Pending
    BY <2>1 DEF D!Pending
  <2>4. D!MergesAreFresh'
    BY <1>1, <2>1, <2>2 DEF D!MergesAreFresh
  <2>5. D!MergeLockHasTask'
    BY <2>1, <2>2 DEF D!MergeLockHasTask, D!Merging
  <2>6. D!MergeIsCovered'
    BY <1>1, <1>2, <1>3, <2>1, <2>2, <2>3 DEF D!MergeIsCovered
  <2> QED
    BY <2>4, <2>5, <2>6 DEF RecordingRest
<1>4. ASSUME D!Return(w), c7' = c7, c6 => c6', c8 \subseteq c8',
             \/ c5' = c5 /\ (c5 = w => "lock" \in c8')
             \/ c5' = c5 /\ c5 # w
             \/ c5' = None /\ c5 = w /\ c4[w].at = "publish",
             "task" \in c8' => "task" \in c8
      PROVE  RecordingRest'
  <2>1. /\ c4'[w].at = "over" /\ c4'[w].of = {}
        /\ \A v \in Handler : v # w => c4'[v] = c4[v]
    BY <1>4, RecordingReturn
  <2>2. D!Pending' = D!Pending
    BY <1>4 DEF D!Pending
  <2>3. D!MergesAreFresh'
    BY <1>1, <1>4, <2>1 DEF D!MergesAreFresh
  <2>4. D!Merging \ {w} \subseteq D!Merging'
    BY <2>1, <2>2 DEF D!Merging
  <2>5. D!MergeLockHasTask'
    BY <1>2, <1>4, <2>4 DEF D!MergeLockHasTask
  <2>6. D!MergeIsCovered'
    BY <1>1, <1>2, <1>4, <2>1, <2>2 DEF D!MergeIsCovered
  <2> QED
    BY <2>3, <2>5, <2>6 DEF RecordingRest
<1>5. CASE /\ c7' = [c7 EXCEPT ![w] = "queued"] /\ ~c6 /\ c6' /\ c4[w].at = "publish"
           /\ D!Return(w) /\ c8' = c8 /\ (c5' = c5 \/ D!Unlock(w))
  <2>1. /\ c4'[w].at = "over" /\ c4'[w].of = {}
        /\ \A v \in Handler : v # w => c4'[v] = c4[v]
    BY <1>5, RecordingReturn
  <2>2. D!Pending' = D!Pending \cup {w}
    BY <1>2, <1>5 DEF D!Pending
  <2>3. D!MergesAreFresh'
    BY <1>1, <1>2, <1>5, <2>1 DEF D!MergesAreFresh
  <2>4. D!Merging \subseteq D!Merging'
    BY <1>1, <2>1, <2>2 DEF D!Merging
  <2>5. D!MergeLockHasTask'
    BY <1>5, <2>4 DEF D!MergeLockHasTask, D!Unlock
  <2>6. D!MergeIsCovered'
    <3>1. "task" \notin c8 => c5 = w /\ D!Pending = {}
      BY <1>1, <1>5 DEF D!MergeIsCovered
    <3>2. "task" \notin c8 => \A v \in Handler : c4'[v].at # "publish"
      BY <2>1, <3>1 DEF D!MergeIsCovered
    <3> QED
      BY <1>1, <1>5, <2>2, <3>1, <3>2 DEF D!MergeIsCovered
  <2> QED
    BY <2>3, <2>5, <2>6 DEF RecordingRest
<1>6. CASE D!TryLock(w) /\ c5 # None
  <2>1. D!Return(w) /\ UNCHANGED <<c5, c6, c7, c8>> /\ c4[w].at = "lock"
    BY <1>6 DEF D!TryLock
  <2>2. c5 = w => "lock" \in c8
    BY <1>1, <1>2, <2>1 DEF D!MergeLockHasTask, D!Merging
  <2> QED
    BY <1>4, <2>1, <2>2
<1>7. ASSUME D!Fail(w), c7' = c7, c6 => c6', c4[w].at = "publish"
      PROVE  RecordingRest'
  BY <1>2, <1>4, <1>7 DEF D!Fail, D!Unlock, D!LeaveLock
<1>8. CASE D!Crash(w)
  <2>1. D!Return(w) /\ D!LeaveLock(w) /\ UNCHANGED <<c6, c7>>
    BY <1>8 DEF D!Crash
  <2> QED
    BY <1>4, <2>1 DEF D!LeaveLock
<1>9. CASE D!RefuseMerge(w)
  BY <1>7, <1>9 DEF D!RefuseMerge
<1>10. CASE D!Publish(w)
  <2>1. CASE c6
    BY <1>7, <1>10, <2>1 DEF D!Publish
  <2>2. CASE ~c6
    BY <1>5, <1>10, <2>2 DEF D!Publish
  <2> QED
    BY <2>1, <2>2
<1> QED
  BY <1>3, <1>6, <1>8, <1>9, <1>10

(* JetStream forgets the message id, the transcoder works a task off, or   *)
(* the lock is freed by an event that is not about it.                     *)
LEMMA RecordingTaskNext ==
  ASSUME D!RecordingsInvariant, D!RecordingsNext,
         \/ D!ForgetMsgId \/ D!OtherFinished
         \/ \E w \in Handler : D!Transcode(w) \/ D!TranscodingFails(w) \/ D!TranscodingFinished(w)
  PROVE  RecordingRest'
<1> USE DEF D!RecordingsInvariant
<1> USE DEF D!ForgetMsgId, D!OtherFinished, D!Transcode, D!TranscodingFails, D!TranscodingFinished
<1>1. /\ c5 \in Handler \cup {None} /\ None \notin Handler
      /\ c7 \in [Handler -> {"none", "queued", "made", "failed", "over"}]
  BY ServicesAssumption DEF D!RecordingsTypeOK, ServicesAssumption
<1>2. c4' = c4 /\ D!Pending \subseteq Handler /\ D!Merging \subseteq Handler
  BY DEF D!Pending, D!Merging
<1>3. \A v \in Handler : \A r \in c4'[v].of : c2'[r] # D!NoRow
  <2>1. \A v \in Handler : \A r \in c4[v].of : c2[r] # D!NoRow /\ r \in D!Recording
    BY DEF D!MergesAreFresh, D!RecordingsTypeOK, D!RequestState
  <2> QED
    BY <1>2, <2>1, RecordingRowNext
<1>4. \A v \in Handler : c7'[v] \in {"none", "queued"} => c7'[v] = c7[v]
  BY <1>1
<1>5. D!MergesAreFresh'
  <2>1. \A v \in Handler : c4'[v].at # "over" => c7'[v] = "none"
    <3>1. \A v \in Handler : c7[v] = "none" => c7'[v] = "none"
      BY <1>1
    <3> QED
      BY <1>2, <3>1 DEF D!MergesAreFresh
  <2>2. \A v \in Handler : c7'[v] \in {"none", "queued"} => c2'[v] = D!NoRow
    BY <1>4, RecordingRowNext DEF D!MergesAreFresh
  <2> QED
    BY <1>3, <2>1, <2>2 DEF D!MergesAreFresh
<1>6. CASE D!ForgetMsgId
  <2>1. /\ UNCHANGED <<c4, c5, c7>> /\ c6' = FALSE /\ D!Pending' = D!Pending
        /\ c8' = IF D!Pending \in {{}, {c5}} THEN c8 ELSE c8 \cup {"task"}
    BY <1>6 DEF D!Pending
  <2>2. D!MergeLockHasTask'
    BY <2>1 DEF D!MergeLockHasTask, D!Merging
  <2>3. D!MergeIsCovered'
    BY <2>1 DEF D!MergeIsCovered
  <2> QED
    BY <1>5, <2>2, <2>3 DEF RecordingRest
<1>7. ASSUME NEW w \in Handler, D!Transcode(w) \/ D!TranscodingFails(w)
      PROVE  RecordingRest'
  <2>1. UNCHANGED <<c4, c5, c6, c8>> /\ D!Pending' = D!Pending
    BY <1>1, <1>7 DEF D!Pending
  <2>2. D!MergeLockHasTask'
    BY <2>1 DEF D!MergeLockHasTask, D!Merging
  <2>3. D!MergeIsCovered'
    BY <2>1 DEF D!MergeIsCovered
  <2> QED
    BY <1>5, <2>2, <2>3 DEF RecordingRest
<1>8. ASSUME NEW done \in SUBSET D!Pending, D!DeleteLock(done), UNCHANGED <<c4, c6>>,
             D!Pending' = D!Pending \ done
      PROVE  RecordingRest'
  <2>1. c5' = None /\ ("task" \in c8' <=> "task" \in c8 \/ c5 \in D!Merging \ done)
    BY <1>8 DEF D!DeleteLock
  <2>2. D!MergeLockHasTask'
    BY <2>1 DEF D!MergeLockHasTask
  <2>3. ASSUME "task" \notin c8'
        PROVE  (\A v \in Handler : c4'[v].at # "publish") /\ \A v, u \in D!Pending' : v = u
    <3>1. \A v \in Handler : c4[v].at = "publish" => v \notin D!Pending
      BY DEF D!Pending, D!MergesAreFresh
    <3>2. \A v \in Handler : c4[v].at # "publish"
      BY <1>8, <2>1, <2>3, <3>1 DEF D!MergeIsCovered, D!Merging
    <3> QED
      BY <1>8, <2>1, <2>3, <3>2 DEF D!MergeIsCovered
  <2>4. "task" \notin c8' /\ ~c6' => D!Pending' = {}
    BY <1>8, <2>1 DEF D!MergeIsCovered, D!Merging
  <2>5. D!MergeIsCovered'
    BY <2>3, <2>4 DEF D!MergeIsCovered
  <2> QED
    BY <1>5, <2>2, <2>5 DEF RecordingRest
<1>9. ASSUME NEW w \in Handler, D!TranscodingFinished(w)
      PROVE  RecordingRest'
  <2>1. /\ UNCHANGED <<c4, c6>>
        /\ D!Pending' = D!Pending \ {w} /\ w \in D!Pending
    BY <1>1, <1>9 DEF D!Pending
  <2>2. CASE D!DeleteLock({w})
    BY <1>8, <2>1, <2>2
  <2>3. CASE D!LeaveLock(w)
    <3>1. /\ c5' = c5 /\ (c5 = w => "lock" \in c8') /\ c8 \subseteq c8'
          /\ "task" \in c8' => "task" \in c8
      BY <2>3 DEF D!LeaveLock
    <3>2. D!Merging \ {w} \subseteq D!Merging'
      BY <2>1 DEF D!Merging
    <3>3. D!MergeLockHasTask'
      BY <3>1, <3>2 DEF D!MergeLockHasTask
    <3>4. D!MergeIsCovered'
      BY <2>1, <3>1 DEF D!MergeIsCovered
    <3> QED
      BY <1>5, <3>3, <3>4 DEF RecordingRest
  <2> QED
    BY <1>9, <2>2, <2>3
<1>10. CASE D!OtherFinished
  <2>1. UNCHANGED <<c4, c6>> /\ D!DeleteLock({}) /\ D!Pending' = D!Pending \ {}
    BY <1>10 DEF D!Pending
  <2> QED
    BY <1>8, <2>1
<1> QED
  BY <1>6, <1>7, <1>9, <1>10

LEMMA RecordingsStart == D!RecordingsInit => D!RecordingsInvariant
<1> SUFFICES ASSUME D!RecordingsInit
             PROVE  D!RecordingsInvariant
  OBVIOUS
<1>1. D!RecordingsTypeOK
  <2>1. c4 \in [Handler -> D!RequestState] /\ \A w \in Handler : c4[w].at = "new"
    BY RecordingAsked DEF D!RecordingsInit
  <2>2. c3 \in [D!Recording -> {"none", "there", "moved", "backup"}]
    BY DEF D!RecordingsInit
  <2>3. /\ c2 \in [D!Recording -> D!Meta \cup {D!NoRow, D!Deleted}]
        /\ c7 \in [Handler -> {"none", "queued", "made", "failed", "over"}]
    BY DEF D!RecordingsInit
  <2>4. c9 \in 0 .. MaxErrors
    BY ServicesAssumption DEF D!RecordingsInit, ServicesAssumption
  <2> QED
    BY <2>1, <2>2, <2>3, <2>4 DEF D!RecordingsInit, D!RecordingsTypeOK
<1>2. D!MergeLockHasTask /\ D!MergesAreFresh /\ D!MergeIsCovered
  BY RecordingAsked
     DEF D!RecordingsInit, D!MergeLockHasTask, D!MergesAreFresh, D!MergeIsCovered, D!Pending,
         D!Merging, D!Recording
<1> QED
  BY <1>1, <1>2 DEF D!RecordingsInvariant

LEMMA RecordingsNextKeeps ==
  D!RecordingsInvariant /\ [D!RecordingsNext]_(D!recordingsVars) => D!RecordingsInvariant'
<1> SUFFICES ASSUME D!RecordingsInvariant, [D!RecordingsNext]_(D!recordingsVars)
             PROVE  D!RecordingsInvariant'
  OBVIOUS
<1>1. CASE D!RecordingsNext
  <2>1. D!RecordingsTypeOK'
    BY <1>1, RecordingTypeNext DEF D!RecordingsInvariant
  <2>2. RecordingRest'
    BY <1>1, RecordingOthersNext, RecordingMergeNext, RecordingTaskNext DEF D!RecordingsNext
  <2> QED
    BY <2>1, <2>2 DEF D!RecordingsInvariant, RecordingRest
<1>2. CASE UNCHANGED D!recordingsVars
  BY <1>2 DEF D!recordingsVars, D!RecordingsInvariant, D!RecordingsTypeOK, D!MergeLockHasTask,
              D!MergesAreFresh, D!MergeIsCovered, D!Pending, D!Merging
<1> QED
  BY <1>1, <1>2

LEMMA RecordingsHolds == D!RecordingsInvariant => D!MergeLockHasTask /\ D!OneMergeAtATime
BY DEF D!RecordingsInvariant, D!MergeIsCovered, D!OneMergeAtATime

(* Whoever holds the room's merge lock is about to publish or has a task   *)
(* on its way, but for a lock a crash or a failing deletion left behind;   *)
(* and at most one task is on its way until another job of the room freed  *)
(* the lock under it, or it outlived its message id without the lock       *)
(* (recording_modify.go, recording.go).                                    *)
THEOREM OneMergeAlwaysHoldsTheLock == Spec => []OneMergeHoldsTheLock
<1> DEFINE Inv == active = "recordings" => D!RecordingsInvariant
<1>1. Init => Inv
  BY RecordingsStart DEF Init
<1>2. Inv /\ [Next]_<<active, cells>> => Inv'
  <2> SUFFICES ASSUME Inv, [Next]_<<active, cells>>, active' = "recordings"
               PROVE  D!RecordingsInvariant'
    OBVIOUS
  <2>1. active = "recordings" /\ [D!RecordingsNext]_(D!recordingsVars)
    BY DEF Next, cells, D!recordingsVars
  <2> QED
    BY <2>1, RecordingsNextKeeps
<1>3. Inv => OneMergeHoldsTheLock
  BY RecordingsHolds DEF OneMergeHoldsTheLock
<1> QED
  BY <1>1, <1>2, <1>3, PTL DEF Spec

(* A recording that was deleted does not come back, whatever was read      *)
(* before and is written after (recording_modify.go).                      *)
THEOREM RecordingsStayDeleted == Spec => [][active = "recordings" => D!StaysDeleted]_cells
<1> DEFINE Inv == active = "recordings" => D!RecordingsInvariant
<1>1. Init => Inv
  BY RecordingsStart DEF Init
<1>2. Inv /\ [Next]_<<active, cells>> => Inv' /\ [active = "recordings" => D!StaysDeleted]_cells
  <2> SUFFICES ASSUME Inv, [Next]_<<active, cells>>
               PROVE  /\ active' = "recordings" => D!RecordingsInvariant'
                      /\ active = "recordings" /\ cells' # cells => D!StaysDeleted
    OBVIOUS
  <2>1. /\ active' = "recordings" <=> active = "recordings"
        /\ active = "recordings" => [D!RecordingsNext]_(D!recordingsVars)
        /\ active = "recordings" /\ cells' # cells => D!RecordingsNext
    BY DEF Next, cells, D!recordingsVars
  <2>2. D!RecordingsInvariant /\ D!RecordingsNext => D!StaysDeleted
    BY RecordingRowNext DEF D!StaysDeleted
  <2> QED
    BY <2>1, <2>2, RecordingsNextKeeps
<1> QED
  BY <1>1, <1>2, PTL DEF Spec

-----------------------------------------------------------------------------
(* Requests that change the metadata of the room and of its users.  The    *)
(* cells: c1 is the room's metadata, c2 the users, c3 the requests, c4     *)
(* what was disturbed, c5 who changed each feature last, c6 the ingresses, *)
(* c7 the dispatch rules, c8 and c9 what copies that lag may hold.         *)

(* What a request is.                                                      *)
LEMMA RequestKinds ==
  ASSUME NEW q \in R!Request
  PROVE  /\ q.kind \in {"room", "user", "promote", "join", "demote", "lockall"}
         /\ q.kind = "room" =>
              q \in [kind : {"room"}, feature : R!Feature,
                     calls : {"nothing", "agent", "sip", "ingress"}, first : BOOLEAN]
         /\ q.kind = "user" => /\ q.user \in Member /\ q.value \in BOOLEAN
                               /\ q.field \in {"raised", "waiting", "locked"}
         /\ q.kind = "promote" => q.user \in Member
         /\ q.kind = "join" => q.user \in Member /\ q = R!Join(q.user)
         /\ q.kind = "demote" => q.user \in Member /\ q.by \in Member
         /\ q.kind = "lockall" => q.by \in Admin
BY ServicesAssumption DEF R!Request, R!Join, ServicesAssumption

LEMMA RequestWrites ==
  ASSUME NEW q \in R!Request
  PROVE  /\ q.kind = "room" => R!Writes(q) = {R!TheRoom}
         /\ q.kind = "user" => R!Writes(q) = {q.user}
         /\ q.kind = "demote" => R!Writes(q) = {q.user, q.by}
         /\ q.kind = "promote" => R!Writes(q) = Member
         /\ q.kind = "lockall" => R!Writes(q) = {R!TheRoom} \cup Member
         /\ q.kind = "join" => R!Writes(q) = {q.user}
         /\ R!Writes(q) \subseteq {R!TheRoom} \cup Member
<1>1. /\ q.kind = "room" => R!Writes(q) = {R!TheRoom}
      /\ q.kind = "user" => R!Writes(q) = {q.user}
      /\ q.kind = "demote" => R!Writes(q) = {q.user, q.by}
      /\ q.kind = "promote" => R!Writes(q) = Member
      /\ q.kind = "lockall" => R!Writes(q) = {R!TheRoom} \cup Member
      /\ q.kind = "join" => R!Writes(q) = {q.user}
  BY DEF R!Writes
<1> QED
  BY <1>1, RequestKinds

LEMMA RequestFeatures == "sip" \in R!Feature /\ "ingress" \in R!Feature /\ "lock" \in R!Feature
<1>1. R!EnableRoomSipDialIn \in R!Changes /\ R!CreateIngress \in R!Changes
  BY DEF R!Changes
<1>2. R!EnableRoomSipDialIn.feature = "sip" /\ R!CreateIngress.feature = "ingress"
      /\ R!LockDefault.feature = "lock"
  BY DEF R!EnableRoomSipDialIn, R!CreateIngress, R!LockDefault, R!Simply, R!Change
<1> QED
  BY <1>1, <1>2 DEF R!Feature

LEMMA RequestChanges ==
  ASSUME NEW q \in R!Changes
  PROVE  /\ q \in R!Request
         /\ q.kind = "room" /\ (q.calls \in {"sip", "ingress"} => q.feature = q.calls)
<1>1. q.feature \in R!Feature
  BY DEF R!Feature
<1> DEFINE Shape ==
      /\ q = [kind |-> "room", feature |-> q.feature, calls |-> q.calls, first |-> q.first]
      /\ q.calls \in {"nothing", "agent", "sip", "ingress"} /\ q.first \in BOOLEAN
      /\ q.calls \in {"sip", "ingress"} => q.feature = q.calls
<1>2. ASSUME NEW f, q = R!Simply(f)
      PROVE  Shape
  BY <1>2 DEF R!Simply, R!Change
<1>3. ASSUME NEW f, NEW calls \in {"nothing", "agent", "sip", "ingress"}, NEW first \in BOOLEAN,
             q = R!Change(f, calls, first), calls \in {"sip", "ingress"} => f = calls
      PROVE  Shape
  BY <1>3 DEF R!Change
<1>4. CASE q \in {R!UpdateWaitingRoomMessage, R!ChangeVisibility, R!UpdateExternalMedia,
                  R!UpdateExternalDisplay, R!ChangeSharedNotepadStatus, R!ManageActivation,
                  R!UpdateOfficeFile, R!ChatTranslationConfigure, R!ChatEndTranslation,
                  R!AITextChatConfigure, R!EndAITextChat, R!BroadcastEndTranscription}
  <2>1. Shape
    <3> HIDE DEF Shape
    <3> QED
      BY <1>2, <1>4
         DEF R!UpdateWaitingRoomMessage, R!ChangeVisibility, R!UpdateExternalMedia,
             R!UpdateExternalDisplay, R!ChangeSharedNotepadStatus, R!ManageActivation,
             R!UpdateOfficeFile, R!ChatTranslationConfigure, R!ChatEndTranslation,
             R!AITextChatConfigure, R!EndAITextChat, R!BroadcastEndTranscription
  <2> QED
    BY <1>1, <2>1 DEF R!Request
<1>5. CASE q \in {R!TranscriptionConfigure, R!EndTranscription,
                  R!AIMeetingSummarizationConfig, R!EndEndAIMeetingSummarization,
                  R!EnableRoomSipDialIn, R!CreateIngress}
  <2>1. Shape
    <3> HIDE DEF Shape
    <3> QED
      BY <1>3, <1>5
         DEF R!TranscriptionConfigure, R!EndTranscription, R!AIMeetingSummarizationConfig,
             R!EndEndAIMeetingSummarization, R!EnableRoomSipDialIn, R!CreateIngress
  <2> QED
    BY <1>1, <2>1 DEF R!Request
<1> QED
  BY <1>4, <1>5 DEF R!Changes

LEMMA RequestsAsked ==
  ASSUME NEW q \in R!Requests
  PROVE  /\ q \in R!Request
         /\ q.kind = "room" /\ q.calls \in {"sip", "ingress"} => q.feature = q.calls
<1>1. CASE q \in R!Changes
  BY <1>1, RequestChanges
<1>2. CASE q \in R!UserChanges
  <2>1. ASSUME NEW u \in Member, NEW field \in {"raised", "waiting", "locked"},
               NEW value \in BOOLEAN, q = R!About(u, field, value)
        PROVE  q \in R!Request /\ q.kind # "room"
    <3>1. /\ q \in [kind : {"user"}, user : Member, field : {"raised", "waiting", "locked"},
                    value : BOOLEAN]
          /\ q.kind = "user"
      BY <2>1 DEF R!About
    <3> QED
      BY <3>1 DEF R!Request
  <2>2. \/ \E u \in Member : q \in {R!RaisedHand(u), R!LowerHand(u), R!ApproveUser(u)}
        \/ \E u \in Member, lock \in BOOLEAN : q = R!LockUser(u, lock)
    <3> DEFINE Some == UNION {{R!RaisedHand(u), R!LowerHand(u), R!ApproveUser(u)} : u \in Member}
               Locks == {R!LockUser(u, lock) : u \in Member \ Admin, lock \in BOOLEAN}
    <3>1. q \in Some => \E u \in Member : q \in {R!RaisedHand(u), R!LowerHand(u), R!ApproveUser(u)}
      BY Zenon
    <3>2. q \in Locks => \E u \in Member, lock \in BOOLEAN : q = R!LockUser(u, lock)
      BY SMT
    <3>3. R!UserChanges = Some \cup Locks
      BY DEF R!UserChanges
    <3> HIDE DEF Some, Locks
    <3> QED
      BY <1>2, <3>1, <3>2, <3>3
  <2> QED
    BY <2>1, <2>2 DEF R!RaisedHand, R!LowerHand, R!ApproveUser, R!LockUser
<1>3. CASE \E u \in Member : q = R!Promote(u) \/ q = R!Join(u)
  BY <1>3 DEF R!Promote, R!Join, R!Request
<1>4. CASE \E u \in Member, by \in Admin : q = R!Demote(u, by)
  BY <1>4 DEF R!Demote, R!Request
<1>5. CASE \E by \in Admin : q = R!LockAll(by)
  BY <1>5 DEF R!LockAll, R!Request
<1> QED
  BY <1>1, <1>2, <1>3, <1>4, <1>5 DEF R!Requests

LEMMA RequestFree ==
  /\ R!Free \in R!WorkerState /\ R!Free.at = "free" /\ R!Free.todo = {} /\ R!Free.old = {}
  /\ R!Free.req.kind = "room" /\ R!NoFlags \in R!Flags /\ R!NoCopy \in R!Copy
<1>1. R!NoFlags \in R!Flags /\ R!NoCopy \in R!Copy
  BY DEF R!NoFlags, R!Flags, R!NoCopy, R!Copy
<1>2. R!ManageActivation \in R!Request /\ R!ManageActivation.kind = "room"
  BY RequestChanges DEF R!Changes
<1> QED
  BY <1>1, <1>2 DEF R!Free, R!WorkerState

-----------------------------------------------------------------------------
(* What a step leaves as it is.                                            *)

LEMMA RequestPut ==
  ASSUME R!RequestsTypeOK, NEW w \in Handler, NEW step \in R!WorkerState, R!Put(w, step)
  PROVE  /\ c3' \in [Handler -> R!WorkerState]
         /\ c3'[w] = step
         /\ \A v \in Handler : v # w => c3'[v] = c3[v]
BY DEF R!RequestsTypeOK, R!Put

LEMMA RequestOver ==
  ASSUME R!RequestsTypeOK, NEW w \in Handler, R!Over(w)
  PROVE  /\ c3' \in [Handler -> R!WorkerState]
         /\ c3'[w].at = "over" /\ c3'[w].req = c3[w].req
         /\ \A v \in Handler : v # w => c3'[v] = c3[v]
<1> DEFINE step == [R!Free EXCEPT !.at = "over", !.req = c3[w].req]
<1>1. step \in R!WorkerState /\ step.at = "over" /\ step.req = c3[w].req
  BY RequestFree DEF R!WorkerState, R!RequestsTypeOK
<1> HIDE DEF step
<1> QED
  BY <1>1, RequestPut DEF R!Over, step

(* A request that goes on, not one that starts.                            *)
GoesOn(w) ==
  /\ c3[w].at \notin {"free", "over"} /\ c3'[w].at # "free"
  /\ c3'[w].req.kind = c3[w].req.kind
  /\ c3[w].req.kind # "room" => c3'[w].req = c3[w].req
  /\ \A v \in Handler : v # w => c3'[v] = c3[v]

LEMMA RequestGoesOn ==
  ASSUME R!RequestsTypeOK, c3' \in [Handler -> R!WorkerState], NEW w \in Handler, GoesOn(w)
  PROVE  /\ R!Switches' = R!Switches
         /\ \A u \in Member : R!Joins(u)' = R!Joins(u)
         /\ R!OneSwitch' <=> R!OneSwitch
         /\ \A v \in Handler : R!Writes(c3'[v].req) = R!Writes(c3[v].req)
         /\ R!Busy' \subseteq R!Busy
         /\ \A obj : R!Alone(obj) => R!Alone(obj)'
<1>1. \A v \in Handler : c3[v].req \in R!Request /\ c3'[v].req \in R!Request
  BY DEF R!RequestsTypeOK, R!WorkerState
<1>2. R!Switches' = R!Switches
  BY DEF R!Switches, GoesOn
<1>3. ASSUME NEW u \in Member
      PROVE  R!Joins(u)' = R!Joins(u)
  <2>1. R!Join(u).kind = "join"
    BY DEF R!Join
  <2> QED
    BY <2>1 DEF R!Joins, GoesOn
<1>4. \A v \in Handler : R!Writes(c3'[v].req) = R!Writes(c3[v].req)
  <2>1. R!Writes(c3'[w].req) = R!Writes(c3[w].req)
    BY <1>1, RequestWrites DEF GoesOn
  <2> QED
    BY <2>1 DEF GoesOn
<1>5. R!Busy' \subseteq R!Busy
  BY DEF R!Busy, GoesOn
<1>6. \A obj : R!Alone(obj) => R!Alone(obj)'
  <2>1. R!Busy \subseteq Handler
    BY DEF R!Busy
  <2> QED
    BY <1>4, <1>5, <2>1 DEF R!Alone
<1> QED
  BY <1>2, <1>3, <1>4, <1>5, <1>6 DEF R!OneSwitch

LEMMA RequestTheirs ==
  ASSUME \A v \in Handler : R!KeepsToIts(v), NEW w \in Handler, R!Online \subseteq R!Online',
         \A v \in Handler : v # w => c3'[v] = c3[v],
         R!KeepsToIts(w)'
  PROVE  \A v \in Handler : R!KeepsToIts(v)'
BY DEF R!KeepsToIts

(* The room's metadata are left alone, ...                                 *)
LEMMA RequestRoom ==
  ASSUME R!RequestsTypeOK, R!RoomIsOwned, NEW w \in Handler,
         UNCHANGED <<c1, c5, c6, c7>>, c4 \subseteq c4',
         \A v \in Handler : v # w => c3'[v] = c3[v],
         R!TheRoom \notin c4' => R!Alone(R!TheRoom)',
         \/ c3'[w].at \notin {"call", "put"} \/ c3'[w].req.kind \notin {"room", "lockall"}
         \/ c3'[w].copy = c1 /\ (R!At(w, "call", "room")' => ~R!Refused(w, c1)'),
         R!At(w, "put", "room") /\ R!TheRoom \notin c4' =>
            c3[w].req.calls \notin {"ingress", "sip"}
  PROVE  R!RoomIsOwned'
<1> SUFFICES ASSUME R!TheRoom \notin c4'
             PROVE  R!RoomIsOwned'
  BY DEF R!RoomIsOwned
<1>1. R!TheRoom \notin c4
  OBVIOUS
<1>2. \A v \in Handler :
        /\ c3'[v].at \in {"call", "put"} /\ c3'[v].req.kind \in {"room", "lockall"} =>
             c3'[v].copy = c1
        /\ R!At(v, "call", "room")' => ~R!Refused(v, c1)'
  BY <1>1 DEF R!RoomIsOwned, R!At, R!Refused
<1>3. c6 \subseteq Handler /\ c7 \subseteq Handler
  BY DEF R!RequestsTypeOK
<1>4. R!IsPutDown(c6, "ingress")' /\ R!IsPutDown(c7, "sip")'
  BY <1>1, <1>3 DEF R!RoomIsOwned, R!IsPutDown, R!At
<1> QED
  BY <1>1, <1>2, <1>4 DEF R!RoomIsOwned

(* ... a user's key and flag are, ...                                      *)
LEMMA RequestUserRest ==
  ASSUME NEW u \in Member \ c4, R!UserIsOwned(u), NEW w \in Handler,
         \A v \in Handler : v # w => c3'[v] = c3[v],
         R!Alone(u)',
         c2'[u].presenter = c2[u].presenter,
         c2'[u].meta.presenter = c2[u].meta.presenter,
         R!Raises(w, u)' <=> R!Raises(w, u),
         R!Lowers(w, u)' <=> R!Lowers(w, u),
         R!Copies(w, u)' => c3'[w].flags.presenter = c2[u].meta.presenter
  PROVE  R!UserIsOwned(u)'
<1>1. \A v \in Handler : /\ R!Raises(v, u)' <=> R!Raises(v, u)
                         /\ R!Lowers(v, u)' <=> R!Lowers(v, u)
  BY DEF R!Raises, R!Lowers
<1>2. \A v \in Handler : R!Copies(v, u)' => c3'[v].flags.presenter = c2[u].meta.presenter
  BY DEF R!UserIsOwned, R!Copies, R!At
<1> QED
  BY <1>1, <1>2 DEF R!UserIsOwned

LEMMA RequestUsers ==
  ASSUME \A u \in Member \ c4 : R!UserIsOwned(u), NEW w \in Handler, c4 \subseteq c4',
         \A v \in Handler : v # w => c3'[v] = c3[v],
         \A u \in Member \ c4' :
            /\ R!Alone(u)'
            /\ c2'[u].presenter = c2[u].presenter
            /\ c2'[u].meta.presenter = c2[u].meta.presenter
            /\ R!Raises(w, u)' <=> R!Raises(w, u)
            /\ R!Lowers(w, u)' <=> R!Lowers(w, u)
            /\ R!Copies(w, u)' => c3'[w].flags.presenter = c2[u].meta.presenter
  PROVE  \A u \in Member \ c4' : R!UserIsOwned(u)'
<1> SUFFICES ASSUME NEW u \in Member \ c4'
             PROVE  R!UserIsOwned(u)'
  OBVIOUS
<1> u \in Member \ c4
  OBVIOUS
<1> QED
  BY RequestUserRest

(* ... and so are the presenters.                                          *)
LEMMA RequestPresenters ==
  ASSUME R!RequestsTypeOK, c3' \in [Handler -> R!WorkerState], R!PresenterIsKept,
         NEW w \in Handler, GoesOn(w),
         \A u \in Member : /\ c2'[u].online = c2[u].online
                           /\ c2'[u].presenter = c2[u].presenter,
         c3'[w].at \notin R!InTurn \/ (c3[w].at \in R!InTurn /\ c3'[w].todo = c3[w].todo)
  PROVE  R!PresenterIsKept'
<1>1. R!Presenters' = R!Presenters /\ R!Online' = R!Online
  BY DEF R!Presenters, R!Online
<1>2. R!Switches' = R!Switches /\ (R!OneSwitch' => R!OneSwitch) /\ R!Busy' \subseteq R!Busy
  BY RequestGoesOn
<1>3. \A v \in R!Switches : c3'[v].at \in R!InTurn =>
        c3[v].at \in R!InTurn /\ c3'[v].todo = c3[v].todo
  BY DEF GoesOn, R!Switches
<1>4. \A v \in Handler : c3'[v].req.kind = "join" =>
        c3[v].req.kind = "join" /\ c3'[v].req.user = c3[v].req.user
  BY DEF GoesOn
<1>5. R!Busy \subseteq Handler
  BY DEF R!Busy
<1> QED
  BY <1>1, <1>2, <1>3, <1>4, <1>5 DEF R!PresenterIsKept

-----------------------------------------------------------------------------
(* A request starts: what another one writes too is disturbed.             *)
LEMMA RequestStartNext ==
  ASSUME R!RequestsInvariant, NEW w \in Handler, NEW q \in R!Requests, R!Start(w, q),
         R!PastTypeOK'
  PROVE  R!RequestsInvariant'
<1> USE DEF R!RequestsInvariant
<1>1. /\ UNCHANGED <<c1, c2, c5, c6, c7>> /\ c3[w].at = "free"
      /\ c4' = c4 \cup (R!Writes(q) \cap UNION {R!Writes(c3[v].req) : v \in R!Busy})
      /\ q.kind = "join" => ~c2[q.user].online
      /\ q.kind \in {"user", "promote", "demote"} => q.user \in R!Online
      /\ q.kind \in {"demote", "lockall"} => q.by \in R!Online
  BY DEF R!Start
<1>2. /\ c3' \in [Handler -> R!WorkerState]
      /\ c3'[w].at = "read" /\ c3'[w].req = q
      /\ \A v \in Handler : v # w => c3'[v] = c3[v]
  <2> DEFINE step == [R!Free EXCEPT !.at = "read", !.req = q]
  <2>1. step \in R!WorkerState /\ step.at = "read" /\ step.req = q
    BY RequestFree, RequestsAsked DEF R!WorkerState
  <2> HIDE DEF step
  <2>2. R!Put(w, step)
    BY DEF R!Start, R!Put, step
  <2> QED
    BY <2>1, <2>2, RequestPut
<1>3. q \in R!Request
  BY RequestsAsked
<1>4. R!RequestsTypeOK'
  <2>1. c4' \subseteq {R!TheRoom} \cup Member
    BY <1>1, <1>3, RequestWrites DEF R!RequestsTypeOK
  <2> QED
    BY <1>1, <1>2, <2>1 DEF R!RequestsTypeOK
<1>5. \A v \in Handler : R!KeepsToIts(v)'
  <2>2. R!Online' = R!Online
    BY <1>1 DEF R!Online
  <2>1. R!KeepsToIts(w)'
    BY <1>1, <1>2, <2>2, RequestsAsked
       DEF R!KeepsToIts, R!InTurn, R!NewPresenter, R!Switching
  <2> QED
    BY <1>2, <2>1, <2>2, RequestTheirs
<1>6. ASSUME NEW obj, obj \notin c4', R!Alone(obj)
      PROVE  R!Alone(obj)'
  <2>1. \A v \in R!Busy : obj \notin R!Writes(q) \/ obj \notin R!Writes(c3[v].req)
    BY <1>1, <1>6
  <2>2. R!Busy' \subseteq R!Busy \cup {w} /\ R!Busy \subseteq Handler
    BY <1>2 DEF R!Busy
  <2>3. \A v \in Handler : v # w => R!Writes(c3'[v].req) = R!Writes(c3[v].req)
    BY <1>2
  <2>4. w \notin R!Busy
    BY <1>1 DEF R!Busy
  <2>5. \A v \in R!Busy : c3'[v] = c3[v]
    BY <1>2, <2>2, <2>4
  <2> QED
    BY <1>2, <1>6, <2>1, <2>2, <2>5 DEF R!Alone
<1>7. R!RoomIsOwned'
  <2>1. R!TheRoom \notin c4' => R!Alone(R!TheRoom)'
    BY <1>1, <1>6 DEF R!RoomIsOwned
  <2> QED
    BY <1>1, <1>2, <2>1, RequestRoom DEF R!At
<1>8. \A u \in Member \ c4' : R!UserIsOwned(u)'
  <2>1. \A u \in Member \ c4' : R!Alone(u)'
    BY <1>1, <1>6 DEF R!UserIsOwned
  <2>2. \A u \in Member \ c4' : /\ R!Raises(w, u)' <=> R!Raises(w, u)
                                /\ R!Lowers(w, u)' <=> R!Lowers(w, u)
                                /\ ~R!Copies(w, u)'
    BY <1>1, <1>2 DEF R!Raises, R!Lowers, R!Copies, R!At
  <2> QED
    BY <1>1, <1>2, <2>1, <2>2, RequestUsers
<1>9. R!PresenterIsKept'
  <2>1. R!Presenters' = R!Presenters /\ R!Online' = R!Online
    BY <1>1 DEF R!Presenters, R!Online
  <2>2. R!Switches \subseteq R!Switches' /\ R!Switches' \subseteq R!Switches \cup {w}
    BY <1>1, <1>2 DEF R!Switches
  <2>3. \A u \in Member : R!Joins(u) \subseteq R!Joins(u)'
    BY <1>1, <1>2 DEF R!Joins
  <2>4. R!OneSwitch' => R!OneSwitch
    BY <2>2, <2>3 DEF R!OneSwitch
  <2>5. \A v \in R!Switches' : c3'[v].at \in R!InTurn => v \in R!Switches /\ c3'[v] = c3[v]
    BY <1>2, <2>2 DEF R!InTurn, R!Switches
  <2>6. \A v \in R!Busy' : v = w \/ (v \in R!Busy /\ c3'[v] = c3[v])
    BY <1>2 DEF R!Busy
  <2>7. q.kind = "join" => q.user \notin R!Online
    BY <1>1 DEF R!Online
  <2> QED
    BY <1>2, <2>1, <2>4, <2>5, <2>6, <2>7 DEF R!PresenterIsKept
<1> QED
  BY <1>4, <1>5, <1>7, <1>8, <1>9

(* A request about the room changes nothing of the users.                  *)
RoomStep(w) ==
  \/ R!CallFirst(w) \/ R!ReadRoom(w) \/ R!RoomReadFails(w) \/ R!CallOut(w) \/ R!CallFails(w)
  \/ R!RoomPutFails(w) \/ R!PutRoom(w)

LEMMA RequestRoomStep ==
  ASSUME R!RequestsInvariant, NEW w \in Handler,
         RoomStep(w)
  PROVE  /\ c3[w].req.kind = "room" /\ c3'[w].req.kind = "room" /\ c2' = c2
         /\ c4 \subseteq c4' /\ c4' \subseteq c4 \cup {R!TheRoom}
         /\ c3' \in [Handler -> R!WorkerState] /\ GoesOn(w)
         /\ c3'[w].at \in {"read", "call", "put", "over"}
         /\ c3'[w].req = c3[w].req \/ c3'[w].req.calls = "nothing"
<1> USE DEF R!RequestsInvariant
<1>1. c3[w] \in R!WorkerState /\ c3[w].req \in R!Request /\ c1 \in R!Copy
  BY DEF R!RequestsTypeOK, R!WorkerState
<1>2. /\ c3[w].req.kind = "room" /\ c3[w].at \in {"read", "call", "put"} /\ c2' = c2
      /\ c4' = c4 \/ c4' = c4 \cup {R!TheRoom}
  BY DEF RoomStep, R!CallFirst, R!ReadRoom, R!RoomReadFails, R!CallOut, R!CallFails,
         R!RoomPutFails, R!PutRoom, R!Misled, R!At
<1>3. \/ \E step \in R!WorkerState :
            /\ R!Put(w, step) /\ step.at \in {"read", "call", "put"} /\ step.req.kind = "room"
            /\ step.req = c3[w].req \/ step.req.calls = "nothing"
      \/ R!Over(w)
  <2>1. CASE R!CallFirst(w)
    <3> DEFINE step == [c3[w] EXCEPT !.req.first = FALSE, !.req.calls = "nothing"]
               req == [c3[w].req EXCEPT !.first = FALSE, !.calls = "nothing"]
    <3>1. req \in R!Request /\ req.kind = "room" /\ req.calls = "nothing"
      <4>1. c3[w].req \in [kind : {"room"}, feature : R!Feature,
                           calls : {"nothing", "agent", "sip", "ingress"}, first : BOOLEAN]
        BY <1>1, <1>2, RequestKinds
      <4>2. req \in [kind : {"room"}, feature : R!Feature,
                     calls : {"nothing", "agent", "sip", "ingress"}, first : BOOLEAN]
        BY <4>1
      <4> QED
        BY <4>1, <4>2 DEF R!Request
    <3>2. step = [c3[w] EXCEPT !.req = req]
      BY <1>1 DEF R!WorkerState
    <3> HIDE DEF req
    <3>3. step \in R!WorkerState /\ step.at = c3[w].at /\ step.req = req
      BY <1>1, <3>1, <3>2 DEF R!WorkerState
    <3>4. R!Put(w, step)
      BY <2>1 DEF R!CallFirst
    <3> HIDE DEF step
    <3> QED
      BY <1>2, <3>1, <3>3, <3>4
  <2>2. CASE R!ReadRoom(w) \/ R!CallOut(w)
    <3> DEFINE step(at, copy) == [c3[w] EXCEPT !.copy = copy, !.at = at]
    <3>1. ASSUME NEW at \in {"put", "call"}, NEW copy \in R!Copy
          PROVE  /\ step(at, copy) \in R!WorkerState
                 /\ step(at, copy).at = at /\ step(at, copy).req = c3[w].req
      BY <1>1 DEF R!WorkerState
    <3>2. CASE R!ReadRoom(w)
      <4>1. R!Over(w) \/ \E at \in {"put", "call"}, seen \in R!Copy : R!Put(w, step(at, seen))
        <5>1. PICK seen \in R!Copy :
                \/ R!Over(w)
                \/ R!Put(w, step(IF c3[w].req.calls = "nothing" THEN "put" ELSE "call", seen))
          BY <1>1, <3>2 DEF R!ReadRoom, R!Seen, R!PastTypeOK
        <5> QED
          BY <5>1
      <4> HIDE DEF step
      <4> QED
        BY <1>1, <1>2, <3>1, <4>1
    <3>3. CASE R!CallOut(w)
      <4>1. [c3[w] EXCEPT !.at = "put"] = step("put", c3[w].copy) /\ c3[w].copy \in R!Copy
        BY <1>1 DEF R!WorkerState
      <4>2. R!Put(w, step("put", c3[w].copy))
        BY <3>3, <4>1 DEF R!CallOut
      <4> HIDE DEF step
      <4> QED
        BY <1>2, <3>1, <4>1, <4>2
    <3> QED
      BY <2>2, <3>2, <3>3
  <2>3. CASE R!RoomReadFails(w) \/ R!CallFails(w) \/ R!RoomPutFails(w) \/ R!PutRoom(w)
    BY <2>3 DEF R!RoomReadFails, R!CallFails, R!RoomPutFails, R!PutRoom
  <2> QED
    BY <2>1, <2>2, <2>3 DEF RoomStep
<1>4. CASE R!Over(w)
  BY <1>2, <1>4, RequestOver DEF GoesOn
<1>5. ASSUME NEW step \in R!WorkerState, R!Put(w, step),
             step.at \in {"read", "call", "put"} /\ step.req.kind = "room",
             step.req = c3[w].req \/ step.req.calls = "nothing"
      PROVE  /\ c3' \in [Handler -> R!WorkerState] /\ GoesOn(w)
             /\ c3'[w].req.kind = "room" /\ c3'[w].at \in {"read", "call", "put", "over"}
             /\ c3'[w].req = c3[w].req \/ c3'[w].req.calls = "nothing"
  BY <1>2, <1>5, RequestPut DEF GoesOn
<1> QED
  BY <1>2, <1>3, <1>4, <1>5

LEMMA RequestRoomRest ==
  ASSUME R!RequestsInvariant, NEW w \in Handler,
         RoomStep(w)
  PROVE  /\ \A v \in Handler : R!KeepsToIts(v)'
         /\ \A u \in Member \ c4' : R!UserIsOwned(u)'
         /\ R!PresenterIsKept'
<1> USE DEF R!RequestsInvariant
<1>1. /\ c3[w].req.kind = "room" /\ c3'[w].req.kind = "room" /\ c2' = c2
      /\ c4 \subseteq c4'
      /\ c3' \in [Handler -> R!WorkerState] /\ GoesOn(w)
      /\ c3'[w].at \in {"read", "call", "put", "over"}
      /\ c3'[w].req = c3[w].req \/ c3'[w].req.calls = "nothing"
  BY RequestRoomStep
<1>2. \A v \in Handler : v # w => c3'[v] = c3[v]
  BY <1>1 DEF GoesOn
<1>3. \A v \in Handler : R!KeepsToIts(v)'
  <2>1. R!KeepsToIts(w)'
    BY <1>1 DEF R!KeepsToIts, R!InTurn, R!Switching
  <2>2. R!Online' = R!Online
    BY <1>1 DEF R!Online
  <2> QED
    BY <1>2, <2>1, <2>2, RequestTheirs
<1>4. \A u \in Member \ c4' : R!UserIsOwned(u)'
  <2>1. \A u \in Member \ c4' : R!Alone(u)'
    BY <1>1, RequestGoesOn DEF R!UserIsOwned
  <2>2. c3[w].at \notin {"flag"} \cup R!InTurn
    BY <1>1 DEF R!KeepsToIts, R!Switching
  <2>3. \A u \in Member \ c4' : /\ R!Raises(w, u)' <=> R!Raises(w, u)
                                /\ R!Lowers(w, u)' <=> R!Lowers(w, u)
                                /\ ~R!Copies(w, u)'
    BY <1>1, <2>2 DEF R!Raises, R!Lowers, R!Copies, R!At, R!InTurn
  <2> QED
    BY <1>1, <1>2, <2>1, <2>3, RequestUsers
<1>5. R!PresenterIsKept'
  BY <1>1, RequestPresenters DEF R!InTurn
<1> QED
  BY <1>3, <1>4, <1>5

LEMMA RequestRoomNext ==
  ASSUME R!RequestsInvariant, NEW w \in Handler,
         RoomStep(w), R!PastTypeOK'
  PROVE  R!RequestsInvariant'
<1> USE DEF R!RequestsInvariant
<1>1. /\ c3[w].req.kind = "room" /\ c3'[w].req.kind = "room" /\ c2' = c2
      /\ c4 \subseteq c4' /\ c4' \subseteq c4 \cup {R!TheRoom}
      /\ c3' \in [Handler -> R!WorkerState] /\ GoesOn(w)
      /\ c3'[w].at \in {"read", "call", "put", "over"}
  BY RequestRoomStep
<1>2. /\ \A v \in Handler : v # w => c3'[v] = c3[v]
      /\ R!Alone(R!TheRoom) => R!Alone(R!TheRoom)'
  BY <1>1, RequestGoesOn DEF GoesOn
<1>3. /\ c3[w] \in R!WorkerState /\ c3[w].req \in R!Request /\ c3[w].req.feature \in R!Feature
      /\ c1 \in R!Copy /\ c5 \in R!Copy /\ c6 \subseteq Handler /\ c7 \subseteq Handler
      /\ c3[w].copy \in R!Copy
  <2>1. c3[w] \in R!WorkerState /\ c3[w].req \in R!Request /\ c3[w].copy \in R!Copy
    BY DEF R!RequestsTypeOK, R!WorkerState
  <2> QED
    BY <1>1, <2>1, RequestKinds DEF R!RequestsTypeOK
<1>4. R!RequestsTypeOK'
  <2>1. /\ c1' \in R!Copy /\ c5' \in R!Copy /\ c6' \subseteq Handler /\ c7' \subseteq Handler
    BY <1>3 DEF RoomStep, R!CallFirst, R!ReadRoom, R!RoomReadFails, R!CallOut, R!CallFails,
                R!LivekitMakes, R!RoomPutFails, R!PutRoom, R!Copy
  <2> QED
    BY <1>1, <2>1 DEF R!RequestsTypeOK
<1>5. R!TheRoom \notin c4 =>
        \A v \in Handler : v # w /\ c3[v].at \notin {"free", "over"} =>
           c3[v].req.kind \notin {"room", "lockall"}
  <2>1. \A v \in Handler : c3[v].req \in R!Request
    BY DEF R!RequestsTypeOK, R!WorkerState
  <2>2. \A v \in Handler : c3[v].req.kind \in {"room", "lockall"} =>
          R!TheRoom \in R!Writes(c3[v].req)
    BY <2>1, RequestWrites
  <2>3. w \in R!Busy /\ \A v \in Handler : c3[v].at \notin {"free", "over"} => v \in R!Busy
    BY <1>1 DEF R!Busy, GoesOn
  <2> QED
    BY <1>1, <2>2, <2>3 DEF R!RoomIsOwned, R!Alone
<1>6. ASSUME UNCHANGED <<c1, c5, c6, c7>>,
             \/ c3'[w].at \notin {"call", "put"}
             \/ c3'[w].copy = c1 /\ (R!At(w, "call", "room")' => ~R!Refused(w, c1)'),
             c3[w].at = "put" /\ R!TheRoom \notin c4' =>
                c3[w].req.calls \notin {"ingress", "sip"}
      PROVE  R!RoomIsOwned'
  <2>1. R!TheRoom \notin c4' => R!Alone(R!TheRoom)'
    BY <1>1, <1>2 DEF R!RoomIsOwned
  <2> QED
    BY <1>1, <1>2, <1>6, <2>1, RequestRoom DEF R!At
<1>7. R!RoomIsOwned'
  <2>1. CASE R!CallFirst(w)
    <3>1. c3'[w].at = "read" /\ c3[w].at = "read" /\ UNCHANGED <<c1, c5, c6, c7>>
      BY <1>3, <2>1 DEF R!CallFirst, R!At, R!Put, R!RequestsTypeOK, R!WorkerState
    <3> QED
      BY <1>6, <3>1
  <2>2. CASE R!RoomReadFails(w) \/ R!CallFails(w) \/ R!RoomPutFails(w)
    <3> SUFFICES ASSUME R!TheRoom \notin c4'
                 PROVE  R!RoomIsOwned'
      BY DEF R!RoomIsOwned
    <3>1. c3'[w].at = "over" /\ UNCHANGED <<c1, c5, c6, c7>>
      BY <2>2, RequestOver DEF R!RoomReadFails, R!CallFails, R!RoomPutFails
    <3>2. c3[w].at = "put" => c3[w].req.calls \notin {"ingress", "sip"}
      BY <2>2 DEF R!RoomReadFails, R!CallFails, R!RoomPutFails, R!At
    <3> QED
      BY <1>6, <3>1, <3>2
  <2>3. CASE R!ReadRoom(w)
    <3> SUFFICES ASSUME R!TheRoom \notin c4'
                 PROVE  R!RoomIsOwned'
      BY DEF R!RoomIsOwned
    <3>1. UNCHANGED <<c1, c5, c6, c7>> /\ c3[w].at = "read"
      BY <2>3 DEF R!ReadRoom, R!At
    <3>2. CASE R!Over(w)
      <4>1. c3'[w].at = "over"
        BY <3>2, RequestOver
      <4> QED
        BY <1>6, <3>1, <4>1
    <3>3. CASE ~R!Over(w)
      <4>1. /\ ~R!Refused(w, c1)
            /\ c3' = [c3 EXCEPT ![w] = [c3[w] EXCEPT !.copy = c1,
                        !.at = IF c3[w].req.calls = "nothing" THEN "put" ELSE "call"]]
        BY <2>3, <3>3 DEF R!ReadRoom, R!Put, R!Misled
      <4>2. c3'[w].copy = c1 /\ c3'[w].req = c3[w].req
        BY <1>3, <4>1 DEF R!RequestsTypeOK, R!WorkerState
      <4>3. ~R!Refused(w, c1)'
        BY <3>1, <4>1, <4>2 DEF R!Refused
      <4> QED
        BY <1>6, <3>1, <4>2, <4>3
    <3> QED
      BY <3>2, <3>3
  <2>4. CASE R!CallOut(w)
    <3> SUFFICES ASSUME R!TheRoom \notin c4'
                 PROVE  R!RoomIsOwned'
      BY DEF R!RoomIsOwned
    <3>1. /\ c1' = c1 /\ c5' = c5 /\ c4' = c4 /\ c3[w].at = "call"
          /\ c6' = IF c3[w].req.calls = "ingress" THEN c6 \cup {w} ELSE c6
          /\ c7' = IF c3[w].req.calls = "sip" THEN c7 \cup {w} ELSE c7
      BY <2>4 DEF R!CallOut, R!LivekitMakes, R!At
    <3>2. c3'[w].at = "put" /\ c3'[w].req = c3[w].req /\ c3'[w].copy = c3[w].copy
      BY <1>3, <2>4 DEF R!CallOut, R!Put, R!RequestsTypeOK, R!WorkerState
    <3>3. /\ c1 = c5 /\ c3[w].copy = c1 /\ ~R!Refused(w, c1) /\ R!Alone(R!TheRoom)'
          /\ R!IsPutDown(c6, "ingress") /\ R!IsPutDown(c7, "sip")
      BY <1>1, <1>2, <3>1 DEF R!RoomIsOwned, R!At
    <3>4. \A v \in Handler : ~R!At(v, "put", "room")
      BY <1>5, <3>1 DEF R!At
    <3>5. R!IsPutDown(c6, "ingress")'
      <4>1. CASE c3[w].req.calls = "ingress"
        <5>1. c1["ingress"] = None
          BY <1>1, <3>3, <4>1 DEF R!Refused, R!KeepsToIts
        <5>2. c6' = {w}
          BY <1>3, <3>1, <3>3, <3>4, <4>1, <5>1 DEF R!IsPutDown
        <5> QED
          BY <1>1, <3>2, <4>1, <5>2 DEF R!IsPutDown, R!At
      <4>2. CASE c3[w].req.calls # "ingress"
        BY <1>3, <3>1, <3>3, <3>4, <4>2 DEF R!IsPutDown
      <4> QED
        BY <4>1, <4>2
    <3>6. R!IsPutDown(c7, "sip")'
      <4>1. CASE c3[w].req.calls = "sip"
        <5>1. c1["sip"] = None
          BY <1>1, <3>3, <4>1 DEF R!Refused, R!KeepsToIts
        <5>2. c7' = {w}
          BY <1>3, <3>1, <3>3, <3>4, <4>1, <5>1 DEF R!IsPutDown
        <5> QED
          BY <1>1, <3>2, <4>1, <5>2 DEF R!IsPutDown, R!At
      <4>2. CASE c3[w].req.calls # "sip"
        BY <1>3, <3>1, <3>3, <3>4, <4>2 DEF R!IsPutDown
      <4> QED
        BY <4>1, <4>2
    <3>7. \A v \in Handler :
            /\ c3'[v].at \in {"call", "put"} /\ c3'[v].req.kind \in {"room", "lockall"} =>
                 c3'[v].copy = c1
            /\ ~R!At(v, "call", "room")'
      BY <1>2, <1>5, <3>1, <3>2, <3>3 DEF R!At
    <3> QED
      BY <3>1, <3>3, <3>5, <3>6, <3>7 DEF R!RoomIsOwned
  <2>5. CASE R!PutRoom(w)
    <3> SUFFICES ASSUME R!TheRoom \notin c4'
                 PROVE  R!RoomIsOwned'
      BY DEF R!RoomIsOwned
    <3> DEFINE f == c3[w].req.feature
    <3>1. /\ c6' = c6 /\ c7' = c7 /\ c4' = c4 /\ c3[w].at = "put"
          /\ c1' = [c3[w].copy EXCEPT ![f] = w] /\ c5' = [c5 EXCEPT ![f] = w]
      BY <2>5 DEF R!PutRoom, R!At
    <3>2. c3'[w].at = "over"
      BY <2>5, RequestOver DEF R!PutRoom
    <3>3. /\ c1 = c5 /\ c3[w].copy = c1 /\ R!Alone(R!TheRoom)'
          /\ R!IsPutDown(c6, "ingress") /\ R!IsPutDown(c7, "sip")
      BY <1>1, <1>2, <3>1 DEF R!RoomIsOwned
    <3>4. c1' = c5'
      BY <3>1, <3>3
    <3>5. \A g \in R!Feature : c1[g] # None \/ g = f => c1'[g] # None
      BY <1>3, <3>1, <3>3, ServicesAssumption DEF R!Copy, ServicesAssumption
    <3>6. \A v \in Handler : R!At(v, "put", "room") => v = w
      BY <1>5, <3>1 DEF R!At
    <3>7. R!IsPutDown(c6, "ingress")' /\ R!IsPutDown(c7, "sip")'
      <4>1. c3[w].req.calls \in {"sip", "ingress"} => f = c3[w].req.calls
        BY <1>1 DEF R!KeepsToIts
      <4>2. \A v \in c6 : c1["ingress"] # None \/ f = "ingress"
        BY <1>3, <3>3, <3>6, <4>1 DEF R!IsPutDown
      <4>3. \A v \in c7 : c1["sip"] # None \/ f = "sip"
        BY <1>3, <3>3, <3>6, <4>1 DEF R!IsPutDown
      <4> QED
        BY <3>1, <3>3, <3>5, <4>2, <4>3, RequestFeatures DEF R!IsPutDown
    <3>8. \A v \in Handler : c3'[v].at \in {"call", "put"} =>
            c3'[v].req.kind \notin {"room", "lockall"}
      BY <1>2, <1>5, <3>1, <3>2
    <3> QED
      BY <3>3, <3>4, <3>7, <3>8 DEF R!RoomIsOwned, R!At
  <2> QED
    BY <2>1, <2>2, <2>3, <2>4, <2>5 DEF RoomStep
<1> QED
  BY <1>4, <1>7, RequestRoomRest

-----------------------------------------------------------------------------
(* A request about users leaves the room alone.                            *)
LEMMA RequestApart ==
  ASSUME R!RequestsInvariant, c3' \in [Handler -> R!WorkerState], NEW w \in Handler, GoesOn(w),
         c3[w].req.kind \notin {"room", "lockall"}, UNCHANGED <<c1, c5, c6, c7>>, c4 \subseteq c4'
  PROVE  R!RoomIsOwned'
<1>1. R!TheRoom \notin c4' => R!Alone(R!TheRoom)'
  BY RequestGoesOn DEF R!RequestsInvariant, R!RoomIsOwned
<1>2. c3'[w].req.kind \notin {"room", "lockall"} /\ \A v \in Handler : v # w => c3'[v] = c3[v]
  BY DEF GoesOn
<1> QED
  BY <1>1, <1>2, RequestRoom DEF R!RequestsInvariant, R!At

LEMMA RequestStep ==
  ASSUME R!RequestsTypeOK, NEW w \in Handler, NEW step \in R!WorkerState,
         \/ R!Put(w, step) /\ step.at \notin {"free", "over"} /\ step.req = c3[w].req
         \/ R!Over(w),
         c3[w].at \notin {"free", "over"}
  PROVE  /\ c3' \in [Handler -> R!WorkerState] /\ GoesOn(w)
         /\ c3'[w] = step \/ c3'[w].at = "over"
         /\ c3'[w].req = c3[w].req
         /\ \A v \in Handler : v # w => c3'[v] = c3[v]
<1>1. CASE R!Put(w, step) /\ step.at \notin {"free", "over"} /\ step.req = c3[w].req
  BY <1>1, RequestPut DEF GoesOn
<1>2. CASE R!Over(w)
  BY <1>2, RequestOver DEF GoesOn
<1> QED
  BY <1>1, <1>2

(* A change of one field of a user's metadata keeps the presenter's flag.  *)
UserStep(w) == R!ReadUser(w) \/ R!UserFails(w) \/ R!PutUser(w)

LEMMA RequestUserNext ==
  ASSUME R!RequestsInvariant, NEW w \in Handler, UserStep(w),
         R!PastTypeOK'
  PROVE  R!RequestsInvariant'
<1> USE DEF R!RequestsInvariant
<1> DEFINE q == c3[w].req
           read(flags) == [c3[w] EXCEPT !.at = "put", !.flags = flags]
           put == [c3[w].flags EXCEPT ![q.field] = q.value]
<1>1. /\ c3[w] \in R!WorkerState /\ q \in R!Request /\ q.kind = "user"
      /\ c3[w].at \in {"read", "put"}
      /\ UNCHANGED <<c1, c5, c6, c7>> /\ (c4' = c4 \/ c4' = c4 \cup {q.user})
  BY DEF R!RequestsTypeOK, R!WorkerState, UserStep, R!ReadUser, R!UserFails, R!PutUser,
         R!Misled, R!At
<1>2. q.user \in Member /\ q.value \in BOOLEAN /\ q.field \in {"raised", "waiting", "locked"}
  BY <1>1, RequestKinds
<1>3. ASSUME NEW flags \in R!Flags
      PROVE  /\ read(flags) \in R!WorkerState /\ read(flags).at = "put"
             /\ read(flags).req = q /\ read(flags).flags = flags
  BY <1>1 DEF R!WorkerState
<1>4. put \in R!Flags /\ put.presenter = c3[w].flags.presenter
  BY <1>1, <1>2 DEF R!Flags, R!WorkerState
<1>5. \/ \E flags \in R!Flags :
            /\ R!Put(w, read(flags)) /\ c2' = c2
            /\ q.user \notin c4' => flags = c2[q.user].meta
      \/ /\ R!Over(w)
         /\ \/ c2' = c2
            \/ c2' = [c2 EXCEPT ![q.user].meta = put] /\ R!At(w, "put", "user")
  <2>1. CASE R!ReadUser(w)
    <3>1. PICK seen \in R!SeenOf(q.user) :
            /\ R!Put(w, read(seen.meta))
            /\ R!Misled(q.user, seen.meta # c2[q.user].meta)
      BY <2>1 DEF R!ReadUser
    <3>2. seen \in R!MemberKeys
      BY <1>2, <3>1 DEF R!SeenOf, R!PastTypeOK, R!RequestsTypeOK
    <3>3. seen.meta \in R!Flags
      BY <3>2 DEF R!MemberKeys
    <3>4. q.user \notin c4' => seen.meta = c2[q.user].meta
      BY <3>1 DEF R!Misled
    <3>5. c2' = c2
      BY <2>1 DEF R!ReadUser
    <3> QED
      BY <3>1, <3>3, <3>4, <3>5
  <2>2. CASE R!UserFails(w)
    <3>1. R!Over(w) /\ c2' = c2
      BY <2>2 DEF R!UserFails
    <3> QED
      BY <3>1, Zenon
  <2>3. CASE R!PutUser(w)
    <3>1. R!Over(w) /\ R!At(w, "put", "user") /\ c2' = [c2 EXCEPT ![q.user].meta = put]
      BY <2>3 DEF R!PutUser
    <3> QED
      BY <3>1
  <2> QED
    BY <2>1, <2>2, <2>3 DEF UserStep
<1> HIDE DEF q, read, put
<1>6. /\ c3' \in [Handler -> R!WorkerState] /\ GoesOn(w)
      /\ c3'[w].at \in {"put", "over"}
      /\ c3'[w].at = "put" /\ q.user \notin c4' => c3'[w].flags = c2[q.user].meta
      /\ c3'[w].req = q
      /\ \A v \in Handler : v # w => c3'[v] = c3[v]
  <2>1. c3[w].at \notin {"free", "over"}
    BY <1>1
  <2>2. CASE R!Over(w)
    BY <2>1, <2>2, RequestOver DEF GoesOn, q
  <2>3. ASSUME NEW flags \in R!Flags, R!Put(w, read(flags)),
               q.user \notin c4' => flags = c2[q.user].meta
        PROVE  <1>6!1 /\ <1>6!2 /\ <1>6!3 /\ <1>6!4 /\ <1>6!5
    <3>1. /\ c3' \in [Handler -> R!WorkerState] /\ c3'[w] = read(flags)
          /\ \A v \in Handler : v # w => c3'[v] = c3[v]
      BY <1>3, <2>3, RequestPut
    <3> QED
      BY <1>3, <2>1, <2>3, <3>1 DEF GoesOn, q
  <2> QED
    BY <1>5, <2>2, <2>3
<1>7. /\ c2' \in [Member -> R!MemberKeys]
      /\ \A u \in Member : c2'[u].online = c2[u].online /\ c2'[u].presenter = c2[u].presenter
      /\ \A u \in Member \ c4 : c2'[u].meta.presenter = c2[u].meta.presenter
  <2>1. CASE c2' = c2
    BY <2>1 DEF R!RequestsTypeOK
  <2>2. CASE c2' = [c2 EXCEPT ![q.user].meta = put] /\ R!At(w, "put", "user")
    <3>1. q.user \notin c4 => put.presenter = c2[q.user].meta.presenter
      BY <1>2, <1>4, <2>2 DEF R!UserIsOwned, R!Copies, q
    <3> QED
      BY <1>2, <1>4, <2>2, <3>1 DEF R!RequestsTypeOK, R!MemberKeys
  <2> QED
    BY <1>5, <2>1, <2>2
<1>8. R!RequestsTypeOK'
  BY <1>1, <1>2, <1>6, <1>7 DEF R!RequestsTypeOK
<1>9. \A v \in Handler : R!KeepsToIts(v)'
  <2>1. R!KeepsToIts(w)'
    BY <1>1, <1>6 DEF R!KeepsToIts, R!InTurn
  <2>2. R!Online' = R!Online
    BY <1>7 DEF R!Online
  <2> QED
    BY <1>6, <2>1, <2>2, RequestTheirs
<1>10. R!RoomIsOwned'
  BY <1>1, <1>6, RequestApart DEF q
<1>11. \A u \in Member \ c4' : R!UserIsOwned(u)'
  <2>1. \A u \in Member \ c4' : R!Alone(u)'
    BY <1>1, <1>6, RequestGoesOn DEF R!UserIsOwned
  <2>2. \A u \in Member \ c4' : /\ R!Raises(w, u)' <=> R!Raises(w, u)
                                /\ R!Lowers(w, u)' <=> R!Lowers(w, u)
    BY <1>1, <1>6 DEF R!Raises, R!Lowers
  <2>3. \A u \in Member \ c4' :
          R!Copies(w, u)' => c3'[w].flags.presenter = c2[u].meta.presenter
    BY <1>1, <1>6 DEF R!Copies, R!At
  <2> QED
    BY <1>1, <1>6, <1>7, <2>1, <2>2, <2>3, RequestUsers
<1>12. R!PresenterIsKept'
  <2>1. c3'[w].at \notin R!InTurn
    BY <1>6 DEF R!InTurn
  <2> QED
    BY <1>6, <1>7, <2>1, RequestPresenters
<1> QED
  BY <1>8, <1>9, <1>10, <1>11, <1>12

-----------------------------------------------------------------------------
(* Nobody else is at a user a request writes.                              *)
LEMMA RequestSolo ==
  ASSUME R!RequestsInvariant, NEW w \in Handler, c3[w].at \notin {"free", "over"},
         NEW u \in Member \ c4, u \in R!Writes(c3[w].req)
  PROVE  \A v \in Handler : v # w => ~R!Raises(v, u) /\ ~R!Lowers(v, u) /\ ~R!Copies(v, u)
<1> SUFFICES ASSUME NEW v \in Handler, v # w
             PROVE  ~R!Raises(v, u) /\ ~R!Lowers(v, u) /\ ~R!Copies(v, u)
  OBVIOUS
<1>1. c3[v].req \in R!Request
  BY DEF R!RequestsInvariant, R!RequestsTypeOK, R!WorkerState
<1>2. c3[v].at \notin {"free", "over"} => u \notin R!Writes(c3[v].req)
  BY DEF R!RequestsInvariant, R!UserIsOwned, R!Alone, R!Busy
<1>3. R!KeepsToIts(v)
  BY DEF R!RequestsInvariant
<1> QED
  BY <1>1, <1>2, <1>3, RequestWrites
     DEF R!KeepsToIts, R!InTurn, R!Raises, R!Lowers, R!Copies, R!At

SwitchStep(w) ==
  \/ R!SwitchStart(w) \/ R!PutFlag(w) \/ R!ReadPresenter(w) \/ R!PutPresenter(w)
  \/ R!SwitchFails(w)

LEMMA RequestSwitches ==
  ASSUME R!RequestsInvariant, NEW w \in Handler, SwitchStep(w)
  PROVE  /\ c3[w] \in R!WorkerState /\ c3[w].req \in R!Request
         /\ c3[w].req.kind \in R!Switching
         /\ c3[w].at \in {"read", "flag"} \cup R!InTurn
         /\ R!NewPresenter(c3[w].req) \in R!Writes(c3[w].req) \cap Member
         /\ \A u \in Member : u = c3[w].req.user \/ c3[w].req.kind = "promote" =>
              u \in R!Writes(c3[w].req)
         /\ c3[w].req.user \in Member
         /\ UNCHANGED <<c1, c5, c6, c7>> /\ c4 \subseteq c4'
<1>1. c3[w] \in R!WorkerState /\ c3[w].req \in R!Request
  BY DEF R!RequestsInvariant, R!RequestsTypeOK, R!WorkerState
<1>2. /\ c3[w].at \in {"read", "flag"} \cup R!InTurn
      /\ UNCHANGED <<c1, c5, c6, c7>> /\ c4 \subseteq c4'
  BY DEF SwitchStep, R!SwitchStart, R!PutFlag, R!ReadPresenter, R!PutPresenter, R!SwitchFails,
         R!InTurn
<1>3. c3[w].req.kind \in R!Switching
  BY DEF SwitchStep, R!SwitchStart, R!PutFlag, R!ReadPresenter, R!PutPresenter, R!SwitchFails,
         R!InTurn, R!RequestsInvariant, R!KeepsToIts
<1> QED
  BY <1>1, <1>2, <1>3, RequestKinds, RequestWrites DEF R!Switching, R!NewPresenter

(* Where a switch goes next, whatever it writes.                           *)
LEMMA RequestSwitchStep ==
  ASSUME R!RequestsInvariant, NEW w \in Handler, SwitchStep(w), R!Online' = R!Online
  PROVE  /\ c3' \in [Handler -> R!WorkerState] /\ GoesOn(w)
         /\ c3'[w].req = c3[w].req
         /\ \A v \in Handler : v # w => c3'[v] = c3[v]
         /\ \A v \in Handler : R!KeepsToIts(v)'
         /\ R!RoomIsOwned'
         /\ c3[w].at = "read" => c3'[w].at = "flag"
         /\ c3[w].at \in {"flag"} \cup R!InTurn =>
               \/ c3'[w].at = "over"
               \/ /\ c3'[w].todo = c3[w].todo /\ c3'[w].old = c3[w].old
                  /\ c3[w].at = "flag" => c3'[w].at = "flagged"
                  /\ c3[w].at = "flagged" => c3'[w].at = "promoted"
                  /\ c3[w].at = "promoted" => c3'[w].at = "unflag"
                  /\ c3[w].at = "unflag" => c3'[w].at = "unflagged"
                  /\ c3[w].at = "unflagged" => c3'[w].at = "demoted"
                  /\ c3[w].at # "demoted"
<1> DEFINE new == R!NewPresenter(c3[w].req)
           Goes(step) ==
             /\ c3[w].at \in {"flag"} \cup R!InTurn
             /\ step.todo = c3[w].todo /\ step.old = c3[w].old
             /\ c3[w].at = "flag" => step.at = "flagged"
             /\ c3[w].at = "flagged" => step.at = "promoted"
             /\ c3[w].at = "promoted" => step.at = "unflag"
             /\ c3[w].at = "unflag" => step.at = "unflagged"
             /\ c3[w].at = "unflagged" => step.at = "demoted"
             /\ c3[w].at # "demoted"
           Begins(step) ==
             /\ c3[w].at = "read" /\ step.at = "flag" /\ step.todo = {new} /\ new \notin step.old
             /\ \A x, y \in step.old : x = y
             /\ step.old \subseteq R!Writes(c3[w].req)
<1>1. /\ c3[w] \in R!WorkerState /\ c3[w].req.kind \in R!Switching
      /\ c3[w].at \in {"read", "flag"} \cup R!InTurn
      /\ new \in R!Writes(c3[w].req) \cap Member
      /\ \A u \in Member : u = c3[w].req.user \/ c3[w].req.kind = "promote" =>
              u \in R!Writes(c3[w].req)
      /\ c3[w].req.user \in Member
      /\ UNCHANGED <<c1, c5, c6, c7>> /\ c4 \subseteq c4'
  BY RequestSwitches
<1> HIDE DEF new
<1>2. \/ \E step \in R!WorkerState :
            /\ R!Put(w, step) /\ step.at \in {"flag"} \cup R!InTurn /\ step.req = c3[w].req
            /\ Begins(step) \/ Goes(step)
      \/ R!Over(w) /\ c3[w].at \in {"flag"} \cup R!InTurn
  <2>1. CASE R!SwitchStart(w)
    <3>1. PICK old \in IF c3[w].req.kind = "demote" THEN {c3[w].req.user}
                       ELSE R!FindCurrentPresenter \cup {c3[w].req.user} :
            R!Put(w, [c3[w] EXCEPT !.at = "flag", !.todo = {new}, !.old = {old} \ {new}])
      BY <2>1 DEF R!SwitchStart, new
    <3> DEFINE step == [c3[w] EXCEPT !.at = "flag", !.todo = {new}, !.old = {old} \ {new}]
    <3>2. old \in Member /\ old \in R!Writes(c3[w].req)
      BY <1>1 DEF R!FindCurrentPresenter, R!Online, R!Switching
    <3>3. /\ step \in R!WorkerState /\ step.at = "flag" /\ step.req = c3[w].req
          /\ step.todo = {new} /\ step.old = {old} \ {new}
      BY <1>1, <3>2 DEF R!WorkerState
    <3>4. c3[w].at = "read"
      BY <2>1 DEF R!SwitchStart
    <3> HIDE DEF step
    <3>5. R!Put(w, step)
      BY <3>1 DEF step
    <3>6. Begins(step)
      BY <3>2, <3>3, <3>4
    <3> QED
      BY <3>3, <3>5, <3>6
  <2>2. ASSUME NEW at \in R!InTurn, NEW flags \in R!Flags,
               R!Put(w, [c3[w] EXCEPT !.at = at, !.flags = flags]),
               c3[w].at \in {"flag"} \cup R!InTurn,
               /\ c3[w].at = "flag" => at = "flagged"
               /\ c3[w].at = "flagged" => at = "promoted"
               /\ c3[w].at = "promoted" => at = "unflag"
               /\ c3[w].at = "unflag" => at = "unflagged"
               /\ c3[w].at = "unflagged" => at = "demoted"
               /\ c3[w].at # "demoted"
        PROVE  \E step \in R!WorkerState :
                 /\ R!Put(w, step) /\ step.at \in {"flag"} \cup R!InTurn /\ step.req = c3[w].req
                 /\ Begins(step) \/ Goes(step)
    <3> DEFINE step == [c3[w] EXCEPT !.at = at, !.flags = flags]
    <3>1. /\ step \in R!WorkerState /\ step.at = at /\ step.req = c3[w].req
          /\ step.todo = c3[w].todo /\ step.old = c3[w].old
      BY <1>1, <2>2 DEF R!WorkerState, R!InTurn
    <3>2. Goes(step)
      BY <2>2, <3>1
    <3>3. R!Put(w, step)
      BY <2>2
    <3> HIDE DEF step, Goes, Begins
    <3> QED
      BY <3>1, <3>2, <3>3
  <2>3. c3[w].flags \in R!Flags
    BY <1>1 DEF R!WorkerState
  <2>4. \A at : [c3[w] EXCEPT !.at = at] = [c3[w] EXCEPT !.at = at, !.flags = c3[w].flags]
    BY <1>1 DEF R!WorkerState
  <2> HIDE DEF Goes, Begins
  <2>5. CASE R!PutFlag(w)
    <3>1. /\ c3[w].at \in {"flag", "unflag"}
          /\ R!Put(w, [c3[w] EXCEPT !.at = IF c3[w].at = "flag" THEN "flagged" ELSE "unflagged"])
      BY <1>1, <2>5 DEF R!PutFlag, R!WorkerState
    <3> QED
      BY <2>2, <2>3, <2>4, <3>1 DEF R!InTurn
  <2>6. CASE R!ReadPresenter(w)
    <3>1. PICK u \in IF c3[w].at = "flagged" THEN c3[w].todo ELSE c3[w].old :
            /\ c3[w].at \in {"flagged", "unflagged"}
            /\ \E seen \in R!SeenOf(u) : R!Put(w, [c3[w] EXCEPT
                 !.at = IF c3[w].at = "flagged" THEN "promoted" ELSE "demoted",
                 !.flags = seen.meta])
      BY <1>1, <2>6 DEF R!ReadPresenter, R!WorkerState
    <3>2. u \in Member
      BY <1>1, <3>1 DEF R!WorkerState
    <3>3. PICK seen \in R!SeenOf(u) : R!Put(w, [c3[w] EXCEPT
                 !.at = IF c3[w].at = "flagged" THEN "promoted" ELSE "demoted",
                 !.flags = seen.meta])
      BY <3>1
    <3>4. seen \in R!MemberKeys
      BY <3>2, <3>3 DEF R!SeenOf, R!RequestsInvariant, R!RequestsTypeOK, R!PastTypeOK
    <3>5. seen.meta \in R!Flags
      BY <3>4 DEF R!MemberKeys
    <3> QED
      BY <2>2, <3>1, <3>3, <3>5 DEF R!InTurn
  <2>7. CASE R!PutPresenter(w)
    <3>1. \/ c3[w].at = "promoted" /\ R!Put(w, [c3[w] EXCEPT !.at = "unflag"])
          \/ R!Over(w) /\ c3[w].at \in R!InTurn
      BY <2>7 DEF R!PutPresenter, R!InTurn
    <3> QED
      BY <2>2, <2>3, <2>4, <3>1 DEF R!InTurn
  <2>8. CASE R!SwitchFails(w)
    BY <2>8 DEF R!SwitchFails, R!InTurn
  <2> QED
    BY <2>1, <2>5, <2>6, <2>7, <2>8 DEF SwitchStep
<1>3. R!RequestsTypeOK /\ c3[w].at \notin {"free", "over"}
  BY <1>1 DEF R!RequestsInvariant, R!InTurn
<1>4. R!KeepsToIts(w)
  BY DEF R!RequestsInvariant
<1>5. /\ c3' \in [Handler -> R!WorkerState] /\ GoesOn(w)
      /\ c3'[w].req = c3[w].req
      /\ \A v \in Handler : v # w => c3'[v] = c3[v]
      /\ \/ c3'[w].at = "over" /\ c3[w].at \in {"flag"} \cup R!InTurn
         \/ c3'[w].at \in {"flag"} \cup R!InTurn /\ (Begins(c3'[w]) \/ Goes(c3'[w]))
  <2>1. CASE R!Over(w) /\ c3[w].at \in {"flag"} \cup R!InTurn
    BY <1>3, <2>1, RequestOver DEF GoesOn
  <2>2. ASSUME NEW step \in R!WorkerState, R!Put(w, step), step.at \in {"flag"} \cup R!InTurn,
               step.req = c3[w].req, Begins(step) \/ Goes(step)
        PROVE  <1>5!1 /\ <1>5!2 /\ <1>5!3 /\ <1>5!4
    <3>1. /\ c3' \in [Handler -> R!WorkerState] /\ c3'[w] = step
          /\ \A v \in Handler : v # w => c3'[v] = c3[v]
      BY <1>3, <2>2, RequestPut
    <3> QED
      BY <1>3, <2>2, <3>1 DEF GoesOn, R!InTurn
  <2> QED
    BY <1>2, <2>1, <2>2
<1>6. R!KeepsToIts(w)'
  <2>1. CASE c3'[w].at = "over"
    BY <1>1, <1>5, <2>1 DEF R!KeepsToIts, R!InTurn, R!Switching
  <2>2. CASE Begins(c3'[w])
    <3>1. new \in R!Online
      BY <1>1, <1>4, <2>2 DEF R!KeepsToIts, new
    <3> QED
      BY <1>1, <1>5, <2>2, <3>1 DEF R!KeepsToIts, R!InTurn, R!Switching
  <2>3. CASE Goes(c3'[w]) /\ c3'[w].at \in {"flag"} \cup R!InTurn
    BY <1>1, <1>4, <1>5, <2>3 DEF R!KeepsToIts, R!InTurn, R!Switching
  <2> QED
    BY <1>5, <2>1, <2>2, <2>3
<1>7. \A v \in Handler : R!KeepsToIts(v)'
  BY <1>5, <1>6, RequestTheirs DEF R!RequestsInvariant
<1>8. R!RoomIsOwned'
  BY <1>1, <1>5, RequestApart DEF R!Switching
<1> QED
  BY <1>1, <1>5, <1>7, <1>8 DEF R!InTurn

(* The key, then the flag in the metadata, of a user nobody else is at.    *)
LEMMA RequestSwitchNext ==
  ASSUME R!RequestsInvariant, NEW w \in Handler, SwitchStep(w),
         R!PastTypeOK'
  PROVE  R!RequestsInvariant'
<1> USE DEF R!RequestsInvariant
<1>1. /\ c3[w] \in R!WorkerState /\ c3[w].req \in R!Request /\ c3[w].req.kind \in R!Switching
      /\ c3[w].at \in {"read", "flag"} \cup R!InTurn
      /\ UNCHANGED <<c1, c5, c6, c7>> /\ c4 \subseteq c4'
      /\ c3[w].todo \subseteq Member /\ c3[w].old \subseteq Member
      /\ c3[w].flags \in R!Flags
  BY RequestSwitches DEF R!WorkerState
<1>2. /\ c2' \in [Member -> R!MemberKeys]
      /\ c4' \subseteq {R!TheRoom} \cup Member
      /\ \A u \in Member : c2'[u].online = c2[u].online
  <2>1. CASE UNCHANGED <<c2, c4>>
    BY <2>1 DEF R!RequestsTypeOK
  <2>2. CASE R!PutFlag(w)
    <3> DEFINE value == (c3[w].at = "flag")
    <3>1. value \in BOOLEAN /\ c4' = c4
      BY <2>2 DEF R!PutFlag
    <3>2. \E u \in Member : c2' = [c2 EXCEPT ![u].presenter = value]
      BY <1>1, <2>2 DEF R!PutFlag
    <3> HIDE DEF value
    <3> QED
      BY <3>1, <3>2 DEF R!RequestsTypeOK, R!MemberKeys
  <2>3. CASE R!PutPresenter(w)
    <3> DEFINE put == [c3[w].flags EXCEPT !.presenter = (c3[w].at = "promoted")]
    <3>1. put \in R!Flags
      BY <1>1 DEF R!Flags
    <3>2. \E u \in Member : c2' = [c2 EXCEPT ![u].meta = put]
      BY <1>1, <2>3 DEF R!PutPresenter
    <3>3. c4' = c4
      BY <2>3 DEF R!PutPresenter
    <3> HIDE DEF put
    <3> QED
      BY <3>1, <3>2, <3>3 DEF R!RequestsTypeOK, R!MemberKeys
  <2>4. CASE R!SwitchFails(w)
    BY <1>1, <2>4 DEF R!SwitchFails, R!RequestsTypeOK
  <2> QED
    BY <2>1, <2>2, <2>3, <2>4 DEF SwitchStep, R!SwitchStart, R!ReadPresenter
<1>3. R!Online' = R!Online
  BY <1>2 DEF R!Online
<1>4. /\ c3' \in [Handler -> R!WorkerState] /\ GoesOn(w)
      /\ c3'[w].req = c3[w].req
      /\ \A v \in Handler : v # w => c3'[v] = c3[v]
      /\ \A v \in Handler : R!KeepsToIts(v)'
      /\ R!RoomIsOwned'
      /\ c3[w].at = "read" => c3'[w].at = "flag"
      /\ c3[w].at \in {"flag"} \cup R!InTurn =>
            \/ c3'[w].at = "over"
            \/ /\ c3'[w].todo = c3[w].todo /\ c3'[w].old = c3[w].old
               /\ c3[w].at = "flag" => c3'[w].at = "flagged"
               /\ c3[w].at = "flagged" => c3'[w].at = "promoted"
               /\ c3[w].at = "promoted" => c3'[w].at = "unflag"
               /\ c3[w].at = "unflag" => c3'[w].at = "unflagged"
               /\ c3[w].at = "unflagged" => c3'[w].at = "demoted"
               /\ c3[w].at # "demoted"
  BY <1>3, RequestSwitchStep
<1>5. R!RequestsTypeOK'
  BY <1>1, <1>2, <1>4 DEF R!RequestsTypeOK
<1>6. /\ \A u \in Member \ c4' : R!Alone(u)'
      /\ \A u \in Member : ~R!Copies(w, u) /\ ~R!Copies(w, u)'
  <2>1. \A u \in Member \ c4' : R!Alone(u)'
    BY <1>1, <1>4, RequestGoesOn DEF R!UserIsOwned
  <2> QED
    BY <1>1, <1>4, <2>1 DEF R!Copies, R!At, R!Switching
<1>7. c3[w].at \in {"flag"} \cup R!InTurn =>
        /\ c3[w].todo \cup c3[w].old \subseteq R!Writes(c3[w].req)
        /\ \E x \in R!Online : c3[w].todo = {x} /\ x \notin c3[w].old
        /\ \A x, y \in c3[w].old : x = y
  BY DEF R!KeepsToIts
<1>8. \A u \in Member \ c4' : R!UserIsOwned(u)'
  <2> SUFFICES ASSUME NEW u \in Member \ c4'
               PROVE  R!UserIsOwned(u)'
    OBVIOUS
  <2>1. u \in Member \ c4 /\ R!UserIsOwned(u) /\ R!Alone(u)' /\ ~R!Copies(w, u)'
    BY <1>1, <1>6
  <2>2. ASSUME c2'[u].presenter = c2[u].presenter, c2'[u].meta.presenter = c2[u].meta.presenter,
               R!Raises(w, u)' <=> R!Raises(w, u), R!Lowers(w, u)' <=> R!Lowers(w, u)
        PROVE  R!UserIsOwned(u)'
    BY <1>4, <2>1, <2>2, RequestUserRest
  <2>3. CASE R!SwitchStart(w)
    <3>1. c3[w].at = "read" /\ c3'[w].at = "flag" /\ c2' = c2
      BY <1>4, <2>3 DEF R!SwitchStart
    <3> QED
      BY <2>2, <3>1 DEF R!Raises, R!Lowers
  <2>4. CASE R!ReadPresenter(w)
    <3>1. /\ c2' = c2 /\ c3'[w].todo = c3[w].todo /\ c3'[w].old = c3[w].old
          /\ \/ c3[w].at = "flagged" /\ c3'[w].at = "promoted"
             \/ c3[w].at = "unflagged" /\ c3'[w].at = "demoted"
      <4>1. c2' = c2 /\ c3[w].at \in {"flagged", "unflagged"} /\ c3'[w].at # "over"
        BY <1>1, <2>4 DEF R!ReadPresenter, R!Put, R!RequestsTypeOK, R!WorkerState
      <4> QED
        BY <1>4, <4>1 DEF R!InTurn
    <3> QED
      BY <2>2, <3>1 DEF R!Raises, R!Lowers
  <2>5. CASE R!SwitchFails(w)
    <3>1. /\ c2' = c2 /\ c3'[w].at = "over"
          /\ c3[w].at \in {"flagged", "promoted"} => u \notin c3[w].todo
          /\ c3[w].at \in {"unflagged", "demoted"} => u \notin c3[w].old
      BY <2>5, RequestOver DEF R!SwitchFails
    <3> QED
      BY <2>2, <3>1 DEF R!Raises, R!Lowers
  <2>6. ASSUME NEW x \in Member, c3[w].at \in {"flag"} \cup R!InTurn,
               x \in R!Writes(c3[w].req), u = x,
               \/ /\ c2'[u].presenter = c2'[u].meta.presenter
                  /\ ~R!Raises(w, u)' /\ ~R!Lowers(w, u)'
               \/ R!Raises(w, u)' /\ c2'[u].presenter /\ ~R!Lowers(w, u)'
               \/ R!Lowers(w, u)' /\ ~c2'[u].presenter /\ ~R!Raises(w, u)'
        PROVE  R!UserIsOwned(u)'
    <3>1. \A v \in Handler : v # w => ~R!Raises(v, u) /\ ~R!Lowers(v, u) /\ ~R!Copies(v, u)
      BY <2>1, <2>6, RequestSolo DEF R!InTurn
    <3>2. \A v \in Handler : v # w => ~R!Raises(v, u)' /\ ~R!Lowers(v, u)' /\ ~R!Copies(v, u)'
      BY <1>4, <3>1 DEF R!Raises, R!Lowers, R!Copies, R!At
    <3> QED
      BY <2>1, <2>6, <3>2 DEF R!UserIsOwned
  <2>7. CASE R!PutFlag(w)
    <3>1. PICK x \in IF c3[w].at = "flag" THEN c3[w].todo ELSE c3[w].old :
            c2' = [c2 EXCEPT ![x].presenter = (c3[w].at = "flag")]
      BY <2>7 DEF R!PutFlag
    <3>2. c3[w].at \in {"flag", "unflag"} /\ c3'[w].at # "over"
      BY <1>1, <2>7 DEF R!PutFlag, R!Put, R!RequestsTypeOK, R!WorkerState
    <3>3. /\ c3'[w].todo = c3[w].todo /\ c3'[w].old = c3[w].old
          /\ c3'[w].at = IF c3[w].at = "flag" THEN "flagged" ELSE "unflagged"
      BY <1>4, <3>2 DEF R!InTurn
    <3>4. x \in Member /\ x \in R!Writes(c3[w].req)
      BY <1>1, <1>7, <3>1, <3>2 DEF R!InTurn
    <3>5. CASE u = x
      <4>1. c2'[u].presenter = (c3[w].at = "flag")
        BY <3>1, <3>4, <3>5 DEF R!RequestsTypeOK
      <4>2. \/ R!Raises(w, u)' /\ c2'[u].presenter /\ ~R!Lowers(w, u)'
            \/ R!Lowers(w, u)' /\ ~c2'[u].presenter /\ ~R!Raises(w, u)'
        BY <3>1, <3>2, <3>3, <3>5, <4>1 DEF R!Raises, R!Lowers
      <4> QED
        BY <2>6, <3>2, <3>4, <3>5, <4>2 DEF R!InTurn
    <3>6. CASE u # x
      <4>1. c2'[u] = c2[u]
        BY <3>1, <3>6 DEF R!RequestsTypeOK
      <4>2. ~R!Raises(w, u) /\ ~R!Lowers(w, u) /\ ~R!Raises(w, u)' /\ ~R!Lowers(w, u)'
        BY <1>7, <3>1, <3>2, <3>3, <3>6 DEF R!Raises, R!Lowers, R!InTurn
      <4> QED
        BY <2>2, <4>1, <4>2
    <3> QED
      BY <3>5, <3>6
  <2>8. CASE R!PutPresenter(w)
    <3> DEFINE put == [c3[w].flags EXCEPT !.presenter = (c3[w].at = "promoted")]
    <3>1. PICK x \in IF c3[w].at = "promoted" THEN c3[w].todo ELSE c3[w].old :
            c2' = [c2 EXCEPT ![x].meta = put]
      BY <2>8 DEF R!PutPresenter
    <3>2. put.presenter = (c3[w].at = "promoted")
      BY <1>1 DEF R!Flags
    <3> HIDE DEF put
    <3>3. c3[w].at \in {"promoted", "demoted"}
      BY <2>8 DEF R!PutPresenter
    <3>4. c3'[w].at \in {"unflag", "over"}
      BY <1>4, <3>3 DEF R!InTurn
    <3>5. x \in Member /\ x \in R!Writes(c3[w].req)
      BY <1>1, <1>7, <3>1, <3>3 DEF R!InTurn
    <3>6. ~R!Raises(w, u)' /\ ~R!Lowers(w, u)'
      BY <3>4 DEF R!Raises, R!Lowers
    <3>7. CASE u = x
      <4>1. c2'[u].meta = put /\ c2'[u].presenter = c2[u].presenter
        BY <3>1, <3>5, <3>7 DEF R!RequestsTypeOK
      <4>2. c2[u].presenter = (c3[w].at = "promoted")
        <5>1. IF c3[w].at = "promoted" THEN R!Raises(w, u) ELSE R!Lowers(w, u)
          BY <3>1, <3>3, <3>7 DEF R!Raises, R!Lowers
        <5>2. c2[u].presenter \in BOOLEAN
          BY DEF R!RequestsTypeOK, R!MemberKeys
        <5> QED
          BY <2>1, <5>1, <5>2 DEF R!UserIsOwned
      <4> QED
        BY <2>6, <3>2, <3>3, <3>5, <3>6, <3>7, <4>1, <4>2 DEF R!InTurn
    <3>8. CASE u # x
      <4>1. c2'[u] = c2[u]
        BY <3>1, <3>8 DEF R!RequestsTypeOK
      <4>2. ~R!Raises(w, u) /\ ~R!Lowers(w, u)
        BY <1>7, <3>1, <3>3, <3>8 DEF R!Raises, R!Lowers, R!InTurn
      <4> QED
        BY <2>2, <3>6, <4>1, <4>2
    <3> QED
      BY <3>7, <3>8
  <2> QED
    BY <2>3, <2>4, <2>5, <2>7, <2>8 DEF SwitchStep
<1>9. R!PresenterIsKept'
  <2>1. c3'[w].at \notin R!InTurn \/ c3[w].at = "flag"
        \/ (c3[w].at \in R!InTurn /\ c3'[w].todo = c3[w].todo)
    BY <1>1, <1>4 DEF R!InTurn
  <2>2. CASE c3[w].at # "flag" /\ \A u \in Member : c2'[u].presenter = c2[u].presenter
    BY <1>2, <1>4, <2>1, <2>2, RequestPresenters
  <2>3. CASE R!PutFlag(w)
    <3> SUFFICES ASSUME R!OneSwitch'
                 PROVE  /\ R!Presenters' # {}
                        /\ \A v \in R!Switches' : c3'[v].at \in R!InTurn =>
                             c3'[v].todo \subseteq R!Presenters'
                        /\ \A v \in R!Busy' : c3'[v].req.kind = "join" =>
                             c3'[v].req.user \notin R!Online'
      BY DEF R!PresenterIsKept
    <3>1. R!OneSwitch /\ R!Switches' = R!Switches /\ R!Busy' \subseteq R!Busy
      BY <1>4, RequestGoesOn
    <3>2. \A v \in R!Switches : v = w
      <4>1. w \in R!Switches
        BY <1>1 DEF R!Switches, R!InTurn
      <4> QED
        BY <3>1, <4>1 DEF R!OneSwitch
    <3>3. PICK x \in R!Online : c3[w].todo = {x} /\ x \notin c3[w].old
      BY <1>7, <2>3 DEF R!PutFlag, R!InTurn
    <3>4. PICK u \in IF c3[w].at = "flag" THEN c3[w].todo ELSE c3[w].old :
            c2' = [c2 EXCEPT ![u].presenter = (c3[w].at = "flag")]
      BY <2>3 DEF R!PutFlag
    <3>5. c3[w].at \in {"flag", "unflag"} /\ c3'[w].at # "over"
      BY <1>1, <2>3 DEF R!PutFlag, R!Put, R!RequestsTypeOK, R!WorkerState
    <3>6. x \in R!Presenters'
      <4>1. CASE c3[w].at = "flag"
        BY <1>3, <3>3, <3>4, <4>1 DEF R!Presenters, R!Online, R!RequestsTypeOK, R!MemberKeys
      <4>2. CASE c3[w].at = "unflag"
        <5>1. x \in R!Presenters
          BY <1>1, <3>1, <3>3, <4>2 DEF R!PresenterIsKept, R!Switches, R!InTurn
        <5>2. u # x
          BY <3>3, <3>4, <4>2
        <5> QED
          BY <1>3, <3>4, <5>1, <5>2 DEF R!Presenters, R!Online, R!RequestsTypeOK
      <4> QED
        BY <3>5, <4>1, <4>2
    <3>7. c3'[w].todo = {x}
      BY <1>4, <3>3, <3>5 DEF R!InTurn
    <3>8. \A v \in R!Busy' : c3'[v].req.kind = "join" => c3'[v].req.user \notin R!Online'
      <4>1. \A v \in R!Busy' : v \in Handler /\ c3'[v].req = c3[v].req
        BY <1>4 DEF R!Busy
      <4> QED
        BY <1>3, <3>1, <4>1 DEF R!PresenterIsKept
    <3> QED
      BY <3>1, <3>2, <3>6, <3>7, <3>8
  <2>4. CASE ~R!PutFlag(w)
    <3>1. \A u \in Member : c2'[u].presenter = c2[u].presenter
      <4>1. CASE c2' = c2
        BY <4>1
      <4>2. CASE R!PutPresenter(w)
        <5> DEFINE put == [c3[w].flags EXCEPT !.presenter = (c3[w].at = "promoted")]
        <5>1. \E x \in Member : c2' = [c2 EXCEPT ![x].meta = put]
          BY <1>1, <4>2 DEF R!PutPresenter
        <5> HIDE DEF put
        <5> QED
          BY <5>1 DEF R!RequestsTypeOK
      <4> QED
        BY <2>4, <4>1, <4>2 DEF SwitchStep, R!SwitchStart, R!ReadPresenter, R!SwitchFails
    <3>2. CASE R!SwitchFails(w)
      <4>1. c3'[w].at \notin R!InTurn
        BY <3>2, RequestOver DEF R!SwitchFails, R!InTurn
      <4> QED
        BY <1>2, <1>4, <3>1, <4>1, RequestPresenters
    <3>3. CASE ~R!SwitchFails(w)
      <4>1. c3[w].at # "flag"
        BY <2>4, <3>3 DEF SwitchStep, R!SwitchStart, R!ReadPresenter, R!PutPresenter
      <4> QED
        BY <2>2, <3>1, <4>1
    <3> QED
      BY <3>2, <3>3
  <2> QED
    BY <2>3, <2>4
<1> QED
  BY <1>4, <1>5, <1>8, <1>9

-----------------------------------------------------------------------------
(* The locks of all: the room's metadata first, then every user's.         *)
LockStep(w) ==
  \/ R!LockReadRoom(w) \/ R!LockPutRoom(w) \/ R!LockSkips(w) \/ R!LockList(w)
  \/ R!LockRead(w) \/ R!LockPut(w)

LEMMA RequestLockStep ==
  ASSUME R!RequestsInvariant, NEW w \in Handler, LockStep(w)
  PROVE  /\ c3[w] \in R!WorkerState /\ c3[w].req.kind = "lockall"
         /\ c3[w].at \in {"read", "put", "list", "each", "one"}
         /\ c3' \in [Handler -> R!WorkerState] /\ GoesOn(w)
         /\ \A v \in Handler : v # w => c3'[v] = c3[v]
         /\ c3'[w].at \in {"put", "list", "each", "one", "over"}
         /\ c3'[w].at = "put" => R!LockReadRoom(w) /\ (R!TheRoom \notin c4' => c3'[w].copy = c1)
         /\ c3'[w].at = "one" =>
              \A u \in c3'[w].old \ c4' : c3'[w].flags.presenter = c2[u].meta.presenter
<1> USE DEF R!RequestsInvariant
<1>1. /\ c3[w] \in R!WorkerState /\ c3[w].req.kind = "lockall"
      /\ c3[w].at \in {"read", "put", "list", "each", "one"}
  BY DEF R!RequestsTypeOK, LockStep, R!LockReadRoom, R!LockPutRoom, R!LockSkips, R!LockList,
         R!LockRead, R!LockPut, R!At
<1>2. \/ R!Over(w)
      \/ \E step \in R!WorkerState :
            /\ R!Put(w, step) /\ step.at \in {"put", "list", "each", "one"}
            /\ step.req = c3[w].req
            /\ step.at = "put" => R!LockReadRoom(w) /\ (R!TheRoom \notin c4' => step.copy = c1)
            /\ step.at = "one" =>
                 \A u \in step.old \ c4' : step.flags.presenter = c2[u].meta.presenter
  <2>1. CASE R!LockReadRoom(w)
    <3>3. PICK seen \in R!Seen : /\ R!Put(w, [c3[w] EXCEPT !.at = "put", !.copy = seen])
                                /\ R!Misled(R!TheRoom, seen # c1)
      BY <2>1 DEF R!LockReadRoom
    <3> DEFINE step == [c3[w] EXCEPT !.at = "put", !.copy = seen]
    <3>1. /\ step \in R!WorkerState /\ step.at = "put" /\ step.req = c3[w].req
          /\ R!TheRoom \notin c4' => step.copy = c1
      BY <1>1, <3>3 DEF R!WorkerState, R!RequestsTypeOK, R!PastTypeOK, R!Seen, R!Misled
    <3>2. R!Put(w, step)
      BY <3>3
    <3> HIDE DEF step
    <3> QED
      BY <2>1, <3>1, <3>2
  <2>2. ASSUME NEW at \in {"list", "each"}, R!Put(w, [c3[w] EXCEPT !.at = at])
        PROVE  <1>2!2
    <3> DEFINE step == [c3[w] EXCEPT !.at = at]
    <3>1. step \in R!WorkerState /\ step.at = at /\ step.req = c3[w].req
      BY <1>1 DEF R!WorkerState
    <3>2. R!Put(w, step)
      BY <2>2
    <3> HIDE DEF step
    <3> QED
      BY <3>1, <3>2
  <2>3. CASE R!LockPutRoom(w) \/ R!LockSkips(w) \/ R!LockPut(w)
    <3>1. \E at \in {"list", "each"} : R!Put(w, [c3[w] EXCEPT !.at = at])
      BY <1>1, <2>3 DEF R!LockPutRoom, R!LockSkips, R!LockPut, R!WorkerState
    <3> QED
      BY <2>2, <3>1
  <2>4. CASE R!LockList(w)
    <3> DEFINE step == [c3[w] EXCEPT !.at = "each", !.todo = R!Online \ {c3[w].req.by}]
    <3>1. step \in R!WorkerState /\ step.at = "each" /\ step.req = c3[w].req
      BY <1>1 DEF R!WorkerState, R!Online
    <3>2. R!Put(w, step)
      BY <2>4 DEF R!LockList
    <3> HIDE DEF step
    <3> QED
      BY <3>1, <3>2
  <2>5. CASE R!LockRead(w)
    <3>1. CASE c3[w].todo \subseteq Admin
      BY <2>5, <3>1 DEF R!LockRead
    <3>2. CASE ~(c3[w].todo \subseteq Admin)
      <4>5. PICK u \in c3[w].todo \ Admin : \E seen \in R!SeenOf(u) :
              /\ R!Put(w, [c3[w] EXCEPT !.at = "one", !.todo = c3[w].todo \ {u}, !.old = {u},
                                        !.flags = seen.meta])
              /\ R!Misled(u, seen.meta # c2[u].meta)
        BY <1>1, <2>5, <3>2 DEF R!LockRead, R!WorkerState
      <4>1. PICK seen \in R!SeenOf(u) :
              /\ R!Put(w, [c3[w] EXCEPT !.at = "one", !.todo = c3[w].todo \ {u}, !.old = {u},
                                        !.flags = seen.meta])
              /\ R!Misled(u, seen.meta # c2[u].meta)
        BY <4>5
      <4> DEFINE step == [c3[w] EXCEPT !.at = "one", !.todo = c3[w].todo \ {u}, !.old = {u},
                                       !.flags = seen.meta]
      <4>2. u \in Member /\ c3[w].todo \subseteq Member
        BY <1>1 DEF R!WorkerState
      <4>3. seen.meta \in R!Flags
        <5>1. seen \in R!MemberKeys
          BY <4>1, <4>2 DEF R!SeenOf, R!RequestsTypeOK, R!PastTypeOK
        <5> QED
          BY <5>1 DEF R!MemberKeys
      <4>4. /\ step \in R!WorkerState /\ step.at = "one" /\ step.req = c3[w].req
            /\ step.old = {u} /\ step.flags = seen.meta
            /\ u \notin c4' => seen.meta = c2[u].meta
        BY <1>1, <4>1, <4>2, <4>3 DEF R!WorkerState, R!Misled
      <4>6. R!Put(w, step)
        BY <4>1
      <4> HIDE DEF step
      <4> QED
        BY <4>4, <4>6
    <3> QED
      BY <3>1, <3>2
  <2> QED
    BY <2>1, <2>3, <2>4, <2>5 DEF LockStep
<1>3. CASE R!Over(w)
  BY <1>1, <1>3, RequestOver DEF GoesOn
<1>4. ASSUME NEW step \in R!WorkerState, R!Put(w, step),
             step.at \in {"put", "list", "each", "one"}, step.req = c3[w].req
      PROVE  /\ c3' \in [Handler -> R!WorkerState] /\ c3'[w] = step /\ GoesOn(w)
             /\ \A v \in Handler : v # w => c3'[v] = c3[v]
  BY <1>1, <1>4, RequestPut DEF GoesOn
<1>5. ASSUME NEW step \in R!WorkerState, R!Put(w, step),
             step.at \in {"put", "list", "each", "one"}, step.req = c3[w].req,
             step.at = "put" => R!LockReadRoom(w) /\ (R!TheRoom \notin c4' => step.copy = c1),
             step.at = "one" =>
                 \A u \in step.old \ c4' : step.flags.presenter = c2[u].meta.presenter
      PROVE  /\ c3' \in [Handler -> R!WorkerState] /\ GoesOn(w)
             /\ \A v \in Handler : v # w => c3'[v] = c3[v]
             /\ c3'[w].at \in {"put", "list", "each", "one"}
             /\ c3'[w].at = "put" => R!LockReadRoom(w) /\ (R!TheRoom \notin c4' => c3'[w].copy = c1)
             /\ c3'[w].at = "one" =>
                  \A u \in c3'[w].old \ c4' : c3'[w].flags.presenter = c2[u].meta.presenter
  BY <1>4, <1>5
<1> QED
  BY <1>1, <1>2, <1>3, <1>5

(* Another request that is under way writes no room, if nothing overlapped.*)
LEMMA RequestAlone ==
  ASSUME R!RequestsInvariant, NEW w \in Handler, c3[w].at \notin {"free", "over"},
         c3[w].req.kind \in {"room", "lockall"}, R!TheRoom \notin c4
  PROVE  \A v \in Handler : v # w /\ c3[v].at \notin {"free", "over"} =>
            c3[v].req.kind \notin {"room", "lockall"}
<1>1. \A v \in Handler : c3[v].req \in R!Request
  BY DEF R!RequestsInvariant, R!RequestsTypeOK, R!WorkerState
<1>2. \A v \in Handler : c3[v].req.kind \in {"room", "lockall"} =>
        R!TheRoom \in R!Writes(c3[v].req)
  BY <1>1, RequestWrites
<1>3. w \in R!Busy /\ \A v \in Handler : c3[v].at \notin {"free", "over"} => v \in R!Busy
  BY DEF R!Busy
<1> QED
  BY <1>2, <1>3 DEF R!RequestsInvariant, R!RoomIsOwned, R!Alone

LEMMA RequestLockNext ==
  ASSUME R!RequestsInvariant, NEW w \in Handler, LockStep(w),
         R!PastTypeOK'
  PROVE  R!RequestsInvariant'
<1> USE DEF R!RequestsInvariant
<1>1. /\ c3[w] \in R!WorkerState /\ c3[w].req.kind = "lockall"
      /\ c3[w].at \in {"read", "put", "list", "each", "one"}
      /\ c3' \in [Handler -> R!WorkerState] /\ GoesOn(w)
      /\ \A v \in Handler : v # w => c3'[v] = c3[v]
      /\ c3'[w].at \in {"put", "list", "each", "one", "over"}
      /\ c3'[w].at = "put" => R!LockReadRoom(w) /\ (R!TheRoom \notin c4' => c3'[w].copy = c1)
      /\ c3'[w].at = "one" =>
              \A u \in c3'[w].old \ c4' : c3'[w].flags.presenter = c2[u].meta.presenter
  BY RequestLockStep
<1>2. /\ UNCHANGED <<c6, c7>> /\ c4 \subseteq c4' /\ c4' \subseteq {R!TheRoom} \cup Member
      /\ c3'[w].req.kind = "lockall"
      /\ c3[w].flags \in R!Flags /\ c3[w].copy \in R!Copy
      /\ c1 \in R!Copy /\ c5 \in R!Copy
  BY <1>1 DEF R!Misled, LockStep, R!LockReadRoom, R!LockPutRoom, R!LockSkips, R!LockList,
              R!LockRead, R!LockPut, R!WorkerState, R!RequestsTypeOK, GoesOn
<1>3. /\ c2' \in [Member -> R!MemberKeys]
      /\ \A u \in Member : c2'[u].online = c2[u].online /\ c2'[u].presenter = c2[u].presenter
      /\ \A u \in Member \ c4 : c2'[u].meta.presenter = c2[u].meta.presenter
  <2>1. CASE c2' = c2
    BY <2>1 DEF R!RequestsTypeOK
  <2>2. CASE R!LockPut(w)
    <3> DEFINE put == [c3[w].flags EXCEPT !.locked = TRUE]
    <3>1. put \in R!Flags /\ put.presenter = c3[w].flags.presenter
      BY <1>2 DEF R!Flags
    <3>2. R!At(w, "one", "lockall")
          /\ c2' = [u \in Member |-> IF u \in c3[w].old THEN [c2[u] EXCEPT !.meta = put]
                                     ELSE c2[u]]
      BY <2>2 DEF R!LockPut
    <3> HIDE DEF put
    <3>3. \A u \in Member \ c4 : u \in c3[w].old => put.presenter = c2[u].meta.presenter
      BY <3>1, <3>2 DEF R!UserIsOwned, R!Copies
    <3> QED
      BY <3>1, <3>2, <3>3 DEF R!RequestsTypeOK, R!MemberKeys
  <2> QED
    BY <2>1, <2>2 DEF LockStep, R!LockReadRoom, R!LockPutRoom, R!LockSkips, R!LockList, R!LockRead
<1>4. R!RequestsTypeOK'
  <2>1. c1' \in R!Copy /\ c5' \in R!Copy
    BY <1>2, RequestFeatures DEF LockStep, R!LockReadRoom, R!LockPutRoom, R!LockSkips, R!LockList,
       R!LockRead, R!LockPut, R!LockDefault, R!Simply, R!Change, R!Copy
  <2> QED
    BY <1>1, <1>2, <1>3, <2>1 DEF R!RequestsTypeOK
<1>5. \A v \in Handler : R!KeepsToIts(v)'
  <2>1. R!KeepsToIts(w)'
    BY <1>1, <1>2 DEF R!KeepsToIts, R!InTurn
  <2>2. R!Online' = R!Online
    BY <1>3 DEF R!Online
  <2> QED
    BY <1>1, <2>1, <2>2, RequestTheirs
<1>6. R!RoomIsOwned'
  <2>1. R!TheRoom \notin c4' => R!Alone(R!TheRoom)'
    BY <1>1, <1>2, RequestGoesOn DEF R!RoomIsOwned
  <2>2. CASE UNCHANGED <<c1, c5>>
    <3> SUFFICES ASSUME R!TheRoom \notin c4'
                 PROVE  R!RoomIsOwned'
      BY DEF R!RoomIsOwned
    <3>1. \/ c3'[w].at \notin {"call", "put"}
          \/ c3'[w].copy = c1 /\ (R!At(w, "call", "room")' => ~R!Refused(w, c1)')
      BY <1>1, <1>2 DEF R!At
    <3>2. ~R!At(w, "put", "room")
      BY <1>1 DEF R!At
    <3> QED
      BY <1>1, <1>2, <2>1, <2>2, <3>1, <3>2, RequestRoom
  <2>3. CASE R!LockPutRoom(w)
    <3> SUFFICES ASSUME R!TheRoom \notin c4'
                 PROVE  R!RoomIsOwned'
      BY DEF R!RoomIsOwned
    <3>1. /\ c3[w].at = "put"
          /\ c1' = [c3[w].copy EXCEPT !["lock"] = w] /\ c5' = [c5 EXCEPT !["lock"] = w]
      BY <2>3 DEF R!LockPutRoom, R!At, R!LockDefault, R!Simply, R!Change
    <3>2. c3'[w].at \notin {"call", "put"}
      BY <1>1, <2>3, <3>1 DEF R!LockReadRoom, R!At
    <3>3. /\ c1 = c5 /\ c3[w].copy = c1
          /\ R!IsPutDown(c6, "ingress") /\ R!IsPutDown(c7, "sip")
      BY <1>1, <1>2, <3>1 DEF R!RoomIsOwned
    <3>4. \A v \in Handler : v # w => c3[v].at \notin {"call", "put"}
                                      \/ c3[v].req.kind \notin {"room", "lockall"}
      BY <1>1, <1>2, RequestAlone
    <3>5. \A v \in Handler : ~R!At(v, "put", "room")
      BY <1>1, <3>4 DEF R!At
    <3>6. \A g \in R!Feature : c1[g] # None => c1'[g] # None
      BY <1>2, <3>1, <3>3, ServicesAssumption DEF R!Copy, ServicesAssumption
    <3>7. R!IsPutDown(c6, "ingress")' /\ R!IsPutDown(c7, "sip")'
      <4>1. c6 \subseteq Handler /\ c7 \subseteq Handler
        BY DEF R!RequestsTypeOK
      <4> QED
        BY <1>2, <3>3, <3>5, <3>6, <4>1, RequestFeatures DEF R!IsPutDown
    <3>8. \A v \in Handler : c3'[v].at \in {"call", "put"} =>
            c3'[v].req.kind \notin {"room", "lockall"}
      BY <1>1, <3>2, <3>4
    <3>9. c1' = c5' /\ R!Alone(R!TheRoom)'
      BY <1>2, <2>1, <3>1, <3>3
    <3> QED
      BY <3>7, <3>8, <3>9 DEF R!RoomIsOwned, R!At
  <2> QED
    BY <2>2, <2>3 DEF LockStep, R!LockReadRoom, R!LockSkips, R!LockList, R!LockRead, R!LockPut
<1>7. \A u \in Member \ c4' : R!UserIsOwned(u)'
  <2>1. \A u \in Member \ c4' : R!Alone(u)'
    BY <1>1, <1>2, RequestGoesOn DEF R!UserIsOwned
  <2>2. \A u \in Member \ c4' : /\ R!Raises(w, u)' <=> R!Raises(w, u)
                                /\ R!Lowers(w, u)' <=> R!Lowers(w, u)
    BY <1>1 DEF R!Raises, R!Lowers
  <2>3. \A u \in Member \ c4' :
          R!Copies(w, u)' => c3'[w].flags.presenter = c2[u].meta.presenter
    BY <1>1, <1>2 DEF R!Copies, R!At
  <2> QED
    BY <1>1, <1>2, <1>3, <2>1, <2>2, <2>3, RequestUsers
<1>8. R!PresenterIsKept'
  <2>1. c3'[w].at \notin R!InTurn
    BY <1>1 DEF R!InTurn
  <2> QED
    BY <1>1, <1>3, <2>1, RequestPresenters
<1> QED
  BY <1>4, <1>5, <1>6, <1>7, <1>8

-----------------------------------------------------------------------------
(* A user joins: online from the step that adds it.                        *)
JoinStep(w) == R!JoinRead(w) \/ R!JoinAssign(w) \/ R!JoinAdd(w) \/ R!JoinFails(w)

LEMMA RequestJoinStep ==
  ASSUME R!RequestsInvariant, NEW w \in Handler, JoinStep(w)
  PROVE  /\ c3[w] \in R!WorkerState /\ c3[w].req.kind = "join"
         /\ c3[w].req.user \in Member /\ c3[w].req = R!Join(c3[w].req.user)
         /\ c3[w].at \in {"read", "assign", "add"}
         /\ c3' \in [Handler -> R!WorkerState] /\ GoesOn(w)
         /\ \A v \in Handler : v # w => c3'[v] = c3[v]
         /\ c3'[w].req = c3[w].req
         /\ c3'[w].at \in {"assign", "add", "over"}
         /\ UNCHANGED <<c1, c4, c5, c6, c7>>
<1> USE DEF R!RequestsInvariant
<1>1. /\ c3[w] \in R!WorkerState /\ c3[w].req \in R!Request /\ c3[w].req.kind = "join"
      /\ c3[w].at \in {"read", "assign", "add"}
      /\ UNCHANGED <<c1, c4, c5, c6, c7>>
  BY DEF R!RequestsTypeOK, R!WorkerState, JoinStep, R!JoinRead, R!JoinAssign, R!JoinAdd,
         R!JoinFails, R!At
<1>2. c3[w].req.user \in Member /\ c3[w].req = R!Join(c3[w].req.user)
  BY <1>1, RequestKinds
<1>3. \/ R!Over(w)
      \/ \E step \in R!WorkerState :
            R!Put(w, step) /\ step.at \in {"assign", "add"} /\ step.req = c3[w].req
  <2>1. CASE R!JoinRead(w)
    <3>1. PICK seen \in R!Seen : R!Put(w, [c3[w] EXCEPT !.at = "assign", !.copy = seen])
      BY <2>1 DEF R!JoinRead
    <3> DEFINE step == [c3[w] EXCEPT !.at = "assign", !.copy = seen]
    <3>2. step \in R!WorkerState /\ step.at = "assign" /\ step.req = c3[w].req
      BY <1>1, <3>1 DEF R!WorkerState, R!RequestsTypeOK, R!PastTypeOK, R!Seen
    <3>3. R!Put(w, step)
      BY <3>1
    <3> HIDE DEF step
    <3> QED
      BY <3>2, <3>3
  <2>2. CASE R!JoinAssign(w)
    <3> DEFINE u == c3[w].req.user
               locked == u \notin Admin /\ c3[w].copy["lock"] # None
               waiting == u \notin Admin
               flagsOf(isPresenter) ==
                 [R!NoFlags EXCEPT !.presenter = isPresenter, !.locked = locked,
                                   !.waiting = waiting]
    <3>1. PICK isPresenter \in BOOLEAN :
            R!Put(w, [c3[w] EXCEPT !.at = "add", !.flags = flagsOf(isPresenter)])
      BY <2>2 DEF R!JoinAssign
    <3> DEFINE flags == flagsOf(isPresenter)
               step == [c3[w] EXCEPT !.at = "add", !.flags = flags]
    <3>2. locked \in BOOLEAN /\ waiting \in BOOLEAN
      OBVIOUS
    <3> HIDE DEF locked, waiting
    <3>3. flags \in R!Flags
      BY <3>2, RequestFree DEF R!Flags
    <3> HIDE DEF flags
    <3>4. step \in R!WorkerState /\ step.at = "add" /\ step.req = c3[w].req
      BY <1>1, <3>3 DEF R!WorkerState
    <3>5. R!Put(w, step)
      BY <3>1 DEF flags
    <3> HIDE DEF step
    <3> QED
      BY <3>4, <3>5
  <2>3. CASE R!JoinAdd(w) \/ R!JoinFails(w)
    BY <2>3 DEF R!JoinAdd, R!JoinFails
  <2> QED
    BY <2>1, <2>2, <2>3 DEF JoinStep
<1>4. CASE R!Over(w)
  BY <1>1, <1>2, <1>4, RequestOver DEF GoesOn
<1>5. ASSUME NEW step \in R!WorkerState, R!Put(w, step), step.at \in {"assign", "add"},
             step.req = c3[w].req
      PROVE  /\ c3' \in [Handler -> R!WorkerState] /\ GoesOn(w)
             /\ \A v \in Handler : v # w => c3'[v] = c3[v]
             /\ c3'[w].req = c3[w].req
             /\ c3'[w].at \in {"assign", "add"}
  BY <1>1, <1>5, RequestPut DEF GoesOn
<1> QED
  BY <1>1, <1>2, <1>3, <1>4, <1>5

LEMMA RequestJoinNext ==
  ASSUME R!RequestsInvariant, NEW w \in Handler, JoinStep(w),
         R!PastTypeOK'
  PROVE  R!RequestsInvariant'
<1> USE DEF R!RequestsInvariant
<1> DEFINE x == c3[w].req.user
           put == [online |-> TRUE, presenter |-> c3[w].flags.presenter, meta |-> c3[w].flags]
<1>1. /\ c3[w] \in R!WorkerState /\ c3[w].req \in R!Request /\ c3[w].req.kind = "join"
      /\ x \in Member /\ c3[w].req = R!Join(x)
      /\ c3[w].at \in {"read", "assign", "add"}
      /\ c3' \in [Handler -> R!WorkerState] /\ GoesOn(w)
      /\ \A v \in Handler : v # w => c3'[v] = c3[v]
      /\ c3'[w].req = c3[w].req
      /\ c3'[w].at \in {"assign", "add", "over"}
      /\ UNCHANGED <<c1, c4, c5, c6, c7>>
      /\ c3[w].flags \in R!Flags
  BY RequestJoinStep DEF R!WorkerState
<1>2. c2' = c2 \/ c2' = [c2 EXCEPT ![x] = put]
  BY DEF JoinStep, R!JoinRead, R!JoinAssign, R!JoinAdd, R!JoinFails
<1>3. /\ put \in R!MemberKeys
      /\ put.online /\ put.presenter = put.meta.presenter
  BY <1>1 DEF R!Flags, R!MemberKeys
<1>4. R!Writes(c3[w].req) = {x}
  BY <1>1, RequestWrites
<1> HIDE DEF x, put
<1>5. /\ c2' \in [Member -> R!MemberKeys]
      /\ \A u \in Member : u # x => c2'[u] = c2[u]
      /\ c2'[x] = c2[x] \/ c2'[x] = put
  BY <1>1, <1>2, <1>3 DEF R!RequestsTypeOK
<1>6. R!RequestsTypeOK'
  BY <1>1, <1>5 DEF R!RequestsTypeOK
<1>7. R!Online \subseteq R!Online' /\ R!Online' \subseteq R!Online \cup {x}
  BY <1>3, <1>5 DEF R!Online
<1>8. \A v \in Handler : R!KeepsToIts(v)'
  <2>1. R!KeepsToIts(w)'
    BY <1>1 DEF R!KeepsToIts, R!InTurn
  <2> QED
    BY <1>1, <1>7, <2>1, RequestTheirs
<1>9. R!RoomIsOwned'
  BY <1>1, RequestApart
<1>10. \A u \in Member \ c4' : R!UserIsOwned(u)'
  <2> SUFFICES ASSUME NEW u \in Member \ c4'
               PROVE  R!UserIsOwned(u)'
    OBVIOUS
  <2>1. /\ u \in Member \ c4 /\ R!UserIsOwned(u) /\ R!Alone(u)'
        /\ ~R!Raises(w, u) /\ ~R!Lowers(w, u) /\ ~R!Copies(w, u)
        /\ ~R!Raises(w, u)' /\ ~R!Lowers(w, u)' /\ ~R!Copies(w, u)'
    <3>1. u \in Member \ c4 /\ R!UserIsOwned(u)
      BY <1>1
    <3>2. R!Alone(u)'
      BY <1>1, <3>1, RequestGoesOn DEF R!UserIsOwned
    <3> QED
      BY <1>1, <3>1, <3>2 DEF R!Raises, R!Lowers, R!Copies, R!At
  <2>2. CASE c2'[u] = c2[u]
    BY <1>1, <2>1, <2>2, RequestUserRest
  <2>3. CASE u = x /\ c2'[u] = put
    <3>1. \A v \in Handler : v # w => ~R!Raises(v, u) /\ ~R!Lowers(v, u) /\ ~R!Copies(v, u)
      BY <1>1, <1>4, <2>1, <2>3, RequestSolo
    <3>2. \A v \in Handler : v # w => ~R!Raises(v, u)' /\ ~R!Lowers(v, u)' /\ ~R!Copies(v, u)'
      BY <1>1, <3>1 DEF R!Raises, R!Lowers, R!Copies, R!At
    <3> QED
      BY <1>3, <2>1, <2>3, <3>2 DEF R!UserIsOwned
  <2> QED
    BY <1>5, <2>2, <2>3
<1>11. R!PresenterIsKept'
  <2> SUFFICES ASSUME R!OneSwitch'
               PROVE  /\ R!Presenters' # {}
                      /\ \A v \in R!Switches' : c3'[v].at \in R!InTurn =>
                             c3'[v].todo \subseteq R!Presenters'
                      /\ \A v \in R!Busy' : c3'[v].req.kind = "join" =>
                             c3'[v].req.user \notin R!Online'
    BY DEF R!PresenterIsKept
  <2>1. R!OneSwitch /\ R!Switches' = R!Switches /\ R!Busy' \subseteq R!Busy
    BY <1>1, RequestGoesOn
  <2>2. x \notin R!Online
    <3>1. w \in R!Busy
      BY <1>1 DEF R!Busy
    <3> QED
      BY <1>1, <2>1, <3>1 DEF R!PresenterIsKept, x
  <2>3. R!Presenters \subseteq R!Presenters'
    <3>1. R!Online \subseteq Member
      BY DEF R!Online
    <3> QED
      BY <1>5, <1>7, <2>2, <3>1 DEF R!Presenters
  <2>4. \A v \in R!Switches : v \in Handler /\ v # w
    BY <1>1 DEF R!Switches, R!Switching
  <2>5. ASSUME NEW v \in R!Busy', c3'[v].req.kind = "join"
        PROVE  c3'[v].req.user \notin R!Online'
    <3>1. v \in Handler /\ c3'[v].req = c3[v].req /\ v \in R!Busy
      BY <1>1, <2>1 DEF R!Busy
    <3>2. c3[v].req.user \notin R!Online
      BY <2>1, <2>5, <3>1 DEF R!PresenterIsKept
    <3>3. CASE c2' = c2
      BY <3>1, <3>2, <3>3 DEF R!Online
    <3>4. CASE R!JoinAdd(w)
      <4>1. v # w
        BY <3>4, RequestOver DEF R!JoinAdd, R!Busy
      <4>2. c3[v].req \in R!Request /\ c3[v].at # "free" /\ c3[w].at # "free"
        BY <1>1, <3>1 DEF R!RequestsTypeOK, R!WorkerState, R!Busy
      <4>3. c3[v].req.user \in Member /\ c3[v].req = R!Join(c3[v].req.user)
        BY <2>5, <3>1, <4>2, RequestKinds
      <4>4. c3[v].req.user # x
        BY <1>1, <2>1, <3>1, <4>1, <4>2, <4>3 DEF R!OneSwitch, R!Joins
      <4> QED
        BY <1>7, <3>1, <3>2, <4>4
    <3> QED
      BY <3>3, <3>4 DEF JoinStep, R!JoinRead, R!JoinAssign, R!JoinFails
  <2> QED
    BY <1>1, <2>1, <2>3, <2>4, <2>5 DEF R!PresenterIsKept
<1> QED
  BY <1>6, <1>8, <1>9, <1>10, <1>11

-----------------------------------------------------------------------------
(* All together.                                                           *)

LEMMA RequestsStart == R!RequestsInit => R!RequestsInvariant
<1> SUFFICES ASSUME R!RequestsInit
             PROVE  R!RequestsInvariant
  OBVIOUS
<1>1. /\ c1 = R!NoCopy /\ c5 = R!NoCopy /\ c3 = [w \in Handler |-> R!Free]
      /\ c4 = {} /\ c6 = {} /\ c7 = {} /\ c8 = {} /\ c9 = [u \in Member |-> {}]
  BY DEF R!RequestsInit
<1>2. PICK p \in Admin, absent \in SUBSET Member :
        /\ p \notin absent
        /\ c2 = [u \in Member |->
                [online |-> u \notin absent, presenter |-> u = p,
                 meta |-> [R!NoFlags EXCEPT !.presenter = (u = p),
                                            !.waiting = u \notin absent \cup Admin]]]
  BY DEF R!RequestsInit
<1>3. \A u \in Member :
        /\ c2[u].meta \in R!Flags /\ c2[u].meta.presenter = c2[u].presenter
        /\ c2[u].online \in BOOLEAN /\ c2[u].presenter \in BOOLEAN
        /\ c2[u] \in R!MemberKeys
  <2> SUFFICES ASSUME NEW u \in Member
               PROVE  <1>3!(u)
    OBVIOUS
  <2> DEFINE off == (u \notin absent)
             is == (u = p)
             waits == (u \notin absent \cup Admin)
             flags == [R!NoFlags EXCEPT !.presenter = is, !.waiting = waits]
  <2>1. c2[u] = [online |-> off, presenter |-> is, meta |-> flags]
    BY <1>2
  <2>2. off \in BOOLEAN /\ is \in BOOLEAN /\ waits \in BOOLEAN
    OBVIOUS
  <2> HIDE DEF off, is, waits
  <2>3. flags \in R!Flags /\ flags.presenter = is
    BY <2>2, RequestFree DEF R!Flags
  <2> HIDE DEF flags
  <2> QED
    BY <2>1, <2>2, <2>3 DEF R!MemberKeys
<1>4. R!RequestsTypeOK /\ R!PastTypeOK
  <2>1. c2 \in [Member -> R!MemberKeys]
    BY <1>2, <1>3
  <2> QED
    BY <1>1, <2>1, RequestFree DEF R!RequestsTypeOK, R!PastTypeOK
<1>5. R!Busy = {} /\ R!Switches = {} /\ \A w \in Handler : c3[w].at = "free"
  BY <1>1, RequestFree DEF R!Busy, R!Switches
<1>6. \A w \in Handler : R!KeepsToIts(w)
  <2>1. R!Free.req = R!ManageActivation /\ R!ManageActivation.calls = "nothing"
    BY DEF R!Free, R!ManageActivation, R!Simply, R!Change
  <2> QED
    BY <1>1, <1>5, <2>1 DEF R!KeepsToIts, R!InTurn
<1>7. R!RoomIsOwned
  BY <1>1, <1>5 DEF R!RoomIsOwned, R!Alone, R!IsPutDown, R!At
<1>8. \A u \in Member \ c4 : R!UserIsOwned(u)
  BY <1>3, <1>5 DEF R!UserIsOwned, R!Alone, R!Raises, R!Lowers, R!Copies, R!At
<1>9. R!PresenterIsKept
  <2>1. p \in Member
    BY ServicesAssumption DEF ServicesAssumption
  <2>2. p \in R!Presenters
    BY <1>2, <2>1 DEF R!Presenters, R!Online
  <2> QED
    BY <1>5, <2>2 DEF R!PresenterIsKept
<1> QED
  BY <1>4, <1>6, <1>7, <1>8, <1>9 DEF R!RequestsInvariant

LEMMA RequestsNextKeeps ==
  R!RequestsInvariant /\ [R!RequestsNext]_(R!requestVars) => R!RequestsInvariant'
<1> SUFFICES ASSUME R!RequestsInvariant, [R!RequestsNext]_(R!requestVars)
             PROVE  R!RequestsInvariant'
  OBVIOUS
<1>1. CASE R!RequestsNext
  <2>1. R!PastTypeOK'
    BY <1>1 DEF R!RequestsNext, R!CopiesLag, R!RequestsInvariant, R!RequestsTypeOK, R!PastTypeOK
  <2> QED
    BY <1>1, <2>1, RequestStartNext, RequestRoomNext, RequestUserNext, RequestSwitchNext,
       RequestLockNext, RequestJoinNext
       DEF R!RequestsNext, R!RequestsStep, RoomStep, UserStep, SwitchStep, LockStep, JoinStep
<1>2. CASE UNCHANGED R!requestVars
  BY <1>2
     DEF R!requestVars, R!RequestsInvariant, R!RequestsTypeOK, R!PastTypeOK, R!KeepsToIts,
         R!RoomIsOwned, R!UserIsOwned, R!PresenterIsKept, R!Alone, R!Busy, R!Online, R!Presenters,
         R!Switches, R!Joins, R!OneSwitch, R!Refused, R!At, R!IsPutDown, R!Raises, R!Lowers,
         R!Copies
<1> QED
  BY <1>1, <1>2

LEMMA RequestsHold ==
  R!RequestsInvariant => R!RoomChangesStick /\ R!FlagsAgree /\ R!OneSwitchKeepsPresenter
<1> SUFFICES ASSUME R!RequestsInvariant
             PROVE  R!RoomChangesStick /\ R!FlagsAgree /\ R!OneSwitchKeepsPresenter
  OBVIOUS
<1> USE DEF R!RequestsInvariant
<1>1. R!RoomChangesStick
  BY DEF R!RoomChangesStick, R!RoomIsOwned, R!IsPutDown
<1>2. R!FlagsAgree
  <2> SUFFICES ASSUME NEW u \in Member \ c4, R!Idle(u)
               PROVE  c2[u].presenter = c2[u].meta.presenter
    BY DEF R!FlagsAgree
  <2>1. ASSUME NEW w \in Handler, R!Raises(w, u) \/ R!Lowers(w, u)
        PROVE  FALSE
    <3>1. w \in R!Busy /\ u \in R!Writes(c3[w].req)
      BY <2>1 DEF R!Raises, R!Lowers, R!Busy, R!KeepsToIts, R!InTurn
    <3> QED
      BY <3>1 DEF R!Idle
  <2> QED
    BY <2>1 DEF R!UserIsOwned
<1>3. R!OneSwitchKeepsPresenter
  BY DEF R!OneSwitchKeepsPresenter, R!PresenterIsKept
<1> QED
  BY <1>1, <1>2, <1>3

(* Whatever is asked of the room, by however many, its metadata hold the   *)
(* last change, no second ingress or dispatch rule is made and a user's    *)
(* two presenter flags agree, unless two changes of one object overlapped, *)
(* one was left half done, or one put back what it had read from a copy    *)
(* that lagged; and one switch never leaves the room without a presenter,  *)
(* whatever else is under way (room_features.go, user_lock.go,             *)
(* user_presenter.go).                                                     *)
THEOREM ChangesAlwaysStick == Spec => []ChangesStick
<1> DEFINE Inv == active = "requests" => R!RequestsInvariant
<1>1. Init => Inv
  BY RequestsStart DEF Init
<1>2. Inv /\ [Next]_<<active, cells>> => Inv'
  <2> SUFFICES ASSUME Inv, [Next]_<<active, cells>>, active' = "requests"
               PROVE  R!RequestsInvariant'
    OBVIOUS
  <2>1. active = "requests" /\ [R!RequestsNext]_(R!requestVars)
    BY DEF Next, cells, R!requestVars
  <2> QED
    BY <2>1, RequestsNextKeeps
<1>3. Inv => ChangesStick
  BY RequestsHold DEF ChangesStick
<1> QED
  BY <1>1, <1>2, <1>3, PTL DEF Spec
=============================================================================
