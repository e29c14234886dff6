------------------------ MODULE RoomLifecycleProofs ------------------------
(***************************************************************************)
(* Theorems about RoomLifecycle, for every set of processes and sessions   *)
(* and every value of the bounds.                                          *)
(***************************************************************************)
EXTENDS RoomLifecycle, TLAPS

-----------------------------------------------------------------------------
(* The records the actions build and update belong to their types.         *)

LEMMA NoLocalsType == NoLocals \in Locals
BY ConstantsAssumption, SMT
   DEF ConstantsAssumption, Locals, NoLocals, Session

LEMMA LocalsFields ==
  ASSUME NEW l \in Locals
  PROVE  /\ l.id \in 0 .. MaxRow /\ l.sid \in Session /\ l.misread \in BOOLEAN
         /\ l.puts \subseteq RoomKeys /\ l.queue \subseteq RowId
BY DEF Locals

LEMMA RowIdType == RowId \subseteq 0 .. MaxRow /\ 0 \in 0 .. MaxRow
BY ConstantsAssumption DEF ConstantsAssumption, RowId

LEMMA MyUpdate ==
  ASSUME my \in [Proc -> Locals], NEW p \in Proc
  PROVE  /\ \A r \in 0 .. MaxRow : [my[p] EXCEPT !.id = r] \in Locals
         /\ \A s \in Session : [my[p] EXCEPT !.sid = s] \in Locals
         /\ \A b \in BOOLEAN : [my[p] EXCEPT !.misread = b] \in Locals
         /\ \A r \in 0 .. MaxRow, s \in Session :
              [my[p] EXCEPT !.id = r, !.sid = s] \in Locals
         /\ \A s \in Session, b \in BOOLEAN :
              [my[p] EXCEPT !.sid = s, !.misread = b] \in Locals
         /\ \A s \in Session, b, c \in BOOLEAN :
              [my[p] EXCEPT !.sid = s, !.ended = b, !.misread = c] \in Locals
         /\ \A r \in RowId : [my[p] EXCEPT !.id = r, !.queue = @ \ {r}] \in Locals
<1>1. my[p] \in Locals
  OBVIOUS
<1> DEFINE l == my[p]
<1>2. l \in Locals
  BY <1>1
<1> HIDE DEF l
<1>3. /\ \A r \in 0 .. MaxRow : [l EXCEPT !.id = r] \in Locals
      /\ \A s \in Session : [l EXCEPT !.sid = s] \in Locals
      /\ \A b \in BOOLEAN : [l EXCEPT !.misread = b] \in Locals
      /\ \A r \in 0 .. MaxRow, s \in Session :
           [l EXCEPT !.id = r, !.sid = s] \in Locals
      /\ \A s \in Session, b \in BOOLEAN :
           [l EXCEPT !.sid = s, !.misread = b] \in Locals
  BY <1>2, RowIdType DEF Locals
<1>4. \A s \in Session, b, c \in BOOLEAN :
        [l EXCEPT !.sid = s, !.ended = b, !.misread = c] \in Locals
  BY <1>2, RowIdType DEF Locals
<1>5. \A r \in RowId : [l EXCEPT !.id = r, !.queue = @ \ {r}] \in Locals
  BY <1>2, RowIdType DEF Locals
<1> QED
  BY <1>3, <1>4, <1>5 DEF l

LEMMA BucketType == NoBucket \in Bucket /\ EmptyBucket \in Bucket
BY ConstantsAssumption, SMT
   DEF ConstantsAssumption, Bucket, NoBucket, EmptyBucket, Session, Status

LEMMA BucketUpdate ==
  ASSUME NEW b \in Bucket
  PROVE  /\ b.id \in 0 .. MaxRow /\ b.sid \in Session /\ b.status \in Status
         /\ \A r \in 0 .. MaxRow : [b EXCEPT !.id = r] \in Bucket
         /\ \A s \in Session : [b EXCEPT !.sid = s] \in Bucket
         /\ \A t \in Status : [b EXCEPT !.status = t] \in Bucket
BY DEF Bucket

LEMMA RowType ==
  /\ NewRow \in Row
  /\ \A s \in Session : [sid |-> s, running |-> TRUE] \in Row
  /\ \A row \in Row : row.sid \in Session /\ [row EXCEPT !.running = FALSE] \in Row
BY DEF Row, NewRow, Session

LEMMA CountsUpdate ==
  ASSUME NEW c \in Counts
  PROVE  /\ [c EXCEPT !.requests = @ + 1] \in Counts
         /\ [c EXCEPT !.expiries = @ + 1] \in Counts
         /\ [c EXCEPT !.crashes = @ + 1] \in Counts
         /\ [c EXCEPT !.failures = @ + 1] \in Counts
         /\ [c EXCEPT !.misreads = @ + 1] \in Counts
BY DEF Counts

(* What a handler is told of the room: the bucket's own session unless it  *)
(* misread, and nothing only if there is no bucket.                        *)
Copy == [id : RowId, sid : Session]

LEMMA CopyFields ==
  ASSUME NEW c \in Copy
  PROVE  c.id \in RowId /\ c.sid \in Session
BY DEF Copy

LEMMA CurrentIs ==
  ASSUME bucket \in Bucket, NEW info \in Current
  PROVE  /\ info \in Bucket /\ info.id = bucket.id /\ info.sid = bucket.sid
         /\ info = NoBucket <=> bucket = NoBucket
<1>1. CASE info = bucket
  BY <1>1
<1>2. CASE bucket.id # 0 /\ \E t \in LateStatus : info = [bucket EXCEPT !.status = t]
  <2>1. PICK t \in LateStatus : info = [bucket EXCEPT !.status = t]
    BY <1>2
  <2>2. t \in Status /\ t # "absent"
    BY DEF LateStatus, Status
  <2>3. info \in Bucket /\ info.id = bucket.id /\ info.sid = bucket.sid /\ info.status = t
    BY <2>1, <2>2 DEF Bucket
  <2> QED
    BY <1>2, <2>2, <2>3 DEF NoBucket
<1> QED
  BY <1>1, <1>2 DEF Current

LEMMA MisreadIs ==
  ASSUME bucket \in Bucket, copies \subseteq Copy, NEW info \in Misread
  PROVE  info \in Bucket /\ info # NoBucket
<1>1. PICK c \in copies \cup (IF bucket = NoBucket THEN {}
                             ELSE {[id |-> 0, sid |-> s] : s \in {NoSid, bucket.sid}}),
           t \in (LateStatus \cup {bucket.status}) \ {"absent"} :
             info = [id |-> c.id, sid |-> c.sid, status |-> t]
  BY DEF Misread
<1>2. t \in Status /\ t # "absent"
  BY DEF LateStatus, Status, Bucket
<1>3. c.id \in 0 .. MaxRow /\ c.sid \in Session
  <2>1. CASE c \in copies
    BY <2>1, CopyFields, RowIdType
  <2>2. CASE \E s \in {NoSid, bucket.sid} : c = [id |-> 0, sid |-> s]
    BY <2>2, RowIdType DEF Session, Bucket
  <2> QED
    BY <2>1, <2>2
<1> QED
  BY <1>1, <1>2, <1>3 DEF Bucket, NoBucket

LEMMA GetsInfo ==
  ASSUME bucket \in Bucket, copies \subseteq Copy, spent \in Counts,
         NEW info, NEW misread \in BOOLEAN, GetRoomInfo(info, misread)
  PROVE  /\ info \in Bucket /\ info.id \in 0 .. MaxRow /\ info.sid \in Session
         /\ ~misread => info.id = bucket.id /\ info.sid = bucket.sid
         /\ ~misread => (info = NoBucket <=> bucket = NoBucket)
         /\ info = NoBucket => ~misread
         /\ spent' \in Counts
         /\ spent'.expiries = spent.expiries
         /\ spent'.crashes = spent.crashes /\ spent'.failures = spent.failures
         /\ spent'.misreads = 0 => ~misread /\ spent.misreads = 0
<1>1. CASE ~misread
  BY <1>1, CurrentIs DEF GetRoomInfo, Bucket
<1>2. CASE misread
  <2>1. spent' = [spent EXCEPT !.misreads = @ + 1] /\ info \in Misread
    BY <1>2 DEF GetRoomInfo
  <2>2. spent' \in Counts /\ spent'.expiries = spent.expiries
        /\ spent'.crashes = spent.crashes /\ spent'.failures = spent.failures
        /\ spent'.misreads # 0
    BY <2>1 DEF Counts
  <2> QED
    BY <1>2, <2>1, <2>2, MisreadIs DEF Bucket
<1> QED
  BY <1>1, <1>2

LEMMA FailureCounts ==
  ASSUME spent \in Counts, CallFails
  PROVE  /\ spent' \in Counts /\ spent'.failures # 0
         /\ spent'.expiries = spent.expiries /\ spent'.misreads = spent.misreads
         /\ spent'.crashes = spent.crashes
BY DEF CallFails, Counts

LEMMA PutsBucket ==
  ASSUME copies \subseteq Copy, NEW value \in Bucket, PutBucket(value)
  PROVE  bucket' = value /\ copies' \subseteq Copy
<1>1. value.id # 0 => value.id \in RowId
  BY ConstantsAssumption DEF ConstantsAssumption, Bucket, RowId
<1>2. value.id # 0 => {[id |-> value.id, sid |-> s] : s \in {NoSid, value.sid}} \subseteq Copy
  BY <1>1 DEF Copy, Bucket, Session
<1> QED
  BY <1>2 DEF PutBucket

LEMMA StatusTyped ==
  ASSUME bucket \in Bucket, copies \subseteq Copy, NEW t \in Status, UpdateRoomStatus(t)
  PROVE  bucket' \in Bucket /\ copies' \subseteq Copy
<1>1. [bucket EXCEPT !.status = t] \in Bucket
  BY BucketUpdate
<1> QED
  BY <1>1, PutsBucket DEF UpdateRoomStatus, kv

LEMMA SessionType == NoSid \in Session /\ Sid \subseteq Session
BY DEF Session

LEMMA JanitorQueueType ==
  \A q \in SUBSET RowId : [NoLocals EXCEPT !.queue = q] \in Locals
BY NoLocalsType DEF Locals

LEMMA LivekitEndType ==
  ASSUME media \in Session, hooks \subseteq Hook, LivekitEndRoom
  PROVE  media' \in Session /\ hooks' \subseteq Hook
<1>1. media # NoSid => [event |-> "room_finished", sid |-> media] \in Hook
  BY DEF Hook, Session
<1> QED
  BY <1>1, SessionType DEF LivekitEndRoom

-----------------------------------------------------------------------------
LEMMA InitTypeOK == Init => TypeOK
<1> SUFFICES ASSUME Init PROVE TypeOK
  OBVIOUS
<1>1. rows \in [RowId -> Row] /\ bucket \in Bucket
  BY RowType, BucketType DEF Init
<1>2. my \in [Proc -> Locals]
  BY NoLocalsType DEF Init
<1>3. spent \in Counts
  BY DEF Init, Counts
<1>4. pc \in [Proc -> Steps] /\ phase \in [Sid -> Phase]
  BY DEF Init, Steps, Phase
<1> QED
  BY <1>1, <1>2, <1>3, <1>4, SessionType DEF Init, TypeOK

LEMMA CreateTypeOK ==
  ASSUME TypeOK, NEW p \in Proc, Create(p) \/ CreateLock(p)
  PROVE  TypeOK'
<1> USE SessionType, RowIdType DEF TypeOK, Goto, Keep, stores, kv, Steps, CreateSteps
<1>1. CASE CreateLock(p)
  BY <1>1, CountsUpdate DEF CreateLock, Request, TakeLock
<1>2. CASE CreateReadDb(p)
  <2>1. my' \in [Proc -> Locals]
    <3>1. \A r \in RowId : [my[p] EXCEPT !.id = r] \in Locals
      BY MyUpdate
    <3> QED
      BY <1>2, <3>1 DEF CreateReadDb, Running
  <2> QED
    BY <1>2, <2>1 DEF CreateReadDb
<1>3. CASE CreateReadNats(p)
  <2>1. PICK info \in Current \cup Misread, misread \in BOOLEAN :
          /\ GetRoomInfo(info, misread)
          /\ \/ Keep(p, [my[p] EXCEPT !.sid = info.sid, !.misread = misread])
             \/ UNCHANGED my
    BY <1>3 DEF CreateReadNats
  <2>2. info.sid \in Session /\ spent' \in Counts
    BY <2>1, GetsInfo DEF Copy
  <2>3. my' \in [Proc -> Locals]
    <3>1. [my[p] EXCEPT !.sid = info.sid, !.misread = misread] \in Locals
      BY <2>1, <2>2, MyUpdate
    <3> QED
      BY <2>1, <3>1
  <2> QED
    BY <1>3, <2>1, <2>2, <2>3 DEF CreateReadNats
<1>4. CASE CreateReactivate(p)
  <2>1. bucket' \in Bucket /\ copies' \subseteq Copy
    BY <1>4, StatusTyped DEF CreateReactivate, Status, Copy
  <2> QED
    BY <1>4, <2>1 DEF CreateReactivate, Copy
<1>5. CASE CreateSave(p)
  <2>1. my' \in [Proc -> Locals]
    <3>1. \A r \in RowId, s \in Sid : [my[p] EXCEPT !.id = r, !.sid = s] \in Locals
      BY MyUpdate
    <3>2. PICK s \in Sid, r \in RowId : Keep(p, [my[p] EXCEPT !.id = r, !.sid = s])
      BY <1>5 DEF CreateSave
    <3> QED
      BY <3>1, <3>2
  <2> QED
    BY <1>5, <2>1, RowType DEF CreateSave, Phase
<1>6. CASE CreateBucket(p)
  <2>1. my' \in [Proc -> Locals]
    BY <1>6 DEF CreateBucket, Locals
  <2>2. bucket' \in Bucket /\ copies' \subseteq Copy
    BY <1>6, PutsBucket, BucketType DEF CreateBucket, Copy
  <2> QED
    BY <1>6, <2>1, <2>2 DEF CreateBucket, Copy
<1>7. CASE CreatePut(p)
  <2>1. my' \in [Proc -> Locals]
    BY <1>7 DEF CreatePut, Locals
  <2> QED
    <3>1. bucket' \in Bucket /\ copies' \subseteq Copy
      <4>1. my[p].id \in 0 .. MaxRow /\ my[p].sid \in Session
        BY LocalsFields
      <4>2. /\ [bucket EXCEPT !.id = my[p].id] \in Bucket
            /\ [bucket EXCEPT !.sid = my[p].sid] \in Bucket
            /\ [bucket EXCEPT !.status = "created"] \in Bucket
        BY <4>1, BucketUpdate DEF Status
      <4>3. my[p].puts \subseteq {"id", "sid", "status"}
        BY LocalsFields DEF RoomKeys
      <4>4. \/ UNCHANGED kv
            \/ PutBucket([bucket EXCEPT !.id = my[p].id])
            \/ PutBucket([bucket EXCEPT !.sid = my[p].sid])
            \/ PutBucket([bucket EXCEPT !.status = "created"])
        BY <1>7, <4>3 DEF CreatePut
      <4> QED
        BY <4>2, <4>4, PutsBucket DEF Copy
    <3>2. pc' \in [Proc -> Steps]
      <4>1. {"c_failed", "c_answer", "c_put"} \subseteq Steps
        OBVIOUS
      <4>2. \E step \in {"c_failed", "c_answer", "c_put"} : Goto(p, step)
        BY <1>7 DEF CreatePut
      <4> QED
        BY <4>1, <4>2
    <3> QED
      BY <1>7, <2>1, <3>1, <3>2 DEF CreatePut, Copy
<1>8. CASE CreateFails(p)
  BY <1>8, FailureCounts DEF CreateFails
<1>9. CASE CreateUnlock(p)
  BY <1>9, NoLocalsType DEF CreateUnlock, UnlockRoomCreation, Return
<1> QED
  BY <1>1, <1>2, <1>3, <1>4, <1>5, <1>6, <1>7, <1>8, <1>9 DEF Create

LEMMA EndTypeOK ==
  ASSUME TypeOK, NEW p \in Proc, End(p) \/ EndRequest(p)
  PROVE  TypeOK'
<1> USE DEF TypeOK, Goto, Keep, stores, kv, Steps, EndSteps, CleanupSteps
<1>1. CASE EndRequest(p)
  BY <1>1, CountsUpdate DEF EndRequest, Request
<1>2. CASE EndWait(p)
  BY <1>2, NoLocalsType DEF EndWait, Return
<1>3. CASE EndLock(p)
  BY <1>3, NoLocalsType DEF EndLock, TakeLock, Return
<1>4. CASE EndReadNats(p)
  <2>1. ASSUME NEW info \in Current \cup Misread, NEW misread \in BOOLEAN,
               GetRoomInfo(info, misread),
               \/ Keep(p, [my[p] EXCEPT !.misread = misread])
               \/ Keep(p, [my[p] EXCEPT !.sid = info.sid,
                              !.ended = (info.status = "ended"), !.misread = misread])
        PROVE  my' \in [Proc -> Locals] /\ spent' \in Counts
    <3>1. info.sid \in Session /\ spent' \in Counts
      BY <2>1, GetsInfo DEF Copy
    <3>2. (info.status = "ended") \in BOOLEAN
      OBVIOUS
    <3>3. /\ [my[p] EXCEPT !.misread = misread] \in Locals
          /\ [my[p] EXCEPT !.sid = info.sid,
                 !.ended = (info.status = "ended"), !.misread = misread] \in Locals
      BY <2>1, <3>1, <3>2, MyUpdate
    <3> QED
      BY <2>1, <3>1, <3>3
  <2>2. ASSUME CallFails, Keep(p, [my[p] EXCEPT !.misread = TRUE])
        PROVE  my' \in [Proc -> Locals] /\ spent' \in Counts
    BY <2>2, FailureCounts, MyUpdate
  <2>3. my' \in [Proc -> Locals] /\ spent' \in Counts
    BY <1>4, <2>1, <2>2 DEF EndReadNats
  <2>4. pc' \in [Proc -> Steps]
    BY <1>4 DEF EndReadNats
  <2> QED
    BY <1>4, <2>3, <2>4 DEF EndReadNats
<1>5. CASE EndReadDb(p)
  <2>1. my' \in [Proc -> Locals]
    <3>1. \A r \in RowId : [my[p] EXCEPT !.sid = rows[r].sid] \in Locals
      BY MyUpdate, RowIdType, RowType
    <3> QED
      BY <1>5, <3>1 DEF EndReadDb, Running
  <2> QED
    BY <1>5, <2>1, FailureCounts DEF EndReadDb
<1>6. CASE EndNothing(p)
  BY <1>6, NoLocalsType DEF EndNothing, UnlockRoomCreation, Return
<1> QED
  BY <1>1, <1>2, <1>3, <1>4, <1>5, <1>6 DEF End

LEMMA CleanupTypeOK ==
  ASSUME TypeOK, NEW p \in Proc, Cleanup(p)
  PROVE  TypeOK'
<1> USE DEF TypeOK, Goto, stores, kv, Steps, CleanupSteps
<1>0. /\ \A t \in {"triggered_end", "ended"} :
           UpdateRoomStatus(t) => bucket' \in Bucket /\ copies' \subseteq Copy
      /\ PutBucket(NoBucket) => bucket' \in Bucket /\ copies' \subseteq Copy
  BY StatusTyped, PutsBucket, BucketType DEF Status, Copy
<1> USE DEF Copy
<1>1. CASE TriggerEnd(p)
  BY <1>0, <1>1 DEF TriggerEnd
<1>2. CASE SendSessionEnded(p)
  BY <1>2 DEF SendSessionEnded, Phase
<1>3. CASE MarkEnded(p)
  BY <1>0, <1>3 DEF MarkEnded
<1>4. CASE EndMedia(p)
  BY <1>4, LivekitEndType DEF EndMedia
<1>5. CASE CloseRows(p)
  BY <1>5, RowType DEF CloseRows
<1>6. CASE DeleteDuration(p)
  BY <1>6, SessionType DEF DeleteDuration
<1>7. CASE DeleteBucket(p)
  BY <1>0, <1>7 DEF DeleteBucket, Phase
<1>8. CASE CleanupFails(p)
  BY <1>8, FailureCounts DEF CleanupFails, AfterFailure
<1>9. CASE CleanupUnlock(p)
  BY <1>9, NoLocalsType DEF CleanupUnlock, UnlockRoomCreation, Return, Keep
<1> QED
  BY <1>1, <1>2, <1>3, <1>4, <1>5, <1>6, <1>7, <1>8, <1>9 DEF Cleanup

LEMMA WebhookTypeOK ==
  ASSUME TypeOK, NEW p \in Proc,
         Webhook(p) \/ \E h \in hooks : StartedRead(p, h) \/ FinishedRead(p, h)
  PROVE  TypeOK'
<1> USE DEF TypeOK, Goto, Keep, stores, kv, Steps, WebhookSteps, Copy
<1>0. ASSUME NEW info \in Current \cup Misread, NEW misread \in BOOLEAN,
             GetRoomInfo(info, misread)
      PROVE  [NoLocals EXCEPT !.sid = info.sid] \in Locals /\ spent' \in Counts
  BY <1>0, GetsInfo, NoLocalsType DEF Locals
<1>1. ASSUME NEW h \in hooks, StartedRead(p, h) PROVE TypeOK'
  <2>1. my' \in [Proc -> Locals] /\ spent' \in Counts
    BY <1>0, <1>1 DEF StartedRead
  <2>2. pc' \in [Proc -> Steps]
    <3>1. UNCHANGED pc \/ \E step \in {"s_kill", "s_duration", "s_activate"} : Goto(p, step)
      BY <1>1 DEF StartedRead
    <3> QED
      BY <3>1
  <2> QED
    BY <1>1, <2>1, <2>2 DEF StartedRead
<1>2. ASSUME NEW h \in hooks, FinishedRead(p, h) PROVE TypeOK'
  <2>1. my' \in [Proc -> Locals] /\ spent' \in Counts
    BY <1>0, <1>2, FailureCounts DEF FinishedRead
  <2>2. pc' \in [Proc -> Steps]
    BY <1>2 DEF FinishedRead
  <2> QED
    BY <1>2, <2>1, <2>2 DEF FinishedRead
<1>3. CASE StartedKill(p)
  BY <1>3, LivekitEndType, NoLocalsType DEF StartedKill, Return
<1>4. CASE StartedActivate(p)
  BY <1>4, StatusTyped, NoLocalsType DEF StartedActivate, Return, Status
<1>5. CASE StartedDuration(p)
  BY <1>5, LocalsFields, NoLocalsType DEF StartedDuration, Return
<1>6. CASE FinishedMark(p)
  BY <1>6, StatusTyped, NoLocalsType DEF FinishedMark, Status
<1>7. CASE WebhookFails(p)
  BY <1>7, FailureCounts, NoLocalsType DEF WebhookFails
<1> QED
  BY <1>1, <1>2, <1>3, <1>4, <1>5, <1>6, <1>7 DEF Webhook

LEMMA JanitorTypeOK ==
  ASSUME TypeOK, NEW p \in Proc,
         Janitor(p) \/ JanitorRead(p) \/ JanitorDuration(p)
  PROVE  TypeOK'
<1> USE DEF TypeOK, Goto, stores, kv, Steps, JanitorSteps
<1>1. CASE JanitorRead(p)
  BY <1>1, JanitorQueueType DEF JanitorRead, Keep, Running
<1>2. CASE JanitorDuration(p)
  BY <1>2 DEF JanitorDuration
<1>3. CASE JanitorCheck(p)
  <2>1. my' \in [Proc -> Locals]
    <3>1. my[p].queue \subseteq RowId
      BY LocalsFields
    <3>2. PICK r \in my[p].queue :
            \/ Keep(p, [my[p] EXCEPT !.id = r, !.queue = @ \ {r}])
            \/ JanitorNext(p, my[p].queue \ {r})
            \/ Keep(p, NoLocals)
      BY <1>3 DEF JanitorCheck
    <3>3. my[p].queue \ {r} \in SUBSET RowId /\ r \in RowId
      BY <3>1
    <3>4. [NoLocals EXCEPT !.queue = my[p].queue \ {r}] \in Locals
      BY <3>3, JanitorQueueType
    <3>5. [my[p] EXCEPT !.id = r, !.queue = @ \ {r}] \in Locals
      BY <3>3, MyUpdate
    <3> QED
      BY <3>2, <3>4, <3>5, NoLocalsType DEF JanitorNext, Keep
  <2>2. pc' \in [Proc -> Steps]
    BY <1>3 DEF JanitorCheck, JanitorNext
  <2>3. spent' \in Counts
    <3>1. CallFails \/ \E info \in Current \cup Misread, misread \in BOOLEAN :
                        GetRoomInfo(info, misread)
      BY <1>3 DEF JanitorCheck
    <3> QED
      BY <3>1, GetsInfo, FailureCounts DEF Copy
  <2> QED
    BY <1>3, <2>1, <2>2, <2>3 DEF JanitorCheck
<1>4. CASE JanitorClose(p)
  <2>1. my' \in [Proc -> Locals] /\ pc' \in [Proc -> Steps]
    BY <1>4, LocalsFields, JanitorQueueType DEF JanitorClose, JanitorNext, Keep
  <2>2. rows' \in [RowId -> Row] /\ spent' \in Counts
    BY <1>4, RowType, FailureCounts DEF JanitorClose
  <2> QED
    BY <1>4, <2>1, <2>2 DEF JanitorClose
<1> QED
  BY <1>1, <1>2, <1>3, <1>4 DEF Janitor

LEMMA WorldTypeOK ==
  ASSUME TypeOK,
         MediaStart \/ MediaEmpty \/ LockExpires \/ \E p \in Proc : Crash(p)
  PROVE  TypeOK'
<1> USE DEF TypeOK, stores, kv
<1>1. CASE MediaStart
  <2>1. PICK s \in Sid :
          /\ media' = s
          /\ hooks' = hooks \cup {[event |-> "room_started", sid |-> s]}
    BY <1>1 DEF MediaStart
  <2>2. [event |-> "room_started", sid |-> s] \in Hook
    BY DEF Hook
  <2> QED
    BY <1>1, <2>1, <2>2, SessionType, CountsUpdate DEF MediaStart, Request
<1>2. CASE MediaEmpty
  BY <1>2, LivekitEndType DEF MediaEmpty
<1>3. CASE LockExpires
  BY <1>3, CountsUpdate DEF LockExpires
<1>4. ASSUME NEW p \in Proc, Crash(p) PROVE TypeOK'
  BY <1>4, NoLocalsType, CountsUpdate DEF Crash, Goto, Keep, Steps
<1> QED
  BY <1>1, <1>2, <1>3, <1>4

(* Type correctness: whatever the handlers, webhooks, crashes and TTLs do, *)
(* every variable keeps its shape.                                         *)
THEOREM TypeCorrect == Spec => []TypeOK
<1>1. TypeOK /\ [Next]_vars => TypeOK'
  <2> SUFFICES ASSUME TypeOK, [Next]_vars PROVE TypeOK'
    OBVIOUS
  <2>1. CASE Next
    BY <2>1, CreateTypeOK, EndTypeOK, CleanupTypeOK, WebhookTypeOK,
       JanitorTypeOK, WorldTypeOK DEF Next, Begin, Step
  <2>2. CASE UNCHANGED vars
    BY <2>2 DEF TypeOK, vars, kv
  <2> QED
    BY <2>1, <2>2
<1> QED
  BY InitTypeOK, <1>1, PTL DEF Spec

-----------------------------------------------------------------------------
(* The bounds are only ever used up.                                       *)

CountsGrow ==
    /\ spent'.expiries = 0 => spent.expiries = 0
    /\ spent'.failures = 0 => spent.failures = 0
    /\ spent'.crashes = 0 => spent.crashes = 0
    /\ spent'.misreads = 0 => spent.misreads = 0

LEMMA CountsKept ==
  ASSUME TypeOK,
         \/ UNCHANGED spent
         \/ CallFails
         \/ Request
         \/ \E info \in Current \cup Misread, misread \in BOOLEAN :
              GetRoomInfo(info, misread)
  PROVE  CountsGrow
<1> USE DEF TypeOK, CountsGrow
<1>1. CASE UNCHANGED spent \/ CallFails
  BY <1>1, FailureCounts
<1>2. CASE Request
  BY <1>2 DEF Request, Counts
<1>3. ASSUME NEW info \in Current \cup Misread, NEW misread \in BOOLEAN,
             GetRoomInfo(info, misread)
      PROVE  CountsGrow
  BY <1>3, GetsInfo DEF Copy
<1> QED
  BY <1>1, <1>2, <1>3

LEMMA CountsNext ==
  ASSUME TypeOK, Next
  PROVE  CountsGrow
<1> USE DEF stores
<1>1. ASSUME NEW p \in Proc, Begin(p) PROVE CountsGrow
  BY <1>1, CountsKept DEF Begin, CreateLock, EndRequest, JanitorRead, JanitorDuration,
                          StartedRead, FinishedRead
<1>2. ASSUME NEW p \in Proc, Create(p) PROVE CountsGrow
  <2>1. CASE CreateFails(p) \/ CreateReadNats(p)
    BY <2>1, CountsKept DEF CreateFails, CreateReadNats
  <2>2. CASE ~(CreateFails(p) \/ CreateReadNats(p))
    <3>1. UNCHANGED spent
      BY <1>2, <2>2 DEF Create, CreateReadDb, CreateReactivate,
                        CreateSave, CreateBucket, CreatePut, CreateUnlock
    <3> QED
      BY <3>1, CountsKept
  <2> QED
    BY <2>1, <2>2
<1>3. ASSUME NEW p \in Proc, End(p) PROVE CountsGrow
  BY <1>3, CountsKept DEF End, EndWait, EndLock, EndReadNats, EndReadDb, EndNothing
<1>4. ASSUME NEW p \in Proc, Cleanup(p) PROVE CountsGrow
  BY <1>4, CountsKept
     DEF Cleanup, TriggerEnd, SendSessionEnded, MarkEnded, EndMedia, CloseRows,
         DeleteDuration, DeleteBucket, CleanupFails, CleanupUnlock
<1>5. ASSUME NEW p \in Proc, Webhook(p) PROVE CountsGrow
  BY <1>5, CountsKept
     DEF Webhook, StartedKill, StartedActivate, StartedDuration, FinishedMark, WebhookFails
<1>6. ASSUME NEW p \in Proc, Janitor(p) PROVE CountsGrow
  BY <1>6, CountsKept DEF Janitor, JanitorCheck, JanitorClose
<1>7. CASE MediaStart \/ MediaEmpty
  BY <1>7, CountsKept DEF MediaStart, MediaEmpty
<1>8. CASE LockExpires
  BY <1>8 DEF LockExpires, TypeOK, CountsGrow, Counts
<1>9. ASSUME NEW p \in Proc, Crash(p) PROVE CountsGrow
  BY <1>9 DEF Crash, TypeOK, CountsGrow, Counts
<1> QED
  BY <1>1, <1>2, <1>3, <1>4, <1>5, <1>6, <1>7, <1>8, <1>9 DEF Next, Step

-----------------------------------------------------------------------------
(* Mutual exclusion by the room lock.                                      *)

LEMMA LockStart == Init => LockProtects
BY DEF Init, LockProtects, Holds, LockedSteps, CreateSteps, EndSteps, CleanupSteps

(* A step that leaves the key alone and does not enter the locked part.    *)
LEMMA LockUntouched ==
  ASSUME TypeOK, LockProtects, UNCHANGED lock,
         spent'.expiries = 0 => spent.expiries = 0,
         \A q \in Proc : Holds(q)' => Holds(q)
  PROVE  LockProtects'
BY DEF LockProtects

(* A step of the holder that ends with the unlock script.                  *)
LEMMA LockReleased ==
  ASSUME TypeOK, LockProtects, NEW p \in Proc, Holds(p),
         UnlockRoomCreation(p), Return(p), UNCHANGED spent
  PROVE  LockProtects'
<1> SUFFICES ASSUME spent.expiries = 0, NEW q \in Proc, Holds(q)'
             PROVE  lock' = q
  BY DEF LockProtects
<1>1. q # p
  BY DEF TypeOK, Return, Goto, Holds, LockedSteps, CreateSteps, EndSteps, CleanupSteps
<1>2. Holds(q)
  BY <1>1 DEF TypeOK, Return, Goto, Holds
<1>3. lock = p /\ lock = q
  BY <1>2 DEF LockProtects
<1> QED
  BY <1>1, <1>3

(* A step that takes the free key: nobody was in the locked part.          *)
LEMMA LockTaken ==
  ASSUME TypeOK, LockProtects, NEW p \in Proc, NEW step, TakeLock(p),
         Goto(p, step), spent'.expiries = spent.expiries
  PROVE  LockProtects'
<1> SUFFICES ASSUME spent.expiries = 0, NEW q \in Proc, Holds(q)'
             PROVE  lock' = q
  BY DEF LockProtects
<1>1. ~Holds(q)
  BY ConstantsAssumption DEF ConstantsAssumption, LockProtects, TakeLock
<1>2. q = p
  BY <1>1 DEF TypeOK, Goto, Holds
<1> QED
  BY <1>2 DEF TakeLock

LEMMA LockNext ==
  ASSUME TypeOK, LockProtects, Next
  PROVE  LockProtects'
<1> USE DEF TypeOK, Goto, Keep, Return, stores, kv, Holds, LockedSteps, CreateSteps,
            EndSteps, CleanupSteps
<1>0. spent'.expiries = 0 => spent.expiries = 0
  BY CountsNext DEF CountsGrow
<1>1. ASSUME NEW p \in Proc, Begin(p) PROVE LockProtects'
  <2>1. CASE CreateLock(p)
    BY <2>1, LockTaken DEF CreateLock, Request, Counts
  <2>2. CASE EndRequest(p) \/ JanitorRead(p) \/ JanitorDuration(p)
    BY <1>0, <2>2, LockUntouched DEF EndRequest, JanitorRead, JanitorDuration
  <2>3. ASSUME NEW h \in hooks, StartedRead(p, h) \/ FinishedRead(p, h)
        PROVE  LockProtects'
    <3>1. UNCHANGED lock /\ \A q \in Proc : Holds(q)' => Holds(q)
      BY <2>3 DEF StartedRead, FinishedRead
    <3> QED
      BY <1>0, <3>1, LockUntouched
  <2> QED
    BY <1>1, <2>1, <2>2, <2>3 DEF Begin
<1>2. ASSUME NEW p \in Proc, Create(p) PROVE LockProtects'
  <2>1. CASE CreateReadDb(p) \/ CreateReadNats(p) \/ CreateReactivate(p)
    BY <1>0, <2>1, LockUntouched DEF CreateReadDb, CreateReadNats, CreateReactivate
  <2>2. CASE CreateSave(p) \/ CreateBucket(p)
    BY <1>0, <2>2, LockUntouched DEF CreateSave, CreateBucket
  <2>3. CASE CreatePut(p)
    BY <1>0, <2>3, LockUntouched DEF CreatePut
  <2>4. CASE CreateFails(p)
    BY <1>0, <2>4, LockUntouched DEF CreateFails
  <2>5. CASE CreateUnlock(p)
    BY <2>5, LockReleased DEF CreateUnlock
  <2> QED
    BY <1>2, <2>1, <2>2, <2>3, <2>4, <2>5 DEF Create
<1>3. ASSUME NEW p \in Proc, End(p) PROVE LockProtects'
  <2>1. CASE EndWait(p)
    BY <2>1, LockUntouched DEF EndWait
  <2>2. CASE EndLock(p)
    <3>1. CASE TakeLock(p) /\ Goto(p, "e_nats")
      BY <2>2, <3>1, LockTaken DEF EndLock
    <3>2. CASE lock # NoProc /\ Return(p) /\ UNCHANGED lock
      BY <2>2, <3>2, LockUntouched DEF EndLock
    <3> QED
      BY <2>2, <3>1, <3>2 DEF EndLock
  <2>3. CASE EndReadNats(p) \/ EndReadDb(p)
    BY <1>0, <2>3, LockUntouched DEF EndReadNats, EndReadDb
  <2>4. CASE EndNothing(p)
    BY <2>4, LockReleased DEF EndNothing
  <2> QED
    BY <1>3, <2>1, <2>2, <2>3, <2>4 DEF End
<1>4. ASSUME NEW p \in Proc, Cleanup(p) PROVE LockProtects'
  <2>1. CASE TriggerEnd(p) \/ SendSessionEnded(p) \/ MarkEnded(p) \/ EndMedia(p)
    BY <2>1, LockUntouched DEF TriggerEnd, SendSessionEnded, MarkEnded, EndMedia
  <2>2. CASE CloseRows(p) \/ DeleteDuration(p) \/ DeleteBucket(p)
    BY <2>2, LockUntouched DEF CloseRows, DeleteDuration, DeleteBucket
  <2>3. CASE CleanupFails(p)
    BY <1>0, <2>3, LockUntouched DEF CleanupFails, AfterFailure
  <2>4. CASE CleanupUnlock(p)
    BY <2>4, LockReleased DEF CleanupUnlock
  <2> QED
    BY <1>4, <2>1, <2>2, <2>3, <2>4 DEF Cleanup
<1>5. ASSUME NEW p \in Proc, Webhook(p) \/ Janitor(p) PROVE LockProtects'
  <2>1. CASE Webhook(p)
    BY <1>0, <2>1, LockUntouched
       DEF Webhook, StartedKill, StartedActivate, StartedDuration, FinishedMark,
           WebhookFails
  <2>2. CASE Janitor(p)
    BY <1>0, <2>2, LockUntouched DEF Janitor, JanitorCheck, JanitorClose, JanitorNext
  <2> QED
    BY <1>5, <2>1, <2>2
<1>6. ASSUME NEW p \in Proc, Crash(p) PROVE LockProtects'
  BY <1>0, <1>6, LockUntouched DEF Crash
<1>7. CASE MediaStart \/ MediaEmpty
  BY <1>0, <1>7, LockUntouched DEF MediaStart, MediaEmpty
<1>8. CASE LockExpires
  <2>1. CASE pc[lock] = "crashed" /\ UNCHANGED spent
    BY <1>8, <2>1 DEF LockExpires, LockProtects
  <2>2. CASE spent' = [spent EXCEPT !.expiries = @ + 1]
    BY <2>2 DEF LockProtects, Counts
  <2> QED
    BY <1>8, <2>1, <2>2 DEF LockExpires
<1> QED
  BY <1>1, <1>2, <1>3, <1>4, <1>5, <1>6, <1>7, <1>8 DEF Next, Step

(* Mutual exclusion: as long as no TTL runs out under its holder, only the *)
(* owner of the key is between SetNX and the unlock script of CreateRoom   *)
(* and EndRoom.                                                            *)
THEOREM LockExcludes == Spec => []LockProtects
<1>1. TypeOK /\ LockProtects /\ [Next]_vars => LockProtects'
  BY LockNext DEF vars, LockProtects, Holds
<1> QED
  BY LockStart, TypeCorrect, <1>1, PTL DEF Spec

-----------------------------------------------------------------------------
(* The steps that read the stores into a handler or build a session, and   *)
(* what every other step leaves as it is.                                  *)

SessionStep(p) ==
    \/ CreateReadDb(p) \/ CreateReadNats(p) \/ CreateReactivate(p)
    \/ CreateSave(p) \/ CreateBucket(p) \/ CreatePut(p)
    \/ EndReadNats(p) \/ EndReadDb(p)

Fallback == {"c_nats", "c_save", "c_bucket", "c_put", "c_reactivate", "c_answer", "e_db"}
Aimed == CleanupSteps \ {"t_unlock"}

BucketFades ==
    \/ bucket' = bucket
    \/ bucket' = NoBucket /\ \E q \in Proc : pc[q] = "t_bucket"
    \/ /\ bucket # NoBucket
       /\ bucket'.id = bucket.id /\ bucket'.sid = bucket.sid
       /\ bucket' # NoBucket

RowsFade == \A r \in RowId : rows'[r].running => rows[r].running

HandlersGoOn ==
    \A q \in Proc :
      /\ pc'[q] \in Fallback => pc[q] = pc'[q] /\ my'[q] = my[q]
      /\ pc'[q] \in Aimed => pc[q] \in Aimed /\ my'[q] = my[q]

LEMMA StatusUpdate ==
  ASSUME bucket \in Bucket, NEW t \in {"active", "triggered_end", "ended"},
         UpdateRoomStatus(t)
  PROVE  BucketFades
BY DEF UpdateRoomStatus, PutBucket, kv, BucketFades, Bucket, NoBucket

LEMMA Fading ==
  ASSUME TypeOK, Next, \A p \in Proc : ~SessionStep(p)
  PROVE  BucketFades /\ RowsFade /\ HandlersGoOn
<1> USE DEF TypeOK, Goto, Keep, Return, stores, kv, HandlersGoOn, Fallback, Aimed, CleanupSteps
<1>1. ASSUME NEW p \in Proc, Begin(p)
      PROVE  BucketFades /\ RowsFade /\ HandlersGoOn
  <2>1. UNCHANGED <<bucket, rows>>
    BY <1>1 DEF Begin, CreateLock, EndRequest, JanitorRead, JanitorDuration,
                StartedRead, FinishedRead
  <2>2. HandlersGoOn
    BY <1>1 DEF Begin, CreateLock, EndRequest, JanitorRead, JanitorDuration,
                StartedRead, FinishedRead
  <2> QED
    BY <2>1, <2>2 DEF BucketFades, RowsFade
<1>2. ASSUME NEW p \in Proc, CreateFails(p) \/ CreateUnlock(p)
      PROVE  BucketFades /\ RowsFade /\ HandlersGoOn
  BY <1>2 DEF CreateFails, CreateUnlock, BucketFades, RowsFade
<1>3. ASSUME NEW p \in Proc, EndWait(p) \/ EndLock(p) \/ EndNothing(p)
      PROVE  BucketFades /\ RowsFade /\ HandlersGoOn
  BY <1>3 DEF EndWait, EndLock, EndNothing, BucketFades, RowsFade
<1>4. ASSUME NEW p \in Proc, Cleanup(p)
      PROVE  BucketFades /\ RowsFade /\ HandlersGoOn
  <2>1. HandlersGoOn
    BY <1>4 DEF Cleanup, TriggerEnd, SendSessionEnded, MarkEnded, EndMedia,
                CloseRows, DeleteDuration, DeleteBucket, CleanupFails,
                AfterFailure, CleanupUnlock
  <2>2. RowsFade
    BY <1>4 DEF Cleanup, TriggerEnd, SendSessionEnded, MarkEnded, EndMedia,
                CloseRows, DeleteDuration, DeleteBucket, CleanupFails, CleanupUnlock,
                RowsFade, Row
  <2>3. BucketFades
    <3>1. CASE TriggerEnd(p) \/ MarkEnded(p)
      BY <3>1, StatusUpdate DEF TriggerEnd, MarkEnded, BucketFades
    <3>2. CASE ~(TriggerEnd(p) \/ MarkEnded(p))
      BY <1>4, <3>2 DEF Cleanup, SendSessionEnded, EndMedia, CloseRows,
                        DeleteDuration, DeleteBucket, PutBucket, CleanupFails,
                        CleanupUnlock, BucketFades
    <3> QED
      BY <3>1, <3>2
  <2> QED
    BY <2>1, <2>2, <2>3
<1>5. ASSUME NEW p \in Proc, Webhook(p)
      PROVE  BucketFades /\ RowsFade /\ HandlersGoOn
  <2>1. HandlersGoOn /\ UNCHANGED rows
    BY <1>5 DEF Webhook, StartedKill, StartedActivate, StartedDuration, FinishedMark,
                WebhookFails, WebhookSteps
  <2>2. BucketFades
    BY <1>5, StatusUpdate DEF Webhook, StartedKill, StartedActivate,
                              StartedDuration, FinishedMark, WebhookFails,
                              BucketFades
  <2> QED
    BY <2>1, <2>2 DEF RowsFade
<1>6. ASSUME NEW p \in Proc, Janitor(p)
      PROVE  BucketFades /\ RowsFade /\ HandlersGoOn
  <2>1. HandlersGoOn /\ UNCHANGED bucket
    BY <1>6 DEF Janitor, JanitorCheck, JanitorClose, JanitorNext
  <2>2. RowsFade
    BY <1>6 DEF Janitor, JanitorCheck, JanitorClose, RowsFade, Row
  <2> QED
    BY <2>1, <2>2 DEF BucketFades
<1>7. ASSUME MediaStart \/ MediaEmpty \/ LockExpires \/ \E p \in Proc : Crash(p)
      PROVE  BucketFades /\ RowsFade /\ HandlersGoOn
  <2>1. UNCHANGED <<bucket, rows>>
    BY <1>7 DEF MediaStart, MediaEmpty, LockExpires, Crash
  <2>2. HandlersGoOn
    BY <1>7 DEF MediaStart, MediaEmpty, LockExpires, Crash
  <2> QED
    BY <2>1, <2>2 DEF BucketFades, RowsFade
<1> QED
  BY <1>1, <1>2, <1>3, <1>4, <1>5, <1>6, <1>7
     DEF Next, Step, Create, End, SessionStep

(* AddRoom is left half way only by a failure or a crash.                  *)
LEMMA PutsGoOn ==
  ASSUME TypeOK, Next, \A p \in Proc : ~SessionStep(p),
         spent'.failures = 0, spent'.crashes = 0, NEW q \in Proc, pc[q] = "c_put"
  PROVE  pc'[q] = "c_put"
<1> USE DEF TypeOK, Goto, Return, stores
<1>0. ~CallFails
  BY FailureCounts
<1>1. ASSUME NEW p \in Proc, Begin(p) \/ Janitor(p) \/ Webhook(p)
      PROVE  pc'[q] = "c_put"
  BY <1>0, <1>1
     DEF Begin, CreateLock, EndRequest, JanitorRead, JanitorDuration,
         StartedRead, FinishedRead, Webhook, StartedKill, StartedActivate,
         StartedDuration, FinishedMark, WebhookFails, Janitor, JanitorCheck,
         JanitorClose, JanitorNext
<1>2. ASSUME NEW p \in Proc, CreateFails(p) \/ CreateUnlock(p) \/ Crash(p)
      PROVE  pc'[q] = "c_put"
  BY <1>0, <1>2 DEF CreateFails, CreateUnlock, Crash, Counts
<1>3. ASSUME NEW p \in Proc, End(p) \/ Cleanup(p)
      PROVE  pc'[q] = "c_put"
  BY <1>0, <1>3
     DEF End, EndWait, EndLock, EndReadNats, EndReadDb, EndNothing,
         Cleanup, TriggerEnd, SendSessionEnded, MarkEnded, EndMedia,
         CloseRows, DeleteDuration, DeleteBucket, CleanupFails, CleanupUnlock
<1>4. CASE MediaStart \/ MediaEmpty \/ LockExpires
  BY <1>4 DEF MediaStart, MediaEmpty, LockExpires
<1> QED
  BY <1>1, <1>2, <1>3, <1>4 DEF Next, Step, Create, SessionStep

-----------------------------------------------------------------------------
(* One running row, and reads that still hold.                             *)

LEMMA OnlyHolder ==
  ASSUME LockProtects, spent.expiries = 0,
         NEW p \in Proc, NEW q \in Proc, Holds(p), Holds(q)
  PROVE  p = q
BY DEF LockProtects

LEMMA RowsStart == Init => AtMostOneRunningRow /\ ReadsStillHold
BY DEF Init, AtMostOneRunningRow, ReadsStillHold, Running, NewRow

(* EndRoom asks the table for want of a bucket, or knows its read failed.  *)
LEMMA ReadNatsFalls ==
  ASSUME TypeOK, NEW p \in Proc, EndReadNats(p), pc'[p] = "e_db", ~my'[p].misread
  PROVE  bucket = NoBucket
<1> USE DEF TypeOK, Goto, Keep
<1>1. \A b \in BOOLEAN : [my[p] EXCEPT !.misread = b].misread = b
  BY DEF Locals
<1>2. PICK info \in Current \cup Misread, misread \in BOOLEAN :
        /\ GetRoomInfo(info, misread) /\ info = NoBucket
        /\ my' = [my EXCEPT ![p] = [my[p] EXCEPT !.misread = misread]]
  BY <1>1 DEF EndReadNats
<1>3. ~misread
  BY <1>1, <1>2
<1> QED
  BY <1>2, <1>3, GetsInfo DEF Copy

(* The session a cleanup begins with is that of the bucket or of a row.    *)
LEMMA ReadNatsAims ==
  ASSUME TypeOK, NEW p \in Proc, EndReadNats(p), pc'[p] = "t_trigger", ~my'[p].misread
  PROVE  bucket # NoBucket /\ my'[p].sid = bucket.sid
<1> USE DEF TypeOK, Goto, Keep
<1>1. PICK info \in Current \cup Misread, misread \in BOOLEAN :
        /\ GetRoomInfo(info, misread) /\ info # NoBucket
        /\ my' = [my EXCEPT ![p] = [my[p] EXCEPT !.sid = info.sid,
                     !.ended = (info.status = "ended"), !.misread = misread]]
  BY DEF EndReadNats
<1>2. my'[p].misread = misread /\ my'[p].sid = info.sid
  BY <1>1 DEF Locals
<1> QED
  BY <1>1, <1>2, GetsInfo DEF Copy

LEMMA RowsNext ==
  ASSUME TypeOK, LockProtects, AtMostOneRunningRow, ReadsStillHold, Next
  PROVE  AtMostOneRunningRow' /\ ReadsStillHold'
<1> SUFFICES ASSUME spent'.expiries = 0, spent.expiries = 0
             PROVE  AtMostOneRunningRow' /\ ReadsStillHold'
  BY CountsNext DEF CountsGrow, AtMostOneRunningRow, ReadsStillHold
<1> USE DEF TypeOK, AtMostOneRunningRow, ReadsStillHold, Running, Goto, Keep, stores, kv
<1>1. ASSUME NEW p \in Proc, CreateReadDb(p)
      PROVE  AtMostOneRunningRow' /\ ReadsStillHold'
  <2>1. UNCHANGED <<rows, bucket>>
    BY <1>1 DEF CreateReadDb
  <2>2. \A q \in Proc : q # p => pc'[q] = pc[q] /\ my'[q] = my[q]
    BY <1>1 DEF CreateReadDb
  <2>3. CASE Running = {} /\ Goto(p, "c_save")
    BY <2>1, <2>2, <2>3
  <2>4. ASSUME NEW r \in Running, Goto(p, "c_nats"), Keep(p, [my[p] EXCEPT !.id = r])
        PROVE  AtMostOneRunningRow' /\ ReadsStillHold'
    <3>1. my'[p].id = r
      BY <2>4 DEF Locals
    <3>2. Running \subseteq {r}
      BY <2>4
    <3> QED
      BY <2>1, <2>2, <2>4, <3>1, <3>2
  <2> QED
    BY <1>1, <2>3, <2>4 DEF CreateReadDb
<1>2. ASSUME NEW p \in Proc, CreateReadNats(p)
      PROVE  AtMostOneRunningRow' /\ ReadsStillHold'
  <2>1. UNCHANGED <<rows, bucket>> /\ pc[p] = "c_nats"
    BY <1>2 DEF CreateReadNats
  <2>2. \A q \in Proc : q # p => pc'[q] = pc[q] /\ my'[q] = my[q]
    BY <1>2 DEF CreateReadNats
  <2>3. pc'[p] \in {"c_reactivate", "c_save"} /\ (pc'[p] = "c_save" => my'[p] = my[p])
    BY <1>2 DEF CreateReadNats
  <2> QED
    BY <2>1, <2>2, <2>3
<1>3. ASSUME NEW p \in Proc, CreateReactivate(p)
      PROVE  AtMostOneRunningRow' /\ ReadsStillHold'
  BY <1>3 DEF CreateReactivate, UpdateRoomStatus, PutBucket
<1>4. ASSUME NEW p \in Proc, CreateSave(p)
      PROVE  AtMostOneRunningRow' /\ ReadsStillHold'
  <2>1. PICK r \in RowId, s \in Sid :
          /\ rows' = [rows EXCEPT ![r] = [sid |-> s, running |-> TRUE]]
          /\ my[p].id # 0 => r = my[p].id
    BY <1>4 DEF CreateSave
  <2>2. Running \subseteq {my[p].id} /\ 0 \notin RowId
    BY <1>4 DEF CreateSave, RowId
  <2>3. Running \subseteq {r}
    BY <2>1, <2>2
  <2>4. Running' \subseteq {r}
    BY <2>1, <2>3
  <2>5. \A q \in Proc : q # p => pc'[q] = pc[q] /\ ~Holds(q)
    BY <1>4, OnlyHolder DEF CreateSave, Holds, LockedSteps, CreateSteps
  <2>6. \A q \in Proc : pc'[q] \notin {"c_nats", "c_save", "e_db"}
    BY <1>4, <2>5 DEF CreateSave, Holds, LockedSteps, CreateSteps, EndSteps
  <2> QED
    BY <2>4, <2>6
<1>5. ASSUME NEW p \in Proc, CreateBucket(p) \/ CreatePut(p)
      PROVE  AtMostOneRunningRow' /\ ReadsStillHold'
  <2>1. UNCHANGED rows
    BY <1>5 DEF CreateBucket, CreatePut
  <2>2. Holds(p) /\ pc'[p] \notin {"c_nats", "c_save", "e_db"}
    BY <1>5 DEF CreateBucket, CreatePut, Holds, LockedSteps, CreateSteps
  <2>3. \A q \in Proc : q # p => pc'[q] = pc[q] /\ ~Holds(q)
    BY <1>5, <2>2, OnlyHolder DEF CreateBucket, CreatePut
  <2>4. \A q \in Proc : pc'[q] \notin {"c_nats", "c_save", "e_db"}
    BY <2>2, <2>3 DEF Holds, LockedSteps, CreateSteps, EndSteps
  <2> QED
    BY <2>1, <2>4
<1>6. ASSUME NEW p \in Proc, EndReadNats(p) \/ EndReadDb(p)
      PROVE  AtMostOneRunningRow' /\ ReadsStillHold'
  <2>1. CASE EndReadDb(p)
    BY <2>1 DEF EndReadDb
  <2>2. CASE EndReadNats(p)
    <3>1. /\ UNCHANGED <<rows, bucket>> /\ pc'[p] \in {"e_db", "t_trigger"}
          /\ \A q \in Proc : q # p => pc'[q] = pc[q] /\ my'[q] = my[q]
      BY <2>2 DEF EndReadNats
    <3>2. pc'[p] = "e_db" /\ ~my'[p].misread => bucket = NoBucket
      BY <2>2, ReadNatsFalls
    <3> QED
      BY <3>1, <3>2
  <2> QED
    BY <1>6, <2>1, <2>2
<1>7. CASE \A p \in Proc : ~SessionStep(p)
  BY <1>7, Fading DEF BucketFades, RowsFade, HandlersGoOn, Fallback
<1> QED
  BY <1>1, <1>2, <1>3, <1>4, <1>5, <1>6, <1>7 DEF SessionStep

(* A room id never has two running rows while no TTL runs out under its    *)
(* holder, whichever handlers die, fail or run besides: CreateRoom saves   *)
(* only what its reads, which still hold, allow.                           *)
THEOREM OneRunningRow == Spec => [](AtMostOneRunningRow /\ ReadsStillHold)
<1>1. /\ TypeOK /\ LockProtects /\ AtMostOneRunningRow /\ ReadsStillHold
      /\ [Next]_vars
      => (AtMostOneRunningRow /\ ReadsStillHold)'
  BY RowsNext DEF vars, kv, AtMostOneRunningRow, ReadsStillHold, Running
<1> QED
  BY RowsStart, TypeCorrect, LockExcludes, <1>1, PTL DEF Spec

-----------------------------------------------------------------------------
(* onAfterRoomEnded and the session it was started for.                    *)

LEMMA TargetsNext ==
  ASSUME TypeOK, LockProtects, ReadsStillHold, CleanupTargetsItsSession, Next
  PROVE  CleanupTargetsItsSession'
<1> SUFFICES ASSUME spent'.expiries = 0, spent.expiries = 0, NEW q \in Proc,
                    pc'[q] \in Aimed, ~my'[q].misread
             PROVE  bucket' = NoBucket \/ bucket'.sid = my'[q].sid
  BY CountsNext DEF CountsGrow, CleanupTargetsItsSession, Aimed
<1> USE DEF TypeOK, Goto, Keep, stores, kv, Aimed, CleanupSteps
<1>1. ASSUME pc[q] \in Aimed, ~my[q].misread
      PROVE  bucket = NoBucket \/ bucket.sid = my[q].sid
  BY <1>1 DEF CleanupTargetsItsSession
<1>2. ASSUME NEW p \in Proc,
             \/ CreateReadDb(p) \/ CreateReadNats(p)
             \/ CreateSave(p) \/ CreateReactivate(p)
      PROVE  bucket' = NoBucket \/ bucket'.sid = my'[q].sid
  <2>1. q # p /\ pc'[q] = pc[q] /\ my'[q] = my[q]
    BY <1>2 DEF CreateReadDb, CreateReadNats, CreateSave, CreateReactivate
  <2>2. Holds(p) /\ Holds(q)
    BY <1>2, <2>1 DEF CreateReadDb, CreateReadNats, CreateSave, CreateReactivate,
                      Holds, LockedSteps, CreateSteps
  <2> QED
    BY <2>1, <2>2, OnlyHolder
<1>3. ASSUME NEW p \in Proc, CreateBucket(p) \/ CreatePut(p)
      PROVE  bucket' = NoBucket \/ bucket'.sid = my'[q].sid
  <2>1. q # p /\ pc'[q] = pc[q]
    BY <1>3 DEF CreateBucket, CreatePut
  <2>2. Holds(p) /\ Holds(q)
    BY <1>3, <2>1 DEF CreateBucket, CreatePut, Holds, LockedSteps, CreateSteps
  <2> QED
    BY <2>1, <2>2, OnlyHolder
<1>4. ASSUME NEW p \in Proc, EndReadNats(p)
      PROVE  bucket' = NoBucket \/ bucket'.sid = my'[q].sid
  <2>1. CASE q = p
    <3>1. pc'[p] = "t_trigger"
      BY <1>4, <2>1 DEF EndReadNats
    <3>2. my'[p].sid = bucket.sid
      BY <1>4, <2>1, <3>1, ReadNatsAims
    <3> QED
      BY <1>4, <2>1, <3>2 DEF EndReadNats
  <2>2. CASE q # p
    BY <1>1, <1>4, <2>2 DEF EndReadNats
  <2> QED
    BY <2>1, <2>2
<1>5. ASSUME NEW p \in Proc, EndReadDb(p)
      PROVE  bucket' = NoBucket \/ bucket'.sid = my'[q].sid
  <2>1. CASE q = p
    <3>1. my'[p].misread = my[p].misread
      BY <1>5, <2>1 DEF EndReadDb, Locals
    <3> QED
      BY <1>5, <2>1, <3>1 DEF EndReadDb, ReadsStillHold
  <2>2. CASE q # p
    BY <1>1, <1>5, <2>2 DEF EndReadDb
  <2> QED
    BY <2>1, <2>2
<1>6. CASE \A p \in Proc : ~SessionStep(p)
  BY <1>1, <1>6, Fading DEF BucketFades, HandlersGoOn
<1> QED
  BY <1>2, <1>3, <1>4, <1>5, <1>6 DEF SessionStep

(* What onAfterRoomEnded marks as ended and deletes, by room id only, is   *)
(* the session EndRoom read and no other, while no TTL runs out under its  *)
(* holder: all but the EndRoom whose own read of the room failed or was    *)
(* answered from a copy of another session, whoever else had such a copy.  *)
THEOREM CleanupIsAimed == Spec => []CleanupTargetsItsSession
<1>1. Init => CleanupTargetsItsSession
  BY DEF Init, CleanupTargetsItsSession, CleanupSteps
<1>2. /\ TypeOK /\ LockProtects /\ ReadsStillHold /\ CleanupTargetsItsSession
      /\ [Next]_vars
      => CleanupTargetsItsSession'
  BY TargetsNext DEF vars, kv, CleanupTargetsItsSession
<1>3. Spec => []ReadsStillHold
  BY OneRunningRow, PTL
<1> QED
  BY <1>1, <1>2, <1>3, TypeCorrect, LockExcludes, PTL DEF Spec

-----------------------------------------------------------------------------
(* What CreateRoom answers with.                                           *)

LEMMA WholeStart == Init => BucketIsWhole /\ AnswerIsLive
BY DEF Init, BucketIsWhole, AnswerIsLive

LEMMA WholeNext ==
  ASSUME TypeOK, LockProtects, BucketIsWhole, AnswerIsLive, Next
  PROVE  BucketIsWhole' /\ AnswerIsLive'
<1> SUFFICES ASSUME spent'.expiries = 0, spent.expiries = 0
             PROVE  BucketIsWhole' /\ AnswerIsLive'
  BY CountsNext DEF CountsGrow, BucketIsWhole, AnswerIsLive
<1>0. CutShort => CutShort'
  BY CountsNext DEF CountsGrow, CutShort
<1> USE DEF TypeOK, Goto, Keep, stores, kv
<1> DEFINE Whole == \/ bucket = NoBucket
                    \/ bucket.id \in RowId /\ bucket.sid \in Sid
<1>1. NoBucket.id \notin RowId /\ NoSid \notin Sid
  BY ConstantsAssumption DEF ConstantsAssumption, NoBucket, RowId
<1>2. ASSUME NEW p \in Proc, CreateReadDb(p)
      PROVE  BucketIsWhole' /\ AnswerIsLive'
  <2>1. \A r \in RowId : [my[p] EXCEPT !.id = r].id = r
    BY DEF Locals
  <2>2. pc'[p] = "c_nats" => my'[p].id \in RowId
    BY <1>2, <2>1 DEF CreateReadDb, Running
  <2>3. /\ UNCHANGED bucket
        /\ \A q \in Proc : q # p => pc'[q] = pc[q] /\ my'[q] = my[q]
        /\ pc[p] = "c_db" /\ pc'[p] \in {"c_nats", "c_save"}
    BY <1>2 DEF CreateReadDb
  <2> QED
    BY <1>0, <2>2, <2>3 DEF BucketIsWhole, AnswerIsLive
<1>3. ASSUME NEW p \in Proc, CreateReadNats(p)
      PROVE  BucketIsWhole' /\ AnswerIsLive'
  <2>1. /\ UNCHANGED bucket /\ pc[p] = "c_nats"
        /\ \A q \in Proc : q # p => pc'[q] = pc[q] /\ my'[q] = my[q]
        /\ pc'[p] \in {"c_reactivate", "c_save"}
    BY <1>3 DEF CreateReadNats
  <2>2. ASSUME pc'[p] = "c_reactivate", ~my'[p].misread
        PROVE  /\ bucket.id \in RowId
               /\ bucket.id = my'[p].id /\ bucket.sid = my'[p].sid
    <3>1. PICK info \in Current \cup Misread, misread \in BOOLEAN :
            /\ GetRoomInfo(info, misread) /\ info.id = my[p].id
            /\ my' = [my EXCEPT ![p] = [my[p] EXCEPT !.sid = info.sid, !.misread = misread]]
      BY <1>3, <2>2 DEF CreateReadNats
    <3>2. my'[p].misread = misread /\ my'[p].sid = info.sid /\ my'[p].id = my[p].id
      BY <3>1 DEF Locals
    <3>3. info.id = bucket.id /\ info.sid = bucket.sid
      BY <2>2, <3>1, <3>2, GetsInfo DEF Copy
    <3>4. my[p].id \in RowId
      BY <2>1 DEF BucketIsWhole
    <3> QED
      BY <3>1, <3>2, <3>3, <3>4
  <2> QED
    BY <1>0, <2>1, <2>2 DEF BucketIsWhole, AnswerIsLive
<1>4. ASSUME NEW p \in Proc, CreateReactivate(p)
      PROVE  BucketIsWhole' /\ AnswerIsLive'
  <2>1. \A q \in Proc : q # p => pc'[q] = pc[q] /\ my'[q] = my[q] /\ ~Holds(q)
    BY <1>4, OnlyHolder DEF CreateReactivate, Holds, LockedSteps, CreateSteps
  <2>2. \A q \in Proc : q # p =>
          pc'[q] \notin {"c_nats", "c_bucket", "c_put", "c_reactivate", "c_answer"}
    BY <2>1 DEF Holds, LockedSteps, CreateSteps
  <2>3. /\ pc[p] = "c_reactivate" /\ my'[p] = my[p]
        /\ pc'[p] = IF bucket = NoBucket THEN "c_failed" ELSE "c_answer"
    BY <1>4 DEF CreateReactivate
  <2>4. /\ bucket' = NoBucket <=> bucket = NoBucket
        /\ bucket'.id = bucket.id /\ bucket'.sid = bucket.sid
    BY <1>4 DEF CreateReactivate, UpdateRoomStatus, PutBucket, Bucket, NoBucket
  <2>5. Whole \/ CutShort
    BY <2>2, <2>1, <2>3 DEF BucketIsWhole
  <2>6. BucketIsWhole'
    BY <1>0, <2>2, <2>3, <2>4, <2>5 DEF BucketIsWhole
  <2>7. AnswerIsLive'
    <3> SUFFICES ASSUME bucket # NoBucket, ~my[p].misread
                 PROVE  /\ bucket.sid = my[p].sid /\ bucket.id = my[p].id
                        /\ my[p].sid # NoSid \/ CutShort
      BY <1>0, <2>2, <2>3, <2>4 DEF AnswerIsLive
    <3>1. bucket.id = my[p].id /\ bucket.sid = my[p].sid
      BY <2>3 DEF BucketIsWhole
    <3> QED
      BY <1>1, <2>5, <3>1
  <2> QED
    BY <2>6, <2>7
<1>5. ASSUME NEW p \in Proc, CreateSave(p)
      PROVE  BucketIsWhole' /\ AnswerIsLive'
  <2>1. PICK s \in Sid, r \in RowId : my' = [my EXCEPT ![p] = [my[p] EXCEPT !.id = r, !.sid = s]]
    BY <1>5 DEF CreateSave
  <2>2. my'[p].id = r /\ my'[p].sid = s
    BY <2>1 DEF Locals
  <2>3. /\ UNCHANGED bucket
        /\ \A q \in Proc : q # p => pc'[q] = pc[q] /\ my'[q] = my[q]
        /\ pc[p] = "c_save" /\ pc'[p] = "c_bucket"
    BY <1>5 DEF CreateSave
  <2> QED
    BY <1>0, <2>2, <2>3 DEF BucketIsWhole, AnswerIsLive
<1>6. ASSUME NEW p \in Proc, CreateBucket(p)
      PROVE  BucketIsWhole' /\ AnswerIsLive'
  <2>1. [my[p] EXCEPT !.puts = RoomKeys].puts = RoomKeys
        /\ [my[p] EXCEPT !.puts = RoomKeys].sid = my[p].sid
        /\ [my[p] EXCEPT !.puts = RoomKeys].id = my[p].id
    BY DEF Locals
  <2>2. my[p].id \in RowId /\ my[p].sid \in Sid
    BY <1>6 DEF CreateBucket, BucketIsWhole
  <2>3. \A q \in Proc : q # p => pc'[q] = pc[q] /\ ~Holds(q)
    BY <1>6, OnlyHolder DEF CreateBucket, Holds, LockedSteps, CreateSteps
  <2>4. pc'[p] = "c_put" /\ bucket' # NoBucket
    <3>1. bucket' = IF bucket = NoBucket THEN EmptyBucket ELSE bucket
      BY <1>6 DEF CreateBucket, PutBucket
    <3>2. EmptyBucket # NoBucket
      BY DEF EmptyBucket, NoBucket
    <3> QED
      BY <1>6, <3>1, <3>2 DEF CreateBucket
  <2>5. my'[p] = [my[p] EXCEPT !.puts = RoomKeys]
    BY <1>6 DEF CreateBucket
  <2>6. \A q \in Proc : q # p =>
          pc'[q] \notin {"c_nats", "c_bucket", "c_put", "c_reactivate", "c_answer"}
    BY <2>3 DEF Holds, LockedSteps, CreateSteps
  <2>7. my'[p].puts = {"id", "sid", "status"} /\ my'[p].id \in RowId /\ my'[p].sid \in Sid
    BY <2>1, <2>2, <2>5 DEF RoomKeys
  <2>8. BucketIsWhole'
    BY <2>4, <2>6, <2>7 DEF BucketIsWhole
  <2>9. AnswerIsLive'
    BY <2>4, <2>6 DEF AnswerIsLive
  <2> QED
    BY <2>8, <2>9
<1>7. ASSUME NEW p \in Proc, CreatePut(p)
      PROVE  BucketIsWhole' /\ AnswerIsLive'
  <2>1. /\ my[p].id \in RowId /\ my[p].sid \in Sid /\ bucket # NoBucket
        /\ "id" \notin my[p].puts => bucket.id = my[p].id
        /\ "sid" \notin my[p].puts => bucket.sid = my[p].sid
    BY <1>7 DEF CreatePut, BucketIsWhole
  <2>2. PICK key \in my[p].puts :
          /\ key = "id" => bucket' = [bucket EXCEPT !.id = my[p].id]
          /\ key = "sid" => bucket' = [bucket EXCEPT !.sid = my[p].sid]
          /\ key = "status" => bucket' = [bucket EXCEPT !.status = "created"]
          /\ my' = [my EXCEPT ![p] = [my[p] EXCEPT !.puts = my[p].puts \ {key}]]
          /\ pc' = [pc EXCEPT ![p] = IF my[p].puts = {key} THEN "c_answer" ELSE "c_put"]
    BY <1>7, <2>1 DEF CreatePut, PutBucket
  <2>3. key \in {"id", "sid", "status"}
    BY LocalsFields DEF RoomKeys
  <2>4. /\ my'[p].puts = my[p].puts \ {key}
        /\ my'[p].id = my[p].id /\ my'[p].sid = my[p].sid
    BY <2>2 DEF Locals
  <2>5. /\ bucket'.id = IF key = "id" THEN my[p].id ELSE bucket.id
        /\ bucket'.sid = IF key = "sid" THEN my[p].sid ELSE bucket.sid
        /\ bucket'.status = IF key = "status" THEN "created" ELSE bucket.status
    BY <2>2, <2>3 DEF Bucket
  <2>6. bucket' # NoBucket
    <3>1. CASE key = "status"
      BY <2>5, <3>1 DEF NoBucket
    <3>2. CASE key = "id"
      BY <1>1, <2>1, <2>5, <3>2
    <3>3. CASE key = "sid"
      BY <1>1, <2>1, <2>5, <3>3 DEF NoBucket
    <3> QED
      BY <2>3, <3>1, <3>2, <3>3
  <2>7. /\ "id" \notin my'[p].puts => bucket'.id = my'[p].id
        /\ "sid" \notin my'[p].puts => bucket'.sid = my'[p].sid
    BY <2>1, <2>3, <2>4, <2>5
  <2>8. \A q \in Proc : q # p => pc'[q] = pc[q] /\ ~Holds(q)
    BY <1>7, OnlyHolder DEF CreatePut, Holds, LockedSteps, CreateSteps
  <2>9. \A q \in Proc : q # p =>
          pc'[q] \notin {"c_nats", "c_bucket", "c_put", "c_reactivate", "c_answer"}
    BY <2>8 DEF Holds, LockedSteps, CreateSteps
  <2>10. CASE pc'[p] = "c_put"
    <3>1. BucketIsWhole'
      BY <2>1, <2>4, <2>6, <2>7, <2>9, <2>10 DEF BucketIsWhole
    <3>2. AnswerIsLive'
      BY <2>9, <2>10 DEF AnswerIsLive
    <3> QED
      BY <3>1, <3>2
  <2>11. CASE my[p].puts = {key} /\ pc'[p] = "c_answer"
    <3>1. bucket'.id = my'[p].id /\ bucket'.sid = my'[p].sid
      BY <2>4, <2>7, <2>11
    <3>2. bucket'.id \in RowId /\ bucket'.sid \in Sid
      BY <2>1, <2>4, <3>1
    <3>3. BucketIsWhole'
      BY <2>9, <2>11, <3>2 DEF BucketIsWhole
    <3>4. AnswerIsLive'
      BY <1>1, <2>4, <2>6, <2>9, <2>11, <3>1, <3>2 DEF AnswerIsLive
    <3> QED
      BY <3>3, <3>4
  <2> QED
    BY <2>2, <2>10, <2>11
<1>8. ASSUME NEW p \in Proc, EndReadNats(p) \/ EndReadDb(p)
      PROVE  BucketIsWhole' /\ AnswerIsLive'
  <2>1. /\ UNCHANGED bucket
        /\ \A q \in Proc : q # p => pc'[q] = pc[q] /\ my'[q] = my[q]
        /\ pc[p] \in {"e_nats", "e_db"}
        /\ pc'[p] \in {"e_db", "e_nothing", "t_trigger"}
    BY <1>8 DEF EndReadNats, EndReadDb
  <2> QED
    BY <1>0, <2>1 DEF BucketIsWhole, AnswerIsLive
<1>9. CASE \A p \in Proc : ~SessionStep(p)
  <2>1. ~CutShort' => \A q \in Proc : pc[q] = "c_put" => pc'[q] = "c_put"
    BY <1>9, PutsGoOn DEF CutShort
  <2>2. BucketFades /\ HandlersGoOn
    BY <1>9, Fading
  <2>3. /\ Whole \/ CutShort \/ \E q \in Proc : pc[q] = "c_put"
        /\ Whole => (bucket' = NoBucket \/ (bucket'.id \in RowId /\ bucket'.sid \in Sid))
    <3>1. Whole \/ CutShort \/ \E q \in Proc : pc[q] = "c_put"
      BY DEF BucketIsWhole
    <3>2. Whole => (bucket' = NoBucket \/ (bucket'.id \in RowId /\ bucket'.sid \in Sid))
      BY <2>2 DEF BucketFades
    <3> QED
      BY <3>1, <3>2
  <2>4. ASSUME NEW q \in Proc, pc[q] \in {"c_put", "c_reactivate", "c_answer"}
        PROVE  /\ bucket # NoBucket => bucket' # NoBucket
               /\ bucket'.id = bucket.id /\ bucket'.sid = bucket.sid
    <3>1. \A r \in Proc : pc[r] # "t_bucket"
      BY <2>4, OnlyHolder DEF Holds, LockedSteps, CreateSteps, CleanupSteps
    <3> QED
      BY <2>2, <3>1 DEF BucketFades
  <2>5. \A q \in Proc : pc'[q] \in Fallback => pc[q] = pc'[q] /\ my'[q] = my[q]
    BY <2>2 DEF HandlersGoOn
  <2>6. BucketIsWhole'
    BY <1>0, <2>1, <2>3, <2>4, <2>5 DEF BucketIsWhole, Fallback
  <2>7. AnswerIsLive'
    BY <1>0, <2>4, <2>5 DEF AnswerIsLive, Fallback
  <2> QED
    BY <2>6, <2>7
<1> QED
  BY <1>2, <1>3, <1>4, <1>5, <1>6, <1>7, <1>8, <1>9 DEF SessionStep

(* While no TTL runs out under its holder, CreateRoom answers with the id  *)
(* and the sid NATS holds, whatever died or failed, unless its own read of *)
(* the room was answered from a copy of another session; and a half        *)
(* written bucket is met, or answered with, only where a creation died or  *)
(* failed inside AddRoom.                                                  *)
THEOREM AnswersAreLive == Spec => [](BucketIsWhole /\ AnswerIsLive)
<1>1. /\ TypeOK /\ LockProtects /\ BucketIsWhole /\ AnswerIsLive /\ [Next]_vars
      => (BucketIsWhole /\ AnswerIsLive)'
  BY WholeNext DEF vars, kv, BucketIsWhole, AnswerIsLive, CutShort
<1> QED
  BY WholeStart, TypeCorrect, LockExcludes, <1>1, PTL DEF Spec

-----------------------------------------------------------------------------
(* The course of a session.                                                *)

Ending == {"t_trigger", "t_announce"}
Closing == {"t_ended", "t_media", "t_rows"}
Deleting == {"t_duration", "t_bucket"}

(* The steps that move a session on; no other changes what they know.      *)
LoudStep(p) == SessionStep(p) \/ SendSessionEnded(p) \/ CloseRows(p) \/ DeleteBucket(p)

Quiet ==
    /\ phase' = phase
    /\ bucket'.id = bucket.id /\ bucket'.sid = bucket.sid
    /\ bucket' = NoBucket <=> bucket = NoBucket
    /\ \A r \in RowId : /\ rows'[r].sid = rows[r].sid
                        /\ rows'[r].running => rows[r].running
    /\ rows' = rows \/ \E q \in Proc : pc[q] = "j_close"
    /\ \A q \in Proc :
         /\ pc'[q] \in {"c_bucket", "c_put"} => pc[q] = pc'[q] /\ my'[q] = my[q]
         /\ pc'[q] \in Ending => pc[q] \in Ending /\ my'[q] = my[q]
         /\ ~CutShort' =>
              /\ pc[q] \in Closing => pc'[q] \in Closing /\ my'[q] = my[q]
              /\ pc[q] \in Deleting <=> pc'[q] \in Deleting
              /\ pc[q] \in Deleting => my'[q] = my[q]

LEMMA StatusOnly ==
  ASSUME bucket \in Bucket, NEW t \in {"active", "triggered_end", "ended"},
         UpdateRoomStatus(t)
  PROVE  /\ bucket'.id = bucket.id /\ bucket'.sid = bucket.sid
         /\ bucket' = NoBucket <=> bucket = NoBucket
BY DEF UpdateRoomStatus, PutBucket, kv, Bucket, NoBucket

LEMMA QuietNext ==
  ASSUME TypeOK, Next, \A p \in Proc : ~LoudStep(p)
  PROVE  Quiet
<1> USE DEF TypeOK, Goto, Keep, Return, stores, kv, Quiet, Ending, Closing, Deleting
<1>1. ASSUME NEW p \in Proc, Begin(p) PROVE Quiet
  BY <1>1 DEF Begin, CreateLock, EndRequest, JanitorRead, JanitorDuration,
              StartedRead, FinishedRead
<1>2. ASSUME NEW p \in Proc, CreateFails(p) \/ CreateUnlock(p) \/ End(p), ~SessionStep(p)
      PROVE  Quiet
  BY <1>2 DEF CreateFails, CreateUnlock, End, EndWait, EndLock, EndNothing, SessionStep
<1>3. ASSUME NEW p \in Proc, TriggerEnd(p) \/ MarkEnded(p) PROVE Quiet
  BY <1>3, StatusOnly DEF TriggerEnd, MarkEnded
<1>4. ASSUME NEW p \in Proc, EndMedia(p) \/ DeleteDuration(p) \/ CleanupUnlock(p)
      PROVE  Quiet
  BY <1>4 DEF EndMedia, DeleteDuration, CleanupUnlock
<1>c. ASSUME NEW p \in Proc, CleanupFails(p) PROVE Quiet
  <2>1. CutShort'
    BY <1>c, FailureCounts DEF CleanupFails, CutShort
  <2> QED
    BY <1>c, <2>1 DEF CleanupFails, AfterFailure
<1>5. ASSUME NEW p \in Proc, Webhook(p) PROVE Quiet
  <2>1. CASE StartedActivate(p)
    BY <2>1, StatusOnly DEF StartedActivate
  <2>2. CASE FinishedMark(p)
    BY <2>2, StatusOnly DEF FinishedMark
  <2> QED
    BY <1>5, <2>1, <2>2
       DEF Webhook, StartedKill, StartedDuration, WebhookFails, WebhookSteps
<1>6. ASSUME NEW p \in Proc, Janitor(p) PROVE Quiet
  <2>1. CASE JanitorCheck(p)
    BY <2>1 DEF JanitorCheck, JanitorNext
  <2>2. CASE JanitorClose(p)
    <3>1. \A r \in RowId : /\ rows'[r].sid = rows[r].sid
                           /\ rows'[r].running => rows[r].running
      BY <2>2 DEF JanitorClose, Row
    <3> QED
      BY <2>2, <3>1 DEF JanitorClose, JanitorNext
  <2> QED
    BY <1>6, <2>1, <2>2 DEF Janitor
<1>7. ASSUME NEW p \in Proc, Crash(p) PROVE Quiet
  BY <1>7 DEF Crash, Counts, CutShort
<1>8. CASE MediaStart \/ MediaEmpty \/ LockExpires
  BY <1>8 DEF MediaStart, MediaEmpty, LockExpires
<1> QED
  BY <1>1, <1>2, <1>3, <1>4, <1>c, <1>5, <1>6, <1>7, <1>8
     DEF Next, Step, Create, Cleanup, LoudStep, SessionStep

(* EndedOnce and ClosedStaysClosed say where a session must not be met;    *)
(* the next steps rely on where it can still be met.  While no TTL runs    *)
(* out: AddRoom writes the sid of an open session, and what the stores     *)
(* show was saved.  As long as nothing was cut short either: a cleanup     *)
(* that comes to the duration has closed every row, an end that is not     *)
(* announced yet is of an open session, and one that was announced is left *)
(* in the stores only while a cleanup works on it.                         *)
WritesOpen ==
    spent.expiries = 0 =>
      /\ \A p \in Proc : pc[p] \in {"c_bucket", "c_put"} =>
           my[p].sid \in Sid /\ phase[my[p].sid] = "open"
      /\ \A r \in Running : rows[r].sid \in Sid
      /\ \A s \in Sid : phase[s] = "fresh" =>
           bucket.sid # s /\ \A r \in Running : rows[r].sid # s

EndsOpen ==
    spent.expiries = 0 /\ ~CutShort =>
      /\ \A p \in Proc : pc[p] \in Deleting => Running = {}
      /\ \A p \in Proc : pc[p] \in Ending /\ ~my[p].misread =>
           my[p].sid \in Sid /\ phase[my[p].sid] = "open"
      /\ \A s \in Sid : phase[s] \in {"announced", "repeated"} =>
           /\ bucket.sid = s => \E p \in Proc : pc[p] \in Closing \cup Deleting
           /\ \A r \in Running : rows[r].sid = s => \E p \in Proc : pc[p] \in Closing

Course == WritesOpen /\ EndsOpen /\ ClosedStaysClosed

LEMMA CourseStart == Init => Course
BY ConstantsAssumption
   DEF ConstantsAssumption, Init, Course, WritesOpen, EndsOpen, ClosedStaysClosed,
       Running, NewRow, NoBucket, Deleting, Ending

(* A holder of the lock is alone in its part of the code.                  *)
LEMMA Alone ==
  ASSUME LockProtects, spent.expiries = 0, NEW p \in Proc, Holds(p), NEW q \in Proc, q # p
  PROVE  pc[q] \notin {"c_bucket", "c_put"} \cup Ending \cup Closing \cup Deleting
BY OnlyHolder
   DEF Holds, LockedSteps, CreateSteps, CleanupSteps, Ending, Closing, Deleting

LEMMA CourseNext ==
  ASSUME TypeOK, LockProtects, BucketIsWhole, Course, Next
  PROVE  Course'
<1> SUFFICES ASSUME spent'.expiries = 0, spent.expiries = 0 PROVE Course'
  BY CountsNext DEF CountsGrow, Course, WritesOpen, EndsOpen, ClosedStaysClosed
<1> USE DEF TypeOK, Goto, Keep, stores, kv, Running
<1>a. ~CutShort' => ~CutShort
  BY CountsNext DEF CountsGrow, CutShort
<1>b. NoSid \notin Sid
  BY ConstantsAssumption DEF ConstantsAssumption
<1>1. CASE \A p \in Proc : ~LoudStep(p)
  <2>1. Quiet
    BY <1>1, QuietNext
  <2> HIDE DEF TypeOK, Goto, Keep, stores, kv, Running
  <2>2. phase' = phase /\ bucket'.sid = bucket.sid
    BY <2>1 DEF Quiet
  <2>3. \A r \in Running' : r \in Running /\ rows'[r].sid = rows[r].sid
    BY <2>1 DEF Quiet, Running
  <2>4. \A q \in Proc :
         /\ pc'[q] \in {"c_bucket", "c_put"} => pc[q] = pc'[q] /\ my'[q] = my[q]
         /\ pc'[q] \in Ending => pc[q] \in Ending /\ my'[q] = my[q]
    BY <2>1 DEF Quiet
  <2>5. ~CutShort' => \A q \in Proc :
         /\ pc[q] \in Closing => pc'[q] \in Closing
         /\ pc[q] \in Deleting <=> pc'[q] \in Deleting
    BY <2>1 DEF Quiet
  <2>6. WritesOpen' /\ ClosedStaysClosed'
    BY <2>2, <2>3, <2>4 DEF Course, WritesOpen, ClosedStaysClosed
  <2>7. EndsOpen'
    BY <1>a, <2>2, <2>3, <2>4, <2>5 DEF Course, EndsOpen
  <2> QED
    BY <2>6, <2>7 DEF Course
<1>2. ASSUME NEW p \in Proc, CreateReadDb(p) \/ CreateReadNats(p) \/ CreateReactivate(p)
      PROVE  Course'
  <2>1. /\ UNCHANGED <<phase, rows>> /\ bucket'.sid = bucket.sid
        /\ pc'[p] \notin {"c_bucket", "c_put"} \cup Ending \cup Closing \cup Deleting
        /\ pc[p] \notin {"c_bucket", "c_put"} \cup Ending \cup Closing \cup Deleting
        /\ \A q \in Proc : q # p => pc'[q] = pc[q] /\ my'[q] = my[q]
    BY <1>2, StatusOnly
    DEF CreateReadDb, CreateReadNats, CreateReactivate, Ending, Closing, Deleting
  <2>2. WritesOpen' /\ ClosedStaysClosed'
    BY <2>1 DEF Course, WritesOpen, ClosedStaysClosed
  <2>3. EndsOpen'
    BY <1>a, <2>1 DEF Course, EndsOpen
  <2> QED
    BY <2>2, <2>3 DEF Course
<1>3. ASSUME NEW p \in Proc, CreateSave(p) PROVE Course'
  <2>1. PICK s \in Sid, r \in RowId :
          /\ phase[s] = "fresh"
          /\ rows' = [rows EXCEPT ![r] = [sid |-> s, running |-> TRUE]]
          /\ phase' = [phase EXCEPT ![s] = "open"]
          /\ my' = [my EXCEPT ![p] = [my[p] EXCEPT !.id = r, !.sid = s]]
    BY <1>3 DEF CreateSave
  <2>2. my'[p].sid = s
    BY <2>1 DEF Locals
  <2>3. Holds(p)
    BY <1>3 DEF CreateSave, Holds, LockedSteps, CreateSteps
  <2>4. /\ pc[p] = "c_save" /\ pc'[p] = "c_bucket" /\ bucket' = bucket
        /\ \A q \in Proc : q # p => /\ pc'[q] = pc[q] /\ my'[q] = my[q]
                                    /\ pc[q] \notin {"c_bucket", "c_put"} \cup Ending
                                                      \cup Closing \cup Deleting
    BY <1>3, <2>3, Alone DEF CreateSave
  <2>5. /\ \A q \in RowId : rows'[q] = IF q = r THEN [sid |-> s, running |-> TRUE] ELSE rows[q]
        /\ \A t \in Sid : phase'[t] = IF t = s THEN "open" ELSE phase[t]
    BY <2>1
  <2>6. \A q \in Proc : pc'[q] \notin Ending \cup Closing \cup Deleting
    BY <2>4 DEF Ending, Closing, Deleting
  <2>7. WritesOpen' /\ ClosedStaysClosed'
    BY <2>2, <2>4, <2>5 DEF Course, WritesOpen, ClosedStaysClosed
  <2>8. EndsOpen'
    <3>1. \A q \in Proc : pc[q] \notin Closing \cup Deleting
      BY <2>4 DEF Closing, Deleting
    <3>2. ~CutShort' => \A t \in Sid : phase'[t] \in {"announced", "repeated"} =>
              bucket'.sid # t /\ \A q \in Running' : rows'[q].sid # t
      BY <1>a, <2>4, <2>5, <3>1 DEF Course, EndsOpen
    <3> QED
      BY <2>6, <3>2 DEF EndsOpen
  <2> QED
    BY <2>7, <2>8 DEF Course
<1>4. ASSUME NEW p \in Proc, CreateBucket(p) \/ CreatePut(p) PROVE Course'
  <2>1. my[p].sid \in Sid /\ phase[my[p].sid] = "open"
    BY <1>4 DEF CreateBucket, CreatePut, Course, WritesOpen
  <2>2. /\ UNCHANGED <<phase, rows>>
        /\ bucket'.sid \in {bucket.sid, my[p].sid, NoSid}
        /\ my'[p].sid = my[p].sid
        /\ pc'[p] \notin Ending \cup Closing \cup Deleting
    <3>1. CASE CreateBucket(p)
      <4>1. bucket'.sid \in {bucket.sid, NoSid}
        <5>1. bucket' = bucket \/ bucket' = EmptyBucket
          BY <3>1 DEF CreateBucket, PutBucket
        <5>2. EmptyBucket.sid = NoSid
          BY DEF EmptyBucket
        <5> QED
          BY <5>1, <5>2
      <4>2. my'[p].sid = my[p].sid
        BY <3>1 DEF CreateBucket, Locals
      <4> QED
        BY <3>1, <4>1, <4>2 DEF CreateBucket, Ending, Closing, Deleting
    <3>2. CASE CreatePut(p)
      <4>1. PICK key \in my[p].puts :
              /\ \/ bucket' = bucket
                 \/ key = "id" /\ bucket' = [bucket EXCEPT !.id = my[p].id]
                 \/ key = "sid" /\ bucket' = [bucket EXCEPT !.sid = my[p].sid]
                 \/ key = "status" /\ bucket' = [bucket EXCEPT !.status = "created"]
              /\ my' = [my EXCEPT ![p] = [my[p] EXCEPT !.puts = my[p].puts \ {key}]]
              /\ \E step \in {"c_failed", "c_answer", "c_put"} : pc' = [pc EXCEPT ![p] = step]
        <5>1. my[p].puts \subseteq {"id", "sid", "status"}
          BY LocalsFields DEF RoomKeys
        <5> QED
          BY <3>2, <5>1 DEF CreatePut, PutBucket
      <4>2. bucket'.sid \in {bucket.sid, my[p].sid}
        BY <4>1 DEF Bucket
      <4>3. my'[p].sid = my[p].sid
        BY <4>1 DEF Locals
      <4>4. pc'[p] \in {"c_failed", "c_answer", "c_put"}
        BY <4>1
      <4> QED
        BY <3>2, <4>2, <4>3, <4>4 DEF CreatePut, Ending, Closing, Deleting
    <3> QED
      BY <1>4, <3>1, <3>2
  <2>3. Holds(p)
    BY <1>4 DEF CreateBucket, CreatePut, Holds, LockedSteps, CreateSteps
  <2>4. \A q \in Proc : q # p => /\ pc'[q] = pc[q] /\ my'[q] = my[q]
                                 /\ pc[q] \notin {"c_bucket", "c_put"} \cup Ending
                                                   \cup Closing \cup Deleting
    BY <1>4, <2>3, Alone DEF CreateBucket, CreatePut
  <2>5. \A q \in Proc : pc[q] \notin Closing \cup Deleting
    BY <1>4, <2>4 DEF CreateBucket, CreatePut, Closing, Deleting
  <2>6. WritesOpen' /\ ClosedStaysClosed'
    BY <1>b, <2>1, <2>2, <2>4 DEF Course, WritesOpen, ClosedStaysClosed
  <2>7. EndsOpen'
    <3>1. \A q \in Proc : pc'[q] \notin Ending \cup Closing \cup Deleting
      BY <2>2, <2>4 DEF Ending, Closing, Deleting
    <3>2. ~CutShort' => \A t \in Sid : phase'[t] \in {"announced", "repeated"} =>
              bucket'.sid # t /\ \A q \in Running' : rows'[q].sid # t
      BY <1>a, <1>b, <2>1, <2>2, <2>5 DEF Course, EndsOpen
    <3> QED
      BY <3>1, <3>2 DEF EndsOpen
  <2> QED
    BY <2>6, <2>7 DEF Course
<1>5. ASSUME NEW p \in Proc, EndReadNats(p) \/ EndReadDb(p) PROVE Course'
  <2>1. /\ UNCHANGED <<phase, rows, bucket>>
        /\ pc[p] \notin {"c_bucket", "c_put"} \cup Ending \cup Closing \cup Deleting
        /\ pc'[p] \notin {"c_bucket", "c_put"} \cup Closing \cup Deleting
        /\ \A q \in Proc : q # p => pc'[q] = pc[q] /\ my'[q] = my[q]
    BY <1>5 DEF EndReadNats, EndReadDb, Ending, Closing, Deleting
  <2>2. Holds(p)
    BY <1>5 DEF EndReadNats, EndReadDb, Holds, LockedSteps, EndSteps
  <2>3. \A q \in Proc : pc[q] \notin Closing \cup Deleting /\ pc[q] # "c_put"
    BY <2>1, <2>2, Alone
  <2>4. ASSUME pc'[p] \in Ending, ~my'[p].misread, ~CutShort
        PROVE  \/ bucket.sid \in Sid /\ my'[p].sid = bucket.sid
               \/ \E r \in Running : my'[p].sid = rows[r].sid
    <3>1. CASE EndReadNats(p)
      <4>1. pc'[p] = "t_trigger"
        BY <2>4, <3>1 DEF EndReadNats, Ending
      <4>2. bucket # NoBucket /\ my'[p].sid = bucket.sid
        BY <2>4, <3>1, <4>1, ReadNatsAims
      <4> QED
        BY <2>3, <2>4, <4>2 DEF BucketIsWhole
    <3>2. CASE EndReadDb(p)
      <4>1. ASSUME NEW r \in Running,
                   my' = [my EXCEPT ![p] = [my[p] EXCEPT !.sid = rows[r].sid]]
            PROVE  my'[p].sid = rows[r].sid
        BY <4>1 DEF Locals
      <4> QED
        BY <2>4, <3>2, <4>1 DEF EndReadDb, Ending
    <3> QED
      BY <1>5, <3>1, <3>2
  <2>5. ~CutShort' /\ pc'[p] \in Ending /\ ~my'[p].misread =>
          my'[p].sid \in Sid /\ phase[my'[p].sid] = "open"
    BY <1>a, <2>3, <2>4 DEF Course, WritesOpen, EndsOpen, ClosedStaysClosed, Phase
  <2>6. WritesOpen' /\ ClosedStaysClosed'
    BY <2>1 DEF Course, WritesOpen, ClosedStaysClosed
  <2>7. EndsOpen'
    BY <1>a, <2>1, <2>5 DEF Course, EndsOpen
  <2> QED
    BY <2>6, <2>7 DEF Course
<1>6. ASSUME NEW p \in Proc, SendSessionEnded(p) PROVE Course'
  <2>1. /\ UNCHANGED <<my, rows, bucket>> /\ pc[p] = "t_announce" /\ pc'[p] = "t_ended"
        /\ \A q \in Proc : q # p => pc'[q] = pc[q]
        /\ \A s \in Sid : phase'[s] = IF s # my[p].sid THEN phase[s]
                   ELSE IF phase[s] = "open" THEN "announced" ELSE "repeated"
    BY <1>6 DEF SendSessionEnded
  <2>2. Holds(p)
    BY <2>1 DEF Holds, LockedSteps, CleanupSteps
  <2>3. \A q \in Proc : q # p =>
          pc[q] \notin {"c_bucket", "c_put"} \cup Ending \cup Closing \cup Deleting
    BY <2>2, Alone
  <2>4. /\ \A q \in Proc : pc'[q] \notin {"c_bucket", "c_put"} \cup Ending \cup Deleting
        /\ pc'[p] \in Closing
    BY <2>1, <2>3 DEF Ending, Closing, Deleting
  <2>5. WritesOpen' /\ ClosedStaysClosed'
    BY <2>1, <2>4 DEF Course, WritesOpen, ClosedStaysClosed
  <2>6. EndsOpen'
    BY <2>4 DEF EndsOpen
  <2> QED
    BY <2>5, <2>6 DEF Course
<1>7. ASSUME NEW p \in Proc, CloseRows(p) PROVE Course'
  <2>1. /\ UNCHANGED <<my, phase, bucket, spent>> /\ pc[p] = "t_rows" /\ pc'[p] = "t_duration"
        /\ \A q \in Proc : q # p => pc'[q] = pc[q]
        /\ Running' = {}
    BY <1>7 DEF CloseRows, Row
  <2>2. \A q \in Proc : pc'[q] \in {"c_bucket", "c_put"} \cup Ending => pc'[q] = pc[q]
    BY <2>1 DEF Ending
  <2>3. pc'[p] \in Deleting
    BY <2>1 DEF Deleting
  <2>4. WritesOpen' /\ ClosedStaysClosed'
    BY <2>1, <2>2 DEF Course, WritesOpen, ClosedStaysClosed
  <2>5. EndsOpen'
    BY <1>a, <2>1, <2>2, <2>3 DEF Course, EndsOpen
  <2> QED
    BY <2>4, <2>5 DEF Course
<1>8. ASSUME NEW p \in Proc, DeleteBucket(p) PROVE Course'
  <2>1. /\ UNCHANGED <<my, rows, spent>> /\ pc[p] = "t_bucket" /\ pc'[p] = "t_unlock"
        /\ bucket' = NoBucket
        /\ \A q \in Proc : q # p => pc'[q] = pc[q]
        /\ \A s \in Sid : \/ phase'[s] = phase[s]
                          \/ phase'[s] = "closed" /\ \A r \in Running : rows[r].sid # s
    BY <1>8 DEF DeleteBucket, PutBucket
  <2>2. Holds(p)
    BY <2>1 DEF Holds, LockedSteps, CleanupSteps
  <2>3. \A q \in Proc : pc'[q] \notin {"c_bucket", "c_put"} \cup Ending \cup Deleting
    BY <2>1, <2>2, Alone DEF Ending, Deleting
  <2>4. bucket'.sid \notin Sid
    BY <1>b, <2>1 DEF NoBucket
  <2>5. WritesOpen' /\ ClosedStaysClosed'
    BY <2>1, <2>3, <2>4 DEF Course, WritesOpen, ClosedStaysClosed
  <2>6. ~CutShort' => Running' = {}
    BY <1>a, <2>1 DEF Course, EndsOpen, Deleting
  <2>7. EndsOpen'
    BY <2>3, <2>4, <2>6 DEF EndsOpen
  <2> QED
    BY <2>5, <2>7 DEF Course
<1> QED
  BY <1>1, <1>2, <1>3, <1>4, <1>5, <1>6, <1>7, <1>8 DEF LoudStep, SessionStep

LEMMA CourseHolds == Spec => []Course
<1>1. TypeOK /\ LockProtects /\ BucketIsWhole /\ Course /\ [Next]_vars => Course'
  BY CourseNext
     DEF vars, kv, Course, WritesOpen, EndsOpen, ClosedStaysClosed, Running, CutShort
<1>2. Spec => []BucketIsWhole
  BY AnswersAreLive, PTL
<1> QED
  BY CourseStart, TypeCorrect, LockExcludes, <1>1, <1>2, PTL DEF Spec

(* A session takes its course, whoever works on it and whichever copies    *)
(* the replicas are answered from, while no TTL runs out under its holder: *)
(* its bucket is met half written only where a creation was cut short,     *)
(* what was read of it still holds when it is acted on, and once closed it *)
(* stays so in spite of every crash and failure.  Integrators are told of  *)
(* its end once, but for an EndRoom that misread the room itself and for   *)
(* what a crash or a failed call leaves to be ended again.                 *)
THEOREM SessionsTakeTheirCourse == Spec => []SessionTakesItsCourse
<1>1. EndsOpen => EndedOnce
  BY DEF EndsOpen, EndedOnce, Ending
<1>2. Course /\ BucketIsWhole /\ ReadsStillHold => SessionTakesItsCourse
  BY <1>1 DEF Course, SessionTakesItsCourse
<1>3. Spec => []BucketIsWhole
  BY AnswersAreLive, PTL
<1>4. Spec => []ReadsStillHold
  BY OneRunningRow, PTL
<1> QED
  BY CourseHolds, <1>2, <1>3, <1>4, PTL

-----------------------------------------------------------------------------
(* NATS and the table tell the same story.                                 *)

(* The steps between which they do not: AddRoom has not written all of a   *)
(* session that was saved, or the cleanup not deleted all of one it closed.*)
Writing == {"c_save", "c_bucket", "c_put", "t_duration", "t_bucket", "t_unlock"}

Undisturbed == "janitor" \notin Ops /\ spent.expiries = 0 /\ ~CutShort

Matched ==
    /\ bucket # NoBucket =>
         bucket.id \in Running /\ rows[bucket.id].sid = bucket.sid
    /\ \A r \in Running : bucket.id = r

(* StoresAgree speaks of the moments without a holder.  This also tells    *)
(* what the stores hold while one is at work on them.                      *)
StoresFollow ==
    Undisturbed =>
      /\ \A p \in Proc : pc[p] \notin JanitorSteps
      /\ (\A p \in Proc : pc[p] \notin Writing) => Matched
      /\ \A p \in Proc :
           /\ pc[p] = "c_save" => Matched
           /\ pc[p] = "t_unlock" => bucket = NoBucket /\ Running = {}
           /\ pc[p] \in {"c_bucket", "c_put"} =>
                Running = {my[p].id} /\ rows[my[p].id].sid = my[p].sid

LEMMA FollowStart == Init => StoresFollow
BY DEF Init, StoresFollow, Matched, Running, NewRow, JanitorSteps

(* A cleanup goes on with its next call, of which none announces the end   *)
(* of the session.                                                         *)
LEMMA FailsOn ==
  ASSUME NEW step \in DOMAIN AfterFailure
  PROVE  /\ AfterFailure[step] \in CleanupSteps \ {"t_trigger"}
         /\ step \in Ending => AfterFailure[step] = "t_announce"
BY DEF AfterFailure, CleanupSteps, Ending

(* No janitor is started, and only two steps leave Writing quietly.        *)
LEMMA NoJanitorNext ==
  ASSUME TypeOK, Next, "janitor" \notin Ops, \A p \in Proc : pc[p] \notin JanitorSteps
  PROVE  \A p \in Proc : pc'[p] \notin JanitorSteps
<1> USE DEF TypeOK, Goto, Keep, Return, JanitorSteps, CleanupSteps
<1>1. ASSUME NEW p \in Proc, Begin(p) \/ Janitor(p) \/ Crash(p)
      PROVE  \A q \in Proc : pc'[q] \notin JanitorSteps
  BY <1>1 DEF Begin, CreateLock, EndRequest, JanitorRead, JanitorDuration,
              StartedRead, FinishedRead, Janitor, JanitorCheck, JanitorClose, Crash
<1>w. ASSUME NEW p \in Proc, Webhook(p)
      PROVE  \A q \in Proc : pc'[q] \notin JanitorSteps
  BY <1>w DEF Webhook, StartedKill, StartedActivate, StartedDuration, FinishedMark,
              WebhookFails
<1>2. ASSUME NEW p \in Proc, Create(p)
      PROVE  \A q \in Proc : pc'[q] \notin JanitorSteps
  BY <1>2 DEF Create, CreateReadDb, CreateReadNats, CreateReactivate, CreateSave,
              CreateBucket, CreatePut, CreateFails, CreateUnlock
<1>3. ASSUME NEW p \in Proc, End(p) \/ Cleanup(p)
      PROVE  \A q \in Proc : pc'[q] \notin JanitorSteps
  BY <1>3, FailsOn
          DEF End, EndWait, EndLock, EndReadNats, EndReadDb, EndNothing,
              Cleanup, TriggerEnd, SendSessionEnded, MarkEnded, EndMedia,
              CloseRows, DeleteDuration, DeleteBucket, CleanupFails, CleanupUnlock
<1>4. CASE MediaStart \/ MediaEmpty \/ LockExpires
  BY <1>4 DEF MediaStart, MediaEmpty, LockExpires
<1> QED
  BY <1>1, <1>w, <1>2, <1>3, <1>4 DEF Next, Step

LEMMA QuietLeaves ==
  ASSUME TypeOK, Next, \A p \in Proc : ~LoudStep(p), ~CutShort',
         NEW q \in Proc, pc[q] \in Writing, pc'[q] \notin Writing
  PROVE  pc[q] \in {"c_save", "t_unlock"}
<1> SUFFICES ASSUME pc[q] \in {"c_bucket", "c_put", "t_duration", "t_bucket"} PROVE FALSE
  BY DEF Writing
<1>0. ~CallFails
  BY FailureCounts DEF CutShort, TypeOK
<1> USE DEF TypeOK, Goto, Keep, Return, Writing
<1>1. ASSUME NEW p \in Proc, Begin(p) PROVE FALSE
  BY <1>1 DEF Begin, CreateLock, EndRequest, JanitorRead, JanitorDuration,
              StartedRead, FinishedRead
<1>2. ASSUME NEW p \in Proc, Webhook(p) PROVE FALSE
  BY <1>0, <1>2 DEF Webhook, StartedKill, StartedActivate, StartedDuration, FinishedMark,
                    WebhookFails
<1>3. ASSUME NEW p \in Proc, Janitor(p) PROVE FALSE
  BY <1>3 DEF Janitor, JanitorCheck, JanitorClose, JanitorNext
<1>4. ASSUME NEW p \in Proc, Crash(p) PROVE FALSE
  BY <1>4 DEF Crash, Counts, CutShort
<1>5. ASSUME NEW p \in Proc, CreateFails(p) \/ CreateUnlock(p) PROVE FALSE
  BY <1>0, <1>5 DEF CreateFails, CreateUnlock
<1>6. ASSUME NEW p \in Proc, End(p) \/ Cleanup(p) PROVE FALSE
  BY <1>0, <1>6 DEF End, EndWait, EndLock, EndReadNats, EndReadDb, EndNothing,
              Cleanup, TriggerEnd, MarkEnded, EndMedia, DeleteDuration, CleanupFails,
              CleanupUnlock, LoudStep, SessionStep
<1>7. CASE MediaStart \/ MediaEmpty \/ LockExpires
  BY <1>7 DEF MediaStart, MediaEmpty, LockExpires
<1> QED
  BY <1>1, <1>2, <1>3, <1>4, <1>5, <1>6, <1>7
     DEF Next, Step, Create, LoudStep, SessionStep

(* AddRoom, after its last put, has put all of them.                       *)
LEMMA AllPut ==
  ASSUME TypeOK, BucketIsWhole, spent.expiries = 0,
         NEW p \in Proc, CreatePut(p)
  PROVE  /\ pc[p] = "c_put" /\ pc'[p] \in {"c_put", "c_answer"}
         /\ my'[p].id = my[p].id /\ my'[p].sid = my[p].sid
         /\ pc'[p] = "c_answer" =>
              bucket'.id = my[p].id /\ bucket'.sid = my[p].sid
<1> USE DEF TypeOK
<1>1. /\ pc[p] = "c_put" /\ bucket # NoBucket
      /\ "id" \notin my[p].puts => bucket.id = my[p].id
      /\ "sid" \notin my[p].puts => bucket.sid = my[p].sid
  BY DEF CreatePut, BucketIsWhole
<1>2. PICK key \in my[p].puts :
        /\ key = "id" => bucket' = [bucket EXCEPT !.id = my[p].id]
        /\ key = "sid" => bucket' = [bucket EXCEPT !.sid = my[p].sid]
        /\ key = "status" => bucket' = [bucket EXCEPT !.status = "created"]
        /\ my' = [my EXCEPT ![p] = [my[p] EXCEPT !.puts = my[p].puts \ {key}]]
        /\ pc' = [pc EXCEPT ![p] = IF my[p].puts = {key} THEN "c_answer" ELSE "c_put"]
  BY <1>1 DEF CreatePut, PutBucket, Goto, Keep
<1>3. key \in {"id", "sid", "status"}
  BY LocalsFields DEF RoomKeys
<1>4. my'[p].id = my[p].id /\ my'[p].sid = my[p].sid
  BY <1>2 DEF Locals
<1>5. /\ bucket'.id = IF key = "id" THEN my[p].id ELSE bucket.id
      /\ bucket'.sid = IF key = "sid" THEN my[p].sid ELSE bucket.sid
  BY <1>2, <1>3 DEF Bucket
<1>6. pc'[p] = IF my[p].puts = {key} THEN "c_answer" ELSE "c_put"
  BY <1>2
<1> QED
  BY <1>1, <1>4, <1>5, <1>6

LEMMA FollowNext ==
  ASSUME TypeOK, LockProtects, ReadsStillHold, BucketIsWhole, Course,
         StoresFollow, Next
  PROVE  StoresFollow'
<1>1. CountsGrow
  BY CountsNext
<1> SUFFICES ASSUME Undisturbed', Undisturbed PROVE StoresFollow'
  BY <1>1 DEF CountsGrow, StoresFollow, Undisturbed, CutShort
<1> USE DEF Running
<1>2. \A p \in Proc : pc[p] \notin JanitorSteps /\ pc'[p] \notin JanitorSteps
  BY NoJanitorNext DEF StoresFollow, Undisturbed
<1>3. ASSUME NEW p \in Proc, Holds(p), NEW q \in Proc, q # p
      PROVE  pc[q] \notin Writing
  BY <1>3, OnlyHolder DEF Undisturbed, Holds, LockedSteps, CreateSteps, CleanupSteps, Writing
<1>4. CASE \A p \in Proc : ~LoudStep(p)
  <2>1. /\ bucket'.id = bucket.id /\ bucket'.sid = bucket.sid
        /\ bucket' = NoBucket <=> bucket = NoBucket
        /\ rows' = rows
    BY <1>2, <1>4, QuietNext DEF Quiet, JanitorSteps
  <2>2. \A q \in Proc : pc'[q] \in {"c_save", "c_bucket", "c_put"} =>
                          pc[q] = pc'[q] /\ my'[q] = my[q]
    BY <1>4, Fading DEF LoudStep, HandlersGoOn, Fallback
  <2>3. \A q \in Proc : pc'[q] = "t_unlock" => pc[q] = "t_unlock"
    <3> USE DEF TypeOK, Goto, Keep, Return
    <3>0. ASSUME NEW p \in Proc, Webhook(p)
          PROVE \A q \in Proc : pc'[q] = "t_unlock" => pc[q] = "t_unlock"
      BY <3>0 DEF Webhook, StartedKill, StartedActivate, StartedDuration, FinishedMark,
                  WebhookFails
    <3>a. ~CallFails
      BY FailureCounts DEF Undisturbed, CutShort
    <3>1. ASSUME NEW p \in Proc, Begin(p) \/ Janitor(p) \/ Crash(p)
          PROVE \A q \in Proc : pc'[q] = "t_unlock" => pc[q] = "t_unlock"
      BY <3>1 DEF Begin, CreateLock, EndRequest, JanitorRead, JanitorDuration,
                  StartedRead, FinishedRead, Janitor, JanitorCheck, JanitorClose,
                  JanitorNext, Crash
    <3>2. ASSUME NEW p \in Proc, CreateFails(p) \/ CreateUnlock(p) \/ End(p) \/ Cleanup(p)
          PROVE \A q \in Proc : pc'[q] = "t_unlock" => pc[q] = "t_unlock"
      BY <1>4, <3>a, <3>2
         DEF CreateFails, CreateUnlock, End, EndWait, EndLock, EndReadNats, EndReadDb,
             EndNothing, Cleanup, TriggerEnd, MarkEnded, EndMedia, DeleteDuration,
             CleanupFails, CleanupUnlock, LoudStep, SessionStep
    <3>3. CASE MediaStart \/ MediaEmpty \/ LockExpires
      BY <3>3 DEF MediaStart, MediaEmpty, LockExpires
    <3> QED
      BY <1>4, <3>0, <3>1, <3>2, <3>3 DEF Next, Step, Create, LoudStep, SessionStep
  <2>4. ASSUME \A q \in Proc : pc'[q] \notin Writing PROVE Matched
    <3>1. CASE \A q \in Proc : pc[q] \notin Writing
      BY <3>1 DEF StoresFollow
    <3>2. CASE \E q \in Proc : pc[q] \in Writing
      <4>1. PICK q \in Proc : pc[q] \in Writing
        BY <3>2
      <4>2. pc[q] \in {"c_save", "t_unlock"}
        BY <1>4, <2>4, <4>1, QuietLeaves DEF Undisturbed
      <4> QED
        BY <4>2 DEF StoresFollow, Matched
    <3> QED
      BY <3>1, <3>2
  <2> QED
    BY <1>2, <2>1, <2>2, <2>3, <2>4 DEF StoresFollow, Matched
<1>5. ASSUME NEW p \in Proc, CreateReadDb(p) \/ CreateReadNats(p) \/ CreateReactivate(p)
                               \/ EndReadNats(p) \/ EndReadDb(p)
      PROVE  StoresFollow'
  <2>1. /\ rows' = rows /\ bucket'.id = bucket.id /\ bucket'.sid = bucket.sid
        /\ bucket' = NoBucket <=> bucket = NoBucket
        /\ pc[p] \notin Writing
        /\ pc'[p] \in Writing => pc'[p] = "c_save"
        /\ \A q \in Proc : q # p => pc'[q] = pc[q] /\ my'[q] = my[q]
    BY <1>5, StatusOnly DEF TypeOK, Goto, Keep, Writing, CreateReadDb, CreateReadNats,
                            CreateReactivate, EndReadNats, EndReadDb, stores, kv
  <2>2. Holds(p)
    BY <1>5 DEF CreateReadDb, CreateReadNats, CreateReactivate, EndReadNats, EndReadDb,
                Holds, LockedSteps, CreateSteps, EndSteps
  <2>3. \A q \in Proc : pc[q] \notin Writing
    BY <1>3, <2>1, <2>2
  <2>4. Matched
    BY <2>3 DEF StoresFollow
  <2>6. /\ pc'[p] \in Writing => pc'[p] = "c_save"
        /\ \A q \in Proc : q # p => pc'[q] \notin Writing
    BY <2>1, <2>3
  <2>7. Matched'
    BY <2>1, <2>4 DEF Matched
  <2> QED
    BY <1>2, <2>6, <2>7 DEF StoresFollow, Writing
<1>6. ASSUME NEW p \in Proc, CreateSave(p) PROVE StoresFollow'
  <2>1. PICK s \in Sid, r \in RowId :
          /\ my[p].id # 0 => r = my[p].id
          /\ rows' = [rows EXCEPT ![r] = [sid |-> s, running |-> TRUE]]
          /\ my' = [my EXCEPT ![p] = [my[p] EXCEPT !.id = r, !.sid = s]]
    BY <1>6 DEF CreateSave, Keep
  <2>2. my'[p].id = r /\ my'[p].sid = s
    BY <2>1 DEF TypeOK, Locals
  <2>3. /\ pc[p] = "c_save" /\ pc'[p] = "c_bucket" /\ bucket' = bucket
        /\ \A q \in Proc : q # p => pc'[q] = pc[q]
    BY <1>6 DEF CreateSave, Goto, TypeOK, kv
  <2>4. Holds(p)
    BY <2>3 DEF Holds, LockedSteps, CreateSteps
  <2>5. \A q \in Proc : q # p => pc'[q] \notin Writing
    BY <1>3, <2>3, <2>4
  <2>6. Running \subseteq {my[p].id}
    BY <2>3 DEF ReadsStillHold, Undisturbed
  <2>7. r = my[p].id \/ my[p].id = 0
    BY <2>1
  <2>8. 0 \notin RowId
    BY DEF RowId
  <2>9. Running' = {r} /\ rows'[r].sid = s
    BY <2>1, <2>6, <2>7, <2>8 DEF TypeOK
  <2> QED
    BY <1>2, <2>2, <2>3, <2>5, <2>9 DEF StoresFollow, Writing
<1>7. ASSUME NEW p \in Proc, CreateBucket(p) PROVE StoresFollow'
  <2>1. /\ pc[p] = "c_bucket" /\ pc'[p] = "c_put" /\ rows' = rows
        /\ my'[p].id = my[p].id /\ my'[p].sid = my[p].sid
        /\ \A q \in Proc : q # p => pc'[q] = pc[q]
    BY <1>7 DEF CreateBucket, Goto, Keep, TypeOK, Locals
  <2>2. Holds(p)
    BY <2>1 DEF Holds, LockedSteps, CreateSteps
  <2>3. \A q \in Proc : q # p => pc'[q] \notin Writing
    BY <1>3, <2>1, <2>2
  <2>4. Running' = {my'[p].id} /\ rows'[my'[p].id].sid = my'[p].sid
    BY <2>1 DEF StoresFollow
  <2> QED
    BY <1>2, <2>1, <2>3, <2>4 DEF StoresFollow, Writing
<1>8. ASSUME NEW p \in Proc, CreatePut(p) PROVE StoresFollow'
  <2>1. /\ pc[p] = "c_put" /\ pc'[p] \in {"c_put", "c_answer"}
        /\ my'[p].id = my[p].id /\ my'[p].sid = my[p].sid
        /\ pc'[p] = "c_answer" => bucket'.id = my[p].id /\ bucket'.sid = my[p].sid
    BY <1>8, AllPut DEF Undisturbed
  <2>2. rows' = rows /\ \A q \in Proc : q # p => pc'[q] = pc[q]
    BY <1>8 DEF CreatePut, Goto, TypeOK
  <2>3. Holds(p)
    BY <2>1 DEF Holds, LockedSteps, CreateSteps
  <2>4. \A q \in Proc : q # p => pc'[q] \notin Writing
    BY <1>3, <2>2, <2>3
  <2>5. Running' = {my'[p].id} /\ rows'[my'[p].id].sid = my'[p].sid
    BY <2>1, <2>2 DEF StoresFollow
  <2>6. pc'[p] = "c_answer" => Matched'
    BY <2>1, <2>5 DEF Matched
  <2> QED
    BY <1>2, <2>1, <2>4, <2>5, <2>6 DEF StoresFollow, Writing
<1>9. ASSUME NEW p \in Proc, SendSessionEnded(p) PROVE StoresFollow'
  <2>1. /\ UNCHANGED <<my, rows, bucket>> /\ pc[p] = "t_announce" /\ pc'[p] = "t_ended"
        /\ \A q \in Proc : q # p => pc'[q] = pc[q]
    BY <1>9 DEF SendSessionEnded, Goto, TypeOK, kv
  <2> QED
    BY <1>2, <2>1 DEF StoresFollow, Matched, Writing
<1>10. ASSUME NEW p \in Proc, CloseRows(p) \/ DeleteBucket(p) PROVE StoresFollow'
  <2>1. /\ pc'[p] \in {"t_duration", "t_unlock"}
        /\ \A q \in Proc : q # p => pc'[q] = pc[q]
    BY <1>10 DEF CloseRows, DeleteBucket, Goto, TypeOK
  <2>2. Holds(p)
    BY <1>10 DEF CloseRows, DeleteBucket, Holds, LockedSteps, CleanupSteps
  <2>3. \A q \in Proc : q # p => pc'[q] \notin Writing
    BY <1>3, <2>1, <2>2
  <2>4. pc'[p] = "t_unlock" => bucket' = NoBucket /\ Running' = {}
    BY <1>10, <2>1 DEF CloseRows, DeleteBucket, PutBucket, Goto, TypeOK, Course,
                       EndsOpen, Deleting, Undisturbed
  <2> QED
    BY <1>2, <2>1, <2>3, <2>4 DEF StoresFollow, Writing
<1> QED
  BY <1>4, <1>5, <1>6, <1>7, <1>8, <1>9, <1>10 DEF LoudStep, SessionStep

LEMMA FollowHolds == Spec => []StoresFollow
<1>1. /\ TypeOK /\ LockProtects /\ ReadsStillHold /\ BucketIsWhole
      /\ Course /\ StoresFollow /\ [Next]_vars
      => StoresFollow'
  BY FollowNext DEF vars, kv, StoresFollow, Undisturbed, CutShort, Matched, Running
<1>2. Spec => [](ReadsStillHold /\ BucketIsWhole)
  BY OneRunningRow, AnswersAreLive, PTL
<1> QED
  BY FollowStart, TypeCorrect, LockExcludes, CourseHolds, <1>1, <1>2, PTL DEF Spec

(* Without the janitor, and while nothing is cut short or expires, a free  *)
(* lock means that NATS and the table agree on the session there is, or    *)
(* that there is none, whatever copies the handlers were answered from.    *)
THEOREM StoresFollowEachOther == Spec => []StoresAgree
<1>1. TypeOK /\ LockProtects /\ StoresFollow => StoresAgree
  <2> SUFFICES ASSUME TypeOK, LockProtects, StoresFollow, lock = NoProc, Undisturbed
               PROVE  Matched
    BY DEF StoresAgree, Matched, Undisturbed
  <2>1. \A p \in Proc : ~Holds(p)
    BY ConstantsAssumption DEF ConstantsAssumption, LockProtects, Undisturbed
  <2>2. \A p \in Proc : pc[p] \notin Writing
    BY <2>1 DEF Holds, LockedSteps, CreateSteps, CleanupSteps, Writing
  <2> QED
    BY <2>2 DEF StoresFollow
<1> QED
  BY FollowHolds, <1>1, TypeCorrect, LockExcludes, PTL

-----------------------------------------------------------------------------
(* The sessions of the room follow one another as RoomSession says.        *)

Undeceived == Undisturbed /\ spent.misreads = 0

(* A session that is open has its row, one that was announced is in the    *)
(* hands of its cleanup, and a cleanup closes the row of its session only. *)
SessionsAreKept ==
    Undeceived =>
      /\ \A s \in Sid :
           /\ phase[s] # "repeated"
           /\ phase[s] = "open" => \E r \in Running : rows[r].sid = s
           /\ phase[s] = "announced" =>
                \E p \in Proc : pc[p] \in Closing \cup Deleting /\ my[p].sid = s
      /\ \A p \in Proc :
           /\ pc[p] = "c_save" => Running = {}
           /\ pc[p] \in Ending \cup {"e_db"} => ~my[p].misread
           /\ pc[p] \in Ending \cup Closing =>
                my[p].sid \in Sid /\ \A r \in Running : rows[r].sid = my[p].sid
           /\ pc[p] \in Closing \cup Deleting =>
                my[p].sid \in Sid /\ phase[my[p].sid] = "announced"

LEMMA KeptStart == Init => SessionsAreKept
BY DEF Init, SessionsAreKept, Ending, Closing, Deleting

LEMMA QuietEnding ==
  ASSUME TypeOK, Next, \A p \in Proc : ~LoudStep(p), NEW q \in Proc, pc[q] \in Ending
  PROVE  pc'[q] \notin Closing
<1> USE DEF TypeOK, Goto, Keep, Return, Ending, Closing
<1>1. ASSUME NEW p \in Proc, Begin(p) PROVE pc'[q] \notin Closing
  BY <1>1 DEF Begin, CreateLock, EndRequest, JanitorRead, JanitorDuration,
              StartedRead, FinishedRead
<1>2. ASSUME NEW p \in Proc, Webhook(p) \/ Janitor(p) \/ Crash(p) PROVE pc'[q] \notin Closing
  BY <1>2 DEF Webhook, StartedKill, StartedActivate, StartedDuration, FinishedMark,
              WebhookFails, WebhookSteps, Janitor, JanitorCheck, JanitorClose,
              JanitorNext, Crash
<1>3. ASSUME NEW p \in Proc, CreateFails(p) \/ CreateUnlock(p) \/ End(p) \/ Cleanup(p)
      PROVE  pc'[q] \notin Closing
  BY <1>3, FailsOn
     DEF CreateFails, CreateUnlock, End, EndWait, EndLock, EndReadNats, EndReadDb,
         EndNothing, Cleanup, TriggerEnd, MarkEnded, EndMedia, DeleteDuration,
         CleanupFails, CleanupUnlock, LoudStep, SessionStep
<1>4. CASE MediaStart \/ MediaEmpty \/ LockExpires
  BY <1>4 DEF MediaStart, MediaEmpty, LockExpires
<1> QED
  BY <1>1, <1>2, <1>3, <1>4 DEF Next, Step, Create, LoudStep, SessionStep

(* One step: the sessions stay kept, and what it does to a phase is a step *)
(* of RoomSession.                                                         *)
LEMMA KeptNext ==
  ASSUME TypeOK, LockProtects, ReadsStillHold, BucketIsWhole, Course, StoresFollow,
         SessionsAreKept, Next
  PROVE  /\ SessionsAreKept'
         /\ Undeceived' => [OneSessionAtATime!Next]_phase
<1>1. CountsGrow
  BY CountsNext
<1> SUFFICES ASSUME Undeceived', Undeceived
             PROVE  SessionsAreKept' /\ [OneSessionAtATime!Next]_phase
  BY <1>1 DEF CountsGrow, SessionsAreKept, Undeceived, Undisturbed, CutShort
<1>0. Undisturbed' /\ Undisturbed /\ spent'.misreads = 0
  BY DEF Undeceived
<1> DEFINE Busy == Ending \cup Closing \cup Deleting
<1> USE DEF Running
<1>2. ASSUME NEW p \in Proc, Holds(p), NEW q \in Proc, q # p
      PROVE  pc[q] \notin Busy /\ pc[q] \notin Writing
  BY <1>0, <1>2, OnlyHolder DEF Undisturbed, Holds, LockedSteps, CreateSteps, CleanupSteps, Writing,
                          Ending, Closing, Deleting
<1>3. NoBucket.id \notin RowId
  BY ConstantsAssumption DEF ConstantsAssumption, NoBucket, RowId
<1>4. CASE \A p \in Proc : ~LoudStep(p)
  <2>1. /\ phase' = phase /\ rows' = rows
        /\ \A q \in Proc :
             /\ pc'[q] \in Ending => pc[q] \in Ending /\ my'[q] = my[q]
             /\ pc[q] \in Closing => pc'[q] \in Closing /\ my'[q] = my[q]
             /\ pc[q] \in Deleting => pc'[q] \in Deleting /\ my'[q] = my[q]
             /\ pc'[q] \in Deleting => pc[q] \in Deleting
    BY <1>0, <1>4, QuietNext DEF Quiet, Undisturbed, StoresFollow, JanitorSteps
  <2>2. \A q \in Proc : pc'[q] \in Closing => pc[q] \in Closing
    <3>1. \A q \in Proc : pc'[q] \in Closing => pc[q] \in Aimed /\ my'[q] = my[q]
      BY <1>4, Fading DEF LoudStep, HandlersGoOn, Aimed, CleanupSteps, Closing
    <3>2. \A q \in Proc : pc[q] \in Ending => pc'[q] \notin Closing
      BY <1>4, QuietEnding
    <3> QED
      BY <2>1, <3>1, <3>2 DEF Aimed, CleanupSteps, Ending, Closing, Deleting
  <2>3. \A q \in Proc : pc'[q] \in {"c_save", "e_db"} => pc[q] = pc'[q] /\ my'[q] = my[q]
    BY <1>4, Fading DEF LoudStep, HandlersGoOn, Fallback
  <2>4. SessionsAreKept'
    BY <2>1, <2>2, <2>3 DEF SessionsAreKept
  <2> QED
    BY <2>1, <2>4
<1>5. ASSUME NEW p \in Proc, CreateReadDb(p) \/ CreateReadNats(p) \/ CreateReactivate(p)
                               \/ CreateBucket(p) \/ CreatePut(p)
      PROVE  SessionsAreKept' /\ UNCHANGED phase
  <2>1. /\ rows' = rows /\ phase' = phase
        /\ pc[p] \notin Busy /\ pc'[p] \notin Busy \cup {"e_db"}
        /\ \A q \in Proc : q # p => pc'[q] = pc[q] /\ my'[q] = my[q]
    BY <1>5 DEF CreateReadDb, CreateReadNats, CreateReactivate, CreateBucket, CreatePut,
                TypeOK, Goto, Keep, stores, Ending, Closing, Deleting
  <2>2. pc'[p] = "c_save" => Running = {}
    <3>1. CASE CreateReadDb(p)
      BY <3>1 DEF CreateReadDb, Goto, TypeOK
    <3>2. CASE CreateReadNats(p)
      <4>1. Holds(p) /\ pc[p] = "c_nats"
        BY <3>2 DEF CreateReadNats, Holds, LockedSteps, CreateSteps
      <4>2. \A q \in Proc : pc[q] \notin Writing
        BY <1>2, <4>1 DEF Writing
      <4>3. Matched /\ Running \subseteq {my[p].id}
        BY <1>0, <4>1, <4>2 DEF StoresFollow, ReadsStillHold, Undisturbed
      <4>4. pc'[p] = "c_save" => bucket.id # my[p].id
        <5> SUFFICES ASSUME pc'[p] = "c_save" PROVE bucket.id # my[p].id
          OBVIOUS
        <5>1. PICK info \in Current \cup Misread, misread \in BOOLEAN :
                GetRoomInfo(info, misread) /\ info.id # my[p].id
          BY <3>2 DEF CreateReadNats, Goto, TypeOK
        <5> QED
          BY <1>0, <5>1, GetsInfo DEF TypeOK, Copy
      <4> QED
        BY <4>3, <4>4 DEF Matched
    <3> QED
      BY <1>5, <3>1, <3>2 DEF CreateReactivate, CreateBucket, CreatePut, Goto, TypeOK
  <2> QED
    BY <2>1, <2>2 DEF SessionsAreKept
<1>6. ASSUME NEW p \in Proc, EndReadNats(p) \/ EndReadDb(p)
      PROVE  SessionsAreKept' /\ UNCHANGED phase
  <2>1. /\ rows' = rows /\ phase' = phase
        /\ pc[p] \notin Busy /\ pc[p] \notin Writing
        /\ pc'[p] \notin Closing \cup Deleting \cup {"c_save"}
        /\ \A q \in Proc : q # p => pc'[q] = pc[q] /\ my'[q] = my[q]
    BY <1>6 DEF EndReadNats, EndReadDb, TypeOK, Goto, Keep, stores, Ending, Closing, Deleting,
                Writing
  <2>2. Holds(p)
    BY <1>6 DEF EndReadNats, EndReadDb, Holds, LockedSteps, EndSteps
  <2>3. \A q \in Proc : pc[q] \notin Writing
    BY <1>2, <2>1, <2>2
  <2>4. Matched
    BY <1>0, <2>3 DEF StoresFollow
  <2>m. pc'[p] \in Ending \cup {"e_db"} => ~my'[p].misread
    <3>1. CASE EndReadNats(p)
      <4>0. ~CallFails
        BY <1>0, FailureCounts DEF Undisturbed, CutShort, TypeOK
      <4>1. PICK info \in Current \cup Misread, misread \in BOOLEAN :
              /\ GetRoomInfo(info, misread)
              /\ \/ my' = [my EXCEPT ![p] = [my[p] EXCEPT !.misread = misread]]
                 \/ my' = [my EXCEPT ![p] = [my[p] EXCEPT !.sid = info.sid,
                              !.ended = (info.status = "ended"), !.misread = misread]]
        BY <3>1, <4>0 DEF EndReadNats, Keep
      <4>2. my'[p].misread = misread
        BY <4>1 DEF TypeOK, Locals
      <4> QED
        BY <1>0, <4>1, <4>2, GetsInfo DEF TypeOK, Copy
    <3>2. CASE EndReadDb(p)
      <4>1. my'[p].misread = my[p].misread /\ pc[p] = "e_db"
        BY <3>2 DEF EndReadDb, Keep, TypeOK, Locals
      <4> QED
        BY <4>1 DEF SessionsAreKept
    <3> QED
      BY <1>6, <3>1, <3>2
  <2>5. pc'[p] \in Ending =>
          my'[p].sid \in Sid /\ \A r \in Running : rows[r].sid = my'[p].sid
    <3>1. CASE EndReadNats(p)
      <4> SUFFICES ASSUME pc'[p] = "t_trigger"
                   PROVE  my'[p].sid \in Sid /\ \A r \in Running : rows[r].sid = my'[p].sid
        BY <3>1 DEF EndReadNats, Ending, Goto, TypeOK
      <4>1. bucket # NoBucket /\ my'[p].sid = bucket.sid
        BY <2>m, <3>1, ReadNatsAims DEF Ending
      <4>2. bucket.sid \in Sid
        BY <1>0, <2>3, <4>1 DEF BucketIsWhole, Undisturbed, Writing
      <4> QED
        BY <2>4, <4>1, <4>2 DEF Matched
    <3>2. CASE EndReadDb(p)
      <4>1. bucket = NoBucket
        BY <1>0, <3>2 DEF EndReadDb, SessionsAreKept, ReadsStillHold, Undisturbed
      <4>2. Running = {}
        BY <1>3, <2>4, <4>1 DEF Matched
      <4> QED
        BY <3>2, <4>2 DEF EndReadDb, Ending, TypeOK, Goto
    <3> QED
      BY <1>6, <3>1, <3>2
  <2> QED
    BY <2>1, <2>m, <2>5 DEF SessionsAreKept
<1>7. ASSUME NEW p \in Proc, CreateSave(p)
      PROVE  SessionsAreKept' /\ [OneSessionAtATime!Next]_phase
  <2>1. PICK s \in Sid, r \in RowId :
          /\ phase[s] = "fresh"
          /\ rows' = [rows EXCEPT ![r] = [sid |-> s, running |-> TRUE]]
          /\ phase' = [phase EXCEPT ![s] = "open"]
          /\ my' = [my EXCEPT ![p] = [my[p] EXCEPT !.id = r, !.sid = s]]
    BY <1>7 DEF CreateSave, Keep
  <2>2. pc[p] = "c_save" /\ pc'[p] = "c_bucket" /\ \A q \in Proc : q # p => pc'[q] = pc[q]
    BY <1>7 DEF CreateSave, TypeOK, Goto
  <2>3. Holds(p)
    BY <2>2 DEF Holds, LockedSteps, CreateSteps
  <2>4. \A q \in Proc : pc[q] \notin Busy /\ pc'[q] \notin Busy
    BY <1>2, <2>2, <2>3 DEF Ending, Closing, Deleting
  <2>5. Running = {}
    BY <2>2 DEF SessionsAreKept
  <2>6. \A t \in Sid : phase[t] \in {"fresh", "closed"}
    BY <2>4, <2>5 DEF SessionsAreKept, TypeOK, Phase
  <2>7. OneSessionAtATime!Open(s)
    BY <2>1, <2>6 DEF OneSessionAtATime!Open
  <2>8. rows'[r].sid = s /\ rows'[r].running
    BY <2>1 DEF TypeOK
  <2>9. \A t \in Sid : phase'[t] = IF t = s THEN "open" ELSE phase[t]
    BY <2>1 DEF TypeOK
  <2>10. \A q \in Proc : pc'[q] \notin {"c_save", "e_db"}
    BY <1>2, <2>2, <2>3, OnlyHolder DEF Writing, Holds, LockedSteps, CreateSteps, EndSteps,
                                        Undeceived, Undisturbed
  <2>11. SessionsAreKept'
    BY <2>4, <2>6, <2>8, <2>9, <2>10 DEF SessionsAreKept
  <2> QED
    BY <2>7, <2>11 DEF OneSessionAtATime!Next
<1>8. ASSUME NEW p \in Proc, SendSessionEnded(p)
      PROVE  SessionsAreKept' /\ [OneSessionAtATime!Next]_phase
  <2>1. /\ my' = my /\ rows' = rows /\ pc[p] = "t_announce" /\ pc'[p] = "t_ended"
        /\ \A q \in Proc : q # p => pc'[q] = pc[q]
        /\ phase' = [s \in Sid |->
                   IF s # my[p].sid THEN phase[s]
                   ELSE IF phase[s] = "open" THEN "announced" ELSE "repeated"]
    BY <1>8 DEF SendSessionEnded, TypeOK, Goto
  <2>2. pc[p] \in Ending /\ pc'[p] \in Closing
    BY <2>1 DEF Ending, Closing
  <2>3. my[p].sid \in Sid /\ \A r \in Running : rows[r].sid = my[p].sid
    BY <2>2 DEF SessionsAreKept
  <2>4. phase[my[p].sid] = "open"
    BY <1>0, <2>2, <2>3 DEF Course, EndsOpen, SessionsAreKept, Undisturbed
  <2>5. phase' = [phase EXCEPT ![my[p].sid] = "announced"]
    BY <2>1, <2>3, <2>4 DEF TypeOK
  <2>6. OneSessionAtATime!Announce(my[p].sid)
    BY <2>4, <2>5 DEF OneSessionAtATime!Announce
  <2>7. Holds(p)
    BY <2>1 DEF Holds, LockedSteps, CleanupSteps
  <2>8. \A q \in Proc : q # p => pc[q] \notin Busy /\ pc'[q] \notin Busy
    BY <1>2, <2>1, <2>7
  <2>9. \A t \in Sid : phase'[t] = IF t = my[p].sid THEN "announced" ELSE phase[t]
    BY <2>3, <2>5 DEF TypeOK
  <2>10. SessionsAreKept'
    BY <2>1, <2>2, <2>3, <2>8, <2>9 DEF SessionsAreKept, Ending, Closing, Deleting
  <2> QED
    BY <2>3, <2>6, <2>10 DEF OneSessionAtATime!Next
<1>9. ASSUME NEW p \in Proc, CloseRows(p)
      PROVE  SessionsAreKept' /\ UNCHANGED phase
  <2>1. /\ my' = my /\ phase' = phase /\ pc[p] = "t_rows" /\ pc'[p] = "t_duration"
        /\ \A q \in Proc : q # p => pc'[q] = pc[q]
        /\ Running' = {}
    BY <1>9 DEF CloseRows, TypeOK, Goto, Row
  <2>2. pc[p] \in Closing /\ pc'[p] \in Deleting
    BY <2>1 DEF Closing, Deleting
  <2>3. \A r \in Running : rows[r].sid = my[p].sid
    BY <2>2 DEF SessionsAreKept
  <2>4. \A s \in Sid : phase[s] # "open"
    BY <2>2, <2>3 DEF SessionsAreKept
  <2>5. \A q \in Proc : /\ pc'[q] \in Ending \cup Closing => pc[q] \in Ending \cup Closing
                        /\ pc'[q] \in Closing \cup Deleting => pc[q] \in Closing \cup Deleting
                        /\ pc[q] \in Closing \cup Deleting => pc'[q] \in Closing \cup Deleting
                        /\ pc'[q] \in Ending \cup {"e_db"} => pc[q] = pc'[q]
    BY <2>1, <2>2 DEF Ending, Closing, Deleting
  <2> QED
    BY <2>1, <2>4, <2>5 DEF SessionsAreKept
<1>10. ASSUME NEW p \in Proc, DeleteBucket(p)
       PROVE  SessionsAreKept' /\ [OneSessionAtATime!Next]_phase
  <2>1. /\ my' = my /\ rows' = rows /\ pc[p] = "t_bucket" /\ pc'[p] = "t_unlock"
        /\ \A q \in Proc : q # p => pc'[q] = pc[q]
        /\ phase' = [s \in Sid |-> IF /\ s = my[p].sid /\ phase[s] = "announced"
                                       /\ \A r \in Running : rows[r].sid # s
                                    THEN "closed" ELSE phase[s]]
    BY <1>10 DEF DeleteBucket, TypeOK, Goto
  <2>2. pc[p] \in Deleting
    BY <2>1 DEF Deleting
  <2>3. my[p].sid \in Sid /\ phase[my[p].sid] = "announced"
    BY <2>2 DEF SessionsAreKept
  <2>r. Running = {}
    BY <1>0, <2>2 DEF Course, EndsOpen, Undisturbed
  <2>4. phase' = [phase EXCEPT ![my[p].sid] = "closed"]
    BY <2>1, <2>3, <2>r DEF TypeOK
  <2>5. OneSessionAtATime!Close(my[p].sid)
    BY <2>3, <2>4 DEF OneSessionAtATime!Close
  <2>6. Holds(p)
    BY <2>1 DEF Holds, LockedSteps, CleanupSteps
  <2>7. \A q \in Proc : /\ q # p => pc[q] \notin Busy
                        /\ pc'[q] \notin Busy
    BY <1>2, <2>1, <2>6 DEF Ending, Closing, Deleting
  <2>8. \A t \in Sid : phase'[t] = IF t = my[p].sid THEN "closed" ELSE phase[t]
    BY <2>3, <2>4 DEF TypeOK
  <2>9. \A t \in Sid : phase'[t] # "announced"
    BY <2>7, <2>8 DEF SessionsAreKept
  <2>10. SessionsAreKept'
    BY <2>1, <2>7, <2>8, <2>9 DEF SessionsAreKept
  <2> QED
    BY <2>3, <2>5, <2>10 DEF OneSessionAtATime!Next
<1> QED
  BY <1>4, <1>5, <1>6, <1>7, <1>8, <1>9, <1>10 DEF LoudStep, SessionStep

(* The detailed sessions implement the abstract ones, but for its fairness:*)
(* without the janitor, and as long as nothing is cut short, no TTL runs   *)
(* out under its holder and every room info is of the bucket's session, if *)
(* late, a session is opened only when no other is there, announced once,  *)
(* and then closed.                                                        *)
THEOREM SessionsFollowOneAnother ==
  Spec => /\ OneSessionAtATime!Init
          /\ [][Undeceived' => [OneSessionAtATime!Next]_phase]_vars
<1>1. Init => OneSessionAtATime!Init
  BY DEF Init, OneSessionAtATime!Init
<1> DEFINE Kept == /\ TypeOK /\ LockProtects /\ ReadsStillHold /\ BucketIsWhole
                   /\ Course /\ StoresFollow /\ SessionsAreKept
<1>2. Kept /\ [Next]_vars => SessionsAreKept'
  BY KeptNext DEF vars, SessionsAreKept, Undeceived, Undisturbed, CutShort, Running
<1>3. Spec => [](ReadsStillHold /\ BucketIsWhole)
  BY OneRunningRow, AnswersAreLive, PTL
<1>4. Spec => []Kept
  BY KeptStart, TypeCorrect, LockExcludes, CourseHolds, FollowHolds, <1>2, <1>3, PTL DEF Spec
<1>5. Kept /\ [Next]_vars => [Undeceived' => [OneSessionAtATime!Next]_phase]_vars
  BY KeptNext
<1> QED
  BY <1>1, <1>4, <1>5, PTL DEF Spec

=============================================================================
