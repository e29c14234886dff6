--------------------------- MODULE NatsRoomCache ---------------------------
(***************************************************************************)
(* NatsCacheService: every server's copy of the key-value bucket of one    *)
(* room id.  A copy is filled twice over, by the handlers that put a key   *)
(* and by the goroutine that watches the bucket, and is dropped when the   *)
(* room is seen to end.  Copies are found by room id, while buckets, stop  *)
(* channels and watchers belong to one session.                            *)
(*                                                                         *)
(* Each action is one NATS call or one critical section of roomLock.  A    *)
(* value in a copy is named by the put it came from, [bucket, rev].  Of a  *)
(* bucket that was deleted no server gets to see more than was put there.  *)
(***************************************************************************)
EXTENDS Naturals, Sequences

CONSTANTS
    Server,      \* server replicas
    Handler,     \* goroutines that read the room or update its metadata
    None,        \* no server
    Added,       \* bound: the keys AddRoom puts, of the eight it does
    MaxBucket,   \* bound: times the bucket is created
    MaxUpdates,  \* bound: metadata updates
    MaxEntry     \* bound: copies that are made

ASSUME CacheAssumption ==
    /\ None \notin Server
    /\ "id" \in Added /\ Added \subseteq {"id", "status", "metadata"}
    /\ MaxBucket \in Nat /\ MaxUpdates \in Nat /\ MaxEntry \in Nat

VARIABLES
    puts,     \* of each bucket there was: its puts, by revision
    exists,   \* the last of them still exists
    store,    \* roomsInfoStore: the copy each server has, 0 for none
    copy,     \* the CachedRoomEntry structures, by number
    watcher,  \* the goroutine of each copy: its state and its position
    pc,       \* the next step of each process
    my,       \* its local variables
    spent     \* copies made and metadata updates so far

vars == <<puts, exists, store, copy, watcher, pc, my, spent>>

(* The room's life (CreateRoom, then EndRoom, then again) is one process   *)
(* on any server, as the room lock makes it; the handlers are the others.  *)
Owner == "owner"
Process == Handler \cup {Owner}

Field == {"id", "status", "metadata"}
Entry == 1 .. MaxEntry
NoPut == [bucket |-> 0, rev |-> 0]

Last == Len(puts)
Ended(b, r) == puts[b][r] = [field |-> "status", value |-> "ended"]

(* A new CachedRoomEntry: an empty NatsKvRoomInfo and an open channel.     *)
NewCopy(s) == [server |-> s, last |-> 0, info |-> [f \in Field |-> NoPut], closes |-> 0]
Locals(s, todo) == [server |-> s, put |-> NoPut, todo |-> todo, entry |-> 0]

Init ==
    /\ puts = <<>>
    /\ exists = FALSE
    /\ store = [s \in Server |-> 0]
    /\ copy = [e \in Entry |-> NewCopy(None)]
    /\ watcher = [e \in Entry |-> [state |-> "none", bucket |-> 0, pos |-> 0]]
    /\ pc = [p \in Process |-> "idle"]
    /\ my = [p \in Process |-> Locals(None, {})]
    /\ spent = [copies |-> 0, updates |-> 0]

-----------------------------------------------------------------------------
Goto(p, step) == pc' = [pc EXCEPT ![p] = step]
Begin(p, s, todo) == pc[p] = "idle" /\ my' = [my EXCEPT ![p] = Locals(s, todo)]
Return(p) == Goto(p, "idle") /\ my' = [my EXCEPT ![p] = Locals(None, {})]

(* kv.PutString, for a process with these locals: the revision is the      *)
(* place in the bucket's stream.                                           *)
Put(p, locals, field, value) ==
    /\ puts' = [puts EXCEPT ![Last] = Append(@, [field |-> field, value |-> value])]
    /\ my' = [my EXCEPT ![p] = [locals EXCEPT
                 !.put = [bucket |-> Last, rev |-> Len(puts[Last]) + 1],
                 !.todo = @ \ {field}]]

(* Variants with a bug: the channel is not closed; the entry is left.      *)
CleanWithoutClose(s) ==
    /\ store' = [store EXCEPT ![s] = 0]
    /\ UNCHANGED copy

CleanWithoutDelete(s) ==
    /\ UNCHANGED store
    /\ copy' = IF store[s] = 0 THEN copy
               ELSE [copy EXCEPT ![store[s]].closes = @ + 1]

(* cleanRoomCacheUnsafe: whichever copy the room id has, and its channel.  *)
Clean(s) ==
    /\ store' = [store EXCEPT ![s] = 0]
    /\ copy' = IF store[s] = 0 THEN copy
               ELSE [copy EXCEPT ![store[s]] =
                       [NewCopy(s) EXCEPT !.closes = copy[store[s]].closes + 1]]

(* Variant with a bug: revisions are not compared.                         *)
SetRoomInfoCacheAlways(s, put) ==
    LET e == store[s]
        field == puts[put.bucket][put.rev].field
    IN IF e = 0 THEN UNCHANGED <<store, copy>>
       ELSE IF Ended(put.bucket, put.rev) THEN Clean(s)
       ELSE /\ copy' = [copy EXCEPT ![e].info[field] = put, ![e].last = put.rev]
            /\ UNCHANGED store

(* setRoomInfoCache.                                                       *)
SetRoomInfoCache(s, put) ==
    LET e == store[s]
        field == puts[put.bucket][put.rev].field
    IN IF e = 0 \/ copy[e].last >= put.rev THEN UNCHANGED <<store, copy>>
       ELSE IF Ended(put.bucket, put.rev) THEN Clean(s)
       ELSE /\ copy' = [copy EXCEPT ![e].info[field] = put, ![e].last = put.rev]
            /\ UNCHANGED store

-----------------------------------------------------------------------------
(* addRoomWatcher, for the owner in AddRoom and for readers.               *)
AfterWatch(p) ==
    IF p = Owner THEN Goto(p, "put") /\ my' = [my EXCEPT ![p].entry = 0]
                 ELSE Return(p)

WatchSkip(p) ==
    /\ pc[p] = "reserve"
    /\ store[my[p].server] # 0
    /\ AfterWatch(p)
    /\ UNCHANGED <<puts, exists, store, copy, watcher, spent>>

WatchReserve(p) ==
    LET s == my[p].server
        e == spent.copies + 1
    IN /\ pc[p] = "reserve"
       /\ store[s] = 0 /\ e \in Entry
       /\ spent' = [spent EXCEPT !.copies = e]
       /\ store' = [store EXCEPT ![s] = e]
       /\ copy' = [copy EXCEPT ![e] = NewCopy(s)]
       /\ my' = [my EXCEPT ![p].entry = e]
       /\ Goto(p, "watch")
       /\ UNCHANGED <<puts, exists, watcher>>

(* WatchAll and the start of the goroutine.                                *)
WatchStart(p) ==
    /\ pc[p] = "watch"
    /\ exists
    /\ watcher' = [watcher EXCEPT ![my[p].entry] =
                     [state |-> "running", bucket |-> Last, pos |-> 0]]
    /\ AfterWatch(p)
    /\ UNCHANGED <<puts, exists, store, copy, spent>>

(* Variant with a bug: the failure is not cleaned up after.                *)
WatchFailIgnored(p) ==
    /\ pc[p] = "watch"
    /\ AfterWatch(p)
    /\ UNCHANGED <<puts, exists, store, copy, watcher, spent>>

(* WatchAll fails, as it does without a bucket.                            *)
WatchFail(p) ==
    /\ pc[p] = "watch"
    /\ Clean(my[p].server)
    /\ AfterWatch(p)
    /\ UNCHANGED <<puts, exists, watcher, spent>>

(* The goroutine.  The bucket keeps the last put of a key only, so that    *)
(* one that was followed by another may not be seen.                       *)
Superseded(b, r) == \E q \in r + 1 .. Len(puts[b]) : puts[b][q].field = puts[b][r].field

WatchDeliver(e) ==
    LET w == watcher[e]
    IN /\ w.state = "running"
       /\ \E r \in w.pos + 1 .. Len(puts[w.bucket]) :
            /\ \A q \in w.pos + 1 .. r - 1 : Superseded(w.bucket, q)
            /\ watcher' = [watcher EXCEPT ![e].pos = r]
            /\ SetRoomInfoCache(copy[e].server, [bucket |-> w.bucket, rev |-> r])
       /\ UNCHANGED <<puts, exists, pc, my, spent>>

(* It finds its channel closed, and cleans up by room id once more.        *)
WatchStop(e) ==
    /\ watcher[e].state = "running"
    /\ copy[e].closes > 0
    /\ watcher' = [watcher EXCEPT ![e] = [state |-> "stopped", bucket |-> 0, pos |-> 0]]
    /\ Clean(copy[e].server)
    /\ UNCHANGED <<puts, exists, pc, my, spent>>

-----------------------------------------------------------------------------
(* AddRoom, UpdateRoomStatus and DeleteRoom, in the order of the room's    *)
(* life; every put is followed by setting the own copy.                    *)
AddRoom(s) ==
    /\ Begin(Owner, s, Added)
    /\ ~exists /\ Last < MaxBucket
    /\ puts' = Append(puts, <<>>)
    /\ exists' = TRUE
    /\ Goto(Owner, "reserve")
    /\ UNCHANGED <<store, copy, watcher, spent>>

(* The keys are put in the order of a Go map, which is any.                *)
AddRoomPut ==
    /\ pc[Owner] = "put"
    /\ \E f \in my[Owner].todo : Put(Owner, my[Owner], f, "created")
    /\ Goto(Owner, "set")
    /\ UNCHANGED <<exists, store, copy, watcher, spent>>

(* Variant with a bug: key and value in the wrong order.                   *)
UpdateRoomStatusSwapped(s) ==
    /\ pc[Owner] = "idle"
    /\ exists
    /\ Put(Owner, Locals(s, {}), "ended", "status")
    /\ Goto(Owner, "set")
    /\ UNCHANGED <<exists, store, copy, watcher, spent>>

UpdateRoomStatus(s) ==
    /\ pc[Owner] = "idle"
    /\ exists
    /\ Put(Owner, Locals(s, {}), "status", "ended")
    /\ Goto(Owner, "set")
    /\ UNCHANGED <<exists, store, copy, watcher, spent>>

DeleteRoom ==
    /\ pc[Owner] = "delete"
    /\ exists' = FALSE
    /\ Return(Owner)
    /\ UNCHANGED <<puts, store, copy, watcher, spent>>

(* updateRoomMetadata, on any server; the handle it got is by name.        *)
UpdateRoomMetadata(h, s) ==
    /\ pc[h] = "idle"
    /\ exists
    /\ spent.updates < MaxUpdates
    /\ spent' = [spent EXCEPT !.updates = @ + 1]
    /\ Put(h, Locals(s, {}), "metadata", "updated")
    /\ Goto(h, "set")
    /\ UNCHANGED <<exists, store, copy, watcher>>

(* setRoomInfoCache after a put.                                           *)
SetOwnCopy(p) ==
    /\ pc[p] = "set"
    /\ SetRoomInfoCache(my[p].server, my[p].put)
    /\ IF my[p].todo # {}
       THEN Goto(p, "put") /\ my' = [my EXCEPT ![p].put = NoPut]
       ELSE /\ Goto(p, IF Ended(my[p].put.bucket, my[p].put.rev) THEN "delete" ELSE "idle")
            /\ my' = [my EXCEPT ![p] = Locals(None, {})]
    /\ UNCHANGED <<puts, exists, watcher, spent>>

(* GetRoomInfo, when the copy does not answer it: the bucket is read and   *)
(* watched, unless it says that the room has ended.                        *)
Answers(s) == store[s] # 0 /\ copy[store[s]].info["id"] # NoPut

EndedBucket(b) == \E r \in 1 .. Len(puts[b]) : Ended(b, r)

GetRoomInfo(h, s) ==
    /\ Begin(h, s, {})
    /\ ~Answers(s)
    /\ exists /\ ~EndedBucket(Last)
    /\ Goto(h, "reserve")
    /\ UNCHANGED <<puts, exists, store, copy, watcher, spent>>

-----------------------------------------------------------------------------
WatchStep(e) == WatchDeliver(e) \/ WatchStop(e)

Watch(p) == WatchSkip(p) \/ WatchReserve(p) \/ WatchStart(p) \/ WatchFail(p)

Next ==
    \/ \E s \in Server : AddRoom(s) \/ UpdateRoomStatus(s)
    \/ \E h \in Handler, s \in Server : UpdateRoomMetadata(h, s) \/ GetRoomInfo(h, s)
    \/ AddRoomPut \/ DeleteRoom
    \/ \E p \in Process : Watch(p) \/ SetOwnCopy(p)
    \/ \E e \in Entry : WatchStep(e)

Spec == Init /\ [][Next]_vars

-----------------------------------------------------------------------------
(* Properties.                                                             *)

PutName == [bucket : 0 .. MaxBucket, rev : Nat]
Copies == [server : Server \cup {None}, last : Nat,
           info : [Field -> PutName], closes : Nat]
Watcher == [state : {"none", "running", "stopped"}, bucket : 0 .. MaxBucket, pos : Nat]
LocalsSet == [server : Server \cup {None}, put : PutName,
              todo : SUBSET Field, entry : Entry \cup {0}]

(* Every variable keeps its shape.                                         *)
CacheTypeOK ==
    /\ puts \in Seq(Seq([field : Field, value : {"created", "updated", "ended"}]))
    /\ exists \in BOOLEAN
    /\ store \in [Server -> Entry \cup {0}]
    /\ copy \in [Entry -> Copies]
    /\ watcher \in [Entry -> Watcher]
    /\ pc \in [Process -> {"idle", "reserve", "watch", "put", "set", "delete"}]
    /\ my \in [Process -> LocalsSet]
    /\ spent \in [copies : Entry \cup {0}, updates : Nat]

(* No copy is left without its watcher, which alone would tell it that the *)
(* room ended on another server: a copy in the store has an open channel   *)
(* and a goroutine that runs or is about to, however addRoomWatcher and    *)
(* the cleanups by room id interleave (nats_cache.go:71-129).              *)
CopyIsWatched ==
    \A s \in Server : store[s] # 0 =>
      /\ copy[store[s]].server = s
      /\ copy[store[s]].closes = 0
      /\ \/ watcher[store[s]].state = "running"
         \/ \E p \in Process : pc[p] = "watch" /\ my[p].entry = store[s]

(* No channel is closed twice, which would take the server down: four      *)
(* paths lead to cleanRoomCacheUnsafe, and two of them may be for one copy *)
(* (nats_cache_room.go:86-92).                                             *)
ClosedOnce == \A e \in Entry : copy[e].closes <= 1

(* A key of a copy never goes back to an older put of the same bucket,     *)
(* although the watcher lags behind the handlers' own sets.                *)
NeverBackwards ==
    [][ \A e \in Entry, f \in Field :
          copy'[e].info[f].bucket = copy[e].info[f].bucket =>
            copy'[e].info[f].rev >= copy[e].info[f].rev ]_vars

(* No goroutine of a dropped copy is left watching: one that runs serves   *)
(* the copy in the store or finds its channel closed.                      *)
NoWatcherLeaks ==
    \A e \in Entry : watcher[e].state = "running" =>
      store[copy[e].server] = e \/ copy[e].closes > 0

(* A server does not answer for a room that has ended and whose bucket is  *)
(* gone, when its watcher was told all there was to tell                   *)
(* (nats_cache_room.go:71: "Treat ended rooms as not found"; :20: "If the  *)
(* incoming revision is older than what we have, ignore it").              *)
EndedNotServed ==
    \A s \in Server :
      LET w == watcher[store[s]]
      IN Answers(s) /\ w.state = "running" /\ w.pos = Len(puts[w.bucket])
           => ~(EndedBucket(w.bucket) /\ (w.bucket < Last \/ ~exists))
=============================================================================
