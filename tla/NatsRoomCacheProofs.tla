------------------------ MODULE NatsRoomCacheProofs ------------------------
(***************************************************************************)
(* Theorems about NatsRoomCache, for every set of servers and handlers and *)
(* every value of the bounds.                                              *)
(***************************************************************************)
EXTENDS NatsRoomCache, TLAPS

PutSet == [field : Field, value : {"created", "updated", "ended"}]

-----------------------------------------------------------------------------
(* What is said of buckets and revisions: the names of puts that handlers  *)
(* and watchers hold are those of puts that were made.                     *)
Named(put) == put.bucket \in 1 .. Last /\ put.rev \in 1 .. Len(puts[put.bucket])

BucketOK == Last <= MaxBucket /\ (exists => Last >= 1)

ProcessOK(p) ==
    /\ pc[p] # "idle" => Last >= 1
    /\ pc[p] \in {"reserve", "watch", "put", "set"} => my[p].server \in Server
    /\ pc[p] = "set" => Named(my[p].put)
    /\ pc[p] = "watch" => my[p].entry \in Entry /\ copy[my[p].entry].server \in Server

WatcherOK(e) ==
    watcher[e].state = "running" =>
      /\ watcher[e].bucket \in 1 .. Last
      /\ watcher[e].pos <= Len(puts[watcher[e].bucket])
      /\ copy[e].server \in Server

StoreOK(s) == store[s] # 0 => copy[store[s]].server = s /\ store[s] <= spent.copies

PutsExist ==
    /\ BucketOK
    /\ \A p \in Process : ProcessOK(p)
    /\ \A e \in Entry : WatcherOK(e)
    /\ \A s \in Server : StoreOK(s)

Shape == CacheTypeOK /\ PutsExist

(* The stores of puts only grow.                                           *)
LEMMA GrowPuts ==
  ASSUME NEW R, NEW s \in Seq(Seq(R)), NEW x \in R, Len(s) >= 1,
         NEW t, t = [s EXCEPT ![Len(s)] = Append(s[Len(s)], x)]
  PROVE  /\ t \in Seq(Seq(R))
         /\ Len(t) = Len(s)
         /\ \A b \in 1 .. Len(s) : Len(t[b]) >= Len(s[b])
         /\ Len(t[Len(s)]) = Len(s[Len(s)]) + 1
<1>1. \A b \in 1 .. Len(s) : s[b] \in Seq(R)
  OBVIOUS
<1>2. Append(s[Len(s)], x) \in Seq(R) /\ Len(Append(s[Len(s)], x)) = Len(s[Len(s)]) + 1
  BY <1>1
<1>3. t \in Seq(Seq(R)) /\ Len(t) = Len(s)
  BY <1>2
<1>4. \A b \in 1 .. Len(s) : b # Len(s) => t[b] = s[b]
  OBVIOUS
<1>5. t[Len(s)] = Append(s[Len(s)], x)
  OBVIOUS
<1>6. Len(t[Len(s)]) = Len(s[Len(s)]) + 1
  BY <1>2, <1>5
<1>7. ASSUME NEW b \in 1 .. Len(s)
      PROVE  Len(t[b]) >= Len(s[b])
  <2>1. Len(s[b]) \in Nat
    BY <1>1
  <2>2. CASE b = Len(s)
    BY <1>6, <2>1, <2>2
  <2>3. CASE b # Len(s)
    BY <1>4, <2>1, <2>3
  <2> QED
    BY <2>2, <2>3
<1> QED
  BY <1>3, <1>6, <1>7

(* What Clean and SetRoomInfoCache do to the copies: the copy of one       *)
(* server may be dropped and closed, or filled further.                    *)
Touches(s) ==
    /\ store' \in [Server -> Entry \cup {0}]
    /\ copy' \in [Entry -> Copies]
    /\ \A e \in Entry : copy'[e].server = copy[e].server
    /\ \/ /\ store' = store
          /\ \A e \in Entry : copy'[e].closes = copy[e].closes
       \/ /\ store' = [store EXCEPT ![s] = 0]
          /\ \A e \in Entry : e # store[s] => copy'[e].closes = copy[e].closes
          /\ store[s] # 0 => copy'[store[s]].closes = copy[store[s]].closes + 1

LEMMA NewCopyType ==
  /\ NoPut \in PutName
  /\ \A s \in Server \cup {None} : NewCopy(s) \in Copies
  /\ \A s \in Server \cup {None}, n \in Nat : [NewCopy(s) EXCEPT !.closes = n] \in Copies
<1>1. NoPut \in PutName
  BY CacheAssumption DEF CacheAssumption, NoPut, PutName
<1> QED
  BY <1>1 DEF NewCopy, Copies

LEMMA CleanTouches ==
  ASSUME Shape, NEW s \in Server, Clean(s)
  PROVE  Touches(s)
<1> USE DEF Shape, CacheTypeOK, PutsExist, StoreOK
<1>1. CASE store[s] = 0
  BY <1>1 DEF Clean, Touches
<1>2. CASE store[s] # 0
  <2>1. store[s] \in Entry /\ copy[store[s]] \in Copies
    BY <1>2
  <2>2. copy[store[s]].closes + 1 \in Nat /\ copy[store[s]].server = s
    BY <1>2, <2>1 DEF Copies
  <2> DEFINE new == [NewCopy(s) EXCEPT !.closes = copy[store[s]].closes + 1]
  <2>3. new \in Copies
    BY <2>2, NewCopyType
  <2>4. new.server = s /\ new.closes = copy[store[s]].closes + 1
    BY DEF NewCopy
  <2>5. copy' = [copy EXCEPT ![store[s]] = new]
    BY <1>2 DEF Clean
  <2>6. store' = [store EXCEPT ![s] = 0]
    BY DEF Clean
  <2> HIDE DEF new
  <2>7. store' \in [Server -> Entry \cup {0}]
    BY <2>6
  <2>8. copy' \in [Entry -> Copies]
    BY <2>1, <2>3, <2>5
  <2>9. \A e \in Entry : copy'[e] = IF e = store[s] THEN new ELSE copy[e]
    BY <2>1, <2>5
  <2> QED
    BY <1>2, <2>1, <2>2, <2>4, <2>6, <2>7, <2>8, <2>9 DEF Touches
<1> QED
  BY <1>1, <1>2

LEMMA SetTouches ==
  ASSUME Shape, NEW s \in Server, NEW put \in PutName, Named(put),
         SetRoomInfoCache(s, put)
  PROVE  Touches(s)
<1> USE DEF Shape, CacheTypeOK
<1> DEFINE e == store[s]
           field == puts[put.bucket][put.rev].field
<1>1. CASE UNCHANGED <<store, copy>>
  BY <1>1 DEF Touches
<1>2. CASE Clean(s)
  BY <1>2, CleanTouches
<1>3. CASE /\ e # 0
           /\ copy' = [copy EXCEPT ![e].info[field] = put, ![e].last = put.rev]
           /\ UNCHANGED store
  <2>1. puts[put.bucket] \in Seq(PutSet)
    BY DEF Named, Last, PutSet
  <2>2. puts[put.bucket][put.rev] \in PutSet
    BY <2>1 DEF Named
  <2>2a. field \in Field
    BY <2>2 DEF PutSet
  <2>3. put.rev \in Nat
    BY DEF PutName
  <2> HIDE DEF field
  <2>4. e \in Entry /\ copy[e] \in Copies
    BY <1>3
  <2> DEFINE new == [copy[e] EXCEPT !.info[field] = put, !.last = put.rev]
  <2>5. new \in Copies /\ new.server = copy[e].server /\ new.closes = copy[e].closes
    BY <2>2a, <2>3, <2>4 DEF Copies
  <2>6. copy' = [copy EXCEPT ![e] = new]
    BY <1>3, <2>4 DEF Copies
  <2> HIDE DEF new
  <2>7. \A d \in Entry : copy'[d] = IF d = e THEN new ELSE copy[d]
    BY <2>4, <2>6
  <2>8. copy' \in [Entry -> Copies]
    BY <2>4, <2>5, <2>6
  <2> QED
    BY <1>3, <2>4, <2>5, <2>7, <2>8 DEF Touches
<1> QED
  BY <1>1, <1>2, <1>3 DEF SetRoomInfoCache

-----------------------------------------------------------------------------
(* Buckets grow and copies keep their servers: what was said of the        *)
(* processes, watchers and stores that a step leaves alone stays true.     *)
Grows ==
    /\ puts' \in Seq(Seq(PutSet))
    /\ Last' >= Last
    /\ \A b \in 1 .. Last : Len(puts'[b]) >= Len(puts[b])

ServersKept == \A e \in Entry : copy[e].server \in Server => copy'[e].server \in Server

LEMMA NamedKept ==
  ASSUME Shape, Grows, NEW put \in PutName, Named(put)
  PROVE  Named(put)'
<1>1. Last \in Nat /\ Last' \in Nat
  BY DEF Shape, CacheTypeOK, Grows, Last
<1>2. put.bucket \in 1 .. Last /\ put.bucket \in 1 .. Last'
  BY <1>1 DEF Grows, Named
<1>3. puts[put.bucket] \in Seq(PutSet) /\ puts'[put.bucket] \in Seq(PutSet)
  BY <1>2 DEF Shape, CacheTypeOK, Grows, Last, PutSet
<1> QED
  BY <1>1, <1>2, <1>3 DEF Grows, Named, PutName

LEMMA ProcessKept ==
  ASSUME Shape, Grows, ServersKept, NEW p \in Process,
         pc'[p] = pc[p], my'[p] = my[p]
  PROVE  ProcessOK(p)'
<1>1. ProcessOK(p) /\ my[p] \in LocalsSet /\ my[p].put \in PutName
  BY DEF Shape, PutsExist, CacheTypeOK, LocalsSet
<1>2. Last \in Nat /\ Last' \in Nat
  BY DEF Shape, CacheTypeOK, Grows, Last
<1>3. pc[p] = "set" => Named(my[p].put)'
  BY <1>1, NamedKept DEF ProcessOK
<1> QED
  BY <1>1, <1>2, <1>3 DEF ProcessOK, Grows, ServersKept, Named

LEMMA WatcherKept ==
  ASSUME Shape, Grows, ServersKept, NEW e \in Entry, watcher'[e] = watcher[e]
  PROVE  WatcherOK(e)'
<1>1. WatcherOK(e) /\ watcher[e] \in Watcher
  BY DEF Shape, PutsExist, CacheTypeOK
<1>2. Last \in Nat /\ Last' \in Nat
  BY DEF Shape, CacheTypeOK, Grows, Last
<1>3. ASSUME watcher[e].state = "running"
      PROVE  /\ Len(puts[watcher[e].bucket]) \in Nat
             /\ Len(puts'[watcher[e].bucket]) \in Nat
  BY <1>1, <1>2, <1>3 DEF Shape, CacheTypeOK, Grows, Last, WatcherOK
<1> QED
  BY <1>1, <1>2, <1>3 DEF WatcherOK, Grows, ServersKept, Watcher

LEMMA TouchKeeps ==
  ASSUME Shape, NEW s \in Server, Touches(s), spent' = spent
  PROVE  /\ ServersKept
         /\ \A r \in Server : StoreOK(r)'
         /\ store' \in [Server -> Entry \cup {0}]
         /\ copy' \in [Entry -> Copies]
<1>1. ServersKept /\ store' \in [Server -> Entry \cup {0}] /\ copy' \in [Entry -> Copies]
  BY DEF Touches, ServersKept
<1>2. ASSUME NEW r \in Server
      PROVE  StoreOK(r)'
  <2>1. store'[r] = store[r] \/ store'[r] = 0
    BY DEF Touches, Shape, CacheTypeOK
  <2>2. store[r] \in Entry \cup {0} /\ StoreOK(r)
    BY DEF Shape, PutsExist, CacheTypeOK
  <2> QED
    BY <2>1, <2>2 DEF Touches, StoreOK
<1> QED
  BY <1>1, <1>2

(* A step that leaves the buckets alone.                                   *)
LEMMA SamePuts ==
  ASSUME Shape, puts' = puts
  PROVE  Grows
<1>1. puts \in Seq(Seq(PutSet)) /\ Last \in Nat
  BY DEF Shape, CacheTypeOK, PutSet, Last
<1>2. \A b \in 1 .. Last : Len(puts[b]) \in Nat
  BY <1>1 DEF Last
<1> QED
  BY <1>1, <1>2 DEF Grows, Last

(* Everything but the processes is in order after a step.                  *)
RestOK ==
    /\ BucketOK' /\ exists' \in BOOLEAN
    /\ store' \in [Server -> Entry \cup {0}]
    /\ copy' \in [Entry -> Copies]
    /\ spent' \in [copies : Entry \cup {0}, updates : Nat]
    /\ \A s \in Server : StoreOK(s)'
    /\ watcher' \in [Entry -> Watcher]
    /\ \A e \in Entry : WatcherOK(e)'

(* A step of one process p after which it is in order.                     *)
LEMMA ProcessStep ==
  ASSUME Shape, Grows, ServersKept, NEW p \in Process,
         RestOK,
         NEW step \in {"idle", "reserve", "watch", "put", "set", "delete"},
         NEW locals \in LocalsSet,
         pc' = [pc EXCEPT ![p] = step], my' = [my EXCEPT ![p] = locals],
         ProcessOK(p)'
  PROVE  Shape'
<1>1. CacheTypeOK'
  <2>1. pc' \in [Process -> {"idle", "reserve", "watch", "put", "set", "delete"}]
    BY DEF Shape, CacheTypeOK
  <2>2. my' \in [Process -> LocalsSet]
    BY DEF Shape, CacheTypeOK
  <2> QED
    BY <2>1, <2>2 DEF CacheTypeOK, Grows, PutSet, RestOK
<1>2. ASSUME NEW q \in Process
      PROVE  ProcessOK(q)'
  <2>1. CASE q = p
    BY <2>1
  <2>2. CASE q # p
    BY <2>2, ProcessKept DEF Shape, CacheTypeOK
  <2> QED
    BY <2>1, <2>2
<1> QED
  BY <1>1, <1>2 DEF Shape, PutsExist, RestOK

(* What is left alone, or touched at the copy of a server, stays in order. *)
LEMMA RestTouched ==
  ASSUME Shape, NEW s \in Server,
         Touches(s) \/ (store' = store /\ copy' = copy),
         puts' = puts, exists' = exists, watcher' = watcher, spent' = spent
  PROVE  Grows /\ ServersKept /\ RestOK
<1>1. Grows
  BY SamePuts
<1>2. /\ ServersKept
      /\ \A r \in Server : StoreOK(r)'
      /\ store' \in [Server -> Entry \cup {0}]
      /\ copy' \in [Entry -> Copies]
  <2>1. CASE Touches(s)
    BY <2>1, TouchKeeps
  <2>2. CASE store' = store /\ copy' = copy
    BY <2>2 DEF Shape, CacheTypeOK, PutsExist, StoreOK, ServersKept
  <2> QED
    BY <2>1, <2>2
<1>3. \A e \in Entry : WatcherOK(e)'
  BY <1>1, <1>2, WatcherKept
<1>4. BucketOK'
  BY DEF Shape, PutsExist, BucketOK, Last
<1> QED
  BY <1>1, <1>2, <1>3, <1>4 DEF RestOK, Shape, CacheTypeOK

LEMMA IdleLocals == \A s \in Server \cup {None}, t \in SUBSET Field : Locals(s, t) \in LocalsSet
  BY NewCopyType DEF Locals, LocalsSet

LEMMA AfterWatchStep ==
  ASSUME Shape, NEW p \in Process, pc[p] \in {"reserve", "watch"}, AfterWatch(p),
         puts' = puts, ServersKept, RestOK
  PROVE  Shape'
<1>1. Grows
  BY SamePuts
<1>2. ProcessOK(p) /\ my[p] \in LocalsSet
  BY DEF Shape, PutsExist, CacheTypeOK
<1>3. pc \in [Process -> {"idle", "reserve", "watch", "put", "set", "delete"}]
      /\ my \in [Process -> LocalsSet]
  BY DEF Shape, CacheTypeOK
<1>4. CASE p = Owner
  <2> DEFINE locals == [my[p] EXCEPT !.entry = 0]
  <2>1. pc' = [pc EXCEPT ![p] = "put"] /\ my' = [my EXCEPT ![p] = locals]
    BY <1>4 DEF AfterWatch, Goto
  <2>2. locals \in LocalsSet /\ locals.server = my[p].server
    BY <1>2 DEF LocalsSet
  <2> HIDE DEF locals
  <2>3. pc'[p] = "put" /\ my'[p] = locals
    BY <1>3, <2>1
  <2>4. ProcessOK(p)'
    BY <1>2, <2>2, <2>3 DEF ProcessOK, Last
  <2> QED
    BY <1>1, <2>1, <2>2, <2>4, ProcessStep
<1>5. CASE p # Owner
  <2>1. pc' = [pc EXCEPT ![p] = "idle"] /\ my' = [my EXCEPT ![p] = Locals(None, {})]
    BY <1>5 DEF AfterWatch, Return, Goto
  <2>2. pc'[p] = "idle"
    BY <1>3, <2>1
  <2>3. ProcessOK(p)'
    BY <2>2 DEF ProcessOK
  <2> QED
    BY <1>1, <2>1, <2>3, ProcessStep, IdleLocals
<1> QED
  BY <1>4, <1>5

-----------------------------------------------------------------------------
(* The actions.                                                            *)
LEMMA WatchSkipShape ==
  ASSUME Shape, NEW p \in Process, WatchSkip(p)
  PROVE  Shape'
<1>1. my[p].server \in Server
  BY DEF WatchSkip, Shape, PutsExist, ProcessOK
<1> QED
  BY <1>1, RestTouched, AfterWatchStep DEF WatchSkip

LEMMA WatchFailShape ==
  ASSUME Shape, NEW p \in Process, WatchFail(p)
  PROVE  Shape'
<1>1. my[p].server \in Server
  BY DEF WatchFail, Shape, PutsExist, ProcessOK
<1>2. Touches(my[p].server)
  BY <1>1, CleanTouches DEF WatchFail
<1> QED
  BY <1>1, <1>2, RestTouched, AfterWatchStep DEF WatchFail

LEMMA WatchStartShape ==
  ASSUME Shape, NEW p \in Process, WatchStart(p)
  PROVE  Shape'
<1>1. /\ pc[p] = "watch" /\ exists
      /\ puts' = puts /\ exists' = exists /\ store' = store
      /\ copy' = copy /\ spent' = spent /\ AfterWatch(p)
  BY DEF WatchStart
<1>2. my[p].entry \in Entry /\ copy[my[p].entry].server \in Server
      /\ Last \in Nat /\ Last >= 1 /\ Last <= MaxBucket
  BY <1>1 DEF Shape, PutsExist, ProcessOK, BucketOK, CacheTypeOK, Last
<1> DEFINE new == [state |-> "running", bucket |-> Last, pos |-> 0]
<1>3. watcher' = [watcher EXCEPT ![my[p].entry] = new]
  BY DEF WatchStart
<1>4. new \in Watcher /\ new.bucket = Last /\ new.pos = 0
  BY <1>2, CacheAssumption DEF Watcher, CacheAssumption
<1>5. puts[Last] \in Seq(PutSet) /\ Len(puts[Last]) \in Nat
  BY <1>2 DEF Shape, CacheTypeOK, PutSet, Last
<1> HIDE DEF new
<1>6. Grows /\ ServersKept
  BY <1>1, SamePuts DEF ServersKept
<1>7. watcher' \in [Entry -> Watcher]
  BY <1>3, <1>4 DEF Shape, CacheTypeOK
<1>8. ASSUME NEW e \in Entry
      PROVE  WatcherOK(e)'
  <2>1. CASE e = my[p].entry
    <3>1. watcher'[e] = new
      BY <1>3, <2>1 DEF Shape, CacheTypeOK
    <3> QED
      BY <1>1, <1>2, <1>4, <1>5, <2>1, <3>1 DEF WatcherOK, Last
  <2>2. CASE e # my[p].entry
    BY <1>3, <1>6, <2>2, WatcherKept DEF Shape, CacheTypeOK
  <2> QED
    BY <2>1, <2>2
<1>9. RestOK
  BY <1>1, <1>7, <1>8 DEF RestOK, Shape, CacheTypeOK, PutsExist, StoreOK, BucketOK, Last
<1> QED
  BY <1>1, <1>6, <1>9, AfterWatchStep

LEMMA WatchReserveShape ==
  ASSUME Shape, NEW p \in Process, WatchReserve(p)
  PROVE  Shape'
<1> DEFINE s == my[p].server
           e == spent.copies + 1
<1>1. /\ pc[p] = "reserve" /\ e \in Entry
      /\ spent' = [spent EXCEPT !.copies = e]
      /\ store' = [store EXCEPT ![s] = e]
      /\ copy' = [copy EXCEPT ![e] = NewCopy(s)]
      /\ puts' = puts /\ exists' = exists /\ watcher' = watcher
  BY DEF WatchReserve
<1>2. s \in Server /\ my[p] \in LocalsSet /\ Last >= 1
  BY <1>1 DEF Shape, PutsExist, CacheTypeOK, ProcessOK
<1>3. NewCopy(s) \in Copies /\ NewCopy(s).server = s
  BY <1>2, NewCopyType DEF NewCopy
<1>4. spent.copies \in Nat
  BY DEF Shape, CacheTypeOK, Entry
<1> DEFINE locals == [my[p] EXCEPT !.entry = e]
<1>5. pc' = [pc EXCEPT ![p] = "watch"] /\ my' = [my EXCEPT ![p] = locals]
  BY DEF WatchReserve, Goto
<1>6. locals \in LocalsSet /\ locals.server = s /\ locals.entry = e
  BY <1>1, <1>2 DEF LocalsSet
<1>7. pc'[p] = "watch" /\ my'[p] = locals
  BY <1>5 DEF Shape, CacheTypeOK
<1>8. spent' \in [copies : Entry \cup {0}, updates : Nat] /\ spent'.copies = e
  BY <1>1 DEF Shape, CacheTypeOK
<1> HIDE DEF locals
<1>9. \A d \in Entry : copy'[d] = IF d = e THEN NewCopy(s) ELSE copy[d]
  BY <1>1 DEF Shape, CacheTypeOK
<1>10. Grows /\ ServersKept
  BY <1>1, <1>2, <1>3, <1>9, SamePuts DEF ServersKept
<1>11. ASSUME NEW r \in Server
       PROVE  StoreOK(r)'
  <2>1. CASE r = s
    BY <1>1, <1>2, <1>3, <1>4, <1>8, <1>9, <2>1 DEF StoreOK, Shape, CacheTypeOK
  <2>2. CASE r # s
    <3>1. store'[r] = store[r] /\ store[r] \in Entry \cup {0}
      BY <1>1, <2>2 DEF Shape, CacheTypeOK
    <3>2. store[r] # 0 => store[r] \in Entry /\ store[r] <= spent.copies
                          /\ copy[store[r]].server = r
      BY <3>1 DEF Shape, PutsExist, StoreOK
    <3> QED
      BY <1>4, <1>8, <1>9, <3>1, <3>2 DEF StoreOK, Entry
  <2> QED
    BY <2>1, <2>2
<1>12. RestOK
  <2>1. store' \in [Server -> Entry \cup {0}] /\ copy' \in [Entry -> Copies]
    BY <1>1, <1>3 DEF Shape, CacheTypeOK
  <2>2. \A d \in Entry : WatcherOK(d)'
    BY <1>1, <1>10, WatcherKept
  <2> QED
    BY <1>1, <1>8, <1>11, <2>1, <2>2
       DEF RestOK, Shape, CacheTypeOK, PutsExist, BucketOK, Last
<1>13. ProcessOK(p)'
  BY <1>1, <1>2, <1>3, <1>6, <1>7, <1>9 DEF ProcessOK, Last
<1> QED
  BY <1>5, <1>6, <1>10, <1>12, <1>13, ProcessStep

(* A step of the goroutine of the copy e, which is at new then.            *)
LEMMA EntryStep ==
  ASSUME Shape, NEW s \in Server, Touches(s), NEW e \in Entry, NEW new \in Watcher,
         new.state = "running" =>
           /\ new.bucket \in 1 .. Last /\ new.pos <= Len(puts[new.bucket])
           /\ copy[e].server \in Server,
         watcher' = [watcher EXCEPT ![e] = new],
         UNCHANGED <<puts, exists, pc, my, spent>>
  PROVE  Shape'
<1>1. Grows
  BY SamePuts
<1>2. /\ ServersKept
      /\ \A r \in Server : StoreOK(r)'
      /\ store' \in [Server -> Entry \cup {0}]
      /\ copy' \in [Entry -> Copies]
  BY TouchKeeps
<1>3. watcher' \in [Entry -> Watcher]
  BY DEF Shape, CacheTypeOK
<1>4. ASSUME NEW d \in Entry
      PROVE  WatcherOK(d)'
  <2>1. CASE d = e
    <3>1. watcher'[d] = new
      BY <2>1 DEF Shape, CacheTypeOK
    <3> QED
      BY <1>2, <2>1, <3>1 DEF WatcherOK, ServersKept, Last
  <2>2. CASE d # e
    BY <1>1, <1>2, <2>2, WatcherKept DEF Shape, CacheTypeOK
  <2> QED
    BY <2>1, <2>2
<1>5. CacheTypeOK'
  BY <1>2, <1>3 DEF Shape, CacheTypeOK
<1>6. \A q \in Process : ProcessOK(q)'
  BY <1>1, <1>2, ProcessKept
<1>7. BucketOK'
  BY DEF Shape, PutsExist, BucketOK, Last
<1> QED
  BY <1>2, <1>4, <1>5, <1>6, <1>7 DEF Shape, PutsExist

LEMMA DeliveredPut ==
  ASSUME Shape, NEW e \in Entry, watcher[e].state = "running",
         NEW r \in watcher[e].pos + 1 .. Len(puts[watcher[e].bucket])
  PROVE  /\ [bucket |-> watcher[e].bucket, rev |-> r] \in PutName
         /\ Named([bucket |-> watcher[e].bucket, rev |-> r])
         /\ [watcher[e] EXCEPT !.pos = r] \in Watcher
         /\ r \in Nat /\ r <= Len(puts[watcher[e].bucket])
         /\ watcher[e].bucket \in 1 .. Last
         /\ copy[e].server \in Server
<1>1. /\ watcher[e] \in Watcher /\ WatcherOK(e) /\ Last \in Nat /\ Last <= MaxBucket
      /\ MaxBucket \in Nat
  BY CacheAssumption DEF Shape, PutsExist, CacheTypeOK, Last, BucketOK, CacheAssumption
<1>2. /\ watcher[e].pos \in Nat /\ watcher[e].bucket \in 1 .. Last
      /\ watcher[e].bucket \in 0 .. MaxBucket /\ copy[e].server \in Server
  BY <1>1 DEF WatcherOK, Watcher
<1>3. puts[watcher[e].bucket] \in Seq(PutSet) /\ Len(puts[watcher[e].bucket]) \in Nat
  BY <1>2 DEF Shape, CacheTypeOK, PutSet, Last
<1>4. r \in Nat /\ r >= 1 /\ r <= Len(puts[watcher[e].bucket])
  BY <1>2, <1>3
<1>5. [watcher[e] EXCEPT !.pos = r] \in Watcher
  BY <1>1, <1>4 DEF Watcher
<1> QED
  BY <1>2, <1>3, <1>4, <1>5 DEF PutName, Named

LEMMA WatchDeliverShape ==
  ASSUME Shape, NEW e \in Entry, WatchDeliver(e)
  PROVE  Shape'
<1>1. /\ watcher[e].state = "running" /\ watcher[e] \in Watcher
      /\ UNCHANGED <<puts, exists, pc, my, spent>>
  BY DEF WatchDeliver, Shape, CacheTypeOK
<1>2. PICK r \in watcher[e].pos + 1 .. Len(puts[watcher[e].bucket]) :
        /\ watcher' = [watcher EXCEPT ![e].pos = r]
        /\ SetRoomInfoCache(copy[e].server, [bucket |-> watcher[e].bucket, rev |-> r])
  BY DEF WatchDeliver
<1> DEFINE new == [watcher[e] EXCEPT !.pos = r]
<1>3. /\ [bucket |-> watcher[e].bucket, rev |-> r] \in PutName
      /\ Named([bucket |-> watcher[e].bucket, rev |-> r])
      /\ new \in Watcher
      /\ r \in Nat /\ r <= Len(puts[watcher[e].bucket])
      /\ watcher[e].bucket \in 1 .. Last
      /\ copy[e].server \in Server
  BY <1>1, DeliveredPut
<1>4. watcher' = [watcher EXCEPT ![e] = new] /\ new.bucket = watcher[e].bucket /\ new.pos = r
  BY <1>1, <1>2 DEF Watcher
<1>5. Touches(copy[e].server)
  BY <1>2, <1>3, SetTouches
<1> HIDE DEF new
<1> QED
  BY <1>1, <1>3, <1>4, <1>5, EntryStep

LEMMA WatchStopShape ==
  ASSUME Shape, NEW e \in Entry, WatchStop(e)
  PROVE  Shape'
<1> DEFINE new == [state |-> "stopped", bucket |-> 0, pos |-> 0]
<1>1. new \in Watcher /\ new.state # "running"
  BY CacheAssumption DEF Watcher, CacheAssumption
<1>2. /\ watcher' = [watcher EXCEPT ![e] = new]
      /\ UNCHANGED <<puts, exists, pc, my, spent>>
  BY DEF WatchStop
<1>3. copy[e].server \in Server
  BY DEF WatchStop, Shape, PutsExist, WatcherOK
<1>4. Touches(copy[e].server)
  BY <1>3, CleanTouches DEF WatchStop
<1> HIDE DEF new
<1> QED
  BY <1>1, <1>2, <1>3, <1>4, EntryStep

(* kv.PutString into the last bucket, for a process that goes on with      *)
(* setRoomInfoCache.                                                       *)
LEMMA PutStep ==
  ASSUME Shape, NEW p \in Process, Last >= 1,
         NEW locals \in LocalsSet, locals.server \in Server,
         NEW f \in Field, NEW value \in {"created", "updated", "ended"},
         Put(p, locals, f, value), Goto(p, "set"),
         UNCHANGED <<exists, store, copy, watcher>>,
         spent' \in [copies : Entry \cup {0}, updates : Nat],
         spent'.copies = spent.copies
  PROVE  Shape'
<1> DEFINE x == [field |-> f, value |-> value]
           put == [bucket |-> Last, rev |-> Len(puts[Last]) + 1]
           new == [locals EXCEPT !.put = put, !.todo = @ \ {f}]
<1>1. x \in PutSet
  BY DEF PutSet
<1>2. puts \in Seq(Seq(PutSet)) /\ Last \in Nat /\ Last <= MaxBucket /\ MaxBucket \in Nat
  BY CacheAssumption DEF Shape, CacheTypeOK, PutsExist, BucketOK, PutSet, Last, CacheAssumption
<1>3. puts[Last] \in Seq(PutSet) /\ Len(puts[Last]) \in Nat
  BY <1>2 DEF Last
<1>4. puts' = [puts EXCEPT ![Last] = Append(puts[Last], x)]
  BY DEF Put
<1> HIDE DEF x
<1>5. /\ puts' \in Seq(Seq(PutSet)) /\ Len(puts') = Len(puts)
      /\ \A b \in 1 .. Len(puts) : Len(puts'[b]) >= Len(puts[b])
      /\ Len(puts'[Len(puts)]) = Len(puts[Len(puts)]) + 1
  BY <1>1, <1>2, <1>4, GrowPuts DEF Last
<1>6. Grows /\ ServersKept
  BY <1>2, <1>5 DEF Grows, ServersKept, Last
<1>7. put \in PutName /\ put.bucket = Last /\ put.rev = Len(puts[Last]) + 1
  BY <1>2, <1>3 DEF PutName
<1>8. put.bucket \in 1 .. Last' /\ put.rev \in 1 .. Len(puts'[put.bucket])
  BY <1>2, <1>3, <1>5, <1>7 DEF Last
<1>9. pc' = [pc EXCEPT ![p] = "set"] /\ my' = [my EXCEPT ![p] = new]
  BY DEF Put, Goto
<1> HIDE DEF put
<1>10. new \in LocalsSet /\ new.server = locals.server /\ new.put = put
  BY <1>7 DEF LocalsSet
<1> HIDE DEF new
<1>11. pc'[p] = "set" /\ my'[p] = new
  BY <1>9 DEF Shape, CacheTypeOK
<1>12. ProcessOK(p)'
  <2>1. my'[p].put = put /\ Last' >= 1
    BY <1>5, <1>10, <1>11 DEF Last
  <2> QED
    BY <1>8, <1>10, <1>11, <2>1 DEF ProcessOK, Named
<1>13. RestOK
  <2>1. \A d \in Entry : WatcherOK(d)'
    BY <1>6, WatcherKept
  <2>2. BucketOK'
    BY <1>5 DEF Shape, PutsExist, BucketOK, Last
  <2> QED
    BY <2>1, <2>2 DEF RestOK, Shape, CacheTypeOK, PutsExist, StoreOK
<1> QED
  BY <1>6, <1>9, <1>10, <1>12, <1>13, ProcessStep

LEMMA AddRoomPutShape ==
  ASSUME Shape, AddRoomPut
  PROVE  Shape'
<1>1. Owner \in Process /\ pc[Owner] = "put"
  BY DEF Process, AddRoomPut
<1>2. my[Owner] \in LocalsSet /\ my[Owner].server \in Server /\ Last >= 1
  BY <1>1 DEF Shape, CacheTypeOK, PutsExist, ProcessOK
<1>3. PICK f \in my[Owner].todo : Put(Owner, my[Owner], f, "created")
  BY DEF AddRoomPut
<1>4. f \in Field
  BY <1>2 DEF LocalsSet
<1>5. spent' \in [copies : Entry \cup {0}, updates : Nat] /\ spent'.copies = spent.copies
  BY DEF Shape, CacheTypeOK, AddRoomPut
<1> QED
  BY <1>1, <1>2, <1>3, <1>4, <1>5, PutStep DEF AddRoomPut

LEMMA UpdateRoomStatusShape ==
  ASSUME Shape, NEW s \in Server, UpdateRoomStatus(s)
  PROVE  Shape'
<1>1. Owner \in Process /\ Last >= 1
  BY DEF Process, UpdateRoomStatus, Shape, PutsExist, BucketOK
<1>2. Locals(s, {}) \in LocalsSet /\ Locals(s, {}).server \in Server
  BY IdleLocals DEF Locals
<1>3. spent' \in [copies : Entry \cup {0}, updates : Nat] /\ spent'.copies = spent.copies
  BY DEF Shape, CacheTypeOK, UpdateRoomStatus
<1>4. "status" \in Field
  BY DEF Field
<1> QED
  BY <1>1, <1>2, <1>3, <1>4, PutStep DEF UpdateRoomStatus

LEMMA UpdateRoomMetadataShape ==
  ASSUME Shape, NEW h \in Handler, NEW s \in Server, UpdateRoomMetadata(h, s)
  PROVE  Shape'
<1>1. h \in Process /\ Last >= 1
  BY DEF Process, UpdateRoomMetadata, Shape, PutsExist, BucketOK
<1>2. Locals(s, {}) \in LocalsSet /\ Locals(s, {}).server \in Server
  BY IdleLocals DEF Locals
<1>3. spent' \in [copies : Entry \cup {0}, updates : Nat] /\ spent'.copies = spent.copies
  BY DEF Shape, CacheTypeOK, UpdateRoomMetadata
<1>4. "metadata" \in Field
  BY DEF Field
<1> QED
  BY <1>1, <1>2, <1>3, <1>4, PutStep DEF UpdateRoomMetadata

LEMMA SetOwnCopyShape ==
  ASSUME Shape, NEW p \in Process, SetOwnCopy(p)
  PROVE  Shape'
<1>1. /\ pc[p] = "set" /\ my[p].server \in Server /\ my[p] \in LocalsSet
      /\ Named(my[p].put) /\ Last >= 1
  BY DEF SetOwnCopy, Shape, CacheTypeOK, PutsExist, ProcessOK
<1>2. my[p].put \in PutName
  BY <1>1 DEF LocalsSet
<1>3. Touches(my[p].server)
  BY <1>1, <1>2, SetTouches DEF SetOwnCopy
<1>4. Grows /\ ServersKept /\ RestOK
  BY <1>1, <1>3, RestTouched DEF SetOwnCopy
<1>5. CASE my[p].todo # {}
  <2> DEFINE new == [my[p] EXCEPT !.put = NoPut]
  <2>1. pc' = [pc EXCEPT ![p] = "put"] /\ my' = [my EXCEPT ![p] = new]
    BY <1>1, <1>5 DEF SetOwnCopy, Goto, LocalsSet, Shape, CacheTypeOK
  <2>2. new \in LocalsSet /\ new.server = my[p].server
    BY <1>1, NewCopyType DEF LocalsSet
  <2> HIDE DEF new
  <2>3. pc'[p] = "put" /\ my'[p] = new
    BY <2>1 DEF Shape, CacheTypeOK
  <2>4. ProcessOK(p)'
    BY <1>1, <2>2, <2>3 DEF ProcessOK, Last, SetOwnCopy
  <2> QED
    BY <1>4, <2>1, <2>2, <2>4, ProcessStep
<1>6. CASE my[p].todo = {}
  <2> DEFINE step == IF Ended(my[p].put.bucket, my[p].put.rev) THEN "delete" ELSE "idle"
  <2>1. pc' = [pc EXCEPT ![p] = step] /\ my' = [my EXCEPT ![p] = Locals(None, {})]
    BY <1>6 DEF SetOwnCopy, Goto
  <2>2. step \in {"delete", "idle"}
    OBVIOUS
  <2> HIDE DEF step
  <2>3. pc'[p] = step
    BY <2>1 DEF Shape, CacheTypeOK
  <2>4. ProcessOK(p)'
    BY <1>1, <2>2, <2>3 DEF ProcessOK, Last, SetOwnCopy
  <2> QED
    BY <1>4, <2>1, <2>2, <2>4, ProcessStep, IdleLocals
<1> QED
  BY <1>5, <1>6

LEMMA DeleteRoomShape ==
  ASSUME Shape, DeleteRoom
  PROVE  Shape'
<1>1. /\ Owner \in Process
      /\ pc' = [pc EXCEPT ![Owner] = "idle"] /\ my' = [my EXCEPT ![Owner] = Locals(None, {})]
      /\ exists' = FALSE /\ UNCHANGED <<puts, store, copy, watcher, spent>>
  BY DEF DeleteRoom, Return, Goto, Process
<1>2. Grows /\ ServersKept
  BY <1>1, SamePuts DEF ServersKept
<1>3. RestOK
  BY <1>1, <1>2, WatcherKept
     DEF RestOK, Shape, CacheTypeOK, PutsExist, StoreOK, BucketOK, Last
<1>4. ProcessOK(Owner)'
  <2>1. pc'[Owner] = "idle"
    BY <1>1 DEF Shape, CacheTypeOK
  <2> QED
    BY <2>1 DEF ProcessOK
<1> QED
  BY <1>1, <1>2, <1>3, <1>4, ProcessStep, IdleLocals

LEMMA GetRoomInfoShape ==
  ASSUME Shape, NEW h \in Handler, NEW s \in Server, GetRoomInfo(h, s)
  PROVE  Shape'
<1>1. /\ h \in Process
      /\ pc' = [pc EXCEPT ![h] = "reserve"] /\ my' = [my EXCEPT ![h] = Locals(s, {})]
      /\ UNCHANGED <<puts, exists, store, copy, watcher, spent>> /\ Last >= 1
  BY DEF GetRoomInfo, Begin, Goto, Process, Shape, PutsExist, BucketOK
<1>2. Grows /\ ServersKept /\ RestOK
  BY <1>1, RestTouched
<1>3. ProcessOK(h)'
  <2>1. pc'[h] = "reserve" /\ my'[h] = Locals(s, {}) /\ Locals(s, {}).server = s
    BY <1>1 DEF Shape, CacheTypeOK, Locals
  <2> QED
    BY <1>1, <2>1 DEF ProcessOK, Last
<1> QED
  BY <1>1, <1>2, <1>3, ProcessStep, IdleLocals

LEMMA AddRoomShape ==
  ASSUME Shape, NEW s \in Server, AddRoom(s)
  PROVE  Shape'
<1>1. /\ Owner \in Process
      /\ pc' = [pc EXCEPT ![Owner] = "reserve"] /\ my' = [my EXCEPT ![Owner] = Locals(s, Added)]
      /\ puts' = Append(puts, <<>>) /\ exists' = TRUE
      /\ UNCHANGED <<store, copy, watcher, spent>> /\ Last < MaxBucket
  BY DEF AddRoom, Begin, Goto, Process
<1>2. puts \in Seq(Seq(PutSet)) /\ Last \in Nat /\ MaxBucket \in Nat
  BY CacheAssumption DEF Shape, CacheTypeOK, PutSet, Last, CacheAssumption
<1>2a. \A b \in 1 .. Len(puts) : Len(puts[b]) \in Nat
  <2>1. \A b \in 1 .. Len(puts) : puts[b] \in Seq(PutSet)
    BY <1>2
  <2> QED
    BY <2>1
<1>3. puts' \in Seq(Seq(PutSet)) /\ Last' = Last + 1
  BY <1>1, <1>2 DEF Last
<1>4. \A b \in 1 .. Last : puts'[b] = puts[b] /\ Len(puts[b]) \in Nat
  BY <1>1, <1>2, <1>2a DEF Last
<1>5. Grows /\ ServersKept
  <2>1. \A b \in 1 .. Last : Len(puts'[b]) >= Len(puts[b])
    BY <1>4
  <2>2. ServersKept
    BY <1>1 DEF ServersKept
  <2>3. Last' >= Last
    BY <1>2, <1>3
  <2> QED
    BY <1>3, <2>1, <2>2, <2>3 DEF Grows
<1>6. RestOK
  <2>1. BucketOK'
    BY <1>1, <1>2, <1>3 DEF BucketOK
  <2>2. \A d \in Entry : WatcherOK(d)'
    BY <1>1, <1>5, WatcherKept
  <2> QED
    BY <1>1, <2>1, <2>2 DEF RestOK, Shape, CacheTypeOK, PutsExist, StoreOK
<1>7. Locals(s, Added) \in LocalsSet /\ Locals(s, Added).server = s
  BY IdleLocals, CacheAssumption DEF CacheAssumption, Field, Locals
<1>8. ProcessOK(Owner)'
  <2>1. pc'[Owner] = "reserve" /\ my'[Owner] = Locals(s, Added)
    BY <1>1 DEF Shape, CacheTypeOK
  <2> QED
    BY <1>2, <1>3, <1>7, <2>1 DEF ProcessOK
<1> QED
  BY <1>1, <1>5, <1>6, <1>7, <1>8, ProcessStep

LEMMA InitShape == Init => Shape
<1> SUFFICES ASSUME Init PROVE Shape
  OBVIOUS
<1>1. CacheTypeOK
  <2>1. NewCopy(None) \in Copies /\ Locals(None, {}) \in LocalsSet
    BY NewCopyType, IdleLocals
  <2>2. [state |-> "none", bucket |-> 0, pos |-> 0] \in Watcher
    BY CacheAssumption DEF CacheAssumption, Watcher
  <2>3. puts \in Seq(Seq(PutSet)) /\ exists \in BOOLEAN
    <3>1. puts = <<>> /\ exists \in BOOLEAN
      BY DEF Init
    <3>2. puts \in Seq(Seq(PutSet))
      BY <3>1
    <3> QED
      BY <3>1, <3>2
  <2>4. store \in [Server -> Entry \cup {0}] /\ spent \in [copies : Entry \cup {0}, updates : Nat]
    BY DEF Init
  <2>5. copy \in [Entry -> Copies] /\ watcher \in [Entry -> Watcher]
    BY <2>1, <2>2 DEF Init
  <2>6. /\ pc \in [Process -> {"idle", "reserve", "watch", "put", "set", "delete"}]
        /\ my \in [Process -> LocalsSet]
    BY <2>1 DEF Init
  <2> QED
    BY <2>3, <2>4, <2>5, <2>6 DEF CacheTypeOK, PutSet
<1>2. Last = 0 /\ MaxBucket \in Nat
  BY CacheAssumption DEF Init, Last, CacheAssumption
<1>3. BucketOK /\ \A p \in Process : ProcessOK(p)
  BY <1>2 DEF Init, BucketOK, ProcessOK
<1>4. (\A e \in Entry : WatcherOK(e)) /\ \A s \in Server : StoreOK(s)
  BY DEF Init, WatcherOK, StoreOK
<1> QED
  BY <1>1, <1>3, <1>4 DEF Shape, PutsExist

LEMMA NextShape ==
  ASSUME Shape, [Next]_vars
  PROVE  Shape'
<1>1. CASE UNCHANGED vars
  <2>1. CacheTypeOK'
    BY <1>1 DEF vars, Shape, CacheTypeOK
  <2>2. BucketOK' /\ (\A p \in Process : ProcessOK(p)') /\ \A e \in Entry : WatcherOK(e)'
    BY <1>1 DEF vars, Shape, PutsExist, BucketOK, ProcessOK, WatcherOK, Named, Last
  <2>3. \A s \in Server : StoreOK(s)'
    BY <1>1 DEF vars, Shape, PutsExist, StoreOK
  <2> QED
    BY <2>1, <2>2, <2>3 DEF Shape, PutsExist
<1>2. ASSUME NEW s \in Server, AddRoom(s) \/ UpdateRoomStatus(s)
      PROVE  Shape'
  BY <1>2, AddRoomShape, UpdateRoomStatusShape
<1>3. ASSUME NEW h \in Handler, NEW s \in Server, UpdateRoomMetadata(h, s) \/ GetRoomInfo(h, s)
      PROVE  Shape'
  BY <1>3, UpdateRoomMetadataShape, GetRoomInfoShape
<1>4. CASE AddRoomPut \/ DeleteRoom
  BY <1>4, AddRoomPutShape, DeleteRoomShape
<1>5. ASSUME NEW p \in Process, Watch(p) \/ SetOwnCopy(p)
      PROVE  Shape'
  BY <1>5, WatchSkipShape, WatchReserveShape, WatchStartShape, WatchFailShape, SetOwnCopyShape
     DEF Watch
<1>6. ASSUME NEW e \in Entry, WatchStep(e)
      PROVE  Shape'
  BY <1>6, WatchDeliverShape, WatchStopShape DEF WatchStep
<1> QED
  BY <1>1, <1>2, <1>3, <1>4, <1>5, <1>6 DEF Next

(* Whatever the handlers and watchers do, every variable keeps its shape;  *)
(* by the way, the puts a handler or a watcher refers to were made.        *)
THEOREM CacheTypeCorrect == Spec => []CacheTypeOK
<1>1. Init => Shape
  BY InitShape
<1>2. Shape /\ [Next]_vars => Shape'
  BY NextShape
<1>3. Shape => CacheTypeOK
  BY DEF Shape
<1> QED
  BY <1>1, <1>2, <1>3, PTL DEF Spec

-----------------------------------------------------------------------------
(* Copies and goroutines.  A copy that was made has a process between      *)
(* reserving it and watching, then a goroutine; while it has either, it is *)
(* in the store of its server or its channel is closed.                    *)
Setting(p, e) == pc[p] = "watch" /\ my[p].entry = e

Running(e) == watcher[e].state = "running"

NewOnes == \A e \in Entry : e > spent.copies => watcher[e].state = "none"

SettersOK ==
    \A p \in Process : pc[p] = "watch" =>
      /\ my[p].entry <= spent.copies
      /\ copy[my[p].entry].server = my[p].server
      /\ watcher[my[p].entry].state = "none"

OneSetter ==
    \A p, q \in Process :
      pc[p] = "watch" /\ pc[q] = "watch" /\ my[p].entry = my[q].entry => p = q

StoredOK ==
    \A s \in Server : store[s] # 0 =>
      /\ copy[store[s]].closes = 0
      /\ Running(store[s]) \/ \E p \in Process : Setting(p, store[s])

ServedOK ==
    \A e \in Entry : Running(e) \/ (\E p \in Process : Setting(p, e)) =>
      store[copy[e].server] = e \/ copy[e].closes > 0

CopyInv == NewOnes /\ SettersOK /\ OneSetter /\ StoredOK /\ ServedOK /\ ClosedOnce

(* A step that leaves copies and stores alone, but for the values held.    *)
Quiet ==
    /\ store' = store
    /\ \A e \in Entry : copy'[e].server = copy[e].server /\ copy'[e].closes = copy[e].closes

(* What either kind of step leaves of stores and channels.                 *)
LEMMA DropFacts ==
  ASSUME Shape, NEW s, Quiet \/ (s \in Server /\ Touches(s))
  PROVE  /\ \A e \in Entry : /\ copy[e].closes \in Nat /\ copy'[e].closes \in Nat
                             /\ copy'[e].server = copy[e].server
                             /\ \/ copy'[e].closes = copy[e].closes
                                \/ /\ copy'[e].closes = copy[e].closes + 1
                                   /\ s \in Server /\ store[s] = e
         /\ \A r \in Server : store'[r] # 0 =>
              store'[r] = store[r] /\ copy'[store[r]].closes = copy[store[r]].closes
         /\ \A r \in Server : store[r] # 0 =>
              store'[r] = store[r] \/ copy'[store[r]].closes > 0
<1>1. /\ store \in [Server -> Entry \cup {0}]
      /\ \A e \in Entry : copy[e].closes \in Nat
      /\ \A r \in Server : StoreOK(r)
  BY DEF Shape, CacheTypeOK, PutsExist, Copies
<1>2. CASE Quiet
  BY <1>1, <1>2 DEF Quiet
<1>3. CASE s \in Server /\ Touches(s)
  <2>1. CASE store' = store /\ \A e \in Entry : copy'[e].closes = copy[e].closes
    BY <1>1, <1>3, <2>1 DEF Touches
  <2>2. CASE /\ store' = [store EXCEPT ![s] = 0]
             /\ \A e \in Entry : e # store[s] => copy'[e].closes = copy[e].closes
             /\ store[s] # 0 => copy'[store[s]].closes = copy[store[s]].closes + 1
    <3>1. \A r \in Server : store'[r] = IF r = s THEN 0 ELSE store[r]
      BY <1>1, <1>3, <2>2
    <3>2. \A e \in Entry : /\ copy'[e].server = copy[e].server
                           /\ e # 0
      BY <1>3 DEF Touches, Entry
    <3>3. ASSUME NEW e \in Entry
          PROVE  /\ copy'[e].closes \in Nat
                 /\ \/ copy'[e].closes = copy[e].closes
                    \/ /\ copy'[e].closes = copy[e].closes + 1
                       /\ s \in Server /\ store[s] = e
      BY <1>1, <1>3, <2>2, <3>2
    <3>4. ASSUME NEW r \in Server, store[r] # 0, r # s
          PROVE  copy'[store[r]].closes = copy[store[r]].closes
      <4>1. store[r] \in Entry /\ copy[store[r]].server = r
        BY <1>1, <3>4 DEF StoreOK
      <4>2. store[s] # 0 => copy[store[s]].server = s
        BY <1>1, <1>3 DEF StoreOK
      <4> QED
        BY <2>2, <3>4, <4>1, <4>2
    <3>5. store[s] # 0 => copy'[store[s]].closes > 0
      BY <1>1, <1>3, <2>2
    <3> QED
      BY <1>1, <3>1, <3>2, <3>3, <3>4, <3>5
  <2> QED
    BY <1>3, <2>1, <2>2 DEF Touches
<1> QED
  BY <1>2, <1>3

(* A step that touches at most the copy of s, that takes some processes    *)
(* from their setting up because the goroutine starts or because they      *)
(* dropped what s had, and that stops goroutines of closed copies only.    *)
LEMMA CopyStep ==
  ASSUME Shape, CopyInv, NEW s, Quiet \/ (s \in Server /\ Touches(s)),
         spent'.copies = spent.copies,
         \A q \in Process : pc'[q] = "watch" => pc[q] = "watch" /\ my'[q] = my[q],
         \A q \in Process : pc[q] = "watch" /\ pc'[q] # "watch" =>
           \/ watcher'[my[q].entry].state = "running"
           \/ my[q].server = s /\ store'[s] = 0,
         \A e \in Entry : watcher'[e].state # watcher[e].state =>
           \/ /\ watcher[e].state = "running" /\ copy[e].closes > 0
              /\ watcher'[e].state = "stopped"
           \/ /\ watcher'[e].state = "running"
              /\ \E q \in Process : Setting(q, e) /\ pc'[q] # "watch"
  PROVE  CopyInv'
<1>1. /\ \A e \in Entry : /\ copy[e].closes \in Nat /\ copy'[e].closes \in Nat
                          /\ copy'[e].server = copy[e].server
                          /\ \/ copy'[e].closes = copy[e].closes
                             \/ /\ copy'[e].closes = copy[e].closes + 1
                                /\ s \in Server /\ store[s] = e
      /\ \A r \in Server : store'[r] # 0 =>
           store'[r] = store[r] /\ copy'[store[r]].closes = copy[store[r]].closes
      /\ \A r \in Server : store[r] # 0 =>
           store'[r] = store[r] \/ copy'[store[r]].closes > 0
  BY DropFacts
<1>2. /\ \A e \in Entry : e # 0
      /\ spent.copies \in Nat
      /\ store \in [Server -> Entry \cup {0}]
  BY DEF Entry, Shape, CacheTypeOK
<1>3. /\ \A p \in Process : pc[p] = "watch" =>
           my[p].entry \in Entry /\ copy[my[p].entry].server \in Server
      /\ \A e \in Entry : Running(e) => copy[e].server \in Server
      /\ \A r \in Server : store[r] # 0 => copy[store[r]].server = r
  BY DEF Shape, PutsExist, ProcessOK, WatcherOK, StoreOK, Running
<1>4. NewOnes'
  <2> SUFFICES ASSUME NEW e \in Entry, e > spent.copies
               PROVE  watcher'[e].state = "none"
    BY DEF NewOnes
  <2>1. watcher[e].state = "none"
    BY DEF CopyInv, NewOnes
  <2>2. ~ \E q \in Process : Setting(q, e)
    <3>1. ASSUME NEW q \in Process, Setting(q, e)
          PROVE  e <= spent.copies
      BY <3>1 DEF CopyInv, SettersOK, Setting
    <3>2. e \in Nat /\ ~(e <= spent.copies)
      BY <1>2 DEF Entry
    <3> QED
      BY <3>1, <3>2
  <2> QED
    BY <2>1, <2>2
<1>5. SettersOK'
  <2> SUFFICES ASSUME NEW p \in Process, pc'[p] = "watch"
               PROVE  /\ my'[p].entry <= spent'.copies
                      /\ copy'[my'[p].entry].server = my'[p].server
                      /\ watcher'[my'[p].entry].state = "none"
    BY DEF SettersOK
  <2>1. /\ pc[p] = "watch" /\ my'[p] = my[p] /\ my[p].entry \in Entry
        /\ watcher[my[p].entry].state = "none"
        /\ my[p].entry <= spent.copies /\ copy[my[p].entry].server = my[p].server
    BY <1>3 DEF CopyInv, SettersOK
  <2>2. ~ \E q \in Process : Setting(q, my[p].entry) /\ pc'[q] # "watch"
    BY <2>1 DEF CopyInv, OneSetter, Setting
  <2>3. watcher'[my[p].entry].state = "none"
    BY <2>1, <2>2
  <2> QED
    BY <1>1, <2>1, <2>3
<1>6. OneSetter'
  BY DEF CopyInv, OneSetter
<1>7. StoredOK'
  <2> SUFFICES ASSUME NEW r \in Server, store'[r] # 0
               PROVE  /\ copy'[store'[r]].closes = 0
                      /\ Running(store[r])' \/ \E p \in Process : Setting(p, store[r])'
    BY DEF StoredOK
  <2>1. /\ store'[r] = store[r] /\ store[r] \in Entry
        /\ copy[store[r]].closes = 0 /\ copy'[store[r]].closes = 0
        /\ copy[store[r]].server = r
    BY <1>1, <1>2, <1>3 DEF CopyInv, StoredOK
  <2>2. CASE Running(store[r])
    BY <2>1, <2>2 DEF Running
  <2>3. ASSUME NEW p \in Process, Setting(p, store[r])
        PROVE  Running(store[r])' \/ Setting(p, store[r])'
    <3>1. my[p].server = r
      BY <2>1, <2>3 DEF CopyInv, SettersOK, Setting
    <3>2. CASE pc'[p] = "watch"
      BY <2>1, <2>3, <3>2 DEF Setting
    <3>3. CASE pc'[p] # "watch"
      BY <2>1, <2>3, <3>1, <3>3 DEF Setting, Running
    <3> QED
      BY <3>2, <3>3
  <2> QED
    BY <2>1, <2>2, <2>3 DEF CopyInv, StoredOK
<1>8. ServedOK'
  <2> SUFFICES ASSUME NEW d \in Entry, Running(d)' \/ \E p \in Process : Setting(p, d)'
               PROVE  store'[copy'[d].server] = d \/ copy'[d].closes > 0
    BY DEF ServedOK
  <2>1. Running(d) \/ \E p \in Process : Setting(p, d)
    BY DEF Running, Setting
  <2>2. copy[d].server \in Server /\ (store[copy[d].server] = d \/ copy[d].closes > 0)
    BY <1>3, <2>1 DEF CopyInv, ServedOK, Setting
  <2> QED
    BY <1>1, <1>2, <2>2
<1>9. ClosedOnce'
  <2> SUFFICES ASSUME NEW e \in Entry
               PROVE  copy'[e].closes <= 1
    BY DEF ClosedOnce
  <2>1. CASE copy'[e].closes = copy[e].closes
    BY <2>1 DEF CopyInv, ClosedOnce
  <2>2. CASE copy'[e].closes = copy[e].closes + 1 /\ s \in Server /\ store[s] = e
    BY <1>2, <2>2 DEF CopyInv, StoredOK
  <2> QED
    BY <1>1, <2>1, <2>2
<1> QED
  BY <1>4, <1>5, <1>6, <1>7, <1>8, <1>9 DEF CopyInv

(* A step of a process that neither sets up a goroutine nor begins to.     *)
LEMMA HandlerStep ==
  ASSUME Shape, CopyInv, NEW s, Quiet \/ (s \in Server /\ Touches(s)),
         spent'.copies = spent.copies, watcher' = watcher,
         NEW p \in Process, pc[p] # "watch", NEW step, step # "watch",
         pc' = [pc EXCEPT ![p] = step], NEW locals, my' = [my EXCEPT ![p] = locals]
  PROVE  CopyInv'
<1>1. \A q \in Process : /\ q = p => pc'[q] = step
                         /\ q # p => pc'[q] = pc[q] /\ my'[q] = my[q]
  BY DEF Shape, CacheTypeOK
<1>2. \A q \in Process : pc'[q] = "watch" => pc[q] = "watch" /\ my'[q] = my[q]
  BY <1>1
<1>3. \A q \in Process : ~(pc[q] = "watch" /\ pc'[q] # "watch")
  BY <1>1
<1> QED
  BY <1>2, <1>3, CopyStep

LEMMA AfterWatchForm ==
  ASSUME Shape, NEW p \in Process, AfterWatch(p)
  PROVE  \E step, locals :
           /\ step # "watch"
           /\ pc' = [pc EXCEPT ![p] = step] /\ my' = [my EXCEPT ![p] = locals]
<1>1. CASE p = Owner
  <2> DEFINE locals == [my[p] EXCEPT !.entry = 0]
  <2>1. pc' = [pc EXCEPT ![p] = "put"] /\ my' = [my EXCEPT ![p] = locals]
    BY <1>1 DEF AfterWatch, Goto
  <2> HIDE DEF locals
  <2> QED
    BY <2>1
<1>2. CASE p # Owner
  <2>1. pc' = [pc EXCEPT ![p] = "idle"] /\ my' = [my EXCEPT ![p] = Locals(None, {})]
    BY <1>2 DEF AfterWatch, Return, Goto
  <2> QED
    BY <2>1
<1> QED
  BY <1>1, <1>2

LEMMA WatchSkipCopy ==
  ASSUME Shape, CopyInv, NEW p \in Process, WatchSkip(p)
  PROVE  CopyInv'
<1>1. PICK step, locals :
        /\ step # "watch"
        /\ pc' = [pc EXCEPT ![p] = step] /\ my' = [my EXCEPT ![p] = locals]
  BY AfterWatchForm DEF WatchSkip
<1>2. Quiet /\ pc[p] # "watch" /\ spent'.copies = spent.copies /\ watcher' = watcher
  BY DEF WatchSkip, Quiet
<1> QED
  BY <1>1, <1>2, HandlerStep

LEMMA WatchStartCopy ==
  ASSUME Shape, CopyInv, NEW p \in Process, WatchStart(p)
  PROVE  CopyInv'
<1>1. PICK step, locals :
        /\ step # "watch"
        /\ pc' = [pc EXCEPT ![p] = step] /\ my' = [my EXCEPT ![p] = locals]
  BY AfterWatchForm DEF WatchStart
<1>2. /\ Quiet /\ pc[p] = "watch" /\ spent'.copies = spent.copies
      /\ watcher' = [watcher EXCEPT ![my[p].entry] =
                       [state |-> "running", bucket |-> Last, pos |-> 0]]
  BY DEF WatchStart, Quiet
<1>3. my[p].entry \in Entry
  BY <1>2 DEF Shape, PutsExist, ProcessOK
<1>4. \A q \in Process : /\ q = p => pc'[q] # "watch"
                         /\ q # p => pc'[q] = pc[q] /\ my'[q] = my[q]
  BY <1>1 DEF Shape, CacheTypeOK
<1>5. /\ watcher'[my[p].entry].state = "running"
      /\ \A e \in Entry : e # my[p].entry => watcher'[e] = watcher[e]
  BY <1>2, <1>3 DEF Shape, CacheTypeOK
<1>6. \A q \in Process : pc'[q] = "watch" => pc[q] = "watch" /\ my'[q] = my[q]
  BY <1>4
<1>7. \A q \in Process : pc[q] = "watch" /\ pc'[q] # "watch" =>
        watcher'[my[q].entry].state = "running"
  BY <1>4, <1>5
<1>8. \A e \in Entry : watcher'[e].state # watcher[e].state =>
        /\ watcher'[e].state = "running"
        /\ \E q \in Process : Setting(q, e) /\ pc'[q] # "watch"
  BY <1>2, <1>4, <1>5 DEF Setting
<1> QED
  BY <1>2, <1>6, <1>7, <1>8, CopyStep

LEMMA WatchFailCopy ==
  ASSUME Shape, CopyInv, NEW p \in Process, WatchFail(p)
  PROVE  CopyInv'
<1>1. PICK step, locals :
        /\ step # "watch"
        /\ pc' = [pc EXCEPT ![p] = step] /\ my' = [my EXCEPT ![p] = locals]
  BY AfterWatchForm DEF WatchFail
<1>2. pc[p] = "watch" /\ spent'.copies = spent.copies /\ watcher' = watcher
  BY DEF WatchFail
<1>3. my[p].server \in Server
  BY <1>2 DEF Shape, PutsExist, ProcessOK
<1>4. Touches(my[p].server) /\ store'[my[p].server] = 0
  BY <1>3, CleanTouches DEF WatchFail, Clean, Shape, CacheTypeOK
<1>5. \A q \in Process : /\ q = p => pc'[q] # "watch"
                         /\ q # p => pc'[q] = pc[q] /\ my'[q] = my[q]
  BY <1>1 DEF Shape, CacheTypeOK
<1>6. \A q \in Process : pc'[q] = "watch" => pc[q] = "watch" /\ my'[q] = my[q]
  BY <1>5
<1>7. \A q \in Process : pc[q] = "watch" /\ pc'[q] # "watch" =>
        my[q].server = my[p].server /\ store'[my[p].server] = 0
  BY <1>4, <1>5
<1> QED
  BY <1>2, <1>3, <1>4, <1>6, <1>7, CopyStep

LEMMA SetOwnCopyCopy ==
  ASSUME Shape, CopyInv, NEW p \in Process, SetOwnCopy(p)
  PROVE  CopyInv'
<1>1. /\ pc[p] = "set" /\ my[p].server \in Server /\ my[p] \in LocalsSet
      /\ Named(my[p].put)
  BY DEF SetOwnCopy, Shape, CacheTypeOK, PutsExist, ProcessOK
<1>2. my[p].put \in PutName
  BY <1>1 DEF LocalsSet
<1>3. Touches(my[p].server)
  BY <1>1, <1>2, SetTouches DEF SetOwnCopy
<1>4. spent'.copies = spent.copies /\ watcher' = watcher
  BY DEF SetOwnCopy
<1>5. CASE my[p].todo # {}
  <2> DEFINE new == [my[p] EXCEPT !.put = NoPut]
  <2>1. pc' = [pc EXCEPT ![p] = "put"] /\ my' = [my EXCEPT ![p] = new]
    BY <1>1, <1>5 DEF SetOwnCopy, Goto, LocalsSet, Shape, CacheTypeOK
  <2> HIDE DEF new
  <2> QED
    BY <1>1, <1>3, <1>4, <2>1, HandlerStep
<1>6. CASE my[p].todo = {}
  <2> DEFINE step == IF Ended(my[p].put.bucket, my[p].put.rev) THEN "delete" ELSE "idle"
  <2>1. pc' = [pc EXCEPT ![p] = step] /\ my' = [my EXCEPT ![p] = Locals(None, {})]
    BY <1>6 DEF SetOwnCopy, Goto
  <2>2. step # "watch"
    OBVIOUS
  <2> HIDE DEF step
  <2> QED
    BY <1>1, <1>3, <1>4, <2>1, <2>2, HandlerStep
<1> QED
  BY <1>5, <1>6

LEMMA PutCopy ==
  ASSUME Shape, CopyInv, NEW p \in Process, pc[p] # "watch",
         NEW locals, NEW f, NEW value, Put(p, locals, f, value), Goto(p, "set"),
         UNCHANGED <<store, copy, watcher>>, spent'.copies = spent.copies
  PROVE  CopyInv'
<1> DEFINE new == [locals EXCEPT !.put = [bucket |-> Last, rev |-> Len(puts[Last]) + 1],
                                 !.todo = @ \ {f}]
<1>1. pc' = [pc EXCEPT ![p] = "set"] /\ my' = [my EXCEPT ![p] = new]
  BY DEF Put, Goto
<1> HIDE DEF new
<1>2. Quiet
  BY DEF Quiet
<1> QED
  BY <1>1, <1>2, HandlerStep

LEMMA OwnerCopy ==
  ASSUME Shape, CopyInv, AddRoomPut \/ DeleteRoom
                         \/ \E s \in Server : AddRoom(s) \/ UpdateRoomStatus(s)
  PROVE  CopyInv'
<1>1. Owner \in Process
  BY DEF Process
<1>2. CASE AddRoomPut
  BY <1>1, <1>2, PutCopy DEF AddRoomPut
<1>3. ASSUME NEW s \in Server, UpdateRoomStatus(s)
      PROVE  CopyInv'
  BY <1>1, <1>3, PutCopy DEF UpdateRoomStatus
<1>4. CASE DeleteRoom
  <2>1. /\ pc' = [pc EXCEPT ![Owner] = "idle"]
        /\ my' = [my EXCEPT ![Owner] = Locals(None, {})]
        /\ Quiet /\ spent' = spent /\ watcher' = watcher /\ pc[Owner] = "delete"
    BY <1>4 DEF DeleteRoom, Return, Goto, Quiet
  <2> QED
    BY <1>1, <2>1, HandlerStep
<1>5. ASSUME NEW s \in Server, AddRoom(s)
      PROVE  CopyInv'
  <2>1. /\ pc' = [pc EXCEPT ![Owner] = "reserve"]
        /\ my' = [my EXCEPT ![Owner] = Locals(s, Added)]
        /\ Quiet /\ spent' = spent /\ watcher' = watcher /\ pc[Owner] = "idle"
    BY <1>5 DEF AddRoom, Begin, Goto, Quiet
  <2> QED
    BY <1>1, <2>1, HandlerStep
<1> QED
  BY <1>2, <1>3, <1>4, <1>5

LEMMA ReaderCopy ==
  ASSUME Shape, CopyInv, NEW h \in Handler, NEW s \in Server,
         UpdateRoomMetadata(h, s) \/ GetRoomInfo(h, s)
  PROVE  CopyInv'
<1>1. h \in Process
  BY DEF Process
<1>2. CASE UpdateRoomMetadata(h, s)
  <2>1. spent'.copies = spent.copies
    BY <1>2 DEF UpdateRoomMetadata, Shape, CacheTypeOK
  <2> QED
    BY <1>1, <1>2, <2>1, PutCopy DEF UpdateRoomMetadata
<1>3. CASE GetRoomInfo(h, s)
  <2>1. /\ pc' = [pc EXCEPT ![h] = "reserve"]
        /\ my' = [my EXCEPT ![h] = Locals(s, {})]
        /\ Quiet /\ spent' = spent /\ watcher' = watcher /\ pc[h] = "idle"
    BY <1>3 DEF GetRoomInfo, Begin, Goto, Quiet
  <2> QED
    BY <1>1, <2>1, HandlerStep
<1> QED
  BY <1>2, <1>3

LEMMA WatcherCopy ==
  ASSUME Shape, CopyInv, NEW e \in Entry, WatchStep(e)
  PROVE  CopyInv'
<1>1. \A q \in Process : pc'[q] = pc[q] /\ my'[q] = my[q]
  BY DEF WatchStep, WatchDeliver, WatchStop
<1>2. copy[e].server \in Server /\ watcher[e].state = "running" /\ spent' = spent
  BY DEF WatchStep, WatchDeliver, WatchStop, Shape, PutsExist, WatcherOK
<1>3. CASE WatchDeliver(e)
  <2>1. PICK r \in watcher[e].pos + 1 .. Len(puts[watcher[e].bucket]) :
          /\ watcher' = [watcher EXCEPT ![e].pos = r]
          /\ SetRoomInfoCache(copy[e].server, [bucket |-> watcher[e].bucket, rev |-> r])
    BY <1>3 DEF WatchDeliver
  <2>2. /\ [bucket |-> watcher[e].bucket, rev |-> r] \in PutName
        /\ Named([bucket |-> watcher[e].bucket, rev |-> r])
    BY <1>2, DeliveredPut
  <2>3. Touches(copy[e].server)
    BY <1>2, <2>1, <2>2, SetTouches
  <2>4. \A d \in Entry : watcher'[d].state = watcher[d].state
    BY <2>1 DEF Shape, CacheTypeOK, Watcher
  <2> QED
    BY <1>1, <1>2, <2>3, <2>4, CopyStep
<1>4. CASE WatchStop(e)
  <2>1. Touches(copy[e].server) /\ copy[e].closes > 0
    BY <1>2, <1>4, CleanTouches DEF WatchStop
  <2>2. \A d \in Entry : /\ d = e => watcher'[d].state = "stopped"
                         /\ d # e => watcher'[d] = watcher[d]
    BY <1>4 DEF WatchStop, Shape, CacheTypeOK
  <2>3. \A d \in Entry : watcher'[d].state # watcher[d].state =>
          /\ watcher[d].state = "running" /\ copy[d].closes > 0
          /\ watcher'[d].state = "stopped"
    BY <1>2, <2>1, <2>2
  <2> QED
    BY <1>1, <1>2, <2>1, <2>3, CopyStep
<1> QED
  BY <1>3, <1>4 DEF WatchStep

LEMMA WatchReserveCopy ==
  ASSUME Shape, CopyInv, NEW p \in Process, WatchReserve(p)
  PROVE  CopyInv'
<1> DEFINE s == my[p].server
           e == spent.copies + 1
<1>1. /\ pc[p] = "reserve" /\ e \in Entry /\ store[s] = 0
      /\ store' = [store EXCEPT ![s] = e]
      /\ copy' = [copy EXCEPT ![e] = NewCopy(s)]
      /\ watcher' = watcher
  BY DEF WatchReserve
<1>2. s \in Server /\ my[p] \in LocalsSet /\ spent.copies \in Nat
  BY <1>1 DEF Shape, PutsExist, CacheTypeOK, ProcessOK, Entry
<1>3. spent'.copies = e
  BY DEF WatchReserve, Shape, CacheTypeOK
<1>4. \A q \in Process : /\ q = p => /\ pc'[q] = "watch"
                                     /\ my'[q].entry = e /\ my'[q].server = s
                         /\ q # p => pc'[q] = pc[q] /\ my'[q] = my[q]
  <2> DEFINE new == [my[p] EXCEPT !.entry = e]
  <2>1. pc' = [pc EXCEPT ![p] = "watch"] /\ my' = [my EXCEPT ![p] = new]
    BY DEF WatchReserve, Goto
  <2>2. new.entry = e /\ new.server = s
    BY <1>2 DEF LocalsSet
  <2> HIDE DEF new
  <2> QED
    BY <2>1, <2>2 DEF Shape, CacheTypeOK
<1>5. /\ \A d \in Entry : d # e => copy'[d] = copy[d]
      /\ copy'[e].server = s /\ copy'[e].closes = 0
      /\ \A r \in Server : store'[r] = IF r = s THEN e ELSE store[r]
  BY <1>1, <1>2 DEF Shape, CacheTypeOK, NewCopy
<1>6. /\ \A q \in Process : pc[q] = "watch" =>
           /\ my[q].entry \in Entry /\ my[q].entry <= spent.copies /\ my[q].entry # e
           /\ copy[my[q].entry].server \in Server
      /\ \A r \in Server : store[r] # 0 =>
           store[r] \in Entry /\ store[r] <= spent.copies /\ store[r] # e
      /\ \A d \in Entry : Running(d) => d # e /\ copy[d].server \in Server
  <2>1. ASSUME NEW q \in Process, pc[q] = "watch"
        PROVE  /\ my[q].entry \in Entry /\ my[q].entry <= spent.copies /\ my[q].entry # e
               /\ copy[my[q].entry].server \in Server
    <3>1. /\ my[q].entry \in Entry /\ my[q].entry <= spent.copies
          /\ copy[my[q].entry].server \in Server
      BY <2>1 DEF CopyInv, SettersOK, Shape, PutsExist, ProcessOK
    <3> QED
      BY <1>2, <3>1 DEF Entry
  <2>2. ASSUME NEW r \in Server, store[r] # 0
        PROVE  store[r] \in Entry /\ store[r] <= spent.copies /\ store[r] # e
    <3>1. store[r] \in Entry /\ store[r] <= spent.copies
      BY <2>2 DEF Shape, CacheTypeOK, PutsExist, StoreOK
    <3> QED
      BY <1>2, <3>1 DEF Entry
  <2>3. watcher[e].state = "none"
    BY <1>1, <1>2 DEF CopyInv, NewOnes
  <2>4. \A d \in Entry : Running(d) => d # e /\ copy[d].server \in Server
    BY <2>3 DEF Running, Shape, PutsExist, WatcherOK
  <2> QED
    BY <2>1, <2>2, <2>4
<1>7. NewOnes'
  <2> SUFFICES ASSUME NEW d \in Entry, d > e
               PROVE  watcher[d].state = "none"
    BY <1>1, <1>3 DEF NewOnes
  <2>1. d > spent.copies
    BY <1>2 DEF Entry
  <2> QED
    BY <2>1 DEF CopyInv, NewOnes
<1>8. SettersOK'
  <2> SUFFICES ASSUME NEW q \in Process, pc'[q] = "watch"
               PROVE  /\ my'[q].entry <= e
                      /\ copy'[my'[q].entry].server = my'[q].server
                      /\ watcher[my'[q].entry].state = "none"
    BY <1>1, <1>3 DEF SettersOK
  <2>1. CASE q = p
    <3>1. watcher[e].state = "none"
      BY <1>1, <1>2 DEF CopyInv, NewOnes
    <3> QED
      BY <1>2, <1>4, <1>5, <2>1, <3>1
  <2>2. CASE q # p
    <3>1. pc[q] = "watch" /\ my'[q] = my[q]
      BY <1>4, <2>2
    <3>2. /\ copy[my[q].entry].server = my[q].server
          /\ watcher[my[q].entry].state = "none"
      BY <3>1 DEF CopyInv, SettersOK
    <3>3. my[q].entry \in Nat /\ my[q].entry <= e
      BY <1>2, <1>6, <3>1 DEF Entry
    <3> QED
      BY <1>5, <1>6, <3>1, <3>2, <3>3
  <2> QED
    BY <2>1, <2>2
<1>9. OneSetter'
  BY <1>4, <1>6 DEF CopyInv, OneSetter
<1>10. StoredOK'
  <2> SUFFICES ASSUME NEW r \in Server, store'[r] # 0
               PROVE  /\ copy'[store'[r]].closes = 0
                      /\ Running(store[r])' \/ \E q \in Process : Setting(q, store[r])'
    BY DEF StoredOK
  <2>1. CASE r = s
    BY <1>4, <1>5, <2>1 DEF Setting
  <2>2. CASE r # s
    <3>1. store'[r] = store[r] /\ store[r] # e /\ store[r] \in Entry
      BY <1>5, <1>6, <2>2
    <3>2. /\ copy[store[r]].closes = 0
          /\ Running(store[r]) \/ \E q \in Process : Setting(q, store[r])
      BY <3>1 DEF CopyInv, StoredOK, Entry
    <3>3. Running(store[r]) => Running(store[r])'
      BY <1>1, <3>1 DEF Running
    <3>4. ASSUME NEW q \in Process, Setting(q, store[r])
          PROVE  Setting(q, store[r])'
      BY <1>1, <1>4, <3>1, <3>4 DEF Setting
    <3> QED
      BY <1>5, <3>1, <3>2, <3>3, <3>4
  <2> QED
    BY <2>1, <2>2
<1>11. ServedOK'
  <2> SUFFICES ASSUME NEW d \in Entry, Running(d)' \/ \E q \in Process : Setting(q, d)'
               PROVE  store'[copy'[d].server] = d \/ copy'[d].closes > 0
    BY DEF ServedOK
  <2>1. CASE d = e
    BY <1>2, <1>5, <2>1
  <2>2. CASE d # e
    <3>1. Running(d) \/ \E q \in Process : Setting(q, d)
      BY <1>1, <1>4, <2>2 DEF Running, Setting
    <3>2. store[copy[d].server] = d \/ copy[d].closes > 0
      BY <3>1 DEF CopyInv, ServedOK
    <3>3. copy[d].server \in Server /\ d # 0
      BY <1>6, <3>1 DEF Setting, Entry
    <3> QED
      BY <1>1, <1>5, <2>2, <3>2, <3>3
  <2> QED
    BY <2>1, <2>2
<1>12. ClosedOnce'
  <2> SUFFICES ASSUME NEW d \in Entry
               PROVE  copy'[d].closes <= 1
    BY DEF ClosedOnce
  <2>1. CASE d = e
    BY <1>5, <2>1
  <2>2. CASE d # e
    BY <1>5, <2>2 DEF CopyInv, ClosedOnce
  <2> QED
    BY <2>1, <2>2
<1> QED
  BY <1>7, <1>8, <1>9, <1>10, <1>11, <1>12 DEF CopyInv

LEMMA InitCopy == Init => CopyInv
<1> SUFFICES ASSUME Init PROVE CopyInv
  OBVIOUS
<1>1. \A e \in Entry : watcher[e].state = "none" /\ copy[e].closes = 0
  BY DEF Init, NewCopy
<1>2. (\A p \in Process : pc[p] = "idle") /\ \A s \in Server : store[s] = 0
  BY DEF Init
<1> QED
  BY <1>1, <1>2 DEF CopyInv, NewOnes, SettersOK, OneSetter, StoredOK, ServedOK, ClosedOnce,
                    Running, Setting

LEMMA NextCopy ==
  ASSUME Shape, CopyInv, [Next]_vars
  PROVE  CopyInv'
<1>1. CASE UNCHANGED vars
  BY <1>1 DEF vars, CopyInv, NewOnes, SettersOK, OneSetter, StoredOK, ServedOK, ClosedOnce,
              Running, Setting
<1>2. CASE \/ AddRoomPut \/ DeleteRoom
           \/ \E s \in Server : AddRoom(s) \/ UpdateRoomStatus(s)
  BY <1>2, OwnerCopy
<1>3. ASSUME NEW h \in Handler, NEW s \in Server, UpdateRoomMetadata(h, s) \/ GetRoomInfo(h, s)
      PROVE  CopyInv'
  BY <1>3, ReaderCopy
<1>4. ASSUME NEW p \in Process, Watch(p) \/ SetOwnCopy(p)
      PROVE  CopyInv'
  BY <1>4, WatchSkipCopy, WatchReserveCopy, WatchStartCopy, WatchFailCopy, SetOwnCopyCopy
     DEF Watch
<1>5. ASSUME NEW e \in Entry, WatchStep(e)
      PROVE  CopyInv'
  BY <1>5, WatcherCopy
<1> QED
  BY <1>1, <1>2, <1>3, <1>4, <1>5 DEF Next

LEMMA CopiesCorrect == Spec => [](Shape /\ CopyInv)
<1>1. Init => Shape /\ CopyInv
  BY InitShape, InitCopy
<1>2. Shape /\ CopyInv /\ [Next]_vars => (Shape /\ CopyInv)'
  BY NextShape, NextCopy
<1> QED
  BY <1>1, <1>2, PTL DEF Spec

(* No copy in a store is without its goroutine, or a handler that is about *)
(* to start it; nor is its channel closed.                                 *)
THEOREM CopiesAreWatched == Spec => []CopyIsWatched
<1>1. Shape /\ CopyInv => CopyIsWatched
  BY DEF Shape, PutsExist, StoreOK, CopyInv, StoredOK, CopyIsWatched, Running, Setting
<1> QED
  BY <1>1, CopiesCorrect, PTL

(* No stop channel is closed twice, whichever paths lead to the cleanup.   *)
THEOREM ChannelsClosedOnce == Spec => []ClosedOnce
<1>1. Shape /\ CopyInv => ClosedOnce
  BY DEF CopyInv
<1> QED
  BY <1>1, CopiesCorrect, PTL

(* No goroutine is left running for a copy that was dropped with its       *)
(* channel open.                                                           *)
THEOREM NoWatcherLeft == Spec => []NoWatcherLeaks
<1>1. Shape /\ CopyInv => NoWatcherLeaks
  BY DEF CopyInv, ServedOK, NoWatcherLeaks, Running
<1> QED
  BY <1>1, CopiesCorrect, PTL

-----------------------------------------------------------------------------
(* Revisions.  The revision of a copy bounds those of all its keys, and a  *)
(* key that was never set is at none.                                      *)
InfoOK(c) ==
    \A f \in Field : c.info[f].rev <= c.last /\ (c.info[f].bucket = 0 => c.info[f].rev = 0)

(* What a step makes of a copy: nothing, an empty one, or one key newer.   *)
Filled(c, d) ==
    \/ d = c
    \/ d.last \in Nat /\ d.info = [f \in Field |-> NoPut]
    \/ \E g \in Field, put \in PutName :
         /\ put.rev > c.last /\ put.bucket # 0
         /\ d.last = put.rev
         /\ d.info = [c.info EXCEPT ![g] = put]

LEMMA FilledInfo ==
  ASSUME NEW c \in Copies, InfoOK(c), NEW d, Filled(c, d)
  PROVE  /\ InfoOK(d)
         /\ \A f \in Field : d.info[f].bucket = c.info[f].bucket =>
                               d.info[f].rev >= c.info[f].rev
<1>1. /\ c.last \in Nat /\ c.info \in [Field -> PutName]
      /\ \A f \in Field : c.info[f].rev \in Nat
  BY DEF Copies, PutName
<1>2. CASE d = c
  BY <1>1, <1>2
<1>3. CASE d.last \in Nat /\ d.info = [f \in Field |-> NoPut]
  <2>1. \A f \in Field : d.info[f].rev = 0 /\ d.info[f].bucket = 0
    BY <1>3 DEF NoPut
  <2> QED
    BY <1>1, <1>3, <2>1 DEF InfoOK
<1>4. ASSUME NEW g \in Field, NEW put \in PutName,
             put.rev > c.last, put.bucket # 0,
             d.last = put.rev, d.info = [c.info EXCEPT ![g] = put]
      PROVE  /\ InfoOK(d)
             /\ \A f \in Field : d.info[f].bucket = c.info[f].bucket =>
                                   d.info[f].rev >= c.info[f].rev
  <2>1. \A f \in Field : d.info[f] = IF f = g THEN put ELSE c.info[f]
    BY <1>1, <1>4
  <2>2. put.rev \in Nat
    BY DEF PutName
  <2> QED
    BY <1>1, <1>4, <2>1, <2>2 DEF InfoOK
<1> QED
  BY <1>2, <1>3, <1>4 DEF Filled

AllFilled == \A e \in Entry : Filled(copy[e], copy'[e])

LEMMA CleanFills ==
  ASSUME Shape, NEW s \in Server, Clean(s)
  PROVE  AllFilled
<1>1. CASE store[s] = 0
  BY <1>1 DEF Clean, AllFilled, Filled
<1>2. CASE store[s] # 0
  <2> DEFINE new == [NewCopy(s) EXCEPT !.closes = copy[store[s]].closes + 1]
  <2>1. new.last = 0 /\ new.info = [f \in Field |-> NoPut]
    BY DEF NewCopy
  <2>2. copy' = [copy EXCEPT ![store[s]] = new]
    BY <1>2 DEF Clean
  <2> HIDE DEF new
  <2>3. \A e \in Entry : copy'[e] = IF e = store[s] THEN new ELSE copy[e]
    BY <2>2 DEF Shape, CacheTypeOK
  <2> QED
    BY <2>1, <2>3 DEF AllFilled, Filled
<1> QED
  BY <1>1, <1>2

LEMMA SetFills ==
  ASSUME Shape, NEW s \in Server, NEW put \in PutName, Named(put), SetRoomInfoCache(s, put)
  PROVE  AllFilled
<1> DEFINE e == store[s]
           field == puts[put.bucket][put.rev].field
<1>1. CASE UNCHANGED <<store, copy>>
  BY <1>1 DEF AllFilled, Filled
<1>2. CASE Clean(s)
  BY <1>2, CleanFills
<1>3. CASE /\ e # 0 /\ ~(copy[e].last >= put.rev)
           /\ copy' = [copy EXCEPT ![e].info[field] = put, ![e].last = put.rev]
  <2>1. puts[put.bucket] \in Seq(PutSet)
    BY DEF Named, Last, PutSet, Shape, CacheTypeOK
  <2>2. puts[put.bucket][put.rev] \in PutSet
    BY <2>1 DEF Named
  <2>3. field \in Field
    BY <2>2 DEF PutSet
  <2> HIDE DEF field
  <2>4. e \in Entry /\ copy[e] \in Copies
    BY <1>3 DEF Shape, CacheTypeOK
  <2> DEFINE new == [copy[e] EXCEPT !.info[field] = put, !.last = put.rev]
  <2>5. new.last = put.rev /\ new.info = [copy[e].info EXCEPT ![field] = put]
    BY <2>4 DEF Copies
  <2>6. copy' = [copy EXCEPT ![e] = new]
    BY <1>3, <2>4 DEF Copies, Shape, CacheTypeOK
  <2> HIDE DEF new
  <2>7. \A d \in Entry : copy'[d] = IF d = e THEN new ELSE copy[d]
    BY <2>4, <2>6 DEF Shape, CacheTypeOK
  <2>8. put.rev > copy[e].last /\ put.bucket # 0
    <3>1. put.rev \in Nat /\ copy[e].last \in Nat
      BY <2>4 DEF PutName, Copies
    <3> QED
      BY <1>3, <3>1 DEF Named
  <2>9. Filled(copy[e], new)
    BY <2>3, <2>5, <2>8 DEF Filled
  <2>10. \A d \in Entry : Filled(copy[d], copy[d])
    BY DEF Filled
  <2> QED
    BY <2>7, <2>9, <2>10 DEF AllFilled
<1> QED
  BY <1>1, <1>2, <1>3 DEF SetRoomInfoCache

LEMMA NextFills ==
  ASSUME Shape, [Next]_vars
  PROVE  AllFilled
<1>1. CASE copy' = copy
  BY <1>1 DEF AllFilled, Filled
<1>2. ASSUME NEW p \in Process, WatchReserve(p)
      PROVE  AllFilled
  <2> DEFINE new == NewCopy(my[p].server)
  <2>1. copy' = [copy EXCEPT ![spent.copies + 1] = new]
    BY <1>2 DEF WatchReserve
  <2>2. new.last = 0 /\ new.info = [f \in Field |-> NoPut]
    BY DEF NewCopy
  <2> HIDE DEF new
  <2>3. \A e \in Entry : copy'[e] = new \/ copy'[e] = copy[e]
    BY <2>1 DEF Shape, CacheTypeOK
  <2> QED
    BY <2>2, <2>3 DEF AllFilled, Filled
<1>3. ASSUME NEW p \in Process, WatchFail(p)
      PROVE  AllFilled
  BY <1>3, CleanFills DEF WatchFail, Shape, PutsExist, ProcessOK
<1>4. ASSUME NEW p \in Process, SetOwnCopy(p)
      PROVE  AllFilled
  <2>1. my[p].server \in Server /\ my[p].put \in PutName /\ Named(my[p].put)
    BY <1>4 DEF SetOwnCopy, Shape, CacheTypeOK, PutsExist, ProcessOK, LocalsSet
  <2> QED
    BY <1>4, <2>1, SetFills DEF SetOwnCopy
<1>5. ASSUME NEW e \in Entry, WatchDeliver(e)
      PROVE  AllFilled
  <2>1. PICK r \in watcher[e].pos + 1 .. Len(puts[watcher[e].bucket]) :
          SetRoomInfoCache(copy[e].server, [bucket |-> watcher[e].bucket, rev |-> r])
    BY <1>5 DEF WatchDeliver
  <2>2. watcher[e].state = "running"
    BY <1>5 DEF WatchDeliver
  <2>3. /\ [bucket |-> watcher[e].bucket, rev |-> r] \in PutName
        /\ Named([bucket |-> watcher[e].bucket, rev |-> r])
        /\ copy[e].server \in Server
    BY <2>2, DeliveredPut
  <2> QED
    BY <2>1, <2>3, SetFills
<1>6. ASSUME NEW e \in Entry, WatchStop(e)
      PROVE  AllFilled
  BY <1>6, CleanFills DEF WatchStop, Shape, PutsExist, WatcherOK
<1>7. ASSUME NEW p \in Process, WatchSkip(p) \/ WatchStart(p)
      PROVE  copy' = copy
  BY <1>7 DEF WatchSkip, WatchStart
<1>8. ASSUME NEW s \in Server, AddRoom(s) \/ UpdateRoomStatus(s)
      PROVE  copy' = copy
  BY <1>8 DEF AddRoom, UpdateRoomStatus
<1>9. ASSUME NEW h \in Handler, NEW s \in Server, UpdateRoomMetadata(h, s) \/ GetRoomInfo(h, s)
      PROVE  copy' = copy
  BY <1>9 DEF UpdateRoomMetadata, GetRoomInfo
<1>10. AddRoomPut \/ DeleteRoom \/ UNCHANGED vars => copy' = copy
  BY DEF AddRoomPut, DeleteRoom, vars
<1> QED
  BY <1>1, <1>2, <1>3, <1>4, <1>5, <1>6, <1>7, <1>8, <1>9, <1>10 DEF Next, Watch, WatchStep

InfosOK == \A e \in Entry : InfoOK(copy[e])

(* A key never goes back to an older put of its bucket, although handlers  *)
(* and watcher set it in any order: the comparison with the revision of    *)
(* the whole copy is enough.                                               *)
THEOREM KeysNeverGoBack == Spec => NeverBackwards
<1>1. Init => Shape /\ InfosOK
  <2>1. Init => InfosOK
    BY DEF Init, InfosOK, InfoOK, NewCopy, NoPut
  <2> QED
    BY <2>1, InitShape
<1>2. ASSUME Shape, InfosOK, [Next]_vars
      PROVE  InfosOK' /\ \A e \in Entry, f \in Field :
               copy'[e].info[f].bucket = copy[e].info[f].bucket =>
                 copy'[e].info[f].rev >= copy[e].info[f].rev
  <2>1. AllFilled
    BY <1>2, NextFills
  <2>2. \A e \in Entry : copy[e] \in Copies /\ InfoOK(copy[e]) /\ Filled(copy[e], copy'[e])
    BY <1>2, <2>1 DEF Shape, CacheTypeOK, InfosOK, AllFilled
  <2>3. ASSUME NEW e \in Entry
        PROVE  /\ InfoOK(copy'[e])
               /\ \A f \in Field : copy'[e].info[f].bucket = copy[e].info[f].bucket =>
                                     copy'[e].info[f].rev >= copy[e].info[f].rev
    BY <2>2, FilledInfo
  <2> QED
    BY <2>3 DEF InfosOK
<1>3. Shape /\ InfosOK /\ [Next]_vars => (Shape /\ InfosOK)'
  BY <1>2, NextShape
<1>4. Shape /\ InfosOK /\ [Next]_vars =>
        [ \A e \in Entry, f \in Field :
            copy'[e].info[f].bucket = copy[e].info[f].bucket =>
              copy'[e].info[f].rev >= copy[e].info[f].rev ]_vars
  BY <1>2
<1> QED
  BY <1>1, <1>3, <1>4, PTL DEF Spec, NeverBackwards
=============================================================================
