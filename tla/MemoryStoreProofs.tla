-------------------------- MODULE MemoryStoreProofs --------------------------
(***************************************************************************)
(* MemoryStore keeps its three structures in step, for any keys, values,   *)
(* lifetimes, wheel and clock, and with a clock that does not go back it   *)
(* implements the ExpiringMap.  What each method does is in StoreLemmas.   *)
(***************************************************************************)
EXTENDS MemoryStore, StoreLemmas

-----------------------------------------------------------------------------

(* StoreOK is inductive: each command is one of the methods above.         *)
THEOREM StoreInvariant == Spec => [](StoreOK(store, Values) /\ now \in Int)
<1>. DEFINE IInv == StoreOK(store, Values) /\ now \in Int
<1>1. Init => IInv
  BY NewStoreOK DEF Init
<1>2. IInv /\ [Next]_vars => IInv'
  <2>. SUFFICES ASSUME IInv, [Next]_vars  PROVE IInv'
    OBVIOUS
  <2>0. Times \subseteq Int /\ Readings \subseteq Int /\ TTLs \subseteq Int
    BY StoreAssumption DEF Times, Readings
  <2>1. CASE Tick
    BY <2>0, <2>1 DEF Tick
  <2>2. ASSUME NEW k \in Keys, NEW v \in Values, Set(k, v)  PROVE IInv'
    BY <2>2, SetKeyOK DEF Set
  <2>3. ASSUME NEW k \in Keys, Get(k)  PROVE IInv'
    BY <2>3, ProcessOK DEF Get
  <2>4. ASSUME NEW k \in Keys, Del(k)  PROVE IInv'
    BY <2>4, DeleteKeyOK DEF Del
  <2>5. ASSUME NEW k \in Keys, NEW ttl \in TTLs, NEW later \in Readings,
               Expire(k, ttl, later)
        PROVE  IInv'
    <3>1. StoreOK(ExpireKey(store, k, ttl, now, later).store, Values)
      BY <2>0, ExpireKeyOK
    <3>. QED BY <2>0, <2>5, <3>1 DEF Expire
  <2>6. ASSUME NEW k \in Keys, NEW later \in Readings, Ttl(k, later)
        PROVE  IInv'
    <3>1. StoreOK(KeyTtl(store, k, now, later).store, Values)
      BY <2>0, KeyTtlOK
    <3>. QED BY <2>0, <2>6, <3>1 DEF Ttl
  <2>7. ASSUME NEW j \in Keys, NEW k \in Keys, NEW later \in Readings,
               MGet(j, k, later)
        PROVE  IInv'
    <3>1. StoreOK(ProcessExpirations(ProcessExpirations(store, now), later),
                  Values)
      BY <2>0, ProcessOK
    <3>. QED BY <2>0, <2>7, <3>1 DEF MGet
  <2>8. ASSUME NEW pattern, KeysLike(pattern)  PROVE IInv'
    BY <2>8, ProcessOK DEF KeysLike
  <2>9. CASE FlushAll
    BY <2>9, NewStoreOK DEF FlushAll, Flush
  <2>10. CASE Cycle
    BY <2>10, ProcessOK DEF Cycle
  <2>11. CASE UNCHANGED vars
    BY <2>11 DEF vars
  <2>. QED
    BY <2>1, <2>2, <2>3, <2>4, <2>5, <2>6, <2>7, <2>8, <2>9, <2>10, <2>11
       DEF Next
<1>. QED BY <1>1, <1>2, PTL DEF Spec

(* The values, the deadlines and the wheel agree after every command, for  *)
(* any clock, even one that is set back: no key is deleted by a timer of   *)
(* an earlier life, and no deadline is without its timer.                  *)
THEOREM TimersAlwaysMatch == Spec => []TimersMatchDeadlines
<1>1. StoreOK(store, Values) => TimersMatchDeadlines
  BY DEF StoreOK, TimersMatchDeadlines
<1>. QED BY <1>1, StoreInvariant, PTL

(* The store keeps its shape, the wheel in it included, whatever commands  *)
(* clients send and whatever the clock does.                               *)
THEOREM TypeCorrect == Spec => []TypeOK
<1>. DEFINE op == reply.op \in {"none", "set", "get", "del", "expire", "ttl",
                                "mget", "keys", "flushall", "cycle"}
<1>1. Init => op
  BY DEF Init
<1>2. op /\ [Next]_vars => op'
  BY DEF Next, vars, Tick, Cycle, FlushAll, KeysLike, Get, Del, Set, Ttl,
         Expire, MGet, Replies
<1>3. StoreOK(store, Values) /\ now \in Int /\ op => TypeOK
  BY DEF StoreOK, TypeOK
<1>. QED BY <1>1, <1>2, <1>3, StoreInvariant, PTL DEF Spec

-----------------------------------------------------------------------------
(* MemoryStore implements the ExpiringMap. *)

\* The map that a store stands for.
Abs(s) == [data |-> s.data, deadline |-> s.expiresAt]

(* process_expirations finds what the abstract operations may find.        *)
LEMMA EvictedBy ==
  ASSUME NEW s, NEW t \in Int, Timely(s, Values, t)
  PROVE  /\ Timely(ProcessExpirations(s, t), Values, t)
         /\ Abs(ProcessExpirations(s, t)) \in Promise!Evicted(Abs(s), t)
<1>. DEFINE p == ProcessExpirations(s, t)
<1>1. Timely(p, Values, t)
  BY ProcessEvicts
<1>2. PICK E \in SUBSET DOMAIN s.expiresAt :
              /\ p.data = Drop(s.data, E) /\ p.expiresAt = Drop(s.expiresAt, E)
              /\ \A k \in E : s.expiresAt[k] <= t
              /\ \A k \in DOMAIN s.expiresAt \ E : t < s.expiresAt[k] + BucketCount * TickLen
  BY ProcessEvicts
<1>. HIDE DEF p
<1>. DEFINE passed  == {k \in DOMAIN s.expiresAt : s.expiresAt[k] <= t}
            overdue == {k \in passed : s.expiresAt[k] + Lag <= t}
<1>3. \A k \in DOMAIN s.expiresAt : s.expiresAt[k] + BucketCount * TickLen \in Int
  BY WheelAssumption DEF Timely, StoreOK, StoreType
<1>4. E \in SUBSET passed /\ overdue \subseteq E
  BY <1>2, <1>3 DEF Lag
<1>5. Abs(p) = Promise!Without(Abs(s), E)
  BY <1>2 DEF Abs, Promise!Without, Promise!Drop, Promise!Restrict, Drop, Restrict
<1>6. Abs(p) \in {Promise!Without(Abs(s), F) : F \in {G \in SUBSET passed : overdue \subseteq G}}
  <2>. HIDE DEF passed, overdue
  <2>. QED BY <1>4, <1>5
<1>. QED BY <1>1, <1>6 DEF Promise!Evicted, Abs, p

(* The dictionaries of both modules are the same functions. *)
LEMMA SameDicts ==
  /\ Promise!EmptyDict = EmptyDict
  /\ \A d, k, v : Promise!Put(d, k, v) = Put(d, k, v) /\ Promise!Lookup(d, k, v) = Lookup(d, k, v)
  /\ \A d, S : Promise!Drop(d, S) = Drop(d, S)
BY DEF Promise!EmptyDict, EmptyDict, Promise!Put, Put, Promise!Lookup, Lookup,
       Promise!Drop, Promise!Restrict, Drop, Restrict

(* delete removes the key from a map that process_expirations may leave.   *)
LEMMA DeleteEvicts ==
  ASSUME NEW s, NEW k \in Keys, NEW t \in Int, Timely(s, Values, t)
  PROVE  LET p == ProcessExpirations(s, t)
             d == DeleteKey(s, k, t)
         IN  /\ Timely(d.store, Values, t)
             /\ Abs(p) \in Promise!Evicted(Abs(s), t)
             /\ Abs(d.store) = Promise!Without(Abs(p), {k})
             /\ k \in DOMAIN p.data => d.reply = 1
             /\ k \notin DOMAIN p.data => d.reply = 0
<1>. DEFINE p == ProcessExpirations(s, t)
            d == DeleteKey(s, k, t)
<1>1. /\ Timely(d.store, Values, t)
      /\ d.store.data = Drop(p.data, {k}) /\ d.store.expiresAt = Drop(p.expiresAt, {k})
      /\ k \in DOMAIN p.data => d.reply = 1
      /\ k \notin DOMAIN p.data => d.reply = 0
  BY ZenonT(60), DeleteKeyTimely
<1>2. Abs(p) \in Promise!Evicted(Abs(s), t)
  BY EvictedBy
<1>. HIDE DEF p, d
<1>3. Abs(d.store) = Promise!Without(Abs(p), {k})
  BY <1>1, SameDicts DEF Abs, Promise!Without
<1>. QED BY <1>1, <1>2, <1>3 DEF p, d

\* The invariant: the clock of the bound and a scan that keeps up with it.
Timed == Timely(store, Values, now) /\ now \in Int

LEMMA ExpireImplements ==
  ASSUME Timed, NEW k \in Keys, NEW ttl \in Int, NEW later \in Int, now <= later,
         Expire(k, ttl, later)
  PROVE  Timely(store', Values, later) /\ Promise!Expire(k, ttl, later)
<1>. DEFINE p == ProcessExpirations(store, now)
<1>1. Timely(p, Values, now) /\ Abs(p) \in Promise!Evicted(Abs(store), now)
  BY EvictedBy DEF Timed
<1>2. Timely(p, Values, later)
  BY <1>1, TimelyLater DEF Timed
<1>3. /\ store' = ExpireKey(store, k, ttl, now, later).store /\ now' = later
      /\ reply' = [op |-> "expire", value |-> ExpireKey(store, k, ttl, now, later).reply]
  BY DEF Expire, Replies
<1>4. Abs(p).data = p.data /\ Abs(p).deadline = p.expiresAt
  BY DEF Abs
<1>. SUFFICES /\ Timely(store', Values, later)
              /\ \/ /\ k \notin DOMAIN p.data
                    /\ Abs(store') = Abs(p)
                    /\ Promise!Replies("expire", 0)
                 \/ /\ k \in DOMAIN p.data /\ ttl <= 0
                    /\ \E n \in Promise!Evicted(Abs(p), later) : Abs(store') = Promise!Without(n, {k})
                    /\ Promise!Replies("expire", 1)
                 \/ /\ k \in DOMAIN p.data /\ ttl > 0
                    /\ Abs(store') = [Abs(p) EXCEPT !.deadline = Promise!Put(@, k, later + ttl * Second)]
                    /\ Promise!Replies("expire", 1)
  <2>. HIDE DEF p
  <2>. QED BY <1>1, <1>3, <1>4 DEF Promise!Expire, Abs
<1>5. CASE k \notin DOMAIN p.data
  <2>1. store' = p /\ reply' = [op |-> "expire", value |-> 0]
    BY <1>3, <1>5 DEF ExpireKey
  <2>. HIDE DEF p
  <2>. QED BY <1>2, <1>5, <2>1 DEF Promise!Replies
<1>6. CASE k \in DOMAIN p.data /\ ttl <= 0
  <2>1. store' = DeleteKey(p, k, later).store /\ reply' = [op |-> "expire", value |-> 1]
    BY <1>3, <1>6 DEF ExpireKey
  <2>2. PICK n \in Promise!Evicted(Abs(p), later) :
          /\ Timely(DeleteKey(p, k, later).store, Values, later)
          /\ Abs(DeleteKey(p, k, later).store) = Promise!Without(n, {k})
    <3>. HIDE DEF p
    <3>. QED BY <1>2, DeleteEvicts
  <2>. HIDE DEF p
  <2>. QED BY <1>6, <2>1, <2>2 DEF Promise!Replies
<1>7. CASE k \in DOMAIN p.data /\ ttl > 0
  <2>1. /\ Timely(store', Values, later) /\ reply' = [op |-> "expire", value |-> 1]
        /\ store'.data = p.data
        /\ store'.expiresAt = Put(p.expiresAt, k, later + ttl * Second)
    BY <1>3, <1>7, ExpireKeyTimely DEF Timed
  <2>. HIDE DEF p
  <2>2. Abs(store') = [Abs(p) EXCEPT !.deadline = Promise!Put(@, k, later + ttl * Second)]
    BY <2>1, SameDicts DEF Abs
  <2>. QED BY <1>7, <2>1, <2>2 DEF Promise!Replies
<1>8. ttl <= 0 \/ ttl > 0
  OBVIOUS
<1>. HIDE DEF p
<1>. QED BY <1>5, <1>6, <1>7, <1>8

LEMMA TtlImplements ==
  ASSUME Timed, NEW k \in Keys, NEW later \in Int, now <= later, Ttl(k, later)
  PROVE  Timely(store', Values, later) /\ Promise!Ttl(k, later)
<1>. DEFINE p == ProcessExpirations(store, now)
            left == p.expiresAt[k] - later
<1>1. Timely(p, Values, now) /\ Abs(p) \in Promise!Evicted(Abs(store), now)
  BY EvictedBy DEF Timed
<1>2. Timely(p, Values, later) /\ StoreOK(p, Values)
  BY <1>1, TimelyLater DEF Timed, Timely
<1>3. /\ store' = KeyTtl(store, k, now, later).store /\ now' = later
      /\ reply' = [op |-> "ttl", value |-> KeyTtl(store, k, now, later).reply]
  BY DEF Ttl, Replies
<1>4. Abs(p).data = p.data /\ Abs(p).deadline = p.expiresAt
  BY DEF Abs
<1>. SUFFICES /\ Timely(store', Values, later)
              /\ \/ /\ k \notin DOMAIN p.data
                    /\ Abs(store') = Abs(p)
                    /\ Promise!Replies("ttl", -2)
                 \/ /\ k \in DOMAIN p.data \ DOMAIN p.expiresAt
                    /\ Abs(store') = Abs(p)
                    /\ Promise!Replies("ttl", -1)
                 \/ /\ k \in DOMAIN p.expiresAt /\ left > - Second
                    /\ Abs(store') = Abs(p)
                    /\ Promise!Replies("ttl", IF p.expiresAt[k] < later THEN 0 ELSE left \div Second)
                 \/ /\ k \in DOMAIN p.expiresAt /\ left <= - Second
                    /\ \E n \in Promise!Evicted(Abs(p), later) : Abs(store') = Promise!Without(n, {k})
                    /\ Promise!Replies("ttl", -2)
  <2>. HIDE DEF p
  <2>. QED BY <1>1, <1>3, <1>4 DEF Promise!Ttl, Abs
<1>5. CASE k \notin DOMAIN p.data
  <2>1. store' = p /\ reply' = [op |-> "ttl", value |-> -2]
    BY <1>3, <1>5 DEF KeyTtl
  <2>. HIDE DEF p
  <2>. QED BY <1>2, <1>5, <2>1 DEF Promise!Replies
<1>6. CASE k \in DOMAIN p.data /\ k \notin DOMAIN p.expiresAt
  <2>1. store' = p /\ reply' = [op |-> "ttl", value |-> -1]
    BY <1>3, <1>6 DEF KeyTtl
  <2>. HIDE DEF p
  <2>. QED BY <1>2, <1>6, <2>1 DEF Promise!Replies
<1>7. CASE k \in DOMAIN p.expiresAt
  <2>1. k \in DOMAIN p.data /\ p.expiresAt[k] \in Int /\ left \in Int
    BY <1>2, <1>7 DEF StoreOK, StoreType, TimersMatch
  <2>2. CASE left > - Second
    <3>1. /\ ~ (WholeSeconds(left) < 0)
          /\ WholeSeconds(left) = IF left < 0 THEN 0 ELSE left \div Second
      <4>. HIDE DEF left
      <4>. QED BY <2>1, <2>2, WholeSecondsLeft, SecondAssumption
    <3>2. store' = p /\ reply' = [op |-> "ttl", value |-> WholeSeconds(left)]
      BY <1>3, <1>7, <2>1, <3>1 DEF KeyTtl
    <3>3. left < 0 <=> p.expiresAt[k] < later
      BY <2>1
    <3>4. WholeSeconds(left) = IF p.expiresAt[k] < later THEN 0 ELSE left \div Second
      BY <3>1, <3>3
    <3>. HIDE DEF p, left
    <3>. QED BY <1>2, <1>7, <2>2, <3>2, <3>4 DEF Promise!Replies
  <2>3. CASE left <= - Second
    <3>1. WholeSeconds(left) < 0
      <4>. HIDE DEF left
      <4>. QED BY <2>1, <2>3, WholeSecondsLeft
    <3>2. store' = DeleteKey(p, k, later).store /\ reply' = [op |-> "ttl", value |-> -2]
      BY <1>3, <1>7, <2>1, <3>1 DEF KeyTtl
    <3>3. PICK n \in Promise!Evicted(Abs(p), later) :
            /\ Timely(DeleteKey(p, k, later).store, Values, later)
            /\ Abs(DeleteKey(p, k, later).store) = Promise!Without(n, {k})
      <4>. HIDE DEF p
      <4>. QED BY <1>2, DeleteEvicts
    <3>. HIDE DEF p, left
    <3>. QED BY <1>7, <2>3, <3>2, <3>3 DEF Promise!Replies
  <2>4. left <= - Second \/ left > - Second
    <3>. HIDE DEF left
    <3>. QED BY <2>1, SecondAssumption
  <2>. HIDE DEF p, left
  <2>. QED BY <2>2, <2>3, <2>4
<1>. HIDE DEF p
<1>. QED BY <1>5, <1>6, <1>7

LEMMA SameSizes == \A S : Promise!Cardinality(S) = Cardinality(S)
BY Zenon DEF Promise!Cardinality, Cardinality

(* A new store, that of FLUSHALL too, has a wheel that has scanned nothing. *)
LEMMA NewTimely == \A t : Timely(NewStore, Values, t)
<1>1. StoreOK(NewStore, Values)
  BY NewStoreOK
<1>2. WheelOK(NewWheel) /\ NewWheel.last < 0
  BY NewWheelOK DEF NewWheel
<1>3. OneRevolution(NewWheel)
  BY <1>2, UnscannedOneRevolution
<1>4. \A t : ScanBehind(NewWheel, t)
  BY DEF NewWheel, ScanBehind
<1>. QED BY <1>1, <1>3, <1>4 DEF Timely, NewStore

(* Every command and every cycle is a step of the ExpiringMap.             *)
LEMMA StepImplements ==
  ASSUME Monotonic, Timed, [Next]_vars
  PROVE  Timed' /\ [Promise!Next]_(Promise!vars)
<1>. DEFINE p == ProcessExpirations(store, now)
<1>0. /\ now \in Int /\ Timely(store, Values, now)
      /\ \A later \in Readings : later \in Promise!Readings /\ later \in Int /\ now <= later
      /\ TTLs \subseteq Int
  BY StoreAssumption DEF Timed, Readings, Times, Promise!Readings
<1>1. /\ Timely(p, Values, now) /\ Abs(p) \in Promise!Evicted(Abs(store), now)
      /\ Abs(store) = [data |-> store.data, deadline |-> store.expiresAt]
      /\ Abs(store)' = [data |-> store'.data, deadline |-> store'.expiresAt]
      /\ Abs(p).data = p.data
  BY <1>0, EvictedBy DEF Abs
<1>2. ASSUME Timely(store', Values, now'), now' \in Int  PROVE Timed'
  BY <1>2 DEF Timed
<1>3. CASE Tick
  <2>1. /\ now' = now + 1 /\ now < MaxTime /\ store' = store /\ reply' = reply
    BY <1>0, <1>3, StoreAssumption DEF Tick, Times
  <2>2. Timely(store, Values, now + 1)
    BY <1>0, TimelyLater
  <2>3. Promise!Tick
    BY <2>1 DEF Promise!Tick
  <2>. QED BY <1>0, <1>2, <2>1, <2>2, <2>3 DEF Promise!Next
<1>4. ASSUME store' = p, now' = now
      PROVE  Timed' /\ Abs(store)' = Abs(p)
  BY <1>0, <1>1, <1>2, <1>4 DEF Abs
<1>5. CASE Cycle
  <2>1. Timed' /\ Promise!Cycle
    BY <1>1, <1>4, <1>5 DEF Cycle, Replies, Promise!Cycle, Promise!Replies
  <2>. QED BY <2>1 DEF Promise!Next
<1>6. CASE FlushAll
  <2>1. /\ store' = NewStore /\ now' = now
        /\ reply' = [op |-> "flushall", value |-> Cardinality(DOMAIN p.data)]
    BY <1>6 DEF FlushAll, Flush, Replies
  <2>2. Timed'
    BY <1>0, <1>2, <2>1, NewTimely
  <2>3. Abs(store)' = [data |-> Promise!EmptyDict, deadline |-> Promise!EmptyDict]
    BY <2>1, SameDicts DEF Abs, NewStore
  <2>4. Promise!FlushAll
    <3>. HIDE DEF p
    <3>1. reply' = [op    |-> "flushall",
                   value |-> Promise!Cardinality(DOMAIN Abs(p).data)]
      BY <1>1, <2>1, SameSizes
    <3>. QED BY <1>1, <2>1, <2>3, <3>1 DEF Promise!FlushAll, Promise!Replies
  <2>. QED BY <2>2, <2>4 DEF Promise!Next
<1>7. ASSUME NEW pattern \in SUBSET Keys, KeysLike(pattern)
      PROVE  Timed' /\ Promise!Next
  <2>1. Timed' /\ Promise!KeysLike(pattern)
    BY <1>1, <1>4, <1>7
       DEF KeysLike, KeysMatching, Replies, Promise!KeysLike, Promise!Replies
  <2>. QED BY <1>7, <2>1 DEF Promise!Next
<1>8. ASSUME NEW k \in Keys, Get(k)  PROVE Timed' /\ Promise!Next
  <2>1. reply' = [op |-> "get", value |-> Promise!Lookup(Abs(p).data, k, None)]
    BY <1>1, <1>8, SameDicts DEF Get, ValueOf, Replies
  <2>2. Timed' /\ Promise!Get(k)
    BY <1>1, <1>4, <1>8, <2>1 DEF Get, Promise!Get, Promise!Replies
  <2>. QED BY <1>8, <2>2 DEF Promise!Next
<1>9. ASSUME NEW k \in Keys, Del(k)  PROVE Timed' /\ Promise!Next
  <2>. DEFINE d == DeleteKey(store, k, now)
  <2>1. /\ Timely(d.store, Values, now)
        /\ Abs(d.store) = Promise!Without(Abs(p), {k})
        /\ k \in DOMAIN p.data => d.reply = 1
        /\ k \notin DOMAIN p.data => d.reply = 0
    BY <1>0, DeleteEvicts
  <2>2. /\ store' = d.store /\ now' = now
        /\ reply' = [op |-> "del", value |-> d.reply]
    BY <1>9 DEF Del, Replies
  <2>. HIDE DEF d, p
  <2>3. Timed' /\ Abs(store)' = Promise!Without(Abs(p), {k})
    BY <1>0, <1>2, <2>1, <2>2 DEF Abs
  <2>. DEFINE n == IF k \in DOMAIN Abs(p).data THEN 1 ELSE 0
  <2>4. reply' = [op |-> "del", value |-> n]
    BY <1>1, <2>1, <2>2
  <2>5. Promise!Replies("del", n)
    BY <2>4 DEF Promise!Replies
  <2>. HIDE DEF n
  <2>6. \E m \in Promise!Evicted(Abs(store), now) :
           /\ Abs(store)' = Promise!Without(m, {k})
           /\ Promise!Replies("del", IF k \in DOMAIN m.data THEN 1 ELSE 0)
           /\ UNCHANGED now
    BY <1>1, <2>2, <2>3, <2>5 DEF n
  <2>7. Promise!Del(k)
    BY <1>1, <2>6 DEF Promise!Del
  <2>. QED BY <1>9, <2>3, <2>7 DEF Promise!Next
<1>10. ASSUME NEW k \in Keys, NEW v \in Values, Set(k, v)
       PROVE  Timed' /\ Promise!Next
  <2>. DEFINE r == SetKey(store, k, v, now)
  <2>1. /\ Timely(r, Values, now)
        /\ r.data = Put(p.data, k, v) /\ r.expiresAt = Drop(p.expiresAt, {k})
    <3>1. now \in Int /\ Timely(store, Values, now)
      BY <1>0
    <3>. QED BY ZenonT(60), <3>1, SetKeyTimely
  <2>2. store' = r /\ now' = now /\ reply' = [op |-> "set", value |-> None]
    BY <1>10 DEF Set, Replies
  <2>3. Abs(p).deadline = p.expiresAt
    BY DEF Abs
  <2>. HIDE DEF r, p
  <2>4. /\ Timed'
        /\ Abs(store)' = [data     |-> Promise!Put(Abs(p).data, k, v),
                          deadline |-> Promise!Drop(Abs(p).deadline, {k})]
    BY <1>0, <1>1, <1>2, <2>1, <2>2, <2>3, SameDicts DEF Abs
  <2>5. Promise!Set(k, v)
    BY <1>1, <2>2, <2>4 DEF Promise!Set, Promise!Replies
  <2>. QED BY <1>10, <2>4, <2>5 DEF Promise!Next
<1>11. ASSUME NEW k \in Keys, NEW later \in Readings, Ttl(k, later)
       PROVE  Timed' /\ Promise!Next
  <2>1. Timely(store', Values, later) /\ Promise!Ttl(k, later)
    BY <1>0, <1>11, TtlImplements
  <2>. QED BY <1>0, <1>2, <1>11, <2>1 DEF Ttl, Promise!Next
<1>12. ASSUME NEW k \in Keys, NEW later \in Readings, NEW ttl \in TTLs,
              Expire(k, ttl, later)
       PROVE  Timed' /\ Promise!Next
  <2>1. Timely(store', Values, later) /\ Promise!Expire(k, ttl, later)
    BY <1>0, <1>12, ExpireImplements
  <2>. QED BY <1>0, <1>2, <1>12, <2>1 DEF Expire, Promise!Next
<1>13. ASSUME NEW k \in Keys, NEW later \in Readings, NEW j \in Keys,
              MGet(j, k, later)
       PROVE  Timed' /\ Promise!Next
  <2>. DEFINE q == ProcessExpirations(p, later)
  <2>1. Timely(p, Values, later)
    BY <1>0, <1>1, TimelyLater
  <2>2. Timely(q, Values, later) /\ Abs(q) \in Promise!Evicted(Abs(p), later)
    <3>. HIDE DEF p
    <3>. QED BY <1>0, <2>1, EvictedBy
  <2>3. /\ store' = q /\ now' = later
        /\ reply' = [op    |-> "mget",
                     value |-> <<Promise!Lookup(p.data, j, None),
                                 Promise!Lookup(q.data, k, None)>>]
    BY <1>13, SameDicts DEF MGet, ValueOf, Replies
  <2>4. Abs(q).data = q.data
    BY DEF Abs
  <2>. HIDE DEF p, q
  <2>5. Timed' /\ Abs(store)' = Abs(q)
    BY <1>0, <1>2, <2>2, <2>3 DEF Abs
  <2>6. Promise!MGet(j, k, later)
    BY <1>1, <2>2, <2>3, <2>4, <2>5 DEF Promise!MGet, Promise!Replies
  <2>. QED BY <1>0, <1>13, <2>5, <2>6 DEF Promise!Next
<1>14. CASE UNCHANGED vars
  BY <1>0, <1>2, <1>14 DEF vars, Promise!vars
<1>. QED BY <1>3, <1>5, <1>6, <1>7, <1>8, <1>9, <1>10, <1>11, <1>12, <1>13, <1>14
         DEF Next

(* MemoryStore does what the ExpiringMap promises, for any keys, values,   *)
(* lifetimes and any number and length of buckets, as long as the clock    *)
(* does not go back: a key is never served a revolution of the wheel after *)
(* its deadline, never lost before it, and no timer of an earlier life     *)
(* touches the value that followed.                                        *)
THEOREM KeepsPromise ==
  ASSUME Monotonic
  PROVE  Spec => ImplementsExpiringMap
<1>1. Init => Timed /\ Promise!Init
  BY NewTimely, SameDicts DEF Init, Timed, NewStore, Promise!Init
<1>2. Timed /\ [Next]_vars => Timed' /\ [Promise!Next]_(Promise!vars)
  BY StepImplements
<1>. QED BY <1>1, <1>2, PTL DEF Spec, ImplementsExpiringMap, Promise!Spec

=============================================================================
