-------------------------- MODULE LiteStoreRefinement --------------------------
(***************************************************************************)
(* How far a whole server is the one map that it is documented to be,      *)
(* whatever its mode, its number of workers and its routing (KeyValueMap): *)
(* all commands but MGET, KEYS and FLUSHALL treat it as one, and these do  *)
(* so for the keys of the first worker.                                    *)
(*                                                                         *)
(* Between requests the stores are what the logs say (Replaying), and each *)
(* request does to the map of what is seen, and to that of what is         *)
(* durable, what it does to the store and to the log of one worker.        *)
(***************************************************************************)
EXTENDS LiteStoreProofs

-----------------------------------------------------------------------------
(* What commands do to the data of a store without lifetimes. *)

\* A key after a put, and after a drop.
LEMMA LookupPut ==
  \A d, k, v, x : Lookup(Put(d, k, v), x, None)
                    = IF x = k THEN v ELSE Lookup(d, x, None)
BY DEF Lookup, Put

LEMMA LookupDrop ==
  \A d, S, x : Lookup(Drop(d, S), x, None) = IF x \in S THEN None ELSE Lookup(d, x, None)
BY DEF Lookup, Drop, Restrict

\* No key has a deadline, and so none expires.
LEMMA ProcessKeeps ==
  ASSUME NEW s, Fits(s, Keys)
  PROVE  /\ ProcessExpirations(s, Now).data = s.data
         /\ ProcessExpirations(s, Now).expiresAt = EmptyDict
<1>. DEFINE expired == {k \in PopDue(s.wheel, Now).due \cap DOMAIN s.expiresAt :
                          s.expiresAt[k] <= Now}
<1>1. ProcessExpirations(s, Now).data = Drop(s.data, expired)
  BY DEF ProcessExpirations
<1>2. Fits(ProcessExpirations(s, Now), Keys)
  BY ProcessFits
<1>3. expired = {}
  BY DEF Fits, EmptyDict
<1>4. IsDict(s.data, Keys)
  BY StoreParts DEF Fits
<1>. HIDE DEF expired
<1>5. Drop(s.data, {}) = s.data
  BY <1>4 DEF Drop, Restrict, IsDict
<1>. QED BY <1>1, <1>2, <1>3, <1>5 DEF Fits

\* What DEL, EXPIRE and TTL leave in a store without lifetimes.
LEMMA DeletedData ==
  ASSUME NEW s, Fits(s, Keys), NEW k
  PROVE  /\ DeleteKey(s, k, Now).store.data = Drop(s.data, {k})
         /\ DeleteKey(s, k, Now).reply = IF k \in DOMAIN s.data THEN 1 ELSE 0
<1>. DEFINE p == ProcessExpirations(s, Now)
<1>1. p.data = s.data
  BY ProcessKeeps
<1>2. IsDict(s.data, Keys)
  BY StoreParts DEF Fits
<1>3. DeleteKey(s, k, Now) =
        IF k \notin DOMAIN p.data THEN [store |-> p, reply |-> 0]
        ELSE [store |-> ClearExpiry([p EXCEPT !.data = Drop(@, {k})], k), reply |-> 1]
  BY DEF DeleteKey
<1>4. p = [data |-> p.data, expiresAt |-> p.expiresAt, wheel |-> p.wheel]
  BY DEF ProcessExpirations
<1>. HIDE DEF p
<1>5. ClearExpiry([p EXCEPT !.data = Drop(@, {k})], k).data = Drop(p.data, {k})
  BY <1>4 DEF ClearExpiry
<1>6. k \notin DOMAIN s.data => Drop(s.data, {k}) = s.data
  <2>1. k \notin DOMAIN s.data => DOMAIN s.data \ {k} = DOMAIN s.data
    OBVIOUS
  <2>. QED BY <2>1, <1>2 DEF Drop, Restrict, IsDict
<1>. QED BY <1>1, <1>3, <1>5, <1>6

LEMMA ExpiredData ==
  ASSUME NEW s, Fits(s, Keys), NEW k, NEW n \in Numbers
  PROVE  /\ ExpireKey(s, k, n, Now, Now).store.data = Drop(s.data, {k})
         /\ ExpireKey(s, k, n, Now, Now).reply = IF k \in DOMAIN s.data THEN 1 ELSE 0
<1>. DEFINE p == ProcessExpirations(s, Now)
<1>1. p.data = s.data /\ Fits(p, Keys)
  BY ProcessKeeps, ProcessFits
<1>2. DeleteKey(p, k, Now).store.data = Drop(s.data, {k})
  BY <1>1, DeletedData
<1>3. DeleteKey(s, k, Now).store = p \/ k \in DOMAIN s.data
  BY <1>1 DEF DeleteKey
<1>4. DeleteKey(s, k, Now).store.data = Drop(s.data, {k})
  BY DeletedData
<1>5. n \in Int /\ n <= 0
  BY NumbersAssumption, LiteStoreAssumption
<1>6. ExpireKey(s, k, n, Now, Now) =
        IF k \notin DOMAIN p.data THEN [store |-> p, reply |-> 0]
        ELSE [store |-> DeleteKey(p, k, Now).store, reply |-> 1]
  BY <1>5 DEF ExpireKey
<1>. HIDE DEF p
<1>. QED BY <1>1, <1>2, <1>3, <1>4, <1>6

LEMMA TtlData ==
  ASSUME NEW s, Fits(s, Keys), NEW k
  PROVE  /\ KeyTtl(s, k, Now, Now).store.data = s.data
         /\ KeyTtl(s, k, Now, Now).reply = IF k \in DOMAIN s.data THEN -1 ELSE -2
<1>. DEFINE p == ProcessExpirations(s, Now)
<1>1. p.data = s.data /\ p.expiresAt = EmptyDict
  BY ProcessKeeps
<1>2. k \notin DOMAIN p.expiresAt
  BY <1>1 DEF EmptyDict
<1>3. KeyTtl(s, k, Now, Now) = IF k \notin DOMAIN p.data THEN [store |-> p, reply |-> -2]
                               ELSE [store |-> p, reply |-> -1]
  BY <1>2 DEF KeyTtl
<1>. HIDE DEF p
<1>. QED BY <1>1, <1>3

\* A write has the effect that its record stands for, when it is executed and
\* when it is replayed.
LEMMA WriteExecuted ==
  ASSUME NEW s, Fits(s, Keys), NEW cmd \in Writes
  PROVE  LET done == ExecuteCommand(s, cmd, Now)
         IN  /\ done.store.data = IF cmd.op = "SET" THEN Put(s.data, cmd.key, cmd.arg)
                                  ELSE Drop(s.data, {cmd.key})
             /\ ~ done.error
             /\ cmd.op # "SET" =>
                  done.reply = IF cmd.key \in DOMAIN s.data THEN 1 ELSE 0
<1>. DEFINE done == ExecuteCommand(s, cmd, Now)
<1>1. CASE cmd.op = "SET"
  <2>1. done.store = SetKey(s, cmd.key, cmd.arg, Now) /\ ~ done.error
    BY <1>1 DEF ExecuteCommand
  <2>2. SetKey(s, cmd.key, cmd.arg, Now).data
          = Put(ProcessExpirations(s, Now).data, cmd.key, cmd.arg)
    BY DEF SetKey, ClearExpiry, ProcessExpirations
  <2>. QED BY <1>1, <2>1, <2>2, ProcessKeeps
<1>2. CASE cmd.op = "DEL"
  <2>1. done = [store |-> DeleteKey(s, cmd.key, Now).store,
                reply |-> DeleteKey(s, cmd.key, Now).reply, error |-> FALSE]
    BY <1>2 DEF ExecuteCommand
  <2>2. cmd.op # "SET"
    BY <1>2
  <2>3. /\ DeleteKey(s, cmd.key, Now).store.data = Drop(s.data, {cmd.key})
        /\ DeleteKey(s, cmd.key, Now).reply = IF cmd.key \in DOMAIN s.data THEN 1 ELSE 0
    BY DeletedData
  <2>. HIDE DEF done
  <2>4. /\ done.store.data = Drop(s.data, {cmd.key}) /\ ~ done.error
        /\ done.reply = IF cmd.key \in DOMAIN s.data THEN 1 ELSE 0
    BY <2>1, <2>3
  <2>. QED BY <2>2, <2>4 DEF done
<1>3. CASE cmd.op = "EXPIRE"
  <2>1. cmd.arg \in Numbers /\ cmd.arg # None
    BY <1>3, NumbersAssumption, WheelAssumption DEF Writes
  <2>2. done = [store |-> ExpireKey(s, cmd.key, cmd.arg, Now, Now).store,
                reply |-> ExpireKey(s, cmd.key, cmd.arg, Now, Now).reply, error |-> FALSE]
    BY <1>3, <2>1 DEF ExecuteCommand
  <2>3. cmd.op # "SET"
    BY <1>3
  <2>4. LET r == ExpireKey(s, cmd.key, cmd.arg, Now, Now)
        IN  /\ r.store.data = Drop(s.data, {cmd.key})
            /\ r.reply = IF cmd.key \in DOMAIN s.data THEN 1 ELSE 0
    BY <2>1, ExpiredData
  <2>. HIDE DEF done
  <2>5. /\ done.store.data = Drop(s.data, {cmd.key}) /\ ~ done.error
        /\ done.reply = IF cmd.key \in DOMAIN s.data THEN 1 ELSE 0
    BY <2>2, <2>4
  <2>. QED BY <2>3, <2>5 DEF done
<1>. QED BY <1>1, <1>2, <1>3 DEF Writes

\* A replay has the same effect as the request had.
LEMMA WriteReplayed ==
  ASSUME NEW s, Fits(s, Keys), NEW cmd \in Writes
  PROVE  ApplyReplayRequest(s, cmd, Now).data
           = IF cmd.op = "SET" THEN Put(s.data, cmd.key, cmd.arg)
             ELSE Drop(s.data, {cmd.key})
<1>. DEFINE p == ProcessExpirations(s, Now)
            r == ApplyReplayRequest(s, cmd, Now)
<1>0. Fits(p, Keys) /\ p.data = s.data
  BY ProcessFits, ProcessKeeps
<1>. HIDE DEF p
<1>1. CASE cmd.op = "SET"
  <2>1. r = SetKey(p, cmd.key, cmd.arg, Now)
    BY <1>1 DEF ApplyReplayRequest, p
  <2>2. SetKey(p, cmd.key, cmd.arg, Now).data
          = Put(ProcessExpirations(p, Now).data, cmd.key, cmd.arg)
    BY DEF SetKey, ClearExpiry, ProcessExpirations
  <2>. QED BY <1>0, <1>1, <2>1, <2>2, ProcessKeeps
<1>2. CASE cmd.op = "DEL"
  <2>1. r = DeleteKey(p, cmd.key, Now).store
    BY <1>2 DEF ApplyReplayRequest, p
  <2>2. DeleteKey(p, cmd.key, Now).store.data = Drop(p.data, {cmd.key})
    BY <1>0, DeletedData
  <2>3. r.data = Drop(s.data, {cmd.key})
    BY <1>0, <2>1, <2>2
  <2>. QED BY <1>2, <2>3
<1>3. CASE cmd.op = "EXPIRE"
  <2>1. r = ExpireKey(p, cmd.key, cmd.arg, Now, Now).store /\ cmd.arg \in Numbers
    BY <1>3 DEF ApplyReplayRequest, p, Writes
  <2>2. ExpireKey(p, cmd.key, cmd.arg, Now, Now).store.data = Drop(p.data, {cmd.key})
    BY <1>0, <2>1, ExpiredData
  <2>3. r.data = Drop(s.data, {cmd.key})
    BY <1>0, <2>1, <2>2
  <2>. QED BY <1>3, <2>3
<1>. QED BY <1>1, <1>2, <1>3 DEF Writes

\* The same, one key at a time.
LEMMA WriteAt ==
  ASSUME NEW d, NEW e, NEW cmd \in Writes,
         e = IF cmd.op = "SET" THEN Put(d, cmd.key, cmd.arg) ELSE Drop(d, {cmd.key})
  PROVE  \A x : Lookup(e, x, None) = IF x = cmd.key THEN WriteOf(cmd).value
                                     ELSE Lookup(d, x, None)
BY LookupPut, LookupDrop DEF WriteOf

\* The other commands change nothing, except FLUSHALL.
LEMMA ReadExecuted ==
  ASSUME NEW s, Fits(s, Keys), NEW cmd, IsCommand(cmd), cmd \notin Writes
  PROVE  LET done == ExecuteCommand(s, cmd, Now)
         IN  /\ cmd.op = "GET" => done = [store |-> ProcessExpirations(s, Now), error |-> FALSE,
                                          reply |-> Lookup(s.data, cmd.key, None)]
             /\ cmd.op = "TTL" => done = [store |-> KeyTtl(s, cmd.key, Now, Now).store, error |-> FALSE,
                                          reply |-> IF cmd.key \in DOMAIN s.data THEN -1 ELSE -2]
             /\ cmd.op = "MGET" =>
                  done = [store |-> ProcessExpirations(s, Now), error |-> FALSE,
                          reply |-> [i \in DOMAIN cmd.key |-> Lookup(s.data, cmd.key[i], None)]]
             /\ cmd.op = "KEYS" =>
                  done = [store |-> ProcessExpirations(s, Now), error |-> FALSE,
                          reply |-> DOMAIN s.data \cap cmd.arg]
             /\ cmd.op = "FLUSHALL" => done = [store |-> NewStore, error |-> FALSE,
                                               reply |-> Cardinality(DOMAIN s.data)]
             /\ cmd.op = "PING" => done.store = s /\ ~ done.error
             /\ cmd.op = "EXPIRE" /\ cmd.arg = None => done.store = s /\ done.error
<1>. DEFINE done == ExecuteCommand(s, cmd, Now)
            p == ProcessExpirations(s, Now)
<1>0. p.data = s.data
  BY ProcessKeeps
<1>1. ASSUME cmd.op = "GET"
      PROVE  done = [store |-> p, reply |-> Lookup(s.data, cmd.key, None), error |-> FALSE]
  BY <1>0, <1>1 DEF ExecuteCommand, ValueOf
<1>2. ASSUME cmd.op = "TTL"
      PROVE  done = [store |-> KeyTtl(s, cmd.key, Now, Now).store, error |-> FALSE,
                     reply |-> IF cmd.key \in DOMAIN s.data THEN -1 ELSE -2]
  <2>1. done = [store |-> KeyTtl(s, cmd.key, Now, Now).store, error |-> FALSE,
                reply |-> KeyTtl(s, cmd.key, Now, Now).reply]
    BY <1>2 DEF ExecuteCommand
  <2>. QED BY <2>1, TtlData
<1>3. ASSUME cmd.op = "MGET"
      PROVE  done = [store |-> p, error |-> FALSE,
                     reply |-> [i \in DOMAIN cmd.key |-> Lookup(s.data, cmd.key[i], None)]]
  BY <1>0, <1>3 DEF ExecuteCommand, ValueOf
<1>4. ASSUME cmd.op = "KEYS"
      PROVE  done = [store |-> p, error |-> FALSE, reply |-> DOMAIN s.data \cap cmd.arg]
  BY <1>0, <1>4 DEF ExecuteCommand, KeysMatching
<1>5. ASSUME cmd.op = "FLUSHALL"
      PROVE  done = [store |-> NewStore, error |-> FALSE, reply |-> Cardinality(DOMAIN s.data)]
  BY <1>0, <1>5 DEF ExecuteCommand, Flush
<1>6. cmd.op = "PING" => done.store = s /\ ~ done.error
  BY DEF ExecuteCommand
<1>7. cmd.op = "EXPIRE" /\ cmd.arg = None => done.store = s /\ done.error
  BY DEF ExecuteCommand
<1>. HIDE DEF done, p
<1>8. /\ cmd.op = "GET" => done = [store |-> p, error |-> FALSE, reply |-> Lookup(s.data, cmd.key, None)]
      /\ cmd.op = "TTL" => done = [store |-> KeyTtl(s, cmd.key, Now, Now).store, error |-> FALSE,
                                   reply |-> IF cmd.key \in DOMAIN s.data THEN -1 ELSE -2]
      /\ cmd.op = "MGET" =>
           done = [store |-> p, error |-> FALSE,
                   reply |-> [i \in DOMAIN cmd.key |-> Lookup(s.data, cmd.key[i], None)]]
      /\ cmd.op = "KEYS" => done = [store |-> p, error |-> FALSE, reply |-> DOMAIN s.data \cap cmd.arg]
      /\ cmd.op = "FLUSHALL" => done = [store |-> NewStore, error |-> FALSE,
                                        reply |-> Cardinality(DOMAIN s.data)]
  BY <1>1, <1>2, <1>3, <1>4, <1>5
<1>. QED BY <1>6, <1>7, <1>8 DEF done, p
-----------------------------------------------------------------------------
(* What a log says, and what writes make of a map. *)

\* What some writes leave of a key that was at old.
LastWrite(writes, k, old) ==
  LET own == {i \in DOMAIN writes : writes[i].key = k}
  IN  IF own = {} THEN old ELSE writes[Max(own)].value

WritesOf(pieces) == [i \in DOMAIN pieces |-> WriteOf(pieces[i].record.cmd)]

\* The map that has at[k] at every key k, where that is a value.
MapOf(at) == [k \in {l \in Keys : at[l] # None} |-> at[k]]

\* The greatest element, as the library and as the map have it.
LEMMA MaxIs ==
  ASSUME NEW S, S \subseteq Int, IsFiniteSet(S), NEW i \in S, \A j \in S : j <= i
  PROVE  Max(S) = i
<1>1. Max(S) \in S /\ \A y \in S : y <= Max(S)
  BY MaxOK
<1>2. Max(S) \in Int /\ i \in Int /\ Max(S) <= i /\ i <= Max(S)
  BY <1>1
<1>. QED BY <1>2

LEMMA SameMax == \A S : Abstract!Max(S) = Max(S)
BY DEF Abstract!Max, Max

\* Writes to a function of all keys, with None where nothing is, are writes to
\* the map of it.
LEMMA WrittenMap ==
  ASSUME NEW A, NEW B, NEW writes,
         \A k \in Keys : B[k] = LastWrite(writes, k, A[k])
  PROVE  MapOf(B) = Abstract!Written(MapOf(A), writes)
<1>. DEFINE own(k)   == {i \in DOMAIN writes : writes[i].key = k}
            value(k) == IF own(k) = {} THEN Abstract!Lookup(MapOf(A), k, None)
                        ELSE writes[Max(own(k))].value
<1>1. \A k \in Keys : Abstract!Lookup(MapOf(A), k, None) = A[k]
  BY DEF Abstract!Lookup, MapOf
<1>2. \A k \in Keys : value(k) = B[k]
  BY <1>1 DEF LastWrite
<1>3. Abstract!Written(MapOf(A), writes) = [k \in {l \in Keys : value(l) # None} |-> value(k)]
  BY SameMax DEF Abstract!Written
<1>. HIDE DEF value
<1>. QED BY <1>2, <1>3 DEF MapOf

\* Of the writes to a key there is a last one.
LEMMA LastOf ==
  ASSUME NEW S, NEW s \in Seq(S), NEW own, own \subseteq DOMAIN s
  PROVE  /\ own \subseteq Int /\ IsFiniteSet(own)
         /\ own # {} => Max(own) \in own /\ \A j \in own : j <= Max(own)
<1>1. DOMAIN s = 1 .. Len(s) /\ Len(s) \in Nat
  BY LenProperties
<1>2. IsFiniteSet(1 .. Len(s))
  BY <1>1, FS_Interval
<1>3. own \subseteq Int /\ IsFiniteSet(own)
  BY <1>1, <1>2, FS_Subset
<1>. QED BY <1>3, MaxOK

\* The writes of a log, one for each record.
LEMMA WritesOfFacts ==
  ASSUME NEW pieces \in Seq(Pieces)
  PROVE  /\ WritesOf(pieces) \in Seq([key : Keys, value : Values \cup {None}])
         /\ Len(WritesOf(pieces)) = Len(pieces) /\ DOMAIN WritesOf(pieces) = DOMAIN pieces
         /\ \A i \in DOMAIN pieces :
              /\ WritesOf(pieces)[i] = WriteOf(pieces[i].record.cmd)
              /\ WritesOf(pieces)[i].key = pieces[i].record.cmd.key
<1>. DEFINE R == [key : Keys, value : Values \cup {None}]
            W == WritesOf(pieces)
<1>1. DOMAIN pieces = 1 .. Len(pieces) /\ Len(pieces) \in Nat
      /\ \A i \in 1 .. Len(pieces) : pieces[i] \in Pieces
  BY LenProperties, ElementOfSeq
<1>2. ASSUME NEW cmd \in Writes PROVE WriteOf(cmd) \in R
  BY DEF Writes, WriteOf
<1>3. \A i \in 1 .. Len(pieces) : pieces[i].record.cmd \in Writes
  BY <1>1 DEF Pieces
<1>. HIDE DEF R
<1>4. W \in [1 .. Len(pieces) -> R]
  BY <1>1, <1>2, <1>3 DEF WritesOf
<1>5. W \in Seq(R) /\ DOMAIN W = 1 .. Len(pieces)
  BY <1>1, <1>4
<1>6. Len(W) = Len(pieces)
  BY <1>1, <1>5, LenProperties
<1>7. \A i \in DOMAIN pieces : W[i] = WriteOf(pieces[i].record.cmd)
  BY DEF WritesOf
<1>8. \A i \in DOMAIN pieces : W[i].key = pieces[i].record.cmd.key
  <2>1. \A cmd : WriteOf(cmd).key = cmd.key
    BY DEF WriteOf
  <2>. HIDE DEF W
  <2>. QED BY <1>7, <2>1
<1>. QED BY <1>1, <1>5, <1>6, <1>7, <1>8 DEF R

\* What a log says of a key is what its writes leave of an empty map.
LEMMA RecoveredIs ==
  ASSUME NEW pieces \in Seq(Pieces), NEW k
  PROVE  Recovered(pieces, k) = LastWrite(WritesOf(pieces), k, None)
<1>. DEFINE own == {i \in DOMAIN pieces : pieces[i].record.cmd.key = k}
            W   == WritesOf(pieces)
<1>1. /\ DOMAIN W = DOMAIN pieces
      /\ \A i \in DOMAIN pieces : /\ W[i] = WriteOf(pieces[i].record.cmd)
                                  /\ W[i].key = pieces[i].record.cmd.key
  BY WritesOfFacts
<1>. HIDE DEF W
<1>2. {i \in DOMAIN W : W[i].key = k} = own
  BY <1>1
<1>3. own # {} => Max(own) \in DOMAIN pieces
  BY LastOf
<1>4. LastWrite(W, k, None) = IF own = {} THEN None ELSE W[Max(own)].value
  BY <1>2 DEF LastWrite
<1>5. Recovered(pieces, k) = IF own = {} THEN None
                             ELSE WriteOf(pieces[Max(own)].record.cmd).value
  BY DEF Recovered
<1>. HIDE DEF own
<1>. QED BY <1>1, <1>3, <1>4, <1>5 DEF W

\* Some writes after some others.
LEMMA LastWriteConcat ==
  ASSUME NEW S, NEW u \in Seq(S), NEW v \in Seq(S), NEW k, NEW old
  PROVE  LastWrite(u \o v, k, old) = LastWrite(v, k, LastWrite(u, k, old))
<1>. DEFINE w      == u \o v
            of(s)  == {i \in DOMAIN s : s[i].key = k}
<1>1. /\ w \in Seq(S) /\ Len(w) = Len(u) + Len(v)
      /\ \A i \in 1 .. Len(u) + Len(v) :
           w[i] = IF i <= Len(u) THEN u[i] ELSE v[i - Len(u)]
  BY ConcatProperties
<1>2. /\ DOMAIN u = 1 .. Len(u) /\ Len(u) \in Nat
      /\ DOMAIN v = 1 .. Len(v) /\ Len(v) \in Nat
      /\ DOMAIN w = 1 .. Len(u) + Len(v)
  BY <1>1, LenProperties
<1>. HIDE DEF w
<1>3. \A i \in of(u) : i \in of(w) /\ w[i] = u[i]
  BY <1>1, <1>2
<1>4. \A i \in of(v) : Len(u) + i \in of(w) /\ w[Len(u) + i] = v[i]
  <2>. SUFFICES ASSUME NEW i \in of(v) PROVE Len(u) + i \in of(w) /\ w[Len(u) + i] = v[i]
    OBVIOUS
  <2>1. i \in 1 .. Len(v) /\ v[i].key = k
    BY <1>2
  <2>2. Len(u) + i \in 1 .. Len(u) + Len(v) /\ ~ (Len(u) + i <= Len(u))
        /\ (Len(u) + i) - Len(u) = i
    BY <1>2, <2>1
  <2>3. w[Len(u) + i] = v[i]
    BY <1>1, <2>2
  <2>. QED BY <1>2, <2>1, <2>2, <2>3
<1>5. \A i \in of(w) : i \in of(u) \/ (i > Len(u) /\ i - Len(u) \in of(v))
  <2>. SUFFICES ASSUME NEW i \in of(w) PROVE i \in of(u) \/ (i > Len(u) /\ i - Len(u) \in of(v))
    OBVIOUS
  <2>1. i \in 1 .. Len(u) + Len(v) /\ w[i].key = k
    BY <1>2
  <2>2. CASE i <= Len(u)
    BY <1>1, <1>2, <2>1, <2>2
  <2>3. CASE i > Len(u)
    <3>1. i - Len(u) \in 1 .. Len(v) /\ w[i] = v[i - Len(u)]
      BY <1>1, <1>2, <2>1, <2>3
    <3>. QED BY <1>2, <2>1, <2>3, <3>1
  <2>. QED BY <1>2, <2>1, <2>2, <2>3
<1>6. \A s : of(s) \subseteq DOMAIN s
  OBVIOUS
<1>7. /\ of(u) # {} => Max(of(u)) \in of(u) /\ \A j \in of(u) : j <= Max(of(u))
      /\ of(v) # {} => Max(of(v)) \in of(v) /\ \A j \in of(v) : j <= Max(of(v))
      /\ of(w) \subseteq Int /\ IsFiniteSet(of(w))
  <2>. HIDE DEF of
  <2>. QED BY <1>1, <1>6, LastOf
<1>8. \A s, o : LastWrite(s, k, o) = IF of(s) = {} THEN o ELSE s[Max(of(s))].value
  BY DEF LastWrite
<1>9. of(u) \subseteq 1 .. Len(u) /\ of(v) \subseteq 1 .. Len(v)
  BY <1>2
<1>. HIDE DEF of
<1>10. CASE of(v) # {}
  <2>. DEFINE m == Max(of(v))
  <2>1. m \in of(v) /\ m \in 1 .. Len(v) /\ \A j \in of(v) : j <= m
    BY <1>7, <1>9, <1>10
  <2>. HIDE DEF m
  <2>2. Len(u) + m \in of(w) /\ w[Len(u) + m] = v[m]
    BY <1>4, <2>1
  <2>3. ASSUME NEW j \in of(w) PROVE j <= Len(u) + m
    <3>1. CASE j \in of(u)
      BY <3>1, <2>1, <1>2, <1>9
    <3>2. CASE j > Len(u) /\ j - Len(u) \in of(v)
      <4>1. j - Len(u) <= m /\ j \in Int
        BY <3>2, <2>1, <1>7
      <4>. QED BY <4>1, <2>1, <1>2
    <3>. QED BY <3>1, <3>2, <1>5
  <2>4. Max(of(w)) = Len(u) + m
    BY <1>7, <2>2, <2>3, MaxIs
  <2>5. LastWrite(w, k, old) = v[m].value
    BY <1>8, <2>2, <2>4
  <2>6. LastWrite(v, k, LastWrite(u, k, old)) = v[m].value
    BY <1>8, <1>10 DEF m
  <2>. QED BY <2>5, <2>6 DEF w
<1>11. CASE of(v) = {} /\ of(u) # {}
  <2>. DEFINE m == Max(of(u))
  <2>1. m \in of(u) /\ \A j \in of(u) : j <= m
    BY <1>7, <1>11
  <2>. HIDE DEF m
  <2>2. m \in of(w) /\ w[m] = u[m] /\ \A j \in of(w) : j <= m
    BY <1>3, <1>5, <1>11, <2>1
  <2>3. Max(of(w)) = m
    BY <1>7, <2>2, MaxIs
  <2>4. LastWrite(w, k, old) = u[m].value
    BY <1>8, <2>2, <2>3
  <2>5. LastWrite(u, k, old) = u[m].value
    BY <1>8, <1>11 DEF m
  <2>. QED BY <1>8, <1>11, <2>4, <2>5 DEF w
<1>12. CASE of(v) = {} /\ of(u) = {}
  <2>1. of(w) = {}
    BY <1>5, <1>12
  <2>. QED BY <1>8, <1>12, <2>1 DEF w
<1>. QED BY <1>10, <1>11, <1>12

\* The writes of parts of a log are parts of its writes.
LEMMA WritesOfParts ==
  ASSUME NEW s \in Seq(Pieces)
  PROVE  /\ \A t \in Seq(Pieces) : WritesOf(s \o t) = WritesOf(s) \o WritesOf(t)
         /\ \A p \in Pieces : WritesOf(Append(s, p)) = Append(WritesOf(s), WriteOf(p.record.cmd))
         /\ \A m \in 1 .. Len(s) + 1, n \in 0 .. Len(s) : m <= n + 1 =>
              WritesOf(SubSeq(s, m, n)) = SubSeq(WritesOf(s), m, n)
<1>. DEFINE R == [key : Keys, value : Values \cup {None}]
<1>0. /\ WritesOf(s) \in Seq(R) /\ Len(WritesOf(s)) = Len(s) /\ Len(s) \in Nat
      /\ \A i \in 1 .. Len(s) : WritesOf(s)[i] = WriteOf(s[i].record.cmd)
  BY WritesOfFacts, LenProperties
<1>. HIDE DEF R
<1>1. ASSUME NEW t \in Seq(Pieces)
      PROVE  WritesOf(s \o t) = WritesOf(s) \o WritesOf(t)
  <2>. DEFINE a == WritesOf(s \o t)
              b == WritesOf(s) \o WritesOf(t)
  <2>1. /\ WritesOf(t) \in Seq(R) /\ Len(WritesOf(t)) = Len(t) /\ Len(t) \in Nat
        /\ \A i \in 1 .. Len(t) : WritesOf(t)[i] = WriteOf(t[i].record.cmd)
    BY WritesOfFacts, LenProperties DEF R
  <2>2. /\ s \o t \in Seq(Pieces) /\ Len(s \o t) = Len(s) + Len(t)
        /\ \A i \in 1 .. Len(s) + Len(t) :
             (s \o t)[i] = IF i <= Len(s) THEN s[i] ELSE t[i - Len(s)]
    BY ConcatProperties
  <2>3. /\ b \in Seq(R) /\ Len(b) = Len(s) + Len(t)
        /\ \A i \in 1 .. Len(s) + Len(t) :
             b[i] = IF i <= Len(s) THEN WritesOf(s)[i] ELSE WritesOf(t)[i - Len(s)]
    <3>. DEFINE u == WritesOf(s)
                v == WritesOf(t)
    <3>1. u \in Seq(R) /\ v \in Seq(R) /\ Len(u) = Len(s) /\ Len(v) = Len(t)
      BY <1>0, <2>1
    <3>. HIDE DEF u, v
    <3>2. /\ u \o v \in Seq(R) /\ Len(u \o v) = Len(u) + Len(v)
          /\ \A i \in 1 .. Len(u) + Len(v) :
               (u \o v)[i] = IF i <= Len(u) THEN u[i] ELSE v[i - Len(u)]
      BY ONLY <3>1, ConcatProperties
    <3>. QED BY ONLY <3>1, <3>2 DEF u, v
  <2>4. /\ a \in Seq(R) /\ Len(a) = Len(s) + Len(t)
        /\ \A i \in 1 .. Len(s) + Len(t) : a[i] = WriteOf((s \o t)[i].record.cmd)
    BY <2>2, WritesOfFacts, LenProperties DEF R
  <2>. HIDE DEF a, b
  <2>5. ASSUME NEW i \in 1 .. Len(s) + Len(t) PROVE a[i] = b[i]
    <3>1. CASE i <= Len(s)
      <4>1. i \in 1 .. Len(s)
        BY <1>0, <2>1, <3>1
      <4>. QED BY <1>0, <2>2, <2>3, <2>4, <3>1, <4>1
    <3>2. CASE ~ (i <= Len(s))
      <4>1. i - Len(s) \in 1 .. Len(t)
        BY <1>0, <2>1, <3>2
      <4>. QED BY <2>1, <2>2, <2>3, <2>4, <3>2, <4>1
    <3>. QED BY <3>1, <3>2
  <2>6. a = b
    BY <2>3, <2>4, <2>5, SeqEqual
  <2>. QED BY <2>6 DEF a, b
<1>2. ASSUME NEW p \in Pieces
      PROVE  WritesOf(Append(s, p)) = Append(WritesOf(s), WriteOf(p.record.cmd))
  <2>. DEFINE one == <<p>>
  <2>1. one \in Seq(Pieces) /\ Append(s, p) = s \o one /\ Len(one) = 1 /\ one[1] = p
    BY AppendIsConcat
  <2>2. WritesOf(one) = <<WriteOf(p.record.cmd)>>
    BY DEF WritesOf
  <2>3. WriteOf(p.record.cmd) \in R
    <3>1. p.record.cmd \in Writes
      BY DEF Pieces
    <3>. QED BY <3>1 DEF Writes, WriteOf, R
  <2>4. Append(WritesOf(s), WriteOf(p.record.cmd)) = WritesOf(s) \o <<WriteOf(p.record.cmd)>>
    BY <1>0, <2>3, AppendIsConcat
  <2>. HIDE DEF one
  <2>. QED BY <1>1, <2>1, <2>2, <2>4
<1>3. ASSUME NEW m \in 1 .. Len(s) + 1, NEW n \in 0 .. Len(s), m <= n + 1
      PROVE  WritesOf(SubSeq(s, m, n)) = SubSeq(WritesOf(s), m, n)
  <2>. DEFINE a == WritesOf(SubSeq(s, m, n))
              b == SubSeq(WritesOf(s), m, n)
  <2>0. m \in Int /\ n \in Int /\ \A i \in 1 .. n - m + 1 : m + i - 1 \in 1 .. Len(s)
    BY <1>0
  <2>1. /\ SubSeq(s, m, n) \in Seq(Pieces) /\ Len(SubSeq(s, m, n)) = n - m + 1
        /\ \A i \in 1 .. n - m + 1 : SubSeq(s, m, n)[i] = s[m + i - 1]
    <3>1. \A i \in m .. n : s[i] \in Pieces
      BY <1>0, ElementOfSeq
    <3>. QED BY <1>3, <2>0, <3>1, SubSeqProperties
  <2>2. /\ b \in Seq(R) /\ Len(b) = n - m + 1
        /\ \A i \in 1 .. n - m + 1 : b[i] = WritesOf(s)[m + i - 1]
    <3>1. \A i \in m .. n : WritesOf(s)[i] \in R
      BY <1>0, ElementOfSeq
    <3>. QED BY <1>3, <2>0, <3>1, SubSeqProperties
  <2>3. /\ a \in Seq(R) /\ Len(a) = n - m + 1
        /\ \A i \in 1 .. n - m + 1 : a[i] = WriteOf(SubSeq(s, m, n)[i].record.cmd)
    BY <2>1, WritesOfFacts, LenProperties DEF R
  <2>. HIDE DEF a, b
  <2>4. \A i \in 1 .. n - m + 1 : a[i] = b[i]
    BY <1>0, <2>0, <2>1, <2>2, <2>3
  <2>5. a = b
    BY <2>2, <2>3, <2>4, SeqEqual
  <2>. QED BY <2>5 DEF a, b
<1>. QED BY <1>1, <1>2, <1>3

\* What a log says after it has grown.
LEMMA RecoveredConcat ==
  ASSUME NEW s \in Seq(Pieces), NEW t \in Seq(Pieces), NEW k
  PROVE  Recovered(s \o t, k) = LastWrite(WritesOf(t), k, Recovered(s, k))
<1>1. s \o t \in Seq(Pieces)
  BY ConcatProperties
<1>2. WritesOf(s \o t) = WritesOf(s) \o WritesOf(t)
  BY WritesOfParts
<1>3. LastWrite(WritesOf(s) \o WritesOf(t), k, None)
        = LastWrite(WritesOf(t), k, LastWrite(WritesOf(s), k, None))
  BY WritesOfFacts, LastWriteConcat
<1>. QED BY <1>1, <1>2, <1>3, RecoveredIs

\* One write, and none.
LEMMA LastWriteOne ==
  \A w, k, old : LastWrite(<<w>>, k, old) = IF w.key = k THEN w.value ELSE old
<1>. TAKE w, k, old
<1>. DEFINE one == <<w>>
            own == {i \in DOMAIN one : one[i].key = k}
<1>1. DOMAIN one = {1} /\ one[1] = w
  OBVIOUS
<1>. HIDE DEF one
<1>2. own = IF w.key = k THEN {1} ELSE {}
  BY <1>1
<1>3. IsFiniteSet({1}) /\ {1} \subseteq Int /\ Max({1}) = 1
  BY FS_Singleton, MaxIs
<1>4. LastWrite(one, k, old) = IF own = {} THEN old ELSE one[Max(own)].value
  BY DEF LastWrite
<1>. HIDE DEF own
<1>5. LastWrite(one, k, old) = IF w.key = k THEN w.value ELSE old
  BY <1>1, <1>2, <1>3, <1>4
<1>. QED BY <1>5 DEF one

LEMMA LastWriteNone == \A k, old : LastWrite(<<>>, k, old) = old
<1>1. DOMAIN <<>> = {}
  OBVIOUS
<1>. QED BY <1>1 DEF LastWrite

\* One more record is the last word on its key.
LEMMA RecoveredAppend ==
  ASSUME NEW s \in Seq(Pieces), NEW p \in Pieces, NEW k
  PROVE  Recovered(Append(s, p), k) = IF p.record.cmd.key = k THEN WriteOf(p.record.cmd).value
                                      ELSE Recovered(s, k)
<1>. DEFINE one == <<p>>
<1>1. one \in Seq(Pieces) /\ Append(s, p) = s \o one
  BY AppendIsConcat
<1>2. WritesOf(one) = <<WriteOf(p.record.cmd)>>
  BY DEF WritesOf
<1>. HIDE DEF one
<1>3. Recovered(Append(s, p), k) = LastWrite(<<WriteOf(p.record.cmd)>>, k, Recovered(s, k))
  BY <1>1, <1>2, RecoveredConcat
<1>4. WriteOf(p.record.cmd).key = p.record.cmd.key
  BY DEF WriteOf
<1>. QED BY <1>3, <1>4, LastWriteOne
-----------------------------------------------------------------------------
(* A replay makes of the stores what the logs say. *)

\* What of a log has been replayed is what its keys have in the stores.
Replayed(f) ==
  LET n == Len(files[f]) - Len(left[f])
  IN  /\ left[f] = SubSeq(files[f], n + 1, Len(files[f]))
      /\ \A k \in Keys : LogOf(Home(k)) = f =>
           Lookup(stores[Home(k)].data, k, None) = Recovered(SubSeq(files[f], 1, n), k)

Replaying == \A f \in Logs : up /\ left[f] # <<>> => Replayed(f)

\* KEYS lists what is in a store.
StoresFinite == \A w \in Workers : IsFiniteSet(DOMAIN stores[w].data)

\* Where keys and commands go.
LEMMA HomeOK ==
  ASSUME TypeOK
  PROVE  /\ \A k \in Keys : Home(k) \in Workers /\ LogOf(Home(k)) \in Logs
         /\ mode = "single" => \A k \in Keys : LogOf(Home(k)) = 0
         /\ mode = "multi" => \A w \in Workers : LogOf(w) = w /\ w \in Logs
         /\ \A cmd : cmd.op \in {"SET", "GET", "DEL", "EXPIRE", "TTL"} /\ cmd.key \in Keys =>
              RouteRequest(hash, cmd, count) = Home(cmd.key)
         /\ \A cmd : cmd.op \in {"PING", "MGET", "KEYS", "FLUSHALL"} =>
              RouteRequest(hash, cmd, count) = 0
<1>1. count \in Nat \ {0} /\ hash \in [Keys -> Nat]
  BY LiteStoreAssumption DEF TypeOK
<1>2. \A n \in Nat : n % count \in 0 .. count - 1
  BY <1>1
<1>3. \A k \in Keys : Home(k) \in Workers
  BY <1>1, <1>2 DEF RouteKey, Workers, Home
<1>4. \A w \in Workers : LogOf(w) \in Logs
  BY LogFacts
<1>5. \A cmd : cmd.op \in {"SET", "GET", "DEL", "EXPIRE", "TTL"} /\ cmd.key \in Keys =>
              RouteRequest(hash, cmd, count) = Home(cmd.key)
  BY LiteStoreAssumption DEF RouteRequest, KeyOf, Home
<1>6. \A cmd : cmd.op \in {"PING", "MGET", "KEYS", "FLUSHALL"} =>
              RouteRequest(hash, cmd, count) = 0
  BY DEF RouteRequest, KeyOf
<1>. QED BY <1>3, <1>4, <1>5, <1>6 DEF LogOf

\* What a step makes of the stores, key by key: a write has its effect.
LEMMA EffectAt ==
  ASSUME TypeOK, NEW w \in Workers, NEW cmd \in Writes, NEW s,
         s \in {Executed(w, cmd).store, ApplyReplayRequest(stores[w], cmd, Now)},
         stores' = [stores EXCEPT ![w] = s]
  PROVE  /\ \A x : Lookup(stores'[w].data, x, None)
                     = IF x = cmd.key THEN WriteOf(cmd).value
                       ELSE Lookup(stores[w].data, x, None)
         /\ \A v \in Workers \ {w} : stores'[v] = stores[v]
         /\ StoresFinite /\ UNCHANGED count => StoresFinite'
<1>1. Fits(stores[w], Keys) /\ DOMAIN stores = Workers
  BY StoresFit DEF TypeOK
<1>. DEFINE d == stores[w].data
            e == IF cmd.op = "SET" THEN Put(d, cmd.key, cmd.arg) ELSE Drop(d, {cmd.key})
<1>2. s.data = e
  BY <1>1, WriteExecuted, WriteReplayed DEF Executed
<1>3. /\ stores'[w] = s
      /\ \A v \in Workers \ {w} : stores'[v] = stores[v]
  BY <1>1
<1>4. \A x : Lookup(s.data, x, None) = IF x = cmd.key THEN WriteOf(cmd).value
                                       ELSE Lookup(d, x, None)
  <2>1. s.data = IF cmd.op = "SET" THEN Put(d, cmd.key, cmd.arg) ELSE Drop(d, {cmd.key})
    BY <1>2
  <2>. HIDE DEF d
  <2>. QED BY <2>1, WriteAt
<1>5. IsFiniteSet(DOMAIN d) => IsFiniteSet(DOMAIN e)
  <2>1. DOMAIN e \subseteq DOMAIN d \cup {cmd.key}
    BY DEF Put, Drop, Restrict
  <2>. HIDE DEF d, e
  <2>. QED BY <2>1, FS_AddElement, FS_Subset
<1>. HIDE DEF e
<1>6. StoresFinite /\ UNCHANGED count => StoresFinite'
  BY <1>2, <1>3, <1>5 DEF StoresFinite, Workers
<1>. QED BY <1>2, <1>3, <1>4, <1>6

\* The next record of a replay.
LEMMA ReplayedNext ==
  ASSUME NEW file \in Seq(Pieces), NEW rest \in Seq(Pieces), rest # <<>>,
         Len(rest) <= Len(file),
         rest = SubSeq(file, Len(file) - Len(rest) + 1, Len(file))
  PROVE  LET n == Len(file) - Len(rest)
         IN  /\ Len(file) - Len(Tail(rest)) = n + 1
             /\ Tail(rest) = SubSeq(file, n + 2, Len(file))
             /\ SubSeq(file, 1, n + 1) = Append(SubSeq(file, 1, n), Head(rest))
             /\ Head(rest) \in Pieces /\ SubSeq(file, 1, n) \in Seq(Pieces)
             /\ Tail(rest) = <<>> => n + 1 = Len(file)
<1>. DEFINE n == Len(file) - Len(rest)
            m == Len(file)
<1>1. /\ m \in Nat /\ Len(rest) \in Nat \ {0} /\ n \in 0 .. m - 1
      /\ DOMAIN file = 1 .. m /\ \A i \in 1 .. m : file[i] \in Pieces
  <2>1. Len(rest) # 0
    BY EmptySeq
  <2>. QED BY <2>1, LenProperties, ElementOfSeq
<1>2. /\ Head(rest) = rest[1] /\ Tail(rest) \in Seq(Pieces)
      /\ Head(rest) \in Pieces
      /\ Len(Tail(rest)) = Len(rest) - 1
      /\ \A i \in 1 .. Len(Tail(rest)) : Tail(rest)[i] = rest[i + 1]
  <2>1. Head(rest) = rest[1]
    OBVIOUS
  <2>. QED BY <2>1, HeadTailProperties
<1>. HIDE DEF n
<1>3. n = m - Len(rest)
  BY DEF n
<1>. HIDE DEF m
<1>4. \A i \in 1 .. m - n : rest[i] = file[n + i]
  <2>1. /\ n + 1 \in Int /\ m \in Int
        /\ \A i \in n + 1 .. m : file[i] \in Pieces
    BY <1>1
  <2>2. \A i \in 1 .. m - (n + 1) + 1 : SubSeq(file, n + 1, m)[i] = file[n + 1 + i - 1]
    BY <2>1, SubSeqProperties
  <2>3. m - (n + 1) + 1 = m - n /\ \A i \in Int : n + 1 + i - 1 = n + i
    BY <1>1
  <2>4. rest = SubSeq(file, n + 1, m)
    BY DEF n, m
  <2>. SUFFICES ASSUME NEW i \in 1 .. m - n PROVE rest[i] = file[n + i]
    OBVIOUS
  <2>5. i \in 1 .. m - (n + 1) + 1 /\ n + 1 + i - 1 = n + i
    BY <2>3
  <2>. QED BY <2>2, <2>4, <2>5
<1>5. Tail(rest) = SubSeq(file, n + 2, m)
  <2>. DEFINE b == SubSeq(file, n + 2, m)
  <2>1. /\ n + 2 \in Int /\ m \in Int
        /\ \A i \in n + 2 .. m : file[i] \in Pieces
    BY <1>1
  <2>2. /\ b \in Seq(Pieces) /\ Len(b) = IF n + 2 <= m THEN m - (n + 2) + 1 ELSE 0
        /\ \A i \in 1 .. m - (n + 2) + 1 : b[i] = file[n + 2 + i - 1]
    BY <2>1, SubSeqProperties
  <2>3. Len(b) = m - n - 1 /\ Len(Tail(rest)) = m - n - 1
    BY <1>1, <1>2, <1>3, <2>2
  <2>. HIDE DEF b
  <2>4. ASSUME NEW i \in 1 .. m - n - 1 PROVE b[i] = Tail(rest)[i]
    <3>1. b[i] = file[n + i + 1]
      <4>1. i \in 1 .. m - (n + 2) + 1 /\ n + 2 + i - 1 = n + i + 1
        BY <1>1
      <4>. QED BY <2>2, <4>1
    <3>2. Tail(rest)[i] = rest[i + 1]
      BY <1>2, <2>3
    <3>3. rest[i + 1] = file[n + i + 1]
      <4>1. i + 1 \in 1 .. m - n /\ n + (i + 1) = n + i + 1
        BY <1>1
      <4>. QED BY <1>4, <4>1
    <3>. QED BY <3>1, <3>2, <3>3
  <2>5. b = Tail(rest)
    BY <1>2, <2>2, <2>3, <2>4, SeqEqual
  <2>. QED BY <2>5 DEF b
<1>6. SubSeq(file, 1, n + 1) = Append(SubSeq(file, 1, n), Head(rest))
      /\ SubSeq(file, 1, n) \in Seq(Pieces)
  <2>. DEFINE a == SubSeq(file, 1, n + 1)
              b == SubSeq(file, 1, n)
  <2>0. n + 1 \in 0 .. Len(file) /\ n \in 0 .. Len(file) /\ n \in Nat
    BY <1>1 DEF m
  <2>1. a \in Seq(Pieces) /\ Len(a) = n + 1 /\ b \in Seq(Pieces) /\ Len(b) = n
    BY <2>0, Divided
  <2>2. /\ \A i \in 1 .. n + 1 : a[i] = file[i]
        /\ \A i \in 1 .. n : b[i] = file[i]
    BY <1>1, <2>0
  <2>. HIDE DEF a, b
  <2>3. /\ Append(b, Head(rest)) \in Seq(Pieces) /\ Len(Append(b, Head(rest))) = n + 1
        /\ \A i \in 1 .. n : Append(b, Head(rest))[i] = b[i]
        /\ Append(b, Head(rest))[n + 1] = Head(rest)
    BY <1>2, <2>1, AppendProperties
  <2>4. Head(rest) = file[n + 1]
    <3>1. 1 \in 1 .. m - n
      BY <1>1
    <3>. QED BY <1>2, <1>4, <3>1
  <2>5. ASSUME NEW i \in 1 .. n + 1 PROVE a[i] = Append(b, Head(rest))[i]
    <3>1. i \in 1 .. n \/ i = n + 1
      BY <2>0
    <3>. QED BY <2>2, <2>3, <2>4, <3>1
  <2>6. a = Append(b, Head(rest))
    BY <2>1, <2>3, <2>5, SeqEqual
  <2>. QED BY <2>1, <2>6 DEF a, b
<1>7. m - Len(Tail(rest)) = n + 1
  BY <1>1, <1>2, <1>3
<1>8. Tail(rest) = <<>> => n + 1 = m
  <2>1. Tail(rest) = <<>> => Len(Tail(rest)) = 0
    BY EmptySeq
  <2>2. \A l : l = 0 /\ m - l = n + 1 => n + 1 = m
    BY <1>1
  <2>. QED BY <1>7, <2>1, <2>2
<1>. QED BY <1>2, <1>5, <1>6, <1>7, <1>8 DEF n, m

\* A step of a replay.
LEMMA ReplayStep ==
  ASSUME TypeOK, Replaying, NEW f \in Logs, ReplayLine(f)
  PROVE  /\ left[f] # <<>> /\ \A g \in Logs \ {f} : left'[g] = left[g]
         /\ \A g \in Logs : left[g] # <<>> => Replayed(g)'
         /\ \A k \in Keys : LogOf(Home(k)) # f => stores'[Home(k)] = stores[Home(k)]
         /\ StoresFinite => StoresFinite'
<1>. DEFINE cmd == Head(left[f]).record.cmd
            w   == RouteRequest(hash, cmd, count)
            n   == Len(files[f]) - Len(left[f])
<1>1. /\ cmd \in Writes /\ left[f] # <<>> /\ left' = [left EXCEPT ![f] = Tail(@)]
      /\ \/ /\ mode = "single" /\ IsCommand(cmd)
            /\ stores' = [stores EXCEPT ![w] = Executed(w, cmd).store]
         \/ /\ mode = "multi" /\ f \in Workers
            /\ stores' = ReplayShard(f, cmd)
  BY ReplayTypes
<1>2. up /\ UNCHANGED <<mode, hash, count, files>>
  BY DEF ReplayLine, config, logs
<1>3. LogsOK
  BY TypeParts
<1>4. /\ files[f] \in Seq(Pieces) /\ left[f] \in Seq(Pieces) /\ Len(left[f]) <= Len(files[f])
      /\ DOMAIN left = Logs
  BY <1>3 DEF LogsOK
<1>5. /\ left[f] = SubSeq(files[f], n + 1, Len(files[f]))
      /\ \A k \in Keys : LogOf(Home(k)) = f =>
           Lookup(stores[Home(k)].data, k, None) = Recovered(SubSeq(files[f], 1, n), k)
  BY <1>1, <1>2 DEF Replaying, Replayed
<1>6. /\ Len(files[f]) - Len(Tail(left[f])) = n + 1
      /\ Tail(left[f]) = SubSeq(files[f], n + 2, Len(files[f]))
      /\ SubSeq(files[f], 1, n + 1) = Append(SubSeq(files[f], 1, n), Head(left[f]))
      /\ Head(left[f]) \in Pieces /\ SubSeq(files[f], 1, n) \in Seq(Pieces)
  BY <1>1, <1>4, <1>5, ReplayedNext
<1>7. \A k : Recovered(SubSeq(files[f], 1, n + 1), k)
               = IF k = cmd.key THEN WriteOf(cmd).value
                 ELSE Recovered(SubSeq(files[f], 1, n), k)
  <2>. DEFINE a == SubSeq(files[f], 1, n)
              p == Head(left[f])
  <2>1. a \in Seq(Pieces) /\ p \in Pieces /\ SubSeq(files[f], 1, n + 1) = Append(a, p)
    BY <1>6
  <2>. HIDE DEF a, p
  <2>2. \A k : Recovered(Append(a, p), k) = IF p.record.cmd.key = k THEN WriteOf(p.record.cmd).value
                                           ELSE Recovered(a, k)
    BY <2>1, RecoveredAppend
  <2>. QED BY <2>1, <2>2 DEF a, p
<1>8. w \in Workers /\ w = Home(cmd.key) /\ cmd.key \in Keys
  <2>1. cmd.op \in {"SET", "DEL", "EXPIRE"} /\ cmd.key \in Keys
    BY <1>1 DEF Writes
  <2>2. w = Home(cmd.key)
    BY <2>1, HomeOK
  <2>. QED BY <2>1, <2>2, HomeOK
<1>. HIDE DEF cmd, w
\* The worker that the record goes to.
<1>9. PICK v \in Workers :
        /\ mode = "single" => v = w
        /\ mode = "multi" => v = f
        /\ \E s \in {Executed(v, cmd).store, ApplyReplayRequest(stores[v], cmd, Now)} :
             stores' = [stores EXCEPT ![v] = s]
  <2>1. CASE mode = "single"
    BY <1>1, <1>8, <2>1
  <2>2. CASE mode = "multi"
    BY <1>1, <2>2 DEF ReplayShard
  <2>. QED BY <1>1, <2>1, <2>2
<1>10. /\ \A x : Lookup(stores'[v].data, x, None)
                   = IF x = cmd.key THEN WriteOf(cmd).value
                     ELSE Lookup(stores[v].data, x, None)
       /\ \A u \in Workers \ {v} : stores'[u] = stores[u]
       /\ StoresFinite => StoresFinite'
  <2>1. PICK s \in {Executed(v, cmd).store, ApplyReplayRequest(stores[v], cmd, Now)} :
          stores' = [stores EXCEPT ![v] = s]
    BY <1>9
  <2>2. cmd \in Writes /\ UNCHANGED count
    BY <1>1, <1>2
  <2>. QED BY <2>1, <2>2, EffectAt
<1>11. \A k \in Keys : Home(k)' = Home(k) /\ LogOf(Home(k))' = LogOf(Home(k))
  BY <1>2 DEF Home, LogOf
<1>12. mode \in {"single", "multi"} /\ (mode = "single" => Logs = {0})
  BY LogFacts
<1>13. left'[f] = Tail(left[f]) /\ \A g \in Logs \ {f} : left'[g] = left[g]
  BY <1>1, <1>4
<1>14. Replayed(f)'
  <2>1. ASSUME NEW k \in Keys, LogOf(Home(k)) = f
        PROVE  Lookup(stores'[Home(k)].data, k, None) = Recovered(SubSeq(files[f], 1, n + 1), k)
    <3>1. Lookup(stores[Home(k)].data, k, None) = Recovered(SubSeq(files[f], 1, n), k)
      BY <1>5, <2>1
    <3>2. CASE Home(k) = v
      BY <1>7, <1>10, <3>1, <3>2
    <3>3. CASE Home(k) # v
      <4>1. mode = "single"
        BY <1>9, <1>12, <2>1, <3>3 DEF LogOf
      <4>2. k # cmd.key
        BY <1>8, <1>9, <3>3, <4>1
      <4>3. Home(k) \in Workers
        BY HomeOK
      <4>. QED BY <1>7, <1>10, <3>1, <3>3, <4>2, <4>3
    <3>. QED BY <3>2, <3>3
  <2>2. Len(files'[f]) - Len(left'[f]) = n + 1 /\ files' = files
        /\ left'[f] = SubSeq(files[f], n + 2, Len(files[f]))
    BY <1>2, <1>6, <1>13
  <2>3. (n + 1) + 1 = n + 2
    BY <1>4, LenProperties
  <2>. HIDE DEF n
  <2>. QED BY <1>11, <2>1, <2>2, <2>3 DEF Replayed
<1>15. ASSUME NEW k \in Keys, LogOf(Home(k)) # f
       PROVE  stores'[Home(k)] = stores[Home(k)]
  <2>1. Home(k) \in Workers /\ LogOf(Home(k)) \in Logs
    BY HomeOK
  <2>2. mode = "multi" /\ v = f
    BY <1>9, <1>12, <1>15, <2>1
  <2>3. Home(k) # v
    BY <1>15, <2>1, <2>2, HomeOK
  <2>. QED BY <1>10, <2>1, <2>3
<1>16. ASSUME NEW g \in Logs, left[g] # <<>>, g # f PROVE Replayed(g)'
  <2>1. Replayed(g)
    BY <1>2, <1>16 DEF Replaying
  <2>2. \A k \in Keys : LogOf(Home(k)) = g => stores'[Home(k)] = stores[Home(k)]
    BY <1>15, <1>16
  <2>3. left'[g] = left[g] /\ files' = files
    BY <1>2, <1>13, <1>16
  <2>. QED BY <1>11, <2>1, <2>2, <2>3 DEF Replayed
<1>. QED BY <1>1, <1>10, <1>13, <1>14, <1>15, <1>16
-----------------------------------------------------------------------------
(* What clients read, and what is durable, before and after a step. *)

SeenOf    == [k \in Keys |-> SeenAt(k)]
DurableOf == [k \in Keys |-> DurableAt(k)]

\* What clients read, what is durable and what is held back, as maps and writes.
LEMMA AreMaps ==
  /\ Seen = MapOf(SeenOf) /\ Durable = MapOf(DurableOf) /\ Doubtful = WritesOf(buffer)
  /\ Seen' = MapOf(SeenOf') /\ Durable' = MapOf(DurableOf') /\ Doubtful' = WritesOf(buffer')
BY DEF Seen, SeenOf, Durable, DurableOf, MapOf, Doubtful, WritesOf

\* Nothing becomes durable, or some writes do.
LEMMA DurableGrows ==
  ASSUME TypeOK, UNCHANGED <<mode, hash, count>>, NEW f \in Logs, NEW more \in Seq(Pieces),
         files' = [files EXCEPT ![f] = @ \o more],
         \A i \in DOMAIN more : LogOf(Home(more[i].record.cmd.key)) = f
  PROVE  Durable' = Abstract!Written(Durable, WritesOf(more))
<1>1. /\ DOMAIN files = Logs /\ \A g \in Logs : files[g] \in Seq(Pieces)
  BY TypeParts DEF LogsOK
<1>2. /\ DOMAIN WritesOf(more) = DOMAIN more
      /\ \A i \in DOMAIN more : WritesOf(more)[i].key = more[i].record.cmd.key
  BY WritesOfFacts
<1>3. \A k \in Keys : LogOf(Home(k)) \in Logs
  BY HomeOK
<1>4. \A k : Home(k)' = Home(k) /\ LogOf(Home(k))' = LogOf(Home(k))
  BY DEF Home, LogOf
<1>5. files'[f] = files[f] \o more /\ \A g \in Logs \ {f} : files'[g] = files[g]
  BY <1>1
<1>6. ASSUME NEW k \in Keys
      PROVE  DurableOf'[k] = LastWrite(WritesOf(more), k, DurableOf[k])
  <2>1. DurableOf[k] = Recovered(files[LogOf(Home(k))], k)
        /\ DurableOf'[k] = Recovered(files'[LogOf(Home(k))], k)
    BY <1>4 DEF DurableOf, DurableAt
  <2>2. CASE LogOf(Home(k)) = f
    BY <1>1, <1>5, <2>1, <2>2, RecoveredConcat
  <2>3. CASE LogOf(Home(k)) # f
    <3>1. {i \in DOMAIN WritesOf(more) : WritesOf(more)[i].key = k} = {}
      BY <1>2, <2>3
    <3>2. LastWrite(WritesOf(more), k, DurableOf[k]) = DurableOf[k]
      BY <3>1 DEF LastWrite
    <3>. QED BY <1>3, <1>5, <2>1, <2>3, <3>2
  <2>. QED BY <2>2, <2>3
<1>. QED BY <1>6, AreMaps, WrittenMap

\* No log is written.
LEMMA DurableStays ==
  ASSUME UNCHANGED <<mode, hash, count, files>>
  PROVE  Durable' = Durable
BY DEF Durable, DurableAt, Home, LogOf

\* Records are written where their keys are at home.
LEMMA UnwrittenHome ==
  ASSUME TypeOK, NEW cmd \in Writes, NEW f, f = LogOf(Home(cmd.key))
  PROVE  /\ f \in Logs /\ Unwritten(f, cmd) \in Seq(Pieces)
         /\ \A i \in DOMAIN Unwritten(f, cmd) :
              LogOf(Home(Unwritten(f, cmd)[i].record.cmd.key)) = f
         /\ WritesOf(Unwritten(f, cmd)) = Append(Doubtful, WriteOf(cmd))
<1>. DEFINE p   == Piece([seq |-> next[f], cmd |-> cmd], "whole")
            all == Unwritten(f, cmd)
<1>1. cmd.key \in Keys /\ f \in Logs
  BY HomeOK DEF Writes
<1>2. p \in Pieces /\ all \in Seq(Pieces) /\ all = Append(buffer, p)
  BY <1>1, UnwrittenOK DEF Unwritten
<1>3. p.record.cmd = cmd
  BY DEF Piece
<1>4. buffer \in Seq(Pieces) /\ (mode = "multi" => buffer = <<>>)
      /\ mode \in {"single", "multi"}
  BY TypeParts, LogFacts DEF LogsOK
<1>. HIDE DEF p, all
<1>5. /\ Len(all) = Len(buffer) + 1 /\ all[Len(buffer) + 1] = p
      /\ DOMAIN all = 1 .. Len(all) /\ Len(buffer) \in Nat
      /\ \A i \in DOMAIN all : all[i] \in Pieces
  BY <1>2, <1>4, AppendProperties, LenProperties, ElementOfSeq
<1>6. CASE mode = "single"
  <2>1. \A i \in DOMAIN all : all[i].record.cmd.key \in Keys
    BY <1>5 DEF Pieces, Writes
  <2>2. \A k \in Keys : LogOf(Home(k)) = f
    BY <1>1, <1>6, HomeOK
  <2>3. \A i \in DOMAIN all : LogOf(Home(all[i].record.cmd.key)) = f
    BY <2>1, <2>2
  <2>. QED BY <1>1, <1>2, <1>3, <1>4, <2>3, AreMaps, WritesOfParts DEF all
<1>7. CASE mode = "multi"
  <2>1. Len(buffer) = 0
    BY <1>4, <1>7, EmptySeq
  <2>2. \A i \in DOMAIN all : all[i] = p
    BY <1>5, <2>1
  <2>3. \A i \in DOMAIN all : LogOf(Home(all[i].record.cmd.key)) = f
    BY <1>3, <2>2
  <2>. QED BY <1>1, <1>2, <1>3, <1>4, <2>3, AreMaps, WritesOfParts DEF all
<1>. QED BY <1>4, <1>6, <1>7

\* A write that is logged, with all that were held back before it.
LEMMA AppendPersists ==
  ASSUME TypeOK, UNCHANGED <<mode, hash, count>>, NEW cmd \in Writes, NEW f,
         f = LogOf(Home(cmd.key)), AppendRequest(f, cmd)
  PROVE  LET writes == Append(Doubtful, WriteOf(cmd))
         IN  Abstract!Persist(writes, Len(writes))
<1>. DEFINE all    == Unwritten(f, cmd)
            writes == Append(Doubtful, WriteOf(cmd))
            R      == [key : Keys, value : Values \cup {None}]
<1>1. /\ f \in Logs /\ all \in Seq(Pieces) /\ WritesOf(all) = writes
      /\ \A i \in DOMAIN all : LogOf(Home(all[i].record.cmd.key)) = f
  BY UnwrittenHome
<1>2. writes \in Seq(R)
  BY <1>1, WritesOfFacts
<1>3. files' = [files EXCEPT ![f] = @ \o all] /\ buffer' = <<>>
  BY DEF AppendRequest
<1>. HIDE DEF all, writes, R
<1>4. SubSeq(writes, 1, Len(writes)) = writes
      /\ SubSeq(writes, Len(writes) + 1, Len(writes)) = <<>>
  <2>1. Len(writes) \in Nat
    BY <1>2, LenProperties
  <2>2. Len(writes) + 1 \in Int /\ Len(writes) \in Int /\ Len(writes) + 1 > Len(writes)
    BY <2>1
  <2>3. SubSeq(writes, Len(writes) + 1, Len(writes)) = <<>>
    BY <2>2, SubSeqEmpty
  <2>. QED BY <1>2, <2>3, SubSeqFull
<1>5. Durable' = Abstract!Written(Durable, writes)
  BY <1>1, <1>3, DurableGrows
<1>6. Doubtful' = <<>>
  <2>1. WritesOf(<<>>) = <<>>
    BY DEF WritesOf
  <2>. QED BY <1>3, <2>1, AreMaps
<1>. QED BY <1>4, <1>5, <1>6 DEF Abstract!Persist, writes

\* A write that is refused because of the log.
LEMMA FailPersists ==
  ASSUME TypeOK, UNCHANGED <<mode, hash, count>>, NEW cmd \in Writes,
         mode = "single", AppendFails(cmd)
  PROVE  LET writes == Append(Doubtful, WriteOf(cmd))
         IN  \E n \in 0 .. Len(writes) : Abstract!Persist(writes, n)
<1>. DEFINE all    == Unwritten(0, cmd)
            writes == Append(Doubtful, WriteOf(cmd))
<1>1. cmd.key \in Keys /\ LogOf(Home(cmd.key)) = 0
  BY HomeOK DEF Writes
<1>2. /\ 0 \in Logs /\ all \in Seq(Pieces) /\ WritesOf(all) = writes
      /\ \A i \in DOMAIN all : LogOf(Home(all[i].record.cmd.key)) = 0
  BY <1>1, UnwrittenHome
<1>3. PICK n \in 0 .. Len(all) :
         /\ files' = [files EXCEPT ![0] = @ \o SubSeq(all, 1, n)]
         /\ buffer' = SubSeq(all, n + 1, Len(all))
  BY DEF AppendFails
<1>. HIDE DEF all, writes
<1>4. Len(writes) = Len(all) /\ Len(all) \in Nat /\ n \in Nat /\ n <= Len(all)
  BY <1>2, WritesOfFacts, LenProperties
<1>5. /\ SubSeq(all, 1, n) \in Seq(Pieces)
      /\ WritesOf(SubSeq(all, 1, n)) = SubSeq(writes, 1, n)
      /\ WritesOf(SubSeq(all, n + 1, Len(all))) = SubSeq(writes, n + 1, Len(all))
  <2>1. SubSeq(all, 1, n) \in Seq(Pieces)
    BY <1>2, Divided
  <2>2. /\ 1 \in 1 .. Len(all) + 1 /\ n \in 0 .. Len(all) /\ 1 <= n + 1
        /\ n + 1 \in 1 .. Len(all) + 1 /\ Len(all) \in 0 .. Len(all) /\ n + 1 <= Len(all) + 1
    BY <1>4
  <2>. QED BY <1>2, <2>1, <2>2, WritesOfParts
<1>6. \A i \in DOMAIN SubSeq(all, 1, n) :
        LogOf(Home(SubSeq(all, 1, n)[i].record.cmd.key)) = 0
  <2>1. \A p \in Pieces : p.record.cmd.key \in Keys
    BY DEF Pieces, Writes
  <2>2. \A i \in DOMAIN SubSeq(all, 1, n) : SubSeq(all, 1, n)[i] \in Pieces
    BY <1>5, LenProperties, ElementOfSeq
  <2>. QED BY <2>1, <2>2, HomeOK
<1>7. Durable' = Abstract!Written(Durable, SubSeq(writes, 1, n))
  BY <1>2, <1>3, <1>5, <1>6, DurableGrows
<1>8. Doubtful' = SubSeq(writes, n + 1, Len(writes))
  BY <1>3, <1>4, <1>5, AreMaps
<1>9. Abstract!Persist(writes, n)
  BY <1>7, <1>8 DEF Abstract!Persist
<1>. QED BY <1>4, <1>9 DEF writes
-----------------------------------------------------------------------------
(* What a request does. *)

\* A request that is answered with a response; the log takes part or not.
Served(words, cmd, w, done, response) ==
  /\ cmd = ParseCommand(words) /\ Asked(cmd)
  /\ w = RouteRequest(hash, cmd, count) /\ w \in Workers
  /\ up /\ left[LogOf(w)] = <<>> /\ UNCHANGED <<mode, hash, count, up, left>>
  /\ done = ExecuteCommand(stores[w], cmd, Now)
  /\ stores' = [stores EXCEPT ![w] = done.store]
  /\ \/ /\ ~ IsWrite(cmd, done) /\ UNCHANGED <<files, buffer>>
        /\ response = Relayed(Response(cmd, done))
     \/ /\ IsWrite(cmd, done) /\ cmd \in Writes /\ AppendRequest(LogOf(w), cmd)
        /\ response = Relayed(Response(cmd, done))
     \/ /\ IsWrite(cmd, done) /\ cmd \in Writes /\ AppendFails(cmd) /\ mode = "single"
        /\ response = Error("PERSISTENCE_ERROR")
  /\ exchange' = [line |-> words, lines |-> SerializeResponse(response)]

\* Every request that is dispatched is served.
LEMMA DispatchServes ==
  ASSUME TypeOK, NEW words \in Lines, Dispatch(words)
  PROVE  \E cmd, w, done, response : Served(words, cmd, w, done, response)
<1>. DEFINE cmd  == ParseCommand(words)
            w    == RouteRequest(hash, cmd, count)
            done == Executed(w, cmd)
            res  == Relayed(Response(cmd, done))
<1>1. Asked(cmd) /\ w \in Workers /\ up
  BY DispatchLogs
<1>2. /\ left[LogOf(w)] = <<>>
      /\ stores' = [stores EXCEPT ![w] = done.store]
      /\ UNCHANGED <<mode, hash, count, up, left>>
      /\ \/ /\ ~ IsWrite(cmd, done)
            /\ exchange' = [line |-> words, lines |-> SerializeResponse(res)]
            /\ UNCHANGED <<files, buffer>>
         \/ /\ IsWrite(cmd, done) /\ AppendRequest(LogOf(w), cmd)
            /\ exchange' = [line |-> words, lines |-> SerializeResponse(res)]
         \/ /\ mode = "single" /\ IsWrite(cmd, done) /\ AppendFails(cmd)
            /\ exchange' = [line |-> words,
                            lines |-> SerializeResponse(Error("PERSISTENCE_ERROR"))]
  BY DEF Dispatch, config, logs, Exchange, IsPersistedWrite
<1>3. IsWrite(cmd, done) => cmd \in Writes
  BY <1>1, PersistedWrite DEF IsPersistedWrite
<1>4. done = ExecuteCommand(stores[w], cmd, Now)
  BY DEF Executed
<1>. HIDE DEF cmd, w, done, res
<1>5. cmd = ParseCommand(words) /\ w = RouteRequest(hash, cmd, count)
      /\ res = Relayed(Response(cmd, done))
  BY DEF cmd, w, res
<1>6. \/ Served(words, cmd, w, done, res)
      \/ Served(words, cmd, w, done, Error("PERSISTENCE_ERROR"))
  BY <1>1, <1>2, <1>3, <1>4, <1>5 DEF Served
<1>. QED BY <1>6

\* The worker's keys are seen as its store has them, the others as before.
LEMMA SeenAfter ==
  ASSUME TypeOK, NEW words, NEW cmd, NEW w, NEW done, NEW response,
         Served(words, cmd, w, done, response), NEW k \in Keys
  PROVE  /\ SeenOf'[k] = IF Home(k) = w THEN Lookup(done.store.data, k, None) ELSE SeenOf[k]
         /\ Home(k) = w => SeenOf[k] = Lookup(stores[w].data, k, None)
<1>1. /\ up /\ left[LogOf(w)] = <<>> /\ UNCHANGED <<mode, hash, count, up, left>>
      /\ w \in Workers /\ stores' = [stores EXCEPT ![w] = done.store]
  BY DEF Served
<1>2. Home(k)' = Home(k) /\ LogOf(Home(k))' = LogOf(Home(k)) /\ Home(k) \in Workers
  BY <1>1, HomeOK DEF Home, LogOf
<1>3. /\ SeenOf[k] = IF up /\ left[LogOf(Home(k))] = <<>>
                     THEN Lookup(stores[Home(k)].data, k, None)
                     ELSE Recovered(files[LogOf(Home(k))], k)
      /\ SeenOf'[k] = IF up /\ left[LogOf(Home(k))] = <<>>
                      THEN Lookup(stores'[Home(k)].data, k, None)
                      ELSE Recovered(files'[LogOf(Home(k))], k)
  BY <1>1, <1>2 DEF SeenOf, SeenAt, DurableAt
<1>4. DOMAIN stores = Workers /\ DOMAIN files = Logs /\ mode \in {"single", "multi"}
  BY TypeParts, LogFacts DEF StoresOK, LogsOK
<1>5. stores'[w] = done.store /\ \A v \in Workers \ {w} : stores'[v] = stores[v]
  BY <1>1, <1>4
<1>6. CASE Home(k) = w
  BY <1>1, <1>3, <1>5, <1>6
<1>7. CASE Home(k) # w
  <2>1. stores'[Home(k)] = stores[Home(k)]
    BY <1>2, <1>5, <1>7
  <2>2. ASSUME left[LogOf(Home(k))] # <<>>
        PROVE  files'[LogOf(Home(k))] = files[LogOf(Home(k))]
    <3>1. mode = "multi"
      BY <1>1, <1>4, <2>2, HomeOK DEF LogOf
    <3>2. LogOf(w) # LogOf(Home(k)) /\ LogOf(Home(k)) \in Logs
      BY <1>1, <1>2, <1>7, <3>1, HomeOK
    <3>3. UNCHANGED files \/ AppendRequest(LogOf(w), cmd)
      BY <3>1 DEF Served
    <3>4. CASE AppendRequest(LogOf(w), cmd)
      <4>. DEFINE f == LogOf(w)
                  g == LogOf(Home(k))
                  more == Unwritten(f, cmd)
      <4>1. files' = [files EXCEPT ![f] = @ \o more]
        BY <3>4 DEF AppendRequest
      <4>. HIDE DEF f, g, more
      <4>2. g \in Logs /\ f # g
        BY <3>2 DEF f, g
      <4>3. files'[g] = files[g]
        BY ONLY <1>4, <4>1, <4>2
      <4>. QED BY <4>3 DEF g
    <3>. QED BY <3>3, <3>4
  <2>3. SeenOf'[k] = SeenOf[k]
    <3>1. CASE left[LogOf(Home(k))] = <<>>
      <4>1. /\ SeenOf[k] = Lookup(stores[Home(k)].data, k, None)
            /\ SeenOf'[k] = Lookup(stores'[Home(k)].data, k, None)
        BY <1>1, <1>3, <3>1
      <4>. QED BY <2>1, <4>1
    <3>2. CASE left[LogOf(Home(k))] # <<>>
      <4>1. /\ SeenOf[k] = Recovered(files[LogOf(Home(k))], k)
            /\ SeenOf'[k] = Recovered(files'[LogOf(Home(k))], k)
        BY <1>3, <3>2
      <4>. QED BY <2>2, <3>2, <4>1
    <3>. QED BY <3>1, <3>2
  <2>. QED BY <1>7, <2>3
<1>. QED BY <1>6, <1>7

\* A command that is executed and leaves the data of its worker.
LEMMA ReadStays ==
  ASSUME TypeOK, NEW words, NEW cmd, NEW w, NEW done, NEW response,
         Served(words, cmd, w, done, response),
         ~ IsWrite(cmd, done), done.store.data = stores[w].data
  PROVE  UNCHANGED <<Seen, Durable, Doubtful>>
<1>1. UNCHANGED <<mode, hash, count, files, buffer>>
  BY DEF Served
<1>2. Durable' = Durable /\ Doubtful' = Doubtful
  BY <1>1, DurableStays, AreMaps
<1>3. \A k \in Keys : SeenOf'[k] = SeenOf[k]
  BY SeenAfter
<1>4. MapOf(SeenOf') = MapOf(SeenOf)
  BY <1>3 DEF MapOf
<1>. QED BY <1>2, <1>4, AreMaps

\* A write that is logged, or refused because of the log.
LEMMA WriteChanges ==
  ASSUME TypeOK, NEW words, NEW cmd, NEW w, NEW done, NEW response,
         Served(words, cmd, w, done, response), cmd \in Writes, IsWrite(cmd, done)
  PROVE  LET writes == Append(Doubtful, WriteOf(cmd))
         IN  /\ Seen' = Abstract!Written(Seen, <<WriteOf(cmd)>>)
             /\ \/ /\ response = Relayed(Response(cmd, done))
                   /\ Abstract!Persist(writes, Len(writes))
                \/ /\ response = Error("PERSISTENCE_ERROR")
                   /\ \E n \in 0 .. Len(writes) : Abstract!Persist(writes, n)
<1>1. /\ w = Home(cmd.key) /\ w \in Workers /\ cmd.key \in Keys
      /\ done = ExecuteCommand(stores[w], cmd, Now)
      /\ UNCHANGED <<mode, hash, count>>
  <2>1. cmd.key \in Keys /\ cmd.op \in {"SET", "DEL", "EXPIRE"}
    BY DEF Writes
  <2>2. w = RouteRequest(hash, cmd, count) /\ w \in Workers
        /\ done = ExecuteCommand(stores[w], cmd, Now) /\ UNCHANGED <<mode, hash, count>>
    BY DEF Served
  <2>. QED BY <2>1, <2>2, HomeOK
<1>2. Fits(stores[w], Keys)
  BY <1>1, StoresFit
<1>3. \A x : Lookup(done.store.data, x, None)
               = IF x = cmd.key THEN WriteOf(cmd).value
                 ELSE Lookup(stores[w].data, x, None)
  <2>. DEFINE d == stores[w].data
  <2>1. done.store.data = IF cmd.op = "SET" THEN Put(d, cmd.key, cmd.arg)
                          ELSE Drop(d, {cmd.key})
    BY <1>1, <1>2, WriteExecuted
  <2>. HIDE DEF d
  <2>2. \A x : Lookup(done.store.data, x, None)
                 = IF x = cmd.key THEN WriteOf(cmd).value ELSE Lookup(d, x, None)
    BY <2>1, WriteAt
  <2>. QED BY <2>2 DEF d
<1>4. ASSUME NEW k \in Keys
      PROVE  SeenOf'[k] = LastWrite(<<WriteOf(cmd)>>, k, SeenOf[k])
  <2>1. SeenOf'[k] = IF k = cmd.key THEN WriteOf(cmd).value ELSE SeenOf[k]
    BY <1>1, <1>3, SeenAfter
  <2>2. WriteOf(cmd).key = cmd.key
    BY DEF WriteOf
  <2>. QED BY <2>1, <2>2, LastWriteOne
<1>5. Seen' = Abstract!Written(Seen, <<WriteOf(cmd)>>)
  BY <1>4, AreMaps, WrittenMap
<1>6. \/ /\ response = Relayed(Response(cmd, done)) /\ AppendRequest(LogOf(w), cmd)
      \/ /\ response = Error("PERSISTENCE_ERROR") /\ AppendFails(cmd) /\ mode = "single"
  BY DEF Served
<1>. QED BY <1>1, <1>5, <1>6, AppendPersists, FailPersists
-----------------------------------------------------------------------------
(* What a client reads of an answer. *)

\* The responses of the server and those of the map are the same.
LEMMA SameResponses ==
  /\ \A x : /\ Abstract!Simple(x) = Simple(x) /\ Abstract!Bulk(x) = Bulk(x)
            /\ Abstract!Integer(x) = Integer(x) /\ Abstract!Array(x) = Array(x)
            /\ Abstract!Error(x) = Error(x)
  /\ Abstract!Null = Null
BY DEF Simple, Bulk, Integer, Array, Error, Null, Abstract!Simple, Abstract!Bulk,
       Abstract!Integer, Abstract!Array, Abstract!Error, Abstract!Null

\* What is serialized reads as what was to be said.
LEMMA ReadSimple == \A x : ReadAnswer(SerializeResponse(Simple(x))) = Simple(x)
<1>. TAKE x
<1>1. SerializeResponse(Simple(x)) = <<<<"+", x>>>>
  BY DEF SerializeResponse, Simple
<1>. QED BY <1>1 DEF ReadAnswer

LEMMA ReadInteger == \A x : ReadAnswer(SerializeResponse(Integer(x))) = Integer(x)
<1>. TAKE x
<1>1. SerializeResponse(Integer(x)) = <<<<":", x>>>>
  BY DEF SerializeResponse, Integer
<1>. QED BY <1>1 DEF ReadAnswer

LEMMA ReadError == \A x : ReadAnswer(SerializeResponse(Error(x))) = Error(x)
<1>. TAKE x
<1>1. SerializeResponse(Error(x)) = <<<<"-ERR", x>>>>
  BY DEF SerializeResponse, Error
<1>. QED BY <1>1 DEF ReadAnswer

LEMMA ReadNull == ReadAnswer(SerializeResponse(Null)) = Null
<1>1. SerializeResponse(Null) = <<<<"$", <<NullWord>>>>>>
  BY DEF SerializeResponse, Null, BulkLine
<1>. QED BY <1>1 DEF ReadAnswer, BulkValue

\* What a client hears of a bulk string.
LEMMA HeardLine == \A v : BulkValue(BulkLine(v)) = Abstract!Heard(v)
BY DEF BulkValue, BulkLine, Abstract!Heard

\* Bulk strings and arrays.
LEMMA ReadBulk ==
  ASSUME NEW v, v # None
  PROVE  ReadAnswer(SerializeResponse(Bulk(v)))
           = IF Abstract!Heard(v) = None THEN Null ELSE Bulk(Abstract!Heard(v))
<1>1. SerializeResponse(Bulk(v)) = <<<<"$", v>>>>
  BY DEF SerializeResponse, Bulk, BulkLine
<1>. QED BY <1>1 DEF ReadAnswer, BulkValue, Abstract!Heard

LEMMA ReadArray ==
  ASSUME NEW n \in Nat, NEW values, DOMAIN values = 1 .. n,
         values = [i \in 1 .. n |-> values[i]]
  PROVE  ReadAnswer(SerializeResponse(Array(values)))
           = Array([i \in 1 .. n |-> Abstract!Heard(values[i])])
<1>. DEFINE head  == <<<<"*", n>>>>
            rest  == [i \in 1 .. n |-> BulkLine(values[i])]
            S     == {<<"*", n>>} \cup {BulkLine(values[i]) : i \in 1 .. n}
            lines == SerializeResponse(Array(values))
<1>1. values \in Seq({values[i] : i \in 1 .. n}) /\ Len(values) = n
  <2>1. values \in Seq({values[i] : i \in 1 .. n})
    OBVIOUS
  <2>. QED BY <2>1, LenProperties
<1>2. lines = head \o rest
  <2>1. lines = <<<<"*", Len(values)>>>> \o [i \in DOMAIN values |-> BulkLine(values[i])]
    BY DEF SerializeResponse, Array
  <2>. QED BY <1>1, <2>1
<1>3. /\ head \in Seq(S) /\ Len(head) = 1 /\ head[1] = <<"*", n>>
  OBVIOUS
<1>4. /\ rest \in Seq(S) /\ Len(rest) = n
      /\ \A i \in 1 .. n : rest[i] = BulkLine(values[i])
  <2>1. rest \in Seq(S)
    OBVIOUS
  <2>. QED BY <2>1, LenProperties
<1>. HIDE DEF head, rest, S, lines
<1>5. /\ lines \in Seq(S) /\ Len(lines) = 1 + n /\ lines[1] = <<"*", n>>
      /\ \A i \in 1 .. n : lines[i + 1] = BulkLine(values[i])
  <2>1. /\ lines \in Seq(S) /\ Len(lines) = 1 + n
        /\ \A i \in 1 .. 1 + n : lines[i] = IF i <= 1 THEN head[i] ELSE rest[i - 1]
    <3>1. /\ head \o rest \in Seq(S) /\ Len(head \o rest) = Len(head) + Len(rest)
          /\ \A i \in 1 .. Len(head) + Len(rest) :
               (head \o rest)[i] = IF i <= Len(head) THEN head[i] ELSE rest[i - Len(head)]
      BY ONLY <1>3, <1>4, ConcatProperties
    <3>. QED BY ONLY <1>2, <1>3, <1>4, <3>1
  <2>2. \A i \in 1 .. n : i + 1 \in 1 .. 1 + n /\ ~ (i + 1 <= 1) /\ (i + 1) - 1 = i
    OBVIOUS
  <2>3. lines[1] = <<"*", n>>
    BY <1>3, <2>1
  <2>4. ASSUME NEW i \in 1 .. n PROVE lines[i + 1] = BulkLine(values[i])
    BY <1>4, <2>1, <2>2
  <2>. QED BY <2>1, <2>3, <2>4
<1>6. lines # <<>>
  BY <1>5, EmptySeq
<1>7. \A i \in 1 .. n : BulkValue(lines[i + 1]) = Abstract!Heard(values[i])
  BY <1>5, HeardLine
<1>8. [i \in 1 .. n |-> BulkValue(lines[i + 1])] = [i \in 1 .. n |-> Abstract!Heard(values[i])]
  BY <1>7
<1>9. ReadAnswer(lines) = Array([i \in 1 .. n |-> BulkValue(lines[i + 1])])
  BY <1>5, <1>6 DEF ReadAnswer
<1>. QED BY <1>8, <1>9 DEF lines

LEMMA ReadNone == ReadAnswer(SerializeResponse(Array(<<>>))) = Array(<<>>)
<1>1. 0 \in Nat /\ DOMAIN <<>> = 1 .. 0 /\ <<>> = [i \in 1 .. 0 |-> <<>>[i]]
  OBVIOUS
<1>2. [i \in 1 .. 0 |-> Abstract!Heard(<<>>[i])] = <<>>
  OBVIOUS
<1>. QED BY <1>1, <1>2, ReadArray
-----------------------------------------------------------------------------
(* Every line does to the map what it should. *)

\* The answer to a line that changes nothing.
LEMMA Answered ==
  ASSUME NEW words, NEW lines, exchange' = [line |-> words, lines |-> lines],
         UNCHANGED <<Seen, Durable, Doubtful>>
  PROVE  (exchange.line)' = words /\ Abstract!Answer(ReadAnswer(lines))
<1>1. exchange'.lines = lines /\ exchange'.line = words
  OBVIOUS
<1>2. ReadAnswer(exchange.lines)' = ReadAnswer(lines)
  BY <1>1
<1>. QED BY <1>1, <1>2 DEF Abstract!Answer

\* What the map has at the key of a request is what the worker's store has.
LEMMA ServedAt ==
  ASSUME TypeOK, NEW words, NEW cmd, NEW w, NEW done, NEW response,
         Served(words, cmd, w, done, response),
         cmd.op \in {"SET", "GET", "DEL", "EXPIRE", "TTL"}
  PROVE  /\ cmd.key \in Keys
         /\ Abstract!At(cmd.key) = Lookup(stores[w].data, cmd.key, None)
         /\ Abstract!At(cmd.key) # None <=> cmd.key \in DOMAIN stores[w].data
         /\ Abstract!At(cmd.key) \in Values \cup {None}
<1>. DEFINE k == cmd.key
<1>1. k \in Keys /\ w \in Workers /\ Home(k) = w
  BY HomeOK DEF Served, Asked, IsCommand
<1>2. SeenOf[k] = Lookup(stores[w].data, k, None)
  BY <1>1, SeenAfter
<1>3. Abstract!At(k) = SeenOf[k]
  BY <1>1, AreMaps DEF Abstract!At, MapOf
<1>4. \A x \in DOMAIN stores[w].data : stores[w].data[x] \in Values
  BY <1>1, StoresFit, StoreParts DEF Fits
<1>. HIDE DEF k
<1>5. k \in DOMAIN stores[w].data => stores[w].data[k] \in Values
  BY <1>4
<1>6. Abstract!At(k) = IF k \in DOMAIN stores[w].data THEN stores[w].data[k] ELSE None
  BY <1>2, <1>3 DEF Lookup
<1>7. None \notin Values
  BY ValuesAssumption
<1>. QED BY <1>1, <1>2, <1>3, <1>5, <1>6, <1>7 DEF k

\* The first worker's store has the part of the map that is at home there.
LEMMA FirstStore ==
  ASSUME TypeOK, KeysStayHome, NEW words, NEW cmd, NEW w, NEW done, NEW response,
         Served(words, cmd, w, done, response),
         cmd.op \in {"PING", "MGET", "KEYS", "FLUSHALL"}
  PROVE  /\ w = 0 /\ 0 \in Workers
         /\ DOMAIN stores[0].data = DOMAIN Seen \cap FirstKeys
         /\ \A k \in Keys : Lookup(stores[0].data, k, None)
                              = IF k \in FirstKeys THEN Abstract!At(k) ELSE None
<1>1. w = 0 /\ w \in Workers
  BY HomeOK DEF Served
<1>2. Fits(stores[0], Keys)
  BY <1>1, StoresFit
<1>3. /\ DOMAIN stores[0].data \subseteq Keys
      /\ \A k \in DOMAIN stores[0].data : stores[0].data[k] # None
  BY <1>2, StoreParts, ValuesAssumption DEF Fits
<1>4. \A k \in DOMAIN stores[0].data : Home(k) = 0
  BY <1>1 DEF KeysStayHome, Home
<1>5. \A k \in Keys : Home(k) = 0 => SeenOf[k] = Lookup(stores[0].data, k, None)
  BY <1>1, SeenAfter
<1>6. DOMAIN Seen = {k \in Keys : SeenOf[k] # None}
      /\ \A k \in Keys : Abstract!At(k) = SeenOf[k]
  BY AreMaps DEF MapOf, Abstract!At
<1>. QED BY <1>1, <1>3, <1>4, <1>5, <1>6 DEF FirstKeys, Lookup

\* Only arrays are lost on the way from a worker process.
LEMMA RelayedSame ==
  \A x : /\ Relayed(Simple(x)) = Simple(x) /\ Relayed(Integer(x)) = Integer(x)
         /\ Relayed(Bulk(x)) = Bulk(x) /\ Relayed(Null) = Null /\ Relayed(Error(x)) = Error(x)
         /\ Relayed(Array(x)) = IF mode = "multi" THEN Array(<<>>) ELSE Array(x)
BY DEF Relayed, Simple, Integer, Bulk, Null, Error, Array

\* A write and its answer.
LEMMA Changed ==
  ASSUME TypeOK, NEW words, NEW cmd, NEW w, NEW done, NEW response,
         Served(words, cmd, w, done, response), cmd \in Writes, IsWrite(cmd, done),
         NEW good, Relayed(Response(cmd, done)) = good,
         ReadAnswer(SerializeResponse(good)) = good
  PROVE  (exchange.line)' = words /\ Abstract!Change(WriteOf(cmd), good)
<1>. DEFINE W == Append(Doubtful, WriteOf(cmd))
<1>1. /\ Seen' = Abstract!Written(Seen, <<WriteOf(cmd)>>)
      /\ \/ response = good /\ Abstract!Persist(W, Len(W))
         \/ /\ response = Error("PERSISTENCE_ERROR")
            /\ \E n \in 0 .. Len(W) : Abstract!Persist(W, n)
  BY WriteChanges
<1>2. exchange' = [line |-> words, lines |-> SerializeResponse(response)]
  BY DEF Served
<1>3. ReadAnswer(SerializeResponse(response)) = response
  BY <1>1, ReadError
<1>4. exchange'.lines = SerializeResponse(response) /\ exchange'.line = words
  BY <1>2
<1>5. ReadAnswer(exchange.lines)' = response
  BY <1>3, <1>4
<1>. HIDE DEF W
<1>6. \/ ReadAnswer(exchange.lines)' = good /\ Abstract!Persist(W, Len(W))
      \/ /\ ReadAnswer(exchange.lines)' = Abstract!Error("PERSISTENCE_ERROR")
         /\ \E n \in 0 .. Len(W) : Abstract!Persist(W, n)
  BY <1>1, <1>5, SameResponses
<1>. QED BY <1>1, <1>4, <1>6 DEF Abstract!Change, W

\* The writes of the map that commands are.
LEMMA WriteIs == \A k, v : /\ WriteOf(Command("SET", k, v)) = Abstract!Write(k, v)
                           /\ WriteOf(Command("DEL", k, v)) = Abstract!Write(k, None)
                           /\ WriteOf(Command("EXPIRE", k, v)) = Abstract!Write(k, None)
BY DEF WriteOf, Command, Abstract!Write

\* SET, DEL and EXPIRE are writes of the map.
LEMMA SetMaps ==
  ASSUME TypeOK, NEW k \in Keys, NEW v \in Values, NEW w, NEW done, NEW response,
         NEW words, words = <<"SET", k>> \o v,
         Served(words, ParseCommand(words), w, done, response)
  PROVE  Abstract!Set(k, v)
<1>. DEFINE cmd == Command("SET", k, v)
<1>1. ParseCommand(words) = cmd
  <2>1. words[1] = "SET" /\ SplitCommand(words) = <<k, v>>
    BY SetWords
  <2>2. RequestOf("SET", <<k, v>>) = cmd
    BY DEF RequestOf
  <2>. QED BY <2>1, <2>2 DEF ParseCommand
<1>2. cmd \in Writes /\ cmd.op = "SET"
  BY DEF Command, Writes
<1>. HIDE DEF cmd
<1>3. w \in Workers /\ done = ExecuteCommand(stores[w], cmd, Now)
  BY <1>1 DEF Served
<1>4. ~ done.error
  BY <1>2, <1>3, StoresFit, WriteExecuted
<1>5. IsWrite(cmd, done) /\ Response(cmd, done) = Simple("OK")
  BY <1>2, <1>4 DEF IsWrite, Response
<1>6. (exchange.line)' = words /\ Abstract!Change(WriteOf(cmd), Simple("OK"))
  BY <1>1, <1>2, <1>5, RelayedSame, ReadSimple, Changed
<1>. QED BY <1>6, WriteIs, SameResponses DEF Abstract!Set, cmd

LEMMA DelMaps ==
  ASSUME TypeOK, NEW k \in Keys, NEW w, NEW done, NEW response,
         Served(<<"DEL", k>>, ParseCommand(<<"DEL", k>>), w, done, response)
  PROVE  Abstract!Del(k)
<1>. DEFINE cmd == Command("DEL", k, None)
            n   == IF Abstract!At(k) = None THEN 0 ELSE 1
<1>1. ParseCommand(<<"DEL", k>>) = cmd
  BY DEF ParseCommand, RequestOf, SplitCommand
<1>2. cmd \in Writes /\ cmd.op = "DEL" /\ cmd.key = k
  BY DEF Command, Writes
<1>. HIDE DEF cmd
<1>3. w \in Workers /\ done = ExecuteCommand(stores[w], cmd, Now)
  BY <1>1 DEF Served
<1>4. ~ done.error /\ done.reply = IF cmd.key \in DOMAIN stores[w].data THEN 1 ELSE 0
  BY <1>2, <1>3, StoresFit, WriteExecuted
<1>5. Abstract!At(k) # None <=> k \in DOMAIN stores[w].data
  BY <1>1, <1>2, ServedAt
<1>6. IsWrite(cmd, done) /\ Response(cmd, done) = Integer(n)
  <2>1. done.reply = n
    BY <1>2, <1>4, <1>5
  <2>. QED BY <1>2, <1>4, <2>1 DEF IsWrite, Response
<1>. HIDE DEF n
<1>7. (exchange.line)' = <<"DEL", k>> /\ Abstract!Change(WriteOf(cmd), Integer(n))
  BY <1>1, <1>2, <1>6, RelayedSame, ReadInteger, Changed
<1>. QED BY <1>7, WriteIs, SameResponses DEF Abstract!Del, cmd, n

LEMMA ExpireMaps ==
  ASSUME TypeOK, NEW k \in Keys, NEW seconds \in Numbers, NEW w, NEW done, NEW response,
         NEW words, words = <<"EXPIRE", k, seconds>>,
         Served(words, ParseCommand(words), w, done, response)
  PROVE  Abstract!Expire(k, seconds)
<1>. DEFINE cmd == Command("EXPIRE", k, seconds)
<1>1. ParseCommand(words) = cmd
  BY DEF ParseCommand, RequestOf, SplitCommand
<1>2. cmd \in Writes /\ cmd.op = "EXPIRE" /\ cmd.key = k
  BY DEF Command, Writes
<1>. HIDE DEF cmd
<1>3. w \in Workers /\ done = ExecuteCommand(stores[w], cmd, Now)
      /\ exchange' = [line |-> words, lines |-> SerializeResponse(response)]
  BY <1>1 DEF Served
<1>4. /\ ~ done.error /\ done.reply = IF k \in DOMAIN stores[w].data THEN 1 ELSE 0
      /\ done.store.data = Drop(stores[w].data, {k})
  BY <1>2, <1>3, StoresFit, WriteExecuted
<1>5. Abstract!At(k) # None <=> k \in DOMAIN stores[w].data
  BY <1>1, <1>2, ServedAt
<1>6. Response(cmd, done) = Integer(done.reply)
  BY <1>2, <1>4 DEF Response
<1>7. CASE Abstract!At(k) = None
  <2>1. done.reply = 0 /\ k \notin DOMAIN stores[w].data
    BY <1>4, <1>5, <1>7
  <2>2. ~ IsWrite(cmd, done)
    BY <1>2, <2>1 DEF IsWrite
  <2>3. done.store.data = stores[w].data
    <3>1. IsDict(stores[w].data, Keys)
      BY <1>3, StoresFit, StoreParts DEF Fits
    <3>2. DOMAIN stores[w].data \ {k} = DOMAIN stores[w].data
      BY <2>1
    <3>. QED BY <1>4, <3>1, <3>2 DEF Drop, Restrict, IsDict
  <2>4. UNCHANGED <<Seen, Durable, Doubtful>>
    BY <1>1, <2>2, <2>3, ReadStays
  <2>5. response = Integer(0)
    BY <1>1, <1>6, <2>1, <2>2, RelayedSame DEF Served
  <2>6. (exchange.line)' = words /\ Abstract!Answer(Integer(0))
    BY <1>3, <2>4, <2>5, Answered, ReadInteger
  <2>. QED BY <1>7, <2>6, SameResponses DEF Abstract!Expire
<1>8. CASE Abstract!At(k) # None
  <2>1. done.reply = 1
    BY <1>4, <1>5, <1>8
  <2>2. IsWrite(cmd, done)
    BY <1>2, <1>4, <2>1 DEF IsWrite
  <2>3. (exchange.line)' = words /\ Abstract!Change(WriteOf(cmd), Integer(1))
    BY <1>1, <1>2, <1>6, <2>1, <2>2, RelayedSame, ReadInteger, Changed
  <2>. QED BY <1>8, <2>3, WriteIs, SameResponses DEF Abstract!Expire, cmd
<1>. QED BY <1>7, <1>8

\* A command that is not a write leaves the data, except FLUSHALL.
LEMMA ServedData ==
  ASSUME TypeOK, NEW words, NEW cmd, NEW w, NEW done, NEW response,
         Served(words, cmd, w, done, response)
  PROVE  \/ cmd \in Writes
         \/ cmd.op = "FLUSHALL" /\ done.store = NewStore
         \/ done.store.data = stores[w].data
<1>. SUFFICES ASSUME cmd \notin Writes
              PROVE  \/ cmd.op = "FLUSHALL" /\ done.store = NewStore
                     \/ done.store.data = stores[w].data
  OBVIOUS
<1>1. w \in Workers /\ done = ExecuteCommand(stores[w], cmd, Now) /\ IsCommand(cmd)
  BY DEF Served, Asked
<1>2. Fits(stores[w], Keys)
  BY <1>1, StoresFit
<1>3. cmd.op \in {"GET", "TTL", "MGET", "KEYS", "PING", "EXPIRE", "FLUSHALL"}
  BY DEF Served, Asked, IsCommand
<1>4. CASE cmd.op \in {"GET", "MGET", "KEYS"}
  <2>1. done.store = ProcessExpirations(stores[w], Now)
    BY <1>1, <1>2, <1>4, ReadExecuted
  <2>. QED BY <1>2, <2>1, ProcessKeeps
<1>5. CASE cmd.op = "TTL"
  <2>1. done.store = KeyTtl(stores[w], cmd.key, Now, Now).store
    BY <1>1, <1>2, <1>5, ReadExecuted
  <2>. QED BY <1>2, <2>1, TtlData
<1>6. CASE cmd.op \in {"PING", "FLUSHALL"}
  BY <1>1, <1>2, <1>6, ReadExecuted
<1>7. CASE cmd.op = "EXPIRE"
  <2>1. cmd.arg = None
    BY <1>7 DEF Served, Asked
  <2>. QED BY <1>1, <1>2, <1>7, <2>1, ReadExecuted
<1>. QED BY <1>3, <1>4, <1>5, <1>6, <1>7

\* A request that only reads, and its answer.
LEMMA ReadServed ==
  ASSUME TypeOK, NEW words, NEW cmd, NEW w, NEW done, NEW response,
         Served(words, cmd, w, done, response), cmd.op # "FLUSHALL", cmd \notin Writes
  PROVE  /\ (exchange.line)' = words
         /\ Abstract!Answer(ReadAnswer(SerializeResponse(Relayed(Response(cmd, done)))))
<1>1. exchange' = [line |-> words, lines |-> SerializeResponse(response)]
  BY DEF Served
<1>2. ~ IsWrite(cmd, done)
  BY DEF Served
<1>3. UNCHANGED <<Seen, Durable, Doubtful>>
  BY <1>2, ServedData, ReadStays
<1>4. response = Relayed(Response(cmd, done))
  BY <1>2 DEF Served
<1>. QED BY <1>1, <1>3, <1>4, Answered

\* GET, TTL, PING, MGET and KEYS read it.
LEMMA GetMaps ==
  ASSUME TypeOK, NEW k \in Keys, NEW w, NEW done, NEW response,
         Served(<<"GET", k>>, ParseCommand(<<"GET", k>>), w, done, response)
  PROVE  Abstract!Get(k)
<1>. DEFINE cmd == Command("GET", k, None)
            v   == Abstract!At(k)
<1>1. ParseCommand(<<"GET", k>>) = cmd
  BY DEF ParseCommand, RequestOf, SplitCommand
<1>2. cmd \notin Writes /\ cmd.op = "GET" /\ cmd.key = k
  BY DEF Command, Writes
<1>. HIDE DEF cmd
<1>3. w \in Workers /\ done = ExecuteCommand(stores[w], cmd, Now) /\ IsCommand(cmd)
  BY <1>1 DEF Served, Asked
<1>4. done.reply = Lookup(stores[w].data, k, None) /\ ~ done.error
  BY <1>2, <1>3, StoresFit, ReadExecuted
<1>5. v = Lookup(stores[w].data, k, None) /\ v \in Values \cup {None}
  BY <1>1, <1>2, ServedAt
<1>. HIDE DEF v
<1>. DEFINE good  == IF v = None THEN Null ELSE Bulk(v)
            heard == Abstract!Heard(v)
<1>6. Response(cmd, done) = good
  BY <1>2, <1>4, <1>5 DEF Response
<1>7. /\ Relayed(good) = good
      /\ ReadAnswer(SerializeResponse(good)) = IF heard = None THEN Null ELSE Bulk(heard)
  <2>1. v = None => heard = None
    BY DEF Abstract!Heard
  <2>. QED BY <2>1, RelayedSame, ReadNull, ReadBulk
<1>. HIDE DEF good, heard
<1>8. (exchange.line)' = <<"GET", k>>
      /\ Abstract!Answer(ReadAnswer(SerializeResponse(Relayed(Response(cmd, done)))))
  BY <1>1, <1>2, ReadServed
<1>9. Abstract!Answer(IF heard = None THEN Null ELSE Bulk(heard))
  BY <1>6, <1>7, <1>8
<1>. QED BY <1>8, <1>9, SameResponses DEF Abstract!Get, v, heard

LEMMA TtlMaps ==
  ASSUME TypeOK, NEW k \in Keys, NEW w, NEW done, NEW response,
         Served(<<"TTL", k>>, ParseCommand(<<"TTL", k>>), w, done, response)
  PROVE  Abstract!Ttl(k)
<1>. DEFINE cmd == Command("TTL", k, None)
            n   == IF Abstract!At(k) = None THEN -2 ELSE -1
<1>1. ParseCommand(<<"TTL", k>>) = cmd
  BY DEF ParseCommand, RequestOf, SplitCommand
<1>2. cmd \notin Writes /\ cmd.op = "TTL" /\ cmd.key = k
  BY DEF Command, Writes
<1>. HIDE DEF cmd
<1>3. w \in Workers /\ done = ExecuteCommand(stores[w], cmd, Now) /\ IsCommand(cmd)
  BY <1>1 DEF Served, Asked
<1>4. done.reply = (IF k \in DOMAIN stores[w].data THEN -1 ELSE -2) /\ ~ done.error
  BY <1>2, <1>3, StoresFit, ReadExecuted
<1>5. Abstract!At(k) # None <=> k \in DOMAIN stores[w].data
  BY <1>1, <1>2, ServedAt
<1>6. Response(cmd, done) = Integer(n)
  <2>1. done.reply = n
    BY <1>4, <1>5
  <2>. QED BY <1>2, <1>4, <2>1 DEF Response
<1>. HIDE DEF n
<1>7. (exchange.line)' = <<"TTL", k>>
      /\ Abstract!Answer(ReadAnswer(SerializeResponse(Relayed(Response(cmd, done)))))
  BY <1>1, <1>2, ReadServed
<1>8. Abstract!Answer(Integer(n))
  BY <1>6, <1>7, RelayedSame, ReadInteger
<1>. QED BY <1>7, <1>8, SameResponses DEF Abstract!Ttl, n

LEMMA PingMaps ==
  ASSUME TypeOK, NEW w, NEW done, NEW response,
         Served(<<"PING">>, ParseCommand(<<"PING">>), w, done, response)
  PROVE  Abstract!Ping
<1>. DEFINE cmd == Command("PING", None, None)
<1>1. ParseCommand(<<"PING">>) = cmd
  BY DEF ParseCommand, RequestOf, SplitCommand
<1>2. cmd \notin Writes /\ cmd.op = "PING"
  BY DEF Command, Writes
<1>. HIDE DEF cmd
<1>3. w \in Workers /\ done = ExecuteCommand(stores[w], cmd, Now) /\ IsCommand(cmd)
  BY <1>1 DEF Served, Asked
<1>4. ~ done.error
  BY <1>2, <1>3, StoresFit, ReadExecuted
<1>5. Response(cmd, done) = Simple("PONG")
  BY <1>2, <1>4 DEF Response
<1>6. (exchange.line)' = <<"PING">>
      /\ Abstract!Answer(ReadAnswer(SerializeResponse(Relayed(Response(cmd, done)))))
  BY <1>1, <1>2, ReadServed
<1>7. Abstract!Answer(Simple("PONG"))
  BY <1>5, <1>6, RelayedSame, ReadSimple
<1>. QED BY <1>6, <1>7, SameResponses DEF Abstract!Ping

LEMMA MGetMaps ==
  ASSUME TypeOK, KeysStayHome, NEW k \in Keys, NEW l \in Keys, NEW w, NEW done, NEW response,
         NEW words \in Lines, words = <<"MGET", k, l>>,
         Served(words, ParseCommand(words), w, done, response)
  PROVE  Partly
<1>. DEFINE cmd   == Command("MGET", <<k, l>>, None)
            reply == [i \in 1 .. 2 |-> Lookup(stores[0].data, words[i + 1], None)]
            heard == [i \in 1 .. 2 |-> IF words[i + 1] \in FirstKeys
                                       THEN Abstract!Heard(Abstract!At(words[i + 1])) ELSE None]
<1>1. ParseCommand(words) = cmd
  BY DEF ParseCommand, RequestOf, SplitCommand
<1>2. cmd \notin Writes /\ cmd.op = "MGET" /\ cmd.key = <<k, l>>
  BY DEF Command, Writes
<1>. HIDE DEF cmd
<1>3. w \in Workers /\ done = ExecuteCommand(stores[w], cmd, Now) /\ IsCommand(cmd)
  BY <1>1 DEF Served, Asked
<1>4. /\ w = 0
      /\ \A x \in Keys : Lookup(stores[0].data, x, None)
                           = IF x \in FirstKeys THEN Abstract!At(x) ELSE None
  BY <1>1, <1>2, FirstStore
<1>5. done.reply = [i \in DOMAIN <<k, l>> |-> Lookup(stores[0].data, <<k, l>>[i], None)]
      /\ ~ done.error
  BY <1>2, <1>3, <1>4, StoresFit, ReadExecuted
<1>6. done.reply = reply
  <2>1. DOMAIN <<k, l>> = 1 .. 2 /\ \A i \in 1 .. 2 : <<k, l>>[i] = words[i + 1]
    OBVIOUS
  <2>. QED BY <1>5, <2>1
<1>7. \A i \in 1 .. 2 : words[i + 1] \in Keys
  OBVIOUS
<1>8. [i \in 1 .. 2 |-> Abstract!Heard(reply[i])] = heard
  <2>1. Abstract!Heard(None) = None
    BY DEF Abstract!Heard
  <2>2. \A i \in 1 .. 2 : Abstract!Heard(reply[i]) = heard[i]
    BY <1>4, <1>7, <2>1
  <2>. QED BY <2>2
<1>9. ReadAnswer(SerializeResponse(Array(reply))) = Array(heard)
  <2>1. DOMAIN reply = 1 .. 2 /\ reply = [i \in 1 .. 2 |-> reply[i]]
    OBVIOUS
  <2>. HIDE DEF reply, heard
  <2>. QED BY <1>8, <2>1, ReadArray
<1>. HIDE DEF reply
<1>10. Response(cmd, done) = Array(reply)
  BY <1>2, <1>5, <1>6 DEF Response
<1>11. (exchange.line)' = words
       /\ Abstract!Answer(ReadAnswer(SerializeResponse(Relayed(Response(cmd, done)))))
  BY <1>1, <1>2, ReadServed
<1>12. Abstract!Answer(IF mode = "multi" THEN Array(<<>>) ELSE Array(heard))
  BY <1>9, <1>10, <1>11, RelayedSame, ReadNone
<1>13. words # <<>> /\ words[1] = "MGET" /\ Len(words) = 3 /\ Len(words) > 1
  OBVIOUS
<1>14. CASE mode = "multi"
  <2>1. words \in Abstract!WellFormed
    BY <1>13 DEF Abstract!WellFormed
  <2>. QED BY <1>11, <1>12, <1>13, <1>14, <2>1, SameResponses DEF Partly
<1>15. CASE mode = "single"
  <2>1. heard = [i \in 1 .. Len(words) - 1 |->
                   IF words[i + 1] \in FirstKeys
                   THEN Abstract!Heard(Abstract!At(words[i + 1])) ELSE None]
    BY <1>13
  <2>. HIDE DEF heard
  <2>2. Abstract!Answer(Abstract!Array([i \in 1 .. Len(words) - 1 |->
                   IF words[i + 1] \in FirstKeys
                   THEN Abstract!Heard(Abstract!At(words[i + 1])) ELSE None]))
    BY <1>12, <1>15, <2>1, SameResponses
  <2>3. Abstract!MGet(FirstKeys)
    BY <1>11, <1>13, <2>2 DEF Abstract!MGet
  <2>. QED BY <1>15, <2>3 DEF Partly
<1>16. mode \in {"single", "multi"}
  BY LogFacts
<1>. QED BY <1>14, <1>15, <1>16

\* KEYS, with a pattern or without.
LEMMA KeysMap ==
  ASSUME TypeOK, KeysStayHome, StoresFinite, NEW words, NEW pattern, NEW w, NEW done,
         NEW response, ParseCommand(words) = Command("KEYS", None, pattern),
         Served(words, ParseCommand(words), w, done, response)
  PROVE  /\ mode = "single" => Abstract!ListNames(words, FirstKeys \cap pattern)
         /\ mode = "multi" => (exchange.line)' = words /\ Abstract!Answer(Array(<<>>))
<1>. DEFINE cmd   == Command("KEYS", None, pattern)
            known == DOMAIN stores[0].data \cap pattern
            names == SetToSeq(known)
            good  == [i \in DOMAIN names |-> <<names[i]>>]
            heard == [i \in DOMAIN names |-> Abstract!Heard(<<names[i]>>)]
<1>1. cmd \notin Writes /\ cmd.op = "KEYS" /\ cmd.arg = pattern
  BY DEF Command, Writes
<1>. HIDE DEF cmd
<1>2. w \in Workers /\ done = ExecuteCommand(stores[w], cmd, Now) /\ IsCommand(cmd)
  BY DEF Served, Asked, cmd
<1>3. w = 0 /\ DOMAIN stores[0].data = DOMAIN Seen \cap FirstKeys
  BY <1>1, FirstStore DEF cmd
<1>4. done.reply = known /\ ~ done.error
  BY <1>1, <1>2, <1>3, StoresFit, ReadExecuted
<1>5. IsFiniteSet(known)
  BY <1>2, <1>3, FS_Intersection DEF StoresFinite
<1>6. known = DOMAIN Seen \cap (FirstKeys \cap pattern)
  BY <1>3
<1>. HIDE DEF known
<1>7. names \in [1 .. Cardinality(known) -> known] /\ IsInjective(names)
      /\ Cardinality(known) \in Nat
  <2>1. \E f \in [1 .. Cardinality(known) -> known] : IsInjective(f)
    <3>1. ExistsBijection(1 .. Cardinality(known), known)
      BY <1>5, FS_NatBijection, FS_CardinalityType
    <3>. QED BY <3>1 DEF ExistsBijection, Bijection, Injection, IsInjective
  <2>. QED BY <1>5, <2>1, FS_CardinalityType DEF SetToSeq
<1>8. names \in Abstract!SetToSeqs(known)
  <2>1. \A S : Abstract!Cardinality(S) = Cardinality(S)
    BY DEF Abstract!Cardinality, Cardinality
  <2>2. \A i, j \in 1 .. Cardinality(known) : i # j => names[i] # names[j]
    BY <1>7 DEF IsInjective
  <2>. QED BY <1>7, <2>1, <2>2 DEF Abstract!SetToSeqs
<1>. HIDE DEF names
<1>9. ReadAnswer(SerializeResponse(Array(good))) = Array(heard)
  <2>. DEFINE n == Cardinality(known)
  <2>1. DOMAIN good = 1 .. n /\ n \in Nat /\ good = [i \in 1 .. n |-> good[i]]
    BY <1>7
  <2>2. heard = [i \in 1 .. n |-> Abstract!Heard(good[i])]
    BY <1>7
  <2>. HIDE DEF good, n, heard
  <2>. QED BY <2>1, <2>2, ReadArray
<1>. HIDE DEF good
<1>10. Response(cmd, done) = Array(good)
  BY <1>1, <1>4 DEF Response, names, good
<1>11. (exchange.line)' = words
       /\ Abstract!Answer(ReadAnswer(SerializeResponse(Relayed(Response(cmd, done)))))
  BY <1>1, ReadServed DEF cmd
<1>. HIDE DEF heard
<1>12. Abstract!Answer(IF mode = "multi" THEN Array(<<>>) ELSE Array(heard))
  BY <1>9, <1>10, <1>11, RelayedSame, ReadNone
<1>13. ASSUME mode = "single"
       PROVE  Abstract!ListNames(words, FirstKeys \cap pattern)
  <2>1. Abstract!Answer(Abstract!Array([i \in DOMAIN names |-> Abstract!Heard(<<names[i]>>)]))
    BY <1>12, <1>13, SameResponses DEF heard
  <2>. QED BY <1>6, <1>8, <1>11, <2>1 DEF Abstract!ListNames
<1>14. ASSUME mode = "multi"
       PROVE  (exchange.line)' = words /\ Abstract!Answer(Array(<<>>))
  BY <1>11, <1>12, <1>14
<1>. QED BY <1>13, <1>14

LEMMA KeysMaps ==
  ASSUME TypeOK, KeysStayHome, StoresFinite, NEW words, NEW w, NEW done, NEW response,
         words = <<"KEYS">> \/ \E k \in Keys : words = <<"KEYS", k>>,
         Served(words, ParseCommand(words), w, done, response)
  PROVE  Partly
<1>1. words \in Abstract!WellFormed /\ words[1] = "KEYS"
  BY DEF Abstract!WellFormed
<1>2. CASE words = <<"KEYS">>
  <2>1. ParseCommand(words) = Command("KEYS", None, Keys)
    BY <1>2 DEF ParseCommand, RequestOf, SplitCommand
  <2>2. FirstKeys \cap Keys = FirstKeys
    BY DEF FirstKeys
  <2>3. /\ mode = "single" => Abstract!ListNames(<<"KEYS">>, FirstKeys)
        /\ mode = "multi" => (exchange.line)' = words /\ Abstract!Answer(Array(<<>>))
    BY <1>2, <2>1, <2>2, KeysMap
  <2>. QED BY <1>1, <2>3, LogFacts, SameResponses DEF Partly, Abstract!KeyNames
<1>3. ASSUME NEW k \in Keys, words = <<"KEYS", k>>
      PROVE  Partly
  <2>1. ParseCommand(words) = Command("KEYS", None, {k})
    BY <1>3 DEF ParseCommand, RequestOf, SplitCommand
  <2>2. /\ mode = "single" => Abstract!ListNames(<<"KEYS", k>>, FirstKeys \cap {k})
        /\ mode = "multi" => (exchange.line)' = words /\ Abstract!Answer(Array(<<>>))
    BY <1>3, <2>1, KeysMap
  <2>. QED BY <1>1, <2>2, LogFacts, SameResponses DEF Partly, Abstract!KeyNames
<1>. QED BY <1>2, <1>3

\* FLUSHALL empties the store of the first worker.
LEMMA FlushMaps ==
  ASSUME TypeOK, KeysStayHome, NEW w, NEW done, NEW response,
         Served(<<"FLUSHALL">>, ParseCommand(<<"FLUSHALL">>), w, done, response)
  PROVE  Partly
<1>. DEFINE cmd  == Command("FLUSHALL", None, None)
            n    == Cardinality(DOMAIN Seen \cap FirstKeys)
<1>1. ParseCommand(<<"FLUSHALL">>) = cmd
  BY DEF ParseCommand, RequestOf, SplitCommand
<1>2. cmd \notin Writes /\ cmd.op = "FLUSHALL"
  BY DEF Command, Writes
<1>. HIDE DEF cmd
<1>3. /\ w \in Workers /\ done = ExecuteCommand(stores[w], cmd, Now) /\ IsCommand(cmd)
      /\ exchange' = [line |-> <<"FLUSHALL">>, lines |-> SerializeResponse(response)]
      /\ UNCHANGED <<mode, hash, count>>
  BY <1>1 DEF Served, Asked
<1>4. w = 0 /\ DOMAIN stores[0].data = DOMAIN Seen \cap FirstKeys
  BY <1>1, <1>2, FirstStore
<1>5. done.store = NewStore /\ done.reply = n /\ ~ done.error
  <2>1. done = [store |-> NewStore, error |-> FALSE,
                reply |-> Cardinality(DOMAIN stores[0].data)]
    BY <1>2, <1>3, <1>4, StoresFit, ReadExecuted
  <2>. QED BY <1>4, <2>1
<1>. HIDE DEF n
<1>6. ~ IsWrite(cmd, done)
  BY <1>2 DEF IsWrite
<1>7. UNCHANGED <<files, buffer>> /\ response = Relayed(Response(cmd, done))
  BY <1>1, <1>6 DEF Served
<1>8. Response(cmd, done) = Integer(n)
  BY <1>2, <1>5 DEF Response
<1>9. Durable' = Durable /\ Doubtful' = Doubtful
  BY <1>3, <1>7, DurableStays, AreMaps
<1>10. Seen' = Drop(Seen, FirstKeys)
  <2>1. ASSUME NEW k \in Keys
        PROVE  SeenOf'[k] = IF k \in FirstKeys THEN None ELSE SeenOf[k]
    <3>1. Lookup(done.store.data, k, None) = None
      BY <1>5 DEF Lookup, NewStore, EmptyDict
    <3>2. SeenOf'[k] = IF Home(k) = 0 THEN None ELSE SeenOf[k]
      BY <1>1, <1>4, <3>1, SeenAfter
    <3>. QED BY <3>2 DEF FirstKeys
  <2>2. {k \in Keys : SeenOf'[k] # None} = {k \in Keys : SeenOf[k] # None} \ FirstKeys
    BY <2>1
  <2>3. DOMAIN MapOf(SeenOf) = {k \in Keys : SeenOf[k] # None}
        /\ \A k \in DOMAIN MapOf(SeenOf) : MapOf(SeenOf)[k] = SeenOf[k]
    BY DEF MapOf
  <2>4. Drop(MapOf(SeenOf), FirstKeys)
          = [k \in DOMAIN MapOf(SeenOf) \ FirstKeys |-> MapOf(SeenOf)[k]]
    BY DEF Drop, Restrict
  <2>5. MapOf(SeenOf') = [k \in {l \in Keys : SeenOf'[l] # None} |-> SeenOf'[k]]
    BY DEF MapOf
  <2>6. MapOf(SeenOf') = Drop(MapOf(SeenOf), FirstKeys)
    BY <2>1, <2>2, <2>3, <2>4, <2>5
  <2>. QED BY <2>6, AreMaps
<1>11. response = Integer(n)
  BY <1>7, <1>8, RelayedSame
<1>12. exchange'.line = <<"FLUSHALL">> /\ ReadAnswer(exchange'.lines) = Integer(n)
  <2>1. exchange'.line = <<"FLUSHALL">> /\ exchange'.lines = SerializeResponse(response)
    BY <1>3
  <2>. QED BY <1>11, <2>1, ReadInteger
<1>. QED BY <1>9, <1>10, <1>12 DEF Partly, n
-----------------------------------------------------------------------------
\* The lines that the map speaks of parse.
LEMMA WellFormedParses ==
  ASSUME NEW words \in Abstract!WellFormed
  PROVE  /\ ParseError(words) = None
         /\ words[1] = "EXPIRE" => words[3] \in Numbers
<1>. DEFINE Set(k, value) == <<"SET", k>> \o value
            L1 == {<<"PING">>, <<"FLUSHALL">>, <<"KEYS">>}
            L2 == {Set(k, v) : k \in Keys, v \in Values}
            L3 == {<<verb, k>> : verb \in {"GET", "DEL", "TTL", "KEYS"}, k \in Keys}
            L4 == {<<"EXPIRE", k, seconds>> : k \in Keys, seconds \in Numbers}
            L5 == {l \in Lines : l # <<>> /\ l[1] = "MGET" /\ Len(l) > 1}
<1>1. Abstract!WellFormed = L1 \cup L2 \cup L3 \cup L4 \cup L5
  BY DEF Abstract!WellFormed
<1>2. \A l : l # <<>> /\ l[1] \in DOMAIN Arities /\ Len(SplitCommand(l)) \in Arities[l[1]]
               => ParseError(l) = None
  BY DEF ParseError
<1>3. CASE words \in L1
  <2>1. PICK verb \in {"PING", "FLUSHALL", "KEYS"} : words = <<verb>>
    BY <1>3
  <2>2. words # <<>> /\ words[1] = verb /\ Len(SplitCommand(words)) = 0
    BY <2>1 DEF SplitCommand
  <2>3. 0 \in Arities[verb] /\ verb \in DOMAIN Arities /\ verb # "EXPIRE"
    BY DEF Arities
  <2>. QED BY <1>2, <2>2, <2>3
<1>4. CASE words \in L2
  <2>1. PICK k \in Keys, v \in Values : words = Set(k, v)
    <3>. HIDE DEF Set
    <3>. QED BY <1>4
  <2>2. words # <<>> /\ words[1] = "SET" /\ SplitCommand(words) = <<k, v>>
    BY <2>1, SetWords
  <2>3. Len(SplitCommand(words)) = 2
    BY <2>2
  <2>. QED BY <1>2, <2>2, <2>3, ArityFacts
<1>5. CASE words \in L3
  <2>1. PICK verb \in {"GET", "DEL", "TTL", "KEYS"}, k \in Keys : words = <<verb, k>>
    BY <1>5
  <2>2. words # <<>> /\ words[1] = verb /\ Len(SplitCommand(words)) = 1
    BY <2>1 DEF SplitCommand
  <2>3. 1 \in Arities[verb] /\ verb \in DOMAIN Arities /\ verb # "EXPIRE"
    BY DEF Arities
  <2>. QED BY <1>2, <2>2, <2>3
<1>6. CASE words \in L4
  <2>1. PICK k \in Keys, seconds \in Numbers : words = <<"EXPIRE", k, seconds>>
    BY <1>6
  <2>2. words # <<>> /\ words[1] = "EXPIRE" /\ Len(SplitCommand(words)) = 2
        /\ words[3] = seconds
    BY <2>1 DEF SplitCommand
  <2>. QED BY <1>2, <2>2, ArityFacts
<1>7. CASE words \in L5
  <2>1. words \in Lines /\ words # <<>> /\ words[1] = "MGET" /\ Len(words) > 1
    BY <1>7
  <2>2. \A k \in Keys, v \in Values : words # <<"SET", k>> \o v
    BY <2>1, SetWords
  <2>3. \E k, l \in Keys : words = <<"MGET", k, l>>
    <3>1. \A verb : words # <<verb>>
      <4>1. ASSUME NEW verb, words = <<verb>> PROVE ~ (Len(words) > 1)
        <5>1. Len(words) = 1
          BY <4>1
        <5>2. ~ (1 > 1)
          OBVIOUS
        <5>. QED BY <5>1, <5>2
      <4>. QED BY <2>1, <4>1
    <3>2. \A verb, k : words = <<verb, k>> => words[1] = verb
      OBVIOUS
    <3>3. \A verb, k, n : words = <<verb, k, n>> => words[1] = verb
      OBVIOUS
    <3>4. words # <<"NOPE">>
      BY <3>1
    <3>5. ~ \E verb \in {"PING", "KEYS", "FLUSHALL", "MGET"} : words = <<verb>>
      BY <3>1, Zenon
    <3>6. ~ \E verb \in {"SET", "GET", "DEL", "TTL", "KEYS"}, k \in Keys : words = <<verb, k>>
      BY <2>1, <3>2
    <3>7. ~ \E k \in Keys, seconds \in Numbers \cup Texts : words = <<"EXPIRE", k, seconds>>
      BY <2>1, <3>3
    <3>. QED BY <2>1, <2>2, <3>4, <3>5, <3>6, <3>7, LineForms, Zenon
  <2>4. Len(SplitCommand(words)) = 2
    BY <2>3 DEF SplitCommand
  <2>5. "MGET" \in DOMAIN Arities /\ 2 \in Arities["MGET"]
    BY DEF Arities
  <2>. QED BY <1>2, <2>1, <2>4, <2>5
<1>. HIDE DEF L1, L2, L3, L4, L5
<1>. QED BY <1>1, <1>3, <1>4, <1>5, <1>6, <1>7

\* A line that does not parse is none that the map speaks of.
LEMMA RefuseMaps ==
  ASSUME NEW words \in Lines, Refuse(words)
  PROVE  Abstract!Refuse
<1>1. /\ ParseError(words) # None
      /\ exchange' = [line |-> words, lines |-> SerializeResponse(Error(ParseError(words)))]
      /\ UNCHANGED <<mode, hash, count, up, files, buffer, stores, left>>
  BY DEF Refuse, Exchange, config, logs
<1>2. UNCHANGED <<Seen, Durable, Doubtful>>
  BY <1>1 DEF Seen, Durable, Doubtful, SeenAt, DurableAt, Home, LogOf
<1>3. (exchange.line)' = words /\ Abstract!Answer(Abstract!Error(ParseError(words)))
  BY <1>1, <1>2, Answered, ReadError, SameResponses
<1>4. ParseError(words) \in {"INVALID_REQUEST", "UNKNOWN_COMMAND", "WRONG_ARITY"}
  BY <1>1 DEF ParseError
<1>5. words \in Lines \ Abstract!WellFormed
  BY <1>1, WellFormedParses
<1>. QED BY <1>3, <1>4, <1>5 DEF Abstract!Refuse

\* EXPIRE with something else than a number.
LEMMA BadExpireMaps ==
  ASSUME TypeOK, NEW k \in Keys, NEW text, text \notin Numbers, NEW w, NEW done, NEW response,
         NEW words \in Lines, words = <<"EXPIRE", k, text>>,
         Served(words, ParseCommand(words), w, done, response)
  PROVE  Abstract!Refuse
<1>. DEFINE cmd == Command("EXPIRE", k, None)
<1>1. ParseCommand(words) = cmd
  BY DEF ParseCommand, RequestOf, SplitCommand
<1>2. cmd \notin Writes /\ cmd.op = "EXPIRE" /\ cmd.arg = None
  <2>1. None \notin Numbers
    BY NumbersAssumption, WheelAssumption
  <2>. QED BY <2>1 DEF Command, Writes
<1>. HIDE DEF cmd
<1>3. w \in Workers /\ done = ExecuteCommand(stores[w], cmd, Now) /\ IsCommand(cmd)
  BY <1>1 DEF Served, Asked
<1>4. done.error
  BY <1>2, <1>3, StoresFit, ReadExecuted
<1>5. Response(cmd, done) = Error("INVALID_REQUEST")
  BY <1>4 DEF Response
<1>6. (exchange.line)' = words
      /\ Abstract!Answer(ReadAnswer(SerializeResponse(Relayed(Response(cmd, done)))))
  BY <1>1, <1>2, ReadServed
<1>7. Abstract!Answer(Abstract!Error("INVALID_REQUEST"))
  BY <1>5, <1>6, RelayedSame, ReadError, SameResponses
<1>8. words \notin Abstract!WellFormed
  <2>1. words[1] = "EXPIRE" /\ words[3] \notin Numbers
    OBVIOUS
  <2>. QED BY <2>1, WellFormedParses
<1>. QED BY <1>6, <1>7, <1>8 DEF Abstract!Refuse

\* The commands about all keys.
WholeVerbs == {"MGET", "KEYS", "FLUSHALL"}

\* A line that is dispatched has words, and a command that the server knows.
LEMMA DispatchedWords ==
  ASSUME TypeOK, NEW words \in Lines, Dispatch(words)
  PROVE  /\ words # <<>> /\ words # <<"NOPE">>
         /\ words[1] \in DOMAIN Arities /\ Len(SplitCommand(words)) \in Arities[words[1]]
         /\ words[1] \in Verbs \cup {"NOPE"}
         /\ (exchange.line)' = words
         /\ \E w, done, response : Served(words, ParseCommand(words), w, done, response)
<1>1. words[1] \in DOMAIN Arities /\ Len(SplitCommand(words)) \in Arities[words[1]]
      /\ ParseError(words) = None
  BY ParsedWords DEF Dispatch
<1>2. words # <<>>
  BY <1>1, LiteStoreAssumption DEF ParseError
<1>3. words # <<"NOPE">>
  BY <1>1, ArityFacts
<1>4. words[1] \in Verbs \cup {"NOPE"}
  BY <1>2 DEF Lines
<1>5. PICK w, done, response : Served(words, ParseCommand(words), w, done, response)
  BY DispatchServes DEF Served
<1>6. (exchange.line)' = words
  BY <1>5 DEF Served
<1>. QED BY <1>1, <1>2, <1>3, <1>4, <1>5, <1>6

\* A request about one key, or none, is a step of the map.
LEMMA KeyedMaps ==
  ASSUME TypeOK, KeysStayHome, NEW words \in Lines, Dispatch(words), words[1] \notin WholeVerbs
  PROVE  Abstract!Keyed
<1>. USE DEF Abstract!Keyed
<1>1. PICK w, done, response : Served(words, ParseCommand(words), w, done, response)
  BY DispatchedWords
<1>2. words # <<>> /\ words # <<"NOPE">>
      /\ words[1] \in DOMAIN Arities /\ Len(SplitCommand(words)) \in Arities[words[1]]
  BY DispatchedWords
<1>3. ASSUME NEW verb \in {"PING", "KEYS", "FLUSHALL", "MGET"}, words = <<verb>>
      PROVE  Abstract!Keyed
  <2>1. verb = "PING"
    BY <1>3 DEF WholeVerbs
  <2>. QED BY <1>1, <1>3, <2>1, PingMaps
<1>4. ASSUME NEW verb \in {"SET", "GET", "DEL", "TTL", "KEYS"}, NEW k \in Keys,
             words = <<verb, k>>
      PROVE  Abstract!Keyed
  <2>1. verb # "SET"
    <3>1. Len(SplitCommand(<<"SET", k>>)) = 1
      BY DEF SplitCommand
    <3>2. ~ (1 \in Arities["SET"])
      BY ArityFacts
    <3>3. Len(SplitCommand(words)) \in Arities[words[1]]
      BY <1>2
    <3>4. ASSUME verb = "SET" PROVE FALSE
      <4>1. words = <<"SET", k>> /\ words[1] = "SET"
        BY <1>4, <3>4
      <4>2. Len(SplitCommand(words)) = 1
        BY ONLY <3>1, <4>1
      <4>. QED BY <3>2, <3>3, <4>1, <4>2
    <3>. QED BY <3>4
  <2>2. CASE verb = "GET"
    BY <1>1, <1>4, <2>2, GetMaps
  <2>3. CASE verb = "DEL"
    BY <1>1, <1>4, <2>3, DelMaps
  <2>4. CASE verb = "TTL"
    BY <1>1, <1>4, <2>4, TtlMaps
  <2>5. verb # "KEYS"
    BY <1>4 DEF WholeVerbs
  <2>. QED BY <2>1, <2>2, <2>3, <2>4, <2>5
<1>5. ASSUME NEW k \in Keys, NEW v \in Values, words = <<"SET", k>> \o v
      PROVE  Abstract!Keyed
  BY <1>1, <1>5, SetMaps
<1>6. ASSUME NEW k \in Keys, NEW seconds \in Numbers \cup Texts,
             words = <<"EXPIRE", k, seconds>>
      PROVE  Abstract!Keyed
  BY <1>1, <1>6, ExpireMaps, BadExpireMaps
<1>7. ASSUME NEW k \in Keys, NEW l \in Keys, words = <<"MGET", k, l>>
      PROVE  Abstract!Keyed
  <2>1. words[1] = "MGET"
    BY <1>7
  <2>. QED BY <2>1 DEF WholeVerbs
<1>. HIDE DEF Abstract!Keyed
<1>. QED BY <1>2, <1>3, <1>4, <1>5, <1>6, <1>7, LineForms, ZenonT(60)

\* One about all keys does its part of it.
LEMMA WholeMaps ==
  ASSUME TypeOK, KeysStayHome, StoresFinite, NEW words \in Lines, Dispatch(words),
         words[1] \in WholeVerbs
  PROVE  Partly
<1>1. PICK w, done, response : Served(words, ParseCommand(words), w, done, response)
  BY DispatchedWords
<1>2. words # <<>> /\ words # <<"NOPE">> /\ Len(SplitCommand(words)) \in Arities[words[1]]
  BY DispatchedWords
<1>3. ASSUME NEW verb \in {"PING", "KEYS", "FLUSHALL", "MGET"}, words = <<verb>>
      PROVE  Partly
  <2>1. verb \notin {"PING", "MGET"}
    <3>1. Len(SplitCommand(words)) = 0
      BY <1>3 DEF SplitCommand
    <3>. QED BY <1>2, <1>3, <3>1 DEF Arities, WholeVerbs
  <2>2. CASE verb = "FLUSHALL"
    BY <1>1, <1>3, <2>2, FlushMaps
  <2>3. CASE verb = "KEYS"
    BY <1>1, <1>3, <2>3, KeysMaps
  <2>. QED BY <2>1, <2>2, <2>3
<1>4. ASSUME NEW verb \in {"SET", "GET", "DEL", "TTL", "KEYS"}, NEW k \in Keys,
             words = <<verb, k>>
      PROVE  Partly
  <2>1. verb = "KEYS"
    BY <1>4 DEF WholeVerbs
  <2>. QED BY <1>1, <1>4, <2>1, KeysMaps
<1>5. ASSUME NEW k \in Keys, NEW v \in Values, words = <<"SET", k>> \o v
      PROVE  Partly
  <2>1. words[1] = "SET"
    BY <1>5, SetWords
  <2>. QED BY <2>1 DEF WholeVerbs
<1>6. ASSUME NEW k \in Keys, NEW seconds \in Numbers \cup Texts,
             words = <<"EXPIRE", k, seconds>>
      PROVE  Partly
  <2>1. words[1] = "EXPIRE"
    BY <1>6
  <2>. QED BY <2>1 DEF WholeVerbs
<1>7. ASSUME NEW k \in Keys, NEW l \in Keys, words = <<"MGET", k, l>>
      PROVE  Partly
  BY <1>1, <1>7, MGetMaps
<1>. QED BY <1>2, <1>3, <1>4, <1>5, <1>6, <1>7, LineForms, ZenonT(60)
-----------------------------------------------------------------------------
(* What happens between requests. *)

\* A step that leaves the logs and what is seen of every key.
LEMMA Stutters ==
  ASSUME UNCHANGED <<buffer, exchange>>,
         \A k \in Keys : SeenOf'[k] = SeenOf[k] /\ DurableOf'[k] = DurableOf[k]
  PROVE  UNCHANGED Abstract!vars
<1>1. Durable' = Durable /\ Doubtful' = Doubtful
  <2>1. DurableOf' = DurableOf
    BY DEF DurableOf
  <2>. QED BY <2>1, AreMaps
<1>2. Seen' = Seen
  <2>1. SeenOf' = SeenOf
    BY DEF SeenOf
  <2>. QED BY <2>1, AreMaps
<1>3. (exchange.line)' = exchange.line
      /\ ReadAnswer(exchange.lines)' = ReadAnswer(exchange.lines)
  <2>1. exchange'.line = exchange.line /\ exchange'.lines = exchange.lines
    OBVIOUS
  <2>. QED BY <2>1
<1>. QED BY <1>1, <1>2, <1>3 DEF Abstract!vars

\* A log that says nothing.
LEMMA EmptyLog == \A k : Recovered(<<>>, k) = None
<1>1. DOMAIN <<>> = {}
  OBVIOUS
<1>. QED BY <1>1 DEF Recovered

\* A server starts with empty stores.
LEMMA NewStoresEmpty ==
  ASSUME NEW n, NEW w \in 0 .. n - 1
  PROVE  /\ \A k : Lookup(NewStores(n)[w].data, k, None) = None
         /\ IsFiniteSet(DOMAIN NewStores(n)[w].data)
<1>1. NewStores(n)[w].data = EmptyDict
  BY DEF NewStores, NewStore
<1>2. DOMAIN EmptyDict = {}
  BY DEF EmptyDict
<1>. QED BY <1>1, <1>2, FS_EmptySet DEF Lookup

\* The start: every log is to be replayed, or empty.  In multi mode the number
\* of workers stays, as they have files of their own.
LEMMA StartMaps ==
  ASSUME "multi" \notin Resizable, TypeOK, NEW n \in Counts, Start(n)
  PROVE  UNCHANGED Abstract!vars /\ Replaying' /\ StoresFinite'
<1>1. /\ ~ up /\ up' = TRUE /\ (n = count \/ mode \in Resizable) /\ count' = n
      /\ stores' = NewStores(n) /\ left' = files
      /\ UNCHANGED <<mode, hash, files, buffer, exchange>>
  BY DEF Start
<1>2. mode \in {"single", "multi"} /\ Logs' = Logs
  BY <1>1, LogFacts DEF Logs
<1>3. ASSUME NEW k \in Keys
      PROVE  /\ Home(k)' \in 0 .. n - 1 /\ LogOf(Home(k))' = LogOf(Home(k))
             /\ Lookup(stores'[Home(k)'].data, k, None) = None
  <2>1. n \in Nat \ {0} /\ hash \in [Keys -> Nat]
    BY LiteStoreAssumption DEF TypeOK
  <2>2. \A i \in Nat : i % n \in 0 .. n - 1
    BY <2>1
  <2>3. Home(k)' \in 0 .. n - 1
    BY <1>1, <2>1, <2>2 DEF Home, RouteKey
  <2>4. LogOf(Home(k))' = LogOf(Home(k))
    <3>1. CASE mode = "single"
      BY <1>1, <3>1 DEF LogOf
    <3>2. CASE mode = "multi"
      <4>1. count' = count
        BY <1>1, <3>2
      <4>. QED BY <1>1, <4>1 DEF LogOf, Home
    <3>. QED BY <1>2, <3>1, <3>2
  <2>. QED BY <1>1, <2>3, <2>4, NewStoresEmpty
<1>4. \A f \in Logs : files[f] \in Seq(Pieces)
  BY TypeParts DEF LogsOK
<1>5. ASSUME NEW k \in Keys PROVE SeenOf'[k] = SeenOf[k] /\ DurableOf'[k] = DurableOf[k]
  <2>. DEFINE g == LogOf(Home(k))
  <2>1. g' = g /\ g \in Logs
    BY <1>3, HomeOK
  <2>2. SeenOf[k] = Recovered(files[g], k)
    BY <1>1 DEF SeenOf, SeenAt, DurableAt
  <2>3. SeenOf'[k] = IF files[g] = <<>> THEN None ELSE Recovered(files[g], k)
    BY <1>1, <1>3, <2>1 DEF SeenOf, SeenAt, DurableAt
  <2>4. DurableOf'[k] = DurableOf[k]
    BY <1>1, <2>1 DEF DurableOf, DurableAt
  <2>. QED BY <2>2, <2>3, <2>4, EmptyLog
<1>6. Replaying'
  <2>1. ASSUME NEW f \in Logs PROVE Replayed(f)'
    <3>1. files[f] \in Seq(Pieces) /\ Len(files[f]) \in Nat
      BY <1>4, LenProperties
    <3>2. Len(files'[f]) - Len(left'[f]) = 0 /\ left'[f] = files[f] /\ files' = files
      BY <1>1, <3>1
    <3>3. SubSeq(files[f], 1, 0) = <<>> /\ SubSeq(files[f], 0 + 1, Len(files[f])) = files[f]
      BY <3>1, SubSeqFull, SubSeqEmpty
    <3>4. /\ left'[f] = SubSeq(files'[f], 0 + 1, Len(files'[f]))
          /\ \A k \in Keys : LogOf(Home(k))' = f =>
               Lookup(stores'[Home(k)'].data, k, None) = Recovered(SubSeq(files'[f], 1, 0), k)
      BY <1>3, <3>2, <3>3, EmptyLog
    <3>. QED BY <3>2, <3>4 DEF Replayed
  <2>. QED BY <1>2, <2>1 DEF Replaying
<1>7. StoresFinite'
  <2>1. Workers' = 0 .. n - 1
    BY <1>1 DEF Workers
  <2>2. \A w \in 0 .. n - 1 : IsFiniteSet(DOMAIN stores'[w].data)
    BY <1>1, NewStoresEmpty
  <2>3. \A w \in Workers' : IsFiniteSet(DOMAIN stores'[w].data)
    BY <2>1, <2>2, Zenon
  <2>. QED BY <2>3 DEF StoresFinite
<1>. QED BY <1>1, <1>5, <1>6, <1>7, Stutters

\* No step of a replay is seen: a key reads as its log has it until the log is
\* replayed, and then as the store has it, which is the same.
LEMMA ReplayMaps ==
  ASSUME TypeOK, Replaying, StoresFinite, NEW f \in Logs, ReplayLine(f)
  PROVE  UNCHANGED Abstract!vars /\ Replaying' /\ StoresFinite'
<1>1. /\ left[f] # <<>> /\ \A g \in Logs \ {f} : left'[g] = left[g]
      /\ \A g \in Logs : left[g] # <<>> => Replayed(g)'
      /\ \A k \in Keys : LogOf(Home(k)) # f => stores'[Home(k)] = stores[Home(k)]
      /\ StoresFinite'
  BY ReplayStep
<1>2. up /\ up' = up /\ UNCHANGED <<mode, hash, count, files, buffer, exchange>>
  BY DEF ReplayLine, config, logs
<1>3. Logs' = Logs
  BY <1>2 DEF Logs
<1>4. Replaying'
  <2>1. \A g \in Logs : left'[g] # <<>> => left[g] # <<>>
    BY <1>1
  <2>. QED BY <1>1, <1>3, <2>1 DEF Replaying
<1>5. ASSUME NEW k \in Keys PROVE SeenOf'[k] = SeenOf[k]
  <2>. DEFINE g == LogOf(Home(k))
  <2>1. g \in Logs /\ Home(k)' = Home(k) /\ g' = g
    BY <1>2, HomeOK DEF Home, LogOf
  <2>2. files[g] \in Seq(Pieces)
    BY <2>1, TypeParts DEF LogsOK
  <2>3. /\ SeenOf[k] = IF left[g] = <<>> THEN Lookup(stores[Home(k)].data, k, None)
                       ELSE Recovered(files[g], k)
        /\ SeenOf'[k] = IF left'[g] = <<>> THEN Lookup(stores'[Home(k)].data, k, None)
                        ELSE Recovered(files[g], k)
    BY <1>2, <2>1 DEF SeenOf, SeenAt, DurableAt
  <2>4. CASE left[g] = <<>>
    <3>1. g # f
      BY <1>1, <2>4
    <3>2. left'[g] = left[g] /\ stores'[Home(k)] = stores[Home(k)]
      BY <1>1, <2>1, <3>1
    <3>. QED BY <2>3, <2>4, <3>2
  <2>5. CASE left[g] # <<>> /\ left'[g] # <<>>
    BY <2>3, <2>5
  <2>6. CASE left[g] # <<>> /\ left'[g] = <<>>
    <3>1. Replayed(g)'
      BY <1>1, <2>1, <2>6
    <3>2. \A l \in Keys : Home(l)' = Home(l) /\ LogOf(Home(l))' = LogOf(Home(l))
      BY <1>2 DEF Home, LogOf
    <3>3. Len(left'[g]) = 0 /\ Len(files[g]) \in Nat
      BY <2>2, <2>6, EmptySeq, LenProperties
    <3>. DEFINE n == Len(files'[g]) - Len(left'[g])
    <3>4. n = Len(files[g])
      BY <1>2, <3>3
    <3>5. SubSeq(files'[g], 1, n) = files[g]
      BY <1>2, <2>2, <3>4, SubSeqFull
    <3>6. Lookup(stores'[Home(k)].data, k, None) = Recovered(SubSeq(files'[g], 1, n), k)
      BY <2>1, <3>1, <3>2 DEF Replayed
    <3>. HIDE DEF n
    <3>7. Lookup(stores'[Home(k)].data, k, None) = Recovered(files[g], k)
      BY <3>5, <3>6
    <3>. QED BY <2>3, <2>6, <3>7
  <2>. QED BY <2>4, <2>5, <2>6
<1>6. \A k \in Keys : DurableOf'[k] = DurableOf[k]
  BY <1>2 DEF DurableOf, DurableAt, Home, LogOf
<1>. QED BY <1>1, <1>2, <1>4, <1>5, <1>6, Stutters
-----------------------------------------------------------------------------
\* The end: what was held back is written, or some of it, or none.
LEMMA StopMaps ==
  ASSUME TypeOK, Stop
  PROVE  Abstract!Restart /\ Replaying' /\ StoresFinite'
<1>1. /\ up' = FALSE /\ stores' = NewStores(count) /\ buffer' = <<>>
      /\ exchange' = NoExchange /\ UNCHANGED <<mode, hash, count>>
  BY DEF Stop
<1>2. PICK n \in 0 .. Len(buffer) :
        files' = IF n = 0 THEN files
                 ELSE [files EXCEPT ![0] = @ \o SubSeq(buffer, 1, n)]
  BY StopTypes
<1>3. /\ buffer \in Seq(Pieces) /\ Len(buffer) \in Nat
      /\ mode = "multi" => buffer = <<>>
      /\ mode \in {"single", "multi"} /\ (mode = "single" => 0 \in Logs)
  BY TypeParts, LogFacts, LenProperties DEF LogsOK
<1>4. Len(Doubtful) = Len(buffer) /\ Doubtful = WritesOf(buffer)
  BY <1>3, AreMaps, WritesOfFacts
<1>5. Durable' = Abstract!Written(Durable, SubSeq(Doubtful, 1, n))
  <2>1. CASE n = 0
    <3>1. SubSeq(Doubtful, 1, n) = <<>>
      <4>1. Doubtful \in Seq([key : Keys, value : Values \cup {None}])
        BY <1>3, <1>4, WritesOfFacts
      <4>. QED BY <2>1, <4>1, SubSeqEmpty
    <3>2. \A k \in Keys : DurableOf[k] = LastWrite(<<>>, k, DurableOf[k])
      BY LastWriteNone
    <3>3. Durable = Abstract!Written(Durable, <<>>)
      BY <3>2, AreMaps, WrittenMap
    <3>4. Durable' = Durable
      BY <1>1, <1>2, <2>1, DurableStays
    <3>. QED BY <3>1, <3>3, <3>4
  <2>2. CASE n # 0
    <3>. DEFINE more == SubSeq(buffer, 1, n)
    <3>1. more \in Seq(Pieces) /\ WritesOf(more) = SubSeq(Doubtful, 1, n)
      <4>1. more \in Seq(Pieces)
        BY <1>3, Divided
      <4>2. 1 \in 1 .. Len(buffer) + 1 /\ n \in 0 .. Len(buffer) /\ 1 <= n + 1
        BY <1>3
      <4>3. WritesOf(more) = SubSeq(WritesOf(buffer), 1, n)
        BY <1>3, <4>2, WritesOfParts
      <4>. QED BY <1>4, <4>1, <4>3
    <3>2. mode = "single" /\ 0 \in Logs
      <4>1. Len(buffer) # 0
        BY <1>3, <2>2
      <4>. QED BY <1>3, <4>1, EmptySeq
    <3>3. files' = [files EXCEPT ![0] = @ \o more]
      BY <1>2, <2>2
    <3>. HIDE DEF more
    <3>4. \A i \in DOMAIN more : LogOf(Home(more[i].record.cmd.key)) = 0
      <4>1. \A p \in Pieces : p.record.cmd.key \in Keys
        BY DEF Pieces, Writes
      <4>2. \A i \in DOMAIN more : more[i] \in Pieces
        BY <3>1, LenProperties, ElementOfSeq
      <4>. QED BY <3>2, <4>1, <4>2, HomeOK
    <3>. QED BY <1>1, <3>1, <3>2, <3>3, <3>4, DurableGrows
  <2>. QED BY <2>1, <2>2
<1>6. Seen' = Durable'
  BY <1>1 DEF Seen, Durable, SeenAt
<1>7. Doubtful' = <<>>
  <2>1. WritesOf(<<>>) = <<>>
    BY DEF WritesOf
  <2>. QED BY <1>1, <2>1, AreMaps
<1>8. (exchange.line)' = None /\ ReadAnswer(exchange.lines)' = None
  <2>1. exchange'.line = None /\ exchange'.lines = <<>>
    BY <1>1 DEF NoExchange
  <2>2. ReadAnswer(<<>>) = None
    BY DEF ReadAnswer
  <2>. QED BY <2>1, <2>2
<1>9. Abstract!Restart
  BY <1>4, <1>5, <1>6, <1>7, <1>8 DEF Abstract!Restart
<1>10. Replaying' /\ StoresFinite'
  BY <1>1, NewStoresEmpty DEF Replaying, StoresFinite, Workers
<1>. QED BY <1>9, <1>10

\* In the beginning there is nothing.
LEMMA InitMaps ==
  ASSUME Init
  PROVE  Abstract!Init /\ Replaying /\ StoresFinite
<1>1. /\ up = FALSE /\ stores = NewStores(count) /\ files = [f \in Logs |-> <<>>]
      /\ buffer = <<>> /\ exchange = NoExchange
  BY DEF Init
<1>2. \A k \in Keys : DurableAt(k) = None /\ SeenAt(k) = None
  <2>1. TypeOK
    BY InitTypes
  <2>. QED BY <1>1, <2>1, HomeOK, EmptyLog DEF DurableAt, SeenAt
<1>3. Abstract!EmptyDict = [k \in {l \in Keys : FALSE} |-> None]
  BY DEF Abstract!EmptyDict
<1>4. Seen = Abstract!EmptyDict /\ Durable = Abstract!EmptyDict
  BY <1>2, <1>3 DEF Seen, Durable
<1>5. Doubtful = <<>>
  BY <1>1 DEF Doubtful
<1>6. exchange.line = None /\ ReadAnswer(exchange.lines) = None
  <2>1. exchange.line = None /\ exchange.lines = <<>>
    BY <1>1 DEF NoExchange
  <2>. QED BY <2>1 DEF ReadAnswer
<1>. QED BY <1>1, <1>4, <1>5, <1>6, NewStoresEmpty
     DEF Abstract!Init, Replaying, StoresFinite, Workers

\* Requests touch the logs of listening workers only.
LEMMA DispatchKeeps ==
  ASSUME TypeOK, Replaying, StoresFinite, NEW words \in Lines, Dispatch(words)
  PROVE  Replaying' /\ StoresFinite'
<1>1. PICK cmd, w, done, response : Served(words, cmd, w, done, response)
  BY DispatchServes
<1>2. /\ w \in Workers /\ up /\ left[LogOf(w)] = <<>>
      /\ UNCHANGED <<mode, hash, count, up, left>>
      /\ done = ExecuteCommand(stores[w], cmd, Now)
      /\ stores' = [stores EXCEPT ![w] = done.store]
      /\ \/ UNCHANGED files \/ AppendRequest(LogOf(w), cmd)
         \/ AppendFails(cmd) /\ mode = "single"
  BY <1>1 DEF Served
<1>3. /\ DOMAIN stores = Workers /\ DOMAIN files = Logs /\ mode \in {"single", "multi"}
      /\ mode = "single" => Logs = {0}
  BY TypeParts, LogFacts DEF StoresOK, LogsOK
<1>4. stores'[w] = done.store /\ \A v \in Workers \ {w} : stores'[v] = stores[v]
  BY <1>2, <1>3
<1>5. StoresFinite'
  <2>1. CASE cmd \in Writes
    <3>1. done.store = Executed(w, cmd).store
      BY <1>2 DEF Executed
    <3>2. UNCHANGED count
      BY <1>2
    <3>. QED BY <1>2, <2>1, <3>1, <3>2, EffectAt
  <2>2. CASE cmd \notin Writes
    <3>1. done.store = NewStore \/ done.store.data = stores[w].data
      BY <1>1, <2>2, ServedData
    <3>2. IsFiniteSet(DOMAIN NewStore.data)
      <4>1. DOMAIN EmptyDict = {}
        BY DEF EmptyDict
      <4>. QED BY <4>1, FS_EmptySet DEF NewStore
    <3>3. IsFiniteSet(DOMAIN done.store.data)
      BY <1>2, <3>1, <3>2 DEF StoresFinite
    <3>4. Workers' = Workers
      BY <1>2 DEF Workers
    <3>. QED BY <1>4, <3>3, <3>4 DEF StoresFinite
  <2>. QED BY <2>1, <2>2
<1>6. ASSUME NEW f \in Logs, left[f] # <<>> PROVE Replayed(f)'
  <2>1. f # LogOf(w)
    BY <1>2, <1>6
  <2>2. mode = "multi"
    BY <1>2, <1>3, <2>1, LogFacts
  <2>3. files'[f] = files[f]
    <3>. DEFINE g == LogOf(w)
                more == Unwritten(g, cmd)
    <3>1. UNCHANGED files \/ files' = [files EXCEPT ![g] = @ \o more]
      BY <1>2, <2>2 DEF AppendRequest
    <3>2. f # g
      BY <2>1
    <3>. HIDE DEF g, more
    <3>. QED BY ONLY <1>3, <1>6, <3>1, <3>2
  <2>4. \A k \in Keys : Home(k)' = Home(k) /\ LogOf(Home(k))' = LogOf(Home(k))
    BY <1>2 DEF Home, LogOf
  <2>5. \A k \in Keys : LogOf(Home(k)) = f => stores'[Home(k)] = stores[Home(k)]
    BY <1>4, <2>1, HomeOK
  <2>6. Replayed(f) /\ left' = left
    BY <1>2, <1>6 DEF Replaying
  <2>. QED BY <2>3, <2>4, <2>5, <2>6 DEF Replayed
<1>7. Logs' = Logs
  BY <1>2 DEF Logs
<1>. QED BY <1>2, <1>5, <1>6, <1>7 DEF Replaying

\* A step that touches neither logs nor stores.
LEMMA SameReplay ==
  ASSUME Replaying, StoresFinite, UNCHANGED <<mode, hash, count, up, stores, files, left>>
  PROVE  Replaying' /\ StoresFinite'
<1>1. Logs' = Logs /\ Workers' = Workers
  BY DEF Logs, Workers
<1>2. \A k : Home(k)' = Home(k) /\ LogOf(Home(k))' = LogOf(Home(k))
  BY DEF Home, LogOf
<1>3. \A f : Replayed(f) => Replayed(f)'
  BY <1>2 DEF Replayed
<1>. QED BY <1>1, <1>3 DEF Replaying, StoresFinite

\* All that the proofs below need of the states.
Whole == TypeOK /\ KeysStayHome /\ LogsRouted /\ Replaying /\ StoresFinite

LEMMA InitWhole == Init => Whole /\ Abstract!Init
BY InitTypes, InitHome, InitMaps DEF Whole

\* A step does to the map what Keyed says, or it is a command about all keys
\* and does what Partly says, or the map does not change.
LEMMA StepWhole ==
  ASSUME "multi" \notin Resizable, Whole, [Next]_vars
  PROVE  /\ Whole'
         /\ \/ Abstract!Keyed \/ UNCHANGED Abstract!vars
            \/ /\ Partly /\ (exchange.line)' # <<>> /\ UNCHANGED <<mode, hash, count>>
               /\ (exchange.line)'[1] \in WholeVerbs \cap Verbs
<1>. USE DEF Whole
<1>1. TypeOK'
  BY StepTypes
<1>2. ASSUME NEW n \in Counts, Start(n)
      PROVE  /\ KeysStayHome' /\ LogsRouted' /\ Replaying' /\ StoresFinite'
             /\ UNCHANGED Abstract!vars
  BY <1>2, StartHome, StartMaps
<1>3. ASSUME NEW f \in Logs, ReplayLine(f)
      PROVE  /\ KeysStayHome' /\ LogsRouted' /\ Replaying' /\ StoresFinite'
             /\ UNCHANGED Abstract!vars
  BY <1>3, ReplayHome, ReplayMaps
<1>4. ASSUME NEW words \in Lines, Refuse(words)
      PROVE  /\ KeysStayHome' /\ LogsRouted' /\ Replaying' /\ StoresFinite'
             /\ Abstract!Keyed
  <2>1. UNCHANGED <<mode, hash, count, up, stores, files, left>>
    BY <1>4 DEF Refuse, config, logs
  <2>2. Abstract!Refuse
    BY <1>4, RefuseMaps
  <2>. QED BY <2>1, <2>2, SameHome, SameReplay DEF Abstract!Keyed
<1>5. ASSUME NEW words \in Lines, Dispatch(words)
      PROVE  /\ KeysStayHome' /\ LogsRouted' /\ Replaying' /\ StoresFinite'
             /\ \/ Abstract!Keyed
                \/ /\ Partly /\ (exchange.line)' # <<>> /\ UNCHANGED <<mode, hash, count>>
                   /\ (exchange.line)'[1] \in WholeVerbs \cap Verbs
  <2>1. KeysStayHome' /\ LogsRouted' /\ Replaying' /\ StoresFinite'
    BY <1>5, DispatchHome, DispatchKeeps
  <2>2. CASE words[1] \notin WholeVerbs
    BY <1>5, <2>1, <2>2, KeyedMaps
  <2>3. CASE words[1] \in WholeVerbs
    <3>1. Partly
      BY <1>5, <2>3, WholeMaps
    <3>2. words # <<>> /\ words[1] \in Verbs \cup {"NOPE"} /\ (exchange.line)' = words
      BY <1>5, DispatchedWords
    <3>3. UNCHANGED <<mode, hash, count>>
      BY <1>5 DEF Dispatch, config
    <3>. QED BY <2>1, <2>3, <3>1, <3>2, <3>3 DEF WholeVerbs
  <2>. QED BY <2>2, <2>3
<1>6. CASE Stop
  <2>1. Abstract!Restart /\ Replaying' /\ StoresFinite'
    BY <1>6, StopMaps
  <2>. QED BY <1>1, <1>6, <2>1, StopHome DEF Abstract!Keyed
<1>7. CASE UNCHANGED vars
  <2>1. UNCHANGED <<mode, hash, count, up, stores, files, buffer, left, exchange>>
    BY <1>7 DEF vars
  <2>2. KeysStayHome' /\ LogsRouted' /\ Replaying' /\ StoresFinite'
    BY <2>1, SameHome, SameReplay
  <2>3. \A k \in Keys : SeenOf'[k] = SeenOf[k] /\ DurableOf'[k] = DurableOf[k]
    BY <2>1 DEF SeenOf, SeenAt, DurableOf, DurableAt, Home, LogOf
  <2>. QED BY <1>1, <2>1, <2>2, <2>3, Stutters
<1>. QED BY <1>1, <1>2, <1>3, <1>4, <1>5, <1>6, <1>7 DEF Next

(* What the server does to the map that clients see, for any keys, values, *)
(* numbers of workers and routings: SET, GET, DEL, EXPIRE, TTL and PING as *)
(* one map would, refused writes, stops and replays included; and MGET,    *)
(* KEYS and FLUSHALL exactly their part of it (Partly), which is less than *)
(* the documentation says.  The hypothesis is that of KeysAreHome: in      *)
(* multi mode, where each worker has a file of its own, the number of      *)
(* workers stays.                                                          *)
THEOREM ServerIsOneMapInPart ==
  ASSUME "multi" \notin Resizable
  PROVE  Spec => ImplementsMapInPart
<1>1. Whole /\ [Next]_vars => Whole' /\ [Abstract!Keyed \/ Partly]_(Abstract!vars)
  BY StepWhole
<1>. QED BY <1>1, InitWhole, PTL DEF Spec, ImplementsMapInPart

(* For the commands about single keys it is the map of the documentation,  *)
(* in both modes and with any number of workers.                           *)
THEOREM KeyCommandsAreOneMap ==
  ASSUME "multi" \notin Resizable, Verbs \cap {"MGET", "KEYS", "FLUSHALL"} = {}
  PROVE  Spec => ImplementsKeyValueMap
<1>1. Whole /\ [Next]_vars => Whole' /\ [Abstract!Next]_(Abstract!vars)
  BY StepWhole DEF WholeVerbs, Abstract!Next
<1>. QED BY <1>1, InitWhole, PTL DEF Spec, ImplementsKeyValueMap, Abstract!Spec

(* In single mode with one worker MGET and KEYS answer for the whole map   *)
(* too: it takes a second worker, or multi mode, for them to leave keys    *)
(* out.  FLUSHALL remains: it is not durable with one worker either.       *)
THEOREM OneWorkerIsOneMap ==
  ASSUME Modes = {"single"}, Counts = {1}, "FLUSHALL" \notin Verbs
  PROVE  Spec => ImplementsKeyValueMap
<1>1. "multi" \notin Resizable
  BY LiteStoreAssumption
<1>2. Whole /\ [Next]_vars => Whole' /\ [Abstract!Next]_(Abstract!vars)
  <2>. SUFFICES ASSUME Whole, [Next]_vars
                PROVE  Whole' /\ (Abstract!Next \/ UNCHANGED Abstract!vars)
    OBVIOUS
  <2>1. mode = "single" /\ count = 1 /\ FirstKeys = Keys
    <3>1. mode = "single" /\ count = 1 /\ hash \in [Keys -> Nat]
      BY DEF Whole, TypeOK
    <3>2. \A n \in Nat : n % 1 = 0
      OBVIOUS
    <3>. QED BY <3>1, <3>2 DEF FirstKeys, Home, RouteKey
  <2>2. ASSUME Partly, (exchange.line)'[1] \in WholeVerbs \cap Verbs
        PROVE  Abstract!Next
    <3>1. (exchange.line)' # <<"FLUSHALL">>
      BY <2>2
    <3>. QED BY <2>1, <2>2, <3>1 DEF Partly, Abstract!Next
  <2>. QED BY <1>1, <2>2, StepWhole DEF Abstract!Next
<1>. QED BY <1>2, InitWhole, PTL DEF Spec, ImplementsKeyValueMap, Abstract!Spec

=============================================================================
