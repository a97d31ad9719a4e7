----------------------------- MODULE MemoryStore -----------------------------
(***************************************************************************)
(* One MemoryStore and the clock it reads: the commands of                 *)
(* src/src/commands.py in any order, and the expiration cycle that the     *)
(* worker's loop (or the metrics snapshot) runs between them.  A command   *)
(* is one step: nothing else runs in its process meanwhile, but the clock  *)
(* moves between its readings.                                             *)
(***************************************************************************)
EXTENDS StoreOps

CONSTANTS Values,
          TTLs,        \* the arguments of EXPIRE, in seconds
          MaxTime,     \* bound on the clock
          Drift,       \* bound on the time between two readings of one command
          Monotonic    \* FALSE: time.time() may also be set back

ASSUME StoreAssumption == /\ None \notin Values
                          /\ TTLs \subseteq Int
                          /\ MaxTime \in Nat /\ Drift \in Nat
                          /\ Monotonic \in BOOLEAN

VARIABLES store,       \* the MemoryStore object
          now,         \* time.time()
          reply        \* the last command and what it returned

vars == <<store, now, reply>>

Times == 0 .. MaxTime

(* What the clock may read later in a command. *)
Readings == IF Monotonic THEN Times \cap (now .. now + Drift) ELSE Times

Init == /\ store = NewStore
        /\ now = 0
        /\ reply = [op |-> "none", value |-> None]

Tick == /\ now' \in Times \ {now}
        /\ Monotonic => now' = now + 1
        /\ UNCHANGED <<store, reply>>

Replies(op, value) == reply' = [op |-> op, value |-> value]

Set(k, v) == /\ store' = SetKey(store, k, v, now)
             /\ Replies("set", None)
             /\ UNCHANGED now

Get(k) == /\ store' = ProcessExpirations(store, now)
          /\ Replies("get", ValueOf(store, k, now))
          /\ UNCHANGED now

Del(k) == /\ store' = DeleteKey(store, k, now).store
          /\ Replies("del", DeleteKey(store, k, now).reply)
          /\ UNCHANGED now

Expire(k, ttl, later) ==
  LET done == ExpireKey(store, k, ttl, now, later)
  IN  store' = done.store /\ Replies("expire", done.reply) /\ now' = later

Ttl(k, later) ==
  LET done == KeyTtl(store, k, now, later)
  IN  store' = done.store /\ Replies("ttl", done.reply) /\ now' = later

(* MGET calls get for one key after the other. *)
MGet(j, k, later) ==
  LET between == ProcessExpirations(store, now)
  IN  /\ store' = ProcessExpirations(between, later)
      /\ Replies("mget", <<ValueOf(store, j, now), ValueOf(between, k, later)>>)
      /\ now' = later

KeysLike(pattern) == /\ store' = ProcessExpirations(store, now)
                     /\ Replies("keys", KeysMatching(store, pattern, now))
                     /\ UNCHANGED now

FlushAll == /\ store' = Flush(store, now).store
            /\ Replies("flushall", Flush(store, now).reply)
            /\ UNCHANGED now

(* process_expirations from the worker's loop, or snapshot. *)
Cycle == /\ store' = ProcessExpirations(store, now)
         /\ Replies("cycle", None)
         /\ UNCHANGED now

Next ==
  \/ Tick
  \/ Cycle
  \/ FlushAll
  \/ \E pattern \in SUBSET Keys : KeysLike(pattern)
  \/ \E k \in Keys :
       \/ Get(k) \/ Del(k)
       \/ \E v \in Values : Set(k, v)
       \/ \E later \in Readings :
            \/ Ttl(k, later)
            \/ \E ttl \in TTLs : Expire(k, ttl, later)
            \/ \E j \in Keys : MGet(j, k, later)

Spec == Init /\ [][Next]_vars

(* The clock runs, and the worker's loop runs the cycle again and again.   *)
FairSpec == Spec /\ WF_vars(Tick) /\ WF_vars(Cycle)

-----------------------------------------------------------------------------
(* Type invariant: the store has the shape StoreOps gives it. *)
TypeOK == /\ StoreType(store, Values)
          /\ now \in Int
          /\ reply.op \in {"none", "set", "get", "del", "expire", "ttl", "mget",
                           "keys", "flushall", "cycle"}

(* _data, _expires_at and the wheel agree after every command, with any    *)
(* clock.  A deadline without a timer would never fire; a timer left over  *)
(* from an earlier value is harmless only because process_expirations      *)
(* looks at the deadline again before it deletes (store.py:121-125).       *)
TimersMatchDeadlines == TimersMatch(store)

(* MemoryStore promises its clients the ExpiringMap, with a lag of one     *)
(* revolution of the wheel, while the clock does not go back.              *)
Lag == BucketCount * TickLen

Promise == INSTANCE ExpiringMap
             WITH map <- [data |-> store.data, deadline |-> store.expiresAt]

ImplementsExpiringMap == Promise!Spec

(* A key with a deadline the clock can reach is deleted in the end, even   *)
(* if no client ever asks for it again, or it gets a later deadline.       *)
EventuallyExpired ==
  \A k \in Keys :
    LET expiring == k \in DOMAIN store.expiresAt /\ store.expiresAt[k] <= MaxTime - Lag
    IN  expiring ~> ~ expiring

(* README.md:115: the wheel "guarantees expiration within one tick         *)
(* period"; timing_wheel.py:27-29: pop_due() ensures "there are no stale   *)
(* keys once a worker/store expiration cycle has run".  A cycle would leave *)
(* no key that is a whole tick past its deadline.                          *)
ExpiredWithinOneTick ==
  [][Cycle => \A k \in DOMAIN store'.expiresAt :
                now < store'.expiresAt[k] + TickLen]_vars

=============================================================================
