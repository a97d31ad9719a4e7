------------------------------- MODULE StoreOps -------------------------------
(***************************************************************************)
(* MemoryStore (src/src/store.py), as operators on a value: the record     *)
(*   data       key -> value (_data)                                       *)
(*   expiresAt  key -> deadline (_expires_at)                              *)
(*   wheel      the timing wheel (_timing_wheel)                           *)
(* Every method first calls process_expirations with a reading of the      *)
(* clock (now); a method that reads the clock again takes that reading as  *)
(* a second argument (later).  A method that replies is a pair of          *)
(* operators, or one that returns [store, reply].                          *)
(***************************************************************************)
EXTENDS WheelOps, FiniteSets

CONSTANT Second        \* time units in one second

ASSUME SecondAssumption == Second \in Nat \ {0}

\* __init__
NewStore == [data |-> EmptyDict, expiresAt |-> EmptyDict, wheel |-> NewWheel]

\* Mutated process_expirations: a key at its very deadline is left for later.
ProcessPastOnly(s, now) ==
  LET popped  == PopDue(s.wheel, now)
      expired == {k \in popped.due \cap DOMAIN s.expiresAt :
                    s.expiresAt[k] < now}
  IN  [data      |-> Drop(s.data, expired),
       expiresAt |-> Drop(s.expiresAt, expired),
       wheel     |-> popped.wheel]

\* process_expirations: a key the wheel returns goes if the deadline the
\* store holds for it has also passed.
ProcessExpirations(s, now) ==
  LET popped  == PopDue(s.wheel, now)
      expired == {k \in popped.due \cap DOMAIN s.expiresAt :
                    s.expiresAt[k] <= now}
  IN  [data      |-> Drop(s.data, expired),
       expiresAt |-> Drop(s.expiresAt, expired),
       wheel     |-> popped.wheel]

\* Mutated _clear_expiry: the timer stays in the wheel.
ClearDeadlineOnly(s, k) == [s EXCEPT !.expiresAt = Drop(@, {k})]

\* Mutated _clear_expiry: the key keeps an entry, without a deadline.
ClearToNone(s, k) == [data      |-> s.data,
                      expiresAt |-> Put(s.expiresAt, k, None),
                      wheel     |-> Cancel(s.wheel, k)]

\* _clear_expiry
ClearExpiry(s, k) == [data      |-> s.data,
                      expiresAt |-> Drop(s.expiresAt, {k}),
                      wheel     |-> Cancel(s.wheel, k)]

\* set
SetKey(s, k, v, now) ==
  ClearExpiry([ProcessExpirations(s, now) EXCEPT !.data = Put(@, k, v)], k)

\* get: what it returns; the store it leaves is ProcessExpirations(s, now).
ValueOf(s, k, now) == Lookup(ProcessExpirations(s, now).data, k, None)

\* delete
DeleteKey(s, k, now) ==
  LET p == ProcessExpirations(s, now)
  IN  IF k \notin DOMAIN p.data THEN [store |-> p, reply |-> 0]
      ELSE [store |-> ClearExpiry([p EXCEPT !.data = Drop(@, {k})], k),
            reply |-> 1]

\* Mutated expire: zero seconds are a lifetime.
ExpireZeroLater(s, k, ttl, now, later) ==
  LET p  == ProcessExpirations(s, now)
      at == later + ttl * Second
  IN  CASE k \notin DOMAIN p.data -> [store |-> p, reply |-> 0]
        [] k \in DOMAIN p.data /\ ttl < 0 ->
             [store |-> DeleteKey(p, k, later).store, reply |-> 1]
        [] k \in DOMAIN p.data /\ ttl >= 0 ->
             [store |-> [data      |-> p.data,
                         expiresAt |-> Put(p.expiresAt, k, at),
                         wheel     |-> Schedule(p.wheel, k, at)],
              reply |-> 1]

\* expire
ExpireKey(s, k, ttl, now, later) ==
  LET p  == ProcessExpirations(s, now)
      at == later + ttl * Second
  IN  CASE k \notin DOMAIN p.data -> [store |-> p, reply |-> 0]
        [] k \in DOMAIN p.data /\ ttl <= 0 ->
             [store |-> DeleteKey(p, k, later).store, reply |-> 1]
        [] k \in DOMAIN p.data /\ ttl > 0 ->
             [store |-> [data      |-> p.data,
                         expiresAt |-> Put(p.expiresAt, k, at),
                         wheel     |-> Schedule(p.wheel, k, at)],
              reply |-> 1]

\* int() of a number of seconds: it rounds toward zero.
WholeSeconds(t) == IF t >= 0 THEN t \div Second ELSE - ((- t) \div Second)

\* ttl
KeyTtl(s, k, now, later) ==
  LET p         == ProcessExpirations(s, now)
      remaining == WholeSeconds(p.expiresAt[k] - later)
  IN  CASE k \notin DOMAIN p.data -> [store |-> p, reply |-> -2]
        [] k \in DOMAIN p.data /\ k \notin DOMAIN p.expiresAt ->
             [store |-> p, reply |-> -1]
        [] k \in DOMAIN p.data /\ k \in DOMAIN p.expiresAt ->
             IF remaining < 0
             THEN [store |-> DeleteKey(p, k, later).store, reply |-> -2]
             ELSE [store |-> p, reply |-> remaining]

\* keys: the names that match, of those the pattern stands for.
KeysMatching(s, pattern, now) ==
  DOMAIN ProcessExpirations(s, now).data \cap pattern

\* flush: a new wheel too, which has no origin yet.
Flush(s, now) ==
  [store |-> NewStore,
   reply |-> Cardinality(DOMAIN ProcessExpirations(s, now).data)]

-----------------------------------------------------------------------------
(* What the methods maintain. *)

(* The shape of a store. *)
StoreType(s, V) ==
  /\ s = [data |-> s.data, expiresAt |-> s.expiresAt, wheel |-> s.wheel]
  /\ IsDict(s.data, Keys) /\ \A k \in DOMAIN s.data : s.data[k] \in V
  /\ IsDict(s.expiresAt, Keys)
  /\ \A k \in DOMAIN s.expiresAt : s.expiresAt[k] \in Int
  /\ WheelType(s.wheel)

(* The wheel has a timer for exactly the keys with a deadline, at that     *)
(* deadline, and only keys that are there have one.  The three structures  *)
(* are updated one after the other by five methods: a timer left behind    *)
(* would delete the key's next value, a missing one would keep it for      *)
(* ever.                                                                   *)
TimersMatch(s) ==
  /\ Deadlines(s.wheel) = s.expiresAt
  /\ DOMAIN s.expiresAt \subseteq DOMAIN s.data

StoreOK(s, V) == StoreType(s, V) /\ TimersMatch(s) /\ WheelOK(s.wheel)

=============================================================================
