----------------------------- MODULE ExpiringMap -----------------------------
(***************************************************************************)
(* What a client of MemoryStore may rely on, with no wheel: a map of keys  *)
(* to values and deadlines, in which a key whose deadline has passed may   *)
(* vanish at any operation and must have vanished, for every operation,    *)
(* once it is Lag late.  A key never vanishes early, and nothing but the   *)
(* operations below changes the map.                                       *)
(***************************************************************************)
EXTENDS Integers, FiniteSets, Dicts

CONSTANTS Keys, Values, TTLs, None,
          Second,      \* time units in one second
          Lag,         \* how late a key may be served
          MaxTime,     \* bound on the clock
          Drift        \* bound on the time between two clock readings

VARIABLES map,         \* [data, deadline]
          now,
          reply        \* the last operation and what it returned

vars == <<map, now, reply>>

Without(m, E) == [data     |-> Drop(m.data, E),
                  deadline |-> Drop(m.deadline, E)]

(* The maps an operation that starts at time t may find. *)
Evicted(m, t) ==
  LET passed  == {k \in DOMAIN m.deadline : m.deadline[k] <= t}
      overdue == {k \in passed : m.deadline[k] + Lag <= t}
  IN  {Without(m, E) : E \in {F \in SUBSET passed : overdue \subseteq F}}

Replies(op, value) == reply' = [op |-> op, value |-> value]

Readings == now .. now + Drift

Init == /\ map = [data |-> EmptyDict, deadline |-> EmptyDict]
        /\ now = 0
        /\ reply = [op |-> "none", value |-> None]

Tick == now < MaxTime /\ now' = now + 1 /\ UNCHANGED <<map, reply>>

Set(k, v) ==
  \E m \in Evicted(map, now) :
    /\ map' = [data     |-> Put(m.data, k, v),
               deadline |-> Drop(m.deadline, {k})]
    /\ Replies("set", None)
    /\ UNCHANGED now

Get(k) ==
  \E m \in Evicted(map, now) :
    /\ map' = m
    /\ Replies("get", Lookup(m.data, k, None))
    /\ UNCHANGED now

Del(k) ==
  \E m \in Evicted(map, now) :
    /\ map' = Without(m, {k})
    /\ Replies("del", IF k \in DOMAIN m.data THEN 1 ELSE 0)
    /\ UNCHANGED now

(* A lifetime counts from the second reading of the clock; a lifetime that *)
(* is not positive deletes.                                                *)
Expire(k, ttl, later) ==
  \E m \in Evicted(map, now) :
    /\ now' = later
    /\ \/ /\ k \notin DOMAIN m.data
          /\ map' = m
          /\ Replies("expire", 0)
       \/ /\ k \in DOMAIN m.data /\ ttl <= 0
          /\ \E n \in Evicted(m, later) : map' = Without(n, {k})
          /\ Replies("expire", 1)
       \/ /\ k \in DOMAIN m.data /\ ttl > 0
          /\ map' = [m EXCEPT !.deadline = Put(@, k, later + ttl * Second)]
          /\ Replies("expire", 1)

(* Whole seconds left, which is 0 for a key less than a second late; a key *)
(* later than that counts as gone.                                         *)
Ttl(k, later) ==
  \E m \in Evicted(map, now) :
    /\ now' = later
    /\ \/ /\ k \notin DOMAIN m.data
          /\ map' = m
          /\ Replies("ttl", -2)
       \/ /\ k \in DOMAIN m.data \ DOMAIN m.deadline
          /\ map' = m
          /\ Replies("ttl", -1)
       \/ /\ k \in DOMAIN m.deadline /\ m.deadline[k] - later > - Second
          /\ map' = m
          /\ Replies("ttl", IF m.deadline[k] < later THEN 0
                            ELSE (m.deadline[k] - later) \div Second)
       \/ /\ k \in DOMAIN m.deadline /\ m.deadline[k] - later <= - Second
          /\ \E n \in Evicted(m, later) : map' = Without(n, {k})
          /\ Replies("ttl", -2)

(* Two keys read one after the other, with time passing in between. *)
MGet(j, k, later) ==
  \E m \in Evicted(map, now) : \E n \in Evicted(m, later) :
    /\ map' = n
    /\ now' = later
    /\ Replies("mget", <<Lookup(m.data, j, None), Lookup(n.data, k, None)>>)

KeysLike(pattern) ==
  \E m \in Evicted(map, now) :
    /\ map' = m
    /\ Replies("keys", DOMAIN m.data \cap pattern)
    /\ UNCHANGED now

FlushAll ==
  \E m \in Evicted(map, now) :
    /\ map' = [data |-> EmptyDict, deadline |-> EmptyDict]
    /\ Replies("flushall", Cardinality(DOMAIN m.data))
    /\ UNCHANGED now

Cycle ==
  /\ map' \in Evicted(map, now)
  /\ Replies("cycle", None)
  /\ UNCHANGED now

Next ==
  \/ Tick
  \/ Cycle
  \/ FlushAll
  \/ \E pattern \in SUBSET Keys : KeysLike(pattern)
  \/ \E k \in Keys :
       \/ Get(k) \/ Del(k)
       \/ \E v \in Values : Set(k, v)
       \/ \E later \in Readings :
            \/ Ttl(k, later)
            \/ \E ttl \in TTLs : Expire(k, ttl, later)
            \/ \E j \in Keys : MGet(j, k, later)

Spec == Init /\ [][Next]_vars

=============================================================================
