----------------------------- MODULE StoreLemmas -----------------------------
(***************************************************************************)
(* What the methods of the timing wheel and of MemoryStore do, for any     *)
(* keys, values, lifetimes, wheel and clock.  First integer division,      *)
(* dictionaries, and what each method of the wheel preserves.  Then the    *)
(* store, whose methods all preserve StoreOK, and, with a clock that does  *)
(* not go back, keep the wheel's scan timely; and the reading of a log.    *)
(***************************************************************************)
EXTENDS CommandOps, AofOps, FiniteSetTheorems, WellFoundedInduction, TLAPS

-----------------------------------------------------------------------------
(* Ticks and slots. *)

(* The arithmetic of _tick_for_timestamp: floor division keeps order. *)
LEMMA DivMonotone ==
  ASSUME NEW a \in Int, NEW b \in Int, a <= b
  PROVE  a \div TickLen <= b \div TickLen
BY WheelAssumption

LEMMA DivBounds ==
  ASSUME NEW a \in Int
  PROVE  /\ a \div TickLen \in Int
         /\ (a \div TickLen) * TickLen <= a
         /\ a < (a \div TickLen) * TickLen + TickLen
BY WheelAssumption

LEMMA DivNonNegative ==
  ASSUME NEW a \in Nat
  PROVE  a \div TickLen \in Nat
BY WheelAssumption

LEMMA DivExact ==
  ASSUME NEW q \in Int
  PROVE  (q * TickLen) \div TickLen = q
BY WheelAssumption

(* Every tick has a slot, and a revolution later it is the same slot. *)
LEMMA SlotType ==
  ASSUME NEW t \in Int
  PROVE  Slot(t) \in Slots
BY WheelAssumption DEF Slot, Slots

LEMMA RemainderUnique ==
  ASSUME NEW q \in Int, NEW p \in Int, NEW r \in Slots, NEW u \in Slots,
         BucketCount * q + r = BucketCount * p + u
  PROVE  r = u
<1>1. CASE q = p BY <1>1, WheelAssumption DEF Slots
<1>2. CASE q < p
  <2>1. BucketCount * p >= BucketCount * q + BucketCount
    BY <1>2, WheelAssumption
  <2>. QED BY <2>1, WheelAssumption DEF Slots
<1>3. CASE q > p
  <2>1. BucketCount * q >= BucketCount * p + BucketCount
    BY <1>3, WheelAssumption
  <2>. QED BY <2>1, WheelAssumption DEF Slots
<1>. QED BY <1>1, <1>2, <1>3

LEMMA SlotAfterRevolution ==
  ASSUME NEW t \in Int
  PROVE  Slot(t + BucketCount) = Slot(t)
<1>. DEFINE N == BucketCount
            q == t \div N          r == t % N
            p == (t + N) \div N    u == (t + N) % N
<1>1. t = N * q + r /\ r \in Slots /\ q \in Int
  BY WheelAssumption DEF Slots
<1>2. t + N = N * p + u /\ u \in Slots /\ p \in Int
  BY WheelAssumption DEF Slots
<1>3. q + 1 \in Int /\ N * (q + 1) = N * q + N
  BY <1>1, WheelAssumption
<1>4. N * (q + 1) + r = N * p + u
  <2>. HIDE DEF q, p, r, u
  <2>. QED BY <1>1, <1>2, <1>3, WheelAssumption DEF Slots
<1>5. r = u
  <2>. HIDE DEF q, p, r, u
  <2>. QED BY <1>1, <1>2, <1>3, <1>4, RemainderUnique
<1>. QED BY <1>5 DEF Slot

-----------------------------------------------------------------------------
(* Dictionaries. *)

(* d[k] = v *)
LEMMA PutDict ==
  ASSUME NEW d, IsDict(d, Keys), NEW k \in Keys, NEW v
  PROVE  /\ IsDict(Put(d, k, v), Keys)
         /\ DOMAIN Put(d, k, v) = DOMAIN d \cup {k}
         /\ Put(d, k, v)[k] = v
BY DEF IsDict, Put

LEMMA PutOther ==
  ASSUME NEW d, IsDict(d, Keys), NEW k \in Keys, NEW v, NEW x \in DOMAIN d \ {k}
  PROVE  Put(d, k, v)[x] = d[x]
BY DEF IsDict, Put

(* d.pop(k, None) for every k of S *)
LEMMA DropDict ==
  ASSUME NEW d, IsDict(d, Keys), NEW S
  PROVE  /\ IsDict(Drop(d, S), Keys)
         /\ DOMAIN Drop(d, S) = DOMAIN d \ S
BY DEF IsDict, Drop, Restrict

LEMMA DropOther ==
  ASSUME NEW d, IsDict(d, Keys), NEW S, NEW x \in DOMAIN d \ S
  PROVE  Drop(d, S)[x] = d[x]
BY DEF IsDict, Drop, Restrict

LEMMA DropDeadlines ==
  ASSUME NEW w, NEW v, IsDict(w.entries, Keys), NEW S,
         v.entries = Drop(w.entries, S)
  PROVE  Deadlines(v) = Drop(Deadlines(w), S)
<1>1. DOMAIN v.entries = DOMAIN w.entries \ S
  BY DropDict
<1>2. \A x \in DOMAIN w.entries \ S : v.entries[x] = w.entries[x]
  BY DropOther
<1>. QED BY <1>1, <1>2 DEF Deadlines, Drop, Restrict

LEMMA EmptyIsDict == IsDict(EmptyDict, Keys) /\ DOMAIN EmptyDict = {}
BY DEF IsDict, EmptyDict

-----------------------------------------------------------------------------
(* Every method of the wheel keeps it well-formed. *)

(* __init__ *)
LEMMA NewWheelOK == WheelOK(NewWheel) /\ NewWheel.entries = EmptyDict
BY EmptyIsDict
   DEF NewWheel, WheelOK, WheelType, Indexed, TicksFresh, ScanAnchored

(* _tick_for_timestamp *)
LEMMA AnchorOK ==
  ASSUME NEW w, WheelOK(w), NEW t \in Int
  PROVE  /\ WheelOK(Anchor(w, t))
         /\ Anchor(w, t).origin \in Int
         /\ w.origin # None => Anchor(w, t) = w
         /\ Anchor(w, t).entries = w.entries
         /\ Anchor(w, t).last = w.last
<1>1. CASE w.origin # None
  BY <1>1 DEF Anchor, WheelOK, WheelType
<1>2. CASE w.origin = None
  <2>1. DOMAIN w.entries = {}
    BY <1>2 DEF WheelOK, TicksFresh
  <2>. QED BY <1>2, <2>1, WheelAssumption
    DEF Anchor, WheelOK, WheelType, Indexed, TicksFresh, ScanAnchored
<1>. QED BY <1>1, <1>2

(* cancel *)
LEMMA CancelOK ==
  ASSUME NEW w, WheelOK(w), NEW k \in Keys
  PROVE  /\ WheelOK(Cancel(w, k))
         /\ Cancel(w, k).entries = Drop(w.entries, {k})
         /\ Deadlines(Cancel(w, k)) = Drop(Deadlines(w), {k})
         /\ Cancel(w, k).origin = w.origin
         /\ Cancel(w, k).last = w.last
<1>1. CASE k \notin DOMAIN w.entries
  <2>1. Drop(w.entries, {k}) = w.entries
    BY <1>1 DEF Drop, Restrict, WheelOK, WheelType, IsDict
  <2>2. Drop(Deadlines(w), {k}) = Deadlines(w)
    BY <1>1 DEF Drop, Restrict, Deadlines
  <2>. QED BY <1>1, <2>1, <2>2 DEF Cancel
<1>2. CASE k \in DOMAIN w.entries
  <2>. DEFINE c == Cancel(w, k)
              b == Slot(w.entries[k].tick)
  <2>1. c = [w EXCEPT !.entries = Drop(w.entries, {k}),
                      !.buckets[b] = w.buckets[b] \ {k}]
    BY <1>2 DEF Cancel
  <2>2. /\ c = [origin |-> w.origin, entries |-> Drop(w.entries, {k}),
                buckets |-> [w.buckets EXCEPT ![b] = w.buckets[b] \ {k}],
                last |-> w.last]
    BY <2>1 DEF WheelOK, WheelType
  <2>3. b \in Slots
    BY <1>2, SlotType DEF WheelOK, WheelType
  <2>. HIDE DEF c, b
  <2>4. /\ IsDict(c.entries, Keys)
        /\ DOMAIN c.entries = DOMAIN w.entries \ {k}
        /\ \A x \in DOMAIN w.entries \ {k} : c.entries[x] = w.entries[x]
    <3>1. IsDict(w.entries, Keys)  BY DEF WheelOK, WheelType
    <3>2. c.entries = Drop(w.entries, {k})  BY <2>2
    <3>. QED BY <3>1, <3>2, DropDict, DropOther
  <2>5. WheelType(c)
    BY <2>2, <2>3, <2>4 DEF WheelOK, WheelType
  <2>6. Indexed(c)
    BY <1>2, <2>2, <2>3, <2>4 DEF WheelOK, WheelType, Indexed, b
  <2>7. TicksFresh(c)
    BY <2>2, <2>4 DEF WheelOK, TicksFresh, TickFor
  <2>8. ScanAnchored(c)
    BY <2>2 DEF WheelOK, ScanAnchored
  <2>9. Deadlines(c) = Drop(Deadlines(w), {k})
    BY <2>4 DEF Deadlines, Drop, Restrict
  <2>. QED BY <2>2, <2>5, <2>6, <2>7, <2>8, <2>9 DEF WheelOK, c
<1>. QED BY <1>1, <1>2

(* _rebase_origin, as schedule calls it: the new origin is the earlier. *)
LEMMA RebaseOK ==
  ASSUME NEW w, WheelOK(w), w.origin # None, NEW t \in Int, t <= w.origin
  PROVE  /\ WheelOK(Rebase(w, t))
         /\ Rebase(w, t).origin = t
         /\ Rebase(w, t).last = w.last
         /\ DOMAIN Rebase(w, t).entries = DOMAIN w.entries
         /\ \A k \in DOMAIN w.entries :
              Rebase(w, t).entries[k].at = w.entries[k].at
<1>. DEFINE moved == [w EXCEPT !.origin = t]
            entries == [k \in DOMAIN w.entries |->
                          [at   |-> w.entries[k].at,
                           tick |-> TickFor(moved, w.entries[k].at)]]
            r == Rebase(w, t)
<1>1. moved.origin = t /\ t # None
  BY WheelAssumption DEF WheelOK, WheelType
<1>2. \A at \in Int : TickFor(moved, at) = (at - t) \div TickLen
  BY <1>1 DEF TickFor
<1>3. w.last \in Int /\ w.last >= -1 /\ w.last * TickLen \in Int
  BY WheelAssumption DEF WheelOK, WheelType
<1>4. TickFor(moved, t + w.last * TickLen) = w.last
  <2>1. (t + w.last * TickLen) - t = w.last * TickLen
    BY <1>3
  <2>. QED BY <1>2, <1>3, <2>1, DivExact
<1>5. r = [origin  |-> t,
           buckets |-> [b \in Slots |->
                          {k \in DOMAIN entries : Slot(entries[k].tick) = b}],
           entries |-> entries,
           last    |-> w.last]
  <2>1. r = [origin  |-> t,
             buckets |-> [b \in Slots |->
                            {k \in DOMAIN entries : Slot(entries[k].tick) = b}],
             entries |-> entries,
             last    |-> IF w.last < 0 THEN -1
                         ELSE TickFor(moved, t + w.last * TickLen)]
    BY DEF Rebase
  <2>2. (IF w.last < 0 THEN -1 ELSE TickFor(moved, t + w.last * TickLen)) = w.last
    BY <1>3, <1>4
  <2>. QED BY <2>1, <2>2, Zenon
<1>6. IsDict(w.entries, Keys)
      /\ \A k \in DOMAIN w.entries : /\ w.entries[k].at \in Int
                                    /\ t <= w.entries[k].at
  BY DEF WheelOK, WheelType, TicksFresh
<1>7. \A k \in DOMAIN w.entries :
        /\ entries[k] = [at |-> w.entries[k].at,
                         tick |-> (w.entries[k].at - t) \div TickLen]
        /\ entries[k].tick \in Int
  BY <1>2, <1>6, DivBounds
<1>8. IsDict(entries, Keys)
  BY <1>6 DEF IsDict
<1>9. WheelType(r)
  <2>. HIDE DEF r, moved
  <2>1. r.buckets \in [Slots -> SUBSET Keys]
    BY <1>5, <1>6 DEF IsDict
  <2>2. \A k \in DOMAIN r.entries : r.entries[k] \in [at : Int, tick : Int]
    BY <1>5, <1>6, <1>7
  <2>3. IsDict(r.entries, Keys)
    BY <1>5, <1>8
  <2>. QED BY <1>3, <1>5, <2>1, <2>2, <2>3 DEF WheelType
<1>10. Indexed(r)
  <2>. HIDE DEF r, moved
  <2>. QED BY <1>5, <1>6, <1>7, SlotType DEF Indexed, IsDict
<1>11. TicksFresh(r)
  <2>. HIDE DEF r, moved
  <2>. QED BY <1>1, <1>5, <1>6, <1>7 DEF TicksFresh, TickFor
<1>12. ScanAnchored(r)
  BY <1>1, <1>5 DEF ScanAnchored
<1>13. WheelOK(r)
  <2>. HIDE DEF r, moved
  <2>. QED BY <1>9, <1>10, <1>11, <1>12 DEF WheelOK
<1>. QED BY <1>5, <1>13

(* schedule *)
LEMMA ScheduleOK ==
  ASSUME NEW w, WheelOK(w), NEW k \in Keys, NEW at \in Int
  PROVE  LET s == Schedule(w, k, at)
         IN  /\ WheelOK(s)
             /\ Deadlines(s) = Put(Deadlines(w), k, at)
             /\ s.last = w.last
             /\ s.origin \in Int
<1>. DEFINE based == IF w.origin # None /\ at < w.origin THEN Rebase(w, at)
                     ELSE Anchor(w, at)
            tick  == TickFor(based, at)
            freed == Cancel(based, k)
            s     == Schedule(w, k, at)
            entry == [at |-> at, tick |-> tick]
<1>1. /\ WheelOK(based)
      /\ based.origin \in Int /\ based.origin <= at
      /\ DOMAIN based.entries = DOMAIN w.entries
      /\ \A x \in DOMAIN w.entries : based.entries[x].at = w.entries[x].at
      /\ based.last = w.last
  <2>0. w.origin \in Int \cup {None} /\ None \notin Int
    BY WheelAssumption DEF WheelOK, WheelType
  <2>1. CASE w.origin # None /\ at < w.origin
    <3>1. based = Rebase(w, at)  BY <2>1
    <3>. HIDE DEF based
    <3>. QED BY <2>0, <2>1, <3>1, RebaseOK
  <2>2. CASE w.origin # None /\ ~ at < w.origin
    <3>1. based = w  BY <2>2 DEF Anchor
    <3>. HIDE DEF based
    <3>. QED BY <2>0, <2>2, <3>1
  <2>3. CASE w.origin = None
    <3>1. based = Anchor(w, at)  BY <2>3
    <3>2. Anchor(w, at) = [w EXCEPT !.origin = at]  BY <2>3 DEF Anchor
    <3>3. Anchor(w, at).origin = at  BY <3>2 DEF WheelOK, WheelType
    <3>. HIDE DEF based
    <3>. QED BY <2>0, <2>3, <3>1, <3>3, AnchorOK
  <2>. QED BY <2>1, <2>2, <2>3
<1>. HIDE DEF based
<1>2. tick \in Int /\ tick = (at - based.origin) \div TickLen
  BY <1>1, DivBounds DEF TickFor
<1>3. /\ WheelOK(freed)
      /\ freed.entries = Drop(based.entries, {k})
      /\ freed.origin = based.origin
      /\ freed.last = based.last
  BY <1>1, CancelOK
<1>4. s = [freed EXCEPT !.entries = Put(freed.entries, k, entry),
                        !.buckets[Slot(tick)] =
                            freed.buckets[Slot(tick)] \cup {k}]
  BY DEF Schedule, based
<1>. HIDE DEF tick, freed, s
<1>5. s = [origin  |-> freed.origin,
           buckets |-> [freed.buckets EXCEPT ![Slot(tick)] =
                            freed.buckets[Slot(tick)] \cup {k}],
           entries |-> Put(freed.entries, k, entry),
           last    |-> freed.last]
  BY <1>3, <1>4 DEF WheelOK, WheelType
<1>6. Slot(tick) \in Slots
  BY <1>2, SlotType
<1>7. /\ IsDict(based.entries, Keys)
      /\ IsDict(freed.entries, Keys)
      /\ freed.buckets \in [Slots -> SUBSET Keys]
  BY <1>1, <1>3 DEF WheelOK, WheelType
<1>8. /\ DOMAIN freed.entries = DOMAIN based.entries \ {k}
      /\ \A x \in DOMAIN based.entries \ {k} :
           freed.entries[x] = based.entries[x]
  <2>1. IsDict(based.entries, Keys) /\ freed.entries = Drop(based.entries, {k})
    BY <1>3, <1>7
  <2>2. DOMAIN Drop(based.entries, {k}) = DOMAIN based.entries \ {k}
    BY <2>1, DropDict
  <2>3. \A x \in DOMAIN based.entries \ {k} :
          Drop(based.entries, {k})[x] = based.entries[x]
    BY <2>1, DropOther
  <2>. QED BY <2>1, <2>2, <2>3
<1>9. /\ IsDict(s.entries, Keys)
      /\ DOMAIN s.entries = DOMAIN based.entries \cup {k}
      /\ s.entries[k] = entry
      /\ \A x \in DOMAIN based.entries \ {k} :
           s.entries[x] = based.entries[x]
  <2>1. s.entries = Put(freed.entries, k, entry)  BY <1>5
  <2>. HIDE DEF entry
  <2>2. /\ IsDict(s.entries, Keys)
        /\ DOMAIN s.entries = DOMAIN freed.entries \cup {k}
        /\ s.entries[k] = entry
        /\ \A x \in DOMAIN freed.entries \ {k} :
             s.entries[x] = freed.entries[x]
    <3>1. IsDict(freed.entries, Keys)  BY <1>7
    <3>. QED BY <2>1, <3>1, PutDict, PutOther
  <2>. QED BY <1>8, <2>2
<1>10. WheelType(s)
  <2>1. s.buckets \in [Slots -> SUBSET Keys]
    BY <1>5, <1>6, <1>7
  <2>2. \A x \in DOMAIN s.entries : s.entries[x] \in [at : Int, tick : Int]
    BY <1>1, <1>2, <1>9 DEF WheelOK, WheelType
  <2>. QED BY <1>1, <1>3, <1>5, <1>9, <2>1, <2>2 DEF WheelOK, WheelType
<1>11. Indexed(s)
  <2>1. \A x \in Keys, b \in Slots :
          x \in s.buckets[b] <=> \/ x \in freed.buckets[b]
                                 \/ x = k /\ b = Slot(tick)
    BY <1>5, <1>6, <1>7
  <2>2. \A x \in Keys, b \in Slots :
          x \in freed.buckets[b] <=> /\ x \in DOMAIN freed.entries
                                     /\ Slot(freed.entries[x].tick) = b
    BY <1>3 DEF WheelOK, Indexed
  <2>. QED BY <1>8, <1>9, <2>1, <2>2 DEF Indexed
<1>12. TicksFresh(s)
  <2>1. s.origin = based.origin
    BY <1>3, <1>5
  <2>. QED BY <1>1, <1>2, <1>9, <2>1, WheelAssumption
    DEF WheelOK, TicksFresh, TickFor
<1>13. ScanAnchored(s)
  BY <1>1, <1>3, <1>5, WheelAssumption DEF ScanAnchored
<1>14. WheelOK(s)
  BY <1>10, <1>11, <1>12, <1>13 DEF WheelOK
<1>15. /\ DOMAIN s.entries = DOMAIN w.entries \cup {k}
       /\ s.entries[k].at = at
       /\ \A x \in DOMAIN w.entries \ {k} : s.entries[x].at = w.entries[x].at
  BY <1>1, <1>9
<1>16. Deadlines(s) = Put(Deadlines(w), k, at)
  BY <1>15 DEF Deadlines, Put
<1>17. s.last = w.last /\ s.origin = based.origin
  BY <1>1, <1>3, <1>5
<1>. QED BY <1>1, <1>14, <1>16, <1>17 DEF s

(* schedule, at a deadline that does not move the origin. *)
LEMMA ScheduleInPlace ==
  ASSUME NEW w, WheelOK(w), NEW k \in Keys, NEW at \in Int,
         w.origin # None, w.origin <= at
  PROVE  /\ Schedule(w, k, at).origin = w.origin
         /\ Schedule(w, k, at).entries =
              Put(Drop(w.entries, {k}), k, [at |-> at, tick |-> TickFor(w, at)])
<1>. DEFINE freed == Cancel(w, k)
            tick  == TickFor(w, at)
            entry == [at |-> at, tick |-> tick]
<1>1. w.origin \in Int /\ ~ (at < w.origin)
  BY DEF WheelOK, WheelType
<1>2. Anchor(w, at) = w
  BY DEF Anchor
<1>3. /\ WheelOK(freed)
      /\ freed.entries = Drop(w.entries, {k})
      /\ freed.origin = w.origin
  BY CancelOK
<1>4. Schedule(w, k, at) =
        [freed EXCEPT !.entries = Put(freed.entries, k, entry),
                      !.buckets[Slot(tick)] = freed.buckets[Slot(tick)] \cup {k}]
  BY <1>1, <1>2 DEF Schedule
<1>. HIDE DEF freed, tick, entry
<1>5. /\ Schedule(w, k, at).origin = freed.origin
      /\ Schedule(w, k, at).entries = Put(freed.entries, k, entry)
  BY <1>3, <1>4 DEF WheelOK, WheelType
<1>. QED BY <1>3, <1>5 DEF entry, tick

(* The scan of pop_due, from the tick after the last one to the current one. *)
LEMMA ScanOK ==
  ASSUME NEW w, WheelOK(w), w.origin # None, NEW now \in Int,
         w.last < TickFor(w, now)
  PROVE  /\ WheelOK(Scan(w, now))
         /\ Scan(w, now).entries = Drop(w.entries, DueKeys(w, now))
         /\ Scan(w, now).origin = w.origin
         /\ Scan(w, now).last = TickFor(w, now)
<1>. DEFINE due == DueKeys(w, now)
            s   == Scan(w, now)
            IsHit(k) == \E c \in Slots : Hit(w, now, k, c)
<1>1. s = [origin  |-> w.origin,
           buckets |-> [b \in Slots |->
                      {k \in w.buckets[b] : ~ Hit(w, now, k, b)}
                      \cup {k \in DOMAIN w.entries \ due :
                              /\ Slot(w.entries[k].tick) = b
                              /\ IsHit(k)}],
           entries |-> Drop(w.entries, due),
           last    |-> TickFor(w, now)]
  BY DEF Scan
<1>2. due = {k \in DOMAIN w.entries : w.entries[k].at <= now /\ IsHit(k)}
  BY DEF DueKeys
<1>3. /\ w.origin \in Int
      /\ TickFor(w, now) \in Int /\ TickFor(w, now) >= -1
  BY DivBounds DEF WheelOK, WheelType, TickFor
<1>4. IsDict(w.entries, Keys) /\ w.buckets \in [Slots -> SUBSET Keys]
  BY DEF WheelOK, WheelType
<1>. HIDE DEF s, due
<1>5. /\ IsDict(s.entries, Keys)
      /\ DOMAIN s.entries = DOMAIN w.entries \ due
      /\ \A k \in DOMAIN w.entries \ due : s.entries[k] = w.entries[k]
  <2>1. s.entries = Drop(w.entries, due)  BY <1>1
  <2>2. IsDict(Drop(w.entries, due), Keys)
        /\ DOMAIN Drop(w.entries, due) = DOMAIN w.entries \ due
    BY <1>4, DropDict
  <2>3. \A k \in DOMAIN w.entries \ due :
          Drop(w.entries, due)[k] = w.entries[k]
    BY <1>4, DropOther
  <2>. QED BY <2>1, <2>2, <2>3
<1>6. \A k \in Keys, b \in Slots :
        k \in w.buckets[b] <=> /\ k \in DOMAIN w.entries
                               /\ Slot(w.entries[k].tick) = b
  BY DEF WheelOK, Indexed
<1>7. \A k, b : Hit(w, now, k, b) => k \in w.buckets[b]
  BY DEF Hit
<1>. HIDE DEF IsHit
<1>8. \A k \in DOMAIN w.entries :
        IsHit(k) <=> Hit(w, now, k, Slot(w.entries[k].tick))
  BY <1>4, <1>6, <1>7, SlotType DEF IsHit, IsDict, WheelOK, WheelType
<1>9. WheelType(s)
  <2>1. s.buckets \in [Slots -> SUBSET Keys]
    BY <1>1, <1>4 DEF IsDict
  <2>2. \A k \in DOMAIN s.entries : s.entries[k] \in [at : Int, tick : Int]
    BY <1>5 DEF WheelOK, WheelType
  <2>3. s.last \in Int /\ s.last >= -1 /\ s.origin \in Int
    BY <1>1, <1>3
  <2>4. s = [origin  |-> s.origin,  buckets |-> s.buckets,
             entries |-> s.entries, last    |-> s.last]
    BY <1>1
  <2>. QED BY <1>5, <2>1, <2>2, <2>3, <2>4 DEF WheelType
<1>10. Indexed(s)
  <2>. SUFFICES ASSUME NEW k \in Keys, NEW b \in Slots
               PROVE  k \in s.buckets[b] <=>
                         /\ k \in DOMAIN w.entries \ due
                         /\ Slot(w.entries[k].tick) = b
    BY <1>5 DEF Indexed
  <2>1. k \in s.buckets[b] <=>
          \/ k \in w.buckets[b] /\ ~ Hit(w, now, k, b)
          \/ /\ k \in DOMAIN w.entries \ due
             /\ Slot(w.entries[k].tick) = b
             /\ IsHit(k)
    BY <1>1
  <2>. QED BY <1>2, <1>6, <1>8, <2>1
<1>11. TicksFresh(s)
  BY <1>1, <1>5 DEF WheelOK, TicksFresh, TickFor
<1>12. ScanAnchored(s)
  BY <1>1 DEF ScanAnchored
<1>. QED BY <1>1, <1>9, <1>10, <1>11, <1>12 DEF WheelOK, due, s

(* pop_due *)
LEMMA PopDueOK ==
  ASSUME NEW w, WheelOK(w), NEW now \in Int
  PROVE  LET p == PopDue(w, now)
         IN  /\ WheelOK(p.wheel)
             /\ p.due \subseteq DOMAIN w.entries
             /\ \A k \in p.due : w.entries[k].at <= now
             /\ p.wheel.entries = Drop(w.entries, p.due)
             /\ Deadlines(p.wheel) = Drop(Deadlines(w), p.due)
             /\ p.wheel.origin = Anchor(w, now).origin
             /\ TickFor(Anchor(w, now), now) <= p.wheel.last
<1>. DEFINE a == Anchor(w, now)
            p == PopDue(w, now)
<1>1. WheelOK(a) /\ a.origin # None /\ a.entries = w.entries
  BY AnchorOK, WheelAssumption
<1>2. /\ TickFor(a, now) \in Int /\ a.last \in Int
      /\ IsDict(w.entries, Keys)
  BY <1>1, DivBounds DEF WheelOK, WheelType, TickFor
<1>3. CASE TickFor(a, now) <= a.last
  <2>1. p = [wheel |-> a, due |-> {}]
    BY <1>3 DEF PopDue
  <2>2. Drop(w.entries, {}) = w.entries
    BY DEF Drop, Restrict, WheelOK, WheelType, IsDict
  <2>. HIDE DEF a, p
  <2>3. /\ WheelOK(p.wheel) /\ p.due = {} /\ p.wheel.entries = Drop(w.entries, {})
        /\ p.wheel.origin = a.origin /\ TickFor(a, now) <= p.wheel.last
    BY <1>1, <1>3, <2>1, <2>2
  <2>4. Deadlines(p.wheel) = Drop(Deadlines(w), p.due)
    BY <1>2, <2>3, DropDeadlines
  <2>. QED BY <2>3, <2>4 DEF a, p
<1>4. CASE ~ (TickFor(a, now) <= a.last)
  <2>1. p = [wheel |-> Scan(a, now), due |-> DueKeys(a, now)]
    BY <1>4 DEF PopDue
  <2>2. a.last < TickFor(a, now)
    BY <1>2, <1>4
  <2>3. /\ DueKeys(a, now) \subseteq DOMAIN w.entries
        /\ \A k \in DueKeys(a, now) : w.entries[k].at <= now
    BY <1>1 DEF DueKeys
  <2>. HIDE DEF a, p
  <2>4. /\ WheelOK(Scan(a, now))
        /\ Scan(a, now).entries = Drop(a.entries, DueKeys(a, now))
        /\ Scan(a, now).origin = a.origin
        /\ Scan(a, now).last = TickFor(a, now)
    BY <1>1, <2>2, ScanOK
  <2>5. p.wheel = Scan(a, now) /\ p.due = DueKeys(a, now)
    BY <2>1
  <2>6. p.wheel.entries = Drop(w.entries, p.due)
    BY <1>1, <2>4, <2>5
  <2>7. Deadlines(p.wheel) = Drop(Deadlines(w), p.due)
    BY <1>2, <2>6, DropDeadlines
  <2>. QED BY <1>1, <1>2, <2>3, <2>4, <2>5, <2>6, <2>7 DEF a, p
<1>. QED BY <1>3, <1>4

-----------------------------------------------------------------------------
(* With timestamps that do not go back, no timer is passed by a revolution. *)

LEMMA UnscannedOneRevolution ==
  ASSUME NEW w, WheelOK(w), w.last < 0
  PROVE  OneRevolution(w)
<1>. SUFFICES ASSUME NEW k \in DOMAIN w.entries
              PROVE  w.last < w.entries[k].tick + BucketCount
  BY DEF OneRevolution
<1>1. /\ w.origin \in Int /\ w.entries[k].at \in Int
      /\ w.entries[k].at - w.origin \in Nat
      /\ w.entries[k].tick = (w.entries[k].at - w.origin) \div TickLen
  BY DEF WheelOK, WheelType, TicksFresh, TickFor
<1>2. w.entries[k].tick \in Nat
  BY <1>1, DivNonNegative
<1>. QED BY <1>2, WheelAssumption DEF WheelOK, WheelType

(* schedule: a deadline that is not in the past. *)
LEMMA ScheduleTimely ==
  ASSUME NEW w, WheelOK(w), NEW k \in Keys, NEW now \in Int, NEW at \in Int,
         now <= at, ScanBehind(w, now), OneRevolution(w)
  PROVE  /\ ScanBehind(Schedule(w, k, at), now)
         /\ OneRevolution(Schedule(w, k, at))
<1>. DEFINE s == Schedule(w, k, at)
<1>1. WheelOK(s) /\ s.last = w.last
  BY ScheduleOK
<1>2. w.last \in Int
  BY DEF WheelOK, WheelType
<1>3. CASE w.last < 0
  BY <1>1, <1>2, <1>3, UnscannedOneRevolution DEF ScanBehind
<1>4. CASE w.last >= 0
  <2>1. /\ w.origin \in Int /\ w.origin # None
        /\ w.origin <= now /\ w.last <= TickFor(w, now)
    BY <1>4, WheelAssumption DEF WheelOK, WheelType, ScanAnchored, ScanBehind
  <2>2. /\ s.origin = w.origin
        /\ s.entries = Put(Drop(w.entries, {k}), k,
                           [at |-> at, tick |-> TickFor(w, at)])
    <3>1. w.origin <= at
      BY <2>1
    <3>. QED BY <2>1, <3>1, ScheduleInPlace
  <2>3. TickFor(w, now) <= TickFor(w, at) /\ TickFor(w, at) \in Int
        /\ TickFor(w, now) \in Int
    BY <2>1, DivMonotone, DivBounds DEF TickFor
  <2>4. IsDict(w.entries, Keys)
    BY DEF WheelOK, WheelType
  <2>. DEFINE kept == Drop(w.entries, {k})
  <2>5. IsDict(kept, Keys) /\ DOMAIN kept = DOMAIN w.entries \ {k}
    BY <2>4, DropDict
  <2>6. \A x \in DOMAIN w.entries \ {k} : kept[x] = w.entries[x]
    BY <2>4, DropOther
  <2>. HIDE DEF kept
  <2>7. /\ DOMAIN s.entries = DOMAIN kept \cup {k}
        /\ s.entries[k] = [at |-> at, tick |-> TickFor(w, at)]
    BY <2>2, <2>5, PutDict DEF kept
  <2>8. \A x \in DOMAIN kept \ {k} : s.entries[x] = kept[x]
    BY <2>2, <2>5, PutOther DEF kept
  <2>9. OneRevolution(s)
    <3>. HIDE DEF s
    <3>. SUFFICES ASSUME NEW x \in DOMAIN s.entries
                 PROVE  s.last < s.entries[x].tick + BucketCount
      BY DEF OneRevolution
    <3>1. CASE x = k
      BY <1>1, <1>2, <2>1, <2>3, <2>7, <3>1, WheelAssumption
    <3>2. CASE x # k
      BY <1>1, <2>5, <2>6, <2>7, <2>8, <3>2 DEF OneRevolution
    <3>. QED BY <3>1, <3>2
  <2>10. ScanBehind(s, now)
    BY <1>1, <2>1, <2>2 DEF ScanBehind, TickFor
  <2>. QED BY <2>9, <2>10
<1>. QED BY <1>2, <1>3, <1>4

(* pop_due *)
LEMMA PopDueTimely ==
  ASSUME NEW w, WheelOK(w), NEW now \in Int,
         ScanBehind(w, now), OneRevolution(w)
  PROVE  /\ ScanBehind(PopDue(w, now).wheel, now)
         /\ OneRevolution(PopDue(w, now).wheel)
<1>. DEFINE a == Anchor(w, now)
            p == PopDue(w, now)
            cur == TickFor(a, now)
<1>1. /\ WheelOK(a) /\ a.origin \in Int /\ a.origin # None
      /\ a.entries = w.entries /\ a.last = w.last
      /\ w.origin # None => a = w
  BY AnchorOK, WheelAssumption
<1>2. /\ cur = (now - a.origin) \div TickLen /\ cur \in Int
      /\ a.last \in Int
      /\ IsDict(a.entries, Keys)
  BY <1>1, DivBounds DEF WheelOK, WheelType, TickFor
<1>. HIDE DEF a
<1>3. CASE cur <= a.last
  <2>1. p.wheel = a
    BY <1>3 DEF PopDue, a
  <2>2. ScanBehind(a, now) /\ OneRevolution(a)
    BY <1>1, WheelAssumption DEF WheelOK, ScanAnchored, ScanBehind, OneRevolution
  <2>. QED BY <2>1, <2>2
<1>4. CASE ~ (cur <= a.last)
  <2>1. p.wheel = Scan(a, now)
    BY <1>4 DEF PopDue, a
  <2>2. a.last < TickFor(a, now)
    BY <1>2, <1>4
  <2>. DEFINE s == Scan(a, now)
  <2>3. /\ s.entries = Drop(a.entries, DueKeys(a, now))
        /\ s.origin = a.origin
        /\ s.last = cur
    BY <1>1, <2>2, ScanOK
  <2>. HIDE DEF s, p
  <2>4. ScanBehind(s, now)
    <3>. SUFFICES ASSUME cur >= 0  PROVE s.origin <= now /\ s.last <= TickFor(s, now)
      BY <2>3 DEF ScanBehind
    <3>1. (now - a.origin) >= 0
      BY <1>1, <1>2, WheelAssumption
    <3>. QED BY <1>1, <1>2, <2>3, <3>1 DEF TickFor
  <2>5. OneRevolution(s)
    <3>. SUFFICES ASSUME NEW k \in DOMAIN s.entries,
                        ~ (cur < s.entries[k].tick + BucketCount)
                 PROVE  FALSE
      BY <2>3 DEF OneRevolution
    <3>1. k \in DOMAIN a.entries \ DueKeys(a, now)
      BY <1>2, <2>3, DropDict
    <3>2. s.entries[k] = a.entries[k]
      BY <1>2, <2>3, <3>1, DropOther
    <3>. DEFINE t == a.entries[k].tick
                b == Slot(t)
    <3>3. /\ t \in Int /\ a.entries[k].at \in Int
          /\ t = (a.entries[k].at - a.origin) \div TickLen
          /\ a.last < t + BucketCount
      BY <1>1, <3>1 DEF WheelOK, WheelType, TicksFresh, TickFor, OneRevolution
    <3>4. cur >= t + BucketCount
      BY <1>2, <3>2, <3>3, WheelAssumption
    <3>5. a.entries[k].at <= now
      <4>1. SUFFICES ASSUME now <= a.entries[k].at  PROVE FALSE
        BY <3>3
      <4>2. cur <= t
        BY <1>1, <1>2, <3>3, <4>1, DivMonotone
      <4>. QED BY <1>2, <3>3, <3>4, <4>2, WheelAssumption
    <3>6. t + BucketCount \in a.last + 1 .. cur
      BY <1>2, <3>3, <3>4, WheelAssumption
    <3>7. Slot(t + BucketCount) = b /\ b \in Slots
      BY <3>3, SlotAfterRevolution, SlotType
    <3>8. k \in a.buckets[b]
      BY <1>1, <1>2, <3>1, <3>7 DEF WheelOK, Indexed, IsDict
    <3>9. Hit(a, now, k, b)
      BY <3>3, <3>6, <3>7, <3>8, WheelAssumption DEF Hit
    <3>. QED BY <3>1, <3>5, <3>7, <3>9 DEF DueKeys
  <2>. QED BY <2>1, <2>4, <2>5 DEF s, p
<1>. QED BY <1>3, <1>4

-----------------------------------------------------------------------------
(* The store. *)

(* The facts of StoreOK that the proofs below use, on records taken apart. *)
LEMMA StoreParts ==
  ASSUME NEW V, NEW s, StoreOK(s, V)
  PROVE  /\ IsDict(s.data, Keys) /\ IsDict(s.expiresAt, Keys)
         /\ WheelOK(s.wheel) /\ IsDict(s.wheel.entries, Keys)
         /\ s = [data |-> s.data, expiresAt |-> s.expiresAt, wheel |-> s.wheel]
         /\ \A k \in DOMAIN s.data : s.data[k] \in V
         /\ \A k \in DOMAIN s.expiresAt : s.expiresAt[k] \in Int
BY DEF StoreOK, StoreType, WheelType

(* __init__ *)
LEMMA NewStoreOK == \A V : StoreOK(NewStore, V)
<1>1. Deadlines(NewWheel) = EmptyDict
  BY NewWheelOK DEF Deadlines, EmptyDict
<1>. QED BY <1>1, NewWheelOK, EmptyIsDict
  DEF NewStore, StoreOK, StoreType, TimersMatch, WheelOK

(* process_expirations: the keys the wheel returns are the ones deleted.   *)
LEMMA ProcessOK ==
  ASSUME NEW V, NEW s, StoreOK(s, V), NEW t \in Int
  PROVE  StoreOK(ProcessExpirations(s, t), V)
<1>. DEFINE w == s.wheel
            popped == PopDue(w, t)
            p == ProcessExpirations(s, t)
            expired == {k \in popped.due \cap DOMAIN s.expiresAt :
                          s.expiresAt[k] <= t}
<1>1. /\ WheelOK(popped.wheel)
      /\ popped.due \subseteq DOMAIN w.entries
      /\ \A k \in popped.due : w.entries[k].at <= t
      /\ Deadlines(popped.wheel) = Drop(Deadlines(w), popped.due)
  BY StoreParts, PopDueOK
<1>2. p = [data      |-> Drop(s.data, expired),
           expiresAt |-> Drop(s.expiresAt, expired),
           wheel     |-> popped.wheel]
  BY DEF ProcessExpirations
<1>. HIDE DEF p, popped
<1>3. expired = popped.due
  BY <1>1 DEF StoreOK, TimersMatch, Deadlines
<1>. HIDE DEF expired
<1>4. /\ IsDict(p.data, Keys) /\ DOMAIN p.data = DOMAIN s.data \ expired
      /\ IsDict(p.expiresAt, Keys)
      /\ DOMAIN p.expiresAt = DOMAIN s.expiresAt \ expired
  BY <1>2, StoreParts, DropDict
<1>5. /\ \A k \in DOMAIN p.data : p.data[k] = s.data[k]
      /\ \A k \in DOMAIN p.expiresAt : p.expiresAt[k] = s.expiresAt[k]
  <2>1. \A k \in DOMAIN s.data \ expired : Drop(s.data, expired)[k] = s.data[k]
    BY StoreParts, DropOther
  <2>2. \A k \in DOMAIN s.expiresAt \ expired :
          Drop(s.expiresAt, expired)[k] = s.expiresAt[k]
    BY StoreParts, DropOther
  <2>. QED BY <1>2, <1>4, <2>1, <2>2
<1>6. TimersMatch(p)
  BY <1>1, <1>2, <1>3, <1>4 DEF StoreOK, TimersMatch
<1>7. StoreType(p, V)
  BY <1>1, <1>2, <1>4, <1>5, StoreParts DEF StoreType, WheelOK
<1>. QED BY <1>1, <1>2, <1>6, <1>7 DEF StoreOK, p

(* _clear_expiry, called while the key may already be gone from the data.  *)
LEMMA ClearExpiryOK ==
  ASSUME NEW V, NEW s, NEW k \in Keys, StoreType(s, V), WheelOK(s.wheel),
         Deadlines(s.wheel) = s.expiresAt,
         DOMAIN s.expiresAt \ {k} \subseteq DOMAIN s.data
  PROVE  StoreOK(ClearExpiry(s, k), V)
<1>. DEFINE c == ClearExpiry(s, k)
<1>1. c = [data      |-> s.data,
           expiresAt |-> Drop(s.expiresAt, {k}),
           wheel     |-> Cancel(s.wheel, k)]
  BY DEF ClearExpiry
<1>2. /\ WheelOK(Cancel(s.wheel, k))
      /\ Deadlines(Cancel(s.wheel, k)) = Drop(s.expiresAt, {k})
  BY CancelOK
<1>. HIDE DEF c
<1>3. IsDict(s.expiresAt, Keys)
  BY DEF StoreType
<1>4. /\ IsDict(c.expiresAt, Keys)
      /\ DOMAIN c.expiresAt = DOMAIN s.expiresAt \ {k}
  BY <1>1, <1>3, DropDict
<1>5. \A x \in DOMAIN s.expiresAt \ {k} : c.expiresAt[x] = s.expiresAt[x]
  BY <1>1, <1>3, DropOther
<1>6. TimersMatch(c)
  BY <1>1, <1>2, <1>4 DEF TimersMatch
<1>7. StoreType(c, V)
  BY <1>1, <1>2, <1>4, <1>5 DEF StoreType, WheelOK
<1>. QED BY <1>1, <1>2, <1>6, <1>7 DEF StoreOK, c

(* set *)
LEMMA SetKeyOK ==
  ASSUME NEW V, NEW s, StoreOK(s, V), NEW k \in Keys, NEW v \in V, NEW t \in Int
  PROVE  StoreOK(SetKey(s, k, v, t), V)
<1>. DEFINE p == ProcessExpirations(s, t)
            q == [p EXCEPT !.data = Put(p.data, k, v)]
<1>1. StoreOK(p, V)
  BY ProcessOK
<1>. HIDE DEF p
<1>2. q = [data |-> Put(p.data, k, v), expiresAt |-> p.expiresAt,
           wheel |-> p.wheel]
  BY <1>1, StoreParts
<1>3. IsDict(p.data, Keys)
  BY <1>1, StoreParts
<1>. HIDE DEF q
<1>4. /\ IsDict(q.data, Keys) /\ DOMAIN q.data = DOMAIN p.data \cup {k}
      /\ q.data[k] = v
  BY <1>2, <1>3, PutDict
<1>5. \A x \in DOMAIN p.data \ {k} : q.data[x] = p.data[x]
  BY <1>2, <1>3, PutOther
<1>6. StoreType(q, V)
  BY <1>1, <1>2, <1>4, <1>5 DEF StoreOK, StoreType
<1>7. StoreOK(ClearExpiry(q, k), V)
  <2>1. /\ WheelOK(q.wheel)
        /\ Deadlines(q.wheel) = q.expiresAt
        /\ DOMAIN q.expiresAt \ {k} \subseteq DOMAIN q.data
    BY <1>1, <1>2, <1>4 DEF StoreOK, TimersMatch
  <2>. QED BY <1>6, <2>1, ClearExpiryOK
<1>. QED BY <1>7 DEF SetKey, q, p

(* delete *)
LEMMA DeleteKeyOK ==
  ASSUME NEW V, NEW s, StoreOK(s, V), NEW k \in Keys, NEW t \in Int
  PROVE  StoreOK(DeleteKey(s, k, t).store, V)
<1>. DEFINE p == ProcessExpirations(s, t)
            q == [p EXCEPT !.data = Drop(p.data, {k})]
<1>1. StoreOK(p, V)
  BY ProcessOK
<1>2. CASE k \notin DOMAIN p.data
  BY <1>1, <1>2 DEF DeleteKey
<1>3. CASE k \in DOMAIN p.data
  <2>1. DeleteKey(s, k, t).store = ClearExpiry(q, k)
    BY <1>3 DEF DeleteKey
  <2>. HIDE DEF p
  <2>2. q = [data |-> Drop(p.data, {k}), expiresAt |-> p.expiresAt,
             wheel |-> p.wheel]
    BY <1>1, StoreParts
  <2>3. IsDict(p.data, Keys)
    BY <1>1, StoreParts
  <2>. HIDE DEF q
  <2>4. IsDict(q.data, Keys) /\ DOMAIN q.data = DOMAIN p.data \ {k}
    BY <2>2, <2>3, DropDict
  <2>5. \A x \in DOMAIN p.data \ {k} : q.data[x] = p.data[x]
    BY <2>2, <2>3, DropOther
  <2>6. StoreType(q, V)
    BY <1>1, <2>2, <2>4, <2>5 DEF StoreOK, StoreType
  <2>7. /\ WheelOK(q.wheel)
        /\ Deadlines(q.wheel) = q.expiresAt
        /\ DOMAIN q.expiresAt \ {k} \subseteq DOMAIN q.data
    BY <1>1, <2>2, <2>4 DEF StoreOK, TimersMatch
  <2>8. StoreOK(ClearExpiry(q, k), V)
    BY <2>6, <2>7, ClearExpiryOK
  <2>. QED BY <2>1, <2>8
<1>. QED BY <1>2, <1>3

(* expire *)
LEMMA ExpireKeyOK ==
  ASSUME NEW V, NEW s, StoreOK(s, V), NEW k \in Keys, NEW ttl \in Int,
         NEW t \in Int, NEW later \in Int
  PROVE  StoreOK(ExpireKey(s, k, ttl, t, later).store, V)
<1>. DEFINE p  == ProcessExpirations(s, t)
            at == later + ttl * Second
            q  == [data      |-> p.data,
                   expiresAt |-> Put(p.expiresAt, k, at),
                   wheel     |-> Schedule(p.wheel, k, at)]
<1>1. StoreOK(p, V)
  BY ProcessOK
<1>2. at \in Int
  BY SecondAssumption
<1>3. CASE k \notin DOMAIN p.data
  BY <1>1, <1>3 DEF ExpireKey
<1>4. CASE k \in DOMAIN p.data /\ ttl <= 0
  <2>1. ExpireKey(s, k, ttl, t, later).store = DeleteKey(p, k, later).store
    BY <1>4 DEF ExpireKey
  <2>. QED BY <1>1, <2>1, DeleteKeyOK
<1>5. CASE k \in DOMAIN p.data /\ ttl > 0
  <2>1. ExpireKey(s, k, ttl, t, later).store = q
    BY <1>5 DEF ExpireKey
  <2>. HIDE DEF p, at
  <2>2. q = [data |-> p.data, expiresAt |-> Put(p.expiresAt, k, at),
             wheel |-> Schedule(p.wheel, k, at)]
    OBVIOUS
  <2>. HIDE DEF q
  <2>3. /\ IsDict(p.expiresAt, Keys) /\ WheelOK(p.wheel)
    BY <1>1, StoreParts
  <2>4. /\ IsDict(q.expiresAt, Keys)
        /\ DOMAIN q.expiresAt = DOMAIN p.expiresAt \cup {k}
        /\ q.expiresAt[k] = at
    BY <2>2, <2>3, PutDict
  <2>5. \A x \in DOMAIN p.expiresAt \ {k} : q.expiresAt[x] = p.expiresAt[x]
    BY <2>2, <2>3, PutOther
  <2>6. /\ WheelOK(Schedule(p.wheel, k, at))
        /\ Deadlines(Schedule(p.wheel, k, at)) = Put(Deadlines(p.wheel), k, at)
    BY <1>2, <2>3, ScheduleOK
  <2>7. TimersMatch(q)
    BY <1>1, <1>5, <2>2, <2>4, <2>6 DEF StoreOK, TimersMatch
  <2>8. StoreType(q, V)
    BY <1>1, <1>2, <2>2, <2>4, <2>5, <2>6 DEF StoreOK, StoreType, WheelOK
  <2>. QED BY <2>1, <2>2, <2>6, <2>7, <2>8 DEF StoreOK
<1>. QED BY <1>3, <1>4, <1>5

(* ttl *)
LEMMA KeyTtlOK ==
  ASSUME NEW V, NEW s, StoreOK(s, V), NEW k \in Keys,
         NEW t \in Int, NEW later \in Int
  PROVE  StoreOK(KeyTtl(s, k, t, later).store, V)
<1>. DEFINE p == ProcessExpirations(s, t)
<1>1. StoreOK(p, V)
  BY ProcessOK
<1>2. \/ KeyTtl(s, k, t, later).store = p
      \/ KeyTtl(s, k, t, later).store = DeleteKey(p, k, later).store
  BY DEF KeyTtl
<1>. QED BY <1>1, <1>2, DeleteKeyOK

-----------------------------------------------------------------------------
(* A clock that does not go back. *)

\* At time t the scan has neither passed the clock nor left a timer behind
\* by a revolution.
Timely(s, V, t) == StoreOK(s, V) /\ ScanBehind(s.wheel, t) /\ OneRevolution(s.wheel)

(* Time passes. *)
LEMMA TimelyLater ==
  ASSUME NEW V, NEW s, NEW t \in Int, NEW u \in Int, t <= u, Timely(s, V, t)
  PROVE  Timely(s, V, u)
<1>. DEFINE w == s.wheel
<1>. HIDE DEF w
<1>1. WheelOK(w) /\ ScanBehind(w, t)
  BY DEF Timely, StoreOK, w
<1>2. ASSUME w.last >= 0  PROVE w.origin <= u /\ w.last <= TickFor(w, u)
  <2>1. /\ w.origin \in Int /\ w.last \in Int
        /\ w.origin <= t /\ w.last <= TickFor(w, t)
    BY <1>1, <1>2, WheelAssumption DEF WheelOK, WheelType, ScanAnchored, ScanBehind
  <2>2. /\ TickFor(w, t) <= TickFor(w, u)
        /\ TickFor(w, t) \in Int /\ TickFor(w, u) \in Int
    BY <2>1, DivMonotone, DivBounds DEF TickFor
  <2>. QED BY <2>1, <2>2
<1>. QED BY <1>2 DEF Timely, ScanBehind, w

(* cancel: the scan stays where it is. *)
LEMMA CancelTimely ==
  ASSUME NEW w, WheelOK(w), NEW k \in Keys, NEW t \in Int,
         ScanBehind(w, t), OneRevolution(w)
  PROVE  ScanBehind(Cancel(w, k), t) /\ OneRevolution(Cancel(w, k))
<1>. DEFINE c == Cancel(w, k)
<1>1. c.origin = w.origin /\ c.last = w.last /\ c.entries = Drop(w.entries, {k})
  BY CancelOK
<1>2. IsDict(w.entries, Keys)
  BY DEF WheelOK, WheelType
<1>. HIDE DEF c
<1>3. DOMAIN c.entries = DOMAIN w.entries \ {k}
  BY <1>1, <1>2, DropDict
<1>4. \A x \in DOMAIN w.entries \ {k} : c.entries[x] = w.entries[x]
  BY <1>1, <1>2, DropOther
<1>5. ScanBehind(c, t) /\ OneRevolution(c)
  BY <1>1, <1>3, <1>4 DEF ScanBehind, OneRevolution, TickFor
<1>. QED BY <1>5 DEF c

(* process_expirations deletes keys whose deadline has passed, and leaves  *)
(* none that is a revolution late.                                         *)
LEMMA ProcessEvicts ==
  ASSUME NEW V, NEW s, NEW t \in Int, Timely(s, V, t)
  PROVE  /\ Timely(ProcessExpirations(s, t), V, t)
         /\ \E E \in SUBSET DOMAIN s.expiresAt :
              /\ ProcessExpirations(s, t).data = Drop(s.data, E)
              /\ ProcessExpirations(s, t).expiresAt = Drop(s.expiresAt, E)
              /\ \A k \in E : s.expiresAt[k] <= t
              /\ \A k \in DOMAIN s.expiresAt \ E :
                   t < s.expiresAt[k] + BucketCount * TickLen
<1>. DEFINE w == s.wheel
            popped == PopDue(w, t)
            p == ProcessExpirations(s, t)
            E == popped.due \cap {k \in DOMAIN s.expiresAt : s.expiresAt[k] <= t}
            n == popped.wheel
<1>1. StoreOK(s, V) /\ WheelOK(w) /\ IsDict(s.expiresAt, Keys) /\ IsDict(w.entries, Keys)
  BY StoreParts DEF Timely
<1>2. /\ WheelOK(n) /\ popped.due \subseteq DOMAIN w.entries
      /\ n.entries = Drop(w.entries, popped.due)
      /\ n.origin = Anchor(w, t).origin
      /\ TickFor(Anchor(w, t), t) <= n.last
      /\ \A k \in popped.due : w.entries[k].at <= t
  BY <1>1, PopDueOK
<1>3. ScanBehind(n, t) /\ OneRevolution(n)
  BY <1>1, PopDueTimely DEF Timely
<1>4. /\ p.wheel = n
      /\ p.data = Drop(s.data, E) /\ p.expiresAt = Drop(s.expiresAt, E)
  <2>. DEFINE F == {k \in popped.due \cap DOMAIN s.expiresAt : s.expiresAt[k] <= t}
  <2>1. E = F
    OBVIOUS
  <2>2. p = [data |-> Drop(s.data, F), expiresAt |-> Drop(s.expiresAt, F), wheel |-> n]
    BY DEF ProcessExpirations
  <2>. HIDE DEF E, F, p, n
  <2>. QED BY <2>1, <2>2
<1>5. /\ DOMAIN s.expiresAt = DOMAIN w.entries
      /\ \A k \in DOMAIN w.entries : s.expiresAt[k] = w.entries[k].at
  BY <1>1 DEF StoreOK, TimersMatch, Deadlines
<1>. HIDE DEF popped, n
<1>6. ASSUME NEW k \in DOMAIN s.expiresAt \ E
      PROVE  t < s.expiresAt[k] + BucketCount * TickLen
  <2>1. k \in DOMAIN w.entries \ popped.due
    <3>1. k \in DOMAIN w.entries /\ s.expiresAt[k] = w.entries[k].at
      BY <1>5
    <3>2. ASSUME k \in popped.due  PROVE FALSE
      <4>1. w.entries[k].at <= t
        BY <1>2, <3>2
      <4>. QED BY <3>1, <3>2, <4>1
    <3>. QED BY <3>1, <3>2
  <2>2. k \in DOMAIN n.entries /\ n.entries[k] = w.entries[k]
    <3>1. DOMAIN n.entries = DOMAIN w.entries \ popped.due
      BY <1>1, <1>2, DropDict
    <3>2. Drop(w.entries, popped.due)[k] = w.entries[k]
      BY <1>1, <2>1, DropOther
    <3>. QED BY <1>2, <2>1, <3>1, <3>2
  <2>. DEFINE at == w.entries[k].at
              o == n.origin
              tick == (at - o) \div TickLen
              cur == (t - o) \div TickLen
  <2>3. at \in Int /\ o \in Int /\ n.last \in Int /\ n.last < tick + BucketCount
    <3>1. n.last < n.entries[k].tick + BucketCount /\ n.entries[k].tick = TickFor(n, n.entries[k].at)
      BY <1>2, <1>3, <2>2 DEF WheelOK, TicksFresh, OneRevolution
    <3>2. n.origin # None /\ n.origin \in Int \cup {None} /\ n.last \in Int /\ w.entries[k].at \in Int
      BY <1>1, <1>2, <2>1, <2>2 DEF WheelOK, WheelType, TicksFresh
    <3>. QED BY <2>2, <3>1, <3>2 DEF TickFor
  <2>4. cur <= n.last
    BY <1>2 DEF TickFor
  <2>. HIDE DEF w, at, o
  <2>5. /\ tick \in Int /\ cur \in Int
        /\ tick * TickLen <= at - o
        /\ t - o < cur * TickLen + TickLen
    BY <2>3, DivBounds
  <2>. HIDE DEF tick, cur
  <2>6. cur + 1 <= tick + BucketCount
    BY <2>3, <2>4, <2>5, WheelAssumption
  <2>7. (cur + 1) * TickLen <= (tick + BucketCount) * TickLen
    BY <2>5, <2>6, WheelAssumption
  <2>8. /\ (cur + 1) * TickLen = cur * TickLen + TickLen
        /\ (tick + BucketCount) * TickLen = tick * TickLen + BucketCount * TickLen
    BY <2>5, WheelAssumption
  <2>9. /\ cur * TickLen \in Int /\ tick * TickLen \in Int /\ BucketCount * TickLen \in Int
        /\ TickLen \in Int
    BY <2>5, WheelAssumption
  <2>10. t < at + BucketCount * TickLen
    BY <2>3, <2>5, <2>7, <2>8, <2>9
  <2>. QED BY <1>5, <2>1, <2>10 DEF at
<1>7. StoreOK(p, V)
  BY <1>1, ProcessOK
<1>8. Timely(p, V, t)
  BY <1>3, <1>4, <1>7 DEF Timely
<1>9. E \in SUBSET DOMAIN s.expiresAt /\ \A k \in E : s.expiresAt[k] <= t
  OBVIOUS
<1>. QED BY <1>4, <1>6, <1>8, <1>9

(* set: the value, and no deadline. *)
LEMMA SetKeyTimely ==
  ASSUME NEW V, NEW s, NEW k \in Keys, NEW v \in V, NEW t \in Int, Timely(s, V, t)
  PROVE  LET p == ProcessExpirations(s, t)
             r == SetKey(s, k, v, t)
         IN  /\ Timely(r, V, t)
             /\ r.data = Put(p.data, k, v) /\ r.expiresAt = Drop(p.expiresAt, {k})
<1>. DEFINE p == ProcessExpirations(s, t)
            q == [p EXCEPT !.data = Put(p.data, k, v)]
            r == SetKey(s, k, v, t)
<1>1. Timely(p, V, t)
  BY ProcessEvicts
<1>2. StoreOK(r, V)
  BY SetKeyOK DEF Timely
<1>3. r = ClearExpiry(q, k)
  BY DEF SetKey
<1>. HIDE DEF p, r
<1>4. q.data = Put(p.data, k, v) /\ q.expiresAt = p.expiresAt /\ q.wheel = p.wheel
  BY <1>1, StoreParts DEF Timely
<1>. HIDE DEF q
<1>5. r.data = q.data /\ r.expiresAt = Drop(q.expiresAt, {k}) /\ r.wheel = Cancel(q.wheel, k)
  BY <1>3 DEF ClearExpiry
<1>6. ScanBehind(r.wheel, t) /\ OneRevolution(r.wheel)
  BY <1>1, <1>4, <1>5, CancelTimely DEF Timely, StoreOK
<1>. QED BY <1>2, <1>4, <1>5, <1>6 DEF Timely, p, r

(* delete: neither the value nor the deadline. *)
LEMMA DeleteKeyTimely ==
  ASSUME NEW V, NEW s, NEW k \in Keys, NEW t \in Int, Timely(s, V, t)
  PROVE  LET p == ProcessExpirations(s, t)
             r == DeleteKey(s, k, t)
         IN  /\ Timely(r.store, V, t)
             /\ r.store.data = Drop(p.data, {k})
             /\ r.store.expiresAt = Drop(p.expiresAt, {k})
             /\ k \in DOMAIN p.data => r.reply = 1
             /\ k \notin DOMAIN p.data => r.reply = 0
<1>. DEFINE p == ProcessExpirations(s, t)
            q == [p EXCEPT !.data = Drop(p.data, {k})]
            r == DeleteKey(s, k, t)
<1>1. Timely(p, V, t) /\ StoreOK(p, V)
  BY ProcessEvicts DEF Timely
<1>2. StoreOK(r.store, V)
  BY DeleteKeyOK DEF Timely
<1>3. CASE k \notin DOMAIN p.data
  <2>1. r.store = p /\ r.reply = 0
    BY <1>3 DEF DeleteKey
  <2>. HIDE DEF p, r
  <2>2. IsDict(p.data, Keys) /\ IsDict(p.expiresAt, Keys) /\ k \notin DOMAIN p.expiresAt
    BY <1>1, <1>3, StoreParts DEF StoreOK, TimersMatch
  <2>3. Drop(p.data, {k}) = p.data /\ Drop(p.expiresAt, {k}) = p.expiresAt
    BY <1>3, <2>2 DEF IsDict, Drop, Restrict
  <2>. QED BY <1>1, <1>3, <2>1, <2>3 DEF p, r
<1>4. CASE k \in DOMAIN p.data
  <2>1. r.store = ClearExpiry(q, k) /\ r.reply = 1
    BY <1>4 DEF DeleteKey
  <2>. HIDE DEF p, r
  <2>2. q.data = Drop(p.data, {k}) /\ q.expiresAt = p.expiresAt /\ q.wheel = p.wheel
    BY <1>1, StoreParts
  <2>. HIDE DEF q
  <2>3. /\ r.store.data = q.data /\ r.store.expiresAt = Drop(q.expiresAt, {k})
        /\ r.store.wheel = Cancel(q.wheel, k)
    BY <2>1 DEF ClearExpiry
  <2>4. ScanBehind(r.store.wheel, t) /\ OneRevolution(r.store.wheel)
    BY <1>1, <2>2, <2>3, CancelTimely DEF Timely, StoreOK
  <2>. QED BY <1>2, <1>4, <2>1, <2>2, <2>3, <2>4 DEF Timely, p, r
<1>. QED BY <1>3, <1>4

(* expire, with a lifetime: a deadline that is not in the past. *)
LEMMA ExpireKeyTimely ==
  ASSUME NEW V, NEW s, NEW k \in Keys, NEW ttl \in Int, NEW t \in Int, NEW later \in Int,
         t <= later, Timely(s, V, t), ttl > 0, k \in DOMAIN ProcessExpirations(s, t).data
  PROVE  LET p == ProcessExpirations(s, t)
             r == ExpireKey(s, k, ttl, t, later)
         IN  /\ Timely(r.store, V, later) /\ r.reply = 1
             /\ r.store.data = p.data
             /\ r.store.expiresAt = Put(p.expiresAt, k, later + ttl * Second)
<1>. DEFINE p == ProcessExpirations(s, t)
            r == ExpireKey(s, k, ttl, t, later)
            at == later + ttl * Second
<1>1. /\ r.reply = 1
      /\ r.store = [data      |-> p.data,
                    expiresAt |-> Put(p.expiresAt, k, at),
                    wheel     |-> Schedule(p.wheel, k, at)]
  BY DEF ExpireKey
<1>2. StoreOK(r.store, V)
  BY ExpireKeyOK DEF Timely
<1>3. Timely(p, V, later)
  BY ProcessEvicts, TimelyLater
<1>4. at \in Int /\ later <= at
  BY SecondAssumption
<1>. HIDE DEF p, at, r
<1>5. ScanBehind(r.store.wheel, later) /\ OneRevolution(r.store.wheel)
  <2>1. r.store.wheel = Schedule(p.wheel, k, at)
    BY <1>1
  <2>. QED BY <1>3, <1>4, <2>1, ScheduleTimely DEF Timely, StoreOK
<1>. QED BY <1>1, <1>2, <1>5 DEF Timely, p, r, at

-----------------------------------------------------------------------------
(* Greatest elements. *)

(* Every set of natural numbers has a least element. *)
LEMMA LeastNatural ==
  ASSUME NEW T, T \subseteq Nat, T # {}
  PROVE  \E x \in T : \A y \in T : x <= y
<1>. DEFINE R == OpToRel(<, Nat)
<1>1. IsWellFoundedOn(R, Nat)
  BY NatLessThanWellFounded
<1>2. \A x \in Nat, y \in Nat : x < y => <<x, y>> \in R
  BY DEF OpToRel
<1>. HIDE DEF R
<1>3. PICK x \in T : \A y \in T : ~ (<<y, x>> \in R)
  BY <1>1, WFMin
<1>4. ASSUME NEW y \in T  PROVE x <= y
  <2>1. x \in Nat /\ y \in Nat /\ ~ (<<y, x>> \in R)
    BY <1>3
  <2>. QED BY <1>2, <2>1
<1>. QED BY <1>4

(* Max is what its name says, for any finite set of integers. *)
LEMMA MaxOK ==
  ASSUME NEW S, S \subseteq Int, IsFiniteSet(S), S # {}
  PROVE  Max(S) \in S /\ \A y \in S : y <= Max(S)
<1>. DEFINE Above(x) == {y \in S : y > x}
            T == {Cardinality(Above(x)) : x \in S}
<1>1. \A x \in S : IsFiniteSet(Above(x)) /\ Cardinality(Above(x)) \in Nat
  BY FS_Subset, FS_CardinalityType
<1>2. T \subseteq Nat /\ T # {}
  BY <1>1
<1>3. PICK m \in T : \A n \in T : m <= n
  BY <1>2, LeastNatural
<1>4. PICK x \in S : m = Cardinality(Above(x))
  BY <1>3
<1>. HIDE DEF T
<1>5. ASSUME NEW y \in S, y > x  PROVE FALSE
  <2>0. x \in Int /\ y \in Int /\ \A z \in S : z \in Int
    OBVIOUS
  <2>1. Above(y) \in SUBSET Above(x) /\ y \in Above(x) /\ y \notin Above(y)
    <3>1. (\A z \in S : z > y => z > x) /\ ~ (y > y)
      BY <1>5, <2>0
    <3>. QED BY <1>5, <3>1, Zenon
  <2>2. Cardinality(Above(y)) <= Cardinality(Above(x)) /\ Cardinality(Above(y)) # Cardinality(Above(x))
    <3>. HIDE DEF Above
    <3>. QED BY <1>1, <2>1, FS_Subset
  <2>3. m <= Cardinality(Above(y))
    BY <1>3 DEF T
  <2>. QED BY <1>1, <1>4, <2>2, <2>3
<1>6. x \in S /\ \A y \in S : x >= y
  BY <1>5
<1>7. Max(S) \in S /\ \A y \in S : Max(S) >= y
  BY <1>6 DEF Max
<1>. QED BY <1>7

-----------------------------------------------------------------------------
(* Commands. *)

(* execute_command leaves a store in order, whatever it is asked. *)
LEMMA ExecuteOK ==
  ASSUME NEW V, NEW s, StoreOK(s, V), NEW cmd, NEW t \in Int,
         cmd.op \in {"SET", "GET", "DEL", "EXPIRE", "TTL", "MGET", "KEYS", "FLUSHALL",
                    "PING", "OTHER"},
         cmd.op \in {"SET", "GET", "DEL", "EXPIRE", "TTL"} => cmd.key \in Keys,
         cmd.op = "SET" => cmd.arg \in V,
         cmd.op = "EXPIRE" => cmd.arg \in Int \cup {None}
  PROVE  StoreOK(ExecuteCommand(s, cmd, t).store, V)
<1>. DEFINE done == ExecuteCommand(s, cmd, t).store
<1>1. CASE cmd.op = "SET"
  <2>1. done = SetKey(s, cmd.key, cmd.arg, t)
    BY <1>1 DEF ExecuteCommand
  <2>. QED BY <1>1, <2>1, SetKeyOK
<1>2. CASE cmd.op \in {"GET", "MGET", "KEYS"}
  <2>1. done = ProcessExpirations(s, t)
    BY <1>2 DEF ExecuteCommand
  <2>. QED BY <2>1, ProcessOK
<1>3. CASE cmd.op = "DEL"
  <2>1. done = DeleteKey(s, cmd.key, t).store
    BY <1>3 DEF ExecuteCommand
  <2>. QED BY <1>3, <2>1, DeleteKeyOK
<1>4. CASE cmd.op = "EXPIRE"
  <2>1. CASE cmd.arg = None
    BY <1>4, <2>1 DEF ExecuteCommand
  <2>2. CASE cmd.arg # None
    <3>1. done = ExpireKey(s, cmd.key, cmd.arg, t, t).store
      BY <1>4, <2>2 DEF ExecuteCommand
    <3>. QED BY <1>4, <2>2, <3>1, ExpireKeyOK
  <2>. QED BY <2>1, <2>2
<1>5. CASE cmd.op = "TTL"
  <2>1. done = KeyTtl(s, cmd.key, t, t).store
    BY <1>5 DEF ExecuteCommand
  <2>. QED BY <1>5, <2>1, KeyTtlOK
<1>6. CASE cmd.op = "FLUSHALL"
  BY <1>6, NewStoreOK DEF ExecuteCommand, Flush
<1>7. CASE cmd.op \in {"PING", "OTHER"}
  BY <1>7 DEF ExecuteCommand
<1>. QED BY <1>1, <1>2, <1>3, <1>4, <1>5, <1>6, <1>7

(* apply_replay_request too. *)
LEMMA ReplayOK ==
  ASSUME NEW V, NEW s, StoreOK(s, V), NEW cmd, NEW t \in Int,
         cmd.op \in {"SET", "DEL", "EXPIRE", "FLUSHALL"},
         cmd.op \in {"SET", "DEL", "EXPIRE"} => cmd.key \in Keys,
         cmd.op = "SET" => cmd.arg \in V,
         cmd.op = "EXPIRE" => cmd.arg \in Int
  PROVE  StoreOK(ApplyReplayRequest(s, cmd, t), V)
<1>. DEFINE p == ProcessExpirations(s, t)
            done == ApplyReplayRequest(s, cmd, t)
<1>1. StoreOK(p, V)
  BY ProcessOK
<1>2. CASE cmd.op = "SET"
  <2>1. done = SetKey(p, cmd.key, cmd.arg, t)
    BY <1>2 DEF ApplyReplayRequest
  <2>. HIDE DEF p
  <2>. QED BY <1>1, <1>2, <2>1, SetKeyOK
<1>3. CASE cmd.op = "DEL"
  <2>1. done = DeleteKey(p, cmd.key, t).store
    BY <1>3 DEF ApplyReplayRequest
  <2>. HIDE DEF p
  <2>. QED BY <1>1, <1>3, <2>1, DeleteKeyOK
<1>4. CASE cmd.op = "EXPIRE"
  <2>1. done = ExpireKey(p, cmd.key, cmd.arg, t, t).store
    BY <1>4 DEF ApplyReplayRequest
  <2>. HIDE DEF p
  <2>. QED BY <1>1, <1>4, <2>1, ExpireKeyOK
<1>5. CASE cmd.op = "FLUSHALL"
  BY <1>5, NewStoreOK DEF ApplyReplayRequest, Flush
<1>. QED BY <1>2, <1>3, <1>4, <1>5

(* _discover_next_sequence: a number above those that a reader finds. *)
LEMMA NextSequenceOK ==
  ASSUME NEW P, NEW file \in Seq(P), \A i \in DOMAIN file : file[i].record.seq \in Nat
  PROVE  /\ NextSequence(file) \in Nat
         /\ \A i \in DOMAIN file : Parses(file, i) => file[i].record.seq < NextSequence(file)
<1>. DEFINE I == {i \in DOMAIN file : Parses(file, i)}
            found == {file[i].record.seq : i \in I}
            f == [i \in I |-> file[i].record.seq]
            S == {-1} \cup found
<1>1. IsFiniteSet(I)
  <2>1. DOMAIN file = 1 .. Len(file) /\ Len(file) \in Nat
    OBVIOUS
  <2>2. IsFiniteSet(1 .. Len(file)) /\ I \in SUBSET (1 .. Len(file))
    BY <2>1, FS_Interval
  <2>. HIDE DEF I
  <2>. QED BY <2>2, FS_Subset
<1>2. f \in Surjection(I, found)
  BY DEF Surjection
<1>3. IsFiniteSet(found)
  <2>. HIDE DEF I, f, found
  <2>. QED BY <1>1, <1>2, FS_Surjection
<1>4. IsFiniteSet(S)
  <2>. HIDE DEF found
  <2>1. IsFiniteSet(found \cup {-1})
    BY <1>3, FS_AddElement
  <2>2. S = found \cup {-1}
    OBVIOUS
  <2>. HIDE DEF S
  <2>. QED BY <2>1, <2>2
<1>5. found \subseteq Nat /\ \A i \in I : file[i].record.seq \in S
  OBVIOUS
<1>6. S \subseteq Int /\ S # {} /\ \A x \in S : x >= -1
  <2>. HIDE DEF found
  <2>. QED BY <1>5
<1>7. NextSequence(file) = 1 + Max(S)
  BY DEF NextSequence
<1>. HIDE DEF S, found
<1>8. Max(S) \in S /\ \A y \in S : y <= Max(S)
  BY <1>4, <1>6, MaxOK
<1>9. Max(S) \in Int /\ Max(S) >= -1
  BY <1>6, <1>8
<1>10. NextSequence(file) \in Nat
  BY <1>7, <1>9
<1>11. ASSUME NEW i \in DOMAIN file, Parses(file, i)
       PROVE  file[i].record.seq < NextSequence(file)
  <2>1. file[i].record.seq <= Max(S) /\ file[i].record.seq \in Nat
    BY <1>5, <1>8, <1>11
  <2>. QED BY <1>7, <1>9, <2>1
<1>. QED BY <1>10, <1>11

(* int() of a lifetime that has passed is negative a whole second later. *)
LEMMA WholeSecondsLeft ==
  ASSUME NEW d \in Int
  PROVE  /\ WholeSeconds(d) < 0 <=> d <= - Second
         /\ d > - Second => WholeSeconds(d) = IF d < 0 THEN 0 ELSE d \div Second
<1>1. CASE d >= 0
  <2>1. d \div Second \in Nat
    BY <1>1, SecondAssumption
  <2>. QED BY <1>1, <2>1, SecondAssumption DEF WholeSeconds
<1>2. CASE d <= - Second
  <2>1. (- d) \div Second >= 1
    BY <1>2, SecondAssumption
  <2>2. (- d) \div Second \in Int
    BY SecondAssumption
  <2>. QED BY <1>2, <2>1, <2>2, SecondAssumption DEF WholeSeconds
<1>3. CASE - Second < d /\ d < 0
  <2>1. (- d) \div Second = 0
    BY <1>3, SecondAssumption
  <2>. QED BY <1>3, <2>1, SecondAssumption DEF WholeSeconds
<1>. QED BY <1>1, <1>2, <1>3, SecondAssumption

-----------------------------------------------------------------------------
(* What a method leaves of each key. *)

\* Of key k the store d has what c had, unless its deadline had passed.
SameOrExpired(c, d, k, t) ==
  \/ /\ k \in DOMAIN d.data <=> k \in DOMAIN c.data
     /\ k \in DOMAIN d.expiresAt <=> k \in DOMAIN c.expiresAt
     /\ k \in DOMAIN c.data => d.data[k] = c.data[k]
     /\ k \in DOMAIN c.expiresAt => d.expiresAt[k] = c.expiresAt[k]
  \/ /\ k \in DOMAIN c.expiresAt /\ c.expiresAt[k] <= t
     /\ k \notin DOMAIN d.data /\ k \notin DOMAIN d.expiresAt

Absent(d, k) == k \notin DOMAIN d.data /\ k \notin DOMAIN d.expiresAt

\* The store d is what a write makes of c.
Applied(c, d, cmd, t) ==
  /\ \A x \in Keys \ {cmd.key} : SameOrExpired(c, d, x, t)
  /\ cmd.op = "SET" => /\ cmd.key \in DOMAIN d.data /\ d.data[cmd.key] = cmd.arg
                       /\ cmd.key \notin DOMAIN d.expiresAt
  /\ cmd.op = "DEL" => Absent(d, cmd.key)
  /\ cmd.op = "EXPIRE" =>
       \/ Absent(d, cmd.key) /\ (cmd.arg <= 0 \/ SameOrExpired(c, d, cmd.key, t))
       \/ /\ cmd.arg > 0
          /\ cmd.key \in DOMAIN c.data /\ cmd.key \in DOMAIN d.data
          /\ d.data[cmd.key] = c.data[cmd.key]
          /\ cmd.key \in DOMAIN d.expiresAt
          /\ d.expiresAt[cmd.key] = t + cmd.arg * Second

LEMMA SameTwice ==
  ASSUME NEW a, NEW b, NEW c, NEW k, NEW t,
         SameOrExpired(a, b, k, t), SameOrExpired(b, c, k, t)
  PROVE  SameOrExpired(a, c, k, t)
BY DEF SameOrExpired

LEMMA AppliedAfter ==
  ASSUME NEW a, NEW b, NEW c, NEW cmd, NEW t, cmd.key \in Keys,
         \A k \in Keys : SameOrExpired(a, b, k, t), Applied(b, c, cmd, t)
  PROVE  Applied(a, c, cmd, t)
<1>1. \A k \in Keys \ {cmd.key} : SameOrExpired(a, c, k, t)
  BY SameTwice DEF Applied
<1>2. Absent(c, cmd.key) /\ SameOrExpired(b, c, cmd.key, t) => SameOrExpired(a, c, cmd.key, t)
  BY SameTwice
<1>3. cmd.key \in DOMAIN b.data => cmd.key \in DOMAIN a.data /\ b.data[cmd.key] = a.data[cmd.key]
  BY DEF SameOrExpired
<1>. QED BY <1>1, <1>2, <1>3 DEF Applied

(* process_expirations *)
LEMMA ProcessEffect ==
  ASSUME NEW V, NEW s, StoreOK(s, V), NEW t \in Int
  PROVE  \A k \in Keys : SameOrExpired(s, ProcessExpirations(s, t), k, t)
<1>. DEFINE p == ProcessExpirations(s, t)
            expired == {k \in PopDue(s.wheel, t).due \cap DOMAIN s.expiresAt :
                          s.expiresAt[k] <= t}
<1>1. p.data = Drop(s.data, expired) /\ p.expiresAt = Drop(s.expiresAt, expired)
  BY DEF ProcessExpirations
<1>2. \A k \in expired : k \in DOMAIN s.expiresAt /\ s.expiresAt[k] <= t
  OBVIOUS
<1>. HIDE DEF p, expired
<1>3. IsDict(s.data, Keys) /\ IsDict(s.expiresAt, Keys)
  BY StoreParts
<1>4. DOMAIN p.data = DOMAIN s.data \ expired /\ DOMAIN p.expiresAt = DOMAIN s.expiresAt \ expired
  BY <1>1, <1>3, DropDict
<1>5. \A k \in DOMAIN s.data \ expired : p.data[k] = s.data[k]
  BY <1>1, <1>3, DropOther
<1>6. \A k \in DOMAIN s.expiresAt \ expired : p.expiresAt[k] = s.expiresAt[k]
  BY <1>1, <1>3, DropOther
<1>7. ASSUME NEW k \in Keys  PROVE SameOrExpired(s, p, k, t)
  <2>1. CASE k \in expired
    BY <1>2, <1>4, <2>1 DEF SameOrExpired
  <2>2. CASE k \notin expired
    BY <1>4, <1>5, <1>6, <2>2 DEF SameOrExpired
  <2>. QED BY <2>1, <2>2
<1>. QED BY <1>7 DEF p

(* set *)
LEMMA SetKeyEffect ==
  ASSUME NEW V, NEW s, StoreOK(s, V), NEW k \in Keys, NEW v \in V, NEW t \in Int
  PROVE  LET r == SetKey(s, k, v, t)
         IN  /\ k \in DOMAIN r.data /\ r.data[k] = v /\ k \notin DOMAIN r.expiresAt
             /\ \A x \in Keys \ {k} : SameOrExpired(s, r, x, t)
<1>. DEFINE p == ProcessExpirations(s, t)
            q == [p EXCEPT !.data = Put(p.data, k, v)]
            r == SetKey(s, k, v, t)
<1>1. StoreOK(p, V) /\ \A x \in Keys : SameOrExpired(s, p, x, t)
  BY ProcessOK, ProcessEffect
<1>2. r = ClearExpiry(q, k)
  BY DEF SetKey
<1>. HIDE DEF p, r
<1>3. IsDict(p.data, Keys) /\ IsDict(p.expiresAt, Keys)
  BY <1>1, StoreParts
<1>4. q.data = Put(p.data, k, v) /\ q.expiresAt = p.expiresAt
  BY <1>1, StoreParts
<1>. HIDE DEF q
<1>5. r.data = Put(p.data, k, v) /\ r.expiresAt = Drop(p.expiresAt, {k})
  BY <1>2, <1>4 DEF ClearExpiry
<1>6. /\ DOMAIN r.data = DOMAIN p.data \cup {k} /\ r.data[k] = v
      /\ DOMAIN r.expiresAt = DOMAIN p.expiresAt \ {k}
  <2>1. DOMAIN Put(p.data, k, v) = DOMAIN p.data \cup {k} /\ Put(p.data, k, v)[k] = v
    BY <1>3, PutDict
  <2>2. DOMAIN r.data = DOMAIN p.data \cup {k} /\ r.data[k] = v
    BY <1>5, <2>1
  <2>. QED BY <1>3, <1>5, <2>2, DropDict
<1>7. /\ \A x \in DOMAIN p.data \ {k} : r.data[x] = p.data[x]
      /\ \A x \in DOMAIN p.expiresAt \ {k} : r.expiresAt[x] = p.expiresAt[x]
  BY <1>3, <1>5, PutOther, DropOther
<1>8. \A x \in Keys \ {k} : SameOrExpired(p, r, x, t)
  BY <1>6, <1>7 DEF SameOrExpired
<1>9. \A x \in Keys \ {k} : SameOrExpired(s, r, x, t)
  BY <1>1, <1>8, SameTwice
<1>. QED BY <1>6, <1>9 DEF r

(* delete *)
LEMMA DeleteKeyEffect ==
  ASSUME NEW V, NEW s, StoreOK(s, V), NEW k \in Keys, NEW t \in Int
  PROVE  LET r == DeleteKey(s, k, t).store
         IN  Absent(r, k) /\ \A x \in Keys \ {k} : SameOrExpired(s, r, x, t)
<1>. DEFINE p == ProcessExpirations(s, t)
            q == [p EXCEPT !.data = Drop(p.data, {k})]
            r == DeleteKey(s, k, t).store
<1>1. StoreOK(p, V) /\ \A x \in Keys : SameOrExpired(s, p, x, t)
  BY ProcessOK, ProcessEffect
<1>2. CASE k \notin DOMAIN p.data
  <2>1. r = p
    BY <1>2 DEF DeleteKey
  <2>2. k \notin DOMAIN p.expiresAt
    BY <1>1, <1>2 DEF StoreOK, TimersMatch
  <2>. QED BY <1>1, <1>2, <2>1, <2>2 DEF Absent
<1>3. CASE k \in DOMAIN p.data
  <2>1. r = ClearExpiry(q, k)
    BY <1>3 DEF DeleteKey
  <2>. HIDE DEF p, r
  <2>2. IsDict(p.data, Keys) /\ IsDict(p.expiresAt, Keys)
    BY <1>1, StoreParts
  <2>3. q.data = Drop(p.data, {k}) /\ q.expiresAt = p.expiresAt
    BY <1>1, StoreParts
  <2>. HIDE DEF q
  <2>4. r.data = Drop(p.data, {k}) /\ r.expiresAt = Drop(p.expiresAt, {k})
    BY <2>1, <2>3 DEF ClearExpiry
  <2>5. DOMAIN r.data = DOMAIN p.data \ {k} /\ DOMAIN r.expiresAt = DOMAIN p.expiresAt \ {k}
    BY <2>2, <2>4, DropDict
  <2>6. /\ \A x \in DOMAIN p.data \ {k} : r.data[x] = p.data[x]
        /\ \A x \in DOMAIN p.expiresAt \ {k} : r.expiresAt[x] = p.expiresAt[x]
    BY <2>2, <2>4, DropOther
  <2>7. \A x \in Keys \ {k} : SameOrExpired(p, r, x, t)
    BY <2>5, <2>6 DEF SameOrExpired
  <2>8. \A x \in Keys \ {k} : SameOrExpired(s, r, x, t)
    BY <1>1, <2>7, SameTwice
  <2>. QED BY <2>5, <2>8 DEF Absent, r
<1>. QED BY <1>2, <1>3
(* expire: what a record of it stands for; a reply of 0 means that nothing *)
(* happened.                                                               *)
LEMMA ExpireKeyEffect ==
  ASSUME NEW V, NEW s, StoreOK(s, V), NEW cmd, cmd.op = "EXPIRE", cmd.key \in Keys,
         cmd.arg \in Int, NEW t \in Int
  PROVE  LET r == ExpireKey(s, cmd.key, cmd.arg, t, t)
         IN  /\ Applied(s, r.store, cmd, t)
             /\ r.reply # 1 => \A x \in Keys : SameOrExpired(s, r.store, x, t)
<1>. DEFINE k  == cmd.key
            p  == ProcessExpirations(s, t)
            at == t + cmd.arg * Second
            r  == ExpireKey(s, k, cmd.arg, t, t)
<1>1. StoreOK(p, V) /\ \A x \in Keys : SameOrExpired(s, p, x, t)
  BY ProcessOK, ProcessEffect
<1>2. CASE k \notin DOMAIN p.data
  <2>1. r.store = p
    BY <1>2 DEF ExpireKey
  <2>2. k \notin DOMAIN p.expiresAt
    BY <1>1, <1>2 DEF StoreOK, TimersMatch
  <2>. HIDE DEF p, r
  <2>. QED BY <1>1, <1>2, <2>1, <2>2 DEF Applied, Absent, r
<1>3. CASE k \in DOMAIN p.data /\ cmd.arg <= 0
  <2>1. r.store = DeleteKey(p, k, t).store /\ r.reply = 1
    BY <1>3 DEF ExpireKey
  <2>. HIDE DEF p, r
  <2>2. Absent(r.store, k) /\ \A x \in Keys \ {k} : SameOrExpired(p, r.store, x, t)
    BY <1>1, <2>1, DeleteKeyEffect
  <2>3. \A x \in Keys \ {k} : SameOrExpired(s, r.store, x, t)
    BY <1>1, <2>2, SameTwice
  <2>. QED BY <1>3, <2>1, <2>2, <2>3 DEF Applied, r
<1>4. CASE k \in DOMAIN p.data /\ cmd.arg > 0
  <2>1. /\ r.store.data = p.data /\ r.store.expiresAt = Put(p.expiresAt, k, at)
        /\ r.reply = 1
    BY <1>4 DEF ExpireKey
  <2>2. k \in DOMAIN s.data /\ p.data[k] = s.data[k]
    <3>. HIDE DEF p
    <3>. QED BY <1>1, <1>4 DEF SameOrExpired
  <2>. HIDE DEF p, r, at
  <2>3. IsDict(p.expiresAt, Keys)
    BY <1>1, StoreParts
  <2>4. /\ DOMAIN r.store.expiresAt = DOMAIN p.expiresAt \cup {k}
        /\ r.store.expiresAt[k] = at
    <3>1. /\ DOMAIN Put(p.expiresAt, k, at) = DOMAIN p.expiresAt \cup {k}
          /\ Put(p.expiresAt, k, at)[k] = at
      <4>. HIDE DEF k
      <4>1. k \in Keys
        BY DEF k
      <4>. QED BY <2>3, <4>1, PutDict
    <3>. QED BY <2>1, <3>1
  <2>5. \A x \in DOMAIN p.expiresAt \ {k} : r.store.expiresAt[x] = p.expiresAt[x]
    BY <2>1, <2>3, PutOther
  <2>6. \A x \in Keys \ {k} : SameOrExpired(p, r.store, x, t)
    BY <2>1, <2>4, <2>5 DEF SameOrExpired
  <2>7. \A x \in Keys \ {k} : SameOrExpired(s, r.store, x, t)
    BY <1>1, <2>6, SameTwice
  <2>8. k \in DOMAIN r.store.data /\ r.store.data[k] = s.data[k]
    BY <1>4, <2>1, <2>2
  <2>. QED BY <1>4, <2>1, <2>2, <2>4, <2>7, <2>8 DEF Applied, r, at
<1>5. cmd.arg <= 0 \/ cmd.arg > 0
  OBVIOUS
<1>. HIDE DEF p, r
<1>. QED BY <1>2, <1>3, <1>4, <1>5 DEF r

(* ttl deletes a key that is a whole second late, and nothing else.        *)
LEMMA KeyTtlEffect ==
  ASSUME NEW V, NEW s, StoreOK(s, V), NEW k \in Keys, NEW t \in Int
  PROVE  \A x \in Keys : SameOrExpired(s, KeyTtl(s, k, t, t).store, x, t)
<1>. DEFINE p == ProcessExpirations(s, t)
            r == KeyTtl(s, k, t, t).store
            d == DeleteKey(p, k, t).store
<1>1. StoreOK(p, V) /\ \A x \in Keys : SameOrExpired(s, p, x, t)
  BY ProcessOK, ProcessEffect
<1>2. \/ r = p
      \/ /\ r = d /\ k \in DOMAIN p.expiresAt
         /\ WholeSeconds(p.expiresAt[k] - t) < 0
  BY DEF KeyTtl
<1>. HIDE DEF p, r
<1>3. ASSUME r = d, k \in DOMAIN p.expiresAt, WholeSeconds(p.expiresAt[k] - t) < 0
      PROVE  \A x \in Keys : SameOrExpired(p, r, x, t)
  <2>1. Absent(d, k) /\ \A x \in Keys \ {k} : SameOrExpired(p, d, x, t)
    BY <1>1, DeleteKeyEffect
  <2>2. p.expiresAt[k] \in Int
    BY <1>1, <1>3, StoreParts
  <2>3. p.expiresAt[k] - t <= - Second
    <3>1. p.expiresAt[k] - t \in Int
      BY <2>2
    <3>. QED BY <1>3, <3>1, WholeSecondsLeft
  <2>4. p.expiresAt[k] <= t
    BY <2>2, <2>3, SecondAssumption
  <2>5. SameOrExpired(p, d, k, t)
    BY <1>3, <2>1, <2>4 DEF SameOrExpired, Absent
  <2>. HIDE DEF d
  <2>. QED BY <1>3, <2>1, <2>5
<1>4. \A x \in Keys : SameOrExpired(s, r, x, t)
  <2>. HIDE DEF d
  <2>. QED BY <1>1, <1>2, <1>3, SameTwice
<1>. QED BY <1>4 DEF r
(* A write that is executed ... *)
LEMMA ExecuteEffect ==
  ASSUME NEW V, NEW s, StoreOK(s, V), NEW cmd, NEW t \in Int,
         cmd.op \in {"SET", "DEL", "EXPIRE"}, cmd.key \in Keys,
         cmd.op = "SET" => cmd.arg \in V,
         cmd.op = "EXPIRE" => cmd.arg \in Int /\ cmd.arg # None
  PROVE  Applied(s, ExecuteCommand(s, cmd, t).store, cmd, t)
<1>. DEFINE done == ExecuteCommand(s, cmd, t).store
<1>1. CASE cmd.op = "SET"
  <2>1. done = SetKey(s, cmd.key, cmd.arg, t)
    BY <1>1 DEF ExecuteCommand
  <2>. HIDE DEF done
  <2>. QED BY <1>1, <2>1, SetKeyEffect DEF Applied, done
<1>2. CASE cmd.op = "DEL"
  <2>1. done = DeleteKey(s, cmd.key, t).store
    BY <1>2 DEF ExecuteCommand
  <2>. HIDE DEF done
  <2>. QED BY <1>2, <2>1, DeleteKeyEffect DEF Applied, done
<1>3. CASE cmd.op = "EXPIRE"
  <2>1. done = ExpireKey(s, cmd.key, cmd.arg, t, t).store
    BY <1>3 DEF ExecuteCommand
  <2>. HIDE DEF done
  <2>. QED BY <1>3, <2>1, ExpireKeyEffect DEF done
<1>. QED BY <1>1, <1>2, <1>3

(* ... has the effect that replaying it has.                               *)
LEMMA ReplayEffect ==
  ASSUME NEW V, NEW s, StoreOK(s, V), NEW cmd, NEW t \in Int,
         cmd.op \in {"SET", "DEL", "EXPIRE"}, cmd.key \in Keys,
         cmd.op = "SET" => cmd.arg \in V,
         cmd.op = "EXPIRE" => cmd.arg \in Int
  PROVE  Applied(s, ApplyReplayRequest(s, cmd, t), cmd, t)
<1>. DEFINE p == ProcessExpirations(s, t)
            done == ApplyReplayRequest(s, cmd, t)
<1>1. StoreOK(p, V) /\ \A k \in Keys : SameOrExpired(s, p, k, t)
  BY ProcessOK, ProcessEffect
<1>2. CASE cmd.op = "SET"
  <2>1. done = SetKey(p, cmd.key, cmd.arg, t)
    BY <1>2 DEF ApplyReplayRequest
  <2>. HIDE DEF p, done
  <2>2. Applied(p, done, cmd, t)
    BY <1>1, <1>2, <2>1, SetKeyEffect DEF Applied
  <2>. QED BY <1>1, <2>2, AppliedAfter DEF done
<1>3. CASE cmd.op = "DEL"
  <2>1. done = DeleteKey(p, cmd.key, t).store
    BY <1>3 DEF ApplyReplayRequest
  <2>. HIDE DEF p, done
  <2>2. Applied(p, done, cmd, t)
    BY <1>1, <1>3, <2>1, DeleteKeyEffect DEF Applied
  <2>. QED BY <1>1, <2>2, AppliedAfter DEF done
<1>4. CASE cmd.op = "EXPIRE"
  <2>1. done = ExpireKey(p, cmd.key, cmd.arg, t, t).store
    BY <1>4 DEF ApplyReplayRequest
  <2>. HIDE DEF p, done
  <2>2. Applied(p, done, cmd, t)
    BY <1>1, <1>4, <2>1, ExpireKeyEffect
  <2>. QED BY <1>1, <2>2, AppliedAfter DEF done
<1>. QED BY <1>2, <1>3, <1>4

(* A command that is not logged changes no key whose deadline has not      *)
(* passed; FLUSHALL is the exception.                                      *)
LEMMA UnloggedEffect ==
  ASSUME NEW V, NEW s, StoreOK(s, V), NEW cmd, NEW t \in Int,
         cmd.op \in {"SET", "GET", "DEL", "EXPIRE", "TTL", "PING", "OTHER"},
         cmd.key \in Keys,
         cmd.op = "SET" => cmd.arg \in V,
         cmd.op = "EXPIRE" => cmd.arg \in Int \cup {None},
         ~ IsWrite(cmd, ExecuteCommand(s, cmd, t))
  PROVE  \A x \in Keys : SameOrExpired(s, ExecuteCommand(s, cmd, t).store, x, t)
<1>. DEFINE done == ExecuteCommand(s, cmd, t)
<1>0. \A x \in Keys : SameOrExpired(s, s, x, t)
  BY DEF SameOrExpired
<1>1. CASE cmd.op \in {"SET", "DEL"}
  BY <1>1 DEF IsWrite, ExecuteCommand
<1>2. CASE cmd.op = "GET"
  <2>1. done.store = ProcessExpirations(s, t)
    BY <1>2 DEF ExecuteCommand
  <2>. QED BY <2>1, ProcessEffect
<1>3. CASE cmd.op = "EXPIRE"
  <2>1. CASE cmd.arg = None
    BY <1>0, <1>3, <2>1 DEF ExecuteCommand
  <2>2. CASE cmd.arg # None
    <3>. DEFINE r == ExpireKey(s, cmd.key, cmd.arg, t, t)
    <3>1. done = [store |-> r.store, reply |-> r.reply, error |-> FALSE]
      BY <1>3, <2>2 DEF ExecuteCommand
    <3>. HIDE DEF r, done
    <3>2. r.reply # 1 /\ done.store = r.store
      BY <1>3, <3>1 DEF IsWrite, done
    <3>. QED BY <1>3, <2>2, <3>2, ExpireKeyEffect DEF r, done
  <2>. QED BY <2>1, <2>2
<1>4. CASE cmd.op = "TTL"
  <2>1. done.store = KeyTtl(s, cmd.key, t, t).store
    BY <1>4 DEF ExecuteCommand
  <2>. QED BY <2>1, KeyTtlEffect
<1>5. CASE cmd.op \in {"PING", "OTHER"}
  BY <1>0, <1>5 DEF ExecuteCommand
<1>. QED BY <1>1, <1>2, <1>3, <1>4, <1>5

=============================================================================
