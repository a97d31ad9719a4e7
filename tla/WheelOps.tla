------------------------------- MODULE WheelOps -------------------------------
(***************************************************************************)
(* The timing wheel of src/src/timing_wheel.py, as operators on a value.   *)
(*                                                                         *)
(* A wheel is a record                                                     *)
(*   origin   the timestamp of tick 0 (_origin_timestamp), None at first   *)
(*   buckets  slot -> set of keys (_buckets)                               *)
(*   entries  key -> [at, tick], a dictionary (_entries_by_key)            *)
(*   last     the last tick pop_due has scanned (_last_processed_tick)     *)
(* and each method is an operator from the wheel before to the wheel       *)
(* after, so that the callers can chain them within one step of theirs.    *)
(*                                                                         *)
(* Timestamps are integers in an arbitrary small unit, TickLen of which    *)
(* make one tick (tick_seconds); the code's floats are that with a finer   *)
(* unit.                                                                   *)
(***************************************************************************)
EXTENDS Integers, Dicts

CONSTANTS Keys,          \* the keys that may be scheduled
          TickLen,       \* time units in one tick (tick_seconds)
          BucketCount,   \* number of slots of the wheel (bucket_count)
          None           \* Python's None

ASSUME WheelAssumption == /\ TickLen \in Nat \ {0}
                          /\ BucketCount \in Nat \ {0}
                          /\ None \notin Int

Slots == 0 .. BucketCount - 1

-----------------------------------------------------------------------------
\* __init__
NewWheel == [origin  |-> None,
             buckets |-> [b \in Slots |-> {}],
             entries |-> EmptyDict,
             last    |-> -1]

\* _bucket_for_tick
Slot(tick) == tick % BucketCount

\* _tick_for_timestamp adopts the first timestamp it sees as the origin ...
Anchor(w, t) == IF w.origin = None THEN [w EXCEPT !.origin = t] ELSE w

\* ... and numbers ticks from there.
TickFor(w, t) == (t - w.origin) \div TickLen

\* cancel
Cancel(w, k) ==
  IF k \notin DOMAIN w.entries THEN w
  ELSE [w EXCEPT !.entries = Drop(@, {k}),
                 !.buckets[Slot(w.entries[k].tick)] = @ \ {k}]

\* Mutated _rebase_origin: the entries keep the ticks of the old origin.
RebaseKeepingTicks(w, t) ==
  [w EXCEPT !.origin = t,
            !.last = IF @ < 0 THEN -1
                     ELSE TickFor([w EXCEPT !.origin = t], t + @ * TickLen)]

\* _rebase_origin: every entry is renumbered from the new origin and put in
\* the slot of its new tick; the scan position keeps its number.
Rebase(w, t) ==
  LET moved   == [w EXCEPT !.origin = t]
      entries == [k \in DOMAIN w.entries |->
                    [at   |-> w.entries[k].at,
                     tick |-> TickFor(moved, w.entries[k].at)]]
  IN  [origin  |-> t,
       buckets |-> [b \in Slots |->
                      {k \in DOMAIN entries : Slot(entries[k].tick) = b}],
       entries |-> entries,
       last    |-> IF w.last < 0 THEN -1
                   ELSE TickFor(moved, t + w.last * TickLen)]

\* schedule
Schedule(w, k, at) ==
  LET based == IF w.origin # None /\ at < w.origin THEN Rebase(w, at)
               ELSE Anchor(w, at)
      tick  == TickFor(based, at)
      freed == Cancel(based, k)
  IN  [freed EXCEPT !.entries = Put(@, k, [at |-> at, tick |-> tick]),
                    !.buckets[Slot(tick)] = @ \cup {k}]

\* Mutated scan: it ends before the current tick.
HitBeforeNow(w, now, k, b) ==
  /\ k \in w.buckets[b]
  /\ \E tick \in w.last + 1 .. TickFor(w, now) - 1 :
       /\ Slot(tick) = b
       /\ k \in DOMAIN w.entries => w.entries[k].tick <= tick

\* pop_due looks at key k of slot b when it scans a tick of that slot at which
\* k is no longer in the future (a key without an entry is always looked at).
Hit(w, now, k, b) ==
  /\ k \in w.buckets[b]
  /\ \E tick \in w.last + 1 .. TickFor(w, now) :
       /\ Slot(tick) = b
       /\ k \in DOMAIN w.entries => w.entries[k].tick <= tick

DueKeys(w, now) ==
  {k \in DOMAIN w.entries : /\ w.entries[k].at <= now
                            /\ \E b \in Slots : Hit(w, now, k, b)}

\* The scan: a key that was looked at leaves its slot; a due one is returned
\* and forgotten, any other is queued again under its own tick.
Scan(w, now) ==
  LET due == DueKeys(w, now)
  IN  [origin  |-> w.origin,
       buckets |-> [b \in Slots |->
                      {k \in w.buckets[b] : ~ Hit(w, now, k, b)}
                      \cup {k \in DOMAIN w.entries \ due :
                              /\ Slot(w.entries[k].tick) = b
                              /\ \E c \in Slots : Hit(w, now, k, c)}],
       entries |-> Drop(w.entries, due),
       last    |-> TickFor(w, now)]

\* Mutated pop_due: no early return when the clock was set back.
PopDueAlways(w, now) ==
  [wheel |-> Scan(Anchor(w, now), now), due |-> DueKeys(Anchor(w, now), now)]

\* pop_due: the wheel after it and the keys it returns.
PopDue(w, now) ==
  LET anchored == Anchor(w, now)
  IN  IF TickFor(anchored, now) <= anchored.last
      THEN [wheel |-> anchored, due |-> {}]
      ELSE [wheel |-> Scan(anchored, now), due |-> DueKeys(anchored, now)]

-----------------------------------------------------------------------------
(* The timers of a wheel, as its callers see them. *)
Deadlines(w) == [k \in DOMAIN w.entries |-> w.entries[k].at]

(* What the methods maintain. *)

(* The shape of a wheel. *)
WheelType(w) ==
  /\ w = [origin  |-> w.origin,  buckets |-> w.buckets,
          entries |-> w.entries, last    |-> w.last]
  /\ w.origin \in Int \cup {None}
  /\ w.buckets \in [Slots -> SUBSET Keys]
  /\ IsDict(w.entries, Keys)
  /\ \A k \in DOMAIN w.entries : w.entries[k] \in [at : Int, tick : Int]
  /\ w.last \in Int /\ w.last >= -1

(* Every entry sits in the slot of its own tick, and a slot holds no key   *)
(* but those: a timer in no slot would never fire, and one in a second     *)
(* slot would fire again after the key was set anew.  cancel, the requeue  *)
(* branch of pop_due and _rebase_origin all move keys between slots.       *)
Indexed(w) ==
  \A k \in Keys, b \in Slots :
    k \in w.buckets[b] <=> /\ k \in DOMAIN w.entries
                           /\ Slot(w.entries[k].tick) = b

(* The tick stored with an entry is the tick of its deadline under the     *)
(* origin in force (it is a cached value: _rebase_origin moves the origin).*)
TicksFresh(w) ==
  \A k \in DOMAIN w.entries :
    /\ w.origin # None
    /\ w.origin <= w.entries[k].at
    /\ w.entries[k].tick = TickFor(w, w.entries[k].at)

(* Nothing is scanned before the wheel has an origin. *)
ScanAnchored(w) == w.last >= 0 => w.origin # None

WheelOK(w) == WheelType(w) /\ Indexed(w) /\ TicksFresh(w) /\ ScanAnchored(w)

(* The scan has not passed the clock. *)
ScanBehind(w, now) ==
  w.last >= 0 => w.origin <= now /\ w.last <= TickFor(w, now)

(* The scan has not passed any timer by a revolution or more. *)
OneRevolution(w) ==
  \A k \in DOMAIN w.entries : w.last < w.entries[k].tick + BucketCount

=============================================================================
