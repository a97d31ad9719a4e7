-------------------------- MODULE TimingWheelProofs --------------------------
(***************************************************************************)
(* What the timing wheel guarantees for any keys, tick length, number of   *)
(* slots and timestamps.                                                   *)
(***************************************************************************)
EXTENDS TimingWheel, StoreLemmas

(* Every method preserves WheelOK, whatever timestamps it is given.        *)
THEOREM WheelInvariant == Spec => [](TypeOK /\ WheelIndexed)
<1>. DEFINE IInv == WheelOK(wheel) /\ clock \in Clocks /\ now \in Int
<1>1. Init => IInv
  BY NewWheelOK, ClockAssumption DEF Init, Timestamps
<1>2. IInv /\ [Next]_vars => IInv'
  <2>. SUFFICES ASSUME IInv, [Next]_vars  PROVE IInv'
    OBVIOUS
  <2>1. CASE ReadClock
    BY <2>1, ClockAssumption DEF ReadClock, Timestamps
  <2>2. ASSUME NEW k \in Keys, NEW at \in Timestamps, ScheduleKey(k, at)
        PROVE  IInv'
    <3>1. at \in Int
      BY ClockAssumption DEF Timestamps
    <3>2. WheelOK(Schedule(wheel, k, at))
      BY <3>1, ScheduleOK
    <3>. QED BY <2>2, <3>2 DEF ScheduleKey
  <2>3. ASSUME NEW k \in Keys, CancelKey(k)
        PROVE  IInv'
    BY <2>3, CancelOK DEF CancelKey
  <2>4. CASE PopDueKeys
    BY <2>4, PopDueOK DEF PopDueKeys
  <2>5. CASE UNCHANGED vars
    BY <2>5 DEF vars
  <2>. QED BY <2>1, <2>2, <2>3, <2>4, <2>5 DEF Next
<1>3. IInv => TypeOK /\ WheelIndexed
  BY DEF TypeOK, WheelIndexed, WheelOK
<1>. QED BY <1>1, <1>2, <1>3, PTL DEF Spec

(* The wheel has the shape WheelOps gives it, in every reachable state.    *)
THEOREM TypeCorrect == Spec => []TypeOK
BY WheelInvariant, PTL

(* No timer is lost, duplicated or filed under a stale tick, even when     *)
(* timestamps go back and the origin moves: the bookkeeping of schedule,   *)
(* cancel, pop_due's requeue and _rebase_origin agree with each other.     *)
THEOREM NoTimerMisfiled == Spec => []WheelIndexed
BY WheelInvariant, PTL

(* With a clock that does not go back, no timer is ever passed by the scan *)
(* by a whole revolution: the requeue of pop_due delays an expiration by   *)
(* less than bucket_count ticks.                                           *)
THEOREM NoTimerLaterThanOneRevolution == Spec => []WithinOneRevolution
<1>. DEFINE InTime == /\ WheelOK(wheel) /\ now \in Int
                      /\ ScanBehind(wheel, now) /\ OneRevolution(wheel)
            IInv   == clock = "forward" => InTime
<1>1. Init => IInv
  <2>. SUFFICES ASSUME Init PROVE InTime
    OBVIOUS
  <2>1. WheelOK(wheel) /\ now \in Int /\ wheel.last = -1
    BY NewWheelOK, ClockAssumption DEF Init, Timestamps, NewWheel
  <2>. QED BY <2>1, UnscannedOneRevolution DEF ScanBehind
<1>2. IInv /\ [Next]_vars => IInv'
  <2>0. UNCHANGED clock \/ ~ [Next]_vars
    BY DEF vars, Next, ReadClock, ScheduleKey, CancelKey, PopDueKeys
  <2>. SUFFICES ASSUME clock = "forward", InTime, [Next]_vars  PROVE InTime'
    BY <2>0
  <2>1. CASE ReadClock
    <3>1. now' \in Int /\ now < now' /\ wheel' = wheel
      BY <2>1, ClockAssumption DEF ReadClock, Timestamps
    <3>2. ASSUME wheel.last >= 0
          PROVE  wheel.origin <= now' /\ wheel.last <= TickFor(wheel, now')
      <4>1. /\ wheel.origin \in Int /\ wheel.last \in Int
            /\ wheel.origin <= now /\ wheel.last <= TickFor(wheel, now)
        BY <3>2, WheelAssumption
           DEF WheelOK, WheelType, ScanAnchored, ScanBehind
      <4>2. /\ TickFor(wheel, now) <= TickFor(wheel, now')
            /\ TickFor(wheel, now) \in Int /\ TickFor(wheel, now') \in Int
        BY <3>1, <4>1, DivMonotone, DivBounds DEF TickFor
      <4>. QED BY <3>1, <4>1, <4>2
    <3>. QED BY <3>1, <3>2 DEF ScanBehind, OneRevolution
  <2>2. ASSUME NEW k \in Keys, NEW at \in Timestamps, ScheduleKey(k, at)
        PROVE  InTime'
    <3>1. at \in Int /\ now <= at
      BY <2>2, ClockAssumption DEF ScheduleKey, Timestamps
    <3>2. WheelOK(Schedule(wheel, k, at))
      BY <3>1, ScheduleOK
    <3>3. /\ ScanBehind(Schedule(wheel, k, at), now)
          /\ OneRevolution(Schedule(wheel, k, at))
      BY <3>1, ScheduleTimely
    <3>. QED BY <2>2, <3>2, <3>3 DEF ScheduleKey
  <2>3. ASSUME NEW k \in Keys, CancelKey(k)
        PROVE  InTime'
    <3>1. /\ now' = now /\ WheelOK(wheel') /\ wheel'.last = wheel.last
          /\ wheel'.origin = wheel.origin
          /\ wheel'.entries = Drop(wheel.entries, {k})
      BY <2>3, CancelOK DEF CancelKey
    <3>2. IsDict(wheel.entries, Keys)
      BY DEF WheelOK, WheelType
    <3>3. DOMAIN wheel'.entries = DOMAIN wheel.entries \ {k}
      BY <3>1, <3>2, DropDict
    <3>4. \A x \in DOMAIN wheel.entries \ {k} :
            wheel'.entries[x] = wheel.entries[x]
      BY <3>1, <3>2, DropOther
    <3>. QED BY <3>1, <3>3, <3>4 DEF ScanBehind, OneRevolution, TickFor
  <2>4. CASE PopDueKeys
    BY <2>4, PopDueOK, PopDueTimely DEF PopDueKeys
  <2>5. CASE UNCHANGED vars
    BY <2>5 DEF vars
  <2>. QED BY <2>1, <2>2, <2>3, <2>4, <2>5 DEF Next
<1>3. IInv => WithinOneRevolution
  BY DEF WithinOneRevolution
<1>. QED BY <1>1, <1>2, <1>3, PTL DEF Spec

(* Among any BucketCount ticks on end one is in the slot of an earlier tick. *)
LEMMA SlotMetAgain ==
  ASSUME NEW t \in Int, NEW cur \in Int, t <= cur
  PROVE  \E u \in Int : /\ t <= u /\ u <= cur /\ cur < u + BucketCount
                        /\ Slot(u) = Slot(t)
<1>. DEFINE N == BucketCount
            q == (cur - t) \div N    d == (cur - t) % N
            u == cur - d
            q1 == t \div N           r1 == t % N
            q2 == u \div N           r2 == u % N
<1>1. cur - t = N * q + d /\ d \in Slots /\ q \in Int /\ q >= 0
  BY WheelAssumption DEF Slots
<1>2. u \in Int /\ cur < u + N /\ u <= cur
  BY <1>1, WheelAssumption DEF Slots
<1>3. u = t + N * q /\ N * q \in Int /\ N * q >= 0
  BY <1>1, WheelAssumption DEF Slots
<1>4. t = N * q1 + r1 /\ r1 \in Slots /\ q1 \in Int
  BY WheelAssumption DEF Slots
<1>5. u = N * q2 + r2 /\ r2 \in Slots /\ q2 \in Int
  BY <1>2, WheelAssumption DEF Slots
<1>6. N * (q1 + q) = N * q1 + N * q /\ q1 + q \in Int
  BY <1>1, <1>4, WheelAssumption
<1>. HIDE DEF q, d, u, q1, r1, q2, r2
<1>7. N * (q1 + q) + r1 = N * q2 + r2
  <2>. DEFINE a == N * q1    b == N * q    c == N * q2
  <2>1. a \in Int /\ b \in Int /\ c \in Int
    BY <1>1, <1>4, <1>5, WheelAssumption
  <2>2. t = a + r1 /\ u = c + r2 /\ u = t + b /\ N * (q1 + q) = a + b
    BY <1>3, <1>4, <1>5, <1>6
  <2>3. r1 \in Int /\ r2 \in Int
    BY <1>4, <1>5 DEF Slots
  <2>. HIDE DEF a, b, c
  <2>4. (a + b) + r1 = c + r2
    BY <2>1, <2>2, <2>3
  <2>. QED BY <2>2, <2>4 DEF c
<1>8. r1 = r2
  BY <1>4, <1>5, <1>6, <1>7, RemainderUnique
<1>. QED BY <1>2, <1>3, <1>8 DEF Slot, r1, r2

(* Under any clock a scan that is a revolution past the last one leaves no *)
(* timer overdue, however long pop_due has returned early before it.       *)
THEOREM EveryStallEnds == Spec => StallsEnd
<1>. DEFINE IInv == WheelOK(wheel) /\ now \in Int
            Step == PopDueKeys /\ wheel.origin # None
                      /\ TickFor(wheel, now) >= wheel.last + BucketCount
                    => \A k \in DOMAIN wheel'.entries :
                         wheel'.entries[k].at > now
<1>1. TypeOK /\ WheelIndexed => IInv
  BY DEF TypeOK, WheelIndexed, WheelOK
<1>2. IInv /\ [Next]_vars => [Step]_vars
  <2>. SUFFICES ASSUME IInv, PopDueKeys, wheel.origin # None,
                      TickFor(wheel, now) >= wheel.last + BucketCount,
                      NEW k \in DOMAIN wheel'.entries
               PROVE  wheel'.entries[k].at > now
    OBVIOUS
  <2>. DEFINE w == wheel    cur == TickFor(wheel, now)
  <2>1. /\ w.origin \in Int /\ w.last \in Int /\ IsDict(w.entries, Keys)
        /\ cur = (now - w.origin) \div TickLen /\ cur \in Int
    BY DivBounds DEF WheelOK, WheelType, TickFor
  <2>2. wheel' = Scan(w, now)
    <3>1. Anchor(w, now) = w
      BY DEF Anchor
    <3>2. ~ (cur <= w.last)
      BY <2>1, WheelAssumption
    <3>. QED BY <3>1, <3>2 DEF PopDueKeys, PopDue
  <2>3. wheel'.entries = Drop(w.entries, DueKeys(w, now))
    BY <2>2 DEF Scan
  <2>4. /\ k \in DOMAIN w.entries \ DueKeys(w, now)
        /\ wheel'.entries[k] = w.entries[k]
    <3>1. DOMAIN wheel'.entries = DOMAIN w.entries \ DueKeys(w, now)
      BY <2>1, <2>3, DropDict
    <3>2. Drop(w.entries, DueKeys(w, now))[k] = w.entries[k]
      BY <2>1, <3>1, DropOther
    <3>. QED BY <2>3, <3>1, <3>2
  <2>. DEFINE at == w.entries[k].at
              t  == w.entries[k].tick
  <2>5. at \in Int /\ t \in Int /\ t = (at - w.origin) \div TickLen
    BY <2>4 DEF WheelOK, WheelType, TicksFresh, TickFor
  <2>6. CASE at <= now
    <3>1. t <= cur
      BY <2>1, <2>5, <2>6, DivMonotone
    <3>2. PICK u \in Int : /\ t <= u /\ u <= cur /\ cur < u + BucketCount
                           /\ Slot(u) = Slot(t)
      BY <2>1, <2>5, <3>1, SlotMetAgain
    <3>3. u \in w.last + 1 .. cur
      BY <2>1, <3>2, WheelAssumption
    <3>4. Slot(t) \in Slots
      BY <2>5, SlotType
    <3>5. k \in w.buckets[Slot(t)]
      BY <2>1, <2>4, <3>4 DEF WheelOK, Indexed, IsDict
    <3>6. Hit(w, now, k, Slot(t))
      BY <3>2, <3>3, <3>5 DEF Hit
    <3>. QED BY <2>4, <2>6, <3>4, <3>6 DEF DueKeys
  <2>7. CASE at > now
    BY <2>4, <2>7
  <2>. QED BY <2>1, <2>5, <2>6, <2>7
<1>. QED BY <1>1, <1>2, WheelInvariant, PTL DEF Spec, StallsEnd

=============================================================================
