------------------------------ MODULE TimingWheel ------------------------------
(***************************************************************************)
(* The timing wheel (src/src/timing_wheel.py) as a component of its own:   *)
(* its caller schedules, cancels and pops in any order, with timestamps    *)
(* read from a clock.  A clock that runs "forward" never goes back and no  *)
(* deadline is in the past, which is how MemoryStore calls the wheel as    *)
(* long as time.time() behaves; with "any" clock each call may have any    *)
(* timestamp, before the last scan or the origin too, which is what the    *)
(* early return of pop_due and _rebase_origin are there for.               *)
(***************************************************************************)
EXTENDS WheelOps

CONSTANTS Clocks,      \* the clocks considered, "forward" and "any"
          MaxTime,     \* bound on the timestamps of a forward clock
          MaxAnyTime   \* bound on those of any clock

ASSUME ClockAssumption ==
  Clocks \subseteq {"forward", "any"} /\ MaxTime \in Nat /\ MaxAnyTime \in Nat

VARIABLES wheel,       \* the TimingWheel object
          clock,       \* how time.time() behaves
          now          \* the caller's clock

vars == <<wheel, clock, now>>

Timestamps == 0 .. (IF clock = "forward" THEN MaxTime ELSE MaxAnyTime)

Init == wheel = NewWheel /\ clock \in Clocks /\ now \in Timestamps

ReadClock ==
  /\ now' \in Timestamps
  /\ clock = "forward" => now' > now
  /\ UNCHANGED <<wheel, clock>>

ScheduleKey(k, at) ==
  /\ clock = "forward" => at >= now
  /\ wheel' = Schedule(wheel, k, at)
  /\ UNCHANGED <<clock, now>>

CancelKey(k) ==
  /\ wheel' = Cancel(wheel, k)
  /\ UNCHANGED <<clock, now>>

PopDueKeys ==
  /\ wheel' = PopDue(wheel, now).wheel
  /\ UNCHANGED <<clock, now>>

Next == \/ ReadClock
        \/ \E k \in Keys : \/ \E at \in Timestamps : ScheduleKey(k, at)
                           \/ CancelKey(k)
        \/ PopDueKeys

Spec == Init /\ [][Next]_vars

-----------------------------------------------------------------------------
(* Type invariant: the wheel has the shape WheelOps gives it. *)
TypeOK == WheelType(wheel) /\ clock \in Clocks /\ now \in Int

(* No timer is lost or duplicated: every entry is in the slot of its own   *)
(* tick and nowhere else, under any sequence of schedule, cancel and       *)
(* pop_due with any timestamps: when the clock is set back behind the last *)
(* scan or the origin too, and when the origin moves after a scan.         *)
WheelIndexed == Indexed(wheel) /\ TicksFresh(wheel) /\ ScanAnchored(wheel)

(* With a clock that does not go back, a scan never leaves behind a timer  *)
(* a whole revolution late: a timer popped too early in its own tick is    *)
(* requeued in a slot the scan has passed, and is found again when the     *)
(* wheel has turned once.                                                  *)
WithinOneRevolution ==
  clock = "forward" => ScanBehind(wheel, now) /\ OneRevolution(wheel)

(* A clock set back stalls pop_due, which returns early until the clock is *)
(* past the last scan again, and timers set meanwhile are filed behind the *)
(* scan.  No timer is stranded by it: the scan that is a revolution past   *)
(* the last one leaves nothing overdue, whatever the clock did in between. *)
StallsEnd ==
  [][PopDueKeys /\ wheel.origin # None
       /\ TickFor(wheel, now) >= wheel.last + BucketCount
     => \A k \in DOMAIN wheel'.entries : wheel'.entries[k].at > now]_vars

=============================================================================
