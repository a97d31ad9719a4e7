------------------------------- MODULE Metrics -------------------------------
(***************************************************************************)
(* The MetricsCollector of the main process (src/src/metrics.py) with its  *)
(* hot-key tracker (TopKOps).  The runtime reports each command that was   *)
(* dispatched, with the time it took; a line that does not parse is not    *)
(* reported (_process_command_bytes).  A report holds the lock from        *)
(* beginning to end, and so does a scrape: both are one step, and what a   *)
(* scrape shows is a function of the state.  Left out: the sum of the      *)
(* latencies, the memory by prefix, the text of the page.                  *)
(***************************************************************************)
EXTENDS TopKOps

CONSTANTS Ops,              \* names of commands
          KeyedOps,         \* those that come with arguments
          Bounds,           \* _LATENCY_BUCKETS
          Durations,        \* the latencies that occur
          MaxObservations   \* bound on the number of commands

ASSUME MetricsAssumption == /\ KeyedOps \subseteq Ops
                            /\ Bounds \subseteq Int /\ Durations \subseteq Int
                            /\ IsFiniteSet(Ops) /\ IsFiniteSet(Bounds) /\ IsFiniteSet(Durations)
                            /\ MaxObservations \in Nat

VARIABLES
  hash,      \* the columns of the keys, whatever SHA-256 makes of them
  tracker,   \* _hot_key_tracker
  total,     \* _throughput_total
  requests,  \* op -> _throughput_by_command, equal to _latency_count_by_command
  buckets,   \* op -> bound -> _latency_bucket_counts
  accesses,  \* key -> how often it was the first argument     (history)
  observed   \* op -> duration -> how often                    (history)

vars == <<hash, tracker, total, requests, buckets, accesses, observed>>

Init ==
  /\ hash \in [Rows -> [Keys -> Columns]]
  /\ tracker = NewTracker
  /\ total = 0
  /\ requests = [op \in Ops |-> 0]
  /\ buckets = [op \in Ops |-> [b \in Bounds |-> 0]]
  /\ accesses = [k \in Keys |-> 0]
  /\ observed = [op \in Ops |-> [d \in Durations |-> 0]]

\* Mutated _observe_latency_bucket: it goes on to the greater bounds.
ObserveEveryBucket(counts, duration) ==
  [b \in Bounds |-> IF duration <= b THEN counts[b] + 1 ELSE counts[b]]

\* _observe_latency_bucket: the first bound that is not exceeded, if any.
ObserveLatencyBucket(counts, duration) ==
  [b \in Bounds |-> IF /\ duration <= b
                       /\ \A c \in Bounds : duration <= c => b <= c
                    THEN counts[b] + 1 ELSE counts[b]]

(* The counters of observe_command. *)
Count(op, duration) ==
  /\ total < MaxObservations
  /\ total' = total + 1
  /\ requests' = [requests EXCEPT ![op] = @ + 1]
  /\ buckets' = [buckets EXCEPT ![op] = ObserveLatencyBucket(@, duration)]
  /\ observed' = [observed EXCEPT ![op][duration] = @ + 1]

(* TopKTracker.record *)
Record(k) ==
  LET table == Increment(tracker.table, hash, k)
      count == Estimate(table, hash, k)
      t     == [table |-> table, heap |-> tracker.heap, tracked |-> tracker.tracked]
      full  == Cardinality(DOMAIN t.tracked) >= K
      lower == {min \in t.heap : IsPeekMin(t.heap, t.tracked, min) /\ count > min[1]}
  IN  \/ k \in DOMAIN t.tracked /\ tracker' = Update(t, k, count)
      \/ k \notin DOMAIN t.tracked /\ ~ full /\ tracker' = Admit(t, k, count)
      \/ /\ k \notin DOMAIN t.tracked /\ full
         /\ \/ \E min \in lower : tracker' = Replace(t, k, count, min)
            \/ lower = {} /\ tracker' = Ignore(t)

(* observe_command, for a command with arguments ... *)
ObserveKey(op, k, duration) ==
  /\ Count(op, duration)
  /\ Record(k)
  /\ accesses' = [accesses EXCEPT ![k] = @ + 1]
  /\ UNCHANGED hash

(* ... and without. *)
ObserveNoKey(op, duration) ==
  /\ Count(op, duration)
  /\ UNCHANGED <<hash, tracker, accesses>>

Next == \E duration \in Durations :
          \/ \E op \in KeyedOps, k \in Keys : ObserveKey(op, k, duration)
          \/ \E op \in Ops \ KeyedOps : ObserveNoKey(op, duration)

Spec == Init /\ [][Next]_vars

-----------------------------------------------------------------------------
(* What a scrape shows (render_prometheus). *)

\* The sample of a bucket: how many commands took no longer than its bound.
Cumulative(op, bound) ==
  SumFunctionOnSet(buckets[op], {b \in Bounds : b <= bound})

\* top_k, as a set.
TopK == {<<k, tracker.tracked[k]>> : k \in DOMAIN tracker.tracked}

EstimateOf(k) == Estimate(tracker.table, hash, k)

-----------------------------------------------------------------------------
(* Type invariant. *)
TypeOK ==
  /\ tracker.table \in [Rows -> [Columns -> Nat]]
  /\ tracker.heap \subseteq Nat \X Keys
  /\ IsDict(tracker.tracked, Keys)
  /\ \A k \in DOMAIN tracker.tracked : tracker.tracked[k] \in Nat
  /\ Cardinality(DOMAIN tracker.tracked) <= K
  /\ total \in 0 .. MaxObservations /\ requests \in [Ops -> Nat]
  /\ buckets \in [Ops -> [Bounds -> Nat]]

(* README.md:122: the estimate "never underestimates", however the keys    *)
(* collide, and neither does the count that top_k reports of a key.        *)
NeverUnderestimates ==
  \A k \in Keys :
    /\ accesses[k] <= EstimateOf(k)
    /\ k \in DOMAIN tracker.tracked => accesses[k] <= tracker.tracked[k]

(* Lazy deletion works: every tracked key has its current entry in the     *)
(* heap, so that _peek_min finds the true minimum and the key it evicts is *)
(* tracked; and no entry is ahead of its key, so that the entries left of  *)
(* an earlier time a key was tracked are never taken for current ones.     *)
HeapMatchesTracked ==
  /\ \A k \in DOMAIN tracker.tracked : <<tracker.tracked[k], k>> \in tracker.heap
  /\ \A e \in tracker.heap :
       /\ e[1] <= EstimateOf(e[2])
       /\ e[2] \in DOMAIN tracker.tracked => e[1] <= tracker.tracked[e[2]]

(* countmin.py:46-47: the heap is compacted when it "grows beyond k *      *)
(* _HEAP_CLEANUP_RATIO to bound memory overhead".  The test is only made   *)
(* when a tracked key is recorded, but the others add no more than one     *)
(* entry for each key they add.                                            *)
HeapBounded ==
  LET n == Cardinality(DOMAIN tracker.tracked)
  IN  IF n = 0 THEN tracker.heap = {}
      ELSE Cardinality(tracker.heap) <= K * HeapCleanupRatio + n - 1

(* No hot key is missed: one that is not reported was recorded no more     *)
(* often than any reported key is said to have been, and only once there   *)
(* were K reported keys.                                                   *)
HotKeysReported ==
  \A k \in Keys \ DOMAIN tracker.tracked :
    accesses[k] > 0 =>
      /\ Cardinality(DOMAIN tracker.tracked) = K
      /\ \A top \in TopK : accesses[k] <= top[2]

(* The page agrees with what happened: each bucket counts the commands of  *)
(* its name that took no longer than its bound, those longer than the last *)
(* bound are in +Inf alone, and all commands together are the total.       *)
HistogramExact ==
  /\ \A op \in Ops :
       /\ \A b \in Bounds :
            Cumulative(op, b) =
              SumFunctionOnSet(observed[op], {d \in Durations : d <= b})
       /\ requests[op] = SumFunctionOnSet(observed[op], Durations)
  /\ total = SumFunctionOnSet(requests, Ops)

=============================================================================
