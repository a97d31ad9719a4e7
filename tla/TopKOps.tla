------------------------------- MODULE TopKOps -------------------------------
(***************************************************************************)
(* CountMinSketch and TopKTracker (src/src/countmin.py), as operators on a *)
(* value: the record                                                       *)
(*   table    row -> column -> counter (_table)                            *)
(*   heap     the entries <<count, key>> of the binary heap (_heap)        *)
(*   tracked  key -> count (_tracked)                                      *)
(*                                                                         *)
(* hash[r][k] is the column of key k in row r (_hash).  A key is a number, *)
(* its rank among the strings, as the heap compares keys when counts are   *)
(* equal.  The heap is a set, although the list in the code could hold an  *)
(* entry twice: it never does, as every record of a key pushes a greater   *)
(* count than the one before (HeapMatchesTracked in Metrics).               *)
(***************************************************************************)
EXTENDS Integers, FiniteSetsExt, Dicts

CONSTANTS Keys,
          K,         \* how many keys are tracked (_k)
          Rows,      \* the rows of the sketch
          Columns    \* its columns

ASSUME TopKAssumption == /\ Keys \subseteq Nat
                         /\ K \in Nat \ {0}
                         /\ Rows # {} /\ Columns # {}

\* _HEAP_CLEANUP_RATIO
HeapCleanupRatio == 3

\* CountMinSketch.__init__
NewTable == [r \in Rows |-> [c \in Columns |-> 0]]

\* TopKTracker.__init__
NewTracker == [table |-> NewTable, heap |-> {}, tracked |-> EmptyDict]

\* Mutated increment: one row only.
IncrementOneRow(table, hash, k) ==
  LET row == CHOOSE r \in Rows : TRUE
  IN  [r \in Rows |-> [c \in Columns |->
         IF r = row /\ c = hash[r][k] THEN table[r][c] + 1 ELSE table[r][c]]]

\* CountMinSketch.increment
Increment(table, hash, k) ==
  [r \in Rows |-> [c \in Columns |->
     IF c = hash[r][k] THEN table[r][c] + 1 ELSE table[r][c]]]

\* CountMinSketch.estimate
Estimate(table, hash, k) == Min({table[r][hash[r][k]] : r \in Rows})

\* The order of the tuples in the heap.
Before(e, f) == e[1] < f[1] \/ (e[1] = f[1] /\ e[2] < f[2])

\* The entry the dictionary still stands for; all others are stale.
Current(tracked, e) == e[2] \in DOMAIN tracked /\ tracked[e[2]] = e[1]

\* _compact_heap
CompactHeap(tracked) == {<<tracked[k], k>> : k \in DOMAIN tracked}

\* _peek_min: the stale entries on top of the heap go ...
Peeked(heap, tracked) ==
  {e \in heap : \E f \in heap : Current(tracked, f) /\ ~ Before(e, f)}

\* ... and min is the least that is left.
IsPeekMin(heap, tracked, min) ==
  /\ min \in heap /\ Current(tracked, min)
  /\ \A e \in heap : Current(tracked, e) => ~ Before(e, min)

\* record of a key with its new count, if it is tracked: mutated, the heap
\* keeps its old entry only ...
UpdateInPlace(t, k, count) ==
  [table |-> t.table, heap |-> t.heap, tracked |-> Put(t.tracked, k, count)]

\* ... or is never rebuilt ...
UpdateNeverCompacting(t, k, count) ==
  [table   |-> t.table,
   heap    |-> t.heap \cup {<<count, k>>},
   tracked |-> Put(t.tracked, k, count)]

\* ... and as it is.
Update(t, k, count) ==
  LET tracked == Put(t.tracked, k, count)
      heap    == t.heap \cup {<<count, k>>}
  IN  [table   |-> t.table,
       heap    |-> IF Cardinality(heap) > K * HeapCleanupRatio
                   THEN CompactHeap(tracked) ELSE heap,
       tracked |-> tracked]

\* record, if it is not tracked and there is room.
Admit(t, k, count) ==
  [table   |-> t.table,
   heap    |-> t.heap \cup {<<count, k>>},
   tracked |-> Put(t.tracked, k, count)]

\* Mutated record: the top of the heap goes, stale or not.
ReplaceTop(t, k, count, min) ==
  LET top == CHOOSE e \in t.heap : \A f \in t.heap : ~ Before(f, e)
  IN  [table   |-> t.table,
       heap    |-> (t.heap \ {top}) \cup {<<count, k>>},
       tracked |-> Put(Drop(t.tracked, {top[2]}), k, count)]

\* record, if there is no room and the count exceeds that of min.
Replace(t, k, count, min) ==
  [table   |-> t.table,
   heap    |-> (Peeked(t.heap, t.tracked) \ {min}) \cup {<<count, k>>},
   tracked |-> Put(Drop(t.tracked, {min[2]}), k, count)]

\* record, if there is no room and it does not.
Ignore(t) == [table   |-> t.table,
              heap    |-> Peeked(t.heap, t.tracked),
              tracked |-> t.tracked]

=============================================================================
