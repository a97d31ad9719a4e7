----------------------------- MODULE MetricsProofs -----------------------------
(***************************************************************************)
(* What the hot-key tracker and the page promise, for any keys, number of  *)
(* tracked keys, sketch, hash function, commands and bounds.  The page is  *)
(* at the end of the module.  A record of a key is two things, one         *)
(* after the other: the sketch is incremented, which leaves everything     *)
(* true but what concerns that key, and the heap and the dictionary are    *)
(* updated, which makes it true of that key again.  Hence the set S of     *)
(* keys in Counted and Hot: all of them, or all but that one.              *)
(***************************************************************************)
EXTENDS Metrics, FiniteSetTheorems, WellFoundedInduction, TLAPS

Table(table) == table \in [Rows -> [Columns -> Nat]]
Hash(h)      == h \in [Rows -> [Keys -> Columns]]

\* The sketch counts every access, in every row.
SketchOK(table, h, n) ==
  /\ Table(table) /\ Hash(h) /\ n \in [Keys -> Nat]
  /\ \A k \in Keys, r \in Rows : n[k] <= table[r][h[r][k]]

\* The shape of heap and dictionary, and the bound of the heap.
Shape(heap, tracked) ==
  /\ heap \subseteq Nat \X Keys /\ IsFiniteSet(heap)
  /\ DOMAIN tracked \subseteq Keys /\ IsFiniteSet(DOMAIN tracked)
  /\ \A k \in DOMAIN tracked : tracked[k] \in Nat

Bounded(heap, tracked) ==
  LET n == Cardinality(DOMAIN tracked)
  IN  /\ n <= K
      /\ n = 0 => heap = {}
      /\ n > 0 => Cardinality(heap) <= K * HeapCleanupRatio + n - 1

\* HeapMatchesTracked
Matches(heap, tracked) ==
  /\ \A k \in DOMAIN tracked : <<tracked[k], k>> \in heap
  /\ \A e \in heap : e[2] \in DOMAIN tracked => e[1] <= tracked[e[2]]

NotAhead(heap, table, h) ==
  \A e \in heap, r \in Rows : e[1] <= table[r][h[r][e[2]]]

\* NeverUnderestimates and HotKeysReported, of the keys of S.
Counted(S, tracked, n) == \A k \in S \cap DOMAIN tracked : n[k] <= tracked[k]

Hot(S, tracked, n) ==
  \A k \in S \ DOMAIN tracked : n[k] > 0 =>
    /\ Cardinality(DOMAIN tracked) = K
    /\ \A j \in DOMAIN tracked : n[k] <= tracked[j]

Sound(S, t, h, n) ==
  /\ SketchOK(t.table, h, n)
  /\ Shape(t.heap, t.tracked) /\ Bounded(t.heap, t.tracked)
  /\ IsDict(t.tracked, Keys)
  /\ Matches(t.heap, t.tracked) /\ NotAhead(t.heap, t.table, h)
  /\ Counted(S, t.tracked, n) /\ Hot(S, t.tracked, n)

-----------------------------------------------------------------------------
(* The sketch. *)

LEMMA MinNat ==
  ASSUME NEW S, S \subseteq Nat, S # {}
  PROVE  Min(S) \in S /\ \A x \in S : Min(S) <= x
<1>. DEFINE R == OpToRel(<, Nat)
<1>1. IsWellFoundedOn(R, Nat)
  BY NatLessThanWellFounded
<1>2. \E x \in S : \A y \in S : ~ (<<y, x>> \in R)
  <2>. HIDE DEF R
  <2>. QED BY <1>1, WFMin
<1>3. \A x \in Nat, y \in Nat : x < y => <<x, y>> \in R
  BY DEF OpToRel
<1>4. \E x \in S : \A y \in S : x <= y
  <2>. HIDE DEF R
  <2>1. PICK x \in S : \A y \in S : ~ (<<y, x>> \in R)
    BY <1>2
  <2>2. ASSUME NEW y \in S
        PROVE  x <= y
    <3>1. x \in Nat /\ y \in Nat /\ ~ (<<y, x>> \in R)
      BY <2>1
    <3>2. ~ (y < x)
      BY <1>3, <3>1
    <3>. QED BY <3>1, <3>2
  <2>. QED BY <2>2
<1>. QED BY <1>4 DEF Min

-----------------------------------------------------------------------------
(* Sums over finite sets (SumFunctionOnSet), for the histogram.  The       *)
(* library defines them by a recursion that takes the elements one by one, *)
(* in the order in which CHOOSE finds them.                                *)
OneMore(f, s, sum) ==
  IF s = {} THEN 0
  ELSE f[CHOOSE x \in s : TRUE] + sum[s \ {CHOOSE x \in s : TRUE}]

IsSum(f, S, sum) == sum = [s \in SUBSET S |-> OneMore(f, s, sum)]

(* A set of finite sets has a smallest one: what the proofs below use for  *)
(* an induction over subsets.                                              *)
LEMMA SmallestSet ==
  ASSUME NEW S, IsFiniteSet(S), NEW Bad, Bad \subseteq SUBSET S, Bad # {}
  PROVE  \E T \in Bad : \A U \in Bad : U \subseteq T => U = T
<1>. DEFINE R == StrictSubsetOrdering(S)
<1>1. IsWellFoundedOn(R, SUBSET S)
  BY FS_StrictSubsetOrderingWellFounded, FS_FiniteSubsetsOfFinite
<1>2. \A U \in SUBSET S, T \in SUBSET S : U \subseteq T /\ U # T => <<U, T>> \in R
  BY DEF StrictSubsetOrdering
<1>. HIDE DEF R
<1>3. \E T \in Bad : \A U \in Bad : ~ (<<U, T>> \in R)
  BY <1>1, WFMin
<1>. QED BY <1>2, <1>3

(* There is such a function: one that is right up to any cardinality.      *)
LEMMA SumExists ==
  ASSUME NEW S, IsFiniteSet(S), NEW f, \A x \in S : f[x] \in Nat
  PROVE  \E sum : IsSum(f, S, sum)
<1>. DEFINE UpTo(n, sum) == \A s \in SUBSET S : Cardinality(s) <= n => sum[s] = OneMore(f, s, sum)
            Bad == {n \in Nat : ~ \E sum \in [SUBSET S -> Nat] : UpTo(n, sum)}
<1>1. \A s \in SUBSET S : IsFiniteSet(s) /\ Cardinality(s) \in Nat /\ Cardinality(s) <= Cardinality(S)
  BY FS_Subset, FS_CardinalityType
<1>2. \A s \in SUBSET S : s # {} =>
        LET x == CHOOSE y \in s : TRUE
        IN  /\ x \in s /\ f[x] \in Nat /\ s \ {x} \in SUBSET S
            /\ Cardinality(s \ {x}) = Cardinality(s) - 1
  <2>. SUFFICES ASSUME NEW s \in SUBSET S, s # {}, NEW x, x = CHOOSE y \in s : TRUE
                PROVE  /\ x \in s /\ f[x] \in Nat /\ s \ {x} \in SUBSET S
                       /\ Cardinality(s \ {x}) = Cardinality(s) - 1
    BY Zenon
  <2>1. x \in s
    BY Zenon
  <2>. QED BY <2>1, <1>1, FS_RemoveElement
<1>3. Bad = {}
  <2>. SUFFICES ASSUME Bad # {}
                PROVE  FALSE
    OBVIOUS
  <2>. DEFINE m == Min(Bad)
  <2>1. m \in Nat /\ m \in Bad /\ \A n \in Bad : m <= n
    <3>1. Bad \subseteq Nat
      OBVIOUS
    <3>. HIDE DEF Bad
    <3>. QED BY <3>1, MinNat
  <2>. HIDE DEF m
  <2>2. \E sum \in [SUBSET S -> Nat] : UpTo(m, sum)
    <3>1. CASE m = 0
      <4>. DEFINE zero == [s \in SUBSET S |-> 0]
      <4>1. \A s \in SUBSET S : Cardinality(s) <= 0 => s = {}
        BY <1>1, FS_EmptySet
      <4>2. UpTo(0, zero)
        BY <4>1 DEF OneMore
      <4>. QED BY <3>1, <4>2
    <3>2. CASE m > 0
      <4>1. m - 1 \in Nat /\ ~ (m <= m - 1)
        BY <2>1, <3>2
      <4>2. ~ (m - 1 \in Bad)
        BY <2>1, <4>1
      <4>3. PICK g \in [SUBSET S -> Nat] : UpTo(m - 1, g)
        BY <4>1, <4>2
      <4>. DEFINE h == [s \in SUBSET S |-> IF Cardinality(s) = m THEN OneMore(f, s, g) ELSE g[s]]
      <4>4. h \in [SUBSET S -> Nat]
        <5>1. ASSUME NEW s \in SUBSET S
              PROVE  OneMore(f, s, g) \in Nat
          BY <1>2, <5>1 DEF OneMore
        <5>. QED BY <5>1
      <4>5. ASSUME NEW s \in SUBSET S, Cardinality(s) <= m
            PROVE  h[s] = OneMore(f, s, g) /\ OneMore(f, s, h) = OneMore(f, s, g)
        <5>1. h[s] = OneMore(f, s, g)
          <6>1. CASE Cardinality(s) = m
            BY <6>1
          <6>2. CASE Cardinality(s) # m
            <7>1. Cardinality(s) <= m - 1
              BY <1>1, <2>1, <4>5, <6>2
            <7>. QED BY <4>3, <6>2, <7>1
          <6>. QED BY <6>1, <6>2
        <5>2. CASE s = {}
          BY <5>1, <5>2 DEF OneMore
        <5>3. CASE s # {}
          <6>. DEFINE x == CHOOSE y \in s : TRUE
          <6>1. s \ {x} \in SUBSET S /\ Cardinality(s \ {x}) = Cardinality(s) - 1
            BY <1>2, <5>3
          <6>2. Cardinality(s \ {x}) # m
            BY <1>1, <2>1, <4>5, <6>1
          <6>3. h[s \ {x}] = g[s \ {x}]
            BY <6>1, <6>2
          <6>. QED BY <5>1, <6>3 DEF OneMore
        <5>. QED BY <5>2, <5>3
      <4>6. UpTo(m, h)
        BY <4>5
      <4>. QED BY <4>4, <4>6
    <3>3. m = 0 \/ m > 0
      BY <2>1
    <3>. QED BY <3>1, <3>2, <3>3
  <2>. QED BY <2>1, <2>2
<1>4. PICK sum \in [SUBSET S -> Nat] : UpTo(Cardinality(S), sum)
  BY <1>3, FS_CardinalityType
<1>5. \A s \in SUBSET S : sum[s] = OneMore(f, s, sum)
  BY <1>1, <1>4
<1>. QED BY <1>5 DEF IsSum

(* Hence the sum of the library is its value.                              *)
LEMMA SumDef ==
  ASSUME NEW S, IsFiniteSet(S), NEW f, \A x \in S : f[x] \in Nat
  PROVE  \E sum : IsSum(f, S, sum) /\ SumFunctionOnSet(f, S) = sum[S]
<1>1. PICK sum : sum = CHOOSE it : IsSum(f, S, it)
  OBVIOUS
<1>2. IsSum(f, S, sum)
  BY <1>1, SumExists
<1>3. SumFunctionOnSet(f, S) = sum[S]
  BY <1>1 DEF SumFunctionOnSet, FoldFunctionOnSet, MapThenFoldSet, IsSum, OneMore
<1>. QED BY <1>2, <1>3

(* It is unique, at every subset on which the summands agree.              *)
LEMMA SumUnique ==
  ASSUME NEW S, IsFiniteSet(S), NEW f, NEW sum, IsSum(f, S, sum),
         NEW T \in SUBSET S, NEW g, NEW sum2, IsSum(g, T, sum2),
         \A x \in T : f[x] = g[x]
  PROVE  sum[T] = sum2[T]
<1>. DEFINE Bad == {U \in SUBSET T : sum[U] # sum2[U]}
<1>1. \A U \in SUBSET T : /\ sum[U] = OneMore(f, U, sum)
                         /\ sum2[U] = OneMore(g, U, sum2)
  BY DEF IsSum
<1>2. ASSUME NEW U \in Bad, \A V \in Bad : V \subseteq U => V = U
      PROVE  FALSE
  <2>1. CASE U = {}
    BY <1>1, <1>2, <2>1 DEF OneMore
  <2>2. CASE U # {}
    <3>. DEFINE x == CHOOSE y \in U : TRUE
    <3>1. x \in U
      BY <2>2
    <3>. HIDE DEF x
    <3>2. U \ {x} \in SUBSET T /\ U \ {x} \subseteq U /\ U \ {x} # U
      BY <3>1
    <3>3. sum[U \ {x}] = sum2[U \ {x}] /\ f[x] = g[x]
      BY <1>2, <3>1, <3>2
    <3>4. OneMore(f, U, sum) = OneMore(g, U, sum2)
      BY <2>2, <3>3 DEF OneMore, x
    <3>. QED BY <1>1, <3>4
  <2>. QED BY <2>1, <2>2
<1>3. IsFiniteSet(T)
  BY FS_Subset
<1>. HIDE DEF Bad
<1>4. Bad = {}
  <2>1. Bad \subseteq SUBSET T
    BY DEF Bad
  <2>. QED BY <1>2, <1>3, <2>1, SmallestSet
<1>. QED BY <1>4 DEF Bad

(* The sum depends on the summands only.                                   *)
LEMMA SumAgrees ==
  ASSUME NEW S, IsFiniteSet(S), NEW f, NEW g,
         \A x \in S : f[x] \in Nat /\ f[x] = g[x]
  PROVE  SumFunctionOnSet(f, S) = SumFunctionOnSet(g, S)
<1>1. PICK sum : IsSum(f, S, sum) /\ SumFunctionOnSet(f, S) = sum[S]
  BY SumDef
<1>2. PICK sum2 : IsSum(g, S, sum2) /\ SumFunctionOnSet(g, S) = sum2[S]
  BY SumDef
<1>. QED BY <1>1, <1>2, SumUnique

(* The element the library chooses comes first.                            *)
LEMMA SumStep ==
  ASSUME NEW S, IsFiniteSet(S), NEW f, \A x \in S : f[x] \in Nat
  PROVE  SumFunctionOnSet(f, S) =
           IF S = {} THEN 0
           ELSE f[CHOOSE x \in S : TRUE] + SumFunctionOnSet(f, S \ {CHOOSE x \in S : TRUE})
<1>. DEFINE c == CHOOSE x \in S : TRUE
            T == S \ {c}
<1>1. PICK sum : IsSum(f, S, sum) /\ SumFunctionOnSet(f, S) = sum[S]
  BY SumDef
<1>2. IsFiniteSet(T) /\ T \in SUBSET S
  BY FS_Subset
<1>3. PICK sum2 : IsSum(f, T, sum2) /\ SumFunctionOnSet(f, T) = sum2[T]
  BY <1>2, SumDef
<1>4. sum[T] = sum2[T]
  BY <1>1, <1>2, <1>3, SumUnique
<1>5. sum[S] = OneMore(f, S, sum)
  BY <1>1 DEF IsSum
<1>. QED BY <1>1, <1>3, <1>4, <1>5 DEF OneMore

(* Nothing adds up to 0.                                                   *)
LEMMA SumEmpty ==
  ASSUME NEW f
  PROVE  SumFunctionOnSet(f, {}) = 0
BY SumStep, FS_EmptySet

(* A sum of naturals is a natural.                                         *)
LEMMA SumNat ==
  ASSUME NEW S, IsFiniteSet(S), NEW f, \A x \in S : f[x] \in Nat
  PROVE  SumFunctionOnSet(f, S) \in Nat
<1>. DEFINE Bad == {U \in SUBSET S : SumFunctionOnSet(f, U) \notin Nat}
<1>1. ASSUME NEW U \in Bad, \A V \in Bad : V \subseteq U => V = U
      PROVE  FALSE
  <2>1. CASE U = {}
    BY <1>1, <2>1, SumEmpty
  <2>2. CASE U # {}
    <3>. DEFINE c == CHOOSE x \in U : TRUE
    <3>1. c \in U
      BY <2>2
    <3>2. SumFunctionOnSet(f, U) = f[c] + SumFunctionOnSet(f, U \ {c})
      BY <1>1, <2>2, FS_Subset, SumStep
    <3>. HIDE DEF c
    <3>3. U \ {c} \in SUBSET S /\ U \ {c} # U
      BY <3>1
    <3>4. SumFunctionOnSet(f, U \ {c}) \in Nat
      BY <1>1, <3>3
    <3>5. f[c] \in Nat
      BY <3>1
    <3>. QED BY <1>1, <3>2, <3>4, <3>5
  <2>. QED BY <2>1, <2>2
<1>. HIDE DEF Bad
<1>2. Bad = {}
  <2>1. Bad \subseteq SUBSET S
    BY DEF Bad
  <2>. QED BY <1>1, <2>1, SmallestSet
<1>. QED BY <1>2 DEF Bad

(* Any other element may come first as well.                               *)
LEMMA SumRemove ==
  ASSUME NEW S, IsFiniteSet(S), NEW f, \A x \in S : f[x] \in Nat
  PROVE  \A x \in S : SumFunctionOnSet(f, S) = f[x] + SumFunctionOnSet(f, S \ {x})
<1>. DEFINE Sums(U, x) == SumFunctionOnSet(f, U) = f[x] + SumFunctionOnSet(f, U \ {x})
            Bad == {U \in SUBSET S : ~ \A x \in U : Sums(U, x)}
<1>1. ASSUME NEW U \in Bad, \A V \in Bad : V \subseteq U => V = U
      PROVE  FALSE
  <2>1. PICK x \in U : ~ Sums(U, x)
    BY <1>1
  <2>. DEFINE c == CHOOSE y \in U : TRUE
  <2>2. c \in U
    BY <2>1
  <2>3. Sums(U, c)
    <3>1. IsFiniteSet(U) /\ \A y \in U : f[y] \in Nat
      BY <1>1, FS_Subset
    <3>. QED BY <2>2, <3>1, SumStep
  <2>. HIDE DEF c
  <2>4. x # c
    BY <2>1, <2>3
  <2>5. /\ U \ {c} \in SUBSET S /\ U \ {c} # U /\ x \in U \ {c}
        /\ U \ {x} \in SUBSET S /\ U \ {x} # U /\ c \in U \ {x}
        /\ (U \ {c}) \ {x} = (U \ {x}) \ {c} /\ (U \ {c}) \ {x} \in SUBSET S
    BY <2>2, <2>4
  <2>6. Sums(U \ {c}, x) /\ Sums(U \ {x}, c)
    BY <1>1, <2>5
  <2>7. SumFunctionOnSet(f, (U \ {c}) \ {x}) \in Nat /\ f[x] \in Nat /\ f[c] \in Nat
    BY <2>2, <2>5, FS_Subset, SumNat
  <2>. DEFINE rest == SumFunctionOnSet(f, (U \ {c}) \ {x})
  <2>8. SumFunctionOnSet(f, U \ {c}) = f[x] + rest
    BY <2>6
  <2>9. SumFunctionOnSet(f, U \ {x}) = f[c] + rest
    BY <2>5, <2>6
  <2>10. SumFunctionOnSet(f, U) = f[c] + SumFunctionOnSet(f, U \ {c})
    BY <2>3
  <2>11. rest \in Nat /\ f[x] \in Nat /\ f[c] \in Nat
    BY <2>7
  <2>12. ~ (SumFunctionOnSet(f, U) = f[x] + SumFunctionOnSet(f, U \ {x}))
    BY <2>1
  <2>. HIDE DEF rest
  <2>. QED BY <2>8, <2>9, <2>10, <2>11, <2>12
<1>. HIDE DEF Bad
<1>2. Bad = {}
  <2>1. Bad \subseteq SUBSET S
    BY DEF Bad
  <2>. QED BY <1>1, <2>1, SmallestSet
<1>. QED BY <1>2 DEF Bad

(* One more at x is one more in all.                                       *)
LEMMA SumBump ==
  ASSUME NEW S, IsFiniteSet(S), NEW f, NEW g, NEW x, x \in S,
         \A y \in S : f[y] \in Nat,
         \A y \in S \ {x} : g[y] = f[y],
         g[x] = f[x] + 1
  PROVE  SumFunctionOnSet(g, S) = SumFunctionOnSet(f, S) + 1
<1>1. IsFiniteSet(S \ {x})
  BY FS_Subset
<1>2. SumFunctionOnSet(g, S \ {x}) = SumFunctionOnSet(f, S \ {x})
  BY <1>1, SumAgrees
<1>3. SumFunctionOnSet(f, S \ {x}) \in Nat
  BY <1>1, SumNat
<1>4. \A y \in S : g[y] \in Nat
  OBVIOUS
<1>5. /\ SumFunctionOnSet(f, S) = f[x] + SumFunctionOnSet(f, S \ {x})
      /\ SumFunctionOnSet(g, S) = g[x] + SumFunctionOnSet(g, S \ {x})
  BY <1>4, SumRemove
<1>. QED BY <1>2, <1>3, <1>5

(* Zeros add up to 0.                                                      *)
LEMMA SumZero ==
  ASSUME NEW S, IsFiniteSet(S), NEW f, \A x \in S : f[x] = 0
  PROVE  SumFunctionOnSet(f, S) = 0
<1>. DEFINE Bad == {U \in SUBSET S : SumFunctionOnSet(f, U) # 0}
<1>1. ASSUME NEW U \in Bad, \A V \in Bad : V \subseteq U => V = U
      PROVE  FALSE
  <2>1. PICK x \in U : TRUE
    BY <1>1, SumEmpty
  <2>2. U \ {x} \in SUBSET S /\ U \ {x} # U
    BY <2>1
  <2>3. SumFunctionOnSet(f, U \ {x}) = 0
    BY <1>1, <2>2
  <2>4. SumFunctionOnSet(f, U) = f[x] + SumFunctionOnSet(f, U \ {x})
    BY <1>1, <2>1, FS_Subset, SumRemove
  <2>. QED BY <1>1, <2>1, <2>3, <2>4
<1>. HIDE DEF Bad
<1>2. Bad = {}
  <2>1. Bad \subseteq SUBSET S
    BY DEF Bad
  <2>. QED BY <1>1, <2>1, SmallestSet
<1>. QED BY <1>2 DEF Bad

-----------------------------------------------------------------------------
(* estimate: a counter of the key, and none of them is smaller. *)
LEMMA EstimateOK ==
  ASSUME NEW table, Table(table), NEW h, Hash(h), NEW k \in Keys
  PROVE  /\ Estimate(table, h, k) \in Nat
         /\ \E r \in Rows : Estimate(table, h, k) = table[r][h[r][k]]
         /\ \A r \in Rows : Estimate(table, h, k) <= table[r][h[r][k]]
<1>. DEFINE S == {table[r][h[r][k]] : r \in Rows}
<1>1. S \subseteq Nat /\ S # {}
  BY TopKAssumption DEF Table, Hash
<1>2. Min(S) \in S /\ \A x \in S : Min(S) <= x
  <2>. HIDE DEF S
  <2>. QED BY <1>1, MinNat
<1>. QED BY <1>1, <1>2 DEF Estimate

(* increment: every counter of the key, and perhaps of others, is greater. *)
LEMMA IncrementOK ==
  ASSUME NEW table, Table(table), NEW h, Hash(h), NEW k \in Keys
  PROVE  /\ Table(Increment(table, h, k))
         /\ \A l \in Keys, r \in Rows :
              table[r][h[r][l]] <= Increment(table, h, k)[r][h[r][l]]
         /\ \A r \in Rows :
              Increment(table, h, k)[r][h[r][k]] = table[r][h[r][k]] + 1
BY DEF Table, Hash, Increment

-----------------------------------------------------------------------------
(* The dictionary. *)

LEMMA PutOK ==
  ASSUME NEW d, IsDict(d, Keys), NEW k \in Keys, NEW v
  PROVE  /\ IsDict(Put(d, k, v), Keys)
         /\ DOMAIN Put(d, k, v) = DOMAIN d \cup {k}
         /\ Put(d, k, v)[k] = v
         /\ \A x \in DOMAIN d \ {k} : Put(d, k, v)[x] = d[x]
BY DEF IsDict, Put

LEMMA DropOK ==
  ASSUME NEW d, IsDict(d, Keys), NEW m
  PROVE  /\ IsDict(Drop(d, {m}), Keys)
         /\ DOMAIN Drop(d, {m}) = DOMAIN d \ {m}
         /\ \A x \in DOMAIN d \ {m} : Drop(d, {m})[x] = d[x]
BY DEF IsDict, Drop, Restrict

-----------------------------------------------------------------------------
(* Between the two halves of a record of k: nothing in the heap or the     *)
(* dictionary reaches its new count, and all but k is as it should be.     *)
Ready(table, heap, tracked, h, n, k, count) ==
  /\ Sound(Keys \ {k}, [table |-> table, heap |-> heap, tracked |-> tracked], h, n)
  /\ count \in Nat /\ n[k] <= count
  /\ \A r \in Rows : count <= table[r][h[r][k]]
  /\ \A e \in heap : e[2] = k => e[1] < count
  /\ k \in DOMAIN tracked => tracked[k] < count

LEMMA IncrementReady ==
  ASSUME NEW table, NEW heap, NEW tracked, NEW h, NEW n, NEW k \in Keys,
         Sound(Keys, [table |-> table, heap |-> heap, tracked |-> tracked], h, n)
  PROVE  Ready(Increment(table, h, k), heap, tracked, h, [n EXCEPT ![k] = @ + 1],
               k, Estimate(Increment(table, h, k), h, k))
<1>. DEFINE table2 == Increment(table, h, k)
            n2     == [n EXCEPT ![k] = @ + 1]
            count  == Estimate(table2, h, k)
<1>1. /\ SketchOK(table, h, n) /\ Shape(heap, tracked) /\ Bounded(heap, tracked)
      /\ IsDict(tracked, Keys) /\ Matches(heap, tracked) /\ NotAhead(heap, table, h)
      /\ Counted(Keys, tracked, n) /\ Hot(Keys, tracked, n)
  BY DEF Sound
<1>2. /\ Table(table2)
      /\ \A l \in Keys, r \in Rows : table[r][h[r][l]] <= table2[r][h[r][l]]
      /\ \A r \in Rows : table2[r][h[r][k]] = table[r][h[r][k]] + 1
  BY <1>1, IncrementOK DEF SketchOK
<1>3. /\ count \in Nat
      /\ \E r \in Rows : count = table2[r][h[r][k]]
      /\ \A r \in Rows : count <= table2[r][h[r][k]]
  <2>. HIDE DEF table2
  <2>. QED BY <1>1, <1>2, EstimateOK DEF SketchOK
<1>4. /\ n2 \in [Keys -> Nat] /\ n2[k] = n[k] + 1
      /\ \A l \in Keys \ {k} : n2[l] = n[l]
  BY <1>1 DEF SketchOK
<1>5. /\ \A l \in Keys, r \in Rows : table[r][h[r][l]] \in Nat
      /\ \A l \in Keys, r \in Rows : table2[r][h[r][l]] \in Nat
  BY <1>1, <1>2 DEF SketchOK, Table, Hash
<1>. HIDE DEF table2, n2, count
<1>6. SketchOK(table2, h, n2)
  <2>. SUFFICES ASSUME NEW l \in Keys, NEW r \in Rows
                PROVE  n2[l] <= table2[r][h[r][l]]
    BY <1>1, <1>2, <1>4 DEF SketchOK
  <2>1. n[l] <= table[r][h[r][l]] /\ n[l] \in Nat
    BY <1>1 DEF SketchOK
  <2>2. table[r][h[r][l]] <= table2[r][h[r][l]]
    BY <1>2
  <2>3. CASE l = k
    BY <2>1, <2>3, <1>2, <1>4, <1>5
  <2>4. CASE l # k
    BY <2>1, <2>2, <2>4, <1>4, <1>5
  <2>. QED BY <2>3, <2>4
<1>7. NotAhead(heap, table2, h)
  <2>. SUFFICES ASSUME NEW e \in heap, NEW r \in Rows
                PROVE  e[1] <= table2[r][h[r][e[2]]]
    BY DEF NotAhead
  <2>1. e[1] \in Nat /\ e[2] \in Keys
    BY <1>1 DEF Shape
  <2>2. e[1] <= table[r][h[r][e[2]]]
    BY <1>1 DEF NotAhead
  <2>. QED BY <2>1, <2>2, <1>2, <1>5
<1>8. \A e \in heap : e[2] = k => e[1] < count
  <2>. SUFFICES ASSUME NEW e \in heap, e[2] = k
                PROVE  e[1] < count
    OBVIOUS
  <2>1. PICK r \in Rows : count = table2[r][h[r][k]]
    BY <1>3
  <2>2. e[1] \in Nat
    BY <1>1 DEF Shape
  <2>3. e[1] <= table[r][h[r][k]]
    BY <1>1 DEF NotAhead
  <2>. QED BY <2>1, <2>2, <2>3, <1>2, <1>5
<1>9. k \in DOMAIN tracked => tracked[k] < count
  <2>. SUFFICES ASSUME k \in DOMAIN tracked
                PROVE  tracked[k] < count
    OBVIOUS
  <2>1. <<tracked[k], k>> \in heap
    BY <1>1 DEF Matches
  <2>. QED BY <2>1, <1>8
<1>10. n2[k] <= count
  <2>1. PICK r \in Rows : count = table2[r][h[r][k]]
    BY <1>3
  <2>. QED BY <2>1, <1>6 DEF SketchOK
<1>11. Counted(Keys \ {k}, tracked, n2)
  BY <1>1, <1>4 DEF Counted
<1>12. Hot(Keys \ {k}, tracked, n2)
  <2>. SUFFICES ASSUME NEW l \in (Keys \ {k}) \ DOMAIN tracked, n2[l] > 0
                PROVE  /\ Cardinality(DOMAIN tracked) = K
                       /\ \A j \in DOMAIN tracked : n2[l] <= tracked[j]
    BY DEF Hot
  <2>1. n2[l] = n[l]
    BY <1>4
  <2>. QED BY <2>1, <1>1 DEF Hot
<1>13. Sound(Keys \ {k}, [table |-> table2, heap |-> heap, tracked |-> tracked], h, n2)
  BY <1>1, <1>6, <1>7, <1>11, <1>12 DEF Sound
<1>. QED BY <1>3, <1>8, <1>9, <1>10, <1>13 DEF Ready, table2, n2, count

(* The second half: k is tracked with its new count, and what else is new  *)
(* is that a key may be gone which had no greater count than any other.    *)
LEMMA Settled ==
  ASSUME NEW table, NEW heap, NEW tracked, NEW h, NEW n, NEW k \in Keys, NEW count,
         Ready(table, heap, tracked, h, n, k, count),
         NEW heap2, NEW tracked2,
         IsFiniteSet(heap2), IsFiniteSet(DOMAIN tracked2), IsDict(tracked2, Keys),
         heap2 \subseteq heap \cup {<<count, k>>},
         k \in DOMAIN tracked2, tracked2[k] = count,
         \A j \in DOMAIN tracked2 \ {k} : j \in DOMAIN tracked /\ tracked2[j] = tracked[j],
         \A j \in DOMAIN tracked2 : <<tracked2[j], j>> \in heap2,
         Bounded(heap2, tracked2),
         \A l \in DOMAIN tracked \ DOMAIN tracked2 :
            /\ Cardinality(DOMAIN tracked2) = K
            /\ \A j \in DOMAIN tracked2 : tracked[l] <= tracked2[j],
         Cardinality(DOMAIN tracked) = K =>
            /\ Cardinality(DOMAIN tracked2) = K
            /\ \E j \in DOMAIN tracked : tracked[j] <= count
  PROVE  Sound(Keys, [table |-> table, heap |-> heap2, tracked |-> tracked2], h, n)
<1>1. /\ SketchOK(table, h, n) /\ Shape(heap, tracked)
      /\ Matches(heap, tracked) /\ NotAhead(heap, table, h)
      /\ Counted(Keys \ {k}, tracked, n) /\ Hot(Keys \ {k}, tracked, n)
      /\ count \in Nat /\ n[k] <= count
      /\ \A r \in Rows : count <= table[r][h[r][k]]
      /\ \A e \in heap : e[2] = k => e[1] < count
  BY DEF Ready, Sound
<1>2. \A j \in DOMAIN tracked : j \in Keys /\ tracked[j] \in Nat
  BY <1>1 DEF Shape
<1>3. \A e \in heap : e[1] \in Nat /\ e[2] \in Keys
  BY <1>1 DEF Shape
<1>4. \A j \in DOMAIN tracked2 : j \in Keys /\ tracked2[j] \in Nat
  BY <1>1, <1>2
<1>5. \A l \in Keys : n[l] \in Nat
  BY <1>1 DEF SketchOK
<1>6. Shape(heap2, tracked2)
  <2>1. heap2 \subseteq Nat \X Keys
    BY <1>1 DEF Shape
  <2>. QED BY <2>1, <1>4 DEF Shape
<1>7. Matches(heap2, tracked2)
  <2>. SUFFICES ASSUME NEW e \in heap2, e[2] \in DOMAIN tracked2
                PROVE  e[1] <= tracked2[e[2]]
    BY DEF Matches
  <2>1. CASE e = <<count, k>>
    BY <2>1, <1>1
  <2>2. CASE e \in heap /\ e[2] = k
    BY <2>2, <1>1, <1>3
  <2>3. CASE e \in heap /\ e[2] # k
    <3>1. e[2] \in DOMAIN tracked /\ tracked2[e[2]] = tracked[e[2]]
      BY <2>3
    <3>. QED BY <3>1, <2>3, <1>1 DEF Matches
  <2>. QED BY <2>1, <2>2, <2>3
<1>8. NotAhead(heap2, table, h)
  BY <1>1 DEF NotAhead
<1>9. Counted(Keys, tracked2, n)
  <2>. SUFFICES ASSUME NEW l \in DOMAIN tracked2
                PROVE  n[l] <= tracked2[l]
    BY DEF Counted
  <2>1. CASE l = k
    BY <2>1, <1>1
  <2>2. CASE l # k
    BY <2>2, <1>1, <1>2 DEF Counted
  <2>. QED BY <2>1, <2>2
<1>10. Hot(Keys, tracked2, n)
  <2>. SUFFICES ASSUME NEW l \in Keys \ DOMAIN tracked2, n[l] > 0
                PROVE  /\ Cardinality(DOMAIN tracked2) = K
                       /\ \A j \in DOMAIN tracked2 : n[l] <= tracked2[j]
    BY DEF Hot
  <2>1. l # k
    OBVIOUS
  <2>2. CASE l \in DOMAIN tracked
    <3>1. n[l] <= tracked[l] /\ n[l] \in Nat /\ tracked[l] \in Nat
      BY <2>1, <2>2, <1>1, <1>2, <1>5 DEF Counted
    <3>2. ASSUME NEW j \in DOMAIN tracked2
          PROVE  n[l] <= tracked2[j]
      <4>1. tracked[l] <= tracked2[j] /\ tracked2[j] \in Nat
        BY <2>2, <1>4
      <4>. QED BY <4>1, <3>1
    <3>. QED BY <3>2, <2>2
  <2>3. CASE l \notin DOMAIN tracked
    <3>1. /\ Cardinality(DOMAIN tracked) = K
          /\ \A j \in DOMAIN tracked : n[l] <= tracked[j]
      BY <2>1, <2>3, <1>1 DEF Hot
    <3>2. PICK i \in DOMAIN tracked : tracked[i] <= count
      BY <3>1
    <3>3. n[l] <= count
      <4>1. n[l] <= tracked[i] /\ n[l] \in Nat /\ tracked[i] \in Nat
        BY <3>1, <1>2, <1>5
      <4>. QED BY <4>1, <3>2, <1>1
    <3>4. ASSUME NEW j \in DOMAIN tracked2
          PROVE  n[l] <= tracked2[j]
      <4>1. CASE j = k
        BY <4>1, <3>3
      <4>2. CASE j # k
        BY <4>2, <3>1
      <4>. QED BY <4>1, <4>2
    <3>. QED BY <3>1, <3>4
  <2>. QED BY <2>2, <2>3
<1>. QED BY <1>1, <1>6, <1>7, <1>8, <1>9, <1>10 DEF Sound

LEMMA CompactHeapOK ==
  ASSUME NEW d, IsFiniteSet(DOMAIN d)
  PROVE  /\ IsFiniteSet(CompactHeap(d))
         /\ Cardinality(CompactHeap(d)) <= Cardinality(DOMAIN d)
<1>. DEFINE f == [x \in DOMAIN d |-> <<d[x], x>>]
<1>1. f \in Surjection(DOMAIN d, CompactHeap(d))
  BY DEF Surjection, CompactHeap
<1>. HIDE DEF f
<1>. QED BY <1>1, FS_Surjection

LEMMA UpdateSound ==
  ASSUME NEW table, NEW heap, NEW tracked, NEW h, NEW n, NEW k \in Keys, NEW count,
         Ready(table, heap, tracked, h, n, k, count),
         k \in DOMAIN tracked
  PROVE  Sound(Keys,
               Update([table |-> table, heap |-> heap, tracked |-> tracked], k, count),
               h, n)
<1>. DEFINE tracked2 == Put(tracked, k, count)
            heap1    == heap \cup {<<count, k>>}
            heap2    == IF Cardinality(heap1) > K * HeapCleanupRatio
                        THEN CompactHeap(tracked2) ELSE heap1
<1>1. /\ Shape(heap, tracked) /\ Bounded(heap, tracked) /\ IsDict(tracked, Keys)
      /\ Matches(heap, tracked) /\ count \in Nat /\ tracked[k] < count
  BY DEF Ready, Sound
<1>2. /\ IsDict(tracked2, Keys) /\ DOMAIN tracked2 = DOMAIN tracked
      /\ tracked2[k] = count
      /\ \A j \in DOMAIN tracked \ {k} : tracked2[j] = tracked[j]
  BY <1>1, PutOK
<1>. HIDE DEF tracked2
<1>3. IsFiniteSet(DOMAIN tracked2) /\ IsFiniteSet(heap1)
  BY <1>1, <1>2, FS_AddElement DEF Shape
<1>4. IsFiniteSet(CompactHeap(tracked2))
      /\ Cardinality(CompactHeap(tracked2)) <= Cardinality(DOMAIN tracked2)
  BY <1>3, CompactHeapOK
<1>5. IsFiniteSet(heap2)
  BY <1>3, <1>4
<1>6. \A j \in DOMAIN tracked2 : <<tracked2[j], j>> \in heap1
  BY <1>1, <1>2 DEF Matches
<1>7. \A j \in DOMAIN tracked2 : <<tracked2[j], j>> \in CompactHeap(tracked2)
  BY DEF CompactHeap
<1>8. CompactHeap(tracked2) \subseteq heap1
  BY <1>6 DEF CompactHeap
<1>9. heap2 \subseteq heap1 /\ \A j \in DOMAIN tracked2 : <<tracked2[j], j>> \in heap2
  BY <1>6, <1>7, <1>8
<1>10. Bounded(heap2, tracked2)
  <2>1. Cardinality(DOMAIN tracked2) \in Nat /\ Cardinality(DOMAIN tracked2) # 0
    BY <1>2, <1>3, FS_CardinalityType, FS_EmptySet
  <2>2. Cardinality(DOMAIN tracked2) <= K
    BY <1>1, <1>2 DEF Bounded
  <2>3. Cardinality(heap1) \in Nat /\ Cardinality(heap2) \in Nat
    BY <1>3, <1>5, FS_CardinalityType
  <2>4. Cardinality(heap2) <= K * HeapCleanupRatio
    <3>1. CASE Cardinality(heap1) > K * HeapCleanupRatio
      <4>1. heap2 = CompactHeap(tracked2)
        BY <3>1
      <4>. HIDE DEF heap2
      <4>2. Cardinality(heap2) <= K
        BY <4>1, <1>4, <2>1, <2>2, <2>3, TopKAssumption
      <4>. QED BY <4>2, <2>3, TopKAssumption DEF HeapCleanupRatio
    <3>2. CASE ~ (Cardinality(heap1) > K * HeapCleanupRatio)
      BY <3>2, <2>3, TopKAssumption DEF HeapCleanupRatio
    <3>. QED BY <3>1, <3>2
  <2>. HIDE DEF heap2, heap1
  <2>. QED BY <2>1, <2>2, <2>3, <2>4, TopKAssumption DEF Bounded, HeapCleanupRatio
<1>11. \E j \in DOMAIN tracked : tracked[j] <= count
  BY <1>1 DEF Shape
<1>12. Update([table |-> table, heap |-> heap, tracked |-> tracked], k, count)
         = [table |-> table, heap |-> heap2, tracked |-> tracked2]
  BY DEF Update, tracked2
<1>. HIDE DEF heap2
<1>13. heap2 \subseteq heap \cup {<<count, k>>}
  BY <1>9
<1>. QED BY <1>2, <1>3, <1>5, <1>9, <1>10, <1>11, <1>12, <1>13, Settled

LEMMA AdmitSound ==
  ASSUME NEW table, NEW heap, NEW tracked, NEW h, NEW n, NEW k \in Keys, NEW count,
         Ready(table, heap, tracked, h, n, k, count),
         k \notin DOMAIN tracked, ~ (Cardinality(DOMAIN tracked) >= K)
  PROVE  Sound(Keys,
               Admit([table |-> table, heap |-> heap, tracked |-> tracked], k, count),
               h, n)
<1>. DEFINE tracked2 == Put(tracked, k, count)
            heap2    == heap \cup {<<count, k>>}
            size     == Cardinality(DOMAIN tracked)
<1>1. /\ Shape(heap, tracked) /\ Bounded(heap, tracked) /\ IsDict(tracked, Keys)
      /\ Matches(heap, tracked) /\ count \in Nat
  BY DEF Ready, Sound
<1>2. /\ IsDict(tracked2, Keys) /\ DOMAIN tracked2 = DOMAIN tracked \cup {k}
      /\ tracked2[k] = count
      /\ \A j \in DOMAIN tracked \ {k} : tracked2[j] = tracked[j]
  BY <1>1, PutOK
<1>. HIDE DEF tracked2
<1>3. /\ IsFiniteSet(DOMAIN tracked2) /\ Cardinality(DOMAIN tracked2) = size + 1
      /\ size \in Nat /\ size < K
  BY <1>1, <1>2, FS_AddElement, FS_CardinalityType, TopKAssumption DEF Shape
<1>4. /\ IsFiniteSet(heap2) /\ Cardinality(heap2) <= Cardinality(heap) + 1
      /\ Cardinality(heap) \in Nat /\ Cardinality(heap2) \in Nat
  <2>1. IsFiniteSet(heap) /\ Cardinality(heap) \in Nat
    BY <1>1, FS_CardinalityType DEF Shape
  <2>2. IsFiniteSet(heap2)
    BY <2>1, FS_AddElement
  <2>3. Cardinality(heap2) =
          IF <<count, k>> \in heap THEN Cardinality(heap) ELSE Cardinality(heap) + 1
    BY <2>1, FS_AddElement
  <2>4. Cardinality(heap2) \in Nat
    BY <2>1, <2>3
  <2>. QED BY <2>1, <2>2, <2>3, <2>4
<1>5. Bounded(heap2, tracked2)
  <2>1. size = 0 => Cardinality(heap) = 0
    BY <1>1, FS_EmptySet DEF Bounded
  <2>2. size > 0 => Cardinality(heap) <= K * HeapCleanupRatio + size - 1
    BY <1>1 DEF Bounded
  <2>. HIDE DEF heap2, size
  <2>. QED BY <2>1, <2>2, <1>3, <1>4, TopKAssumption DEF Bounded, HeapCleanupRatio
<1>6. \A j \in DOMAIN tracked2 : <<tracked2[j], j>> \in heap2
  BY <1>1, <1>2 DEF Matches
<1>7. Admit([table |-> table, heap |-> heap, tracked |-> tracked], k, count)
        = [table |-> table, heap |-> heap2, tracked |-> tracked2]
  BY DEF Admit, tracked2
<1>8. heap2 \subseteq heap \cup {<<count, k>>}
  OBVIOUS
<1>. HIDE DEF size, heap2
<1>9. ~ (Cardinality(DOMAIN tracked) = K)
  BY <1>3 DEF size
<1>. QED BY SMTT(60), <1>2, <1>3, <1>4, <1>5, <1>6, <1>7, <1>8, <1>9, Settled

(* _peek_min: as the heap has the entries of all tracked keys, there is a  *)
(* minimum if any key is tracked, and it is of a key with the least count. *)
LEMMA PeekMinExists ==
  ASSUME NEW heap, NEW tracked, Shape(heap, tracked), Matches(heap, tracked),
         DOMAIN tracked # {}
  PROVE  \E min \in heap : IsPeekMin(heap, tracked, min)
<1>. DEFINE counts  == {tracked[j] : j \in DOMAIN tracked}
            least   == Min(counts)
            names   == {j \in DOMAIN tracked : tracked[j] = least}
            name    == Min(names)
            min     == <<least, name>>
<1>1. \A j \in DOMAIN tracked : tracked[j] \in Nat /\ j \in Keys /\ j \in Nat
  BY TopKAssumption DEF Shape
<1>2. least \in counts /\ \A x \in counts : least <= x
  <2>1. counts \subseteq Nat /\ counts # {}
    BY <1>1
  <2>. HIDE DEF counts
  <2>. QED BY <2>1, MinNat
<1>3. name \in names /\ \A x \in names : name <= x
  <2>1. names \subseteq Nat /\ names # {}
    <3>. HIDE DEF least
    <3>. QED BY <1>1, <1>2
  <2>. HIDE DEF names
  <2>. QED BY <2>1, MinNat
<1>4. name \in DOMAIN tracked /\ tracked[name] = least /\ name \in Nat /\ least \in Nat
  BY <1>1, <1>3
<1>5. \A j \in DOMAIN tracked :
        least <= tracked[j] /\ (tracked[j] = least => name <= j)
  <2>. HIDE DEF least, name
  <2>. QED BY <1>2, <1>3
<1>. HIDE DEF least, name
<1>6. min \in heap /\ Current(tracked, min)
  BY <1>4 DEF Matches, Current
<1>7. ASSUME NEW e \in heap, Current(tracked, e)
      PROVE  ~ Before(e, min)
  <2>1. e[2] \in DOMAIN tracked /\ tracked[e[2]] = e[1]
    BY <1>7 DEF Current
  <2>2. e[1] \in Nat /\ e[2] \in Nat
    BY <1>1, <2>1
  <2>3. least <= e[1] /\ (e[1] = least => name <= e[2])
    BY <1>5, <2>1
  <2>. QED BY <1>4, <2>2, <2>3 DEF Before
<1>. QED BY <1>6, <1>7 DEF IsPeekMin

LEMMA PeekMinLeast ==
  ASSUME NEW heap, NEW tracked, Shape(heap, tracked), Matches(heap, tracked),
         NEW min, IsPeekMin(heap, tracked, min)
  PROVE  /\ min \in heap /\ min[2] \in DOMAIN tracked
         /\ tracked[min[2]] = min[1] /\ min[1] \in Nat
         /\ \A j \in DOMAIN tracked : min[1] <= tracked[j]
<1>1. min \in heap /\ min[2] \in DOMAIN tracked /\ tracked[min[2]] = min[1]
  BY DEF IsPeekMin, Current
<1>2. min[1] \in Nat
  BY <1>1 DEF Shape
<1>3. ASSUME NEW j \in DOMAIN tracked
      PROVE  min[1] <= tracked[j]
  <2>. DEFINE e == <<tracked[j], j>>
  <2>1. e \in heap /\ Current(tracked, e) /\ e[1] = tracked[j]
    BY DEF Matches, Current
  <2>. HIDE DEF e
  <2>2. ~ Before(e, min)
    BY <2>1 DEF IsPeekMin
  <2>3. ~ (e[1] < min[1])
    BY <2>2 DEF Before
  <2>4. tracked[j] \in Nat
    BY DEF Shape
  <2>. QED BY <1>2, <2>1, <2>3, <2>4
<1>. QED BY <1>1, <1>2, <1>3

\* What _peek_min pops is not the entry of any tracked key.
LEMMA PeekedOK ==
  ASSUME NEW heap, NEW tracked, Shape(heap, tracked), Matches(heap, tracked)
  PROVE  /\ Peeked(heap, tracked) \subseteq heap
         /\ IsFiniteSet(Peeked(heap, tracked))
         /\ Cardinality(Peeked(heap, tracked)) <= Cardinality(heap)
         /\ \A j \in DOMAIN tracked : <<tracked[j], j>> \in Peeked(heap, tracked)
<1>1. Peeked(heap, tracked) \subseteq heap
  BY DEF Peeked
<1>2. /\ IsFiniteSet(Peeked(heap, tracked))
      /\ Cardinality(Peeked(heap, tracked)) <= Cardinality(heap)
  BY <1>1, FS_Subset DEF Shape
<1>3. ASSUME NEW j \in DOMAIN tracked
      PROVE  <<tracked[j], j>> \in Peeked(heap, tracked)
  <2>. DEFINE e == <<tracked[j], j>>
  <2>1. e \in heap /\ Current(tracked, e)
    BY DEF Matches, Current
  <2>2. ~ Before(e, e)
    <3>1. tracked[j] \in Nat /\ j \in Nat
      BY TopKAssumption DEF Shape
    <3>. QED BY <3>1 DEF Before
  <2>. HIDE DEF e
  <2>3. e \in Peeked(heap, tracked)
    BY <2>1, <2>2 DEF Peeked
  <2>. QED BY <2>3 DEF e
<1>. QED BY <1>1, <1>2, <1>3

LEMMA ReplaceSound ==
  ASSUME NEW table, NEW heap, NEW tracked, NEW h, NEW n, NEW k \in Keys, NEW count,
         Ready(table, heap, tracked, h, n, k, count),
         k \notin DOMAIN tracked, Cardinality(DOMAIN tracked) >= K,
         NEW min \in heap, IsPeekMin(heap, tracked, min), count > min[1]
  PROVE  Sound(Keys,
               Replace([table |-> table, heap |-> heap, tracked |-> tracked],
                       k, count, min),
               h, n)
<1>. DEFINE gone     == Drop(tracked, {min[2]})
            tracked2 == Put(gone, k, count)
            rest     == Peeked(heap, tracked) \ {min}
            heap2    == rest \cup {<<count, k>>}
            size     == Cardinality(DOMAIN tracked)
<1>1. /\ Shape(heap, tracked) /\ Bounded(heap, tracked) /\ IsDict(tracked, Keys)
      /\ Matches(heap, tracked) /\ count \in Nat
  BY DEF Ready, Sound
<1>2. /\ min[2] \in DOMAIN tracked /\ tracked[min[2]] = min[1] /\ min[1] \in Nat
      /\ \A j \in DOMAIN tracked : min[1] <= tracked[j]
  BY <1>1, PeekMinLeast
<1>3. \A j \in DOMAIN tracked : tracked[j] \in Nat
  BY <1>1 DEF Shape
<1>4. /\ IsDict(gone, Keys) /\ DOMAIN gone = DOMAIN tracked \ {min[2]}
      /\ \A j \in DOMAIN tracked \ {min[2]} : gone[j] = tracked[j]
  BY <1>1, DropOK
<1>5. /\ IsDict(tracked2, Keys)
      /\ DOMAIN tracked2 = (DOMAIN tracked \ {min[2]}) \cup {k}
      /\ tracked2[k] = count
      /\ \A j \in DOMAIN tracked2 \ {k} : tracked2[j] = tracked[j]
  <2>. HIDE DEF gone
  <2>1. /\ IsDict(Put(gone, k, count), Keys)
        /\ DOMAIN Put(gone, k, count) = DOMAIN gone \cup {k}
        /\ Put(gone, k, count)[k] = count
        /\ \A x \in DOMAIN gone \ {k} : Put(gone, k, count)[x] = gone[x]
    BY <1>4 DEF IsDict, Put
  <2>2. tracked2 = Put(gone, k, count)
    OBVIOUS
  <2>. HIDE DEF tracked2
  <2>. QED BY <1>4, <2>1, <2>2
<1>. HIDE DEF tracked2, gone
<1>6. size = K /\ size \in Nat
  <2>1. size \in Nat /\ size <= K
    BY <1>1, FS_CardinalityType DEF Shape, Bounded
  <2>. QED BY <2>1, TopKAssumption
<1>7. IsFiniteSet(DOMAIN tracked2) /\ Cardinality(DOMAIN tracked2) = K
  <2>1. /\ IsFiniteSet(DOMAIN tracked \ {min[2]})
        /\ Cardinality(DOMAIN tracked \ {min[2]}) = size - 1
    BY <1>1, <1>2, FS_RemoveElement DEF Shape
  <2>2. k \notin DOMAIN tracked \ {min[2]}
    OBVIOUS
  <2>3. /\ IsFiniteSet((DOMAIN tracked \ {min[2]}) \cup {k})
        /\ Cardinality((DOMAIN tracked \ {min[2]}) \cup {k}) = (size - 1) + 1
    BY <2>1, <2>2, FS_AddElement
  <2>. QED BY <1>5, <1>6, <2>3, TopKAssumption
<1>8. /\ rest \subseteq heap /\ IsFiniteSet(heap2)
      /\ Cardinality(heap) \in Nat /\ Cardinality(heap2) \in Nat
      /\ Cardinality(heap2) <= Cardinality(heap)
  <2>1. Peeked(heap, tracked) \subseteq heap
    BY <1>1, PeekedOK
  <2>2. IsFiniteSet(heap) /\ Cardinality(heap) \in Nat
    BY <1>1, FS_CardinalityType DEF Shape
  <2>3. /\ IsFiniteSet(heap \ {min})
        /\ Cardinality(heap \ {min}) = Cardinality(heap) - 1
    BY <2>2, FS_RemoveElement
  <2>4. rest \in SUBSET (heap \ {min})
    BY <2>1
  <2>5. IsFiniteSet(rest) /\ Cardinality(rest) <= Cardinality(heap \ {min})
    BY <2>3, <2>4, FS_Subset
  <2>6. Cardinality(rest) \in Nat
    BY <2>5, FS_CardinalityType
  <2>7. /\ IsFiniteSet(heap2)
        /\ Cardinality(heap2) =
             IF <<count, k>> \in rest THEN Cardinality(rest) ELSE Cardinality(rest) + 1
    <3>. HIDE DEF rest
    <3>. QED BY <2>5, FS_AddElement
  <2>8. Cardinality(heap2) \in Nat /\ Cardinality(heap2) <= Cardinality(rest) + 1
    <3>. HIDE DEF rest, heap2
    <3>. QED BY <2>6, <2>7
  <2>. HIDE DEF rest, heap2
  <2>9. Cardinality(heap2) <= Cardinality(heap)
    BY <2>2, <2>3, <2>5, <2>6, <2>8
  <2>10. rest \subseteq heap
    BY <2>4
  <2>. QED BY <2>2, <2>7, <2>8, <2>9, <2>10
<1>9. Bounded(heap2, tracked2)
  <2>1. Cardinality(heap) <= K * HeapCleanupRatio + K - 1
    BY <1>1, <1>6, TopKAssumption DEF Bounded
  <2>. HIDE DEF heap2
  <2>. QED BY <2>1, <1>7, <1>8, TopKAssumption DEF Bounded, HeapCleanupRatio
<1>10. ASSUME NEW j \in DOMAIN tracked2
       PROVE  <<tracked2[j], j>> \in heap2
  <2>1. CASE j = k
    BY <2>1, <1>5
  <2>2. CASE j # k
    <3>1. j \in DOMAIN tracked /\ j # min[2] /\ tracked2[j] = tracked[j]
      BY <2>2, <1>5
    <3>2. <<tracked[j], j>> \in Peeked(heap, tracked)
      BY <3>1, <1>1, PeekedOK
    <3>3. <<tracked[j], j>> # min
      BY <3>1
    <3>. QED BY <3>1, <3>2, <3>3
  <2>. QED BY <2>1, <2>2
<1>11. ASSUME NEW l \in DOMAIN tracked \ DOMAIN tracked2
       PROVE  /\ Cardinality(DOMAIN tracked2) = K
              /\ \A j \in DOMAIN tracked2 : tracked[l] <= tracked2[j]
  <2>1. tracked[l] = min[1]
    BY <1>2, <1>5
  <2>2. ASSUME NEW j \in DOMAIN tracked2
        PROVE  min[1] <= tracked2[j]
    <3>1. CASE j = k
      BY <3>1, <1>1, <1>2, <1>5
    <3>2. CASE j # k
      BY <3>2, <1>2, <1>5
    <3>. QED BY <3>1, <3>2
  <2>. QED BY <2>1, <2>2, <1>7
<1>12. \E j \in DOMAIN tracked : tracked[j] <= count
  BY <1>1, <1>2
<1>13. heap2 \subseteq heap \cup {<<count, k>>}
  BY <1>8
<1>14. Replace([table |-> table, heap |-> heap, tracked |-> tracked], k, count, min)
         = [table |-> table, heap |-> heap2, tracked |-> tracked2]
  BY DEF Replace, tracked2, gone
<1>15. k \in DOMAIN tracked2
       /\ \A j \in DOMAIN tracked2 \ {k} : j \in DOMAIN tracked /\ tracked2[j] = tracked[j]
  BY <1>5
<1>. HIDE DEF heap2
<1>. QED
  BY <1>5, <1>7, <1>8, <1>9, <1>10, <1>11, <1>12, <1>13, <1>14, <1>15, Settled

LEMMA IgnoreSound ==
  ASSUME NEW table, NEW heap, NEW tracked, NEW h, NEW n, NEW k \in Keys, NEW count,
         Ready(table, heap, tracked, h, n, k, count),
         k \notin DOMAIN tracked, Cardinality(DOMAIN tracked) >= K,
         \A min \in heap : IsPeekMin(heap, tracked, min) => ~ (count > min[1])
  PROVE  Sound(Keys,
               Ignore([table |-> table, heap |-> heap, tracked |-> tracked]),
               h, n)
<1>. DEFINE heap2 == Peeked(heap, tracked)
<1>1. /\ SketchOK(table, h, n) /\ Shape(heap, tracked) /\ Bounded(heap, tracked)
      /\ IsDict(tracked, Keys) /\ Matches(heap, tracked) /\ NotAhead(heap, table, h)
      /\ Counted(Keys \ {k}, tracked, n) /\ Hot(Keys \ {k}, tracked, n)
      /\ count \in Nat /\ n[k] <= count
  BY DEF Ready, Sound
<1>2. /\ heap2 \subseteq heap /\ IsFiniteSet(heap2)
      /\ Cardinality(heap2) <= Cardinality(heap)
      /\ \A j \in DOMAIN tracked : <<tracked[j], j>> \in heap2
  BY <1>1, PeekedOK
<1>. HIDE DEF heap2
<1>3. Cardinality(DOMAIN tracked) = K /\ DOMAIN tracked # {}
  <2>1. Cardinality(DOMAIN tracked) \in Nat /\ Cardinality(DOMAIN tracked) <= K
    BY <1>1, FS_CardinalityType DEF Shape, Bounded
  <2>2. Cardinality(DOMAIN tracked) = K
    BY <2>1, TopKAssumption
  <2>. QED BY <2>2, FS_EmptySet, TopKAssumption
<1>4. Shape(heap2, tracked)
  BY <1>1, <1>2 DEF Shape
<1>5. Bounded(heap2, tracked)
  <2>1. Cardinality(heap) \in Nat /\ Cardinality(heap2) \in Nat
    BY <1>1, <1>2, FS_CardinalityType DEF Shape
  <2>2. Cardinality(heap) <= K * HeapCleanupRatio + K - 1
    BY <1>1, <1>3, TopKAssumption DEF Bounded
  <2>. QED BY <1>2, <1>3, <2>1, <2>2, TopKAssumption DEF Bounded, HeapCleanupRatio
<1>6. Matches(heap2, tracked) /\ NotAhead(heap2, table, h)
  BY <1>1, <1>2 DEF Matches, NotAhead
<1>7. Counted(Keys, tracked, n)
  BY <1>1 DEF Counted
<1>8. \A j \in DOMAIN tracked : n[k] <= tracked[j]
  <2>1. PICK min \in heap : IsPeekMin(heap, tracked, min)
    BY <1>1, <1>3, PeekMinExists
  <2>2. min[1] \in Nat /\ \A j \in DOMAIN tracked : min[1] <= tracked[j]
    BY <1>1, <2>1, PeekMinLeast
  <2>3. count <= min[1]
    BY <1>1, <2>1, <2>2
  <2>4. n[k] \in Nat
    BY <1>1 DEF SketchOK
  <2>5. \A j \in DOMAIN tracked : tracked[j] \in Nat
    BY <1>1 DEF Shape
  <2>. QED BY <1>1, <2>2, <2>3, <2>4, <2>5
<1>9. Hot(Keys, tracked, n)
  <2>. SUFFICES ASSUME NEW l \in Keys \ DOMAIN tracked, n[l] > 0
                PROVE  \A j \in DOMAIN tracked : n[l] <= tracked[j]
    BY <1>3 DEF Hot
  <2>1. CASE l = k
    BY <2>1, <1>8
  <2>2. CASE l # k
    BY <2>2, <1>1 DEF Hot
  <2>. QED BY <2>1, <2>2
<1>10. Ignore([table |-> table, heap |-> heap, tracked |-> tracked])
         = [table |-> table, heap |-> heap2, tracked |-> tracked]
  BY DEF Ignore, heap2
<1>. QED BY <1>1, <1>4, <1>5, <1>6, <1>7, <1>9, <1>10 DEF Sound

-----------------------------------------------------------------------------
(* record: whatever it does, all is as it should be. *)
LEMMA RecordSound ==
  ASSUME NEW k \in Keys, Sound(Keys, tracker, hash, accesses), Record(k),
         tracker = [table   |-> tracker.table,
                    heap    |-> tracker.heap,
                    tracked |-> tracker.tracked]
  PROVE  Sound(Keys, tracker', hash, [accesses EXCEPT ![k] = @ + 1])
<1>. DEFINE table   == Increment(tracker.table, hash, k)
            count   == Estimate(table, hash, k)
            heap    == tracker.heap
            tracked == tracker.tracked
            t       == [table |-> table, heap |-> heap, tracked |-> tracked]
            n       == [accesses EXCEPT ![k] = @ + 1]
<1>1. Ready(table, heap, tracked, hash, n, k, count)
  BY IncrementReady
<1>2. \/ k \in DOMAIN tracked /\ tracker' = Update(t, k, count)
      \/ /\ k \notin DOMAIN tracked /\ ~ (Cardinality(DOMAIN tracked) >= K)
         /\ tracker' = Admit(t, k, count)
      \/ /\ k \notin DOMAIN tracked /\ Cardinality(DOMAIN tracked) >= K
         /\ \/ \E min \in heap : /\ IsPeekMin(heap, tracked, min) /\ count > min[1]
                                 /\ tracker' = Replace(t, k, count, min)
            \/ /\ \A min \in heap : IsPeekMin(heap, tracked, min) => ~ (count > min[1])
               /\ tracker' = Ignore(t)
  BY DEF Record
<1>. HIDE DEF table, count, heap, tracked, n
<1>3. CASE k \in DOMAIN tracked /\ tracker' = Update(t, k, count)
  BY <1>1, <1>3, UpdateSound DEF n
<1>4. CASE /\ k \notin DOMAIN tracked /\ ~ (Cardinality(DOMAIN tracked) >= K)
           /\ tracker' = Admit(t, k, count)
  BY <1>1, <1>4, AdmitSound DEF n
<1>5. ASSUME k \notin DOMAIN tracked, Cardinality(DOMAIN tracked) >= K,
             NEW min \in heap, IsPeekMin(heap, tracked, min), count > min[1],
             tracker' = Replace(t, k, count, min)
      PROVE  Sound(Keys, tracker', hash, n)
  BY <1>1, <1>5, ReplaceSound
<1>6. CASE /\ k \notin DOMAIN tracked /\ Cardinality(DOMAIN tracked) >= K
           /\ \A min \in heap : IsPeekMin(heap, tracked, min) => ~ (count > min[1])
           /\ tracker' = Ignore(t)
  BY <1>1, <1>6, IgnoreSound DEF n
<1>. QED BY <1>2, <1>3, <1>4, <1>5, <1>6 DEF n

\* The inductive invariant.
SoundTracker ==
  /\ tracker = [table   |-> tracker.table,
                heap    |-> tracker.heap,
                tracked |-> tracker.tracked]
  /\ Sound(Keys, tracker, hash, accesses)

(* Init => IInv. *)
LEMMA InitSound == Init => SoundTracker
<1>. SUFFICES ASSUME Init
              PROVE  SoundTracker
  OBVIOUS
<1>1. /\ tracker = NewTracker /\ accesses = [k \in Keys |-> 0]
      /\ hash \in [Rows -> [Keys -> Columns]]
  BY DEF Init
<1>2. /\ tracker.table = [r \in Rows |-> [c \in Columns |-> 0]]
      /\ tracker.heap = {} /\ tracker.tracked = EmptyDict
      /\ DOMAIN tracker.tracked = {}
  BY <1>1 DEF NewTracker, NewTable, EmptyDict
<1>3. tracker = [table |-> tracker.table, heap |-> tracker.heap, tracked |-> tracker.tracked]
  BY <1>1 DEF NewTracker
<1>4. SketchOK(tracker.table, hash, accesses)
  BY <1>1, <1>2 DEF SketchOK, Table, Hash
<1>5. Shape(tracker.heap, tracker.tracked)
  BY <1>2, FS_EmptySet DEF Shape
<1>6. Bounded(tracker.heap, tracker.tracked)
  BY <1>2, FS_EmptySet, TopKAssumption DEF Bounded
<1>7. IsDict(tracker.tracked, Keys)
  BY <1>2 DEF IsDict, EmptyDict
<1>8. /\ Matches(tracker.heap, tracker.tracked)
      /\ NotAhead(tracker.heap, tracker.table, hash)
      /\ Counted(Keys, tracker.tracked, accesses)
  BY <1>2 DEF Matches, NotAhead, Counted
<1>9. Hot(Keys, tracker.tracked, accesses)
  BY <1>1 DEF Hot
<1>. QED BY <1>3, <1>4, <1>5, <1>6, <1>7, <1>8, <1>9 DEF SoundTracker, Sound

(* IInv /\ [Next]_vars => IInv'. *)
LEMMA NextSound == SoundTracker /\ [Next]_vars => SoundTracker'
<1>. SUFFICES ASSUME SoundTracker, [Next]_vars
              PROVE  SoundTracker'
  OBVIOUS
<1>1. ASSUME NEW op \in KeyedOps, NEW k \in Keys, NEW duration \in Durations,
             ObserveKey(op, k, duration)
      PROVE  SoundTracker'
  <2>1. /\ Record(k) /\ accesses' = [accesses EXCEPT ![k] = @ + 1] /\ hash' = hash
    BY <1>1 DEF ObserveKey
  <2>2. Sound(Keys, tracker', hash', accesses')
    BY <2>1, RecordSound DEF SoundTracker
  <2>3. tracker' = [table   |-> tracker'.table,
                    heap    |-> tracker'.heap,
                    tracked |-> tracker'.tracked]
    BY <2>1 DEF Record, Update, Admit, Replace, Ignore
  <2>. QED BY <2>2, <2>3 DEF SoundTracker
<1>2. ASSUME NEW op \in Ops \ KeyedOps, NEW duration \in Durations,
             ObserveNoKey(op, duration)
      PROVE  SoundTracker'
  BY <1>2 DEF ObserveNoKey, SoundTracker
<1>3. CASE UNCHANGED vars
  BY <1>3 DEF vars, SoundTracker
<1>. QED BY <1>1, <1>2, <1>3 DEF Next

THEOREM TrackerSound == Spec => []SoundTracker
<1>. QED BY InitSound, NextSound, PTL DEF Spec

-----------------------------------------------------------------------------
(* Type correctness: the tracker is well formed whatever is recorded, and  *)
(* the counters of the commands never leave their range.                   *)
CountersOK ==
  /\ total \in 0 .. MaxObservations /\ requests \in [Ops -> Nat]
  /\ buckets \in [Ops -> [Bounds -> Nat]]

LEMMA CountOK ==
  ASSUME NEW op \in Ops, NEW duration \in Durations, CountersOK, Count(op, duration)
  PROVE  CountersOK'
<1>1. total' \in 0 .. MaxObservations
  BY MetricsAssumption DEF CountersOK, Count
<1>2. requests' \in [Ops -> Nat]
  BY DEF CountersOK, Count
<1>3. buckets' \in [Ops -> [Bounds -> Nat]]
  <2>. DEFINE counts == ObserveLatencyBucket(buckets[op], duration)
  <2>1. counts \in [Bounds -> Nat]
    BY DEF CountersOK, ObserveLatencyBucket
  <2>2. buckets' = [buckets EXCEPT ![op] = counts]
    BY DEF Count
  <2>. HIDE DEF counts
  <2>. QED BY <2>1, <2>2 DEF CountersOK
<1>. QED BY <1>1, <1>2, <1>3 DEF CountersOK

THEOREM TypeCorrect == Spec => []TypeOK
<1>1. Init => CountersOK
  BY MetricsAssumption DEF Init, CountersOK
<1>2. CountersOK /\ [Next]_vars => CountersOK'
  <2>. SUFFICES ASSUME CountersOK, [Next]_vars
                PROVE  CountersOK'
    OBVIOUS
  <2>1. ASSUME NEW op \in KeyedOps, NEW k \in Keys, NEW duration \in Durations,
               ObserveKey(op, k, duration)
        PROVE  CountersOK'
    BY <2>1, CountOK, MetricsAssumption DEF ObserveKey
  <2>2. ASSUME NEW op \in Ops \ KeyedOps, NEW duration \in Durations,
               ObserveNoKey(op, duration)
        PROVE  CountersOK'
    BY <2>2, CountOK DEF ObserveNoKey
  <2>3. CASE UNCHANGED vars
    BY <2>3 DEF vars, CountersOK
  <2>. QED BY <2>1, <2>2, <2>3 DEF Next
<1>3. SoundTracker /\ CountersOK => TypeOK
  BY DEF SoundTracker, Sound, SketchOK, Table, Shape, Bounded, CountersOK, TypeOK
<1>. QED BY <1>1, <1>2, <1>3, TrackerSound, PTL DEF Spec

(* However keys collide, neither the estimate nor the reported count of a  *)
(* key is less than the number of its accesses.                            *)
THEOREM NeverUnderestimated == Spec => []NeverUnderestimates
<1>1. SoundTracker => NeverUnderestimates
  <2>. SUFFICES ASSUME SoundTracker, NEW k \in Keys
                PROVE  /\ accesses[k] <= EstimateOf(k)
                       /\ k \in DOMAIN tracker.tracked => accesses[k] <= tracker.tracked[k]
    BY DEF NeverUnderestimates
  <2>1. SketchOK(tracker.table, hash, accesses)
        /\ Counted(Keys, tracker.tracked, accesses)
    BY DEF SoundTracker, Sound
  <2>2. PICK r \in Rows : EstimateOf(k) = tracker.table[r][hash[r][k]]
    BY <2>1, EstimateOK DEF SketchOK, EstimateOf
  <2>. QED BY <2>1, <2>2 DEF SketchOK, Counted
<1>. QED BY <1>1, TrackerSound, PTL

(* The heap has the current entry of every tracked key, and no entry is    *)
(* ahead of its key.                                                       *)
THEOREM HeapAlwaysMatches == Spec => []HeapMatchesTracked
<1>1. SoundTracker => HeapMatchesTracked
  <2>. SUFFICES ASSUME SoundTracker
                PROVE  HeapMatchesTracked
    OBVIOUS
  <2>1. /\ SketchOK(tracker.table, hash, accesses)
        /\ Shape(tracker.heap, tracker.tracked)
        /\ Matches(tracker.heap, tracker.tracked)
        /\ NotAhead(tracker.heap, tracker.table, hash)
    BY DEF SoundTracker, Sound
  <2>2. ASSUME NEW e \in tracker.heap
        PROVE  e[1] <= EstimateOf(e[2])
    <3>1. e[2] \in Keys
      BY <2>1 DEF Shape
    <3>2. PICK r \in Rows : EstimateOf(e[2]) = tracker.table[r][hash[r][e[2]]]
      BY <2>1, <3>1, EstimateOK DEF SketchOK, EstimateOf
    <3>. QED BY <2>1, <3>2 DEF NotAhead
  <2>. QED BY <2>1, <2>2 DEF Matches, HeapMatchesTracked
<1>. QED BY <1>1, TrackerSound, PTL

(* The heap never outgrows its bound, although only updates test it.       *)
THEOREM HeapAlwaysBounded == Spec => []HeapBounded
<1>1. SoundTracker => HeapBounded
  <2>. SUFFICES ASSUME SoundTracker
                PROVE  HeapBounded
    OBVIOUS
  <2>1. Bounded(tracker.heap, tracker.tracked) /\ Shape(tracker.heap, tracker.tracked)
    BY DEF SoundTracker, Sound
  <2>2. Cardinality(DOMAIN tracker.tracked) \in Nat
    BY <2>1, FS_CardinalityType DEF Shape
  <2>. QED BY <2>1, <2>2 DEF Bounded, HeapBounded
<1>. QED BY <1>1, TrackerSound, PTL

(* A key that is not reported is no hotter than any that is said to be.    *)
THEOREM HotKeysAlwaysReported == Spec => []HotKeysReported
<1>1. SoundTracker => HotKeysReported
  BY DEF SoundTracker, Sound, Hot, TopK, HotKeysReported
<1>. QED BY <1>1, TrackerSound, PTL

-----------------------------------------------------------------------------
(* The page: an observation adds one to the requests of its command, to    *)
(* the total, and to one bucket at most, the least that is not exceeded.   *)
ObservedOK == observed \in [Ops -> [Durations -> Nat]]

(* _observe_latency_bucket: one bucket, if any is long enough.             *)
LEMMA LeastBound ==
  ASSUME NEW d \in Durations, NEW b \in Bounds, d <= b
  PROVE  \E c \in Bounds : d <= c /\ c <= b /\ \A e \in Bounds : d <= e => c <= e
<1>. DEFINE S == {e \in Bounds : d <= e}
            Above == {e - d : e \in S}
<1>1. d \in Int /\ Bounds \subseteq Int
  BY MetricsAssumption
<1>2. Above \subseteq Nat /\ Above # {}
  BY <1>1
<1>3. Min(Above) \in Above /\ \A x \in Above : Min(Above) <= x
  <2>. HIDE DEF Above
  <2>. QED BY <1>2, MinNat
<1>4. PICK c \in S : Min(Above) = c - d
  BY <1>3
<1>5. ASSUME NEW e \in S
      PROVE  c <= e
  <2>1. e - d \in Above
    OBVIOUS
  <2>2. c - d <= e - d
    BY <1>3, <1>4, <2>1
  <2>. QED BY <1>1, <2>2
<1>. QED BY <1>4, <1>5

(* What an observation does to a cumulative count of the buckets: the      *)
(* bounds from the duration on count one more.                             *)
LEMMA CumulativeStep ==
  ASSUME NEW counts \in [Bounds -> Nat], NEW d \in Durations, NEW b \in Bounds
  PROVE  LET S == {c \in Bounds : c <= b}
         IN  SumFunctionOnSet(ObserveLatencyBucket(counts, d), S) =
               IF d <= b THEN SumFunctionOnSet(counts, S) + 1
               ELSE SumFunctionOnSet(counts, S)
<1>. DEFINE S == {c \in Bounds : c <= b}
            after == ObserveLatencyBucket(counts, d)
<1>1. d \in Int /\ Bounds \subseteq Int /\ IsFiniteSet(S)
  BY MetricsAssumption, FS_Subset
<1>2. CASE d <= b
  <2>1. PICK c \in Bounds : d <= c /\ c <= b /\ \A e \in Bounds : d <= e => c <= e
    BY <1>2, LeastBound
  <2>2. \A e \in Bounds \ {c} : ~ (d <= e /\ \A a \in Bounds : d <= a => e <= a)
    BY <1>1, <2>1
  <2>3. /\ after[c] = counts[c] + 1
        /\ \A e \in Bounds \ {c} : after[e] = counts[e]
    BY <2>1, <2>2 DEF ObserveLatencyBucket
  <2>4. c \in S /\ \A e \in S : counts[e] \in Nat
    BY <2>1
  <2>. HIDE DEF after
  <2>5. SumFunctionOnSet(after, S) = SumFunctionOnSet(counts, S) + 1
    BY <1>1, <2>3, <2>4, SumBump
  <2>. QED BY <1>2, <2>5 DEF after
<1>3. CASE ~ (d <= b)
  <2>1. \A e \in S : counts[e] \in Nat /\ counts[e] = after[e]
    BY <1>1, <1>3 DEF ObserveLatencyBucket
  <2>. HIDE DEF after
  <2>2. SumFunctionOnSet(counts, S) = SumFunctionOnSet(after, S)
    BY <1>1, <2>1, SumAgrees
  <2>. QED BY <1>3, <2>2 DEF after
<1>. QED BY <1>2, <1>3

(* The same of the durations observed, for the samples up to any limit.    *)
LEMMA ObservedStep ==
  ASSUME NEW seen \in [Durations -> Nat], NEW d \in Durations,
         NEW S \in SUBSET Durations,
         NEW after, after[d] = seen[d] + 1,
         \A e \in Durations \ {d} : after[e] = seen[e]
  PROVE  SumFunctionOnSet(after, S) =
           IF d \in S THEN SumFunctionOnSet(seen, S) + 1
           ELSE SumFunctionOnSet(seen, S)
<1>1. IsFiniteSet(S)
  BY MetricsAssumption, FS_Subset
<1>2. /\ \A e \in S : seen[e] \in Nat
      /\ after[d] = seen[d] + 1 /\ \A e \in S \ {d} : after[e] = seen[e]
  OBVIOUS
<1>3. CASE d \in S
  <2>1. SumFunctionOnSet(after, S) = SumFunctionOnSet(seen, S) + 1
    BY <1>1, <1>2, <1>3, SumBump
  <2>. QED BY <1>3, <2>1
<1>4. CASE d \notin S
  <2>1. \A e \in S : seen[e] \in Nat /\ seen[e] = after[e]
    BY <1>2, <1>4
  <2>2. SumFunctionOnSet(seen, S) = SumFunctionOnSet(after, S)
    BY <1>1, <2>1, SumAgrees
  <2>. QED BY <1>4, <2>2
<1>. QED BY <1>3, <1>4

(* An observation keeps the page exact.                                    *)
LEMMA CountExact ==
  ASSUME NEW op \in Ops, NEW duration \in Durations,
         CountersOK, ObservedOK, HistogramExact, Count(op, duration)
  PROVE  ObservedOK' /\ HistogramExact'
<1>1. /\ total' = total + 1 /\ requests' = [requests EXCEPT ![op] = @ + 1]
      /\ buckets' = [buckets EXCEPT ![op] = ObserveLatencyBucket(buckets[op], duration)]
      /\ observed' = [observed EXCEPT ![op] = [observed[op] EXCEPT ![duration] = @ + 1]]
  BY DEF Count
<1>2. /\ total \in Nat /\ requests \in [Ops -> Nat]
      /\ buckets \in [Ops -> [Bounds -> Nat]]
      /\ observed \in [Ops -> [Durations -> Nat]]
  BY MetricsAssumption DEF CountersOK, ObservedOK
<1>3. ObservedOK'
  <2>. DEFINE seen == [observed[op] EXCEPT ![duration] = @ + 1]
  <2>1. seen \in [Durations -> Nat]
    BY <1>2
  <2>. HIDE DEF seen
  <2>2. observed' = [observed EXCEPT ![op] = seen]
    BY <1>1 DEF seen
  <2>. QED BY <1>2, <2>1, <2>2 DEF ObservedOK
<1>4. ASSUME NEW o \in Ops, NEW b \in Bounds
      PROVE  SumFunctionOnSet(buckets'[o], {c \in Bounds : c <= b}) =
               SumFunctionOnSet(observed'[o], {d \in Durations : d <= b})
  <2>. DEFINE S == {c \in Bounds : c <= b}
              T == {d \in Durations : d <= b}
  <2>1. SumFunctionOnSet(buckets[o], S) = SumFunctionOnSet(observed[o], T)
    BY DEF HistogramExact, Cumulative
  <2>2. CASE o = op
    <3>1. /\ buckets'[o] = ObserveLatencyBucket(buckets[o], duration)
          /\ observed'[o] = [observed[o] EXCEPT ![duration] = @ + 1]
      BY <1>1, <1>2, <2>2
    <3>2. SumFunctionOnSet(buckets'[o], S) =
            IF duration <= b THEN SumFunctionOnSet(buckets[o], S) + 1
            ELSE SumFunctionOnSet(buckets[o], S)
      BY <1>2, <3>1, CumulativeStep
    <3>3. SumFunctionOnSet(observed'[o], T) =
            IF duration \in T THEN SumFunctionOnSet(observed[o], T) + 1
            ELSE SumFunctionOnSet(observed[o], T)
      <4>. DEFINE seen == observed[o]
                  after == observed'[o]
      <4>1. seen \in [Durations -> Nat] /\ T \in SUBSET Durations
        BY <1>2
      <4>2. /\ after[duration] = seen[duration] + 1
            /\ \A d \in Durations \ {duration} : after[d] = seen[d]
        BY <3>1, <4>1
      <4>. HIDE DEF seen, after, T
      <4>3. SumFunctionOnSet(after, T) =
              IF duration \in T THEN SumFunctionOnSet(seen, T) + 1
              ELSE SumFunctionOnSet(seen, T)
        BY <4>1, <4>2, ObservedStep
      <4>. QED BY <4>3 DEF seen, after
    <3>. QED BY <2>1, <3>2, <3>3
  <2>3. CASE o # op
    <3>1. buckets'[o] = buckets[o] /\ observed'[o] = observed[o]
      BY <1>1, <1>2, <2>3
    <3>. QED BY <2>1, <3>1
  <2>. QED BY <2>2, <2>3
<1>5. ASSUME NEW o \in Ops
      PROVE  requests'[o] = SumFunctionOnSet(observed'[o], Durations)
  <2>1. requests[o] = SumFunctionOnSet(observed[o], Durations) /\ requests[o] \in Nat
    BY <1>2 DEF HistogramExact
  <2>2. CASE o = op
    <3>1. /\ requests'[o] = requests[o] + 1
          /\ observed'[o] = [observed[o] EXCEPT ![duration] = @ + 1]
      BY <1>1, <1>2, <2>2
    <3>2. SumFunctionOnSet(observed'[o], Durations) =
            SumFunctionOnSet(observed[o], Durations) + 1
      <4>. DEFINE seen == observed[o]
                  after == observed'[o]
      <4>1. seen \in [Durations -> Nat]
        BY <1>2
      <4>2. /\ after[duration] = seen[duration] + 1
            /\ \A d \in Durations \ {duration} : after[d] = seen[d]
        BY <3>1, <4>1
      <4>. HIDE DEF seen, after
      <4>3. SumFunctionOnSet(after, Durations) = SumFunctionOnSet(seen, Durations) + 1
        BY <4>1, <4>2, ObservedStep
      <4>. QED BY <4>3 DEF seen, after
    <3>. QED BY <2>1, <3>1, <3>2
  <2>3. CASE o # op
    BY <1>1, <1>2, <2>1, <2>3
  <2>. QED BY <2>2, <2>3
<1>6. total' = SumFunctionOnSet(requests', Ops)
  <2>1. total = SumFunctionOnSet(requests, Ops)
    BY DEF HistogramExact
  <2>2. /\ \A o \in Ops : requests[o] \in Nat
        /\ requests'[op] = requests[op] + 1
        /\ \A o \in Ops \ {op} : requests'[o] = requests[o]
    BY <1>1, <1>2
  <2>3. SumFunctionOnSet(requests', Ops) = SumFunctionOnSet(requests, Ops) + 1
    BY <2>2, SumBump, MetricsAssumption
  <2>. QED BY <1>1, <2>1, <2>3
<1>. QED BY <1>3, <1>4, <1>5, <1>6 DEF HistogramExact, Cumulative

(* Every bucket the page shows counts the commands that took no longer     *)
(* than its bound, the count of a command all of them, and the total the   *)
(* commands of every name.                                                 *)
THEOREM HistogramAlwaysExact == Spec => []HistogramExact
<1>. DEFINE Exact == ObservedOK /\ HistogramExact
<1>1. Init => Exact
  <2>. SUFFICES ASSUME Init
                PROVE  Exact
    OBVIOUS
  <2>1. ObservedOK
    BY DEF Init, ObservedOK
  <2>2. ASSUME NEW o \in Ops, NEW b \in Bounds
        PROVE  /\ SumFunctionOnSet(buckets[o], {c \in Bounds : c <= b}) = 0
               /\ SumFunctionOnSet(observed[o], {d \in Durations : d <= b}) = 0
    <3>1. /\ IsFiniteSet({c \in Bounds : c <= b})
          /\ IsFiniteSet({d \in Durations : d <= b})
      BY MetricsAssumption, FS_Subset
    <3>2. /\ \A c \in Bounds : buckets[o][c] = 0
          /\ \A d \in Durations : observed[o][d] = 0
      BY DEF Init
    <3>. QED BY <3>1, <3>2, SumZero
  <2>3. ASSUME NEW o \in Ops
        PROVE  requests[o] = 0 /\ SumFunctionOnSet(observed[o], Durations) = 0
    BY MetricsAssumption, SumZero DEF Init
  <2>4. total = 0 /\ SumFunctionOnSet(requests, Ops) = 0
    BY <2>3, MetricsAssumption, SumZero DEF Init
  <2>. QED BY <2>1, <2>2, <2>3, <2>4 DEF HistogramExact, Cumulative
<1>2. TypeOK /\ Exact /\ [Next]_vars => Exact'
  <2>. SUFFICES ASSUME TypeOK, Exact, [Next]_vars
                PROVE  Exact'
    OBVIOUS
  <2>1. CountersOK
    BY DEF TypeOK, CountersOK
  <2>2. ASSUME NEW op \in KeyedOps, NEW k \in Keys, NEW duration \in Durations,
               ObserveKey(op, k, duration)
        PROVE  Exact'
    BY <2>1, <2>2, CountExact, MetricsAssumption DEF ObserveKey
  <2>3. ASSUME NEW op \in Ops \ KeyedOps, NEW duration \in Durations,
               ObserveNoKey(op, duration)
        PROVE  Exact'
    BY <2>1, <2>3, CountExact DEF ObserveNoKey
  <2>4. CASE UNCHANGED vars
    BY <2>4 DEF vars, ObservedOK, HistogramExact, Cumulative
  <2>. QED BY <2>2, <2>3, <2>4 DEF Next
<1>3. Exact => HistogramExact
  OBVIOUS
<1>. QED BY <1>1, <1>2, <1>3, TypeCorrect, PTL DEF Spec

=============================================================================
