------------------------ MODULE BPlusTreeNode_proofs ------------------------
(***************************************************************************)
(* What the searches of a B+ tree's pages return, for pages of any size:   *)
(* search_index in a leaf of sorted records, search_child_idx in a         *)
(* directory of sorted separators.                                         *)
(***************************************************************************)
EXTENDS BPlusTreeNode, WellFoundedInduction, FiniteSetTheorems, TLAPS

-----------------------------------------------------------------------------
(* Places in a finite set of integers.                                     *)

(* How many members of S come before r.                                    *)
Rank(S, r) == Cardinality({x \in S : x < r})

(* Ranks are in order.                                                     *)
LEMMA RankGrows ==
  ASSUME NEW S, S \subseteq Int, IsFiniteSet(S), NEW r \in S
  PROVE  /\ Rank(S, r) \in 0 .. Cardinality(S) - 1
         /\ \A q \in S : r < q => Rank(S, r) < Rank(S, q)
<1> DEFINE Before(q) == {x \in S : x < q}
<1>1. Cardinality(S) \in Nat /\ \A q \in S : IsFiniteSet(Before(q)) /\ Cardinality(Before(q)) \in Nat
  <2>1. \A q \in S : Before(q) \in SUBSET S
    OBVIOUS
  <2> HIDE DEF Before
  <2> QED
    BY <2>1, FS_Subset, FS_CardinalityType
<1>2. Cardinality(Before(r)) < Cardinality(S)
  <2>1. Before(r) \in SUBSET S /\ Before(r) # S
    OBVIOUS
  <2> HIDE DEF Before
  <2>2. Cardinality(Before(r)) <= Cardinality(S) /\ Cardinality(S) # Cardinality(Before(r))
    BY <2>1, FS_Subset
  <2> QED
    BY <1>1, <2>2
<1>3. ASSUME NEW q \in S, r < q PROVE Cardinality(Before(r)) < Cardinality(Before(q))
  <2>1. Before(r) \in SUBSET Before(q) /\ r \in Before(q) /\ r \notin Before(r)
    <3>1. r \in Int /\ q \in Int /\ \A x \in S : x \in Int /\ (x < r => x < q)
      BY <1>3
    <3>2. \A x \in Before(r) : x \in Before(q)
      BY <3>1
    <3>3. ~ (r < r)
      BY <3>1
    <3> QED
      BY <1>3, <3>2, <3>3
  <2> HIDE DEF Before
  <2>2. Cardinality(Before(r)) <= Cardinality(Before(q)) /\ Cardinality(Before(q)) # Cardinality(Before(r))
    BY <1>1, <2>1, FS_Subset
  <2> QED
    BY <1>1, <2>2
<1> QED
  BY <1>1, <1>2, <1>3 DEF Rank

(* Each number up to the size of the set is the rank of one member.        *)
LEMMA EveryRankIsTaken ==
  ASSUME NEW S, S \subseteq Int, IsFiniteSet(S)
  PROVE  /\ \A i \in 0 .. Cardinality(S) - 1 : \E r \in S : Rank(S, r) = i
         /\ \A r, q \in S : Rank(S, r) = Rank(S, q) => r = q
<1> DEFINE n == Cardinality(S)
           f == [r \in S |-> Rank(S, r)]
<1>1. n \in Nat
  BY FS_CardinalityType
<1>2. \A r \in S : Rank(S, r) \in 0 .. n - 1
  BY RankGrows
<1>3. \A r, q \in S : Rank(S, r) = Rank(S, q) => r = q
  <2> SUFFICES ASSUME NEW r \in S, NEW q \in S, Rank(S, r) = Rank(S, q) PROVE r = q
    OBVIOUS
  <2>1. Rank(S, r) \in Int
    BY <1>2
  <2>2. r < q => Rank(S, r) < Rank(S, q)
    BY RankGrows
  <2>3. q < r => Rank(S, q) < Rank(S, r)
    BY RankGrows
  <2>4. ~ (r < q) /\ ~ (q < r)
    BY <2>1, <2>2, <2>3
  <2> QED
    BY <2>4
<1>4. f \in [S -> 0 .. n - 1] /\ \A r \in S : f[r] = Rank(S, r)
  BY <1>2
<1> HIDE DEF f
<1>5. f \in Injection(S, 0 .. n - 1)
  BY <1>3, <1>4 DEF Injection, IsInjective
<1>6. IsFiniteSet(0 .. n - 1) /\ Cardinality(0 .. n - 1) = n
  <2>1. 0 \in Int /\ n - 1 \in Int
    BY <1>1
  <2>2. IsFiniteSet(0 .. n - 1) /\ Cardinality(0 .. n - 1) = IF 0 > n - 1 THEN 0 ELSE (n - 1) - 0 + 1
    BY <2>1, FS_Interval
  <2> QED
    BY <1>1, <2>2
<1>7. f \in Surjection(S, 0 .. n - 1)
  <2> DEFINE T == 0 .. n - 1
  <2>1. f \in Injection(S, T) /\ IsFiniteSet(T) /\ Cardinality(S) = Cardinality(T)
    BY <1>5, <1>6
  <2> HIDE DEF T
  <2>2. f \in Surjection(S, T)
    BY <2>1, FS_Injection
  <2> QED
    BY <2>2 DEF T
<1> QED
  BY <1>3, <1>4, <1>7 DEF Surjection

-----------------------------------------------------------------------------
(***************************************************************************)
(* Loops: from x in D to next[x], until stop has x, when they return       *)
(* value[x].  measure, at most bound, gets less at every turn.             *)
(***************************************************************************)
Descends(D, stop, next, measure, bound) ==
  /\ bound \in Nat /\ measure \in [D -> 0 .. bound]
  /\ \A x \in D : x \notin stop => next[x] \in D /\ measure[next[x]] < measure[x]

IsLoop(f, D, stop, value, next) ==
  f = [x \in D |-> IF x \in stop THEN value[x] ELSE f[next[x]]]

(* J is an invariant of the loop, and gives a value in G at its end.       *)
Keeps(J, G, D, stop, value, next) ==
  /\ J \subseteq D
  /\ \A x \in J : IF x \in stop THEN value[x] \in G ELSE next[x] \in J

LEMMA LessIsWellFounded == IsWellFoundedOn({ss \in Nat \X Nat : ss[1] < ss[2]}, Nat)
  BY NatLessThanWellFounded DEF OpToRel

(* A set of natural numbers has a least element.                           *)
LEMMA LeastExists ==
  ASSUME NEW T, T \subseteq Nat, T # {}
  PROVE  \E x \in T : \A y \in T : x <= y
<1> DEFINE R == {ss \in Nat \X Nat : ss[1] < ss[2]}
<1>1. PICK x \in T : \A y \in T : ~ (<<y, x>> \in R)
  <2> HIDE DEF R
  <2>1. IsWellFoundedOn(R, Nat)
    BY LessIsWellFounded DEF R
  <2> QED
    BY <2>1, WFMin
<1>2. ASSUME NEW y \in T PROVE x <= y
  <2>1. ~ (<<y, x>> \in R)
    BY <1>1
  <2>2. x \in Nat /\ y \in Nat
    OBVIOUS
  <2>3. ~ (y < x)
    BY <2>1, <2>2
  <2> QED
    BY <2>2, <2>3
<1> QED
  BY <1>2

(* Induction on a set, as the library's theorems on operators are out of   *)
(* the provers' reach.                                                     *)
LEMMA SetInduction ==
  ASSUME NEW S, 0 \in S, \A n \in Nat : n \in S => n + 1 \in S
  PROVE  Nat \subseteq S
<1> DEFINE T == Nat \ S
<1>1. SUFFICES ASSUME T # {} PROVE FALSE
  OBVIOUS
<1>2. PICK x \in T : \A y \in T : x <= y
  BY <1>1, LeastExists
<1>3. x \in Nat /\ x # 0 /\ x \notin S
  OBVIOUS
<1>4. x - 1 \in Nat /\ ~ (x <= x - 1)
  BY <1>3
<1>5. x - 1 \in S
  BY <1>2, <1>4
<1>6. (x - 1) + 1 = x
  BY <1>3
<1> QED
  BY <1>3, <1>4, <1>5, <1>6

(* A function as far as n on the measure, then everywhere.                 *)
LEMMA LoopExists ==
  ASSUME NEW D, NEW stop, NEW value, NEW next, NEW measure, NEW bound,
         Descends(D, stop, next, measure, bound)
  PROVE  \E f : IsLoop(f, D, stop, value, next)
<1> DEFINE Upto(f, n) == \A x \in D : measure[x] < n => f[x] = IF x \in stop THEN value[x] ELSE f[next[x]]
           S == {n \in Nat : \E f : Upto(f, n)}
<1>0. \A x \in D : measure[x] \in Nat
  BY DEF Descends
<1>1. 0 \in S
  <2>1. \A f : Upto(f, 0)
    BY <1>0
  <2> QED
    BY <2>1
<1>2. ASSUME NEW n \in Nat, n \in S PROVE n + 1 \in S
  <2>1. PICK f : Upto(f, n)
    BY <1>2
  <2> DEFINE g == [x \in D |-> IF x \in stop THEN value[x] ELSE f[next[x]]]
  <2>2. \A x \in D : g[x] = IF x \in stop THEN value[x] ELSE f[next[x]]
    OBVIOUS
  <2> HIDE DEF g
  <2>3. \A x \in D : measure[x] < n => g[x] = f[x]
    BY <2>1, <2>2
  <2>4. ASSUME NEW x \in D, measure[x] < n + 1 PROVE g[x] = IF x \in stop THEN value[x] ELSE g[next[x]]
    <3>1. CASE x \in stop
      BY <2>2, <3>1
    <3>2. CASE x \notin stop
      <4>1. next[x] \in D /\ measure[next[x]] < measure[x]
        BY <3>2 DEF Descends
      <4>2. measure[next[x]] < n
        BY <1>0, <2>4, <4>1
      <4>3. g[next[x]] = f[next[x]]
        BY <2>3, <4>1, <4>2
      <4> QED
        BY <2>2, <3>2, <4>3
    <3> QED
      BY <3>1, <3>2
  <2>5. Upto(g, n + 1)
    BY <2>4
  <2> QED
    BY <2>5
<1> HIDE DEF S
<1>3. Nat \subseteq S
  BY <1>1, <1>2, SetInduction
<1>4. bound + 1 \in S
  BY <1>3 DEF Descends
<1>5. PICK g : Upto(g, bound + 1)
  BY <1>4 DEF S
<1>6. \A x \in D : g[x] = IF x \in stop THEN value[x] ELSE g[next[x]]
  BY <1>5 DEF Descends
<1> DEFINE f == [x \in D |-> g[x]]
<1>7. \A x \in D : f[x] = IF x \in stop THEN value[x] ELSE f[next[x]]
  BY <1>6 DEF Descends
<1>8. f = [x \in D |-> f[x]]
  OBVIOUS
<1> HIDE DEF f
<1> QED
  BY <1>7, <1>8 DEF IsLoop

(* A loop whose turns keep J, and whose ends are in G there, ends in G.    *)
LEMMA LoopReturns ==
  ASSUME NEW D, NEW stop, NEW value, NEW next, NEW measure, NEW bound, NEW f, NEW J, NEW G,
         Descends(D, stop, next, measure, bound), IsLoop(f, D, stop, value, next),
         Keeps(J, G, D, stop, value, next)
  PROVE  \A x \in J : f[x] \in G
<1> USE DEF Keeps
<1> DEFINE S == {n \in Nat : \A x \in J : measure[x] < n => f[x] \in G}
<1>0. \A x \in D : measure[x] \in Nat /\ measure[x] < bound + 1 /\ bound + 1 \in Nat
  BY DEF Descends
<1>1. 0 \in S
  BY <1>0
<1>2. ASSUME NEW n \in Nat, n \in S PROVE n + 1 \in S
  <2>1. ASSUME NEW x \in J, measure[x] < n + 1 PROVE f[x] \in G
    <3>1. f[x] = IF x \in stop THEN value[x] ELSE f[next[x]]
      BY DEF IsLoop
    <3>2. CASE x \notin stop
      <4>1. next[x] \in J /\ measure[next[x]] < measure[x]
        BY <3>2 DEF Descends
      <4>2. measure[next[x]] < n
        BY <1>0, <2>1, <4>1
      <4> QED
        BY <1>2, <3>1, <3>2, <4>1, <4>2
    <3> QED
      BY <3>1, <3>2
  <2> QED
    BY <2>1
<1> HIDE DEF S
<1>3. Nat \subseteq S
  BY <1>1, <1>2, SetInduction
<1>4. ASSUME NEW x \in J PROVE f[x] \in G
  <2>1. bound + 1 \in S /\ measure[x] < bound + 1
    BY <1>0, <1>3
  <2> QED
    BY <2>1 DEF S
<1> QED
  BY <1>4

-----------------------------------------------------------------------------
(***************************************************************************)
(* search_index.                                                           *)
(***************************************************************************)
LeafRanges == (0 .. LeafRecords) \X (-1 .. LeafRecords)
LeafMid(x) == (x[1] + x[2]) \div 2

LeafStops(leaf, r) ==
  {x \in LeafRanges : x[1] >= x[2] \/ (~ (r < leaf.record[LeafMid(x)]) /\ ~ (leaf.record[LeafMid(x)] < r))}

LeafValue(leaf, r) ==
  [x \in LeafRanges |->
     IF x[1] >= x[2] THEN (IF leaf.record[x[1]] < r THEN x[1] + 1 ELSE x[1]) ELSE LeafMid(x)]

LeafNext(leaf, r) ==
  [x \in LeafRanges |->
     IF r < leaf.record[LeafMid(x)] THEN <<x[1], LeafMid(x) - 1>> ELSE <<LeafMid(x) + 1, x[2]>>]

LeafMeasure == [x \in LeafRanges |-> IF x[1] <= x[2] THEN x[2] - x[1] + 1 ELSE 0]

(* The middle of a range, and the two ranges the search goes on with.      *)
LEMMA LeafMids ==
  ASSUME NEW x \in LeafRanges, x[1] < x[2]
  PROVE  /\ LeafMid(x) \in Int /\ x[1] <= LeafMid(x) /\ LeafMid(x) < x[2]
         /\ x[1] \in 0 .. LeafRecords /\ x[2] \in -1 .. LeafRecords
         /\ <<x[1], LeafMid(x) - 1>> \in LeafRanges
         /\ <<LeafMid(x) + 1, x[2]>> \in LeafRanges
<1>1. x[1] \in 0 .. LeafRecords /\ x[2] \in -1 .. LeafRecords /\ LeafRecords \in Nat
  BY LeafRecordsAssumption DEF LeafRanges
<1>2. LeafMid(x) \in Int /\ x[1] <= LeafMid(x) /\ LeafMid(x) < x[2]
  BY <1>1 DEF LeafMid
<1>3. LeafMid(x) - 1 \in -1 .. LeafRecords /\ LeafMid(x) + 1 \in 0 .. LeafRecords
  BY <1>1, <1>2
<1> QED
  BY <1>1, <1>2, <1>3 DEF LeafRanges

(* Each turn of search_index narrows the range, so it ends.                *)
LEMMA LeafDescends ==
  ASSUME NEW leaf, NEW r
  PROVE  Descends(LeafRanges, LeafStops(leaf, r), LeafNext(leaf, r), LeafMeasure, LeafRecords + 1)
<1>1. LeafRecords + 1 \in Nat
  BY LeafRecordsAssumption
<1>2. ASSUME NEW x \in LeafRanges PROVE LeafMeasure[x] \in 0 .. LeafRecords + 1
  <2>1. x[1] \in 0 .. LeafRecords /\ x[2] \in -1 .. LeafRecords /\ LeafRecords \in Nat
    BY LeafRecordsAssumption DEF LeafRanges
  <2> QED
    BY <2>1 DEF LeafMeasure
<1>3. ASSUME NEW x \in LeafRanges, x \notin LeafStops(leaf, r)
      PROVE  LeafNext(leaf, r)[x] \in LeafRanges /\ LeafMeasure[LeafNext(leaf, r)[x]] < LeafMeasure[x]
  <2> DEFINE y == LeafNext(leaf, r)[x]
             m == LeafMid(x)
  <2>1. x[1] \in 0 .. LeafRecords /\ x[2] \in -1 .. LeafRecords /\ LeafRecords \in Nat
    BY LeafRecordsAssumption DEF LeafRanges
  <2>2. x[1] < x[2]
    BY <1>3, <2>1 DEF LeafStops
  <2>3. /\ m \in Int /\ x[1] <= m /\ m < x[2]
        /\ <<x[1], m - 1>> \in LeafRanges /\ <<m + 1, x[2]>> \in LeafRanges
    BY <2>2, LeafMids
  <2>4. y \in LeafRanges /\ (y = <<x[1], m - 1>> \/ y = <<m + 1, x[2]>>)
    BY <2>3 DEF LeafNext
  <2> HIDE DEF y, m
  <2>5. LeafMeasure[y] = (IF y[1] <= y[2] THEN y[2] - y[1] + 1 ELSE 0)
    BY <2>4 DEF LeafMeasure
  <2>6. LeafMeasure[x] = x[2] - x[1] + 1
    BY <2>1, <2>2 DEF LeafMeasure
  <2>7. y[1] \in Int /\ y[2] \in Int /\ y[2] - y[1] < x[2] - x[1]
    BY <2>1, <2>3, <2>4
  <2> QED
    BY <2>1, <2>2, <2>4, <2>5, <2>6, <2>7 DEF y
<1> QED
  BY <1>1, <1>2, <1>3 DEF Descends, LeafMeasure

(* The recursive function of search_index is such a loop.                  *)
LEMMA SearchIndexLoops ==
  ASSUME NEW leaf, NEW r
  PROVE  \E f : /\ IsLoop(f, LeafRanges, LeafStops(leaf, r), LeafValue(leaf, r), LeafNext(leaf, r))
                /\ SearchIndex(leaf, r) = f[<<0, leaf.count - 1>>]
<1> DEFINE Body(f) ==
      [range \in (0 .. LeafRecords) \X (-1 .. LeafRecords) |->
        LET from == range[1]
            to == range[2]
            mid == (from + to) \div 2
        IN
        IF from >= to THEN (IF leaf.record[from] < r THEN from + 1 ELSE from)
        ELSE IF r < leaf.record[mid] THEN f[<<from, mid - 1>>]
        ELSE IF leaf.record[mid] < r THEN f[<<mid + 1, to>>]
        ELSE mid]
<1>1. \A f : Body(f) = [x \in LeafRanges |-> IF x \in LeafStops(leaf, r) THEN LeafValue(leaf, r)[x] ELSE f[LeafNext(leaf, r)[x]]]
  <2>1. ASSUME NEW f, NEW x \in LeafRanges
        PROVE  Body(f)[x] = IF x \in LeafStops(leaf, r) THEN LeafValue(leaf, r)[x] ELSE f[LeafNext(leaf, r)[x]]
    BY DEF LeafRanges, LeafStops, LeafValue, LeafNext, LeafMid
  <2> QED
    BY <2>1 DEF LeafRanges
<1>2. SearchIndex(leaf, r) = (CHOOSE f : f = Body(f))[<<0, leaf.count - 1>>]
  BY DEF SearchIndex
<1> HIDE DEF Body
<1>3. \E f : IsLoop(f, LeafRanges, LeafStops(leaf, r), LeafValue(leaf, r), LeafNext(leaf, r))
  BY LeafDescends, LoopExists
<1>4. \E f : f = Body(f)
  BY <1>1, <1>3 DEF IsLoop
<1>5. (CHOOSE f : f = Body(f)) = Body(CHOOSE f : f = Body(f))
  BY <1>4
<1> QED
  BY <1>1, <1>2, <1>5 DEF IsLoop

IsLowerBound(leaf, r, i) ==
  /\ i \in 0 .. leaf.count
  /\ \A j \in 0 .. i - 1 : leaf.record[j] < r
  /\ i < leaf.count => r <= leaf.record[i]

(* What is left of from .. to: all records before are less than r, all     *)
(* records behind it greater, and from is still a record's.                *)
LeafNarrowed(leaf, r) ==
  {x \in LeafRanges :
     /\ x[1] < leaf.count /\ x[2] < leaf.count /\ x[1] <= x[2] + 1
     /\ \A j \in 0 .. x[1] - 1 : leaf.record[j] < r
     /\ \A j \in x[2] + 1 .. leaf.count - 1 : r < leaf.record[j]}

(* Each turn leaves everything below the range less than r, and everything *)
(* above it greater.                                                       *)
LEMMA LeafNarrows ==
  ASSUME NEW leaf, NEW r \in Int, leaf.count \in 1 .. LeafRecords, Sorted(leaf),
         \A i \in 0 .. leaf.count - 1 : leaf.record[i] \in Int,
         NEW x \in LeafNarrowed(leaf, r)
  PROVE  IF x \in LeafStops(leaf, r) THEN IsLowerBound(leaf, r, LeafValue(leaf, r)[x])
         ELSE LeafNext(leaf, r)[x] \in LeafNarrowed(leaf, r)
<1> DEFINE n == leaf.count
           m == LeafMid(x)
           a == leaf.record
<1>1. /\ x \in LeafRanges /\ x[1] \in Nat /\ x[2] \in Int /\ n \in Nat /\ n >= 1
      /\ x[1] < n /\ x[2] < n /\ x[1] <= x[2] + 1
      /\ \A j \in 0 .. x[1] - 1 : a[j] < r
      /\ \A j \in x[2] + 1 .. n - 1 : r < a[j]
  BY LeafRecordsAssumption DEF LeafNarrowed, LeafRanges
<1>2. /\ \A i \in 0 .. n - 1 : a[i] \in Int
      /\ \A i, j \in 0 .. n - 1 : i < j => a[i] < a[j]
  BY DEF Sorted
<1>3. CASE x[1] >= x[2]
  <2>1. x \in LeafStops(leaf, r) /\ LeafValue(leaf, r)[x] = IF a[x[1]] < r THEN x[1] + 1 ELSE x[1]
    BY <1>1, <1>3 DEF LeafStops, LeafValue
  <2>2. CASE a[x[1]] < r
    <3>1. \A j \in 0 .. x[1] : a[j] < r
      BY <1>1, <2>2
    <3>2. x[1] = x[2]
      <4>1. x[1] # x[2] => x[1] \in x[2] + 1 .. n - 1
        BY <1>1, <1>3
      <4> QED
        BY <1>1, <1>2, <2>2, <4>1
    <3>3. x[1] + 1 < n => r <= a[x[1] + 1]
      BY <1>1, <1>2, <3>2
    <3>4. IsLowerBound(leaf, r, x[1] + 1)
      BY <1>1, <3>1, <3>3 DEF IsLowerBound
    <3> QED
      BY <2>1, <2>2, <3>4
  <2>3. CASE ~ (a[x[1]] < r)
    <3>1. r <= a[x[1]]
      BY <1>1, <1>2, <2>3
    <3>2. IsLowerBound(leaf, r, x[1])
      BY <1>1, <3>1 DEF IsLowerBound
    <3> QED
      BY <2>1, <2>3, <3>2
  <2> QED
    BY <2>2, <2>3
<1>4. CASE ~ (x[1] >= x[2])
  <2>1. x[1] < x[2]
    BY <1>1, <1>4
  <2>2. /\ m \in Int /\ x[1] <= m /\ m < x[2] /\ m \in 0 .. n - 1
        /\ <<x[1], m - 1>> \in LeafRanges /\ <<m + 1, x[2]>> \in LeafRanges
    BY <1>1, <2>1, LeafMids
  <2>3. a[m] \in Int
    BY <1>2, <2>2
  <2>4. x \in LeafStops(leaf, r) <=> ~ (r < a[m]) /\ ~ (a[m] < r)
    BY <1>1, <1>4 DEF LeafStops
  <2>5. LeafValue(leaf, r)[x] = m
    BY <1>1, <1>4 DEF LeafValue
  <2>6. LeafNext(leaf, r)[x] = IF r < a[m] THEN <<x[1], m - 1>> ELSE <<m + 1, x[2]>>
    BY <1>1 DEF LeafNext
  <2> HIDE DEF m
  <2>7. CASE r < a[m]
    <3>1. \A j \in (m - 1) + 1 .. n - 1 : r < a[j]
      BY <1>1, <1>2, <2>2, <2>3, <2>7
    <3>2. <<x[1], m - 1>> \in LeafNarrowed(leaf, r)
      BY <1>1, <2>2, <3>1 DEF LeafNarrowed
    <3> QED
      BY <2>4, <2>6, <2>7, <3>2
  <2>8. CASE a[m] < r
    <3>1. \A j \in 0 .. (m + 1) - 1 : a[j] < r
      BY <1>1, <1>2, <2>2, <2>3, <2>8
    <3>2. <<m + 1, x[2]>> \in LeafNarrowed(leaf, r)
      BY <1>1, <2>2, <3>1 DEF LeafNarrowed
    <3> QED
      BY <2>3, <2>4, <2>6, <2>8, <3>2
  <2>9. CASE a[m] = r
    <3>1. \A j \in 0 .. m - 1 : a[j] < r
      BY <1>1, <1>2, <2>2, <2>9
    <3>2. IsLowerBound(leaf, r, m)
      BY <1>1, <2>2, <2>9, <3>1 DEF IsLowerBound
    <3> QED
      BY <2>3, <2>4, <2>5, <2>9, <3>2
  <2> QED
    BY <2>3, <2>7, <2>8, <2>9
<1> QED
  BY <1>3, <1>4

(* In a leaf of sorted records search_index returns the place of the first *)
(* that is not less than r, or the number of records.                      *)
LEMMA SearchIndexFinds ==
  ASSUME NEW leaf, NEW r \in Int, leaf.count \in 1 .. LeafRecords, Sorted(leaf),
         \A i \in 0 .. leaf.count - 1 : leaf.record[i] \in Int
  PROVE  IsLowerBound(leaf, r, SearchIndex(leaf, r))
<1> DEFINE J == LeafNarrowed(leaf, r)
           G == {i \in 0 .. leaf.count : IsLowerBound(leaf, r, i)}
<1>1. PICK f : /\ IsLoop(f, LeafRanges, LeafStops(leaf, r), LeafValue(leaf, r), LeafNext(leaf, r))
               /\ SearchIndex(leaf, r) = f[<<0, leaf.count - 1>>]
  BY SearchIndexLoops
<1>2. \A x \in J : IF x \in LeafStops(leaf, r) THEN LeafValue(leaf, r)[x] \in G ELSE LeafNext(leaf, r)[x] \in J
  BY LeafNarrows DEF IsLowerBound
<1>3. Keeps(J, G, LeafRanges, LeafStops(leaf, r), LeafValue(leaf, r), LeafNext(leaf, r))
  BY <1>2 DEF LeafNarrowed, Keeps
<1>4. <<0, leaf.count - 1>> \in J
  BY LeafRecordsAssumption DEF LeafNarrowed, LeafRanges
<1> HIDE DEF J, G
<1>5. \A x \in J : f[x] \in G
  BY <1>1, <1>3, LeafDescends, LoopReturns
<1> QED
  BY <1>1, <1>4, <1>5 DEF G

(* In an empty leaf it looks at the first cell, whatever that has.         *)
LEMMA SearchIndexInEmpty ==
  ASSUME NEW leaf, NEW r, leaf.count = 0
  PROVE  SearchIndex(leaf, r) = IF leaf.record[0] < r THEN 1 ELSE 0
<1>1. PICK f : /\ IsLoop(f, LeafRanges, LeafStops(leaf, r), LeafValue(leaf, r), LeafNext(leaf, r))
               /\ SearchIndex(leaf, r) = f[<<0, leaf.count - 1>>]
  BY SearchIndexLoops
<1> DEFINE x == <<0, -1>>
<1>2. x \in LeafRanges /\ x[1] = 0 /\ x[2] = -1 /\ x = <<0, leaf.count - 1>>
  BY LeafRecordsAssumption DEF LeafRanges
<1> HIDE DEF x
<1>3. x \in LeafStops(leaf, r) /\ LeafValue(leaf, r)[x] = IF leaf.record[0] < r THEN 1 ELSE 0
  BY <1>2 DEF LeafStops, LeafValue
<1> QED
  BY <1>1, <1>2, <1>3 DEF IsLoop

(* So CHOOSE has no choice.                                                *)
LEMMA LowerBoundIsUnique ==
  ASSUME NEW leaf, NEW r \in Int, leaf.count \in Nat, NEW i, NEW k, IsLowerBound(leaf, r, i), IsLowerBound(leaf, r, k),
         \A j \in 0 .. leaf.count - 1 : leaf.record[j] \in Int
  PROVE  i = k
<1>1. i \in 0 .. leaf.count /\ k \in 0 .. leaf.count
  BY DEF IsLowerBound
<1>2. ~ (i < k)
  <2>1. SUFFICES ASSUME i < k PROVE FALSE
    OBVIOUS
  <2>2. i \in 0 .. k - 1 /\ i < leaf.count /\ i \in 0 .. leaf.count - 1
    BY <1>1, <2>1
  <2>3. leaf.record[i] < r /\ r <= leaf.record[i] /\ leaf.record[i] \in Int
    BY <2>2 DEF IsLowerBound
  <2> QED
    BY <2>3
<1>3. ~ (k < i)
  <2>1. SUFFICES ASSUME k < i PROVE FALSE
    OBVIOUS
  <2>2. k \in 0 .. i - 1 /\ k < leaf.count /\ k \in 0 .. leaf.count - 1
    BY <1>1, <2>1
  <2>3. leaf.record[k] < r /\ r <= leaf.record[k] /\ leaf.record[k] \in Int
    BY <2>2 DEF IsLowerBound
  <2> QED
    BY <2>3
<1> QED
  BY <1>1, <1>2, <1>3

(* search_index returns what b_plus_tree_leaf.h declares, for a leaf of    *)
(* any number of sorted records.                                           *)
THEOREM SearchIndexIsLowerBound ==
  ASSUME NEW leaf, NEW r \in Int, leaf.count \in 1 .. LeafRecords, Sorted(leaf),
         \A i \in 0 .. leaf.count - 1 : leaf.record[i] \in Int
  PROVE  SearchIndex(leaf, r) = LowerBound(leaf, r)
<1>1. IsLowerBound(leaf, r, SearchIndex(leaf, r))
  BY SearchIndexFinds
<1>2. LowerBound(leaf, r) = CHOOSE i \in 0 .. leaf.count : IsLowerBound(leaf, r, i)
  BY DEF LowerBound, IsLowerBound
<1>3. \E i \in 0 .. leaf.count : IsLowerBound(leaf, r, i)
  BY <1>1 DEF IsLowerBound
<1>4. IsLowerBound(leaf, r, LowerBound(leaf, r))
  BY <1>2, <1>3
<1>5. leaf.count \in Nat
  OBVIOUS
<1> QED
  BY <1>1, <1>4, <1>5, LowerBoundIsUnique

(* insert_record takes r for a record the leaf has just when it has it, or *)
(* when r is greater than all of them and the cell behind them has r.      *)
THEOREM DuplicateIsExact ==
  ASSUME NEW leaf, NEW r \in Int, leaf.count \in 1 .. LeafRecords, Sorted(leaf),
         \A i \in 0 .. leaf.count - 1 : leaf.record[i] \in Int
  PROVE  Duplicate(leaf, r) <=>
           \/ \E i \in 0 .. leaf.count - 1 : leaf.record[i] = r
           \/ /\ leaf.count < LeafRecords /\ leaf.record[leaf.count] = r
              /\ \A i \in 0 .. leaf.count - 1 : leaf.record[i] < r
<1> DEFINE s == SearchIndex(leaf, r)
           n == leaf.count
<1>1. IsLowerBound(leaf, r, s)
  BY SearchIndexFinds
<1>2. Duplicate(leaf, r) <=> s < LeafRecords /\ leaf.record[s] = r
  BY DEF Duplicate
<1> HIDE DEF s
<1>3. /\ s \in 0 .. n /\ n \in Nat /\ n <= LeafRecords /\ LeafRecords \in Nat
      /\ \A j \in 0 .. s - 1 : leaf.record[j] < r
      /\ s < n => r <= leaf.record[s]
  BY <1>1, LeafRecordsAssumption DEF IsLowerBound
<1>4. \A i, j \in 0 .. n - 1 : i < j => leaf.record[i] < leaf.record[j]
  BY DEF Sorted
<1>5. CASE s = n
  BY <1>2, <1>3, <1>5
<1>6. CASE s < n
  <2>1. ASSUME NEW i \in 0 .. n - 1, leaf.record[i] = r PROVE leaf.record[s] = r
    <3>1. ~ (i < s)
      <4>1. i < s => i \in 0 .. s - 1
        BY <1>3
      <4> QED
        BY <1>3, <2>1, <4>1
    <3>2. s < i => leaf.record[s] < leaf.record[i]
      BY <1>3, <1>4, <1>6
    <3>3. s \in 0 .. n - 1 /\ leaf.record[s] \in Int
      BY <1>3, <1>6
    <3> QED
      BY <1>3, <1>6, <2>1, <3>1, <3>2, <3>3
  <2>2. s \in 0 .. n - 1 /\ s < LeafRecords /\ leaf.record[s] \in Int
    BY <1>3, <1>6
  <2>3. ~ \A i \in 0 .. n - 1 : leaf.record[i] < r
    BY <1>3, <1>6, <2>2
  <2> QED
    BY <1>2, <2>1, <2>2, <2>3
<1> QED
  BY <1>3, <1>5, <1>6

-----------------------------------------------------------------------------
(***************************************************************************)
(* search_child_idx.                                                       *)
(***************************************************************************)
DirRanges == {x \in (0 .. DirRecords) \X (0 .. DirRecords) : x[1] <= x[2]}
DirMid(x) == ((x[1] + x[2] + 1) \div 2) - 1

DirStops == {x \in DirRanges : x[1] = x[2]}

DirValue == [x \in DirRanges |-> x[1]]

DirNext(dir, r) ==
  [x \in DirRanges |->
     IF r < dir.record[DirMid(x)] THEN <<x[1], DirMid(x)>> ELSE <<DirMid(x) + 1, x[2]>>]

DirMeasure == [x \in DirRanges |-> x[2] - x[1]]

(* The same for the directory, whose ranges keep the middle.               *)
LEMMA DirMids ==
  ASSUME NEW x \in DirRanges, x[1] # x[2]
  PROVE  /\ DirMid(x) \in Int /\ x[1] <= DirMid(x) /\ DirMid(x) < x[2] /\ x[1] < x[2]
         /\ x[1] \in 0 .. DirRecords /\ x[2] \in 0 .. DirRecords
         /\ <<x[1], DirMid(x)>> \in DirRanges
         /\ <<DirMid(x) + 1, x[2]>> \in DirRanges
<1>1. x[1] \in 0 .. DirRecords /\ x[2] \in 0 .. DirRecords /\ x[1] < x[2] /\ DirRecords \in Nat
  BY DirRecordsAssumption DEF DirRanges
<1>2. DirMid(x) \in Int /\ x[1] <= DirMid(x) /\ DirMid(x) < x[2]
  BY <1>1 DEF DirMid
<1>3. DirMid(x) \in 0 .. DirRecords /\ DirMid(x) + 1 \in 0 .. DirRecords /\ DirMid(x) + 1 <= x[2]
  BY <1>1, <1>2
<1> QED
  BY <1>1, <1>2, <1>3 DEF DirRanges

(* Each turn of search_child_idx narrows the range, so it ends.            *)
LEMMA DirDescends ==
  ASSUME NEW dir, NEW r
  PROVE  Descends(DirRanges, DirStops, DirNext(dir, r), DirMeasure, DirRecords)
<1>1. DirRecords \in Nat
  BY DirRecordsAssumption
<1>2. ASSUME NEW x \in DirRanges PROVE DirMeasure[x] \in 0 .. DirRecords
  BY <1>1 DEF DirMeasure, DirRanges
<1>3. ASSUME NEW x \in DirRanges, x \notin DirStops
      PROVE  DirNext(dir, r)[x] \in DirRanges /\ DirMeasure[DirNext(dir, r)[x]] < DirMeasure[x]
  <2> DEFINE y == DirNext(dir, r)[x]
             m == DirMid(x)
  <2>1. /\ m \in Int /\ x[1] <= m /\ m < x[2] /\ x[1] \in Int /\ x[2] \in Int
        /\ <<x[1], m>> \in DirRanges /\ <<m + 1, x[2]>> \in DirRanges
    BY <1>3, DirMids DEF DirStops
  <2>2. y \in DirRanges /\ (y = <<x[1], m>> \/ y = <<m + 1, x[2]>>)
    BY <2>1 DEF DirNext
  <2> HIDE DEF y, m
  <2>3. DirMeasure[y] = y[2] - y[1] /\ DirMeasure[x] = x[2] - x[1]
    BY <2>2 DEF DirMeasure
  <2> QED
    BY <2>1, <2>2, <2>3 DEF y
<1> QED
  BY <1>1, <1>2, <1>3 DEF Descends, DirMeasure

(* The recursive function of search_child_idx is such a loop.              *)
LEMMA SearchChildLoops ==
  ASSUME NEW dir, NEW r
  PROVE  \E f : /\ IsLoop(f, DirRanges, DirStops, DirValue, DirNext(dir, r))
                /\ SearchChildIdx(dir, r) = f[<<0, dir.count - 1>>]
<1> DEFINE Body(f) ==
      [range \in {x \in (0 .. DirRecords) \X (0 .. DirRecords) : x[1] <= x[2]} |->
        LET from == range[1]
            to == range[2]
            mid == ((from + to + 1) \div 2) - 1
        IN
        IF from = to THEN from
        ELSE IF r < dir.record[mid] THEN f[<<from, mid>>] ELSE f[<<mid + 1, to>>]]
<1>1. \A f : Body(f) = [x \in DirRanges |-> IF x \in DirStops THEN DirValue[x] ELSE f[DirNext(dir, r)[x]]]
  <2>1. ASSUME NEW f, NEW x \in DirRanges
        PROVE  Body(f)[x] = IF x \in DirStops THEN DirValue[x] ELSE f[DirNext(dir, r)[x]]
    BY DEF DirRanges, DirStops, DirValue, DirNext, DirMid
  <2>2. \A f : Body(f) = [x \in DirRanges |-> Body(f)[x]]
    BY DEF DirRanges
  <2> HIDE DEF Body
  <2> QED
    BY <2>1, <2>2
<1>2. SearchChildIdx(dir, r) = (CHOOSE f : f = Body(f))[<<0, dir.count - 1>>]
  BY DEF SearchChildIdx
<1> HIDE DEF Body
<1>3. \E f : IsLoop(f, DirRanges, DirStops, DirValue, DirNext(dir, r))
  BY DirDescends, LoopExists
<1>4. \E f : f = Body(f)
  BY <1>1, <1>3 DEF IsLoop
<1>5. (CHOOSE f : f = Body(f)) = Body(CHOOSE f : f = Body(f))
  BY <1>4
<1> QED
  BY <1>1, <1>2, <1>5 DEF IsLoop

(* The separators of a directory are in order.                             *)
SeparatorsSorted(dir) ==
  /\ \A i \in 0 .. dir.count - 2 : dir.record[i] \in Int
  /\ \A i, j \in 0 .. dir.count - 2 : i < j => dir.record[i] < dir.record[j]

(* r belongs to child i: the separator before it is not greater, the one   *)
(* behind it is.                                                           *)
IsChildOf(dir, r, i) ==
  /\ i \in 0 .. dir.count - 1
  /\ \A j \in 0 .. i - 1 : dir.record[j] <= r
  /\ \A j \in i .. dir.count - 2 : r < dir.record[j]

DirNarrowed(dir, r) ==
  {x \in DirRanges :
     /\ x[2] < dir.count
     /\ \A j \in 0 .. x[1] - 1 : dir.record[j] <= r
     /\ \A j \in x[2] .. dir.count - 2 : r < dir.record[j]}

(* Each turn leaves separators up to r below the range and greater ones    *)
(* behind it.                                                              *)
LEMMA DirNarrows ==
  ASSUME NEW dir, NEW r \in Int, dir.count \in 1 .. DirChildren, SeparatorsSorted(dir),
         NEW x \in DirNarrowed(dir, r)
  PROVE  IF x \in DirStops THEN IsChildOf(dir, r, DirValue[x])
         ELSE DirNext(dir, r)[x] \in DirNarrowed(dir, r)
<1> DEFINE n == dir.count
           m == DirMid(x)
           a == dir.record
<1>1. /\ x \in DirRanges /\ x[1] \in Nat /\ x[2] \in Nat /\ n \in Nat /\ n >= 1
      /\ x[2] < n /\ x[1] <= x[2]
      /\ \A j \in 0 .. x[1] - 1 : a[j] <= r
      /\ \A j \in x[2] .. n - 2 : r < a[j]
  BY DirRecordsAssumption DEF DirNarrowed, DirRanges, DirChildren
<1>2. /\ \A i \in 0 .. n - 2 : a[i] \in Int
      /\ \A i, j \in 0 .. n - 2 : i < j => a[i] < a[j]
  BY DEF SeparatorsSorted
<1>3. CASE x[1] = x[2]
  <2>1. x \in DirStops /\ DirValue[x] = x[1]
    BY <1>1, <1>3 DEF DirStops, DirValue
  <2>2. IsChildOf(dir, r, x[1])
    BY <1>1, <1>3 DEF IsChildOf
  <2> QED
    BY <2>1, <2>2
<1>4. CASE x[1] # x[2]
  <2>1. /\ m \in Int /\ x[1] <= m /\ m < x[2] /\ m \in 0 .. n - 2
        /\ <<x[1], m>> \in DirRanges /\ <<m + 1, x[2]>> \in DirRanges
    BY <1>1, <1>4, DirMids
  <2>2. x \notin DirStops /\ DirNext(dir, r)[x] = IF r < a[m] THEN <<x[1], m>> ELSE <<m + 1, x[2]>>
    BY <1>1, <1>4 DEF DirStops, DirNext
  <2>3. a[m] \in Int
    BY <1>2, <2>1
  <2> HIDE DEF m
  <2>4. CASE r < a[m]
    <3>1. \A j \in m .. n - 2 : r < a[j]
      BY <1>1, <1>2, <2>1, <2>3, <2>4
    <3>2. <<x[1], m>> \in DirNarrowed(dir, r)
      BY <1>1, <2>1, <3>1 DEF DirNarrowed
    <3> QED
      BY <2>2, <2>4, <3>2
  <2>5. CASE ~ (r < a[m])
    <3>1. \A j \in 0 .. (m + 1) - 1 : a[j] <= r
      BY <1>1, <1>2, <2>1, <2>3, <2>5
    <3>2. <<m + 1, x[2]>> \in DirNarrowed(dir, r)
      BY <1>1, <2>1, <3>1 DEF DirNarrowed
    <3> QED
      BY <2>2, <2>5, <3>2
  <2> QED
    BY <2>4, <2>5
<1> QED
  BY <1>3, <1>4

(* In a directory of sorted separators search_child_idx returns the child  *)
(* a record belongs to.                                                    *)
THEOREM SearchChildFinds ==
  ASSUME NEW dir, NEW r \in Int, dir.count \in 1 .. DirChildren, SeparatorsSorted(dir)
  PROVE  IsChildOf(dir, r, SearchChildIdx(dir, r))
<1> DEFINE J == DirNarrowed(dir, r)
           G == {i \in 0 .. dir.count - 1 : IsChildOf(dir, r, i)}
<1>1. PICK f : /\ IsLoop(f, DirRanges, DirStops, DirValue, DirNext(dir, r))
               /\ SearchChildIdx(dir, r) = f[<<0, dir.count - 1>>]
  BY SearchChildLoops
<1>2. \A x \in J : IF x \in DirStops THEN DirValue[x] \in G ELSE DirNext(dir, r)[x] \in J
  BY DirNarrows DEF IsChildOf
<1>3. Keeps(J, G, DirRanges, DirStops, DirValue, DirNext(dir, r))
  BY <1>2 DEF DirNarrowed, Keeps
<1>4. <<0, dir.count - 1>> \in J
  BY DirRecordsAssumption DEF DirNarrowed, DirRanges, DirChildren
<1> HIDE DEF J, G
<1>5. \A x \in J : f[x] \in G
  BY <1>1, <1>3, DirDescends, LoopReturns
<1> QED
  BY <1>1, <1>4, <1>5 DEF G

(* A record belongs to one child.                                          *)
LEMMA ChildIsUnique ==
  ASSUME NEW dir, NEW r \in Int, dir.count \in Nat, SeparatorsSorted(dir),
         NEW i, NEW k, IsChildOf(dir, r, i), IsChildOf(dir, r, k)
  PROVE  i = k
<1>1. i \in 0 .. dir.count - 1 /\ k \in 0 .. dir.count - 1
  BY DEF IsChildOf
<1>2. ~ (i < k)
  <2>1. SUFFICES ASSUME i < k PROVE FALSE
    OBVIOUS
  <2>2. i \in 0 .. k - 1 /\ i \in i .. dir.count - 2 /\ i \in 0 .. dir.count - 2
    BY <1>1, <2>1
  <2>3. dir.record[i] <= r /\ r < dir.record[i] /\ dir.record[i] \in Int
    BY <2>2 DEF IsChildOf, SeparatorsSorted
  <2> QED
    BY <2>3
<1>3. ~ (k < i)
  <2>1. SUFFICES ASSUME k < i PROVE FALSE
    OBVIOUS
  <2>2. k \in 0 .. i - 1 /\ k \in k .. dir.count - 2 /\ k \in 0 .. dir.count - 2
    BY <1>1, <2>1
  <2>3. dir.record[k] <= r /\ r < dir.record[k] /\ dir.record[k] \in Int
    BY <2>2 DEF IsChildOf, SeparatorsSorted
  <2> QED
    BY <2>3
<1> QED
  BY <1>1, <1>2, <1>3

=============================================================================
