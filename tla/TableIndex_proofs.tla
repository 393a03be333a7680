-------------------------- MODULE TableIndex_proofs -------------------------
(***************************************************************************)
(* For keys of any type and any number of slots: the entries of an index   *)
(* are those of its table's rows, rows get theirs, and scans find them.    *)
(* The last two need of the keys' encoding what the theorems say; the keys  *)
(* of ASCII strings have it.                                               *)
(***************************************************************************)
EXTENDS TableIndex, StringKey, BPlusTreeNode_proofs

-----------------------------------------------------------------------------
(***************************************************************************)
(* Entries as integers.                                                    *)
(***************************************************************************)
LEMMA StrideTyped ==
  /\ MaxSlots \in Nat /\ MaxSlots >= 1 /\ Stride \in Nat /\ Stride > 0 /\ Stride = MaxSlots + 2
  /\ LeafRecords \in Nat /\ LeafRecords >= 1
BY SlotsAssumption, LeafRecordsAssumption DEF Stride

LEMMA Quotients ==
  ASSUME NEW a \in Int, NEW s \in Nat, s > 0, NEW r \in 0 .. s - 1
  PROVE  (a * s + r) % s = r /\ (a * s + r) \div s = a /\ a * s + r \in Int
OBVIOUS

LEMMA Multiples ==
  ASSUME NEW a \in Int, NEW b \in Int, NEW s \in Nat, a <= b
  PROVE  a * s <= b * s /\ a * s \in Int /\ b * s \in Int
OBVIOUS

(* An entry can be taken apart again.                                      *)
LEMMA EntryParts ==
  ASSUME NEW k \in Keys, NEW rid \in Slots
  PROVE  /\ Entry(k, rid) \in EntryRange /\ Entry(k, rid) \in Int
         /\ RidOf(Entry(k, rid)) = rid /\ KeyOf(Entry(k, rid)) = Encoding[k]
<1>1. Encoding[k] \in Int /\ rid \in 0 .. Stride - 1
  BY EncodingAssumption, StrideTyped DEF Slots
<1>2. /\ (Encoding[k] * Stride + rid) % Stride = rid /\ (Encoding[k] * Stride + rid) \div Stride = Encoding[k]
      /\ Encoding[k] * Stride + rid \in Int
  BY <1>1, StrideTyped, Quotients
<1>3. Entry(k, rid) \in EntryRange
  BY DEF EntryRange
<1> QED
  BY <1>2, <1>3 DEF Entry, RidOf, KeyOf

(* So every entry is made of a key and a slot.                             *)
LEMMA EntryShape ==
  ASSUME NEW e \in EntryRange
  PROVE  /\ e \in Int /\ RidOf(e) \in Slots /\ KeyOf(e) \in Int
         /\ e = KeyOf(e) * Stride + RidOf(e)
         /\ \E k \in Keys : KeyOf(e) = Encoding[k] /\ e = Entry(k, RidOf(e))
<1>1. PICK k \in Keys, rid \in Slots : e = Entry(k, rid)
  BY DEF EntryRange
<1>2. e \in Int /\ RidOf(e) = rid /\ KeyOf(e) = Encoding[k]
  BY <1>1, EntryParts
<1>3. Encoding[k] \in Int
  BY EncodingAssumption
<1> QED
  BY <1>1, <1>2, <1>3 DEF Entry

(* Entries of keys that are not encoded below k come behind LeastEntry(k). *)
LEMMA EntryOrder ==
  ASSUME NEW e \in EntryRange, NEW k \in Keys
  PROVE  /\ LeastEntry(k) \in Int /\ GreatestEntry(k) \in Int
         /\ Encoding[k] <= KeyOf(e) => LeastEntry(k) < e
         /\ KeyOf(e) <= Encoding[k] => e <= GreatestEntry(k)
<1> DEFINE a == KeyOf(e)
           b == Encoding[k]
           r == RidOf(e)
<1>1. a \in Int /\ b \in Int /\ r \in Int /\ 0 <= r /\ r <= MaxSlots /\ e = a * Stride + r
  BY EntryShape, EncodingAssumption, StrideTyped DEF Slots
<1>2. LeastEntry(k) = b * Stride - 1 /\ GreatestEntry(k) = b * Stride + MaxSlots
  BY DEF LeastEntry, GreatestEntry
<1> HIDE DEF a, b, r
<1>3. a * Stride \in Int /\ b * Stride \in Int
  BY <1>1, StrideTyped
<1>4. (b <= a => b * Stride <= a * Stride) /\ (a <= b => a * Stride <= b * Stride)
  BY <1>1, StrideTyped, Multiples
<1> DEFINE A == a * Stride
           B == b * Stride
<1>5. e = A + r /\ LeastEntry(k) = B - 1 /\ GreatestEntry(k) = B + MaxSlots
      /\ A \in Int /\ B \in Int /\ (b <= a => B <= A) /\ (a <= b => A <= B)
  BY <1>1, <1>2, <1>3, <1>4
<1> HIDE DEF A, B
<1>6. LeastEntry(k) \in Int /\ GreatestEntry(k) \in Int
  BY <1>5, StrideTyped
<1>7. b <= a => LeastEntry(k) < e
  BY <1>1, <1>5
<1>8. a <= b => e <= GreatestEntry(k)
  BY <1>1, <1>5, StrideTyped
<1> QED
  BY <1>6, <1>7, <1>8 DEF a, b

(* The sign of an entry is the sign of its key.                            *)
LEMMA EntrySign ==
  ASSUME NEW e \in EntryRange
  PROVE  /\ e = 0 => KeyOf(e) = 0
         /\ e < 0 => KeyOf(e) < 0
<1> DEFINE a == KeyOf(e)
           r == RidOf(e)
<1>1. a \in Int /\ r \in Int /\ 0 <= r /\ r < Stride /\ e = a * Stride + r
  BY EntryShape, StrideTyped DEF Slots
<1> HIDE DEF a, r
<1>2. ASSUME a >= 0 PROVE ~ (e < 0)
  <2>1. 0 * Stride <= a * Stride /\ a * Stride \in Int
    BY <1>1, <1>2, StrideTyped, Multiples
  <2>2. 0 * Stride = 0
    BY StrideTyped
  <2> QED
    BY <1>1, <2>1, <2>2
<1>3. ASSUME e = 0 PROVE a = 0
  <2>1. ~ (a >= 1)
    <3>1. SUFFICES ASSUME a >= 1 PROVE FALSE
      OBVIOUS
    <3>2. 1 * Stride <= a * Stride /\ a * Stride \in Int
      BY <1>1, <3>1, StrideTyped, Multiples
    <3>3. 1 * Stride = Stride
      BY StrideTyped
    <3> QED
      BY <1>1, <1>3, <3>2, <3>3, StrideTyped
  <2>2. ~ (a <= -1)
    <3>1. SUFFICES ASSUME a <= -1 PROVE FALSE
      OBVIOUS
    <3>2. a * Stride <= (-1) * Stride /\ a * Stride \in Int
      BY <1>1, <3>1, StrideTyped, Multiples
    <3>3. (-1) * Stride = - Stride
      BY StrideTyped
    <3> QED
      BY <1>1, <1>3, <3>2, <3>3, StrideTyped
  <2> QED
    BY <1>1, <2>1, <2>2
<1> QED
  BY <1>1, <1>2, <1>3 DEF a

-----------------------------------------------------------------------------
(***************************************************************************)
(* The leaf, and what its searches find.                                   *)
(***************************************************************************)
LEMMA LeafCells ==
  /\ ZeroLeaf.count = 0 /\ \A i \in 0 .. LeafRecords - 1 : ZeroLeaf.record[i] = 0
  /\ \A e : LET l == WithFirst(ZeroLeaf, e) IN
       /\ l.count = 1 /\ l.record[0] = e
       /\ \A i \in 1 .. LeafRecords - 1 : l.record[i] = 0
<1> DEFINE z == [i \in 0 .. LeafRecords - 1 |-> 0]
<1>1. ZeroLeaf = [count |-> 0, record |-> z, next |-> 0]
  BY DEF ZeroLeaf
<1>2. 0 \in 0 .. LeafRecords - 1 /\ \A i \in 1 .. LeafRecords - 1 : i \in 0 .. LeafRecords - 1 /\ i # 0
  BY StrideTyped
<1>3. z \in [0 .. LeafRecords - 1 -> Int] /\ \A i \in 0 .. LeafRecords - 1 : z[i] = 0
  OBVIOUS
<1> HIDE DEF z
<1>4. ASSUME NEW e
      PROVE  LET l == WithFirst(ZeroLeaf, e) IN
             l.count = 1 /\ l.record[0] = e /\ \A i \in 1 .. LeafRecords - 1 : l.record[i] = 0
  <2>1. WithFirst(ZeroLeaf, e).count = 1 /\ WithFirst(ZeroLeaf, e).record = [z EXCEPT ![0] = e]
    BY <1>1 DEF WithFirst
  <2> QED
    BY <1>2, <1>3, <2>1
<1> QED
  BY <1>1, <1>3, <1>4

(* The leaf is empty, or it has one entry; its other cells are zero.       *)
LEMMA LeafShapes ==
  ASSUME TypeOK
  PROVE  /\ \/ leaf = ZeroLeaf /\ leaf.count = 0 /\ Entries = {} /\ leaf.record[0] = 0
            \/ /\ leaf.count = 1 /\ leaf.record[0] \in EntryRange /\ Entries = {leaf.record[0]}
               /\ leaf = WithFirst(ZeroLeaf, leaf.record[0])
               /\ \A i \in 1 .. LeafRecords - 1 : leaf.record[i] = 0
         /\ Entries \subseteq EntryRange
<1>1. CASE leaf = ZeroLeaf
  <2>1. leaf.count = 0 /\ leaf.record[0] = 0
    BY <1>1, LeafCells, StrideTyped
  <2>2. Entries = {}
    BY <2>1 DEF Entries
  <2> QED
    BY <1>1, <2>1, <2>2
<1>2. CASE leaf # ZeroLeaf
  <2>1. PICK e \in EntryRange : leaf = WithFirst(ZeroLeaf, e)
    BY <1>2 DEF TypeOK
  <2>2. leaf.count = 1 /\ leaf.record[0] = e /\ \A i \in 1 .. LeafRecords - 1 : leaf.record[i] = 0
    BY <2>1, LeafCells
  <2>3. Entries = {leaf.record[0]}
    BY <2>2 DEF Entries
  <2> QED
    BY <2>1, <2>2, <2>3
<1> QED
  BY <1>1, <1>2

(* Where a scan begins.                                                    *)
LEMMA StartPlace ==
  ASSUME TypeOK, NEW k \in Keys
  PROVE  /\ StartOf(leaf, k) \in 0 .. 1
         /\ leaf.count = 1 /\ LeastEntry(k) < leaf.record[0] => StartOf(leaf, k) = 0
<1>1. CASE leaf.count = 0
  BY <1>1, SearchIndexInEmpty DEF StartOf
<1>2. CASE leaf.count # 0
  <2>1. leaf.count = 1 /\ leaf.record[0] \in EntryRange
    BY <1>2, LeafShapes
  <2>2. leaf.record[0] \in Int /\ LeastEntry(k) \in Int
    BY <2>1, EntryShape, EntryOrder
  <2>3. /\ leaf.count \in 1 .. LeafRecords /\ Sorted(leaf)
        /\ \A i \in 0 .. leaf.count - 1 : leaf.record[i] \in Int
    <3>1. \A i \in 0 .. leaf.count - 1 : i = 0
      BY <2>1
    <3> QED
      BY <2>1, <2>2, <3>1, StrideTyped DEF Sorted
  <2>4. IsLowerBound(leaf, LeastEntry(k), StartOf(leaf, k))
    BY <2>2, <2>3, SearchIndexFinds DEF StartOf
  <2> DEFINE s == StartOf(leaf, k)
  <2>5. s \in 0 .. leaf.count /\ \A j \in 0 .. s - 1 : leaf.record[j] < LeastEntry(k)
    BY <2>4 DEF IsLowerBound
  <2> HIDE DEF s
  <2>6. s \in 0 .. 1 /\ (s = 1 => leaf.record[0] < LeastEntry(k))
    BY <2>1, <2>5
  <2> QED
    BY <2>1, <2>2, <2>6 DEF s
<1> QED
  BY <1>1, <1>2

(* A record a leaf with one entry refuses is that entry, or the record of  *)
(* zero bytes behind a lesser one.                                         *)
LEMMA RefusedIsThere ==
  ASSUME NEW x \in EntryRange, NEW e \in EntryRange, ~ RunsOff(WithFirst(ZeroLeaf, x), e)
  PROVE  e = x \/ (e = 0 /\ x < 0)
<1> DEFINE l == WithFirst(ZeroLeaf, x)
<1>1. l.count = 1 /\ l.record[0] = x /\ (\A i \in 1 .. LeafRecords - 1 : l.record[i] = 0)
  BY LeafCells
<1>2. x \in Int /\ e \in Int
  BY EntryShape
<1>3. Duplicate(l, e)
  BY <1>1 DEF RunsOff
<1> HIDE DEF l
<1>4. /\ l.count \in 1 .. LeafRecords /\ Sorted(l)
      /\ \A i \in 0 .. l.count - 1 : l.record[i] \in Int
  <2>1. \A i \in 0 .. l.count - 1 : i = 0
    BY <1>1
  <2> QED
    BY <1>1, <1>2, <2>1, StrideTyped DEF Sorted
<1>5. \/ \E i \in 0 .. l.count - 1 : l.record[i] = e
      \/ /\ l.count < LeafRecords /\ l.record[l.count] = e
         /\ \A i \in 0 .. l.count - 1 : l.record[i] < e
  BY <1>2, <1>3, <1>4, DuplicateIsExact
<1> QED
  BY <1>1, <1>5, StrideTyped

(* A record is only refused when the leaf has it, if no zero cell can pass *)
(* for one.                                                                *)
LEMMA RefusedIsKept ==
  ASSUME ZeroIsLeast, NEW x \in EntryRange, NEW e \in EntryRange, ~ RunsOff(WithFirst(ZeroLeaf, x), e)
  PROVE  e = x
<1>1. SUFFICES ASSUME e = 0, x < 0 PROVE FALSE
  BY RefusedIsThere
<1>2. KeyOf(e) = 0 /\ KeyOf(x) < 0
  BY <1>1, EntrySign
<1>3. (\E k \in Keys : KeyOf(e) = Encoding[k]) /\ (\E k \in Keys : KeyOf(x) = Encoding[k])
  BY EntryShape
<1>4. PICK j \in Keys, k \in Keys : Encoding[j] = 0 /\ Encoding[k] < 0
  BY <1>2, <1>3
<1> QED
  BY <1>4, EncodingAssumption DEF ZeroIsLeast

-----------------------------------------------------------------------------
(***************************************************************************)
(* The slots of the table's page.                                          *)
(***************************************************************************)
LEMMA SlotFacts ==
  ASSUME TypeOK
  PROVE  /\ Len(slots) \in Nat /\ Len(slots) <= MaxSlots
         /\ \A i \in 1 .. Len(slots) : slots[i] \in Keys \cup {NoRow}
         /\ \A rid \in LiveRIDs : rid \in 0 .. Len(slots) - 1 /\ rid \in Slots /\ slots[rid + 1] \in Keys
         /\ LiveRIDs \subseteq Int /\ IsFiniteSet(LiveRIDs)
         /\ Cardinality(LiveRIDs) \in Nat /\ Cardinality(LiveRIDs) <= Len(slots)
<1>1. slots \in Seq(Keys \cup {NoRow}) /\ Len(slots) \in Nat /\ Len(slots) <= MaxSlots
  BY DEF TypeOK
<1>2. \A i \in 1 .. Len(slots) : slots[i] \in Keys \cup {NoRow}
  BY <1>1
<1>3. \A rid \in LiveRIDs : rid \in 0 .. Len(slots) - 1 /\ slots[rid + 1] # NoRow
  BY DEF LiveRIDs, Live
<1>4. \A rid \in 0 .. Len(slots) - 1 : rid \in Slots /\ rid + 1 \in 1 .. Len(slots)
  BY <1>1, StrideTyped DEF Slots
<1>5. LiveRIDs \in SUBSET (0 .. Len(slots) - 1)
  BY <1>3
<1>6. IsFiniteSet(0 .. Len(slots) - 1) /\ Cardinality(0 .. Len(slots) - 1) = Len(slots)
  <2>1. 0 \in Int /\ Len(slots) - 1 \in Int
    BY <1>1
  <2>2. /\ IsFiniteSet(0 .. Len(slots) - 1)
        /\ Cardinality(0 .. Len(slots) - 1) = IF 0 > Len(slots) - 1 THEN 0 ELSE (Len(slots) - 1) - 0 + 1
    BY <2>1, FS_Interval
  <2> QED
    BY <1>1, <2>2
<1>7. IsFiniteSet(LiveRIDs) /\ Cardinality(LiveRIDs) <= Len(slots)
  BY <1>5, <1>6, FS_Subset
<1> QED
  BY <1>1, <1>2, <1>3, <1>4, <1>7, FS_CardinalityType

(* try_insert_record finds a slot that has no row.                         *)
LEMMA FreeSlotIsFree ==
  ASSUME TypeOK
  PROVE  FreeSlot \in 0 .. Len(slots) /\ FreeSlot \notin LiveRIDs
<1> DEFINE Free == {rid \in 0 .. Len(slots) : rid \notin LiveRIDs}
           Ok(rid) == rid \notin LiveRIDs /\ \A x \in 0 .. rid - 1 : x \in LiveRIDs
<1>1. Len(slots) \in Nat /\ \A rid \in LiveRIDs : rid \in 0 .. Len(slots) - 1
  BY SlotFacts
<1>2. Len(slots) \in Free
  BY <1>1
<1>3. PICK x \in Free : \A y \in Free : x <= y
  <2>1. Free \subseteq Nat /\ Free # {}
    BY <1>2
  <2> HIDE DEF Free
  <2> QED
    BY <2>1, LeastExists
<1>4. \A y \in 0 .. x - 1 : y \in LiveRIDs
  <2> SUFFICES ASSUME NEW y \in 0 .. x - 1, y \notin LiveRIDs PROVE FALSE
    OBVIOUS
  <2>1. y \in Free /\ ~ (x <= y)
    BY <1>1
  <2> QED
    BY <1>3, <2>1
<1>5. \E rid \in 0 .. Len(slots) : Ok(rid)
  BY <1>4
<1>6. FreeSlot = CHOOSE rid \in 0 .. Len(slots) : Ok(rid)
  BY DEF FreeSlot
<1>7. FreeSlot \in 0 .. Len(slots) /\ Ok(FreeSlot)
  <2> HIDE DEF Ok
  <2> QED
    BY <1>5, <1>6
<1> QED
  BY <1>7

(* The rows of rids are where they were.                                   *)
RowsStay(rids) == \A rid \in rids : rid \in LiveRIDs' /\ slots'[rid + 1] = slots[rid + 1]

(* An insert leaves the other rows where they are.                         *)
LEMMA RowIsTaken ==
  ASSUME TypeOK, FreeSlot < MaxSlots, NEW k \in Keys, slots' = WithRow(FreeSlot, k)
  PROVE  /\ slots' \in Seq(Keys \cup {NoRow}) /\ Len(slots') <= MaxSlots
         /\ FreeSlot \in Slots /\ slots'[FreeSlot + 1] = k
         /\ LiveRIDs' = LiveRIDs \cup {FreeSlot} /\ RowsStay(LiveRIDs)
<1> DEFINE f == FreeSlot
           n == Len(slots)
<1>1. /\ slots \in Seq(Keys \cup {NoRow}) /\ n \in Nat /\ n <= MaxSlots
      /\ f \in 0 .. n /\ f \notin LiveRIDs
      /\ \A rid \in LiveRIDs : rid \in 0 .. n - 1
  BY SlotFacts, FreeSlotIsFree DEF TypeOK
<1>2. k # NoRow
  BY NoRowAssumption
<1>3. f \in Slots
  BY <1>1, StrideTyped DEF Slots
<1>4. LiveRIDs' = {rid \in 0 .. Len(slots') - 1 : slots'[rid + 1] # NoRow}
  BY DEF LiveRIDs, Live
<1>5. LiveRIDs = {rid \in 0 .. n - 1 : slots[rid + 1] # NoRow}
  BY DEF LiveRIDs, Live
<1>6. CASE f = n
  <2>1. slots' = Append(slots, k)
    BY <1>6 DEF WithRow
  <2>2. slots' \in Seq(Keys \cup {NoRow}) /\ Len(slots') = n + 1 /\ slots'[n + 1] = k
        /\ \A rid \in 0 .. n - 1 : slots'[rid + 1] = slots[rid + 1]
    BY <1>1, <2>1
  <2>3. Len(slots') <= MaxSlots
    BY <1>1, <1>6, <2>2, StrideTyped
  <2> HIDE DEF n, f
  <2>4. LiveRIDs' = LiveRIDs \cup {f}
    <3>1. \A rid \in LiveRIDs' : rid \in LiveRIDs \cup {f}
      BY <1>1, <1>4, <1>5, <1>6, <2>2
    <3>2. \A rid \in LiveRIDs \cup {f} : rid \in LiveRIDs'
      BY <1>1, <1>2, <1>4, <1>5, <1>6, <2>2
    <3> QED
      BY <3>1, <3>2
  <2>5. RowsStay(LiveRIDs)
    BY <1>1, <2>2, <2>4 DEF RowsStay
  <2> QED
    BY <1>3, <1>6, <2>2, <2>3, <2>4, <2>5 DEF f
<1>7. CASE f # n
  <2>1. slots' = [slots EXCEPT ![f + 1] = k]
    BY <1>7 DEF WithRow
  <2>2. f + 1 \in 1 .. n
    BY <1>1, <1>7
  <2>3. slots' \in Seq(Keys \cup {NoRow}) /\ Len(slots') = n /\ slots'[f + 1] = k
        /\ \A rid \in 0 .. n - 1 : rid # f => slots'[rid + 1] = slots[rid + 1]
    BY <1>1, <2>1, <2>2
  <2> HIDE DEF n, f
  <2>4. LiveRIDs' = LiveRIDs \cup {f}
    <3>1. \A rid \in LiveRIDs' : rid \in LiveRIDs \cup {f}
      BY <1>1, <1>4, <1>5, <2>3
    <3>2. \A rid \in LiveRIDs \cup {f} : rid \in LiveRIDs'
      BY <1>1, <1>2, <1>4, <1>5, <1>7, <2>3
    <3> QED
      BY <3>1, <3>2
  <2>5. RowsStay(LiveRIDs)
    BY <1>1, <2>3, <2>4 DEF RowsStay
  <2> QED
    BY <1>1, <1>3, <2>3, <2>4, <2>5 DEF f
<1> QED
  BY <1>6, <1>7

(* A delete leaves the other rows where they are.                          *)
LEMMA RowIsGone ==
  ASSUME TypeOK, NEW rid \in LiveRIDs, slots' = [slots EXCEPT ![rid + 1] = NoRow]
  PROVE  /\ slots' \in Seq(Keys \cup {NoRow}) /\ Len(slots') <= MaxSlots
         /\ LiveRIDs' = LiveRIDs \ {rid} /\ RowsStay(LiveRIDs \ {rid})
<1> DEFINE n == Len(slots)
<1>1. slots \in Seq(Keys \cup {NoRow}) /\ n \in Nat /\ n <= MaxSlots /\ rid \in 0 .. n - 1 /\ rid + 1 \in 1 .. n
  <2>1. slots \in Seq(Keys \cup {NoRow})
    BY DEF TypeOK
  <2>2. n \in Nat /\ n <= MaxSlots /\ rid \in 0 .. n - 1
    BY SlotFacts
  <2> QED
    BY <2>1, <2>2
<1>2. /\ slots' \in Seq(Keys \cup {NoRow}) /\ Len(slots') = n /\ slots'[rid + 1] = NoRow
      /\ \A x \in 0 .. n - 1 : x # rid => slots'[x + 1] = slots[x + 1]
  BY <1>1
<1>3. LiveRIDs' = {x \in 0 .. n - 1 : slots'[x + 1] # NoRow} /\ LiveRIDs = {x \in 0 .. n - 1 : slots[x + 1] # NoRow}
  BY <1>2 DEF LiveRIDs, Live
<1> HIDE DEF n
<1>4. LiveRIDs' = LiveRIDs \ {rid}
  <2>1. \A x \in LiveRIDs' : x \in LiveRIDs \ {rid}
    BY <1>2, <1>3
  <2>2. \A x \in LiveRIDs \ {rid} : x \in LiveRIDs'
    BY <1>2, <1>3
  <2> QED
    BY <2>1, <2>2
<1>5. RowsStay(LiveRIDs \ {rid})
  BY <1>2, <1>3, <1>4 DEF RowsStay
<1> QED
  BY <1>1, <1>2, <1>4, <1>5

LEMMA ListIsSequence ==
  ASSUME NEW S, NEW n \in Nat, NEW f \in [1 .. n -> S]
  PROVE  f \in Seq(S) /\ Len(f) = n
OBVIOUS

Moved == {rid \in LiveRIDs : \E x \in 0 .. rid - 1 : x \notin LiveRIDs}

(* vacuum leaves the rows where they are that have no free slot before     *)
(* them.                                                                   *)
LEMMA RowsMoveUp ==
  ASSUME TypeOK,
         slots' = [i \in 1 .. Cardinality(LiveRIDs) |-> slots[1 + CHOOSE rid \in LiveRIDs : LiveBefore(rid) = i - 1]]
  PROVE  /\ slots' \in Seq(Keys \cup {NoRow}) /\ Len(slots') <= MaxSlots
         /\ LiveRIDs' \subseteq Slots /\ RowsStay(LiveRIDs \ Moved)
<1> DEFINE n == Cardinality(LiveRIDs)
           At(i) == CHOOSE rid \in LiveRIDs : LiveBefore(rid) = i - 1
<1>1. /\ n \in Nat /\ n <= MaxSlots
      /\ \A rid \in LiveRIDs : rid \in Slots /\ rid \in Nat /\ slots[rid + 1] \in Keys
      /\ LiveRIDs \subseteq Int /\ IsFiniteSet(LiveRIDs)
  BY SlotFacts, StrideTyped DEF Slots
<1>2. \A rid : LiveBefore(rid) = Rank(LiveRIDs, rid)
  BY DEF LiveBefore, Rank
<1>3. /\ \A i \in 1 .. n : \E rid \in LiveRIDs : LiveBefore(rid) = i - 1
      /\ \A x, y \in LiveRIDs : LiveBefore(x) = LiveBefore(y) => x = y
  <2>1. /\ \A j \in 0 .. n - 1 : \E rid \in LiveRIDs : Rank(LiveRIDs, rid) = j
        /\ \A x, y \in LiveRIDs : Rank(LiveRIDs, x) = Rank(LiveRIDs, y) => x = y
    BY <1>1, EveryRankIsTaken
  <2>2. \A i \in 1 .. n : i - 1 \in 0 .. n - 1
    BY <1>1
  <2> QED
    BY <1>2, <2>1, <2>2
<1>4. \A i \in 1 .. n : At(i) \in LiveRIDs /\ LiveBefore(At(i)) = i - 1
  BY <1>3
<1>5. slots' = [i \in 1 .. n |-> slots[1 + At(i)]]
  OBVIOUS
<1> HIDE DEF n, At
<1>6. \A i \in 1 .. n : slots[1 + At(i)] \in Keys
  <2> TAKE i \in 1 .. n
  <2>1. At(i) \in LiveRIDs
    BY <1>4
  <2>2. 1 + At(i) = At(i) + 1
    <3>1. \A rid \in LiveRIDs : 1 + rid = rid + 1
      BY <1>1
    <3> QED
      BY <2>1, <3>1
  <2> QED
    BY <1>1, <2>1, <2>2
<1>7. slots' \in Seq(Keys \cup {NoRow}) /\ Len(slots') = n /\ \A i \in 1 .. n : slots'[i] = slots[1 + At(i)] /\ slots'[i] # NoRow
  <2>1. \A i \in 1 .. n : slots'[i] = slots[1 + At(i)]
    BY <1>5
  <2>2. \A i \in 1 .. n : slots[1 + At(i)] # NoRow
    BY <1>6, NoRowAssumption
  <2>3. slots' \in [1 .. n -> Keys \cup {NoRow}]
    BY <1>5, <1>6
  <2>4. slots' \in Seq(Keys \cup {NoRow}) /\ Len(slots') = n
    BY <1>1, <2>3, ListIsSequence
  <2> QED
    BY <2>1, <2>2, <2>4
<1>8. LiveRIDs' = 0 .. n - 1
  <2>1. \A rid \in 0 .. n - 1 : rid + 1 \in 1 .. n
    BY <1>1
  <2> QED
    BY <1>7, <2>1 DEF LiveRIDs, Live
<1>9. ASSUME NEW rid \in LiveRIDs \ Moved PROVE rid \in LiveRIDs' /\ slots'[rid + 1] = slots[rid + 1]
  <2>1. rid \in Nat /\ \A x \in 0 .. rid - 1 : x \in LiveRIDs
    BY <1>1 DEF Moved
  <2>2. {x \in LiveRIDs : x < rid} = 0 .. rid - 1
    <3>1. \A x \in LiveRIDs : x < rid => x \in 0 .. rid - 1
      BY <1>1, <2>1
    <3>2. \A x \in 0 .. rid - 1 : x \in LiveRIDs /\ x < rid
      BY <2>1
    <3> QED
      BY <3>1, <3>2
  <2>3. LiveBefore(rid) = rid
    <3>1. 0 \in Int /\ rid - 1 \in Int
      BY <2>1
    <3>2. Cardinality(0 .. rid - 1) = IF 0 > rid - 1 THEN 0 ELSE (rid - 1) - 0 + 1
      BY <3>1, FS_Interval
    <3>3. Cardinality(0 .. rid - 1) = rid
      BY <2>1, <3>2
    <3> QED
      BY <2>2, <3>3 DEF LiveBefore
  <2>4. rid \in 0 .. n - 1
    BY <1>1, <1>2, <2>3, RankGrows DEF n
  <2>5. rid + 1 \in 1 .. n /\ (rid + 1) - 1 = rid
    BY <1>1, <2>1, <2>4
  <2>6. At(rid + 1) = rid
    BY <1>3, <1>4, <2>3, <2>5
  <2>7. slots'[rid + 1] = slots[1 + rid] /\ 1 + rid = rid + 1
    <3>1. slots'[rid + 1] = slots[1 + At(rid + 1)]
      BY <1>7, <2>5
    <3>2. 1 + rid = rid + 1
      BY <2>1
    <3> QED
      BY <2>6, <3>1, <3>2
  <2> QED
    BY <1>8, <2>4, <2>7
<1>10. LiveRIDs' \subseteq Slots
  BY <1>1, <1>8, StrideTyped DEF Slots
<1> QED
  BY <1>1, <1>7, <1>9, <1>10 DEF RowsStay

-----------------------------------------------------------------------------
(***************************************************************************)
(* Entries agree with rows.                                                *)
(***************************************************************************)

(* Entries stay sound when the rows stay but those of gone, and new ones   *)
(* are sound.                                                              *)
LEMMA SoundStays ==
  ASSUME EntrySound, NEW gone, RowsStay(LiveRIDs \ gone), stale \cup EntriesOf(gone) \subseteq stale',
         NEW new, Entries' \subseteq Entries \cup new,
         \A e \in new : RidOf(e) \in LiveRIDs' /\ Encoding[slots'[RidOf(e) + 1]] = KeyOf(e)
  PROVE  EntrySound'
<1> SUFFICES ASSUME NEW e \in Entries', e \notin stale'
             PROVE  RidOf(e) \in LiveRIDs' /\ Encoding[slots'[RidOf(e) + 1]] = KeyOf(e)
  BY DEF EntrySound, RidOf, KeyOf
<1>1. CASE e \in new
  BY <1>1
<1>2. CASE e \notin new
  <2>1. e \in Entries /\ e \notin stale /\ RidOf(e) \notin gone
    BY <1>2 DEF EntriesOf
  <2>2. RidOf(e) \in LiveRIDs \ gone /\ Encoding[slots[RidOf(e) + 1]] = KeyOf(e)
    BY <2>1 DEF EntrySound
  <2> QED
    BY <2>2 DEF RowsStay
<1> QED
  BY <1>1, <1>2

(* Entries stay right while the leaf and the rows they are of stay.        *)
LEMMA SoundWithSameEntries ==
  ASSUME EntrySound, NEW gone, RowsStay(LiveRIDs \ gone), stale \cup EntriesOf(gone) \subseteq stale', leaf' = leaf
  PROVE  EntrySound'
<1> DEFINE new == {}
<1>1. Entries' \subseteq Entries \cup new
  BY DEF Entries
<1>2. \A e \in new : RidOf(e) \in LiveRIDs' /\ Encoding[slots'[RidOf(e) + 1]] = KeyOf(e)
  OBVIOUS
<1> HIDE DEF new
<1> QED
  BY <1>1, <1>2, SoundStays

(* The rows of a step that leaves the table alone.                         *)
LEMMA RowsStayInPlace == ASSUME slots' = slots PROVE LiveRIDs' = LiveRIDs /\ RowsStay(LiveRIDs)
BY DEF LiveRIDs, Live, RowsStay

(* The entries of a leaf with its first record.                            *)
LEMMA NewEntries ==
  ASSUME NEW e, leaf' = WithFirst(ZeroLeaf, e)
  PROVE  Entries' = {e} /\ leaf'.count = 1 /\ leaf'.record[0] = e
<1>1. leaf'.count = 1 /\ leaf'.record[0] = e
  BY LeafCells
<1> QED
  BY <1>1 DEF Entries

(* What an insert does to an index.                                        *)
LEMMA InsertInIndex ==
  ASSUME TypeOK, NewUntilIndexed, NEW k \in Keys, Insert(k)
  PROVE  LET e == Entry(k, FreeSlot) IN
         /\ FreeSlot \in Slots /\ slots' = WithRow(FreeSlot, k) /\ running' \in BOOLEAN
         /\ ~ indexed => leaf' = leaf /\ missed' = missed
         /\ indexed /\ leaf.count = 0 => leaf' = WithFirst(ZeroLeaf, e)
         /\ indexed /\ leaf.count # 0 => leaf' = leaf
         /\ indexed => missed' = IF RunsOff(leaf, e) THEN missed \cup {FreeSlot} ELSE missed
<1> DEFINE e == Entry(k, FreeSlot)
<1>1. /\ slots' = WithRow(FreeSlot, k) /\ FreeSlot < MaxSlots
      /\ ~ indexed => UNCHANGED <<leaf, running, missed>>
  BY DEF Insert
<1>2. FreeSlot \in Slots /\ slots'[FreeSlot + 1] = k
  BY <1>1, RowIsTaken
<1>3. CASE indexed
  <2>1. PICK o \in Outcomes :
          /\ IndexInsert(slots', FreeSlot, o)
          /\ leaf' = o.leaf
          /\ running' = o.survives
          /\ missed' = IF RunsOff(leaf, e) THEN missed \cup {FreeSlot} ELSE missed
    BY <1>3, Zenon DEF Insert
  <2>2. o \in LeafInsertOutcomes(leaf, e)
    BY <1>2, <2>1 DEF IndexInsert
  <2>3. o.survives \in BOOLEAN
    BY DEF Outcomes
  <2> HIDE DEF e
  <2>4. /\ leaf.count = 0 => o.leaf = WithFirst(leaf, e)
        /\ leaf.count # 0 => o.leaf = leaf
    <3>1. CASE RunsOff(leaf, e)
      <4>1. leaf.count # 0
        BY <3>1 DEF RunsOff
      <4>2. o \in [leaf : {leaf}, survives : BOOLEAN]
        BY <2>2, <3>1 DEF LeafInsertOutcomes
      <4> QED
        BY <4>1, <4>2
    <3>2. CASE ~ RunsOff(leaf, e)
      BY <2>2, <3>2 DEF LeafInsertOutcomes
    <3> QED
      BY <3>1, <3>2
  <2>5. leaf.count = 0 => leaf = ZeroLeaf
    BY LeafShapes
  <2> QED
    BY <1>1, <1>2, <1>3, <2>1, <2>3, <2>4, <2>5 DEF e
<1>4. CASE ~ indexed
  BY <1>1, <1>2, <1>4 DEF TypeOK
<1> QED
  BY <1>3, <1>4

LEMMA InsertAgrees ==
  ASSUME EntriesAgree, NEW k \in Keys, Insert(k) \/ InsertThrows(k)
  PROVE  EntriesAgree'
<1> DEFINE e == Entry(k, FreeSlot)
<1>1. /\ TypeOK /\ NewUntilIndexed /\ EntrySound /\ FreeSlot < MaxSlots
      /\ slots' = WithRow(FreeSlot, k) /\ UNCHANGED <<indexed, iter, stale>>
  BY DEF EntriesAgree, Insert, InsertThrows
<1>2. /\ slots' \in Seq(Keys \cup {NoRow}) /\ Len(slots') <= MaxSlots
      /\ FreeSlot \in Slots /\ slots'[FreeSlot + 1] = k
      /\ LiveRIDs' = LiveRIDs \cup {FreeSlot} /\ RowsStay(LiveRIDs)
  BY <1>1, RowIsTaken
<1>3. /\ running' \in BOOLEAN /\ missed' \subseteq Slots
      /\ ~ indexed => leaf' = leaf
      /\ leaf' = leaf \/ leaf' = WithFirst(ZeroLeaf, e)
  <2>1. CASE Insert(k)
    BY <1>1, <1>2, <2>1, InsertInIndex DEF TypeOK
  <2>2. CASE InsertThrows(k)
    BY <1>1, <1>2, <2>2 DEF InsertThrows, TypeOK
  <2> QED
    BY <2>1, <2>2
<1>4. e \in EntryRange /\ RidOf(e) = FreeSlot /\ KeyOf(e) = Encoding[k]
  BY <1>2, EntryParts
<1> HIDE DEF e
<1>5. TypeOK'
  <2>1. leaf' \in {ZeroLeaf} \cup {WithFirst(ZeroLeaf, x) : x \in EntryRange}
    BY <1>1, <1>3, <1>4 DEF TypeOK
  <2> QED
    BY <1>1, <1>2, <1>3, <2>1 DEF TypeOK
<1>6. NewUntilIndexed'
  BY <1>1, <1>3 DEF NewUntilIndexed
<1>7. EntrySound'
  <2>1. RowsStay(LiveRIDs \ {}) /\ stale \cup EntriesOf({}) \subseteq stale'
    BY <1>1, <1>2 DEF EntriesOf
  <2>2. CASE leaf' = leaf
    BY <1>1, <2>1, <2>2, SoundWithSameEntries
  <2>3. CASE leaf' = WithFirst(ZeroLeaf, e)
    <3> DEFINE new == {e}
    <3>1. Entries' \subseteq Entries \cup new
      BY <2>3, NewEntries
    <3>2. \A x \in new : RidOf(x) \in LiveRIDs' /\ Encoding[slots'[RidOf(x) + 1]] = KeyOf(x)
      BY <1>2, <1>4
    <3> HIDE DEF new
    <3> QED
      BY <1>1, <2>1, <3>1, <3>2, SoundStays
  <2> QED
    BY <1>3, <2>2, <2>3
<1> QED
  BY <1>5, <1>6, <1>7 DEF EntriesAgree

LEMMA DeleteAgrees == ASSUME EntriesAgree, NEW rid \in Slots, Delete(rid) PROVE EntriesAgree'
<1>1. /\ TypeOK /\ NewUntilIndexed /\ EntrySound /\ rid \in LiveRIDs
      /\ slots' = [slots EXCEPT ![rid + 1] = NoRow]
      /\ stale' = stale \cup EntriesOf({rid}) /\ missed' = missed \ {rid}
      /\ UNCHANGED <<running, indexed, leaf, iter>>
  BY DEF EntriesAgree, Delete
<1>2. /\ slots' \in Seq(Keys \cup {NoRow}) /\ Len(slots') <= MaxSlots
      /\ LiveRIDs' = LiveRIDs \ {rid} /\ RowsStay(LiveRIDs \ {rid})
  BY <1>1, RowIsGone
<1>3. EntriesOf({rid}) \subseteq EntryRange
  BY <1>1, LeafShapes DEF EntriesOf
<1>4. TypeOK'
  BY <1>1, <1>2, <1>3 DEF TypeOK
<1>5. NewUntilIndexed'
  BY <1>1 DEF NewUntilIndexed
<1>6. EntrySound'
  BY <1>1, <1>2, SoundWithSameEntries
<1> QED
  BY <1>4, <1>5, <1>6 DEF EntriesAgree

(* Vacuum without its LET.                                                 *)
LEMMA VacuumFacts ==
  ASSUME Vacuum
  PROVE  /\ running
         /\ slots' = [i \in 1 .. Cardinality(LiveRIDs) |-> slots[1 + CHOOSE rid \in LiveRIDs : LiveBefore(rid) = i - 1]]
         /\ stale' = stale \cup EntriesOf(Moved)
         /\ missed' = IF indexed THEN (missed \ Moved) \cup (LiveRIDs' \ (LiveRIDs \ Moved)) ELSE {}
         /\ UNCHANGED <<running, indexed, leaf, iter>>
BY DEF Vacuum, Moved, LiveRIDs

LEMMA VacuumAgrees == ASSUME EntriesAgree, Vacuum PROVE EntriesAgree'
<1>1. TypeOK /\ NewUntilIndexed /\ EntrySound
  BY DEF EntriesAgree
<1>2. /\ slots' = [i \in 1 .. Cardinality(LiveRIDs) |-> slots[1 + CHOOSE rid \in LiveRIDs : LiveBefore(rid) = i - 1]]
      /\ stale' = stale \cup EntriesOf(Moved)
      /\ missed' = IF indexed THEN (missed \ Moved) \cup (LiveRIDs' \ (LiveRIDs \ Moved)) ELSE {}
      /\ UNCHANGED <<running, indexed, leaf, iter>>
  BY VacuumFacts
<1>3. /\ slots' \in Seq(Keys \cup {NoRow}) /\ Len(slots') <= MaxSlots
      /\ LiveRIDs' \subseteq Slots /\ RowsStay(LiveRIDs \ Moved)
  BY <1>1, <1>2, RowsMoveUp
<1>4. EntriesOf(Moved) \subseteq EntryRange /\ missed' \subseteq Slots
  BY <1>1, <1>2, <1>3, LeafShapes DEF EntriesOf, TypeOK
<1>5. TypeOK'
  BY <1>1, <1>2, <1>3, <1>4 DEF TypeOK
<1>6. NewUntilIndexed'
  BY <1>1, <1>2 DEF NewUntilIndexed
<1>7. EntrySound'
  BY <1>1, <1>2, <1>3, SoundWithSameEntries
<1> QED
  BY <1>5, <1>6, <1>7 DEF EntriesAgree

(* create_index puts the first row of its scan into the leaf; the others,  *)
(* but what the leaf has, and those it does not come to, are missed.       *)
LEMMA CreateIndexFacts ==
  ASSUME TypeOK, NewUntilIndexed, NEW n, CreateIndex(n)
  PROVE  /\ leaf = ZeroLeaf /\ ~ iter.open /\ indexed' = TRUE /\ running' \in BOOLEAN
         /\ n = Cardinality(LiveRIDs) \/ n < Cardinality(LiveRIDs)
         /\ UNCHANGED <<slots, iter, stale>>
         /\ \/ /\ leaf' = leaf /\ Scanned(n) = {}
               /\ missed' = IF n = Cardinality(LiveRIDs) THEN {} ELSE LiveRIDs
            \/ \E first \in LiveRIDs :
                 /\ leaf' = WithFirst(ZeroLeaf, Entry(slots[first + 1], first))
                 /\ missed' = {x \in Scanned(n) \ {first} : RunsOff(leaf', Entry(slots[x + 1], x))}
                                \cup {rid \in LiveRIDs : LiveBefore(rid) >= n}
<1>1. /\ leaf = ZeroLeaf /\ ~ iter.open /\ indexed' = TRUE /\ running \in BOOLEAN
      /\ n = Cardinality(LiveRIDs) \/ n < Cardinality(LiveRIDs)
      /\ UNCHANGED <<slots, iter, stale>>
  BY DEF CreateIndex, NewUntilIndexed, TypeOK
<1>2. CASE Scanned(n) = {}
  <2>1. leaf' = leaf /\ running' = running /\ missed' = IF n = Cardinality(LiveRIDs) THEN {} ELSE LiveRIDs
    BY <1>2 DEF CreateIndex
  <2> QED
    BY <1>1, <1>2, <2>1
<1>3. CASE Scanned(n) # {}
  <2> DEFINE first == CHOOSE rid \in Scanned(n) : \A x \in Scanned(n) : rid <= x
             withFirst == WithFirst(leaf, Entry(slots[first + 1], first))
             rest == {x \in Scanned(n) \ {first} : RunsOff(withFirst, Entry(slots[x + 1], x))}
  <2>1. /\ leaf' = withFirst
        /\ running' \in IF rest = {} THEN {TRUE} ELSE BOOLEAN
        /\ missed' = rest \cup {rid \in LiveRIDs : LiveBefore(rid) >= n}
    BY <1>3 DEF CreateIndex
  <2>2. first \in Scanned(n)
    <3>1. Scanned(n) \subseteq Nat
      BY SlotFacts DEF Scanned
    <3>2. \E rid \in Scanned(n) : \A x \in Scanned(n) : rid <= x
      BY <1>3, <3>1, LeastExists
    <3> QED
      BY <3>2
  <2>3. first \in LiveRIDs
    BY <2>2 DEF Scanned
  <2>4. running' \in BOOLEAN
    <3> HIDE DEF rest
    <3> QED
      BY <2>1
  <2> HIDE DEF first
  <2>5. leaf' = WithFirst(ZeroLeaf, Entry(slots[first + 1], first))
    BY <1>1, <2>1
  <2>6. missed' = {x \in Scanned(n) \ {first} : RunsOff(leaf', Entry(slots[x + 1], x))}
                    \cup {rid \in LiveRIDs : LiveBefore(rid) >= n}
    BY <2>1
  <2> QED
    BY <1>1, <2>3, <2>4, <2>5, <2>6
<1> QED
  BY <1>2, <1>3

LEMMA CreateIndexAgrees == ASSUME EntriesAgree, NEW n, CreateIndex(n) PROVE EntriesAgree'
<1>1. TypeOK /\ NewUntilIndexed /\ EntrySound
  BY DEF EntriesAgree
<1>2. /\ indexed' = TRUE /\ running' \in BOOLEAN /\ UNCHANGED <<slots, iter, stale>>
  BY <1>1, CreateIndexFacts
<1>3. /\ LiveRIDs \subseteq Slots /\ \A rid \in LiveRIDs : slots[rid + 1] \in Keys
  BY <1>1, SlotFacts
<1>4. missed' \subseteq Slots
  BY <1>1, <1>3, CreateIndexFacts DEF Scanned
<1>5. LiveRIDs' = LiveRIDs /\ RowsStay(LiveRIDs \ {}) /\ stale \cup EntriesOf({}) \subseteq stale'
  BY <1>2, RowsStayInPlace DEF EntriesOf
<1>6. NewUntilIndexed'
  BY <1>2 DEF NewUntilIndexed
<1>7. CASE leaf' = leaf
  <2>1. TypeOK'
    BY <1>1, <1>2, <1>4, <1>7 DEF TypeOK
  <2>2. EntrySound'
    BY <1>1, <1>5, <1>7, SoundWithSameEntries
  <2> QED
    BY <1>6, <2>1, <2>2 DEF EntriesAgree
<1>8. CASE leaf' # leaf
  <2>1. PICK first \in LiveRIDs : leaf' = WithFirst(ZeroLeaf, Entry(slots[first + 1], first))
    BY <1>1, <1>8, CreateIndexFacts
  <2> DEFINE e == Entry(slots[first + 1], first)
             new == {e}
  <2>2. e \in EntryRange /\ RidOf(e) = first /\ KeyOf(e) = Encoding[slots[first + 1]]
    BY <1>3, EntryParts
  <2>3. TypeOK'
    BY <1>1, <1>2, <1>4, <2>1, <2>2 DEF TypeOK
  <2>4. Entries' \subseteq Entries \cup new
    BY <2>1, NewEntries
  <2>5. \A x \in new : RidOf(x) \in LiveRIDs' /\ Encoding[slots'[RidOf(x) + 1]] = KeyOf(x)
    BY <1>2, <1>5, <2>2
  <2> HIDE DEF new
  <2>6. EntrySound'
    BY <1>1, <1>5, <2>4, <2>5, SoundStays
  <2> QED
    BY <1>6, <2>3, <2>6 DEF EntriesAgree
<1> QED
  BY <1>7, <1>8

-----------------------------------------------------------------------------
(***************************************************************************)
(* Iterators.                                                              *)
(***************************************************************************)
Iters ==
  [open : {TRUE}, ended : BOOLEAN, min : Keys, max : Keys, pos : 0 .. 1,
   out : Keys \cup {NoRow}, owes : SUBSET EntryRange]

LEMMA OpenIters == TypeOK /\ iter.open => iter \in Iters
<1>1. Closed.open = FALSE
  BY DEF Closed
<1>2. TypeOK => iter = Closed \/ iter \in Iters
  BY DEF TypeOK, Iters
<1> QED
  BY <1>1, <1>2

IterCalls ==
  \/ \E min, max, b \in Keys : Begin(min, max, b)
  \/ Reset \/ NextRow \/ NextThrows \/ ResetThrows \/ End

(* The iterator after begin.                                               *)
LEMMA BeginFacts ==
  ASSUME TypeOK, NEW min \in Keys, NEW max \in Keys, NEW b \in Keys, Begin(min, max, b)
  PROVE  /\ iter' \in Iters /\ iter'.owes = Entries /\ iter'.ended = FALSE
         /\ iter'.min = min /\ iter'.max = max /\ iter'.pos = StartOf(leaf, min)
<1>1. iter' = [Closed EXCEPT !.open = TRUE, !.min = min, !.max = max, !.pos = StartOf(leaf, min),
                             !.out = b, !.owes = Entries]
  BY DEF Begin
<1>2. StartOf(leaf, min) \in 0 .. 1 /\ Entries \in SUBSET EntryRange
  BY StartPlace, LeafShapes
<1>3. Closed = [open |-> FALSE, ended |-> FALSE, min |-> NoRow, max |-> NoRow, pos |-> 0, out |-> NoRow, owes |-> {}]
  BY DEF Closed
<1> DEFINE p == StartOf(leaf, min)
<1> HIDE DEF p
<1>4. iter' = [open |-> TRUE, ended |-> FALSE, min |-> min, max |-> max, pos |-> StartOf(leaf, min), out |-> b, owes |-> Entries]
  BY <1>1, <1>3
<1> QED
  BY <1>2, <1>4 DEF Iters

(* The iterator after next().                                              *)
LEMMA NextRowFacts ==
  ASSUME TypeOK, NextRow
  PROVE  LET e == leaf.record[iter.pos]
             out == IF RidOf(e) \in LiveRIDs THEN slots[RidOf(e) + 1] ELSE iter.out
         IN
         /\ iter \in Iters /\ iter' \in Iters /\ iter'.min = iter.min /\ iter'.max = iter.max /\ ~ iter.ended
         /\ iter.pos >= leaf.count \/ GreatestEntry(iter.max) < e => iter'.owes = iter.owes
         /\ ~ (iter.pos >= leaf.count \/ GreatestEntry(iter.max) < e) =>
              /\ iter'.ended = FALSE /\ iter'.pos = iter.pos + 1
              /\ iter'.owes = IF InRange(out, iter.min, iter.max) THEN iter.owes \ {e} ELSE iter.owes
<1> DEFINE e == leaf.record[iter.pos]
           out == IF RidOf(e) \in LiveRIDs THEN slots[RidOf(e) + 1] ELSE iter.out
           ends == iter.pos >= leaf.count \/ GreatestEntry(iter.max) < e
<1>1. /\ iter \in Iters /\ ~ iter.ended
      /\ iter' = IF ends
                 THEN [iter EXCEPT !.ended = TRUE, !.pos = IF iter.pos < leaf.count THEN @ + 1 ELSE @]
                 ELSE [iter EXCEPT !.pos = @ + 1, !.out = out,
                                   !.owes = IF InRange(out, iter.min, iter.max) THEN @ \ {e} ELSE @]
  BY OpenIters DEF NextRow
<1>2. leaf.count \in 0 .. 1
  BY LeafShapes
<1>3. iter.pos \in 0 .. 1
  BY <1>1 DEF Iters
<1>4. out \in Keys \cup {NoRow}
  BY <1>1, SlotFacts DEF Iters
<1> HIDE DEF e, out
<1>5. CASE ends
  <2>1. iter' = [iter EXCEPT !.ended = TRUE, !.pos = IF iter.pos < leaf.count THEN @ + 1 ELSE @]
    BY <1>1, <1>5
  <2>2. (IF iter.pos < leaf.count THEN iter.pos + 1 ELSE iter.pos) \in 0 .. 1
    BY <1>2, <1>3
  <2>3. iter' \in Iters /\ iter'.min = iter.min /\ iter'.max = iter.max /\ iter'.owes = iter.owes
    BY <1>1, <2>1, <2>2 DEF Iters
  <2> QED
    BY <1>1, <1>5, <2>3 DEF e
<1>6. CASE ~ ends
  <2>1. iter' = [iter EXCEPT !.pos = @ + 1, !.out = out,
                             !.owes = IF InRange(out, iter.min, iter.max) THEN @ \ {e} ELSE @]
    BY <1>1, <1>6
  <2>2. iter.pos + 1 \in 0 .. 1
    BY <1>2, <1>3, <1>6
  <2> DEFINE o == IF InRange(out, iter.min, iter.max) THEN iter.owes \ {e} ELSE iter.owes
  <2>3. o \in SUBSET EntryRange
    BY <1>1 DEF Iters
  <2>4. iter' = [iter EXCEPT !.pos = iter.pos + 1, !.out = out, !.owes = o]
    BY <2>1
  <2> HIDE DEF o
  <2>5. /\ iter' \in Iters /\ iter'.min = iter.min /\ iter'.max = iter.max
        /\ iter'.ended = FALSE /\ iter'.pos = iter.pos + 1 /\ iter'.owes = o
    BY <1>1, <1>4, <2>2, <2>3, <2>4 DEF Iters
  <2> QED
    BY <1>1, <1>6, <2>5 DEF e, out, o
<1> QED
  BY <1>5, <1>6

(* The iterator after reset().                                             *)
LEMMA ResetFacts ==
  ASSUME TypeOK, Reset
  PROVE  /\ iter \in Iters /\ iter' \in Iters /\ iter'.min = iter.min /\ iter'.max = iter.max
         /\ iter'.ended = FALSE /\ iter'.pos = StartOf(leaf, iter.min) /\ iter'.owes = Entries
<1>1. iter \in Iters /\ iter' = [iter EXCEPT !.ended = FALSE, !.pos = StartOf(leaf, iter.min), !.owes = Entries]
  BY OpenIters DEF Reset
<1>2. iter.min \in Keys
  BY <1>1 DEF Iters
<1>3. StartOf(leaf, iter.min) \in 0 .. 1 /\ Entries \in SUBSET EntryRange
  BY <1>2, StartPlace, LeafShapes
<1> QED
  BY <1>1, <1>3 DEF Iters

(* The iterator after an exception.                                        *)
LEMMA ThrowsFacts ==
  ASSUME TypeOK, NextThrows \/ ResetThrows
  PROVE  iter' \in Iters /\ iter'.owes = {}
<1>1. iter \in Iters
  BY OpenIters DEF NextThrows, ResetThrows
<1>2. CASE NextThrows
  <2>1. iter' = [iter EXCEPT !.pos = @ + 1, !.owes = {}] /\ iter.pos < leaf.count
    BY <1>2 DEF NextThrows
  <2>2. leaf.count \in 0 .. 1
    BY LeafShapes
  <2>3. iter.pos + 1 \in 0 .. 1
    BY <1>1, <2>1, <2>2 DEF Iters
  <2> QED
    BY <1>1, <2>1, <2>3 DEF Iters
<1>3. CASE ResetThrows
  <2>1. iter' = [iter EXCEPT !.ended = FALSE, !.owes = {}]
    BY <1>3 DEF ResetThrows
  <2> QED
    BY <1>1, <2>1 DEF Iters
<1> QED
  BY <1>2, <1>3

LEMMA IterCallsAgree == ASSUME EntriesAgree, IterCalls PROVE EntriesAgree'
<1>1. /\ TypeOK /\ NewUntilIndexed /\ EntrySound
      /\ UNCHANGED <<running, slots, indexed, leaf, stale, missed>>
  BY DEF EntriesAgree, IterCalls, Begin, Reset, NextRow, NextThrows, ResetThrows, End
<1>2. iter' = Closed \/ (iter' \in Iters /\ (indexed \/ iter.open))
  <2>1. ASSUME NEW min \in Keys, NEW max \in Keys, NEW b \in Keys, Begin(min, max, b)
        PROVE  iter' \in Iters /\ indexed
    BY <1>1, <2>1, BeginFacts DEF Begin
  <2>2. CASE Reset
    BY <1>1, <2>2, ResetFacts DEF Reset
  <2>3. CASE NextRow
    BY <1>1, <2>3, NextRowFacts DEF NextRow
  <2>4. CASE NextThrows \/ ResetThrows
    BY <1>1, <2>4, ThrowsFacts DEF NextThrows, ResetThrows
  <2>5. CASE End
    BY <2>5 DEF End
  <2> QED
    BY <2>1, <2>2, <2>3, <2>4, <2>5 DEF IterCalls
<1>3. TypeOK'
  BY <1>1, <1>2 DEF TypeOK, Iters
<1>4. NewUntilIndexed'
  BY <1>1, <1>2 DEF NewUntilIndexed, Closed
<1>5. EntrySound'
  <2>1. RowsStay(LiveRIDs \ {}) /\ stale \cup EntriesOf({}) \subseteq stale'
    BY <1>1, RowsStayInPlace DEF EntriesOf
  <2> QED
    BY <1>1, <2>1, SoundWithSameEntries
<1> QED
  BY <1>3, <1>4, <1>5 DEF EntriesAgree

LEMMA InitAgrees == Init => EntriesAgree
<1> SUFFICES ASSUME Init PROVE EntriesAgree
  OBVIOUS
<1>1. slots \in Seq(Keys \cup {NoRow}) /\ Len(slots) <= MaxSlots
  BY StrideTyped DEF Init
<1>2. TypeOK
  BY <1>1 DEF Init, TypeOK
<1>3. Entries = {}
  BY <1>2, LeafShapes, LeafCells DEF Init
<1>4. NewUntilIndexed
  BY DEF Init, NewUntilIndexed, Closed
<1> QED
  BY <1>2, <1>3, <1>4 DEF EntriesAgree, EntrySound

LEMMA NextAgrees == EntriesAgree /\ [Next]_vars => EntriesAgree'
<1> SUFFICES ASSUME EntriesAgree, [Next]_vars PROVE EntriesAgree'
  OBVIOUS
<1>1. ASSUME NEW k \in Keys, Insert(k) \/ InsertThrows(k) PROVE EntriesAgree'
  BY <1>1, InsertAgrees
<1>2. ASSUME NEW rid \in Slots, Delete(rid) PROVE EntriesAgree'
  BY <1>2, DeleteAgrees
<1>3. CASE Vacuum
  BY <1>3, VacuumAgrees
<1>4. ASSUME NEW n \in 0 .. MaxSlots, CreateIndex(n) PROVE EntriesAgree'
  BY <1>4, CreateIndexAgrees
<1>5. CASE IterCalls
  BY <1>5, IterCallsAgree
<1>6. CASE UNCHANGED vars
  BY <1>6 DEF vars, EntriesAgree, TypeOK, NewUntilIndexed, EntrySound, Entries, LiveRIDs, Live
<1> QED
  BY <1>1, <1>2, <1>3, <1>4, <1>5, <1>6 DEF Next, IterCalls

-----------------------------------------------------------------------------
(***************************************************************************)
(* Rows have their entries, where the record of zero bytes is the least.   *)
(***************************************************************************)
HasEntry(rid) == Entry(slots[rid + 1], rid) \in Entries

(* The rows that stay keep their entries.                                  *)
LEMMA EntriesOfRowsStay ==
  ASSUME NEW rids, RowsStay(rids), Entries \subseteq Entries', NEW rid \in rids, HasEntry(rid)
  PROVE  HasEntry(rid)'
BY DEF RowsStay, HasEntry, Entry, Stride

LEMMA InsertKeepsRows ==
  ASSUME ZeroIsLeast, EntriesAgree, RowsHaveEntries, NEW k \in Keys, Insert(k) \/ InsertThrows(k)
  PROVE  RowsHaveEntries'
<1> DEFINE e == Entry(k, FreeSlot)
<1>1. /\ TypeOK /\ NewUntilIndexed /\ FreeSlot < MaxSlots /\ running /\ indexed' = indexed
      /\ slots' = WithRow(FreeSlot, k)
  BY DEF EntriesAgree, Insert, InsertThrows
<1>2. /\ FreeSlot \in Slots /\ slots'[FreeSlot + 1] = k
      /\ LiveRIDs' = LiveRIDs \cup {FreeSlot} /\ RowsStay(LiveRIDs)
  BY <1>1, RowIsTaken
<1> SUFFICES ASSUME indexed, NEW rid \in LiveRIDs', rid \notin missed' PROVE HasEntry(rid)'
  BY <1>1 DEF RowsHaveEntries, HasEntry
<1>3. /\ Entries \subseteq Entries' /\ missed \subseteq missed'
      /\ rid = FreeSlot => e \in Entries'
  <2>1. CASE Insert(k)
    <3>1. /\ leaf.count = 0 => leaf' = WithFirst(ZeroLeaf, e)
          /\ leaf.count # 0 => leaf' = leaf
          /\ missed' = IF RunsOff(leaf, e) THEN missed \cup {FreeSlot} ELSE missed
      BY <1>1, <2>1, InsertInIndex
    <3>2. CASE leaf.count = 0
      BY <1>1, <3>1, <3>2, LeafShapes, NewEntries
    <3>3. CASE leaf.count # 0
      <4>1. Entries' = Entries
        BY <3>1, <3>3 DEF Entries
      <4>2. PICK x \in EntryRange : Entries = {x} /\ leaf = WithFirst(ZeroLeaf, x)
        BY <1>1, <3>3, LeafShapes
      <4>3. rid = FreeSlot => ~ RunsOff(leaf, e)
        BY <3>1
      <4>4. e \in EntryRange
        BY <1>2, EntryParts
      <4>5. rid = FreeSlot => e = x
        BY <4>2, <4>3, <4>4, RefusedIsKept
      <4> QED
        BY <3>1, <4>1, <4>2, <4>5
    <3> QED
      BY <3>2, <3>3
  <2>2. CASE InsertThrows(k)
    BY <2>2 DEF InsertThrows, Entries
  <2> QED
    BY <2>1, <2>2
<1>4. CASE rid = FreeSlot
  <2>1. Entry(slots'[rid + 1], rid) = e
    BY <1>2, <1>4
  <2> QED
    BY <1>3, <1>4, <2>1 DEF HasEntry, Entry, Stride
<1>5. CASE rid # FreeSlot
  <2>1. rid \in LiveRIDs /\ rid \notin missed
    BY <1>2, <1>3, <1>5
  <2>2. HasEntry(rid)
    BY <1>1, <2>1 DEF RowsHaveEntries, HasEntry
  <2> QED
    BY <1>2, <1>3, <2>1, <2>2, EntriesOfRowsStay
<1> QED
  BY <1>4, <1>5

LEMMA DeleteKeepsRows ==
  ASSUME EntriesAgree, RowsHaveEntries, NEW gone \in Slots, Delete(gone)
  PROVE  RowsHaveEntries'
<1>1. /\ TypeOK /\ gone \in LiveRIDs /\ missed' = missed \ {gone}
      /\ slots' = [slots EXCEPT ![gone + 1] = NoRow] /\ UNCHANGED <<running, indexed, leaf>>
  BY DEF EntriesAgree, Delete
<1>2. LiveRIDs' = LiveRIDs \ {gone} /\ RowsStay(LiveRIDs \ {gone}) /\ Entries' = Entries
  BY <1>1, RowIsGone DEF Entries
<1> SUFFICES ASSUME indexed, running, NEW rid \in LiveRIDs', rid \notin missed' PROVE HasEntry(rid)'
  BY <1>1 DEF RowsHaveEntries, HasEntry
<1>3. rid \in LiveRIDs \ {gone} /\ rid \notin missed
  BY <1>1, <1>2
<1>4. HasEntry(rid)
  BY <1>3 DEF RowsHaveEntries, HasEntry
<1> QED
  BY <1>2, <1>3, <1>4, EntriesOfRowsStay

LEMMA VacuumKeepsRows == ASSUME EntriesAgree, RowsHaveEntries, Vacuum PROVE RowsHaveEntries'
<1>1. /\ TypeOK /\ UNCHANGED <<running, indexed, leaf>>
      /\ missed' = IF indexed THEN (missed \ Moved) \cup (LiveRIDs' \ (LiveRIDs \ Moved)) ELSE {}
      /\ RowsStay(LiveRIDs \ Moved) /\ Entries' = Entries
  BY VacuumFacts, RowsMoveUp DEF EntriesAgree, Entries
<1> SUFFICES ASSUME indexed, running, NEW rid \in LiveRIDs', rid \notin missed' PROVE HasEntry(rid)'
  BY <1>1 DEF RowsHaveEntries, HasEntry
<1>2. rid \in LiveRIDs \ Moved /\ rid \notin missed
  BY <1>1
<1>3. HasEntry(rid)
  BY <1>2 DEF RowsHaveEntries, HasEntry
<1> QED
  BY <1>1, <1>2, <1>3, EntriesOfRowsStay

LEMMA CreateIndexHasRows ==
  ASSUME ZeroIsLeast, EntriesAgree, NEW n, n \in Nat, CreateIndex(n)
  PROVE  RowsHaveEntries'
<1>1. TypeOK /\ NewUntilIndexed
  BY DEF EntriesAgree
<1>2. slots' = slots /\ LiveRIDs' = LiveRIDs /\ (n = Cardinality(LiveRIDs) \/ n < Cardinality(LiveRIDs))
  BY <1>1, CreateIndexFacts, RowsStayInPlace
<1>3. /\ LiveRIDs \subseteq Int /\ IsFiniteSet(LiveRIDs) /\ Cardinality(LiveRIDs) \in Nat
      /\ \A rid \in LiveRIDs : rid \in Slots /\ slots[rid + 1] \in Keys
  BY <1>1, SlotFacts
<1>4. \A rid \in LiveRIDs : LiveBefore(rid) \in 0 .. Cardinality(LiveRIDs) - 1
  <2>1. \A rid \in LiveRIDs : Rank(LiveRIDs, rid) \in 0 .. Cardinality(LiveRIDs) - 1
    BY <1>3, RankGrows
  <2> QED
    BY <2>1 DEF LiveBefore, Rank
<1> SUFFICES ASSUME NEW rid \in LiveRIDs, rid \notin missed' PROVE HasEntry(rid)'
  BY <1>2 DEF RowsHaveEntries, HasEntry
<1> DEFINE e == Entry(slots[rid + 1], rid)
<1>5. e \in EntryRange
  BY <1>3, EntryParts
<1>6. e \in Entries'
  <2>1. CASE leaf' = leaf /\ Scanned(n) = {} /\ missed' = IF n = Cardinality(LiveRIDs) THEN {} ELSE LiveRIDs
    <3>1. n = Cardinality(LiveRIDs)
      BY <2>1
    <3>2. rid \in Scanned(n)
      BY <1>3, <1>4, <3>1 DEF Scanned
    <3> QED
      BY <2>1, <3>2
  <2>2. ASSUME NEW first \in LiveRIDs,
               leaf' = WithFirst(ZeroLeaf, Entry(slots[first + 1], first)),
               missed' = {x \in Scanned(n) \ {first} : RunsOff(leaf', Entry(slots[x + 1], x))}
                           \cup {y \in LiveRIDs : LiveBefore(y) >= n}
        PROVE  e \in Entries'
    <3> DEFINE f == Entry(slots[first + 1], first)
    <3>1. f \in EntryRange /\ Entries' = {f}
      BY <1>3, <2>2, EntryParts, NewEntries
    <3>2. rid \in Scanned(n)
      BY <1>3, <1>4, <2>2 DEF Scanned
    <3>3. CASE rid = first
      BY <3>1, <3>3
    <3>4. CASE rid # first
      <4>1. ~ RunsOff(WithFirst(ZeroLeaf, f), e)
        BY <2>2, <3>2, <3>4
      <4> HIDE DEF e, f
      <4>2. e = f
        BY <1>5, <3>1, <4>1, RefusedIsKept
      <4> QED
        BY <3>1, <4>2
    <3> QED
      BY <3>3, <3>4
  <2> QED
    BY <1>1, <2>1, <2>2, CreateIndexFacts
<1> QED
  BY <1>2, <1>6 DEF HasEntry, Entry, Stride

LEMMA NextKeepsRows ==
  ASSUME ZeroIsLeast
  PROVE  EntriesAgree /\ RowsHaveEntries /\ [Next]_vars => RowsHaveEntries'
<1> SUFFICES ASSUME EntriesAgree, RowsHaveEntries, [Next]_vars PROVE RowsHaveEntries'
  OBVIOUS
<1>1. ASSUME NEW k \in Keys, Insert(k) \/ InsertThrows(k) PROVE RowsHaveEntries'
  BY <1>1, InsertKeepsRows
<1>2. ASSUME NEW rid \in Slots, Delete(rid) PROVE RowsHaveEntries'
  BY <1>2, DeleteKeepsRows
<1>3. CASE Vacuum
  BY <1>3, VacuumKeepsRows
<1>4. ASSUME NEW n \in 0 .. MaxSlots, CreateIndex(n) PROVE RowsHaveEntries'
  BY <1>4, CreateIndexHasRows
<1>5. CASE IterCalls \/ UNCHANGED vars
  <2>1. UNCHANGED <<running, slots, indexed, leaf, missed>>
    BY <1>5 DEF IterCalls, Begin, Reset, NextRow, NextThrows, ResetThrows, End, vars
  <2> QED
    BY <2>1 DEF RowsHaveEntries, Entries, LiveRIDs, Live, Entry, Stride
<1> QED
  BY <1>1, <1>2, <1>3, <1>4, <1>5 DEF Next, IterCalls

-----------------------------------------------------------------------------
(***************************************************************************)
(* Scans find their entries, where encodings keep the order of keys.       *)
(***************************************************************************)

(* An entry whose row is in range lies between those searched for.         *)
LEMMA InRangeIsBetween ==
  ASSUME EncodingKeepsOrder, TypeOK, EntrySound, NEW e \in Entries, e \notin stale, NEW min \in Keys, NEW max \in Keys,
         InRange(slots[RidOf(e) + 1], min, max)
  PROVE  LeastEntry(min) < e /\ ~ (GreatestEntry(max) < e)
<1> DEFINE v == slots[RidOf(e) + 1]
<1>1. RidOf(e) \in LiveRIDs /\ Encoding[v] = KeyOf(e)
  BY DEF EntrySound
<1>2. v \in Keys /\ e \in EntryRange
  BY <1>1, SlotFacts, LeafShapes
<1>3. <<v, min>> \notin Less /\ <<max, v>> \notin Less
  BY DEF InRange
<1> HIDE DEF v
<1>4. ~ (Encoding[v] < Encoding[min]) /\ ~ (Encoding[max] < Encoding[v])
  BY <1>2, <1>3 DEF EncodingKeepsOrder
<1>5. Encoding[v] \in Int /\ Encoding[min] \in Int /\ Encoding[max] \in Int
  BY <1>2, EncodingAssumption
<1>6. Encoding[min] <= KeyOf(e) /\ KeyOf(e) <= Encoding[max]
  BY <1>1, <1>4, <1>5
<1>7. LeastEntry(min) < e /\ e <= GreatestEntry(max) /\ GreatestEntry(max) \in Int /\ e \in Int
  BY <1>2, <1>6, EntryOrder, EntryShape
<1> QED
  BY <1>7

(* Steps of the table: rows stay, and entries come to an empty leaf only.  *)
LEMMA OwesStay ==
  ASSUME EntriesAgree, OwesAhead, NEW gone, RowsStay(LiveRIDs \ gone), stale \cup EntriesOf(gone) \subseteq stale',
         iter' = iter, leaf' = leaf \/ leaf.count = 0
  PROVE  OwesAhead'
<1>1. TypeOK /\ EntrySound /\ iter.owes \subseteq Entries
  BY DEF EntriesAgree, OwesAhead
<1>2. CASE leaf' = leaf
  <2>1. Entries' = Entries
    BY <1>2 DEF Entries
  <2> SUFFICES ASSUME NEW e \in iter.owes, e \notin stale', InRange(slots'[RidOf(e) + 1], iter.min, iter.max)
               PROVE  ~ iter.ended /\ \E i \in iter.pos .. leaf.count - 1 : leaf.record[i] = e
    BY <1>1, <1>2, <2>1 DEF OwesAhead, RidOf, Stride, InRange
  <2>2. e \in Entries /\ e \notin stale /\ RidOf(e) \notin gone
    BY <1>1 DEF EntriesOf
  <2>3. RidOf(e) \in LiveRIDs \ gone
    BY <1>1, <2>2 DEF EntrySound
  <2>4. slots'[RidOf(e) + 1] = slots[RidOf(e) + 1]
    BY <2>3 DEF RowsStay
  <2> QED
    BY <2>2, <2>4 DEF OwesAhead
<1>3. CASE leaf.count = 0
  <2>1. iter.owes = {}
    BY <1>1, <1>3, LeafShapes
  <2> QED
    BY <2>1 DEF OwesAhead
<1> QED
  BY <1>2, <1>3

(* Nothing has to be ahead of an iterator that owes nothing.               *)
LEMMA OwesNothing == ASSUME iter'.owes = {} PROVE OwesAhead'
BY DEF OwesAhead

(* A search for the least record of the range begins before all of them.   *)
LEMMA OwesFromStart ==
  ASSUME EncodingKeepsOrder, EntriesAgree, UNCHANGED <<slots, leaf, stale>>, iter'.owes = Entries, iter'.ended = FALSE,
         iter'.min \in Keys, iter'.max \in Keys, iter'.pos = StartOf(leaf, iter'.min)
  PROVE  OwesAhead'
<1>1. TypeOK /\ EntrySound /\ Entries' = Entries
  BY DEF EntriesAgree, Entries
<1> DEFINE min == iter'.min
           max == iter'.max
<1> SUFFICES ASSUME NEW e \in Entries, e \notin stale, InRange(slots[RidOf(e) + 1], min, max)
             PROVE  \E i \in iter'.pos .. leaf.count - 1 : leaf.record[i] = e
  BY <1>1 DEF OwesAhead, RidOf, Stride, InRange
<1>2. min \in Keys /\ max \in Keys /\ iter'.pos = StartOf(leaf, min)
  OBVIOUS
<1> HIDE DEF min, max
<1>3. LeastEntry(min) < e
  BY <1>1, <1>2, InRangeIsBetween
<1>4. leaf.count = 1 /\ leaf.record[0] = e
  BY <1>1, LeafShapes
<1>5. iter'.pos = 0
  BY <1>1, <1>2, <1>3, <1>4, StartPlace
<1>6. 0 \in iter'.pos .. leaf.count - 1
  BY <1>4, <1>5
<1> QED
  BY <1>4, <1>6

LEMMA NextRowOwes == ASSUME EncodingKeepsOrder, EntriesAgree, OwesAhead, NextRow PROVE OwesAhead'
<1> DEFINE f == leaf.record[iter.pos]
           out == IF RidOf(f) \in LiveRIDs THEN slots[RidOf(f) + 1] ELSE iter.out
           ends == iter.pos >= leaf.count \/ GreatestEntry(iter.max) < f
<1>1. TypeOK /\ EntrySound /\ UNCHANGED <<slots, leaf, stale>> /\ Entries' = Entries /\ iter.owes \subseteq Entries
  BY DEF EntriesAgree, OwesAhead, NextRow, Entries
<1>2. /\ iter \in Iters /\ iter'.min = iter.min /\ iter'.max = iter.max /\ ~ iter.ended
      /\ ends => iter'.owes = iter.owes
      /\ ~ ends =>
           /\ iter'.ended = FALSE /\ iter'.pos = iter.pos + 1
           /\ iter'.owes = IF InRange(out, iter.min, iter.max) THEN iter.owes \ {f} ELSE iter.owes
  BY <1>1, NextRowFacts
<1>3. iter.min \in Keys /\ iter.max \in Keys /\ iter.pos \in 0 .. 1 /\ leaf.count \in 0 .. 1
  BY <1>1, <1>2, LeafShapes DEF Iters
<1>4. iter'.owes \subseteq iter.owes
  BY <1>2
<1> SUFFICES ASSUME NEW e \in iter'.owes, e \notin stale, InRange(slots[RidOf(e) + 1], iter.min, iter.max) PROVE FALSE
  BY <1>1, <1>2, <1>4 DEF OwesAhead, RidOf, Stride, InRange
<1>5. e \in Entries /\ e \in iter.owes
  BY <1>1, <1>4
<1>6. PICK i \in iter.pos .. leaf.count - 1 : leaf.record[i] = e
  BY <1>5 DEF OwesAhead
<1>7. iter.pos < leaf.count /\ i = iter.pos /\ f = e
  BY <1>3, <1>6
<1>8. ~ (GreatestEntry(iter.max) < e)
  BY <1>1, <1>3, <1>5, InRangeIsBetween
<1>9. ~ ends
  BY <1>3, <1>7, <1>8
<1>10. RidOf(e) \in LiveRIDs
  BY <1>1, <1>5 DEF EntrySound
<1>11. out = slots[RidOf(e) + 1]
  BY <1>7, <1>10
<1> HIDE DEF f, out, ends
<1>12. e \notin iter'.owes
  BY <1>2, <1>7, <1>9, <1>11
<1> QED
  BY <1>12

LEMMA NextOwes ==
  ASSUME EncodingKeepsOrder
  PROVE  EntriesAgree /\ OwesAhead /\ [Next]_vars => OwesAhead'
<1> SUFFICES ASSUME EntriesAgree, OwesAhead, [Next]_vars PROVE OwesAhead'
  OBVIOUS
<1>1. TypeOK /\ NewUntilIndexed
  BY DEF EntriesAgree
<1>2. ASSUME slots' = slots PROVE RowsStay(LiveRIDs \ {})
  BY <1>2, RowsStayInPlace
<1>3. EntriesOf({}) = {}
  BY DEF EntriesOf
<1>4. ASSUME NEW k \in Keys, Insert(k) \/ InsertThrows(k) PROVE OwesAhead'
  <2>1. FreeSlot < MaxSlots /\ slots' = WithRow(FreeSlot, k) /\ UNCHANGED <<iter, stale>>
    BY <1>4 DEF Insert, InsertThrows
  <2>2. RowsStay(LiveRIDs \ {})
    BY <1>1, <2>1, RowIsTaken
  <2>3. leaf' = leaf \/ leaf.count = 0
    BY <1>1, <1>4, InsertInIndex DEF InsertThrows
  <2> QED
    BY <1>3, <2>1, <2>2, <2>3, OwesStay
<1>5. ASSUME NEW rid \in Slots, Delete(rid) PROVE OwesAhead'
  <2>1. RowsStay(LiveRIDs \ {rid}) /\ stale \cup EntriesOf({rid}) \subseteq stale' /\ iter' = iter /\ leaf' = leaf
    BY <1>1, <1>5, RowIsGone DEF Delete
  <2> QED
    BY <2>1, OwesStay
<1>6. CASE Vacuum
  <2>1. RowsStay(LiveRIDs \ Moved) /\ stale \cup EntriesOf(Moved) \subseteq stale' /\ iter' = iter /\ leaf' = leaf
    BY <1>1, <1>6, VacuumFacts, RowsMoveUp
  <2> QED
    BY <2>1, OwesStay
<1>7. ASSUME NEW n \in 0 .. MaxSlots, CreateIndex(n) PROVE OwesAhead'
  <2>1. leaf = ZeroLeaf /\ UNCHANGED <<slots, iter, stale>>
    BY <1>1, <1>7, CreateIndexFacts
  <2>2. leaf.count = 0
    BY <2>1, LeafCells
  <2> QED
    BY <1>2, <1>3, <2>1, <2>2, OwesStay
<1>8. ASSUME NEW min \in Keys, NEW max \in Keys, NEW b \in Keys, Begin(min, max, b) PROVE OwesAhead'
  <2>1. UNCHANGED <<slots, leaf, stale>>
    BY <1>8 DEF Begin
  <2> QED
    BY <1>1, <1>8, <2>1, BeginFacts, OwesFromStart
<1>9. CASE Reset
  <2>1. UNCHANGED <<slots, leaf, stale>>
    BY <1>9 DEF Reset
  <2>2. /\ iter'.owes = Entries /\ iter'.ended = FALSE
        /\ iter'.min \in Keys /\ iter'.max \in Keys /\ iter'.pos = StartOf(leaf, iter'.min)
    BY <1>1, <1>9, ResetFacts DEF Iters
  <2> QED
    BY <2>1, <2>2, OwesFromStart
<1>10. CASE NextRow
  BY <1>10, NextRowOwes
<1>11. CASE NextThrows \/ ResetThrows
  BY <1>1, <1>11, ThrowsFacts, OwesNothing
<1>12. CASE End
  BY <1>12, OwesNothing DEF End, Closed
<1>13. CASE UNCHANGED vars
  BY <1>2, <1>3, <1>13, OwesStay DEF vars
<1> QED
  BY <1>4, <1>5, <1>6, <1>7, <1>8, <1>9, <1>10, <1>11, <1>12, <1>13 DEF Next

-----------------------------------------------------------------------------
(* Every variable keeps its shape, whatever is inserted, deleted, moved    *)
(* and scanned, and whichever call throws.                                 *)
THEOREM TypeCorrect == Spec => []TypeOK
<1>1. EntriesAgree => TypeOK
  BY DEF EntriesAgree
<1> QED
  BY <1>1, InitAgrees, NextAgrees, PTL DEF Spec

(* For keys of any encoding an index entry whose row was never deleted nor *)
(* moved has the key of that row (catalog.cc:193-220, b_plus_tree.cc:60).  *)
THEOREM EntriesStaySound == Spec => []EntrySound
<1>1. EntriesAgree => EntrySound
  BY DEF EntriesAgree
<1> QED
  BY <1>1, InitAgrees, NextAgrees, PTL DEF Spec

(* Every row of an indexed table keeps its entry, but those the index was  *)
(* never given or whose row moved, when no key's encoding is below that of *)
(* a key encoded as zero (b_plus_tree_leaf.cc:28-31).                      *)
THEOREM RowsKeepEntries == ASSUME ZeroIsLeast PROVE Spec => []RowsHaveEntries
<1>1. Init => RowsHaveEntries
  BY DEF Init, RowsHaveEntries
<1>2. EntriesAgree /\ RowsHaveEntries /\ [Next]_vars => RowsHaveEntries'
  BY NextKeepsRows
<1> QED
  BY <1>1, <1>2, InitAgrees, NextAgrees, PTL DEF Spec

(* The invariant of scans, for every encoding that keeps the order.        *)
LEMMA OwesAlways == ASSUME EncodingKeepsOrder PROVE Spec => [](EntriesAgree /\ OwesAhead)
<1>1. Init => OwesAhead
  BY DEF Init, Closed, OwesAhead
<1>2. EntriesAgree /\ OwesAhead /\ [Next]_vars => OwesAhead'
  BY NextOwes
<1> QED
  BY <1>1, <1>2, InitAgrees, NextAgrees, PTL DEF Spec

(* A scan that ended has returned the entry of every row in its range that *)
(* was there when it began and did not move, when the encoding keeps the   *)
(* keys' order (b_plus_tree_iter.cc:23-56).                                *)
THEOREM ScansFindEntries == ASSUME EncodingKeepsOrder PROVE Spec => []ScanFindsEntries
<1>1. OwesAhead => ScanFindsEntries
  BY DEF OwesAhead, ScanFindsEntries
<1> QED
  BY <1>1, OwesAlways, PTL

(* The inductive invariant, when the encoding does both.                   *)
THEOREM Invariance == ASSUME EncodingKeepsOrder, ZeroIsLeast PROVE Spec => []IInv
<1>1. Spec => []RowsHaveEntries
  BY RowsKeepEntries
<1>2. Spec => [](EntriesAgree /\ OwesAhead)
  BY OwesAlways
<1>3. EntriesAgree /\ RowsHaveEntries /\ OwesAhead => IInv
  BY DEF IInv
<1> QED
  BY <1>1, <1>2, <1>3, PTL

(* Integers are their own encoding (b_plus_tree.cc:68-71), so scans of an  *)
(* integer column find their entries, negative keys or not.                *)
THEOREM ScansOfIntegersFindEntries ==
  ASSUME Keys \subseteq Int, \A k \in Keys : Encoding[k] = k, Less = {x \in Keys \X Keys : x[1] < x[2]}
  PROVE  Spec => []ScanFindsEntries
<1>1. EncodingKeepsOrder
  <2> SUFFICES ASSUME NEW x \in Keys, NEW y \in Keys, Encoding[x] < Encoding[y] PROVE <<x, y>> \in Less
    BY DEF EncodingKeepsOrder
  <2>1. x < y
    OBVIOUS
  <2> QED
    BY <2>1
<1> QED
  BY <1>1, ScansFindEntries

-----------------------------------------------------------------------------
(***************************************************************************)
(* The keys of ASCII strings.                                              *)
(***************************************************************************)
AsciiBytes == {b \in Int : 1 <= b /\ b <= 127}
AsciiStrings == Seq(AsciiBytes)

(* A function that is defined from each value to the next, up to n.        *)
LEMMA RecursionExists ==
  ASSUME NEW n \in Nat, NEW base \in Int, NEW step \in [(1 .. n) \X Int -> Int]
  PROVE  \E f \in [0 .. n -> Int] : f[0] = base /\ \A k \in 1 .. n : f[k] = step[<<k, f[k - 1]>>]
<1> DEFINE Upto(f, m) == f[0] = base /\ \A k \in 1 .. m : f[k] = step[<<k, f[k - 1]>>]
           S == {m \in Nat : m <= n => \E f \in [0 .. m -> Int] : Upto(f, m)}
<1>1. 0 \in S
  <2>1. [k \in 0 .. 0 |-> base] \in [0 .. 0 -> Int] /\ Upto([k \in 0 .. 0 |-> base], 0)
    OBVIOUS
  <2> HIDE DEF Upto
  <2> QED
    BY <2>1
<1> HIDE DEF Upto
<1>2. ASSUME NEW m \in Nat, m \in S PROVE m + 1 \in S
  <2>1. SUFFICES ASSUME m + 1 <= n PROVE \E f \in [0 .. m + 1 -> Int] : Upto(f, m + 1)
    OBVIOUS
  <2>2. PICK f \in [0 .. m -> Int] : Upto(f, m)
    BY <1>2, <2>1
  <2> DEFINE g == [k \in 0 .. m + 1 |-> IF k = m + 1 THEN step[<<m + 1, f[m]>>] ELSE f[k]]
  <2>3. f[m] \in Int /\ m + 1 \in 1 .. n
    BY <2>1
  <2>4. step[<<m + 1, f[m]>>] \in Int
    BY <2>3
  <2>5. g \in [0 .. m + 1 -> Int] /\ g[m + 1] = step[<<m + 1, f[m]>>] /\ \A k \in 0 .. m : g[k] = f[k]
    BY <2>4
  <2> HIDE DEF g
  <2>6. ASSUME NEW k \in 1 .. m + 1 PROVE g[k] = step[<<k, g[k - 1]>>]
    <3>1. CASE k = m + 1
      <4>1. k - 1 = m /\ m \in 0 .. m
        BY <3>1
      <4> QED
        BY <2>5, <3>1, <4>1
    <3>2. CASE k # m + 1
      <4>1. k \in 1 .. m /\ k \in 0 .. m /\ k - 1 \in 0 .. m
        BY <3>2
      <4> QED
        BY <2>2, <2>5, <4>1 DEF Upto
    <3> QED
      BY <3>1, <3>2
  <2>7. g[0] = base
    BY <2>2, <2>5 DEF Upto
  <2>8. Upto(g, m + 1)
    BY <2>6, <2>7 DEF Upto
  <2> QED
    BY <2>5, <2>8
<1> HIDE DEF S
<1>3. n \in S
  BY <1>1, <1>2, SetInduction
<1>4. \E f \in [0 .. n -> Int] : Upto(f, n)
  BY <1>3 DEF S
<1> QED
  BY <1>4 DEF Upto

(* Powers are those of two.                                                *)
LEMMA PowerDoubles ==
  /\ Power(0) = 1
  /\ \A n \in 1 .. 8 * KeyBytes : Power(n) = 2 * Power(n - 1)
  /\ \A n \in 0 .. 8 * KeyBytes : Power(n) \in Int
<1> DEFINE N == 8 * KeyBytes
           power == CHOOSE f : f = [n \in 0 .. N |-> IF n = 0 THEN 1 ELSE 2 * f[n - 1]]
           step == [x \in (1 .. N) \X Int |-> 2 * x[2]]
<1>1. N \in Nat
  BY KeyBytesAssumption
<1>2. step \in [(1 .. N) \X Int -> Int]
  OBVIOUS
<1>3. \A n \in 1 .. N, v \in Int : step[<<n, v>>] = 2 * v
  OBVIOUS
<1>4. \A n \in 0 .. N : Power(n) = power[n]
  BY DEF Power
<1> HIDE DEF N, step
<1>5. PICK f \in [0 .. N -> Int] : f[0] = 1 /\ \A n \in 1 .. N : f[n] = step[<<n, f[n - 1]>>]
  <2>1. 1 \in Int
    OBVIOUS
  <2> QED
    BY <1>1, <1>2, <2>1, RecursionExists, Zenon
<1>6. \A n \in 1 .. N : f[n - 1] \in Int
  BY <1>1, <1>5
<1>7. ASSUME NEW n \in 0 .. N PROVE f[n] = IF n = 0 THEN 1 ELSE 2 * f[n - 1]
  <2>1. CASE n = 0
    BY <1>5, <2>1
  <2>2. CASE n # 0
    <3>1. n \in 1 .. N
      BY <1>1, <2>2
    <3> QED
      BY <1>3, <1>5, <1>6, <2>2, <3>1
  <2> QED
    BY <2>1, <2>2
<1>8. f = [n \in 0 .. N |-> IF n = 0 THEN 1 ELSE 2 * f[n - 1]]
  BY <1>5, <1>7
<1>9. power = [n \in 0 .. N |-> IF n = 0 THEN 1 ELSE 2 * power[n - 1]]
  BY <1>8
<1> HIDE DEF power
<1>10. \A n \in 0 .. N : power[n] = IF n = 0 THEN 1 ELSE 2 * power[n - 1]
  BY <1>9
<1> DEFINE S == {n \in Nat : n <= N => power[n] \in Int}
<1>11. 0 \in S
  BY <1>1, <1>10
<1>12. ASSUME NEW n \in Nat, n \in S PROVE n + 1 \in S
  BY <1>1, <1>10, <1>12
<1>13. \A n \in 0 .. N : power[n] \in Int
  <2> HIDE DEF S
  <2>1. Nat \subseteq S
    BY <1>11, <1>12, SetInduction
  <2> QED
    BY <1>1, <2>1 DEF S
<1>14. Power(0) = 1
  <2>1. 0 \in 0 .. N
    BY <1>1
  <2> QED
    BY <1>4, <1>10, <2>1
<1>15. ASSUME NEW n \in 1 .. N PROVE Power(n) = 2 * Power(n - 1)
  <2>1. n \in 0 .. N /\ n - 1 \in 0 .. N /\ n # 0
    BY <1>1
  <2> QED
    BY <1>4, <1>10, <2>1
<1>16. \A n \in 0 .. N : Power(n) \in Int
  BY <1>4, <1>13
<1> QED
  BY <1>14, <1>15, <1>16 DEF N

(* What byte k of a string counts in its key.                              *)
Weight(k) == Power(Shift(k))

LEMMA WeightTyped ==
  /\ KeyBytes \in Nat /\ KeyBytes >= 1
  /\ \A k \in 0 .. KeyBytes : Weight(k) \in Int
  /\ \A k \in 1 .. KeyBytes : Shift(k) \in 0 .. 8 * KeyBytes
<1>1. KeyBytes \in Nat /\ KeyBytes >= 1
  BY KeyBytesAssumption
<1>2. ASSUME NEW k \in 0 .. KeyBytes PROVE Shift(k) \in 0 .. 8 * KeyBytes
  BY <1>1 DEF Shift
<1>3. \A k \in 0 .. KeyBytes : Weight(k) \in Int
  BY <1>2, PowerDoubles DEF Weight
<1>4. \A k \in 1 .. KeyBytes : k \in 0 .. KeyBytes
  OBVIOUS
<1> QED
  BY <1>1, <1>2, <1>3, <1>4

(* A byte counts 256 times what the next one does.                         *)
LEMMA WeightsShrink == \A k \in 1 .. KeyBytes : Weight(k - 1) = 256 * Weight(k)
<1> SUFFICES ASSUME NEW k \in 1 .. KeyBytes PROVE Weight(k - 1) = 256 * Weight(k)
  OBVIOUS
<1> DEFINE s == Shift(k)
<1>1. s \in Nat /\ Shift(k - 1) = s + 8 /\ s + 8 <= 8 * KeyBytes /\ KeyBytes \in Nat
  BY KeyBytesAssumption DEF Shift
<1>2. ASSUME NEW i \in 0 .. 7 PROVE Power(s + i + 1) = 2 * Power(s + i) /\ Power(s + i) \in Int
  <2>1. s + i + 1 \in 1 .. 8 * KeyBytes /\ s + i \in 0 .. 8 * KeyBytes /\ (s + i + 1) - 1 = s + i
    BY <1>1
  <2> QED
    BY <2>1, PowerDoubles
<1> HIDE DEF s
<1>3. /\ Power(s + 1) = 2 * Power(s) /\ Power(s + 2) = 2 * Power(s + 1) /\ Power(s + 3) = 2 * Power(s + 2)
      /\ Power(s + 4) = 2 * Power(s + 3) /\ Power(s + 5) = 2 * Power(s + 4) /\ Power(s + 6) = 2 * Power(s + 5)
      /\ Power(s + 7) = 2 * Power(s + 6) /\ Power(s + 8) = 2 * Power(s + 7) /\ Power(s) \in Int
  <2>1. s + 0 = s /\ \A i \in 0 .. 7 : i + 1 \in Int
    BY <1>1
  <2>2. /\ Power(s + 0 + 1) = 2 * Power(s + 0) /\ Power(s + 1 + 1) = 2 * Power(s + 1) /\ Power(s + 2 + 1) = 2 * Power(s + 2)
        /\ Power(s + 3 + 1) = 2 * Power(s + 3) /\ Power(s + 4 + 1) = 2 * Power(s + 4) /\ Power(s + 5 + 1) = 2 * Power(s + 5)
        /\ Power(s + 6 + 1) = 2 * Power(s + 6) /\ Power(s + 7 + 1) = 2 * Power(s + 7) /\ Power(s + 0) \in Int
    BY <1>2
  <2>3. /\ s + 0 + 1 = s + 1 /\ s + 1 + 1 = s + 2 /\ s + 2 + 1 = s + 3 /\ s + 3 + 1 = s + 4
        /\ s + 4 + 1 = s + 5 /\ s + 5 + 1 = s + 6 /\ s + 6 + 1 = s + 7 /\ s + 7 + 1 = s + 8
    BY <1>1
  <2> QED
    BY <2>1, <2>2, <2>3
<1>4. Power(s + 8) = 256 * Power(s)
  BY <1>3
<1> QED
  BY <1>1, <1>4 DEF Weight, s

(* The last byte that counts counts one, and each of them at least that.   *)
LEMMA WeightsArePositive == Weight(KeyBytes) = 1 /\ \A k \in 0 .. KeyBytes : Weight(k) \in Nat /\ Weight(k) >= 1
<1>1. Weight(KeyBytes) = 1
  <2>1. Shift(KeyBytes) = 0
    BY KeyBytesAssumption DEF Shift
  <2> QED
    BY <2>1, PowerDoubles DEF Weight
<1> DEFINE S == {n \in Nat : n <= KeyBytes => Weight(KeyBytes - n) >= 1}
<1>2. 0 \in S
  BY <1>1, WeightTyped
<1>3. ASSUME NEW n \in Nat, n \in S PROVE n + 1 \in S
  <2>1. SUFFICES ASSUME n + 1 <= KeyBytes PROVE Weight(KeyBytes - (n + 1)) >= 1
    OBVIOUS
  <2> DEFINE k == KeyBytes - n
  <2>2. k \in 1 .. KeyBytes /\ k \in 0 .. KeyBytes /\ k - 1 = KeyBytes - (n + 1)
    BY <2>1, WeightTyped
  <2>3. Weight(k) >= 1
    BY <1>3, <2>1, WeightTyped
  <2> HIDE DEF k
  <2>4. Weight(k) \in Int /\ Weight(k - 1) = 256 * Weight(k)
    BY <2>2, WeightTyped, WeightsShrink
  <2>5. Weight(k - 1) >= 1
    BY <2>3, <2>4
  <2> QED
    BY <2>2, <2>5
<1>4. ASSUME NEW k \in 0 .. KeyBytes PROVE Weight(k) \in Nat /\ Weight(k) >= 1
  <2> HIDE DEF S
  <2>1. Nat \subseteq S
    BY <1>2, <1>3, SetInduction
  <2>2. KeyBytes - k \in Nat /\ KeyBytes - k <= KeyBytes /\ KeyBytes - (KeyBytes - k) = k
    BY WeightTyped
  <2>3. Weight(k) >= 1
    BY <2>1, <2>2 DEF S
  <2> QED
    BY <2>3, WeightTyped
<1> QED
  BY <1>1, <1>4

(* Byte k of a string, or the zero behind it.                              *)
ByteAt(str, k) == IF k <= Len(str) THEN str[k] ELSE 0

(* They tell whether the string goes on.                                   *)
LEMMA BytesAscii ==
  ASSUME NEW str \in AsciiStrings, NEW k \in Nat, k >= 1
  PROVE  /\ ByteAt(str, k) \in Int /\ 0 <= ByteAt(str, k) /\ ByteAt(str, k) <= 127
         /\ ByteAt(str, k) = 0 <=> k > Len(str)
         /\ Len(str) \in Nat
<1>1. Len(str) \in Nat /\ \A i \in 1 .. Len(str) : str[i] \in AsciiBytes
  BY DEF AsciiStrings
<1>2. CASE k <= Len(str)
  <2>1. str[k] \in AsciiBytes /\ ByteAt(str, k) = str[k]
    BY <1>1, <1>2 DEF ByteAt
  <2>2. ByteAt(str, k) \in Int /\ 1 <= ByteAt(str, k) /\ ByteAt(str, k) <= 127
    BY <2>1 DEF AsciiBytes
  <2> QED
    BY <1>1, <1>2, <2>2
<1>3. CASE ~ (k <= Len(str))
  <2>1. ByteAt(str, k) = 0
    BY <1>3 DEF ByteAt
  <2> QED
    BY <1>1, <1>3, <2>1
<1> QED
  BY <1>2, <1>3

(* f is the key of a string, as far as its first bytes make it.            *)
IsKey(f, str) ==
  /\ f \in [0 .. KeyBytes -> Int]
  /\ f[0] = 0
  /\ \A k \in 1 .. KeyBytes : f[k] = f[k - 1] + ByteAt(str, k) * Weight(k)

(* serialize_string_key computes it.                                       *)
LEMMA KeyExists ==
  ASSUME NEW str \in AsciiStrings
  PROVE  \E f : IsKey(f, str) /\ serialize_string_key(str) = f[KeyBytes]
<1> DEFINE step == [x \in (1 .. KeyBytes) \X Int |-> x[2] + ByteAt(str, x[1]) * Weight(x[1])]
           Next1(k, v) == IF k > Len(str) THEN v ELSE OrShifted(v, SignedChar(str[k]), Shift(k))
           key == CHOOSE f : f = [k \in 0 .. KeyBytes |-> IF k = 0 THEN 0 ELSE IF k > Len(str) THEN f[k - 1]
                                                          ELSE OrShifted(f[k - 1], SignedChar(str[k]), Shift(k))]
<1>0. 0 \in Int /\ KeyBytes \in Nat
  BY WeightTyped
<1>1. ASSUME NEW k \in 1 .. KeyBytes
      PROVE  k \in Nat /\ k >= 1 /\ ByteAt(str, k) \in Int /\ Weight(k) \in Int /\ ByteAt(str, k) * Weight(k) \in Int
  <2>1. k \in Nat /\ k >= 1 /\ k \in 0 .. KeyBytes
    OBVIOUS
  <2>2. ByteAt(str, k) \in Int /\ Weight(k) \in Int
    BY <2>1, BytesAscii, WeightTyped
  <2> QED
    BY <2>1, <2>2
<1>2. step \in [(1 .. KeyBytes) \X Int -> Int]
  <2>1. \A x \in (1 .. KeyBytes) \X Int : x[2] + ByteAt(str, x[1]) * Weight(x[1]) \in Int
    BY <1>1
  <2> QED
    BY <2>1
<1>3. ASSUME NEW k \in 1 .. KeyBytes, NEW v \in Int
      PROVE  /\ step[<<k, v>>] = v + ByteAt(str, k) * Weight(k)
             /\ v + ByteAt(str, k) * Weight(k) = Next1(k, v)
  <2>1. step[<<k, v>>] = v + ByteAt(str, k) * Weight(k)
    OBVIOUS
  <2>2. CASE k > Len(str)
    <3>1. ByteAt(str, k) = 0
      BY <1>1, <2>2, BytesAscii
    <3>2. v + ByteAt(str, k) * Weight(k) = v
      BY <1>1, <3>1
    <3> QED
      BY <2>1, <2>2, <3>2
  <2>3. CASE ~ (k > Len(str))
    <3>1. ByteAt(str, k) \in Int /\ 0 <= ByteAt(str, k) /\ ByteAt(str, k) <= 127 /\ Len(str) \in Nat
      BY <1>1, BytesAscii
    <3>2. ByteAt(str, k) = str[k]
      BY <1>1, <2>3, <3>1 DEF ByteAt
    <3>3. SignedChar(str[k]) = ByteAt(str, k)
      BY <3>1, <3>2 DEF SignedChar
    <3>4. OrShifted(v, SignedChar(str[k]), Shift(k)) = v + ByteAt(str, k) * Weight(k)
      BY <3>1, <3>3 DEF OrShifted, Weight
    <3> QED
      BY <2>1, <2>3, <3>4
  <2> QED
    BY <2>2, <2>3
<1> HIDE DEF step
<1>4. PICK f \in [0 .. KeyBytes -> Int] : f[0] = 0 /\ \A k \in 1 .. KeyBytes : f[k] = step[<<k, f[k - 1]>>]
  BY <1>0, <1>2, RecursionExists, Zenon
<1>5. ASSUME NEW k \in 1 .. KeyBytes
      PROVE  f[k - 1] \in Int /\ f[k] = f[k - 1] + ByteAt(str, k) * Weight(k) /\ f[k] = Next1(k, f[k - 1])
  <2>1. f[k - 1] \in Int
    BY <1>0, <1>4
  <2>2. f[k] = step[<<k, f[k - 1]>>]
    BY <1>4
  <2> HIDE DEF Next1
  <2> QED
    BY <1>3, <2>1, <2>2
<1>6. IsKey(f, str)
  BY <1>4, <1>5 DEF IsKey
<1>7. ASSUME NEW k \in 0 .. KeyBytes
      PROVE  f[k] = IF k = 0 THEN 0 ELSE IF k > Len(str) THEN f[k - 1] ELSE OrShifted(f[k - 1], SignedChar(str[k]), Shift(k))
  <2>1. CASE k = 0
    BY <1>4, <2>1
  <2>2. CASE k # 0
    <3>1. k \in 1 .. KeyBytes
      BY <1>0, <2>2
    <3> QED
      BY <1>5, <2>2, <3>1
  <2> QED
    BY <2>1, <2>2
<1>8. f = [k \in 0 .. KeyBytes |-> IF k = 0 THEN 0 ELSE IF k > Len(str) THEN f[k - 1]
                                   ELSE OrShifted(f[k - 1], SignedChar(str[k]), Shift(k))]
  BY <1>4, <1>7
<1>9. key = [k \in 0 .. KeyBytes |-> IF k = 0 THEN 0 ELSE IF k > Len(str) THEN key[k - 1]
                                     ELSE OrShifted(key[k - 1], SignedChar(str[k]), Shift(k))]
  BY <1>8
<1>10. serialize_string_key(str) = key[KeyBytes]
  BY DEF serialize_string_key
<1> HIDE DEF key
<1> DEFINE S == {n \in Nat : n <= KeyBytes => key[n] = f[n]}
<1>11. \A k \in 0 .. KeyBytes : key[k] = IF k = 0 THEN 0 ELSE Next1(k, key[k - 1])
  BY <1>9
<1>12. 0 \in S
  BY <1>0, <1>4, <1>11
<1>13. ASSUME NEW n \in Nat, n \in S PROVE n + 1 \in S
  <2>1. SUFFICES ASSUME n + 1 <= KeyBytes PROVE key[n + 1] = f[n + 1]
    OBVIOUS
  <2>2. n + 1 \in 1 .. KeyBytes /\ n + 1 \in 0 .. KeyBytes /\ (n + 1) - 1 = n /\ n + 1 # 0
    BY <1>0, <2>1
  <2>3. key[n] = f[n]
    BY <1>0, <1>13, <2>1
  <2> HIDE DEF Next1
  <2> QED
    BY <1>5, <1>11, <2>2, <2>3
<1>14. key[KeyBytes] = f[KeyBytes]
  <2> HIDE DEF S
  <2>1. Nat \subseteq S
    BY <1>12, <1>13, SetInduction
  <2> QED
    BY <1>0, <2>1 DEF S
<1> QED
  BY <1>6, <1>10, <1>14

(* The bytes from k on count less than byte k itself would by one more.    *)
LEMMA KeyTail ==
  ASSUME NEW str \in AsciiStrings, NEW f, IsKey(f, str), NEW k \in 0 .. KeyBytes
  PROVE  f[k] <= f[KeyBytes] /\ f[KeyBytes] < f[k] + Weight(k) /\ f[k] \in Int /\ f[KeyBytes] \in Int
<1>1. KeyBytes \in Nat /\ \A j \in 0 .. KeyBytes : f[j] \in Int /\ Weight(j) \in Nat /\ Weight(j) >= 1
  BY WeightTyped, WeightsArePositive DEF IsKey
<1> DEFINE S == {n \in Nat : k + n <= KeyBytes => f[k] <= f[k + n] /\ f[k + n] <= f[k] + Weight(k) - Weight(k + n)}
<1>2. 0 \in S
  <2>1. k + 0 = k
    OBVIOUS
  <2> QED
    BY <1>1, <2>1
<1>3. ASSUME NEW n \in Nat, n \in S PROVE n + 1 \in S
  <2>1. SUFFICES ASSUME k + (n + 1) <= KeyBytes
                 PROVE  f[k] <= f[k + (n + 1)] /\ f[k + (n + 1)] <= f[k] + Weight(k) - Weight(k + (n + 1))
    OBVIOUS
  <2> DEFINE j == k + (n + 1)
             b == ByteAt(str, j)
             w == Weight(j)
  <2>2. j \in 1 .. KeyBytes /\ j \in 0 .. KeyBytes /\ j - 1 \in 0 .. KeyBytes /\ j - 1 = k + n /\ j \in Nat /\ j >= 1
    BY <1>1, <2>1
  <2>3. f[k] <= f[j - 1] /\ f[j - 1] <= f[k] + Weight(k) - Weight(j - 1)
    BY <1>1, <1>3, <2>1, <2>2
  <2> HIDE DEF j
  <2>4. f[j] = f[j - 1] + b * w
    BY <2>2 DEF IsKey
  <2>5. Weight(j - 1) = 256 * w /\ w \in Nat /\ w >= 1
    BY <1>1, <2>2, WeightsShrink
  <2>6. b \in Int /\ 0 <= b /\ b <= 127
    BY <2>2, BytesAscii
  <2> HIDE DEF b, w
  <2>7. 0 * w <= b * w /\ b * w <= 127 * w /\ b * w \in Int
    <3>1. 0 \in Int /\ 127 \in Int
      OBVIOUS
    <3> QED
      BY <2>5, <2>6, <3>1, Multiples
  <2>8. f[k] \in Int /\ f[j - 1] \in Int /\ f[j] \in Int /\ Weight(k) \in Int
    BY <1>1, <2>2
  <2>9. f[k] <= f[j] /\ f[j] <= f[k] + Weight(k) - w
    BY <2>3, <2>4, <2>5, <2>7, <2>8
  <2> QED
    BY <2>9 DEF j, w
<1>4. f[k] <= f[KeyBytes] /\ f[KeyBytes] <= f[k] + Weight(k) - Weight(KeyBytes)
  <2> HIDE DEF S
  <2>1. Nat \subseteq S
    BY <1>2, <1>3, SetInduction
  <2>2. KeyBytes - k \in Nat /\ k + (KeyBytes - k) = KeyBytes
    BY <1>1
  <2> QED
    BY <2>1, <2>2 DEF S
<1>5. Weight(KeyBytes) = 1 /\ KeyBytes \in 0 .. KeyBytes
  BY <1>1, WeightsArePositive
<1> QED
  BY <1>1, <1>4, <1>5

(* Strings that begin alike have keys that begin alike.                    *)
LEMMA SameStart ==
  ASSUME NEW x, NEW y, NEW f, NEW g, IsKey(f, x), IsKey(g, y), NEW k \in 0 .. KeyBytes,
         \A i \in 1 .. k : ByteAt(x, i) = ByteAt(y, i)
  PROVE  f[k] = g[k]
<1> DEFINE S == {n \in Nat : n <= k => f[n] = g[n]}
<1>1. 0 \in S
  BY DEF IsKey
<1>2. ASSUME NEW n \in Nat, n \in S PROVE n + 1 \in S
  <2>1. SUFFICES ASSUME n + 1 <= k PROVE f[n + 1] = g[n + 1]
    OBVIOUS
  <2>2. n + 1 \in 1 .. KeyBytes /\ n + 1 \in 1 .. k /\ (n + 1) - 1 = n
    BY <2>1, WeightTyped
  <2>3. f[n] = g[n]
    BY <1>2, <2>1
  <2> QED
    BY <2>2, <2>3 DEF IsKey
<1> HIDE DEF S
<1>3. k \in S
  BY <1>1, <1>2, SetInduction
<1> QED
  BY <1>3 DEF S

(* A string whose key is less than another's comes before it.              *)
LEMMA KeysKeepOrder ==
  ASSUME NEW x \in AsciiStrings, NEW y \in AsciiStrings, serialize_string_key(x) < serialize_string_key(y)
  PROVE  StrcmpLess(x, y)
<1>1. PICK f : IsKey(f, x) /\ serialize_string_key(x) = f[KeyBytes]
  BY KeyExists
<1>2. PICK g : IsKey(g, y) /\ serialize_string_key(y) = g[KeyBytes]
  BY KeyExists
<1>3. f[KeyBytes] < g[KeyBytes] /\ KeyBytes \in Nat /\ KeyBytes \in 0 .. KeyBytes
  BY <1>1, <1>2, WeightTyped
<1> DEFINE T == {i \in 1 .. KeyBytes : ByteAt(x, i) # ByteAt(y, i)}
<1>4. T # {}
  <2>1. SUFFICES ASSUME T = {} PROVE FALSE
    OBVIOUS
  <2>2. \A i \in 1 .. KeyBytes : ByteAt(x, i) = ByteAt(y, i)
    BY <2>1
  <2>3. f[KeyBytes] = g[KeyBytes]
    BY <1>1, <1>2, <1>3, <2>2, SameStart
  <2>4. f[KeyBytes] \in Int
    BY <1>1, <1>3 DEF IsKey
  <2> QED
    BY <1>3, <2>3, <2>4
<1>5. T \subseteq Nat
  OBVIOUS
<1>6. PICK k \in T : \A i \in T : k <= i
  BY <1>4, <1>5, LeastExists
<1>7. /\ k \in 1 .. KeyBytes /\ k \in 0 .. KeyBytes /\ k - 1 \in 0 .. KeyBytes /\ k \in Nat /\ k >= 1
      /\ ByteAt(x, k) # ByteAt(y, k)
      /\ \A i \in 1 .. k - 1 : i \in 1 .. KeyBytes /\ i < k /\ i \in Nat /\ i >= 1
  BY <1>3, <1>6
<1>8. \A i \in 1 .. k - 1 : ByteAt(x, i) = ByteAt(y, i)
  <2> SUFFICES ASSUME NEW i \in 1 .. k - 1, ByteAt(x, i) # ByteAt(y, i) PROVE FALSE
    OBVIOUS
  <2>1. i \in T /\ i < k /\ i \in Nat
    BY <1>7
  <2> QED
    BY <1>6, <1>7, <2>1
<1> HIDE DEF T
<1> DEFINE a == ByteAt(x, k)
           b == ByteAt(y, k)
           w == Weight(k)
<1>9. a \in Int /\ b \in Int /\ 0 <= a /\ 0 <= b /\ a # b /\ (a = 0 <=> k > Len(x)) /\ (b = 0 <=> k > Len(y))
  BY <1>7, BytesAscii
<1>10. Len(x) \in Nat /\ Len(y) \in Nat
  BY <1>7, BytesAscii
<1>11. a < b
  <2>1. SUFFICES ASSUME b + 1 <= a PROVE FALSE
    BY <1>9
  <2>2. f[k - 1] = g[k - 1]
    BY <1>1, <1>2, <1>7, <1>8, SameStart
  <2>3. f[k] = f[k - 1] + a * w /\ g[k] = g[k - 1] + b * w
    BY <1>1, <1>2, <1>7 DEF IsKey
  <2>4. f[k] <= f[KeyBytes] /\ g[KeyBytes] < g[k] + w
    BY <1>1, <1>2, <1>7, KeyTail
  <2>5. /\ f[k - 1] \in Int /\ g[k - 1] \in Int /\ f[k] \in Int /\ g[k] \in Int /\ f[KeyBytes] \in Int /\ g[KeyBytes] \in Int
        /\ w \in Nat
    BY <1>1, <1>2, <1>3, <1>7, WeightsArePositive DEF IsKey
  <2> HIDE DEF a, b, w
  <2>6. (b + 1) * w <= a * w /\ a * w \in Int /\ (b + 1) * w = b * w + w /\ b * w \in Int
    BY <1>9, <2>1, <2>5, Multiples
  <2> QED
    BY <1>3, <2>2, <2>3, <2>4, <2>5, <2>6
<1>12. k <= Len(y)
  BY <1>7, <1>9, <1>10, <1>11
<1>13. \A i \in 1 .. k - 1 : i <= Len(x) /\ x[i] = y[i]
  <2> SUFFICES ASSUME NEW i \in 1 .. k - 1 PROVE i <= Len(x) /\ x[i] = y[i]
    OBVIOUS
  <2>1. i \in Nat /\ i >= 1 /\ i <= Len(y) /\ ByteAt(x, i) = ByteAt(y, i)
    BY <1>7, <1>8, <1>10, <1>12
  <2>2. ByteAt(y, i) # 0 /\ (ByteAt(x, i) = 0 <=> i > Len(x))
    BY <1>10, <2>1, BytesAscii
  <2>3. i <= Len(x)
    BY <1>10, <2>1, <2>2
  <2> QED
    BY <2>1, <2>3 DEF ByteAt
<1>14. k - 1 \in 0 .. Len(x)
  <2>1. CASE k = 1
    BY <1>10, <2>1
  <2>2. CASE k # 1
    <3>1. k - 1 \in 1 .. k - 1
      BY <1>7, <2>2
    <3>2. k - 1 <= Len(x)
      BY <1>13, <3>1
    <3> QED
      BY <1>7, <1>10, <3>2
  <2> QED
    BY <2>1, <2>2
<1>15. k - 1 < Len(x) => x[k] < y[k]
  <2> SUFFICES ASSUME k - 1 < Len(x) PROVE x[k] < y[k]
    OBVIOUS
  <2>1. k <= Len(x)
    BY <1>7, <1>10
  <2> QED
    BY <1>11, <1>12, <2>1 DEF ByteAt
<1>16. k - 1 < Len(y) /\ (k - 1) + 1 = k
  BY <1>7, <1>10, <1>12
<1> QED
  BY <1>13, <1>14, <1>15, <1>16 DEF StrcmpLess

(* The column holds ASCII strings, which insert_record encodes.            *)
AsciiColumn ==
  /\ Keys \subseteq AsciiStrings
  /\ Encoding = [k \in Keys |-> serialize_string_key(k)]
  /\ Less = {x \in Keys \X Keys : StrcmpLess(x[1], x[2])}

(* Such a column is what both assumptions on keys ask for.                 *)
LEMMA AsciiKeepsOrder == ASSUME AsciiColumn PROVE EncodingKeepsOrder /\ ZeroIsLeast
<1>1. ASSUME NEW x \in Keys, NEW y \in Keys, Encoding[x] < Encoding[y] PROVE <<x, y>> \in Less
  <2>1. x \in AsciiStrings /\ y \in AsciiStrings /\ serialize_string_key(x) < serialize_string_key(y)
    BY <1>1 DEF AsciiColumn
  <2>2. StrcmpLess(x, y)
    BY <2>1, KeysKeepOrder
  <2> QED
    BY <2>2 DEF AsciiColumn
<1>2. ASSUME NEW y \in Keys PROVE Encoding[y] >= 0
  <2>1. y \in AsciiStrings /\ Encoding[y] = serialize_string_key(y)
    BY DEF AsciiColumn
  <2>2. PICK g : IsKey(g, y) /\ serialize_string_key(y) = g[KeyBytes]
    BY <2>1, KeyExists
  <2>3. 0 \in 0 .. KeyBytes
    BY WeightTyped
  <2>4. g[0] <= g[KeyBytes] /\ g[0] = 0 /\ g[KeyBytes] \in Int
    BY <2>1, <2>2, <2>3, KeyTail DEF IsKey
  <2> QED
    BY <2>1, <2>2, <2>4
<1> QED
  BY <1>1, <1>2 DEF EncodingKeepsOrder, ZeroIsLeast

(* The index of a column of ASCII strings of any length, with keys of any  *)
(* number of their bytes (b_plus_tree.cc:10-20): rows have their entries,  *)
(* scans find them, and entries are right.                                 *)
THEOREM IndexesOfAsciiStrings ==
  ASSUME AsciiColumn
  PROVE  Spec => [](EntrySound /\ RowsHaveEntries /\ ScanFindsEntries)
<1>1. EncodingKeepsOrder /\ ZeroIsLeast
  BY AsciiKeepsOrder
<1>2. Spec => []RowsHaveEntries
  BY <1>1, RowsKeepEntries
<1>3. Spec => []ScanFindsEntries
  BY <1>1, ScansFindEntries
<1> QED
  BY <1>2, <1>3, EntriesStaySound, PTL

=============================================================================
