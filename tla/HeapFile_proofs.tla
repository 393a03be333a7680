-------------------------- MODULE HeapFile_proofs ---------------------------
(***************************************************************************)
(* For pages of any size, any records that fit them, any number of pages   *)
(* and iterators: the layout of every page survives inserts, deletes,      *)
(* vacuums and crashes, a scan returns what it owes, and the file is the   *)
(* table of records HeapStore describes.                                   *)
(***************************************************************************)
EXTENDS HeapFile, FiniteSetTheorems, WellFoundedInduction, TLAPS

(***************************************************************************)
(* Induction over the natural numbers, for sets: the form of it that needs *)
(* no predicate for a parameter.                                           *)
(***************************************************************************)
LEMMA LessIsWellFounded == IsWellFoundedOn({ss \in Nat \X Nat : ss[1] < ss[2]}, Nat)
  BY NatLessThanWellFounded DEF OpToRel

(* A set of natural numbers has a least element.                           *)
LEMMA LeastExists ==
  ASSUME NEW T, T \subseteq Nat, T # {}
  PROVE  \E x \in T : \A y \in T : x <= y
<1> DEFINE R == {ss \in Nat \X Nat : ss[1] < ss[2]}
<1>1. PICK x \in T : \A y \in T : ~ (<<y, x>> \in R)
  <2> HIDE DEF R
  <2>1. IsWellFoundedOn(R, Nat)
    BY LessIsWellFounded DEF R
  <2> QED
    BY <2>1, WFMin
<1>2. ASSUME NEW y \in T PROVE x <= y
  <2>1. ~ (<<y, x>> \in R)
    BY <1>1
  <2>2. x \in Nat /\ y \in Nat
    OBVIOUS
  <2>3. ~ (y < x)
    BY <2>1, <2>2
  <2> QED
    BY <2>2, <2>3
<1> QED
  BY <1>2

(* Induction on a set, as the library's theorems on operators are out of   *)
(* the provers' reach.                                                     *)
LEMMA SetInduction ==
  ASSUME NEW S, 0 \in S, \A n \in Nat : n \in S => n + 1 \in S
  PROVE  Nat \subseteq S
<1> DEFINE T == Nat \ S
<1>1. SUFFICES ASSUME T # {} PROVE FALSE
  OBVIOUS
<1>2. PICK x \in T : \A y \in T : x <= y
  BY <1>1, LeastExists
<1>3. x \in Nat /\ x # 0 /\ x \notin S
  OBVIOUS
<1>4. x - 1 \in Nat /\ ~ (x <= x - 1)
  BY <1>3
<1>5. x - 1 \in S
  BY <1>2, <1>4
<1>6. (x - 1) + 1 = x
  BY <1>3
<1> QED
  BY <1>3, <1>4, <1>5, <1>6

-----------------------------------------------------------------------------
(***************************************************************************)
(* Pages.                                                                  *)
(***************************************************************************)
Page == [Cells -> (Records \cup {Word}) \X Int]

(* Record r is whole at offset.                                            *)
Whole(pg, offset, r) ==
  /\ r \in Records
  /\ \A k \in 0 .. Size[r] - 1 : offset + k \in Cells /\ pg[offset + k] = <<r, k>>

RecordOf(pg, i) == ReadRecord(pg, Dir(pg, i))

Top(pg) == 2 + DirCount(pg) + FreeSpace(pg)

LEMMA ConstantsTyped ==
  /\ PageSize \in Nat /\ PageSize > 3 /\ Cells = 0 .. PageSize - 1
  /\ \A r \in Records : Size[r] \in Nat /\ Size[r] >= 1 /\ Size[r] <= PageSize - 3
  /\ Word \notin Records /\ Garbage \notin Records
<1>1. \A r \in Records : Size[r] \in 1 .. PageSize - 3
  BY SizeAssumption
<1> QED
  BY <1>1, PageSizeAssumption, TagAssumption DEF Cells

(* A record that is whole is the one that is read.                         *)
LEMMA ReadWhole ==
  ASSUME NEW pg, NEW offset \in Int, NEW r, Whole(pg, offset, r)
  PROVE  ReadRecord(pg, offset) = r /\ r # Garbage
<1>1. r \in Records /\ 0 \in 0 .. Size[r] - 1 /\ offset + 0 = offset
  BY ConstantsTyped DEF Whole
<1>2. pg[offset] = <<r, 0>>
  BY <1>1 DEF Whole
<1> QED
  BY <1>1, <1>2, ConstantsTyped DEF ReadRecord, Whole

(* A record that can be read is whole.                                     *)
LEMMA ReadNotGarbage ==
  ASSUME NEW pg, NEW offset, ReadRecord(pg, offset) # Garbage
  PROVE  Whole(pg, offset, ReadRecord(pg, offset))
  BY DEF ReadRecord, Whole

(* The layout, cell by cell.                                               *)
LaidOut(pg) ==
  /\ DirCount(pg) \in Nat /\ FreeSpace(pg) \in Nat /\ Top(pg) <= PageSize
  /\ \A i \in LiveSlots(pg) :
       /\ Whole(pg, Dir(pg, i), RecordOf(pg, i))
       /\ Top(pg) <= Dir(pg, i)
       /\ Dir(pg, i) + Size[RecordOf(pg, i)] <= PageSize
  /\ \A i, j \in LiveSlots(pg) :
       i # j => \/ Dir(pg, i) + Size[RecordOf(pg, i)] <= Dir(pg, j)
                \/ Dir(pg, j) + Size[RecordOf(pg, j)] <= Dir(pg, i)

LEMMA PageNumbersTyped ==
  ASSUME NEW pg \in Page
  PROVE  /\ DirCount(pg) \in Int /\ FreeSpace(pg) \in Int
         /\ \A c \in Cells : pg[c][2] \in Int /\ pg[c][1] \in Records \cup {Word}
  BY ConstantsTyped DEF Page, DirCount, FreeSpace

(* The two ways to say that intervals are apart.                           *)
LEMMA IntervalsApart ==
  ASSUME NEW a \in Int, NEW b \in Int, NEW m \in Nat, NEW n \in Nat, m >= 1, n >= 1
  PROVE  {a + k : k \in 0 .. m - 1} \cap {b + k : k \in 0 .. n - 1} = {} <=> (a + m <= b \/ b + n <= a)
<1> DEFINE A == {a + k : k \in 0 .. m - 1}
           B == {b + k : k \in 0 .. n - 1}
<1>1. \A x : x \in A <=> x \in Int /\ a <= x /\ x < a + m
  <2>1. ASSUME NEW x \in Int, a <= x, x < a + m PROVE x \in A
    <3>1. x - a \in 0 .. m - 1 /\ a + (x - a) = x
      BY <2>1
    <3> QED
      BY <3>1
  <2> QED
    BY <2>1
<1>2. \A x : x \in B <=> x \in Int /\ b <= x /\ x < b + n
  <2>1. ASSUME NEW x \in Int, b <= x, x < b + n PROVE x \in B
    <3>1. x - b \in 0 .. n - 1 /\ b + (x - b) = x
      BY <2>1
    <3> QED
      BY <3>1
  <2> QED
    BY <2>1
<1> HIDE DEF A, B
<1>3. A \cap B = {} => (a + m <= b \/ b + n <= a)
  <2>1. SUFFICES ASSUME ~ (a + m <= b), ~ (b + n <= a) PROVE A \cap B # {}
    OBVIOUS
  <2>2. a <= b => b \in A /\ b \in B
    BY <1>1, <1>2, <2>1
  <2>3. b <= a => a \in A /\ a \in B
    BY <1>1, <1>2, <2>1
  <2> QED
    BY <2>2, <2>3
<1>4. (a + m <= b \/ b + n <= a) => A \cap B = {}
  BY <1>1, <1>2
<1> QED
  BY <1>3, <1>4 DEF A, B

(* The layout in terms of cells, which the provers find easier than that of*)
(* extents.                                                                *)
LEMMA LaidIsLaidOut ==
  ASSUME NEW pg \in Page
  PROVE  Laid(pg) <=> LaidOut(pg)
<1>1. /\ DirCount(pg) \in Int /\ FreeSpace(pg) \in Int /\ PageSize \in Nat /\ PageSize > 3
      /\ \A c \in Cells : pg[c][2] \in Int
  BY PageNumbersTyped, ConstantsTyped
<1>2. ASSUME DirCount(pg) >= 0, FreeSpace(pg) >= 0, Top(pg) <= PageSize,
             NEW i \in LiveSlots(pg)
      PROVE  Dir(pg, i) \in Int /\ Dir(pg, i) > 0
  BY <1>1, <1>2, ConstantsTyped DEF LiveSlots, Slots, Dir, Top
<1>3. ASSUME DirCount(pg) >= 0, FreeSpace(pg) >= 0, Top(pg) <= PageSize,
             NEW i \in LiveSlots(pg), Whole(pg, Dir(pg, i), RecordOf(pg, i))
      PROVE  Extent(pg, i) \subseteq Top(pg) .. PageSize - 1
               <=> Top(pg) <= Dir(pg, i) /\ Dir(pg, i) + Size[RecordOf(pg, i)] <= PageSize
  <2> DEFINE s == Size[RecordOf(pg, i)]
             d == Dir(pg, i)
  <2>1. s \in Nat /\ s >= 1 /\ d \in Int /\ Top(pg) \in Int
    BY <1>1, <1>2, <1>3, ConstantsTyped DEF Whole, Top
  <2>2. Extent(pg, i) = {d + k : k \in 0 .. s - 1}
    BY DEF Extent, RecordOf
  <2> HIDE DEF s, d
  <2>3. 0 \in 0 .. s - 1 /\ s - 1 \in 0 .. s - 1
    BY <2>1
  <2>4. {d + k : k \in 0 .. s - 1} \subseteq Top(pg) .. PageSize - 1 => Top(pg) <= d /\ d + s <= PageSize
    <3>1. d + 0 \in {d + k : k \in 0 .. s - 1} /\ d + (s - 1) \in {d + k : k \in 0 .. s - 1}
      BY <2>3
    <3> QED
      BY <1>1, <2>1, <3>1
  <2>5. Top(pg) <= d /\ d + s <= PageSize => {d + k : k \in 0 .. s - 1} \subseteq Top(pg) .. PageSize - 1
    BY <1>1, <2>1
  <2> QED
    BY <2>2, <2>4, <2>5 DEF d, s
<1>4. ASSUME DirCount(pg) >= 0, FreeSpace(pg) >= 0, Top(pg) <= PageSize,
             NEW i \in LiveSlots(pg), Whole(pg, Dir(pg, i), RecordOf(pg, i)),
             NEW j \in LiveSlots(pg), Whole(pg, Dir(pg, j), RecordOf(pg, j))
      PROVE  Extent(pg, i) \cap Extent(pg, j) = {}
               <=> \/ Dir(pg, i) + Size[RecordOf(pg, i)] <= Dir(pg, j)
                   \/ Dir(pg, j) + Size[RecordOf(pg, j)] <= Dir(pg, i)
  <2>1. /\ Size[RecordOf(pg, i)] \in Nat /\ Size[RecordOf(pg, i)] >= 1 /\ Dir(pg, i) \in Int
        /\ Size[RecordOf(pg, j)] \in Nat /\ Size[RecordOf(pg, j)] >= 1 /\ Dir(pg, j) \in Int
    BY <1>2, <1>4, ConstantsTyped DEF Whole
  <2>2. /\ Extent(pg, i) = {Dir(pg, i) + k : k \in 0 .. Size[RecordOf(pg, i)] - 1}
        /\ Extent(pg, j) = {Dir(pg, j) + k : k \in 0 .. Size[RecordOf(pg, j)] - 1}
    BY DEF Extent, RecordOf
  <2> QED
    BY <2>1, <2>2, IntervalsApart
<1>5. Laid(pg) => LaidOut(pg)
  <2> SUFFICES ASSUME Laid(pg) PROVE LaidOut(pg)
    OBVIOUS
  <2>1. DirCount(pg) >= 0 /\ FreeSpace(pg) >= 0 /\ Top(pg) <= PageSize
    BY DEF Laid, Top
  <2>2. ASSUME NEW i \in LiveSlots(pg)
        PROVE  /\ Whole(pg, Dir(pg, i), RecordOf(pg, i))
               /\ Extent(pg, i) \subseteq Top(pg) .. PageSize - 1
               /\ \A j \in LiveSlots(pg) \ {i} : Extent(pg, i) \cap Extent(pg, j) = {}
    BY ReadNotGarbage DEF Laid, Top, RecordOf
  <2> QED
    BY <1>1, <1>3, <1>4, <2>1, <2>2 DEF LaidOut
<1>6. LaidOut(pg) => Laid(pg)
  <2> SUFFICES ASSUME LaidOut(pg) PROVE Laid(pg)
    OBVIOUS
  <2>1. DirCount(pg) >= 0 /\ FreeSpace(pg) >= 0 /\ Top(pg) <= PageSize
    BY DEF LaidOut
  <2>2. ASSUME NEW i \in LiveSlots(pg)
        PROVE  /\ ReadRecord(pg, Dir(pg, i)) # Garbage
               /\ Extent(pg, i) \subseteq Top(pg) .. PageSize - 1
               /\ \A j \in LiveSlots(pg) \ {i} : Extent(pg, i) \cap Extent(pg, j) = {}
    <3>1. \A j \in LiveSlots(pg) : Whole(pg, Dir(pg, j), RecordOf(pg, j))
      BY DEF LaidOut
    <3>2. ReadRecord(pg, Dir(pg, i)) # Garbage
      BY <1>2, <2>1, <3>1, ReadWhole
    <3>3. Extent(pg, i) \subseteq Top(pg) .. PageSize - 1
      BY <1>3, <2>1, <3>1 DEF LaidOut
    <3>4. \A j \in LiveSlots(pg) \ {i} : Extent(pg, i) \cap Extent(pg, j) = {}
      BY <1>4, <2>1, <3>1 DEF LaidOut
    <3> QED
      BY <3>2, <3>3, <3>4
  <2> QED
    BY <2>1, <2>2 DEF Laid, Top
<1> QED
  BY <1>5, <1>6

(* What is proved of a page: its shape, its layout, and that no slot of    *)
(* its directory is zero, which vacuum would take for a record.            *)
PageOK(pg) == pg \in Page /\ LaidOut(pg) /\ NoZeroSlot(pg)

(* What the layout gives of the counters, the slots and their records.     *)
LEMMA PageFacts ==
  ASSUME NEW pg, PageOK(pg)
  PROVE  /\ DirCount(pg) \in Nat /\ FreeSpace(pg) \in Nat
         /\ Top(pg) = 2 + DirCount(pg) + FreeSpace(pg) /\ Top(pg) <= PageSize
         /\ Slots(pg) = 0 .. DirCount(pg) - 1 /\ Slots(pg) \subseteq 0 .. MaxSlots - 1
         /\ \A i \in Slots(pg) : 2 + i \in Cells /\ Dir(pg, i) = pg[2 + i][2] /\ Dir(pg, i) \in Int
         /\ \A i \in LiveSlots(pg) : RecordOf(pg, i) \in Records
<1>1. DirCount(pg) \in Nat /\ FreeSpace(pg) \in Nat /\ Top(pg) <= PageSize
  BY DEF PageOK, LaidOut
<1>2. \A c \in Cells : pg[c][2] \in Int
  BY PageNumbersTyped DEF PageOK
<1>3. \A i \in LiveSlots(pg) : RecordOf(pg, i) \in Records
  BY DEF PageOK, LaidOut, Whole
<1>4. Top(pg) = 2 + DirCount(pg) + FreeSpace(pg) /\ Slots(pg) = 0 .. DirCount(pg) - 1
  BY DEF Top, Slots
<1>5. \A i \in Slots(pg) : 2 + i \in Cells /\ Dir(pg, i) = pg[2 + i][2] /\ Dir(pg, i) \in Int
  BY <1>1, <1>2, <1>4, ConstantsTyped DEF Dir
<1>6. Slots(pg) \subseteq 0 .. MaxSlots - 1
  BY <1>1, <1>4, ConstantsTyped DEF MaxSlots
<1> QED
  BY <1>1, <1>3, <1>4, <1>5, <1>6

LEMMA ZeroPageOK == PageOK(ZeroPage)
<1>1. \A c \in Cells : ZeroPage[c] = <<Word, 0>>
  BY DEF ZeroPage, Int32
<1>2. ZeroPage \in Page
  <2>1. <<Word, 0>> \in (Records \cup {Word}) \X Int
    OBVIOUS
  <2> QED
    BY <2>1 DEF ZeroPage, Page, Int32
<1>3. DirCount(ZeroPage) = 0 /\ FreeSpace(ZeroPage) = 0
  <2>1. 0 \in Cells /\ 1 \in Cells /\ <<Word, 0>>[2] = 0
    BY ConstantsTyped
  <2> QED
    BY <1>1, <2>1 DEF DirCount, FreeSpace
<1>4. Slots(ZeroPage) = {} /\ LiveSlots(ZeroPage) = {}
  BY <1>3 DEF Slots, LiveSlots
<1> QED
  BY <1>2, <1>3, <1>4, ConstantsTyped DEF PageOK, LaidOut, NoZeroSlot, Top

(* The constructor keeps what is there, and does nothing the second time.  *)
LEMMA ConstructedOK ==
  ASSUME NEW pg, PageOK(pg)
  PROVE  /\ PageOK(Constructed(pg))
         /\ LiveSlots(Constructed(pg)) = LiveSlots(pg)
         /\ \A i \in LiveSlots(pg) : RecordOf(Constructed(pg), i) = RecordOf(pg, i)
         /\ Constructed(Constructed(pg)) = Constructed(pg)
<1>1. CASE ~ (DirCount(pg) = 0 /\ FreeSpace(pg) = 0)
  <2>1. Constructed(pg) = pg
    BY <1>1 DEF Constructed
  <2> QED
    BY <2>1
<1>2. CASE DirCount(pg) = 0 /\ FreeSpace(pg) = 0
  <2> DEFINE q == [pg EXCEPT ![1] = Int32(PageSize - 2)]
  <2>1. Constructed(pg) = q
    BY <1>2 DEF Constructed
  <2>2. pg \in Page
    BY DEF PageOK
  <2>3. q \in Page
    BY <2>2, ConstantsTyped DEF Page, Int32
  <2>4. DirCount(q) = 0 /\ FreeSpace(q) = PageSize - 2
    BY <1>2, <2>2, ConstantsTyped DEF Page, Int32, DirCount, FreeSpace
  <2> HIDE DEF q
  <2>5. Slots(q) = {} /\ LiveSlots(q) = {} /\ LiveSlots(pg) = {}
    BY <1>2, <2>4 DEF Slots, LiveSlots
  <2>6. PageOK(q)
    BY <2>3, <2>4, <2>5, ConstantsTyped DEF PageOK, LaidOut, NoZeroSlot, Top
  <2>7. Constructed(q) = q
    BY <2>4, ConstantsTyped DEF Constructed
  <2> QED
    BY <2>1, <2>5, <2>6, <2>7
<1> QED
  BY <1>1, <1>2

(* delete_record keeps the layout and every other record.                  *)
LEMMA DeletedOK ==
  ASSUME NEW pg, PageOK(pg), NEW i \in Slots(pg)
  PROVE  /\ PageOK(Deleted(pg, i))
         /\ LiveSlots(Deleted(pg, i)) = LiveSlots(pg) \ {i}
         /\ \A j \in LiveSlots(pg) \ {i} : RecordOf(Deleted(pg, i), j) = RecordOf(pg, j)
<1> DEFINE q == Deleted(pg, i)
<1>1. /\ pg \in Page /\ i \in Slots(pg) /\ 2 + i \in Cells /\ i \in Nat
      /\ DirCount(pg) \in Nat /\ FreeSpace(pg) \in Nat /\ Top(pg) \in Nat /\ i < DirCount(pg)
      /\ Top(pg) <= PageSize /\ 2 + i < Top(pg)
  BY PageFacts DEF PageOK
<1>2. q \in Page
  <2>1. <<Word, -1>> \in (Records \cup {Word}) \X Int
    OBVIOUS
  <2> QED
    BY <1>1, <2>1 DEF Page, Int32, Deleted
<1>3. \A c \in Cells : q[c] = IF c = 2 + i THEN <<Word, -1>> ELSE pg[c]
  BY <1>1 DEF Page, Int32, Deleted
<1> HIDE DEF q
<1>4. DirCount(q) = DirCount(pg) /\ FreeSpace(q) = FreeSpace(pg) /\ Slots(q) = Slots(pg) /\ Top(q) = Top(pg)
  <2>1. 0 \in Cells /\ 1 \in Cells /\ 0 # 2 + i /\ 1 # 2 + i
    BY <1>1, ConstantsTyped
  <2>2. q[0] = pg[0] /\ q[1] = pg[1]
    BY <1>3, <2>1
  <2> QED
    BY <2>2 DEF DirCount, FreeSpace, Slots, Top
<1>5. \A j \in Slots(pg) : Dir(q, j) = IF j = i THEN -1 ELSE Dir(pg, j)
  BY <1>1, <1>3, PageFacts DEF Dir
<1>6. LiveSlots(q) = LiveSlots(pg) \ {i}
  BY <1>4, <1>5, PageFacts DEF LiveSlots
<1>7. ASSUME NEW j \in LiveSlots(pg) \ {i}
      PROVE  Whole(q, Dir(q, j), RecordOf(pg, j)) /\ RecordOf(q, j) = RecordOf(pg, j) /\ Dir(q, j) = Dir(pg, j)
  <2>1. Whole(pg, Dir(pg, j), RecordOf(pg, j)) /\ Top(pg) <= Dir(pg, j) /\ Dir(pg, j) \in Int
    BY PageFacts DEF PageOK, LaidOut, LiveSlots
  <2>2. Dir(q, j) = Dir(pg, j)
    BY <1>5 DEF LiveSlots
  <2>3. ASSUME NEW k \in 0 .. Size[RecordOf(pg, j)] - 1
        PROVE  Dir(pg, j) + k # 2 + i
    BY <1>1, <2>1, ConstantsTyped DEF Whole
  <2>4. Whole(q, Dir(q, j), RecordOf(pg, j))
    BY <1>3, <2>1, <2>2, <2>3 DEF Whole
  <2> QED
    BY <2>1, <2>2, <2>4, ReadWhole DEF RecordOf
<1>8. LaidOut(q)
  BY <1>1, <1>4, <1>6, <1>7 DEF PageOK, LaidOut
<1>9. NoZeroSlot(q)
  BY <1>4, <1>5 DEF PageOK, NoZeroSlot
<1> QED
  BY <1>2, <1>6, <1>7, <1>8, <1>9 DEF PageOK, q

(* The slot an insert takes: of a deleted record, or behind all others.    *)
LEMMA SlotForFree ==
  ASSUME NEW pg, PageOK(pg)
  PROVE  /\ SlotFor(pg) \in 0 .. DirCount(pg) /\ SlotFor(pg) \notin LiveSlots(pg)
         /\ SlotFor(pg) < DirCount(pg) => SlotFor(pg) \in Slots(pg) /\ Dir(pg, SlotFor(pg)) <= 0
<1> DEFINE T == {i \in 0 .. DirCount(pg) : i < DirCount(pg) => Dir(pg, i) <= 0}
<1>1. DirCount(pg) \in Nat /\ \A i \in 0 .. DirCount(pg) - 1 : Dir(pg, i) \in Int
  BY PageFacts
<1>2. DirCount(pg) \in T /\ T \subseteq Nat
  BY <1>1
<1>3. PICK least \in T : \A y \in T : least <= y
  BY <1>2, LeastExists
<1>4. ASSUME NEW j \in 0 .. least - 1 PROVE Dir(pg, j) > 0
  <2>1. j \notin T /\ j \in 0 .. DirCount(pg) /\ j < DirCount(pg)
    BY <1>1, <1>3
  <2> QED
    BY <1>1, <2>1
<1>5. /\ SlotFor(pg) \in 0 .. DirCount(pg)
      /\ SlotFor(pg) < DirCount(pg) => Dir(pg, SlotFor(pg)) <= 0
  BY <1>3, <1>4 DEF SlotFor
<1>6. SlotFor(pg) < DirCount(pg) => SlotFor(pg) \in Slots(pg)
  BY <1>1, <1>5 DEF Slots
<1>7. SlotFor(pg) \notin LiveSlots(pg)
  BY <1>1, <1>5 DEF LiveSlots, Slots
<1> QED
  BY <1>5, <1>6, <1>7

(* try_insert_record of a record that fits: it is there, in a free slot,   *)
(* and every other record is where it was.                                 *)
LEMMA InsertedOK ==
  ASSUME NEW pg, PageOK(pg), NEW r \in Records, Fits(pg, r)
  PROVE  /\ PageOK(Inserted(pg, r))
         /\ SlotFor(pg) \in 0 .. MaxSlots - 1 /\ SlotFor(pg) \notin LiveSlots(pg)
         /\ LiveSlots(Inserted(pg, r)) = LiveSlots(pg) \cup {SlotFor(pg)}
         /\ RecordOf(Inserted(pg, r), SlotFor(pg)) = r
         /\ \A j \in LiveSlots(pg) : RecordOf(Inserted(pg, r), j) = RecordOf(pg, j)
<1> DEFINE s == SlotFor(pg)
           count == IF s < DirCount(pg) THEN DirCount(pg) ELSE s + 1
           free == FreeSpace(pg) - Needed(pg, r)
           offset == 2 + count + free
           h == [pg EXCEPT ![0] = Int32(count), ![1] = Int32(free), ![2 + s] = Int32(offset)]
           q == Inserted(pg, r)
<1>1. q = WriteRecord(h, offset, r)
  BY DEF Inserted
<1>2. /\ pg \in Page /\ DirCount(pg) \in Nat /\ FreeSpace(pg) \in Nat
      /\ Top(pg) = 2 + DirCount(pg) + FreeSpace(pg) /\ Top(pg) <= PageSize
      /\ s \in 0 .. DirCount(pg) /\ s \notin LiveSlots(pg)
      /\ s < DirCount(pg) => s \in Slots(pg)
  BY PageFacts, SlotForFree DEF PageOK
<1>3. Size[r] \in Nat /\ Size[r] >= 1 /\ PageSize \in Nat /\ PageSize > 3
  BY ConstantsTyped
<1>4. /\ count \in Nat /\ s \in Nat /\ s < count /\ DirCount(pg) <= count
      /\ s >= DirCount(pg) => count = DirCount(pg) + 1 /\ s = DirCount(pg)
      /\ s < DirCount(pg) => count = DirCount(pg)
      /\ free \in Nat /\ offset \in Nat /\ offset = 2 + count + free /\ offset + Size[r] = Top(pg)
  <2>1. CASE s < DirCount(pg)
    BY <1>2, <1>3, <2>1 DEF Fits, Needed
  <2>2. CASE ~ (s < DirCount(pg))
    BY <1>2, <1>3, <2>2 DEF Fits, Needed
  <2> QED
    BY <2>1, <2>2
<1> HIDE DEF s, count, free, offset
<1>5. 0 \in Cells /\ 1 \in Cells /\ 2 + s \in Cells /\ 2 + s < offset /\ Cells = 0 .. PageSize - 1
  BY <1>2, <1>3, <1>4, ConstantsTyped
<1>6. \A c \in Cells : h[c] = CASE c = 2 + s -> Int32(offset) [] c = 1 -> Int32(free) [] c = 0 -> Int32(count) [] OTHER -> pg[c]
  <2> DEFINE A == [pg EXCEPT ![0] = Int32(count)]
             B == [A EXCEPT ![1] = Int32(free)]
  <2>1. 2 + s # 0 /\ 2 + s # 1
    BY <1>4
  <2>2. \A c \in Cells : A[c] = IF c = 0 THEN Int32(count) ELSE pg[c]
    BY <1>2 DEF Page
  <2>3. \A c \in Cells : B[c] = IF c = 1 THEN Int32(free) ELSE A[c]
    BY <1>2 DEF Page
  <2>4. \A c \in Cells : h[c] = IF c = 2 + s THEN Int32(offset) ELSE B[c]
    BY <1>2 DEF Page
  <2> HIDE DEF A, B, h
  <2> QED
    BY <2>1, <2>2, <2>3, <2>4
<1>7. \A c \in Cells : q[c] = IF c - offset \in 0 .. Size[r] - 1 THEN <<r, c - offset>> ELSE h[c]
  BY <1>1 DEF WriteRecord
<1>20. q = [c \in Cells |-> q[c]]
  BY <1>1 DEF WriteRecord
<1> HIDE DEF h, q
<1>8. \A c \in Cells : c < offset => q[c] = h[c]
  <2> SUFFICES ASSUME NEW c \in Cells, c < offset PROVE q[c] = h[c]
    OBVIOUS
  <2>1. c - offset \notin 0 .. Size[r] - 1
    BY <1>3, <1>4, <1>5
  <2> QED
    BY <1>7, <2>1
<1>9. \A c \in Cells : Top(pg) <= c => q[c] = pg[c]
  <2> SUFFICES ASSUME NEW c \in Cells, Top(pg) <= c PROVE q[c] = pg[c]
    OBVIOUS
  <2>1. c # 2 + s /\ c # 1 /\ c # 0 /\ c - offset \notin 0 .. Size[r] - 1
    BY <1>2, <1>3, <1>4, <1>5
  <2> QED
    BY <1>6, <1>7, <2>1
<1>10. q \in Page
  <2>1. \A n \in Int : \A x \in Records \cup {Word} : <<x, n>> \in (Records \cup {Word}) \X Int
    OBVIOUS
  <2>2. Int32(offset) \in (Records \cup {Word}) \X Int /\ Int32(free) \in (Records \cup {Word}) \X Int
        /\ Int32(count) \in (Records \cup {Word}) \X Int
    BY <1>4, <2>1 DEF Int32
  <2>3. \A c \in Cells : h[c] \in (Records \cup {Word}) \X Int
    BY <1>2, <1>6, <2>2 DEF Page
  <2>4. \A c \in Cells : c - offset \in Int
    BY <1>4, <1>5
  <2>5. ASSUME NEW c \in Cells PROVE q[c] \in (Records \cup {Word}) \X Int
    <3>1. CASE c - offset \in 0 .. Size[r] - 1
      <4>1. q[c] = <<r, c - offset>>
        BY <1>7, <3>1
      <4> QED
        BY <2>1, <2>4, <4>1
    <3>2. CASE c - offset \notin 0 .. Size[r] - 1
      <4>1. q[c] = h[c]
        BY <1>7, <3>2
      <4> QED
        BY <2>3, <4>1
    <3> QED
      BY <3>1, <3>2
  <2> QED
    BY <1>20, <2>5 DEF Page
<1>11. DirCount(q) = count /\ FreeSpace(q) = free /\ Top(q) = offset
  <2>1. q[0] = Int32(count) /\ q[1] = Int32(free)
    BY <1>4, <1>5, <1>6, <1>8
  <2> QED
    BY <1>4, <2>1 DEF DirCount, FreeSpace, Top, Int32
<1>12. \A j \in Slots(pg) \cup {s} : Dir(q, j) = IF j = s THEN offset ELSE Dir(pg, j)
  <2> SUFFICES ASSUME NEW j \in Slots(pg) \cup {s} PROVE Dir(q, j) = IF j = s THEN offset ELSE Dir(pg, j)
    OBVIOUS
  <2>1. j \in 0 .. count - 1
    BY <1>2, <1>4 DEF Slots
  <2>2. 2 + j \in Cells /\ 2 + j < offset /\ 2 + j # 1 /\ 2 + j # 0 /\ (2 + j = 2 + s <=> j = s)
    BY <1>2, <1>3, <1>4, <1>5, <2>1
  <2>3. q[2 + j] = IF j = s THEN Int32(offset) ELSE pg[2 + j]
    BY <1>6, <1>8, <2>2
  <2> QED
    BY <2>3 DEF Dir, Int32
<1>13. Slots(q) = Slots(pg) \cup {s}
  BY <1>2, <1>4, <1>11 DEF Slots
<1>14. LiveSlots(q) = LiveSlots(pg) \cup {s}
  <2>1. offset > 0
    BY <1>4
  <2> QED
    BY <1>2, <1>12, <1>13, <2>1 DEF LiveSlots
<1>15. ASSUME NEW j \in LiveSlots(pg)
       PROVE  /\ Dir(q, j) = Dir(pg, j) /\ RecordOf(q, j) = RecordOf(pg, j)
              /\ Whole(q, Dir(q, j), RecordOf(q, j))
              /\ Top(pg) <= Dir(q, j) /\ Dir(q, j) + Size[RecordOf(q, j)] <= PageSize
  <2>1. /\ Whole(pg, Dir(pg, j), RecordOf(pg, j)) /\ Top(pg) <= Dir(pg, j) /\ Dir(pg, j) \in Int
        /\ Dir(pg, j) + Size[RecordOf(pg, j)] <= PageSize
    BY PageFacts DEF PageOK, LaidOut, LiveSlots
  <2>2. Dir(q, j) = Dir(pg, j)
    BY <1>2, <1>12 DEF LiveSlots
  <2>3. ASSUME NEW k \in 0 .. Size[RecordOf(pg, j)] - 1
        PROVE  Top(pg) <= Dir(pg, j) + k
    BY <1>2, <2>1, ConstantsTyped DEF Whole
  <2>4. Whole(q, Dir(q, j), RecordOf(pg, j))
    BY <1>9, <2>1, <2>2, <2>3 DEF Whole
  <2>5. RecordOf(q, j) = RecordOf(pg, j)
    BY <2>1, <2>2, <2>4, ReadWhole DEF RecordOf
  <2> QED
    BY <2>1, <2>2, <2>4, <2>5
<1>16. Dir(q, s) = offset /\ Whole(q, offset, r) /\ RecordOf(q, s) = r
  <2>1. Dir(q, s) = offset
    BY <1>12
  <2>2. ASSUME NEW k \in 0 .. Size[r] - 1
        PROVE  offset + k \in Cells /\ q[offset + k] = <<r, k>>
    <3>1. offset + k \in Cells /\ (offset + k) - offset = k
      BY <1>2, <1>3, <1>4, <1>5
    <3> QED
      BY <1>7, <3>1
  <2>3. Whole(q, offset, r)
    BY <2>2 DEF Whole
  <2> QED
    BY <1>4, <2>1, <2>3, ReadWhole DEF RecordOf
<1>17. LaidOut(q)
  <2>1. ASSUME NEW j \in LiveSlots(q)
        PROVE  /\ Whole(q, Dir(q, j), RecordOf(q, j))
               /\ Top(q) <= Dir(q, j)
               /\ Dir(q, j) + Size[RecordOf(q, j)] <= PageSize
    <3>1. CASE j = s
      BY <1>2, <1>3, <1>4, <1>11, <1>16, <3>1
    <3>2. CASE j \in LiveSlots(pg)
      <4>1. Dir(q, j) \in Int
        BY <1>15, <3>2, PageFacts DEF LiveSlots
      <4> QED
        BY <1>2, <1>3, <1>4, <1>11, <1>15, <3>2, <4>1
    <3> QED
      BY <1>14, <3>1, <3>2
  <2>2. ASSUME NEW i \in LiveSlots(q), NEW j \in LiveSlots(q), i # j
        PROVE  \/ Dir(q, i) + Size[RecordOf(q, i)] <= Dir(q, j)
               \/ Dir(q, j) + Size[RecordOf(q, j)] <= Dir(q, i)
    <3>1. CASE i = s
      BY <1>4, <1>14, <1>15, <1>16, <2>2, <3>1
    <3>2. CASE j = s
      BY <1>4, <1>14, <1>15, <1>16, <2>2, <3>2
    <3>3. CASE i # s /\ j # s
      BY <1>14, <1>15, <2>2, <3>3 DEF PageOK, LaidOut
    <3> QED
      BY <3>1, <3>2, <3>3
  <2>3. Top(q) <= PageSize
    BY <1>2, <1>3, <1>4, <1>11
  <2> QED
    BY <1>4, <1>11, <2>1, <2>2, <2>3 DEF LaidOut
<1>18. NoZeroSlot(q)
  BY <1>4, <1>12, <1>13 DEF PageOK, NoZeroSlot
<1>19. s \in 0 .. MaxSlots - 1
  BY <1>2, <1>3, <1>4 DEF MaxSlots
<1> QED
  BY <1>2, <1>10, <1>14, <1>15, <1>16, <1>17, <1>18, <1>19 DEF PageOK, q, s

-----------------------------------------------------------------------------
(***************************************************************************)
(* vacuum.  Its loop is a recursive function; that there is one with the   *)
(* equation it is declared by is shown first.                              *)
(***************************************************************************)
VacuumStart == [count |-> 0, free |-> PageSize - 2, buf |-> ZeroPage]

IsVacuumLoop(f, pg, n) ==
  f = [i \in 0 .. n |-> IF i = 0 THEN VacuumStart ELSE VacuumStep(pg, f[i - 1], i - 1)]

VacuumLoop(pg) ==
  CHOOSE f : f = [i \in 0 .. DirCount(pg) |-> IF i = 0 THEN VacuumStart ELSE VacuumStep(pg, f[i - 1], i - 1)]

(* The loop of vacuum is a function that is defined for every slot.        *)
LEMMA VacuumLoopExists ==
  ASSUME NEW pg, DirCount(pg) \in Nat
  PROVE  IsVacuumLoop(VacuumLoop(pg), pg, DirCount(pg))
<1> DEFINE S == {n \in Nat : \E f : IsVacuumLoop(f, pg, n)}
<1>1. 0 \in S
  <2>1. IsVacuumLoop([i \in 0 .. 0 |-> VacuumStart], pg, 0)
    BY DEF IsVacuumLoop
  <2> QED
    BY <2>1
<1>2. ASSUME NEW n \in Nat, n \in S PROVE n + 1 \in S
  <2>1. PICK f : IsVacuumLoop(f, pg, n)
    BY <1>2
  <2> DEFINE g == [i \in 0 .. n + 1 |-> IF i = n + 1 THEN VacuumStep(pg, f[n], n) ELSE f[i]]
  <2>2. \A i \in 0 .. n : g[i] = f[i]
    OBVIOUS
  <2>3. \A i \in 0 .. n : f[i] = IF i = 0 THEN VacuumStart ELSE VacuumStep(pg, f[i - 1], i - 1)
    BY <2>1 DEF IsVacuumLoop
  <2>4. ASSUME NEW i \in 0 .. n + 1
        PROVE  g[i] = IF i = 0 THEN VacuumStart ELSE VacuumStep(pg, g[i - 1], i - 1)
    <3>1. CASE i = n + 1
      <4>1. g[i] = VacuumStep(pg, f[n], n) /\ i - 1 = n /\ i # 0 /\ n \in 0 .. n
        BY <3>1
      <4> QED
        BY <2>2, <4>1
    <3>2. CASE i # n + 1
      <4>1. i \in 0 .. n /\ (i # 0 => i - 1 \in 0 .. n)
        BY <3>2
      <4> HIDE DEF g
      <4> QED
        BY <2>2, <2>3, <4>1
    <3> QED
      BY <3>1, <3>2
  <2>5. g = [i \in 0 .. n + 1 |-> g[i]]
    OBVIOUS
  <2> HIDE DEF g
  <2>6. IsVacuumLoop(g, pg, n + 1)
    BY <2>4, <2>5 DEF IsVacuumLoop
  <2> QED
    BY <2>6
<1>3. Nat \subseteq S
  <2> HIDE DEF S
  <2> QED
    BY <1>1, <1>2, SetInduction
<1>4. \E f : IsVacuumLoop(f, pg, DirCount(pg))
  BY <1>3
<1> QED
  BY <1>4 DEF IsVacuumLoop, VacuumLoop

(* vacuum is that loop, run through all slots.                             *)
LEMMA VacuumedByLoop ==
  ASSUME NEW pg, DirCount(pg) \in Nat
  PROVE  /\ VacuumLoop(pg)[0] = VacuumStart
         /\ \A i \in 0 .. DirCount(pg) - 1 : VacuumLoop(pg)[i + 1] = VacuumStep(pg, VacuumLoop(pg)[i], i)
         /\ Vacuumed(pg) = [VacuumLoop(pg)[DirCount(pg)].buf
                              EXCEPT ![0] = Int32(VacuumLoop(pg)[DirCount(pg)].count),
                                     ![1] = Int32(VacuumLoop(pg)[DirCount(pg)].free)]
<1> DEFINE f == VacuumLoop(pg)
<1>1. f = [i \in 0 .. DirCount(pg) |-> IF i = 0 THEN VacuumStart ELSE VacuumStep(pg, f[i - 1], i - 1)]
  BY VacuumLoopExists DEF IsVacuumLoop
<1>2. Vacuumed(pg) = [f[DirCount(pg)].buf EXCEPT ![0] = Int32(f[DirCount(pg)].count), ![1] = Int32(f[DirCount(pg)].free)]
  BY DEF Vacuumed, VacuumLoop, VacuumStart
<1> HIDE DEF f
<1>3. f[0] = VacuumStart
  BY <1>1
<1>4. ASSUME NEW i \in 0 .. DirCount(pg) - 1 PROVE f[i + 1] = VacuumStep(pg, f[i], i)
  <2>1. i + 1 \in 0 .. DirCount(pg) /\ i + 1 # 0 /\ (i + 1) - 1 = i
    OBVIOUS
  <2> QED
    BY <1>1, <2>1
<1> QED
  BY <1>2, <1>3, <1>4 DEF f

(* What the loop has packed so far: record after record, each in front of  *)
(* the one before.                                                         *)
PackedAt(v, k) == v.buf[2 + k][2]
PackedRecord(v, k) == ReadRecord(v.buf, PackedAt(v, k))
PackedTop(v) == 2 + v.count + v.free

Packed(v) ==
  /\ v.buf \in Page /\ v.count \in Nat /\ v.free \in Nat /\ PackedTop(v) <= PageSize
  /\ \A k \in 0 .. v.count - 1 :
       /\ Whole(v.buf, PackedAt(v, k), PackedRecord(v, k))
       /\ PackedAt(v, k) \in Int /\ PackedTop(v) <= PackedAt(v, k)
       /\ PackedAt(v, k) + Size[PackedRecord(v, k)] <= PageSize
  /\ \A k, l \in 0 .. v.count - 1 : k < l => PackedAt(v, l) + Size[PackedRecord(v, l)] <= PackedAt(v, k)

(* The empty buffer vacuum begins with is packed.                          *)
LEMMA PackedStart == Packed(VacuumStart)
<1>1. VacuumStart.buf \in Page /\ VacuumStart.count = 0 /\ VacuumStart.free = PageSize - 2
  BY ZeroPageOK DEF VacuumStart, PageOK
<1> QED
  BY <1>1, ConstantsTyped DEF Packed, PackedTop

(* One more record.                                                        *)
WithOneMore(v, r) ==
  [count |-> v.count + 1,
   free |-> v.free - (Size[r] + 1),
   buf |-> WriteRecord([v.buf EXCEPT ![2 + v.count] = Int32(2 + (v.count + 1) + (v.free - (Size[r] + 1)))],
                       2 + (v.count + 1) + (v.free - (Size[r] + 1)), r)]

(* One more record in front of the packed ones keeps them, and the buffer  *)
(* packed.                                                                 *)
LEMMA PackOneMore ==
  ASSUME NEW v, Packed(v), NEW r \in Records, Size[r] + 1 <= v.free
  PROVE  /\ Packed(WithOneMore(v, r))
         /\ \A k \in 0 .. v.count - 1 : PackedRecord(WithOneMore(v, r), k) = PackedRecord(v, k)
         /\ PackedRecord(WithOneMore(v, r), v.count) = r
<1> DEFINE w == WithOneMore(v, r)
           n == v.count
           free == v.free - (Size[r] + 1)
           offset == 2 + (n + 1) + free
           h == [v.buf EXCEPT ![2 + n] = Int32(offset)]
<1>1. w.count = n + 1 /\ w.free = free /\ w.buf = WriteRecord(h, offset, r)
  BY DEF WithOneMore
<1>2. /\ n \in Nat /\ v.free \in Nat /\ v.buf \in Page
      /\ Size[r] \in Nat /\ Size[r] >= 1 /\ PageSize \in Nat /\ Cells = 0 .. PageSize - 1
  BY ConstantsTyped DEF Packed
<1>3. /\ free \in Nat /\ offset \in Nat /\ offset + Size[r] = PackedTop(v) /\ PackedTop(v) <= PageSize
      /\ 2 + n < offset /\ PackedTop(v) \in Nat /\ PackedTop(v) = 2 + n + v.free /\ offset < PageSize
  <2>1. PackedTop(v) <= PageSize /\ PackedTop(v) = 2 + v.count + v.free
    BY DEF Packed, PackedTop
  <2>2. Size[r] + 1 <= v.free
    OBVIOUS
  <2>3. free \in Nat
    BY <1>2, <2>2
  <2>4. offset \in Nat /\ offset = 2 + (n + 1) + free /\ 2 + n < offset
    BY <1>2, <2>3
  <2>5. v.free = free + Size[r] + 1
    BY <1>2
  <2> HIDE DEF free, offset, n
  <2>6. PackedTop(v) = 2 + n + v.free
    BY <2>1 DEF n
  <2>7. PackedTop(v) \in Nat /\ PackedTop(v) <= PageSize
    BY <1>2, <2>1, <2>6
  <2>8. offset + Size[r] = PackedTop(v)
    BY <1>2, <2>3, <2>4, <2>5, <2>6
  <2>9. offset < PageSize
    BY <1>2, <2>4, <2>7, <2>8
  <2> QED
    BY <2>3, <2>4, <2>6, <2>7, <2>8, <2>9
<1>4. PackedTop(w) = offset
  BY <1>1 DEF PackedTop
<1>5. \A c \in Cells : h[c] = IF c = 2 + n THEN Int32(offset) ELSE v.buf[c]
  BY <1>2 DEF Page
<1>6. \A c \in Cells : w.buf[c] = IF c - offset \in 0 .. Size[r] - 1 THEN <<r, c - offset>> ELSE h[c]
  BY <1>1 DEF WriteRecord
<1>7. w.buf = [c \in Cells |-> w.buf[c]]
  BY <1>1 DEF WriteRecord
<1> HIDE DEF w, n, free, offset, h
<1>8. \A c \in Cells : c < offset => w.buf[c] = h[c]
  <2> SUFFICES ASSUME NEW c \in Cells, c < offset PROVE w.buf[c] = h[c]
    OBVIOUS
  <2>1. c - offset \notin 0 .. Size[r] - 1
    BY <1>2, <1>3
  <2> QED
    BY <1>6, <2>1
<1>9. \A c \in Cells : PackedTop(v) <= c => w.buf[c] = v.buf[c]
  <2> SUFFICES ASSUME NEW c \in Cells, PackedTop(v) <= c PROVE w.buf[c] = v.buf[c]
    OBVIOUS
  <2>1. c - offset \notin 0 .. Size[r] - 1 /\ c # 2 + n
    BY <1>2, <1>3
  <2> QED
    BY <1>5, <1>6, <2>1
<1>10. w.buf \in Page
  <2>1. \A m \in Int : \A x \in Records \cup {Word} : <<x, m>> \in (Records \cup {Word}) \X Int
    OBVIOUS
  <2>2. \A c \in Cells : h[c] \in (Records \cup {Word}) \X Int
    <3>1. Int32(offset) \in (Records \cup {Word}) \X Int
      BY <1>3, <2>1 DEF Int32
    <3> QED
      BY <1>2, <1>5, <3>1 DEF Page
  <2>3. ASSUME NEW c \in Cells PROVE w.buf[c] \in (Records \cup {Word}) \X Int
    <3>1. CASE c - offset \in 0 .. Size[r] - 1
      <4>1. w.buf[c] = <<r, c - offset>>
        BY <1>6, <3>1
      <4>2. c - offset \in Int
        BY <3>1
      <4> QED
        BY <2>1, <4>1, <4>2
    <3>2. CASE c - offset \notin 0 .. Size[r] - 1
      <4>1. w.buf[c] = h[c]
        BY <1>6, <3>2
      <4> QED
        BY <2>2, <4>1
    <3> QED
      BY <3>1, <3>2
  <2> QED
    BY <1>7, <2>3 DEF Page
<1>11. PackedAt(w, n) = offset /\ Whole(w.buf, offset, r) /\ PackedRecord(w, n) = r
  <2>1. 2 + n \in Cells
    BY <1>2, <1>3
  <2>2. PackedAt(w, n) = offset
    BY <1>3, <1>5, <1>8, <2>1 DEF PackedAt, Int32
  <2>3. ASSUME NEW k \in 0 .. Size[r] - 1
        PROVE  offset + k \in Cells /\ w.buf[offset + k] = <<r, k>>
    <3>1. offset + k \in Cells /\ (offset + k) - offset = k
      BY <1>2, <1>3
    <3> QED
      BY <1>6, <3>1
  <2>4. Whole(w.buf, offset, r)
    BY <2>3 DEF Whole
  <2> QED
    BY <1>3, <2>2, <2>4, ReadWhole DEF PackedRecord
<1>12. ASSUME NEW k \in 0 .. n - 1
       PROVE  /\ PackedAt(w, k) = PackedAt(v, k) /\ PackedRecord(w, k) = PackedRecord(v, k)
              /\ Whole(w.buf, PackedAt(w, k), PackedRecord(w, k))
              /\ PackedAt(v, k) \in Int /\ PackedTop(v) <= PackedAt(v, k)
              /\ PackedAt(v, k) + Size[PackedRecord(v, k)] <= PageSize
              /\ Size[PackedRecord(v, k)] \in Nat
  <2>1. /\ Whole(v.buf, PackedAt(v, k), PackedRecord(v, k))
        /\ PackedAt(v, k) \in Int /\ PackedTop(v) <= PackedAt(v, k)
        /\ PackedAt(v, k) + Size[PackedRecord(v, k)] <= PageSize
    BY DEF Packed, n
  <2>2. 2 + k \in Cells /\ 2 + k < offset /\ 2 + k # 2 + n
    BY <1>2, <1>3
  <2>3. PackedAt(w, k) = PackedAt(v, k)
    BY <1>5, <1>8, <2>2 DEF PackedAt
  <2>4. ASSUME NEW m \in 0 .. Size[PackedRecord(v, k)] - 1
        PROVE  PackedTop(v) <= PackedAt(v, k) + m
    BY <1>3, <2>1, ConstantsTyped DEF Whole
  <2>5. Whole(w.buf, PackedAt(w, k), PackedRecord(v, k))
    BY <1>9, <2>1, <2>3, <2>4 DEF Whole
  <2>6. PackedRecord(w, k) = PackedRecord(v, k)
    BY <2>1, <2>3, <2>5, ReadWhole DEF PackedRecord
  <2> QED
    BY <2>1, <2>3, <2>5, <2>6, ConstantsTyped DEF Whole
<1>13. Packed(w)
  <2>1. ASSUME NEW k \in 0 .. w.count - 1
        PROVE  /\ Whole(w.buf, PackedAt(w, k), PackedRecord(w, k))
               /\ PackedAt(w, k) \in Int /\ PackedTop(w) <= PackedAt(w, k)
               /\ PackedAt(w, k) + Size[PackedRecord(w, k)] <= PageSize
    <3>1. CASE k = n
      BY <1>2, <1>3, <1>4, <1>11, <3>1
    <3>2. CASE k # n
      <4>1. k \in 0 .. n - 1
        BY <1>1, <1>2, <3>2
      <4> QED
        BY <1>2, <1>3, <1>4, <1>12, <4>1
    <3> QED
      BY <3>1, <3>2
  <2>2. ASSUME NEW k \in 0 .. w.count - 1, NEW l \in 0 .. w.count - 1, k < l
        PROVE  PackedAt(w, l) + Size[PackedRecord(w, l)] <= PackedAt(w, k)
    <3>1. k \in 0 .. n - 1
      BY <1>1, <1>2, <2>2
    <3>2. CASE l = n
      BY <1>3, <1>11, <1>12, <3>1, <3>2
    <3>3. CASE l # n
      <4>1. l \in 0 .. n - 1
        BY <1>1, <1>2, <3>3
      <4>2. PackedAt(v, l) + Size[PackedRecord(v, l)] <= PackedAt(v, k)
        BY <2>2, <3>1, <4>1 DEF Packed, n
      <4> QED
        BY <1>12, <3>1, <4>1, <4>2
    <3> QED
      BY <3>2, <3>3
  <2>3. w.count \in Nat /\ w.free \in Nat /\ PackedTop(w) <= PageSize
    BY <1>1, <1>2, <1>3, <1>4
  <2> QED
    BY <1>10, <2>1, <2>2, <2>3 DEF Packed
<1> QED
  BY <1>11, <1>12, <1>13 DEF w, n

(* The live slots before slot i, and the cells their records take.         *)
Before(pg, i) == {j \in LiveSlots(pg) : j < i}
Taken(pg, i) == UNION {Extent(pg, j) : j \in Before(pg, i)}

(* A live slot adds one to those before it.                                *)
LEMMA BeforeCounted ==
  ASSUME NEW pg, PageOK(pg), NEW i \in Nat
  PROVE  /\ IsFiniteSet(Before(pg, i)) /\ Cardinality(Before(pg, i)) \in Nat
         /\ Cardinality(Before(pg, i)) <= i
         /\ Before(pg, 0) = {}
         /\ i \notin LiveSlots(pg) => Before(pg, i + 1) = Before(pg, i)
         /\ i \in LiveSlots(pg) =>
              /\ Before(pg, i + 1) = Before(pg, i) \cup {i}
              /\ Cardinality(Before(pg, i + 1)) = Cardinality(Before(pg, i)) + 1
<1>1. \A j \in LiveSlots(pg) : j \in Nat
  BY PageFacts DEF LiveSlots
<1>2. Before(pg, i) \subseteq 0 .. i - 1 /\ i \notin Before(pg, i)
  BY <1>1 DEF Before
<1>3. IsFiniteSet(0 .. i - 1) /\ Cardinality(0 .. i - 1) <= i
  <2>1. 0 \in Int /\ i - 1 \in Int
    OBVIOUS
  <2>2. IsFiniteSet(0 .. i - 1) /\ Cardinality(0 .. i - 1) = IF 0 > i - 1 THEN 0 ELSE (i - 1) - 0 + 1
    BY <2>1, FS_Interval
  <2> QED
    BY <2>2
<1>4. IsFiniteSet(Before(pg, i)) /\ Cardinality(Before(pg, i)) <= Cardinality(0 .. i - 1)
  BY <1>2, <1>3, FS_Subset
<1>5. Cardinality(Before(pg, i)) \in Nat /\ Cardinality(0 .. i - 1) \in Nat
  BY <1>3, <1>4, FS_CardinalityType
<1>6. Cardinality(Before(pg, i)) <= i
  BY <1>3, <1>4, <1>5
<1>7. Before(pg, 0) = {}
  BY <1>1 DEF Before
<1>8. i \notin LiveSlots(pg) => Before(pg, i + 1) = Before(pg, i)
  BY <1>1 DEF Before
<1>9. ASSUME i \in LiveSlots(pg)
      PROVE  /\ Before(pg, i + 1) = Before(pg, i) \cup {i}
             /\ Cardinality(Before(pg, i + 1)) = Cardinality(Before(pg, i)) + 1
  <2>1. Before(pg, i + 1) = Before(pg, i) \cup {i}
    <3>1. \A j \in LiveSlots(pg) : j < i + 1 <=> (j < i \/ j = i)
      BY <1>1
    <3> QED
      BY <1>9, <3>1 DEF Before
  <2> QED
    BY <1>2, <1>4, <2>1, FS_AddElement
<1> QED
  BY <1>4, <1>5, <1>6, <1>7, <1>8, <1>9

(* A live slot adds its record's cells to those taken before it, and there *)
(* are never more of them than records have on the page: what fits the page*)
(* fits the buffer.                                                        *)
LEMMA TakenCounted ==
  ASSUME NEW pg, PageOK(pg), NEW i \in Nat
  PROVE  /\ IsFiniteSet(Taken(pg, i)) /\ Cardinality(Taken(pg, i)) \in Nat
         /\ Cardinality(Taken(pg, i)) <= PageSize - Top(pg)
         /\ Cardinality(Taken(pg, 0)) = 0
         /\ i \notin LiveSlots(pg) => Taken(pg, i + 1) = Taken(pg, i)
         /\ i \in LiveSlots(pg) =>
              Cardinality(Taken(pg, i + 1)) = Cardinality(Taken(pg, i)) + Size[RecordOf(pg, i)]
<1>1. Laid(pg) /\ Top(pg) \in Nat /\ Top(pg) <= PageSize /\ PageSize \in Nat
  BY LaidIsLaidOut, PageFacts, ConstantsTyped DEF PageOK
<1>2. ASSUME NEW j \in LiveSlots(pg)
      PROVE  /\ Extent(pg, j) \subseteq Top(pg) .. PageSize - 1
             /\ \A k \in LiveSlots(pg) \ {j} : Extent(pg, j) \cap Extent(pg, k) = {}
  BY <1>1 DEF Laid, Top
<1>3. Taken(pg, i) \subseteq Top(pg) .. PageSize - 1
  BY <1>2 DEF Taken, Before
<1>4. IsFiniteSet(Top(pg) .. PageSize - 1) /\ Cardinality(Top(pg) .. PageSize - 1) = PageSize - Top(pg)
  <2>1. /\ IsFiniteSet(Top(pg) .. PageSize - 1)
        /\ Cardinality(Top(pg) .. PageSize - 1)
             = IF Top(pg) > PageSize - 1 THEN 0 ELSE (PageSize - 1) - Top(pg) + 1
    <3>1. Top(pg) \in Int /\ PageSize - 1 \in Int
      BY <1>1
    <3> QED
      BY <3>1, FS_Interval
  <2> QED
    BY <1>1, <2>1
<1>5. IsFiniteSet(Taken(pg, i)) /\ Cardinality(Taken(pg, i)) <= PageSize - Top(pg)
  BY <1>3, <1>4, FS_Subset
<1>6. Cardinality(Taken(pg, i)) \in Nat
  BY <1>5, FS_CardinalityType
<1>7. Cardinality(Taken(pg, 0)) = 0
  <2>1. Taken(pg, 0) = {}
    BY BeforeCounted DEF Taken
  <2> QED
    BY <2>1, FS_EmptySet
<1>8. i \notin LiveSlots(pg) => Taken(pg, i + 1) = Taken(pg, i)
  BY BeforeCounted DEF Taken
<1>9. ASSUME i \in LiveSlots(pg)
      PROVE  Cardinality(Taken(pg, i + 1)) = Cardinality(Taken(pg, i)) + Size[RecordOf(pg, i)]
  <2> DEFINE d == Dir(pg, i)
             s == Size[RecordOf(pg, i)]
             E == Extent(pg, i)
  <2>1. Taken(pg, i + 1) = Taken(pg, i) \cup E
    <3>1. Before(pg, i + 1) = Before(pg, i) \cup {i}
      BY <1>9, BeforeCounted
    <3> QED
      BY <3>1 DEF Taken
  <2>2. Taken(pg, i) \cap E = {}
    <3>1. \A j \in Before(pg, i) : j \in LiveSlots(pg) /\ j # i
      BY <1>9 DEF Before
    <3>2. \A j \in Before(pg, i) : Extent(pg, j) \cap E = {}
      BY <1>2, <1>9, <3>1
    <3> QED
      BY <3>2 DEF Taken
  <2>3. s \in Nat /\ s >= 1 /\ d \in Int
    BY <1>9, PageFacts, ConstantsTyped DEF LiveSlots
  <2>4. E = d .. d + s - 1
    <3>1. E = {d + k : k \in 0 .. s - 1}
      BY DEF Extent, RecordOf
    <3> HIDE DEF d, s, E
    <3>2. ASSUME NEW x \in d .. d + s - 1 PROVE x \in E
      <4>1. x - d \in 0 .. s - 1 /\ d + (x - d) = x
        BY <2>3, <3>2
      <4> QED
        BY <3>1, <4>1
    <3>3. ASSUME NEW x \in E PROVE x \in d .. d + s - 1
      BY <2>3, <3>1
    <3> QED
      BY <3>2, <3>3
  <2>5. IsFiniteSet(E) /\ Cardinality(E) = s
    <3> HIDE DEF d, s, E
    <3>1. IsFiniteSet(d .. d + s - 1) /\ Cardinality(d .. d + s - 1) = IF d > d + s - 1 THEN 0 ELSE (d + s - 1) - d + 1
      BY <2>3, FS_Interval
    <3> QED
      BY <2>3, <2>4, <3>1
  <2>6. Cardinality(Taken(pg, i) \cup E) = Cardinality(Taken(pg, i)) + Cardinality(E) - Cardinality(Taken(pg, i) \cap E)
    BY <1>5, <2>5, FS_Union
  <2>7. Cardinality(Taken(pg, i) \cap E) = 0
    BY <2>2, FS_EmptySet
  <2> HIDE DEF s, E
  <2> QED
    BY <1>6, <2>1, <2>3, <2>5, <2>6, <2>7 DEF s
<1> QED
  BY <1>5, <1>6, <1>7, <1>8, <1>9

(* The slot record i gets.                                                 *)
Rank(pg, i) == Cardinality(Before(pg, i))

(* The loop has packed the live records before slot i, in their order.     *)
PackedBefore(pg, i, v) ==
  /\ Packed(v)
  /\ v.count = Cardinality(Before(pg, i))
  /\ v.free = PageSize - 2 - v.count - Cardinality(Taken(pg, i))
  /\ \A j \in Before(pg, i) :
       Rank(pg, j) \in 0 .. v.count - 1 /\ PackedRecord(v, Rank(pg, j)) = RecordOf(pg, j)
  /\ \A k \in 0 .. v.count - 1 : \E j \in Before(pg, i) : Rank(pg, j) = k

(* One turn of the loop.                                                   *)
LEMMA VacuumStepPacks ==
  ASSUME NEW pg, PageOK(pg), NEW i \in Slots(pg), NEW v, PackedBefore(pg, i, v)
  PROVE  PackedBefore(pg, i + 1, VacuumStep(pg, v, i))
<1>1. /\ i \in Nat /\ i < DirCount(pg) /\ DirCount(pg) \in Nat /\ FreeSpace(pg) \in Nat
      /\ Top(pg) = 2 + DirCount(pg) + FreeSpace(pg) /\ Dir(pg, i) \in Int /\ Dir(pg, i) # 0
  BY PageFacts DEF PageOK, NoZeroSlot
<1>2. CASE i \notin LiveSlots(pg)
  <2>1. Dir(pg, i) < 0
    BY <1>1, <1>2 DEF LiveSlots
  <2>2. VacuumStep(pg, v, i) = v
    BY <2>1 DEF VacuumStep
  <2>3. Before(pg, i + 1) = Before(pg, i) /\ Taken(pg, i + 1) = Taken(pg, i)
    BY <1>1, <1>2, BeforeCounted, TakenCounted
  <2> QED
    BY <2>2, <2>3 DEF PackedBefore
<1>3. CASE i \in LiveSlots(pg)
  <2> DEFINE r == RecordOf(pg, i)
             n == Cardinality(Before(pg, i))
             t == Cardinality(Taken(pg, i))
             w == WithOneMore(v, r)
  <2>1. ~ (Dir(pg, i) < 0) /\ r \in Records /\ Size[r] \in Nat
    BY <1>1, <1>3, PageFacts, ConstantsTyped DEF LiveSlots
  <2>2. VacuumStep(pg, v, i) = w
    BY <2>1 DEF VacuumStep, WithOneMore, RecordOf
  <2>3. /\ Before(pg, i + 1) = Before(pg, i) \cup {i}
        /\ Cardinality(Before(pg, i + 1)) = n + 1
        /\ Cardinality(Taken(pg, i + 1)) = t + Size[r]
        /\ n \in Nat /\ t \in Nat /\ n <= i
    BY <1>1, <1>3, BeforeCounted, TakenCounted
  <2>4. t + Size[r] <= PageSize - Top(pg)
    <3>1. i + 1 \in Nat
      BY <1>1
    <3> QED
      BY <2>3, <3>1, TakenCounted
  <2>5. v.count = n /\ v.free = PageSize - 2 - n - t /\ Packed(v)
    BY DEF PackedBefore
  <2> HIDE DEF r, n, t, w
  <2>6. Size[r] + 1 <= v.free
    <3>1. PageSize \in Nat /\ n + 1 <= DirCount(pg) /\ n \in Nat /\ t \in Nat /\ Size[r] \in Nat
      BY <1>1, <2>1, <2>3, ConstantsTyped
    <3>2. t + Size[r] <= PageSize - (2 + DirCount(pg) + FreeSpace(pg))
      BY <1>1, <2>4
    <3>3. Size[r] + 1 <= PageSize - 2 - n - t
      BY <1>1, <3>1, <3>2
    <3> QED
      BY <2>5, <3>3
  <2>7. /\ Packed(w)
        /\ \A k \in 0 .. n - 1 : PackedRecord(w, k) = PackedRecord(v, k)
        /\ PackedRecord(w, n) = r
    BY <2>1, <2>5, <2>6, PackOneMore DEF w
  <2>8. w.count = n + 1 /\ w.free = PageSize - 2 - (n + 1) - (t + Size[r])
    <3>1. w.count = v.count + 1 /\ w.free = v.free - (Size[r] + 1)
      BY DEF w, WithOneMore
    <3> QED
      BY <2>1, <2>3, <2>5, <3>1, ConstantsTyped
  <2>9. Rank(pg, i) = n
    BY DEF Rank, n
  <2>10. ASSUME NEW j \in Before(pg, i + 1)
         PROVE  Rank(pg, j) \in 0 .. w.count - 1 /\ PackedRecord(w, Rank(pg, j)) = RecordOf(pg, j)
    <3>1. CASE j = i
      BY <2>3, <2>7, <2>8, <2>9, <3>1 DEF r
    <3>2. CASE j \in Before(pg, i)
      <4>1. Rank(pg, j) \in 0 .. n - 1 /\ PackedRecord(v, Rank(pg, j)) = RecordOf(pg, j)
        BY <2>5, <3>2 DEF PackedBefore
      <4> QED
        BY <2>3, <2>7, <2>8, <4>1
    <3> QED
      BY <2>3, <3>1, <3>2
  <2>11. ASSUME NEW k \in 0 .. w.count - 1
         PROVE  \E j \in Before(pg, i + 1) : Rank(pg, j) = k
    <3>1. CASE k = n
      BY <2>3, <2>9, <3>1
    <3>2. CASE k # n
      <4>1. k \in 0 .. n - 1
        BY <2>3, <2>8, <3>2
      <4>2. PICK j \in Before(pg, i) : Rank(pg, j) = k
        BY <2>5, <4>1 DEF PackedBefore
      <4> QED
        BY <2>3, <4>2
    <3> QED
      BY <3>1, <3>2
  <2> QED
    BY <2>2, <2>3, <2>7, <2>8, <2>10, <2>11 DEF PackedBefore
<1> QED
  BY <1>2, <1>3

(* All turns of the loop.                                                  *)
LEMMA VacuumLoopPacks ==
  ASSUME NEW pg, PageOK(pg)
  PROVE  PackedBefore(pg, DirCount(pg), VacuumLoop(pg)[DirCount(pg)])
<1> DEFINE f == VacuumLoop(pg)
           S == {i \in Nat : i <= DirCount(pg) => PackedBefore(pg, i, f[i])}
<1>1. DirCount(pg) \in Nat /\ Slots(pg) = 0 .. DirCount(pg) - 1
  BY PageFacts
<1>2. f[0] = VacuumStart /\ \A i \in Slots(pg) : f[i + 1] = VacuumStep(pg, f[i], i)
  BY <1>1, VacuumedByLoop
<1>3. 0 \in S
  <2>1. Before(pg, 0) = {} /\ Cardinality(Taken(pg, 0)) = 0 /\ Cardinality(Before(pg, 0)) = 0
    BY BeforeCounted, TakenCounted, FS_EmptySet
  <2>2. VacuumStart.count = 0 /\ VacuumStart.free = PageSize - 2
    BY DEF VacuumStart
  <2>3. PackedBefore(pg, 0, VacuumStart)
    BY <2>1, <2>2, PackedStart, ConstantsTyped DEF PackedBefore
  <2> QED
    BY <1>2, <2>3
<1> HIDE DEF f
<1>4. ASSUME NEW n \in Nat, n \in S PROVE n + 1 \in S
  <2> SUFFICES ASSUME n + 1 <= DirCount(pg) PROVE PackedBefore(pg, n + 1, f[n + 1])
    OBVIOUS
  <2>1. n \in Slots(pg) /\ n <= DirCount(pg)
    BY <1>1
  <2>2. PackedBefore(pg, n, f[n])
    BY <1>4, <2>1
  <2> QED
    BY <1>2, <2>1, <2>2, VacuumStepPacks
<1>5. Nat \subseteq S
  <2> HIDE DEF S
  <2> QED
    BY <1>3, <1>4, SetInduction
<1>6. DirCount(pg) \in S
  BY <1>1, <1>5
<1> QED
  BY <1>1, <1>6 DEF f

(* vacuum leaves a page with the records it had, in their order, in the    *)
(* slots from 0 on, and gives back all other space.                        *)
LEMMA VacuumedOK ==
  ASSUME NEW pg, PageOK(pg)
  PROVE  /\ PageOK(Vacuumed(pg))
         /\ LiveSlots(Vacuumed(pg)) = Slots(Vacuumed(pg))
         /\ \A j \in LiveSlots(pg) :
              /\ Rank(pg, j) \in LiveSlots(Vacuumed(pg))
              /\ RecordOf(Vacuumed(pg), Rank(pg, j)) = RecordOf(pg, j)
         /\ \A k \in LiveSlots(Vacuumed(pg)) : \E j \in LiveSlots(pg) : Rank(pg, j) = k
         /\ Reclaimed(pg, Vacuumed(pg))
<1> DEFINE v == VacuumLoop(pg)[DirCount(pg)]
           q == Vacuumed(pg)
<1>1. /\ DirCount(pg) \in Nat /\ q = [v.buf EXCEPT ![0] = Int32(v.count), ![1] = Int32(v.free)]
      /\ PackedBefore(pg, DirCount(pg), v)
  BY PageFacts, VacuumedByLoop, VacuumLoopPacks
<1> HIDE DEF v
<1>2. Packed(v) /\ v.buf \in Page /\ v.count \in Nat /\ v.free \in Nat
  BY <1>1 DEF PackedBefore, Packed
<1>3. 0 \in Cells /\ 1 \in Cells /\ PageSize \in Nat /\ Cells = 0 .. PageSize - 1
  BY ConstantsTyped
<1>4. q[0] = Int32(v.count) /\ q[1] = Int32(v.free) /\ \A c \in Cells : c >= 2 => q[c] = v.buf[c]
  BY <1>1, <1>2, <1>3 DEF Page
<1>5. q \in Page
  <2>1. Int32(v.count) \in (Records \cup {Word}) \X Int /\ Int32(v.free) \in (Records \cup {Word}) \X Int
    BY <1>2 DEF Int32
  <2> QED
    BY <1>1, <1>2, <2>1 DEF Page
<1> HIDE DEF q
<1>6. DirCount(q) = v.count /\ FreeSpace(q) = v.free /\ Slots(q) = 0 .. v.count - 1
  BY <1>4 DEF DirCount, FreeSpace, Slots, Int32
<1>7. Top(q) = PackedTop(v) /\ PackedTop(v) = 2 + v.count + v.free /\ PackedTop(v) \in Nat /\ PackedTop(v) <= PageSize
  <2>1. Top(q) = PackedTop(v) /\ PackedTop(v) = 2 + v.count + v.free
    BY <1>6 DEF Top, PackedTop
  <2> QED
    BY <1>2, <2>1 DEF Packed
<1>8. ASSUME NEW k \in 0 .. v.count - 1
      PROVE  /\ Dir(q, k) = PackedAt(v, k) /\ RecordOf(q, k) = PackedRecord(v, k)
             /\ Dir(q, k) \in Int /\ PackedTop(v) <= Dir(q, k)
             /\ Whole(q, Dir(q, k), RecordOf(q, k))
             /\ Dir(q, k) + Size[RecordOf(q, k)] <= PageSize
  <2>1. /\ Whole(v.buf, PackedAt(v, k), PackedRecord(v, k))
        /\ PackedAt(v, k) \in Int /\ PackedTop(v) <= PackedAt(v, k)
        /\ PackedAt(v, k) + Size[PackedRecord(v, k)] <= PageSize
    BY <1>2 DEF Packed
  <2>2. 2 + k \in Cells /\ 2 + k >= 2
    BY <1>2, <1>3, <1>7
  <2>3. Dir(q, k) = PackedAt(v, k)
    BY <1>4, <2>2 DEF Dir, PackedAt
  <2>4. ASSUME NEW m \in 0 .. Size[PackedRecord(v, k)] - 1
        PROVE  PackedAt(v, k) + m >= 2
    <3>1. Size[PackedRecord(v, k)] \in Int
      BY <2>1, ConstantsTyped DEF Whole
    <3>2. m \in Nat
      BY <3>1
    <3>3. PackedTop(v) >= 2
      BY <1>2, <1>7
    <3> QED
      BY <1>7, <2>1, <3>2, <3>3
  <2>5. Whole(q, PackedAt(v, k), PackedRecord(v, k))
    BY <1>4, <2>1, <2>4 DEF Whole
  <2>6. RecordOf(q, k) = PackedRecord(v, k)
    BY <2>1, <2>3, <2>5, ReadWhole DEF RecordOf
  <2> QED
    BY <2>1, <2>3, <2>5, <2>6
<1>9. LiveSlots(q) = Slots(q) /\ NoZeroSlot(q)
  <2>1. \A k \in Slots(q) : Dir(q, k) > 0
    BY <1>2, <1>6, <1>7, <1>8
  <2>2. \A k \in Slots(q) : Dir(q, k) # 0
    BY <2>1
  <2> QED
    BY <2>1, <2>2 DEF LiveSlots, NoZeroSlot
<1>10. LaidOut(q)
  <2>1. ASSUME NEW i \in LiveSlots(q), NEW j \in LiveSlots(q), i # j
        PROVE  \/ Dir(q, i) + Size[RecordOf(q, i)] <= Dir(q, j)
               \/ Dir(q, j) + Size[RecordOf(q, j)] <= Dir(q, i)
    <3>1. i \in 0 .. v.count - 1 /\ j \in 0 .. v.count - 1
      BY <1>6, <1>9
    <3>2. i < j \/ j < i
      BY <2>1, <3>1
    <3>3. \A k, l \in 0 .. v.count - 1 : k < l => PackedAt(v, l) + Size[PackedRecord(v, l)] <= PackedAt(v, k)
      BY <1>2 DEF Packed
    <3> QED
      BY <1>8, <3>1, <3>2, <3>3
  <2>2. ASSUME NEW i \in LiveSlots(q)
        PROVE  /\ Whole(q, Dir(q, i), RecordOf(q, i)) /\ Top(q) <= Dir(q, i)
               /\ Dir(q, i) + Size[RecordOf(q, i)] <= PageSize
    BY <1>6, <1>7, <1>8, <1>9
  <2> QED
    BY <1>2, <1>6, <1>7, <2>1, <2>2 DEF LaidOut
<1>11. LiveSlots(pg) = Before(pg, DirCount(pg))
  BY <1>1, PageFacts DEF LiveSlots, Before
<1>12. ASSUME NEW j \in LiveSlots(pg)
       PROVE  Rank(pg, j) \in LiveSlots(q) /\ RecordOf(q, Rank(pg, j)) = RecordOf(pg, j)
  BY <1>1, <1>6, <1>8, <1>9, <1>11 DEF PackedBefore
<1>13. ASSUME NEW k \in LiveSlots(q) PROVE \E j \in LiveSlots(pg) : Rank(pg, j) = k
  BY <1>1, <1>6, <1>9, <1>11 DEF PackedBefore
<1>14. Reclaimed(pg, q)
  <2>1. RecordCells(pg) = Taken(pg, DirCount(pg))
    BY <1>11 DEF RecordCells, Taken
  <2>2. v.count = Cardinality(LiveSlots(pg)) /\ v.free = PageSize - 2 - v.count - Cardinality(RecordCells(pg))
    BY <1>1, <1>11, <2>1 DEF PackedBefore
  <2> QED
    BY <1>6, <2>2 DEF Reclaimed
<1> QED
  BY <1>5, <1>9, <1>10, <1>12, <1>13, <1>14 DEF PageOK, q

-----------------------------------------------------------------------------
(***************************************************************************)
(* The file and its iterators.                                             *)
(***************************************************************************)
FilesOK ==
  /\ pages \in [PageNumbers -> Page] /\ durable \in [PageNumbers -> Page]
  /\ \A p \in PageNumbers : PageOK(pages[p]) /\ PageOK(durable[p])

(* Record rid is there and in front of an iterator in state x.             *)
InFront(pgs, count, x, rid) ==
  /\ rid \in RIDs /\ rid[2] \in LiveSlots(pgs[rid[1]])
  /\ \/ rid[1] = x.page /\ rid[2] > x.pos
     \/ x.page < rid[1] /\ rid[1] < x.total /\ rid[1] < count

IterOK(pgs, count, x) ==
  /\ x \in IterTypes
  /\ x.held = NoPage => x.owes = {}
  /\ x.held # NoPage =>
       /\ x.page \in PageNumbers
       /\ x.owes # {} => x.held = x.page /\ \A rid \in x.owes : InFront(pgs, count, x, rid)

(* The invariant, page by page and iterator by iterator.                   *)
PointwiseInv ==
  /\ FilesOK
  /\ page_count \in 0 .. MaxPages
  /\ last_insert_page \in PageNumbers
  /\ inserting \in Records \cup {NoRecord}
  /\ InsertFindsRoom
  /\ iter \in [Iters -> IterTypes]
  /\ \A it \in Iters : IterOK(pages, page_count, iter[it])

LEMMA FileConstants ==
  /\ MaxPages \in Nat /\ MaxPages >= 1 /\ PageNumbers = 0 .. MaxPages - 1 /\ 0 \in PageNumbers
  /\ NoPage = -1 /\ NoPage \notin PageNumbers
  /\ MaxSlots \in Nat /\ MaxSlots = PageSize - 2
  /\ \A rid \in RIDs : rid[1] \in PageNumbers /\ rid[2] \in 0 .. MaxSlots - 1 /\ rid = <<rid[1], rid[2]>>
  /\ \A p \in PageNumbers, i \in 0 .. MaxSlots - 1 : <<p, i>> \in RIDs
  BY MaxPagesAssumption, ConstantsTyped DEF PageNumbers, NoPage, MaxSlots, RIDs

LEMMA LiveRIDsMember ==
  \A rid : rid \in LiveRIDs <=> rid \in RIDs /\ rid[1] < page_count /\ rid[2] \in LiveSlots(pages[rid[1]])
  BY DEF LiveRIDs

(* What lies ahead of an iterator, as a property of its fields.            *)
LEMMA AheadMember ==
  ASSUME FilesOK, NEW it \in Iters, iter[it] \in IterTypes, iter[it].page \in PageNumbers,
         iter[it].held = iter[it].page, NEW rid
  PROVE  rid \in Ahead(it) <=> InFront(pages, page_count, iter[it], rid)
<1> DEFINE x == iter[it]
<1>1. x.page \in PageNumbers /\ x.held = x.page /\ PageOK(pages[x.page])
  BY DEF FilesOK
<1>2. LiveSlots(pages[x.page]) \subseteq 0 .. MaxSlots - 1
  BY <1>1, PageFacts DEF LiveSlots
<1>3. Ahead(it) = {<<x.page, i>> : i \in {j \in LiveSlots(pages[x.page]) : j > x.pos}}
                    \cup {r \in LiveRIDs : r[1] > x.page /\ r[1] < x.total}
  BY DEF Ahead
<1> HIDE DEF x
<1>4. rid \in Ahead(it) => InFront(pages, page_count, x, rid)
  <2> SUFFICES ASSUME rid \in Ahead(it) PROVE InFront(pages, page_count, x, rid)
    OBVIOUS
  <2>1. CASE rid \in {<<x.page, i>> : i \in {j \in LiveSlots(pages[x.page]) : j > x.pos}}
    <3>1. PICK i \in LiveSlots(pages[x.page]) : i > x.pos /\ rid = <<x.page, i>>
      BY <2>1
    <3>2. rid \in RIDs /\ rid[1] = x.page /\ rid[2] = i
      BY <1>1, <1>2, <3>1, FileConstants
    <3> QED
      BY <3>1, <3>2 DEF InFront
  <2>2. CASE rid \in LiveRIDs /\ rid[1] > x.page /\ rid[1] < x.total
    <3>1. rid \in RIDs /\ rid[1] < page_count /\ rid[2] \in LiveSlots(pages[rid[1]])
      BY <2>2, LiveRIDsMember
    <3>2. x.page < rid[1]
      BY <1>1, <2>2, <3>1, FileConstants
    <3> QED
      BY <2>2, <3>1, <3>2 DEF InFront
  <2> QED
    BY <1>3, <2>1, <2>2
<1>5. InFront(pages, page_count, x, rid) => rid \in Ahead(it)
  <2> SUFFICES ASSUME InFront(pages, page_count, x, rid) PROVE rid \in Ahead(it)
    OBVIOUS
  <2>1. rid \in RIDs /\ rid[2] \in LiveSlots(pages[rid[1]]) /\ rid = <<rid[1], rid[2]>> /\ rid[1] \in PageNumbers
    BY FileConstants DEF InFront
  <2>2. CASE rid[1] = x.page /\ rid[2] > x.pos
    BY <1>3, <2>1, <2>2
  <2>3. CASE x.page < rid[1] /\ rid[1] < x.total /\ rid[1] < page_count
    <3>1. rid \in LiveRIDs /\ rid[1] > x.page
      BY <1>1, <2>1, <2>3, LiveRIDsMember, FileConstants
    <3> QED
      BY <1>3, <2>3, <3>1
  <2> QED
    BY <2>2, <2>3 DEF InFront
<1> QED
  BY <1>4, <1>5 DEF x

(* The conjuncts of the invariant about files, page by page.               *)
LEMMA FilesOKParts ==
  /\ TypeOK /\ LayoutOK /\ SlotsSet => FilesOK
  /\ FilesOK => LayoutOK /\ SlotsSet
<1>1. ASSUME TypeOK, LayoutOK, SlotsSet PROVE FilesOK
  <2>1. pages \in [PageNumbers -> Page] /\ durable \in [PageNumbers -> Page]
    BY <1>1 DEF TypeOK, Page
  <2>2. ASSUME NEW p \in PageNumbers PROVE PageOK(pages[p]) /\ PageOK(durable[p])
    <3>1. pages[p] \in Page /\ durable[p] \in Page /\ NoZeroSlot(pages[p]) /\ NoZeroSlot(durable[p])
      BY <1>1, <2>1 DEF SlotsSet
    <3>2. pages[p] = ZeroPage \/ Laid(pages[p])
      BY <1>1 DEF LayoutOK
    <3>3. durable[p] = ZeroPage \/ Laid(durable[p])
      BY <1>1 DEF LayoutOK
    <3>4. PageOK(pages[p])
      BY <3>1, <3>2, ZeroPageOK, LaidIsLaidOut DEF PageOK
    <3>5. PageOK(durable[p])
      BY <3>1, <3>3, ZeroPageOK, LaidIsLaidOut DEF PageOK
    <3> QED
      BY <3>4, <3>5
  <2> QED
    BY <2>1, <2>2 DEF FilesOK
<1>2. ASSUME FilesOK PROVE LayoutOK /\ SlotsSet
  BY <1>2, LaidIsLaidOut DEF FilesOK, PageOK, LayoutOK, SlotsSet
<1> QED
  BY <1>1, <1>2

(* The invariant, page by page and iterator by iterator.                   *)
LEMMA PointwiseIsIInv == IInv <=> PointwiseInv
<1>1. ASSUME IInv PROVE PointwiseInv
  <2>1. FilesOK
    BY <1>1, FilesOKParts DEF IInv
  <2>2. TypeOK /\ InsertFindsRoom /\ OwesAhead /\ ScanComplete
    BY <1>1 DEF IInv
  <2>3. ASSUME NEW it \in Iters PROVE IterOK(pages, page_count, iter[it])
    <3>1. iter[it] \in IterTypes
      BY <2>2 DEF TypeOK
    <3>2. iter[it].held = NoPage => iter[it].owes = {}
      BY <2>2 DEF ScanComplete
    <3>3. ASSUME iter[it].held # NoPage
          PROVE  /\ iter[it].page \in PageNumbers
                 /\ iter[it].owes # {} =>
                      iter[it].held = iter[it].page /\ iter[it].owes \subseteq Ahead(it)
      BY <2>2, <3>3 DEF OwesAhead
    <3>4. ASSUME iter[it].held # NoPage, iter[it].owes # {}, NEW rid \in iter[it].owes
          PROVE  InFront(pages, page_count, iter[it], rid)
      BY <2>1, <3>1, <3>3, <3>4, AheadMember
    <3> QED
      BY <3>1, <3>2, <3>3, <3>4 DEF IterOK
  <2> QED
    BY <2>1, <2>2, <2>3 DEF TypeOK, PointwiseInv
<1>2. ASSUME PointwiseInv PROVE IInv
  <2>1. FilesOK /\ LayoutOK /\ SlotsSet /\ InsertFindsRoom
    BY <1>2, FilesOKParts DEF PointwiseInv
  <2>2. TypeOK
    BY <1>2 DEF PointwiseInv, FilesOK, Page, TypeOK
  <2>3. ScanComplete
    BY <1>2 DEF PointwiseInv, IterOK, ScanComplete
  <2>4. ASSUME NEW it \in Iters, iter[it].held # NoPage
        PROVE  /\ iter[it].page \in PageNumbers
               /\ iter[it].owes # {} => iter[it].held = iter[it].page /\ iter[it].owes \subseteq Ahead(it)
    <3>1. IterOK(pages, page_count, iter[it])
      BY <1>2 DEF PointwiseInv
    <3> QED
      BY <2>1, <2>4, <3>1, AheadMember DEF IterOK
  <2> QED
    BY <2>1, <2>2, <2>3, <2>4 DEF IInv, OwesAhead
<1> QED
  BY <1>1, <1>2

LEMMA PointwiseInit == Init => PointwiseInv
<1> SUFFICES ASSUME Init PROVE PointwiseInv
  OBVIOUS
<1>1. FilesOK
  BY ZeroPageOK DEF Init, FilesOK, PageOK
<1>2. Closed \in IterTypes /\ Closed.held = NoPage /\ Closed.owes = {}
  BY FileConstants, MaxPagesAssumption DEF Closed, IterTypes
<1>3. iter \in [Iters -> IterTypes] /\ \A it \in Iters : IterOK(pages, page_count, iter[it])
  BY <1>2 DEF Init, IterOK
<1>4. page_count \in 0 .. MaxPages /\ last_insert_page \in PageNumbers /\ inserting = NoRecord
  BY FileConstants DEF Init
<1> QED
  BY <1>1, <1>3, <1>4 DEF PointwiseInv, InsertFindsRoom

(* What a step does to the pages an iterator has in front of it: it may    *)
(* lose records R, and owes them no more.                                  *)
LEMMA IterKept ==
  ASSUME NEW pgs, NEW qgs, NEW count \in Int, NEW count2 \in Int, count <= count2,
         NEW R, NEW x, IterOK(pgs, count, x),
         \A rid \in RIDs \ R : rid[2] \in LiveSlots(pgs[rid[1]]) => rid[2] \in LiveSlots(qgs[rid[1]])
  PROVE  IterOK(qgs, count2, [x EXCEPT !.owes = @ \ R])
<1> DEFINE y == [x EXCEPT !.owes = @ \ R]
<1>1. x \in IterTypes
  BY DEF IterOK
<1>2. y \in IterTypes /\ y.held = x.held /\ y.page = x.page /\ y.pos = x.pos /\ y.total = x.total
      /\ y.owes = x.owes \ R
  BY <1>1 DEF IterTypes
<1> HIDE DEF y
<1>3. ASSUME NEW rid \in y.owes, InFront(pgs, count, x, rid)
      PROVE  InFront(qgs, count2, y, rid)
  <2>1. rid \in RIDs /\ rid \notin R /\ rid[1] \in Int
    BY <1>2, <1>3, FileConstants DEF InFront
  <2> QED
    BY <1>2, <1>3, <2>1 DEF InFront
<1>4. IterOK(qgs, count2, y)
  BY <1>2, <1>3 DEF IterOK
<1> QED
  BY <1>4 DEF y

LEMMA SameIter ==
  ASSUME NEW x \in IterTypes
  PROVE  [x EXCEPT !.owes = @ \ {}] = x
  BY DEF IterTypes

(* An iterator keeps its part of the invariant while the file only grows.  *)
LEMMA ItersKept ==
  ASSUME PointwiseInv, NEW qgs, NEW count2 \in Int, page_count <= count2,
         \A p \in PageNumbers : LiveSlots(pages[p]) \subseteq LiveSlots(qgs[p])
  PROVE  \A it \in Iters : IterOK(qgs, count2, iter[it])
<1> SUFFICES ASSUME NEW it \in Iters PROVE IterOK(qgs, count2, iter[it])
  OBVIOUS
<1>1. IterOK(pages, page_count, iter[it]) /\ iter[it] \in IterTypes /\ page_count \in Int
  BY FileConstants DEF PointwiseInv
<1>2. \A rid \in RIDs \ {} : rid[2] \in LiveSlots(pages[rid[1]]) => rid[2] \in LiveSlots(qgs[rid[1]])
  BY FileConstants
<1>3. IterOK(qgs, count2, [iter[it] EXCEPT !.owes = @ \ {}])
  BY <1>1, <1>2, IterKept
<1> QED
  BY <1>1, <1>3, SameIter

(* Constructing a HeapFilePage changes no record.                          *)
LEMMA ConstructFiles ==
  ASSUME FilesOK, NEW P
  PROVE  /\ Construct(P) \in [PageNumbers -> Page]
         /\ \A p \in PageNumbers :
              /\ Construct(P)[p] = IF p \in P THEN Constructed(pages[p]) ELSE pages[p]
              /\ PageOK(Construct(P)[p])
              /\ LiveSlots(Construct(P)[p]) = LiveSlots(pages[p])
              /\ \A i \in LiveSlots(pages[p]) : RecordOf(Construct(P)[p], i) = RecordOf(pages[p], i)
              /\ Constructed(Construct(P)[p]) = Constructed(pages[p])
<1>1. \A p \in PageNumbers : Construct(P)[p] = IF p \in P THEN Constructed(pages[p]) ELSE pages[p]
  BY DEF Construct
<1>2. ASSUME NEW p \in PageNumbers
      PROVE  /\ PageOK(Construct(P)[p])
             /\ LiveSlots(Construct(P)[p]) = LiveSlots(pages[p])
             /\ \A i \in LiveSlots(pages[p]) : RecordOf(Construct(P)[p], i) = RecordOf(pages[p], i)
             /\ Constructed(Construct(P)[p]) = Constructed(pages[p])
  <2>1. PageOK(pages[p])
    BY DEF FilesOK
  <2> QED
    BY <1>1, <2>1, ConstructedOK
<1>3. Construct(P) \in [PageNumbers -> Page]
  BY <1>1, <1>2 DEF Construct, PageOK
<1> QED
  BY <1>1, <1>2, <1>3

(* The part of the invariant about pages and the running insert, and the   *)
(* part about iterators, one action after the other.                       *)
LEMMA InsertBeginKeeps ==
  ASSUME PointwiseInv, NEW r \in Records, InsertBegin(r)
  PROVE  PointwiseInv'
<1> DEFINE P == {last_insert_page}
<1>1. /\ pages' = Construct(P) /\ page_count' = Reaching(last_insert_page) /\ inserting' = r
      /\ UNCHANGED <<durable, last_insert_page, iter>> /\ RoomWithinBound(r)
  BY DEF InsertBegin
<1>2. FilesOK /\ last_insert_page \in PageNumbers /\ page_count \in 0 .. MaxPages
  BY DEF PointwiseInv
<1>3. FilesOK'
  BY <1>1, <1>2, ConstructFiles DEF FilesOK
<1>4. page_count' \in 0 .. MaxPages /\ page_count <= page_count' /\ page_count' \in Int
  BY <1>1, <1>2, FileConstants DEF Reaching
<1>5. InsertFindsRoom'
  <2>1. Constructed(pages'[last_insert_page]) = pages'[last_insert_page]
    BY <1>1, <1>2, ConstructFiles
  <2>2. \A p \in PageNumbers : Constructed(pages'[p]) = Constructed(pages[p])
    BY <1>1, <1>2, ConstructFiles
  <2>3. RoomWithinBound(r)'
    <3>1. PICK p \in last_insert_page .. MaxPages - 1 : Fits(Constructed(pages[p]), r)
      BY <1>1 DEF RoomWithinBound
    <3>2. p \in PageNumbers
      BY <1>2, <3>1, FileConstants
    <3> QED
      BY <1>1, <2>2, <3>1, <3>2 DEF RoomWithinBound
  <2> QED
    BY <1>1, <2>1, <2>3 DEF InsertFindsRoom
<1>6. \A it \in Iters : IterOK(pages', page_count', iter[it])
  <2>1. \A p \in PageNumbers : LiveSlots(pages[p]) \subseteq LiveSlots(pages'[p])
    BY <1>1, <1>2, ConstructFiles
  <2> QED
    BY <1>4, <2>1, ItersKept
<1> QED
  BY <1>1, <1>2, <1>3, <1>4, <1>5, <1>6 DEF PointwiseInv

LEMMA InsertHereKeeps ==
  ASSUME PointwiseInv, InsertHere
  PROVE  PointwiseInv'
<1> DEFINE l == last_insert_page
<1>1. /\ inserting \in Records /\ Fits(pages[l], inserting) /\ inserting' = NoRecord
      /\ pages' = [pages EXCEPT ![l] = Inserted(pages[l], inserting)]
      /\ UNCHANGED <<durable, page_count, last_insert_page, iter>>
  BY DEF InsertHere, PointwiseInv
<1>2. FilesOK /\ l \in PageNumbers /\ page_count \in 0 .. MaxPages /\ PageOK(pages[l])
  BY DEF PointwiseInv, FilesOK
<1>3. PageOK(Inserted(pages[l], inserting)) /\ LiveSlots(pages[l]) \subseteq LiveSlots(Inserted(pages[l], inserting))
  BY <1>1, <1>2, InsertedOK
<1>4. \A p \in PageNumbers : pages'[p] = IF p = l THEN Inserted(pages[l], inserting) ELSE pages[p]
  BY <1>1, <1>2 DEF FilesOK
<1>5. FilesOK'
  <2>1. pages' \in [PageNumbers -> Page]
    BY <1>1, <1>2, <1>3 DEF FilesOK, PageOK
  <2> QED
    BY <1>1, <1>2, <1>3, <1>4, <2>1 DEF FilesOK
<1>6. \A it \in Iters : IterOK(pages', page_count, iter[it])
  <2>1. \A p \in PageNumbers : LiveSlots(pages[p]) \subseteq LiveSlots(pages'[p])
    BY <1>3, <1>4
  <2>2. page_count \in Int /\ page_count <= page_count
    BY <1>2, FileConstants
  <2> QED
    BY <2>1, <2>2, ItersKept
<1> QED
  BY <1>1, <1>2, <1>5, <1>6 DEF PointwiseInv, InsertFindsRoom

(* There is a page to move on to: the one with room is not this one.       *)
LEMMA RoomFurtherOn ==
  ASSUME PointwiseInv, inserting # NoRecord, ~ Fits(pages[last_insert_page], inserting)
  PROVE  /\ last_insert_page + 1 \in PageNumbers
         /\ \E p \in last_insert_page + 1 .. MaxPages - 1 : Fits(Constructed(pages[p]), inserting)
<1>1. /\ last_insert_page \in PageNumbers
      /\ Constructed(pages[last_insert_page]) = pages[last_insert_page]
      /\ RoomWithinBound(inserting)
  BY DEF PointwiseInv, InsertFindsRoom
<1>2. PICK p \in last_insert_page .. MaxPages - 1 : Fits(Constructed(pages[p]), inserting)
  BY <1>1 DEF RoomWithinBound
<1>3. p # last_insert_page
  BY <1>1, <1>2
<1>4. p \in last_insert_page + 1 .. MaxPages - 1
  BY <1>1, <1>2, <1>3, FileConstants
<1> QED
  BY <1>1, <1>2, <1>4, FileConstants

LEMMA InsertMoveKeeps ==
  ASSUME PointwiseInv, InsertMove
  PROVE  PointwiseInv'
<1> DEFINE n == last_insert_page + 1
<1>1. /\ inserting # NoRecord /\ ~ Fits(pages[last_insert_page], inserting)
      /\ last_insert_page' = n /\ pages' = Construct({n}) /\ page_count' = Reaching(n)
      /\ UNCHANGED <<durable, inserting, iter>>
  BY DEF InsertMove
<1>2. FilesOK /\ page_count \in 0 .. MaxPages /\ n \in PageNumbers
  BY <1>1, RoomFurtherOn DEF PointwiseInv
<1>3. FilesOK'
  BY <1>1, <1>2, ConstructFiles DEF FilesOK
<1>4. page_count' \in 0 .. MaxPages /\ page_count <= page_count' /\ page_count' \in Int
  BY <1>1, <1>2, FileConstants DEF Reaching
<1>5. InsertFindsRoom'
  <2>1. Constructed(pages'[n]) = pages'[n]
    BY <1>1, <1>2, ConstructFiles
  <2>2. \A p \in PageNumbers : Constructed(pages'[p]) = Constructed(pages[p])
    BY <1>1, <1>2, ConstructFiles
  <2>3. PICK p \in n .. MaxPages - 1 : Fits(Constructed(pages[p]), inserting)
    BY <1>1, RoomFurtherOn
  <2>4. p \in PageNumbers
    BY <1>2, <2>3, FileConstants
  <2>5. RoomWithinBound(inserting)'
    BY <1>1, <2>2, <2>3, <2>4 DEF RoomWithinBound
  <2> QED
    BY <1>1, <2>1, <2>5 DEF InsertFindsRoom
<1>6. \A it \in Iters : IterOK(pages', page_count', iter[it])
  <2>1. \A p \in PageNumbers : LiveSlots(pages[p]) \subseteq LiveSlots(pages'[p])
    BY <1>1, <1>2, ConstructFiles
  <2> QED
    BY <1>4, <2>1, ItersKept
<1> QED
  BY <1>1, <1>2, <1>3, <1>4, <1>5, <1>6 DEF PointwiseInv

LEMMA InsertMoveFailsKeeps ==
  ASSUME PointwiseInv, InsertMoveFails
  PROVE  PointwiseInv'
<1>1. /\ inserting # NoRecord /\ ~ Fits(pages[last_insert_page], inserting)
      /\ last_insert_page' = last_insert_page + 1 /\ inserting' = NoRecord
      /\ pages' = pages /\ durable' = durable /\ page_count' = page_count /\ iter' = iter
  BY DEF InsertMoveFails, fileVars
<1>2. last_insert_page + 1 \in PageNumbers
  BY <1>1, RoomFurtherOn
<1> QED
  BY <1>1, <1>2 DEF PointwiseInv, FilesOK, InsertFindsRoom

(* An iterator keeps its part when what is gone is no longer owed.         *)
LEMMA ItersLose ==
  ASSUME PointwiseInv, NEW qgs, NEW R, iter' = NotOwed(R),
         \A rid \in RIDs \ R : rid[2] \in LiveSlots(pages[rid[1]]) => rid[2] \in LiveSlots(qgs[rid[1]])
  PROVE  /\ iter' \in [Iters -> IterTypes]
         /\ \A it \in Iters : IterOK(qgs, page_count, iter'[it])
<1>1. ASSUME NEW it \in Iters PROVE IterOK(qgs, page_count, iter'[it]) /\ iter'[it] \in IterTypes
  <2>1. IterOK(pages, page_count, iter[it]) /\ page_count \in Int /\ page_count <= page_count
    BY FileConstants DEF PointwiseInv
  <2>2. IterOK(qgs, page_count, [iter[it] EXCEPT !.owes = @ \ R])
    BY <2>1, IterKept
  <2>3. iter'[it] = [iter[it] EXCEPT !.owes = @ \ R]
    BY DEF NotOwed
  <2> QED
    BY <2>2, <2>3 DEF IterOK
<1> QED
  BY <1>1 DEF NotOwed

LEMMA DeleteKeeps ==
  ASSUME PointwiseInv, NEW rid \in RIDs, Delete(rid)
  PROVE  PointwiseInv'
<1> DEFINE p == rid[1]
           i == rid[2]
<1>1. /\ inserting = NoRecord /\ i \in Slots(pages[p]) /\ pages' = [pages EXCEPT ![p] = Deleted(pages[p], i)]
      /\ iter' = NotOwed({rid}) /\ UNCHANGED <<durable, page_count, last_insert_page, inserting>>
  BY DEF Delete
<1>2. FilesOK /\ p \in PageNumbers /\ PageOK(pages[p])
  BY FileConstants DEF PointwiseInv, FilesOK
<1>3. PageOK(Deleted(pages[p], i)) /\ LiveSlots(Deleted(pages[p], i)) = LiveSlots(pages[p]) \ {i}
  BY <1>1, <1>2, DeletedOK
<1>4. \A q \in PageNumbers : pages'[q] = IF q = p THEN Deleted(pages[p], i) ELSE pages[q]
  BY <1>1, <1>2 DEF FilesOK
<1>5. FilesOK'
  <2>1. pages' \in [PageNumbers -> Page]
    BY <1>1, <1>2, <1>3 DEF FilesOK, PageOK
  <2> QED
    BY <1>1, <1>2, <1>3, <1>4, <2>1 DEF FilesOK
<1>6. \A x \in RIDs \ {rid} : x[2] \in LiveSlots(pages[x[1]]) => x[2] \in LiveSlots(pages'[x[1]])
  <2> SUFFICES ASSUME NEW x \in RIDs, x # rid, x[2] \in LiveSlots(pages[x[1]])
               PROVE  x[2] \in LiveSlots(pages'[x[1]])
    OBVIOUS
  <2>1. x[1] \in PageNumbers /\ x = <<x[1], x[2]>> /\ rid = <<p, i>>
    BY FileConstants
  <2> QED
    BY <1>3, <1>4, <2>1
<1>7. iter' \in [Iters -> IterTypes] /\ \A it \in Iters : IterOK(pages', page_count, iter'[it])
  BY <1>1, <1>6, ItersLose
<1> QED
  BY <1>1, <1>5, <1>7 DEF PointwiseInv, InsertFindsRoom

(* What vacuum of the first n pages makes of the file.                     *)
LEMMA VacuumToFiles ==
  ASSUME FilesOK, NEW n \in Int, VacuumTo(n)
  PROVE  /\ FilesOK'
         /\ \A p \in PageNumbers : pages'[p] = IF p < n THEN Vacuumed(Constructed(pages[p])) ELSE pages[p]
<1>1. /\ pages' = [p \in PageNumbers |-> IF p < n THEN Vacuumed(Constructed(pages[p])) ELSE pages[p]]
      /\ durable' = durable
  BY DEF VacuumTo
<1>2. ASSUME NEW p \in PageNumbers PROVE PageOK(pages'[p])
  <2>1. PageOK(pages[p]) /\ PageOK(Constructed(pages[p]))
    BY ConstructedOK DEF FilesOK
  <2>2. PageOK(Vacuumed(Constructed(pages[p])))
    BY <2>1, VacuumedOK
  <2> QED
    BY <1>1, <2>1, <2>2
<1>3. pages' \in [PageNumbers -> Page]
  BY <1>1, <1>2 DEF PageOK
<1> QED
  BY <1>1, <1>2, <1>3 DEF FilesOK

LEMMA VacuumToKeeps ==
  ASSUME PointwiseInv, NEW n \in Int, VacuumTo(n), last_insert_page' \in PageNumbers
  PROVE  PointwiseInv'
<1> DEFINE R == {rid \in RIDs : rid[1] < n}
<1>1. inserting = NoRecord /\ iter' = NotOwed(R) /\ UNCHANGED <<durable, page_count, inserting>>
  BY DEF VacuumTo
<1>2. FilesOK
  BY DEF PointwiseInv
<1>3. FilesOK' /\ \A p \in PageNumbers : ~ (p < n) => pages'[p] = pages[p]
  BY <1>2, VacuumToFiles
<1>4. \A x \in RIDs \ R : x[2] \in LiveSlots(pages[x[1]]) => x[2] \in LiveSlots(pages'[x[1]])
  BY <1>3, FileConstants
<1>5. iter' \in [Iters -> IterTypes] /\ \A it \in Iters : IterOK(pages', page_count, iter'[it])
  BY <1>1, <1>4, ItersLose
<1> QED
  BY <1>1, <1>3, <1>5 DEF PointwiseInv, InsertFindsRoom

LEMMA VacuumKeeps ==
  ASSUME PointwiseInv, VacuumFile \/ \E n \in PageNumbers : VacuumFails(n)
  PROVE  PointwiseInv'
<1>1. page_count \in Int /\ last_insert_page \in PageNumbers /\ 0 \in PageNumbers /\ PageNumbers \subseteq Int
  BY FileConstants DEF PointwiseInv
<1>2. ASSUME VacuumFile PROVE PointwiseInv'
  BY <1>1, <1>2, VacuumToKeeps DEF VacuumFile
<1>3. ASSUME NEW n \in PageNumbers, VacuumFails(n) PROVE PointwiseInv'
  BY <1>1, <1>3, VacuumToKeeps DEF VacuumFails
<1> QED
  BY <1>2, <1>3

(* The first of some records is one of them.                               *)
LEMMA FirstIsFirst ==
  ASSUME NEW R, R \subseteq RIDs, R # {}
  PROVE  First(R) \in R /\ \A x \in R : First(R)[1] < x[1] \/ (First(R)[1] = x[1] /\ First(R)[2] <= x[2])
<1> DEFINE A == {rid[1] : rid \in R}
<1>1. \A rid \in R : rid[1] \in Nat /\ rid[2] \in Nat /\ rid = <<rid[1], rid[2]>>
  BY FileConstants
<1>2. A \subseteq Nat /\ A # {}
  BY <1>1
<1>3. PICK p \in A : \A y \in A : p <= y
  BY <1>2, LeastExists
<1> DEFINE B == {rid[2] : rid \in {x \in R : x[1] = p}}
<1>4. B \subseteq Nat /\ B # {}
  BY <1>1
<1>5. PICK i \in B : \A y \in B : i <= y
  BY <1>4, LeastExists
<1>6. PICK rid \in R : rid[1] = p /\ rid[2] = i
  OBVIOUS
<1>7. ASSUME NEW x \in R PROVE rid[1] < x[1] \/ (rid[1] = x[1] /\ rid[2] <= x[2])
  <2>1. x[1] \in Nat /\ x[1] \in A /\ p <= x[1] /\ p \in Nat
    BY <1>1, <1>2, <1>3
  <2>2. x[1] = p => x[2] \in B
    OBVIOUS
  <2>3. x[1] = p => i <= x[2]
    BY <1>5, <2>2
  <2> QED
    BY <1>6, <2>1, <2>3
<1> QED
  BY <1>6, <1>7 DEF First

(* One iterator changes, and pages are constructed at most.                *)
LEMMA OneIterator ==
  ASSUME PointwiseInv, NEW it \in Iters, NEW x, NEW P,
         iter' = [iter EXCEPT ![it] = x], IterOK(Construct(P), page_count', x),
         pages' = Construct(P), page_count' \in 0 .. MaxPages, page_count <= page_count',
         UNCHANGED <<durable, last_insert_page, inserting>>, inserting = NoRecord
  PROVE  PointwiseInv'
<1>1. FilesOK /\ iter \in [Iters -> IterTypes] /\ page_count' \in Int
  BY FileConstants DEF PointwiseInv
<1>3. pages' = Construct(P)
  OBVIOUS
<1>4. FilesOK'
  BY <1>1, <1>3, ConstructFiles DEF FilesOK
<1>5. \A i \in Iters : IterOK(pages', page_count', iter[i])
  <2>1. \A p \in PageNumbers : LiveSlots(pages[p]) \subseteq LiveSlots(pages'[p])
    BY <1>1, <1>3, ConstructFiles
  <2> QED
    BY <1>1, <2>1, ItersKept
<1>6. \A i \in Iters : iter'[i] = IF i = it THEN x ELSE iter[i]
  BY <1>1
<1>7. x \in IterTypes
  BY DEF IterOK
<1>8. iter' \in [Iters -> IterTypes]
  BY <1>1, <1>7
<1>9. \A i \in Iters : IterOK(pages', page_count', iter'[i])
  BY <1>3, <1>5, <1>6
<1> QED
  BY <1>4, <1>8, <1>9 DEF PointwiseInv, InsertFindsRoom

(* What a scan that begins owes is in front of it.                         *)
LEMMA BeginsOwing ==
  ASSUME FilesOK, NEW qgs, NEW count \in Int, NEW x \in IterTypes,
         x.held = 0, x.page = 0, x.pos = -1, page_count \in Int, page_count <= count,
         x.owes \subseteq LiveRIDs, \A rid \in x.owes : rid[1] < x.total,
         \A p \in PageNumbers : LiveSlots(pages[p]) \subseteq LiveSlots(qgs[p])
  PROVE  IterOK(qgs, count, x)
<1>1. ASSUME NEW rid \in x.owes PROVE InFront(qgs, count, x, rid)
  <2>1. rid \in RIDs /\ rid[1] < page_count /\ rid[2] \in LiveSlots(pages[rid[1]]) /\ rid[1] < x.total
    BY LiveRIDsMember
  <2>2. rid[1] \in PageNumbers /\ rid[2] \in 0 .. MaxSlots - 1 /\ rid[1] \in Nat /\ rid[2] \in Nat
    BY <2>1, FileConstants
  <2>3. rid[2] \in LiveSlots(qgs[rid[1]]) /\ rid[1] < count /\ rid[2] > -1
    BY <2>1, <2>2
  <2> QED
    BY <2>1, <2>2, <2>3 DEF InFront
<1> QED
  BY <1>1, FileConstants DEF IterOK

LEMMA OpenKeeps ==
  ASSUME PointwiseInv, NEW it \in Iters, Open(it)
  PROVE  PointwiseInv'
<1> DEFINE n == page_count'
           L == LiveRIDs
           x == [Closed EXCEPT !.open = TRUE, !.held = 0, !.total = n, !.owes = L]
<1>1. /\ inserting = NoRecord /\ pages' = Construct({0}) /\ page_count' = Reaching(0)
      /\ iter' = [iter EXCEPT ![it] = x] /\ UNCHANGED <<durable, last_insert_page, inserting>>
  BY DEF Open
<1>2. FilesOK /\ page_count \in 0 .. MaxPages /\ page_count \in Int
  BY FileConstants DEF PointwiseInv
<1>3. page_count' \in 0 .. MaxPages /\ page_count <= page_count' /\ page_count' \in Int
  BY <1>1, <1>2, FileConstants DEF Reaching
<1>4. x = [open |-> TRUE, held |-> 0, page |-> 0, pos |-> -1, total |-> n, owes |-> L]
  <2> DEFINE c == Closed
             b == TRUE
  <2>1. c = [open |-> c.open, held |-> c.held, page |-> c.page, pos |-> c.pos, total |-> c.total, owes |-> c.owes]
    BY DEF Closed
  <2>4. c.page = 0 /\ c.pos = -1
    BY DEF Closed
  <2>2. x = [c EXCEPT !.open = b, !.held = 0, !.total = n, !.owes = L]
    BY DEF x
  <2> HIDE DEF n, L, c, b, x
  <2>3. x = [open |-> b, held |-> 0, page |-> c.page, pos |-> c.pos, total |-> n, owes |-> L]
    BY <2>1, <2>2
  <2> QED
    BY <2>3, <2>4 DEF b
<1>5. LiveRIDs \subseteq RIDs /\ -1 \in -1 .. MaxSlots - 1 /\ 0 \in 0 .. MaxPages /\ 0 \in PageNumbers
  BY FileConstants DEF LiveRIDs
<1>6. x \in IterTypes
  BY <1>3, <1>4, <1>5 DEF IterTypes
<1>7. \A rid \in LiveRIDs : rid[1] < page_count'
  <2> SUFFICES ASSUME NEW rid \in LiveRIDs PROVE rid[1] < page_count'
    OBVIOUS
  <2>1. rid[1] \in Int /\ rid[1] < page_count
    BY LiveRIDsMember, FileConstants
  <2> QED
    BY <1>2, <1>3, <2>1
<1>8. \A p \in PageNumbers : LiveSlots(pages[p]) \subseteq LiveSlots(Construct({0})[p])
  BY <1>2, ConstructFiles
<1>9. x.held = 0 /\ x.page = 0 /\ x.pos = -1 /\ x.total = page_count' /\ x.owes = LiveRIDs
  BY <1>4
<1> HIDE DEF x
<1>10. IterOK(Construct({0}), page_count', x)
  BY <1>2, <1>3, <1>6, <1>7, <1>8, <1>9, BeginsOwing
<1> QED
  BY <1>1, <1>3, <1>10, OneIterator

LEMMA NextRecordKeeps ==
  ASSUME PointwiseInv, NEW it \in Iters, NextRecord(it)
  PROVE  PointwiseInv'
<1> DEFINE x == iter[it]
           R == Ahead(it)
           first == First(R)
           P == Passed(it, IF R = {} THEN x.total ELSE first[1])
           y == IF R = {}
                THEN [x EXCEPT !.held = NoPage, !.page = x.total, !.pos = -1]
                ELSE [x EXCEPT !.held = HeldAt(it, first[1]), !.page = first[1], !.pos = first[2],
                               !.owes = @ \ {first}]
<1>1. /\ inserting = NoRecord /\ x.held # NoPage /\ pages' = Construct(P)
      /\ iter' = [iter EXCEPT ![it] = y]
      /\ UNCHANGED <<durable, page_count, last_insert_page, inserting>>
  BY DEF NextRecord
<1>2. /\ FilesOK /\ page_count \in 0 .. MaxPages /\ page_count \in Int
      /\ x \in IterTypes /\ IterOK(pages, page_count, x)
  BY FileConstants DEF PointwiseInv
<1>3. /\ x.open \in BOOLEAN /\ x.held \in PageNumbers /\ x.page \in PageNumbers /\ x.pos \in -1 .. MaxSlots - 1
      /\ x.total \in 0 .. MaxPages /\ x.owes \subseteq RIDs
      /\ x = [open |-> x.open, held |-> x.held, page |-> x.page, pos |-> x.pos, total |-> x.total, owes |-> x.owes]
  BY <1>1, <1>2 DEF IterOK, IterTypes
<1>4. x.owes # {} => x.held = x.page /\ \A rid \in x.owes : InFront(pages, page_count, x, rid) /\ rid \in R
  BY <1>1, <1>2, <1>3, AheadMember DEF IterOK
<1>5. R \subseteq RIDs /\ \A rid \in R : x.page <= rid[1]
  <2>1. LiveSlots(pages[x.held]) \subseteq 0 .. MaxSlots - 1
    BY <1>2, <1>3, PageFacts DEF FilesOK, LiveSlots
  <2>2. \A i \in LiveSlots(pages[x.held]) : <<x.page, i>> \in RIDs
    BY <1>3, <2>1, FileConstants
  <2>3. \A rid \in LiveRIDs : rid \in RIDs /\ rid[1] \in Int
    BY LiveRIDsMember, FileConstants
  <2>4. x.page \in Int
    BY <1>3, FileConstants
  <2> QED
    BY <2>2, <2>3, <2>4 DEF Ahead
<1> HIDE DEF x, R
<1>6. \A p \in PageNumbers : LiveSlots(pages[p]) \subseteq LiveSlots(Construct(P)[p])
  BY <1>2, ConstructFiles
<1>7. CASE R = {}
  <2>1. y = [x EXCEPT !.held = NoPage, !.page = x.total, !.pos = -1]
    BY <1>7
  <2>2. x.owes = {}
    BY <1>4, <1>7
  <2>3. y = [open |-> x.open, held |-> NoPage, page |-> x.total, pos |-> -1, total |-> x.total, owes |-> {}]
    BY <1>3, <2>1, <2>2
  <2>4. -1 \in -1 .. MaxSlots - 1
    BY FileConstants
  <2>5. y \in IterTypes
    BY <1>3, <2>3, <2>4 DEF IterTypes
  <2>6. IterOK(Construct(P), page_count, y)
    BY <2>3, <2>5 DEF IterOK
  <2> HIDE DEF y, P
  <2>7. page_count' \in 0 .. MaxPages /\ page_count <= page_count' /\ IterOK(Construct(P), page_count', y)
    BY <1>1, <1>2, <2>6
  <2> QED
    BY <1>1, <2>7, OneIterator
<1>8. CASE R # {}
  <2>1. first \in R /\ \A r \in R : first[1] < r[1] \/ (first[1] = r[1] /\ first[2] <= r[2])
    BY <1>5, <1>8, FirstIsFirst
  <2>2. /\ first \in RIDs /\ first[1] \in PageNumbers /\ first[2] \in 0 .. MaxSlots - 1 /\ x.page <= first[1]
        /\ first = <<first[1], first[2]>>
    BY <1>5, <2>1, FileConstants
  <2>3. y = [x EXCEPT !.held = HeldAt(it, first[1]), !.page = first[1], !.pos = first[2], !.owes = @ \ {first}]
    BY <1>8
  <2>4. HeldAt(it, first[1]) = IF first[1] = x.page THEN x.held ELSE first[1]
    BY DEF HeldAt, x
  <2> HIDE DEF y, P, first
  <2>5. y = [open |-> x.open, held |-> HeldAt(it, first[1]), page |-> first[1], pos |-> first[2],
             total |-> x.total, owes |-> x.owes \ {first}]
    BY <1>3, <2>3
  <2>6. HeldAt(it, first[1]) \in PageNumbers /\ (x.held = x.page => HeldAt(it, first[1]) = first[1])
    BY <1>3, <2>2, <2>4
  <2>7. first[1] \in 0 .. MaxPages /\ first[2] \in -1 .. MaxSlots - 1
    BY <2>2, FileConstants
  <2>8. y \in IterTypes
    BY <1>3, <2>5, <2>6, <2>7 DEF IterTypes
  <2>9. /\ y.held = HeldAt(it, first[1]) /\ y.page = first[1] /\ y.pos = first[2] /\ y.total = x.total
        /\ y.owes = x.owes \ {first}
    BY <2>5
  <2>10. ASSUME NEW rid \in y.owes
         PROVE  y.held = y.page /\ InFront(Construct(P), page_count, y, rid)
    <3>1. rid \in x.owes /\ rid # first
      BY <2>9
    <3>2. x.held = x.page /\ InFront(pages, page_count, x, rid) /\ rid \in R
      BY <1>4, <3>1
    <3>3. rid \in RIDs /\ rid[2] \in LiveSlots(pages[rid[1]]) /\ rid[1] \in PageNumbers
          /\ rid[2] \in 0 .. MaxSlots - 1 /\ rid = <<rid[1], rid[2]>>
      BY <3>2, FileConstants DEF InFront
    <3>4. first[1] < rid[1] \/ (first[1] = rid[1] /\ first[2] <= rid[2])
      BY <2>1, <3>2
    <3>5. rid[2] \in LiveSlots(Construct(P)[rid[1]])
      BY <1>6, <3>3
    <3>6. CASE first[1] = rid[1]
      <4>1. first[2] # rid[2]
        BY <2>2, <3>1, <3>3, <3>6
      <4>2. first[2] < rid[2]
        BY <2>2, <3>3, <3>4, <3>6, <4>1, FileConstants
      <4> QED
        BY <2>6, <2>9, <3>2, <3>3, <3>5, <3>6, <4>2 DEF InFront
    <3>7. CASE first[1] < rid[1]
      <4>1. x.page < rid[1] /\ rid[1] # x.page
        BY <1>3, <2>2, <3>3, <3>7, FileConstants
      <4>2. rid[1] < x.total /\ rid[1] < page_count
        BY <3>2, <4>1 DEF InFront
      <4> QED
        BY <2>6, <2>9, <3>2, <3>3, <3>5, <3>7, <4>2 DEF InFront
    <3> QED
      BY <3>4, <3>6, <3>7
  <2>11. IterOK(Construct(P), page_count, y)
    BY <2>2, <2>6, <2>8, <2>9, <2>10, FileConstants DEF IterOK
  <2>12. page_count' \in 0 .. MaxPages /\ page_count <= page_count' /\ IterOK(Construct(P), page_count', y)
    BY <1>1, <1>2, <2>11
  <2> QED
    BY <1>1, <2>12, OneIterator
<1> QED
  BY <1>7, <1>8

(* An iterator that owes nothing is as it should be anywhere in the file.  *)
LEMMA OwesNothing ==
  ASSUME NEW pgs, NEW count, NEW x \in IterTypes, x.owes = {}, x.held # NoPage => x.page \in PageNumbers
  PROVE  IterOK(pgs, count, x)
  BY DEF IterOK

LEMMA NextFailsKeeps ==
  ASSUME PointwiseInv, NEW it \in Iters, NEW p \in PageNumbers, NextFails(it, p)
  PROVE  PointwiseInv'
<1> DEFINE x == iter[it]
           h == HeldAt(it, p - 1)
           y == [x EXCEPT !.held = h, !.page = p, !.pos = -1, !.owes = {}]
           P == Passed(it, p - 1)
<1>1. /\ inserting = NoRecord /\ x.held # NoPage /\ p \in Passed(it, p) /\ pages' = Construct(P)
      /\ iter' = [iter EXCEPT ![it] = y]
      /\ UNCHANGED <<durable, page_count, last_insert_page, inserting>>
  BY DEF NextFails
<1>2. page_count \in 0 .. MaxPages /\ page_count \in Int /\ x \in IterTypes
  BY FileConstants DEF PointwiseInv
<1>3. /\ x.open \in BOOLEAN /\ x.held \in PageNumbers /\ x.page \in 0 .. MaxPages /\ x.total \in 0 .. MaxPages
      /\ x = [open |-> x.open, held |-> x.held, page |-> x.page, pos |-> x.pos, total |-> x.total, owes |-> x.owes]
  BY <1>1, <1>2 DEF IterTypes
<1>4. x.page < p
  BY <1>1 DEF Passed
<1>5. h = IF p - 1 = x.page THEN x.held ELSE p - 1
  BY DEF HeldAt
<1> HIDE DEF x, h, P
<1>6. h \in PageNumbers
  BY <1>3, <1>4, <1>5, FileConstants
<1>4a. y = [x EXCEPT !.held = h, !.page = p, !.pos = -1, !.owes = {}]
  OBVIOUS
<1> HIDE DEF y
<1>7. y = [open |-> x.open, held |-> h, page |-> p, pos |-> -1, total |-> x.total, owes |-> {}]
  BY <1>3, <1>4a
<1>8. -1 \in -1 .. MaxSlots - 1 /\ p \in 0 .. MaxPages
  BY FileConstants
<1>9. y \in IterTypes /\ y.owes = {} /\ y.page = p
  BY <1>3, <1>6, <1>7, <1>8 DEF IterTypes
<1>10. IterOK(Construct(P), page_count', y)
  BY <1>9, OwesNothing
<1>11. page_count' \in 0 .. MaxPages /\ page_count <= page_count'
  BY <1>1, <1>2
<1> QED
  BY <1>1, <1>10, <1>11, OneIterator

(* To construct no page changes nothing.                                   *)
LEMMA ConstructNone ==
  ASSUME FilesOK
  PROVE  Construct({}) = pages
  BY DEF FilesOK, Construct

LEMMA ResetKeeps ==
  ASSUME PointwiseInv, NEW it \in Iters, Reset(it)
  PROVE  PointwiseInv'
<1> DEFINE x == iter[it]
           L == {rid \in LiveRIDs : rid[1] < x.total}
           y == [x EXCEPT !.held = 0, !.page = 0, !.pos = -1, !.owes = L]
<1>1. /\ inserting = NoRecord /\ iter' = [iter EXCEPT ![it] = y]
      /\ UNCHANGED <<pages, durable, page_count, last_insert_page, inserting>>
  BY DEF Reset, fileVars
<1>2. FilesOK /\ page_count \in 0 .. MaxPages /\ page_count \in Int /\ x \in IterTypes
  BY FileConstants DEF PointwiseInv
<1>3. /\ x.open \in BOOLEAN /\ x.total \in 0 .. MaxPages
      /\ x = [open |-> x.open, held |-> x.held, page |-> x.page, pos |-> x.pos, total |-> x.total, owes |-> x.owes]
  BY <1>2 DEF IterTypes
<1>4. L \subseteq LiveRIDs /\ LiveRIDs \subseteq RIDs /\ \A rid \in L : rid[1] < x.total
  BY DEF LiveRIDs
<1> HIDE DEF x, L
<1>4a. y = [x EXCEPT !.held = 0, !.page = 0, !.pos = -1, !.owes = L]
  OBVIOUS
<1> HIDE DEF y
<1>5. y = [open |-> x.open, held |-> 0, page |-> 0, pos |-> -1, total |-> x.total, owes |-> L]
  BY <1>3, <1>4a
<1>6. -1 \in -1 .. MaxSlots - 1 /\ 0 \in 0 .. MaxPages /\ 0 \in PageNumbers
  BY FileConstants
<1>7. /\ y \in IterTypes /\ y.held = 0 /\ y.page = 0 /\ y.pos = -1 /\ y.owes = L /\ y.total = x.total
  BY <1>3, <1>4, <1>5, <1>6 DEF IterTypes
<1>8. pages = Construct({}) /\ page_count <= page_count
  BY <1>2, ConstructNone
<1>9. IterOK(pages, page_count, y)
  <2>1. \A p \in PageNumbers : LiveSlots(pages[p]) \subseteq LiveSlots(pages[p])
    OBVIOUS
  <2> QED
    BY <1>2, <1>4, <1>7, <1>8, <2>1, BeginsOwing
<1>10. /\ pages' = Construct({}) /\ IterOK(Construct({}), page_count', y)
       /\ page_count' \in 0 .. MaxPages /\ page_count <= page_count'
  BY <1>1, <1>2, <1>8, <1>9
<1> QED
  BY <1>1, <1>10, OneIterator

LEMMA ResetFailsKeeps ==
  ASSUME PointwiseInv, NEW it \in Iters, ResetFails(it)
  PROVE  PointwiseInv'
<1> DEFINE x == iter[it]
           y == [x EXCEPT !.page = 0, !.pos = -1, !.owes = {}]
<1>1. /\ inserting = NoRecord /\ iter' = [iter EXCEPT ![it] = y]
      /\ UNCHANGED <<pages, durable, page_count, last_insert_page, inserting>>
  BY DEF ResetFails, fileVars
<1>2. FilesOK /\ page_count \in 0 .. MaxPages /\ page_count \in Int /\ x \in IterTypes
  BY FileConstants DEF PointwiseInv
<1>3. /\ x.open \in BOOLEAN /\ x.total \in 0 .. MaxPages /\ x.held \in PageNumbers \cup {NoPage}
      /\ x = [open |-> x.open, held |-> x.held, page |-> x.page, pos |-> x.pos, total |-> x.total, owes |-> x.owes]
  BY <1>2 DEF IterTypes
<1> HIDE DEF x
<1>4a. y = [x EXCEPT !.page = 0, !.pos = -1, !.owes = {}]
  OBVIOUS
<1> HIDE DEF y
<1>5. y = [open |-> x.open, held |-> x.held, page |-> 0, pos |-> -1, total |-> x.total, owes |-> {}]
  BY <1>3, <1>4a
<1>6. -1 \in -1 .. MaxSlots - 1 /\ 0 \in 0 .. MaxPages /\ 0 \in PageNumbers
  BY FileConstants
<1>7. y \in IterTypes /\ y.page = 0 /\ y.owes = {}
  BY <1>3, <1>5, <1>6 DEF IterTypes
<1>8. pages = Construct({}) /\ page_count <= page_count /\ IterOK(pages, page_count, y)
  BY <1>2, <1>6, <1>7, ConstructNone, OwesNothing
<1>9. /\ pages' = Construct({}) /\ IterOK(Construct({}), page_count', y)
      /\ page_count' \in 0 .. MaxPages /\ page_count <= page_count'
  BY <1>1, <1>2, <1>8
<1> QED
  BY <1>1, <1>9, OneIterator

(* A closed iterator asks for nothing.                                     *)
LEMMA ClosedOK ==
  /\ Closed \in IterTypes
  /\ \A pgs, count : IterOK(pgs, count, Closed)
<1>1. -1 \in -1 .. MaxSlots - 1 /\ 0 \in 0 .. MaxPages
  BY FileConstants
<1>2. Closed \in IterTypes
  BY <1>1 DEF Closed, IterTypes
<1> QED
  BY <1>2 DEF Closed, IterOK

LEMMA CloseKeeps ==
  ASSUME PointwiseInv, NEW it \in Iters, Close(it)
  PROVE  PointwiseInv'
<1>1. /\ inserting = NoRecord /\ iter' = [iter EXCEPT ![it] = Closed]
      /\ UNCHANGED <<pages, durable, page_count, last_insert_page, inserting>>
  BY DEF Close, fileVars
<1>2. FilesOK /\ page_count \in 0 .. MaxPages /\ page_count \in Int
  BY FileConstants DEF PointwiseInv
<1>3. pages = Construct({}) /\ page_count <= page_count /\ IterOK(pages, page_count, Closed)
  BY <1>2, ConstructNone, ClosedOK
<1>4. /\ pages' = Construct({}) /\ IterOK(Construct({}), page_count', Closed)
      /\ page_count' \in 0 .. MaxPages /\ page_count <= page_count'
  BY <1>1, <1>2, <1>3
<1> QED
  BY <1>1, <1>4, OneIterator

LEMMA WriteBackKeeps ==
  ASSUME PointwiseInv, NEW p \in PageNumbers, WriteBack(p)
  PROVE  PointwiseInv'
<1>1. /\ durable' = [durable EXCEPT ![p] = pages[p]]
      /\ UNCHANGED <<pages, page_count, last_insert_page, inserting, iter>>
  BY DEF WriteBack
<1>2. FilesOK'
  BY <1>1 DEF PointwiseInv, FilesOK
<1>3. RoomWithinBound(inserting)' = RoomWithinBound(inserting)
  BY <1>1 DEF RoomWithinBound
<1> QED
  BY <1>1, <1>2, <1>3 DEF PointwiseInv, InsertFindsRoom

LEMMA NewProcessKeeps ==
  ASSUME PointwiseInv, Restart \/ Crash
  PROVE  PointwiseInv'
<1>1. /\ last_insert_page' = 0 /\ inserting' = NoRecord /\ page_count' = page_count
      /\ iter' = [it \in Iters |-> Closed]
  BY DEF Restart, Crash, NewHeapFile
<1>2. FilesOK'
  BY DEF PointwiseInv, FilesOK, Restart, Crash
<1>3. iter' \in [Iters -> IterTypes] /\ \A it \in Iters : IterOK(pages', page_count', iter'[it])
  BY <1>1, ClosedOK
<1> QED
  BY <1>1, <1>2, <1>3, FileConstants DEF PointwiseInv, InsertFindsRoom

LEMMA NothingKeeps ==
  ASSUME PointwiseInv, UNCHANGED vars
  PROVE  PointwiseInv'
<1>1. UNCHANGED <<pages, durable, page_count, last_insert_page, inserting, iter>>
  BY DEF vars, fileVars
<1>2. RoomWithinBound(inserting)' = RoomWithinBound(inserting)
  BY <1>1 DEF RoomWithinBound
<1> QED
  BY <1>1, <1>2 DEF PointwiseInv, FilesOK, InsertFindsRoom

LEMMA PointwiseNext == PointwiseInv /\ [Next]_vars => PointwiseInv'
<1> SUFFICES ASSUME PointwiseInv, [Next]_vars PROVE PointwiseInv'
  OBVIOUS
<1>1. ASSUME NEW r \in Records, InsertBegin(r) PROVE PointwiseInv'
  BY <1>1, InsertBeginKeeps
<1>2. CASE InsertHere
  BY <1>2, InsertHereKeeps
<1>3. CASE InsertMove
  BY <1>3, InsertMoveKeeps
<1>4. CASE InsertMoveFails
  BY <1>4, InsertMoveFailsKeeps
<1>5. ASSUME NEW rid \in RIDs, Delete(rid) PROVE PointwiseInv'
  BY <1>5, DeleteKeeps
<1>6. CASE VacuumFile \/ \E n \in PageNumbers : VacuumFails(n)
  BY <1>6, VacuumKeeps
<1>7. ASSUME NEW it \in Iters, Open(it) PROVE PointwiseInv'
  BY <1>7, OpenKeeps
<1>8. ASSUME NEW it \in Iters, NextRecord(it) PROVE PointwiseInv'
  BY <1>8, NextRecordKeeps
<1>9. ASSUME NEW it \in Iters, NEW p \in PageNumbers, NextFails(it, p) PROVE PointwiseInv'
  BY <1>9, NextFailsKeeps
<1>10. ASSUME NEW it \in Iters, Reset(it) PROVE PointwiseInv'
  BY <1>10, ResetKeeps
<1>11. ASSUME NEW it \in Iters, ResetFails(it) PROVE PointwiseInv'
  BY <1>11, ResetFailsKeeps
<1>12. ASSUME NEW it \in Iters, Close(it) PROVE PointwiseInv'
  BY <1>12, CloseKeeps
<1>13. ASSUME NEW p \in PageNumbers, WriteBack(p) PROVE PointwiseInv'
  BY <1>13, WriteBackKeeps
<1>14. CASE Restart \/ Crash
  BY <1>14, NewProcessKeeps
<1>15. CASE UNCHANGED vars
  BY <1>15, NothingKeeps
<1> QED
  BY <1>1, <1>2, <1>3, <1>4, <1>5, <1>6, <1>7, <1>8, <1>9, <1>10, <1>11, <1>12, <1>13, <1>14, <1>15 DEF Next

(* The inductive invariant holds: an insert that began still has a page to *)
(* come to, and a scan still has in front of it what it owes               *)
(* (heap_file.cc:8-43, heap_file_iter.cc:8-50).                            *)
THEOREM Invariance == Spec => []IInv
<1>1. Init => PointwiseInv
  BY PointwiseInit
<1>2. PointwiseInv /\ [Next]_vars => PointwiseInv'
  BY PointwiseNext
<1>3. PointwiseInv => IInv
  BY PointwiseIsIInv
<1> QED
  BY <1>1, <1>2, <1>3, PTL DEF Spec

(* Every variable keeps its shape.                                         *)
THEOREM TypeCorrect == Spec => []TypeOK
  BY Invariance, PTL DEF IInv

(* Inserts, deletes, slot reuse, vacuums and crashes keep the layout of    *)
(* every page (heap_file_page.cc:80-187), for pages, records and files of  *)
(* any size.                                                               *)
THEOREM LayoutSurvives == Spec => []LayoutOK
  BY Invariance, PTL DEF IInv

(* A finished scan has returned every record that was there from its       *)
(* beginning to its end (heap_file_iter.cc:21-50), for any number of       *)
(* iterators over a file of any size.                                      *)
THEOREM ScansAreComplete == Spec => []ScanComplete
  BY Invariance, PTL DEF IInv

(* vacuum gives back all the space deleted records and their slots took.   *)
LEMMA VacuumFileReclaims ==
  ASSUME PointwiseInv, VacuumFile, NEW p \in PageNumbers, p < page_count
  PROVE  Reclaimed(pages[p], pages'[p])
<1> DEFINE q == Constructed(pages[p])
<1>1. FilesOK /\ page_count \in Int /\ VacuumTo(page_count)
  BY FileConstants DEF PointwiseInv, VacuumFile
<1>2. /\ PageOK(pages[p]) /\ PageOK(q) /\ pages'[p] = Vacuumed(q)
      /\ LiveSlots(q) = LiveSlots(pages[p])
      /\ \A i \in LiveSlots(pages[p]) : RecordOf(q, i) = RecordOf(pages[p], i)
  BY <1>1, ConstructedOK, VacuumToFiles DEF FilesOK
<1>3. Reclaimed(q, pages'[p])
  BY <1>2, VacuumedOK
<1>4. ASSUME NEW i \in LiveSlots(pages[p]) PROVE Extent(q, i) = Extent(pages[p], i)
  <2>1. q = pages[p]
    BY <1>2 DEF Constructed, LiveSlots, Slots
  <2> QED
    BY <2>1
<1>5. RecordCells(q) = RecordCells(pages[p])
  BY <1>2, <1>4 DEF RecordCells
<1> QED
  BY <1>2, <1>3, <1>5 DEF Reclaimed

(* vacuum gives back all the space deleted records and their slots took    *)
(* (heap_file_page.cc:146-187), on every page of a file of any size.       *)
THEOREM VacuumGivesBack == Spec => VacuumReclaims
<1>1. Init => PointwiseInv
  BY PointwiseInit
<1>2. PointwiseInv /\ [Next]_vars => PointwiseInv'
  BY PointwiseNext
<1>3. PointwiseInv /\ [Next]_vars =>
        [VacuumFile => \A p \in PageNumbers : p < page_count => Reclaimed(pages[p], pages'[p])]_vars
  BY VacuumFileReclaims
<1> QED
  BY <1>1, <1>2, <1>3, PTL DEF Spec, VacuumReclaims

-----------------------------------------------------------------------------
(***************************************************************************)
(* The file as the table of records HeapStore describes.                   *)
(***************************************************************************)
AllOK(pgs) == \A p \in PageNumbers : PageOK(pgs[p])

(* The RIDs of the records in pages pgs.                                   *)
Live(pgs) == {rid \in RIDs : rid[2] \in LiveSlots(pgs[rid[1]])}

(* The map of RIDs to records that a file stands for.                      *)
LEMMA ContentsAre ==
  ASSUME NEW pgs, AllOK(pgs)
  PROVE  /\ Contents(pgs) = [rid \in Live(pgs) |-> RecordOf(pgs[rid[1]], rid[2])]
         /\ DOMAIN Contents(pgs) = Live(pgs)
         /\ \A rid \in Live(pgs) : Contents(pgs)[rid] = RecordOf(pgs[rid[1]], rid[2])
<1>1. ASSUME NEW p \in PageNumbers PROVE LiveSlots(pgs[p]) \subseteq 0 .. MaxSlots - 1
  BY PageFacts DEF AllOK, LiveSlots
<1>2. UNION {{p} \X LiveSlots(pgs[p]) : p \in PageNumbers} = Live(pgs)
  <2>1. ASSUME NEW x \in UNION {{p} \X LiveSlots(pgs[p]) : p \in PageNumbers} PROVE x \in Live(pgs)
    <3>1. PICK p \in PageNumbers : x \in {p} \X LiveSlots(pgs[p])
      OBVIOUS
    <3>2. x = <<p, x[2]>> /\ x[1] = p /\ x[2] \in LiveSlots(pgs[p])
      BY <3>1
    <3> QED
      BY <1>1, <3>2, FileConstants DEF Live
  <2>2. ASSUME NEW x \in Live(pgs) PROVE x \in UNION {{p} \X LiveSlots(pgs[p]) : p \in PageNumbers}
    <3>1. x[1] \in PageNumbers /\ x[2] \in LiveSlots(pgs[x[1]]) /\ x = <<x[1], x[2]>>
      BY FileConstants DEF Live
    <3>2. x \in {x[1]} \X LiveSlots(pgs[x[1]])
      BY <3>1
    <3> QED
      BY <3>1, <3>2
  <2> QED
    BY <2>1, <2>2
<1> QED
  BY <1>2 DEF Contents, RecordOf

(* Files with the same slots and records stand for the same map.           *)
LEMMA SameContents ==
  ASSUME NEW pgs, NEW qgs, AllOK(pgs), AllOK(qgs),
         \A p \in PageNumbers : LiveSlots(pgs[p]) = LiveSlots(qgs[p])
                                /\ \A i \in LiveSlots(pgs[p]) : RecordOf(pgs[p], i) = RecordOf(qgs[p], i)
  PROVE  Contents(pgs) = Contents(qgs)
<1>1. Live(pgs) = Live(qgs)
  BY FileConstants DEF Live
<1>2. ASSUME NEW rid \in Live(pgs) PROVE RecordOf(pgs[rid[1]], rid[2]) = RecordOf(qgs[rid[1]], rid[2])
  BY FileConstants DEF Live
<1> DEFINE P == Live(pgs)
           v(rid) == RecordOf(pgs[rid[1]], rid[2])
           w(rid) == RecordOf(qgs[rid[1]], rid[2])
<1>3. Contents(pgs) = [rid \in P |-> v(rid)] /\ Contents(qgs) = [rid \in P |-> w(rid)]
  BY <1>1, ContentsAre
<1>4. \A rid \in P : v(rid) = w(rid)
  BY <1>2
<1> HIDE DEF P, v, w
<1> QED
  BY <1>3, <1>4

LEMMA AllPagesOK ==
  ASSUME PointwiseInv
  PROVE  AllOK(pages) /\ AllOK(durable)
  BY DEF PointwiseInv, FilesOK, AllOK

(* Pages are constructed at most.                                          *)
LEMMA ConstructRefines ==
  ASSUME PointwiseInv, PointwiseInv', NEW P, pages' = Construct(P), durable' = durable
  PROVE  UNCHANGED <<Contents(pages), Contents(durable)>>
<1>1. FilesOK /\ AllOK(pages) /\ AllOK(Construct(P))
  BY AllPagesOK, ConstructFiles DEF PointwiseInv, AllOK
<1>2. Contents(Construct(P)) = Contents(pages)
  BY <1>1, ConstructFiles, SameContents
<1>3. Contents(pages)' = Contents(Construct(P)) /\ Contents(durable)' = Contents(durable)
  BY DEF Contents
<1> QED
  BY <1>2, <1>3

LEMMA HeapRIDs == Abstract!RIDs = RIDs /\ PageNumbers = 0 .. MaxPages - 1
  BY DEF Abstract!RIDs, RIDs, PageNumbers

(* Each step of the heap file is one of HeapStore: this one inserts.       *)
LEMMA InsertRefines ==
  ASSUME PointwiseInv, PointwiseInv', InsertHere
  PROVE  \E rid \in RIDs, r \in Records : Abstract!Insert(rid, r)
<1> DEFINE p == last_insert_page
           s == SlotFor(pages[p])
           rid == <<p, s>>
           r == inserting
           w(x) == IF x = rid THEN r ELSE RecordOf(pages[x[1]], x[2])
           L == Live(pages)
<1>1. /\ r \in Records /\ Fits(pages[p], r) /\ pages' = [pages EXCEPT ![p] = Inserted(pages[p], r)]
      /\ durable' = durable
  BY DEF InsertHere, PointwiseInv
<1>2. FilesOK /\ p \in PageNumbers /\ PageOK(pages[p]) /\ AllOK(pages) /\ AllOK(pages')
  BY AllPagesOK DEF PointwiseInv, FilesOK, AllOK
<1>3. /\ s \in 0 .. MaxSlots - 1 /\ s \notin LiveSlots(pages[p])
      /\ LiveSlots(Inserted(pages[p], r)) = LiveSlots(pages[p]) \cup {s}
      /\ RecordOf(Inserted(pages[p], r), s) = r
      /\ \A j \in LiveSlots(pages[p]) : RecordOf(Inserted(pages[p], r), j) = RecordOf(pages[p], j)
  BY <1>1, <1>2, InsertedOK
<1>4. \A q \in PageNumbers : pages'[q] = IF q = p THEN Inserted(pages[p], r) ELSE pages[q]
  BY <1>1, <1>2 DEF FilesOK
<1> HIDE DEF s, r, p
<1>5. rid \in RIDs /\ rid[1] = p /\ rid[2] = s /\ rid \notin L
  BY <1>2, <1>3, FileConstants DEF Live
<1>6. ASSUME NEW x \in RIDs, x # rid
      PROVE  /\ x[2] \in LiveSlots(pages'[x[1]]) <=> x[2] \in LiveSlots(pages[x[1]])
             /\ x[2] \in LiveSlots(pages[x[1]]) => RecordOf(pages'[x[1]], x[2]) = RecordOf(pages[x[1]], x[2])
  <2>1. x[1] \in PageNumbers /\ x = <<x[1], x[2]>>
    BY FileConstants
  <2>2. CASE x[1] = p
    BY <1>3, <1>4, <1>6, <2>1, <2>2
  <2>3. CASE x[1] # p
    BY <1>4, <2>1, <2>3
  <2> QED
    BY <2>2, <2>3
<1>7. rid[2] \in LiveSlots(pages'[rid[1]]) /\ RecordOf(pages'[rid[1]], rid[2]) = r
  BY <1>2, <1>3, <1>4, <1>5
<1> HIDE DEF rid
<1>8. Live(pages') = L \cup {rid}
  BY <1>5, <1>6, <1>7 DEF Live
<1>9. \A x \in L \cup {rid} : RecordOf(pages'[x[1]], x[2]) = w(x)
  BY <1>6, <1>7 DEF Live
<1>10. /\ Contents(pages') = [x \in L \cup {rid} |-> RecordOf(pages'[x[1]], x[2])]
       /\ DOMAIN Contents(pages) = L /\ \A x \in L : Contents(pages)[x] = RecordOf(pages[x[1]], x[2])
  BY <1>2, <1>8, ContentsAre
<1> HIDE DEF L
<1>11. Contents(pages') = [x \in DOMAIN Contents(pages) \cup {rid} |-> IF x = rid THEN r ELSE Contents(pages)[x]]
  BY <1>9, <1>10
<1>12. Contents(pages)' = Contents(pages') /\ Contents(durable)' = Contents(durable)
  BY <1>1 DEF Contents
<1>13. Abstract!Insert(rid, r)
  BY <1>5, <1>10, <1>11, <1>12 DEF Abstract!Insert
<1> QED
  BY <1>1, <1>5, <1>13

LEMMA DeleteRefines ==
  ASSUME PointwiseInv, PointwiseInv', NEW rid \in RIDs, Delete(rid)
  PROVE  Abstract!Delete(rid)
<1> DEFINE p == rid[1]
           i == rid[2]
           L == Live(pages)
<1>1. i \in Slots(pages[p]) /\ pages' = [pages EXCEPT ![p] = Deleted(pages[p], i)] /\ durable' = durable
  BY DEF Delete
<1>2. FilesOK /\ AllOK(pages) /\ AllOK(pages') /\ p \in PageNumbers /\ PageOK(pages[p])
  BY FileConstants, AllPagesOK DEF PointwiseInv, FilesOK, AllOK
<1>3. /\ LiveSlots(Deleted(pages[p], i)) = LiveSlots(pages[p]) \ {i}
      /\ \A j \in LiveSlots(pages[p]) \ {i} : RecordOf(Deleted(pages[p], i), j) = RecordOf(pages[p], j)
  BY <1>1, <1>2, DeletedOK
<1>4. \A q \in PageNumbers : pages'[q] = IF q = p THEN Deleted(pages[p], i) ELSE pages[q]
  BY <1>1, <1>2 DEF FilesOK
<1>5. rid = <<p, i>>
  BY FileConstants
<1> HIDE DEF p, i
<1>6. ASSUME NEW x \in RIDs
      PROVE  /\ x[2] \in LiveSlots(pages'[x[1]]) <=> x[2] \in LiveSlots(pages[x[1]]) /\ x # rid
             /\ x[2] \in LiveSlots(pages'[x[1]]) => RecordOf(pages'[x[1]], x[2]) = RecordOf(pages[x[1]], x[2])
  <2>1. x[1] \in PageNumbers /\ x = <<x[1], x[2]>>
    BY FileConstants
  <2>2. CASE x[1] = p
    BY <1>3, <1>4, <1>5, <2>1, <2>2
  <2>3. CASE x[1] # p
    BY <1>4, <1>5, <2>1, <2>3
  <2> QED
    BY <2>2, <2>3
<1>7. Live(pages') = L \ {rid}
  BY <1>6 DEF Live
<1>8. \A x \in L \ {rid} : RecordOf(pages'[x[1]], x[2]) = RecordOf(pages[x[1]], x[2])
  BY <1>6 DEF Live
<1>9. /\ Contents(pages') = [x \in L \ {rid} |-> RecordOf(pages'[x[1]], x[2])]
      /\ DOMAIN Contents(pages) = L /\ \A x \in L : Contents(pages)[x] = RecordOf(pages[x[1]], x[2])
  BY <1>2, <1>7, ContentsAre
<1> HIDE DEF L
<1>10. Contents(pages') = [x \in DOMAIN Contents(pages) \ {rid} |-> Contents(pages)[x]]
  BY <1>8, <1>9
<1>11. Contents(pages)' = Contents(pages') /\ Contents(durable)' = Contents(durable)
  BY <1>1 DEF Contents
<1> QED
  BY <1>10, <1>11 DEF Abstract!Delete, Restrict, Abstract!Restrict

(* A page that is written back is saved, with all its records.             *)
LEMMA WriteBackRefines ==
  ASSUME PointwiseInv, PointwiseInv', NEW W, pages' = pages,
         \A p \in PageNumbers : durable'[p] = IF p \in W THEN pages[p] ELSE durable[p]
  PROVE  Abstract!WriteBack(W) /\ UNCHANGED Contents(pages)
<1> DEFINE L == Live(pages)
           S == Live(durable)
           written == {x \in L : x[1] \in W}
           kept == {x \in S : x[1] \notin W}
<1>1. AllOK(pages) /\ AllOK(durable) /\ AllOK(durable')
  BY AllPagesOK DEF PointwiseInv, FilesOK, AllOK
<1>2. \A x \in RIDs : x[1] \in PageNumbers
  BY FileConstants
<1>3. Live(durable') = written \cup kept
  BY <1>2 DEF Live
<1>4. \A x \in written \cup kept :
        /\ x \in RIDs
        /\ x[1] \in W => x \in L /\ RecordOf(durable'[x[1]], x[2]) = RecordOf(pages[x[1]], x[2])
        /\ x[1] \notin W => x \in S /\ RecordOf(durable'[x[1]], x[2]) = RecordOf(durable[x[1]], x[2])
  BY <1>2 DEF Live
<1>5. /\ Contents(durable') = [x \in Live(durable') |-> RecordOf(durable'[x[1]], x[2])]
      /\ DOMAIN Contents(pages) = L /\ \A x \in L : Contents(pages)[x] = RecordOf(pages[x[1]], x[2])
      /\ DOMAIN Contents(durable) = S /\ \A x \in S : Contents(durable)[x] = RecordOf(durable[x[1]], x[2])
  BY <1>1, ContentsAre
<1> HIDE DEF L, S
<1>6. Contents(durable') =
        [x \in written \cup kept |-> IF x[1] \in W THEN Contents(pages)[x] ELSE Contents(durable)[x]]
  <2> HIDE DEF written, kept
  <2>1. \A x \in written \cup kept :
          RecordOf(durable'[x[1]], x[2]) = IF x[1] \in W THEN Contents(pages)[x] ELSE Contents(durable)[x]
    BY <1>4, <1>5
  <2> QED
    BY <1>3, <1>5, <2>1
<1>7. Contents(pages)' = Contents(pages) /\ Contents(durable)' = Contents(durable')
  BY DEF Contents
<1> QED
  BY <1>5, <1>6, <1>7 DEF Abstract!WriteBack

LEMMA CrashRefines ==
  ASSUME Crash
  PROVE  Abstract!CrashHeap
<1>1. pages' = durable /\ durable' = durable
  BY DEF Crash
<1>2. Contents(pages)' = Contents(durable) /\ Contents(durable)' = Contents(durable)
  BY <1>1 DEF Contents
<1> QED
  BY <1>2 DEF Abstract!CrashHeap

LEMMA InitRefines == Init => Abstract!HeapInit
<1> SUFFICES ASSUME Init PROVE Abstract!HeapInit
  OBVIOUS
<1>1. \A p \in PageNumbers : pages[p] = ZeroPage /\ durable[p] = ZeroPage
  BY DEF Init
<1>2. LiveSlots(ZeroPage) = {}
  <2>1. DirCount(ZeroPage) = 0
    BY ConstantsTyped DEF DirCount, ZeroPage, Int32
  <2> QED
    BY <2>1 DEF LiveSlots, Slots
<1>3. AllOK(pages) /\ AllOK(durable)
  BY <1>1, ZeroPageOK DEF AllOK
<1>4. Live(pages) = {} /\ Live(durable) = {}
  BY <1>1, <1>2, FileConstants DEF Live
<1>5. /\ Contents(pages) = [rid \in {} |-> RecordOf(pages[rid[1]], rid[2])]
      /\ Contents(durable) = [rid \in {} |-> RecordOf(durable[rid[1]], rid[2])]
  BY <1>3, <1>4, ContentsAre
<1>6. Contents(pages) = [rid \in {} |-> {}] /\ Contents(durable) = [rid \in {} |-> {}]
  BY <1>5
<1> QED
  BY <1>6 DEF Abstract!HeapInit, Abstract!NoRecords

(* The slot a record gets is the number of records before it on its page.  *)
LEMMA RankCounts ==
  ASSUME AllOK(pages), NEW rid \in Live(pages)
  PROVE  Cardinality({x \in Live(pages) : x[1] = rid[1] /\ x[2] < rid[2]}) = Rank(Constructed(pages[rid[1]]), rid[2])
<1> DEFINE p == rid[1]
           i == rid[2]
           B == Before(Constructed(pages[p]), i)
           C == {x \in Live(pages) : x[1] = p /\ x[2] < i}
           f == [j \in B |-> <<p, j>>]
<1>1. p \in PageNumbers /\ i \in LiveSlots(pages[p]) /\ PageOK(pages[p]) /\ i \in Nat
  BY FileConstants DEF AllOK, Live
<1>2. PageOK(Constructed(pages[p])) /\ LiveSlots(Constructed(pages[p])) = LiveSlots(pages[p])
  BY <1>1, ConstructedOK
<1>3. IsFiniteSet(B)
  BY <1>1, <1>2, BeforeCounted
<1>4. B = {j \in LiveSlots(pages[p]) : j < i} /\ LiveSlots(pages[p]) \subseteq 0 .. MaxSlots - 1
  BY <1>1, <1>2, PageFacts DEF Before, LiveSlots
<1>5. \A j \in B : <<p, j>> \in C
  BY <1>1, <1>4, FileConstants DEF Live
<1>6. \A x \in C : x[2] \in B /\ x = <<p, x[2]>>
  BY <1>4, FileConstants DEF Live
<1> HIDE DEF B, C
<1>7. f \in Bijection(B, C)
  <2>1. f \in [B -> C]
    BY <1>5
  <2>2. \A j, k \in B : f[j] = f[k] => j = k
    OBVIOUS
  <2>3. \A x \in C : \E j \in B : f[j] = x
    BY <1>6
  <2> HIDE DEF f
  <2> QED
    BY <2>1, <2>2, <2>3 DEF Bijection, Injection, IsInjective, Surjection
<1>8. Cardinality(C) = Cardinality(B)
  <2> HIDE DEF f
  <2> QED
    BY <1>3, <1>7, FS_Bijection DEF ExistsBijection
<1> QED
  BY <1>8 DEF Rank, B, C

(* vacuum is the renumbering HeapStore describes: the slots it packs are   *)
(* the ranks of the live ones.                                             *)
LEMMA VacuumRefines ==
  ASSUME PointwiseInv, PointwiseInv', NEW n \in Int, VacuumTo(n)
  PROVE  Abstract!Vacuum(n)
<1> DEFINE L == DOMAIN Contents(pages)
           Rk(rid) == Abstract!Cardinality({x \in L : x[1] = rid[1] /\ x[2] < rid[2]})
           Moved(rid) == IF rid[1] < n THEN <<rid[1], Rk(rid)>> ELSE rid
           M == {Moved(rid) : rid \in L}
           Rec(rid) == RecordOf(pages[rid[1]], rid[2])
           New(x) == RecordOf(pages'[x[1]], x[2])
<1>1. FilesOK /\ AllOK(pages) /\ AllOK(pages') /\ durable' = durable
  BY AllPagesOK DEF PointwiseInv, FilesOK, AllOK, VacuumTo
<1>2. \A p \in PageNumbers : pages'[p] = IF p < n THEN Vacuumed(Constructed(pages[p])) ELSE pages[p]
  BY <1>1, VacuumToFiles
<1>0. L = Live(pages)
  BY <1>1, ContentsAre
<1>3. \A rid \in L : Rk(rid) = Rank(Constructed(pages[rid[1]]), rid[2])
  <2>1. \A S : Abstract!Cardinality(S) = Cardinality(S)
    BY DEF Abstract!Cardinality, Cardinality
  <2> QED
    BY <1>0, <1>1, <2>1, RankCounts
<1>4. ASSUME NEW p \in PageNumbers, p < n
      PROVE  /\ LiveSlots(pages'[p]) \subseteq 0 .. MaxSlots - 1
             /\ \A j \in LiveSlots(pages[p]) :
                  /\ Rank(Constructed(pages[p]), j) \in LiveSlots(pages'[p])
                  /\ RecordOf(pages'[p], Rank(Constructed(pages[p]), j)) = RecordOf(pages[p], j)
             /\ \A k \in LiveSlots(pages'[p]) :
                  \E j \in LiveSlots(pages[p]) : Rank(Constructed(pages[p]), j) = k
  <2>1. PageOK(pages[p]) /\ PageOK(Constructed(pages[p])) /\ PageOK(pages'[p])
    BY <1>1, ConstructedOK DEF AllOK
  <2>2. /\ LiveSlots(Constructed(pages[p])) = LiveSlots(pages[p])
        /\ \A j \in LiveSlots(pages[p]) : RecordOf(Constructed(pages[p]), j) = RecordOf(pages[p], j)
    BY <2>1, ConstructedOK
  <2>3. pages'[p] = Vacuumed(Constructed(pages[p]))
    BY <1>2, <1>4
  <2>4. LiveSlots(pages'[p]) \subseteq 0 .. MaxSlots - 1
    BY <2>1, PageFacts DEF LiveSlots
  <2> QED
    BY <2>1, <2>2, <2>3, <2>4, VacuumedOK
<1>5. \A rid \in L : rid \in RIDs /\ rid[1] \in PageNumbers /\ rid[2] \in LiveSlots(pages[rid[1]]) /\ rid = <<rid[1], rid[2]>>
  BY <1>0, FileConstants DEF Live
<1>6. \A x : x \in Live(pages') <=> x \in RIDs /\ x[2] \in LiveSlots(pages'[x[1]])
  BY DEF Live
<1>7. \A rid \in RIDs : rid \in L <=> rid[2] \in LiveSlots(pages[rid[1]])
  BY <1>0 DEF Live
<1> HIDE DEF L, Rk
<1>8. ASSUME NEW rid \in L
      PROVE  Moved(rid) \in Live(pages') /\ New(Moved(rid)) = Rec(rid)
  <2>1. rid \in RIDs /\ rid[1] \in PageNumbers /\ rid[2] \in LiveSlots(pages[rid[1]])
    BY <1>5
  <2>2. CASE rid[1] < n
    <3> DEFINE p == rid[1]
               k == Rk(rid)
    <3>1. Moved(rid) = <<p, k>>
      BY <2>2
    <3>2. k = Rank(Constructed(pages[p]), rid[2])
      BY <1>3
    <3>3. k \in LiveSlots(pages'[p]) /\ RecordOf(pages'[p], k) = RecordOf(pages[p], rid[2]) /\ k \in 0 .. MaxSlots - 1
      BY <1>4, <2>1, <2>2, <3>2
    <3>4. <<p, k>> \in RIDs
      BY <2>1, <3>3, FileConstants
    <3> HIDE DEF k, Moved
    <3> QED
      BY <1>6, <3>1, <3>3, <3>4
  <2>3. CASE ~ (rid[1] < n)
    <3>1. Moved(rid) = rid /\ pages'[rid[1]] = pages[rid[1]]
      BY <1>2, <2>1, <2>3
    <3> HIDE DEF Moved
    <3> QED
      BY <1>6, <2>1, <3>1
  <2> QED
    BY <2>2, <2>3
<1>9. ASSUME NEW x \in Live(pages')
      PROVE  \E rid \in L : Moved(rid) = x
  <2>1. x \in RIDs /\ x[1] \in PageNumbers /\ x[2] \in LiveSlots(pages'[x[1]]) /\ x = <<x[1], x[2]>>
    BY <1>6, FileConstants
  <2>2. CASE x[1] < n
    <3>1. PICK j \in LiveSlots(pages[x[1]]) : Rank(Constructed(pages[x[1]]), j) = x[2]
      BY <1>4, <2>1, <2>2
    <3>2. j \in 0 .. MaxSlots - 1
      BY <1>1, <2>1, PageFacts DEF AllOK, LiveSlots
    <3> DEFINE rid == <<x[1], j>>
    <3>3. rid \in RIDs /\ rid[1] = x[1] /\ rid[2] = j
      BY <2>1, <3>2, FileConstants
    <3> HIDE DEF rid
    <3>4. rid \in L
      BY <1>7, <3>3
    <3>5. Rk(rid) = x[2]
      BY <1>3, <3>1, <3>3, <3>4
    <3>6. Moved(rid) = x
      BY <2>1, <2>2, <3>3, <3>5
    <3> QED
      BY <3>4, <3>6
  <2>3. CASE ~ (x[1] < n)
    <3>1. x \in L /\ Moved(x) = x
      BY <1>2, <1>7, <2>1, <2>3
    <3> QED
      BY <3>1
  <2> QED
    BY <2>2, <2>3
<1>10. Live(pages') = M
  <2> HIDE DEF Moved
  <2> QED
    BY <1>8, <1>9
<1>11. ASSUME NEW x \in M
       PROVE  New(x) = Rec(CHOOSE rid \in L : Moved(rid) = x)
  <2> DEFINE c == CHOOSE rid \in L : Moved(rid) = x
  <2> HIDE DEF Moved
  <2>1. \E rid \in L : Moved(rid) = x
    OBVIOUS
  <2>2. c \in L /\ Moved(c) = x
    BY <2>1
  <2> HIDE DEF c
  <2>3. New(x) = Rec(c)
    BY <1>8, <2>2
  <2> QED
    BY <2>3 DEF c
<1>12. /\ Contents(pages') = [x \in Live(pages') |-> New(x)]
       /\ \A x \in L : Contents(pages)[x] = Rec(x)
  BY <1>0, <1>1, ContentsAre
<1>13. Contents(pages') = [x \in M |-> Contents(pages)[CHOOSE rid \in L : Moved(rid) = x]]
  <2> HIDE DEF Moved, New, Rec
  <2>1. ASSUME NEW x \in M PROVE New(x) = Contents(pages)[CHOOSE rid \in L : Moved(rid) = x]
    <3>1. \E rid \in L : Moved(rid) = x
      OBVIOUS
    <3>2. (CHOOSE rid \in L : Moved(rid) = x) \in L
      BY <3>1
    <3> QED
      BY <1>11, <1>12, <3>2
  <2> HIDE DEF M
  <2> QED
    BY <1>10, <1>12, <2>1
<1>14. Contents(pages)' = Contents(pages') /\ Contents(durable)' = Contents(durable)
  BY <1>1 DEF Contents
<1> QED
  BY <1>13, <1>14 DEF Abstract!Vacuum, Rk, L

(* Every step of the file is a step of the table of records, or is not     *)
(* visible there.                                                          *)
LEMMA NextRefines == PointwiseInv /\ PointwiseInv' /\ [Next]_vars => [Abstract!HeapNext]_Abstract!heapVars
<1> SUFFICES ASSUME PointwiseInv, PointwiseInv', [Next]_vars
             PROVE  [Abstract!HeapNext]_Abstract!heapVars
  OBVIOUS
<1>a. /\ Abstract!RIDs = RIDs /\ PageNumbers = 0 .. MaxPages - 1
      /\ Abstract!heapVars = <<Contents(pages), Contents(durable)>>
  BY HeapRIDs DEF Abstract!heapVars
<1>b. FilesOK /\ page_count \in 0 .. MaxPages /\ PageNumbers \subseteq 0 .. MaxPages /\ \A n \in 0 .. MaxPages : n \in Int
  BY FileConstants DEF PointwiseInv
<1>c. ASSUME UNCHANGED <<Contents(pages), Contents(durable)>> PROVE [Abstract!HeapNext]_Abstract!heapVars
  BY <1>c DEF Abstract!heapVars
<1>d. ASSUME NEW P, pages' = Construct(P), durable' = durable PROVE [Abstract!HeapNext]_Abstract!heapVars
  BY <1>c, <1>d, ConstructRefines
<1>e. ASSUME pages' = pages, durable' = durable PROVE [Abstract!HeapNext]_Abstract!heapVars
  BY <1>b, <1>d, <1>e, ConstructNone
<1>1. ASSUME NEW r \in Records, InsertBegin(r) PROVE [Abstract!HeapNext]_Abstract!heapVars
  BY <1>1, <1>d DEF InsertBegin
<1>2. CASE InsertHere
  BY <1>2, <1>a, InsertRefines DEF Abstract!HeapNext
<1>3. CASE InsertMove
  BY <1>3, <1>d DEF InsertMove
<1>4. CASE InsertMoveFails
  BY <1>4, <1>e DEF InsertMoveFails, fileVars
<1>5. ASSUME NEW rid \in RIDs, Delete(rid) PROVE [Abstract!HeapNext]_Abstract!heapVars
  BY <1>5, <1>a, DeleteRefines DEF Abstract!HeapNext
<1>6. ASSUME NEW n \in 0 .. MaxPages, VacuumTo(n) PROVE [Abstract!HeapNext]_Abstract!heapVars
  BY <1>6, <1>b, VacuumRefines DEF Abstract!HeapNext
<1>7. CASE VacuumFile \/ \E n \in PageNumbers : VacuumFails(n)
  BY <1>6, <1>7, <1>b DEF VacuumFile, VacuumFails
<1>8. ASSUME NEW it \in Iters, Open(it) PROVE [Abstract!HeapNext]_Abstract!heapVars
  BY <1>8, <1>d DEF Open
<1>9. ASSUME NEW it \in Iters, NextRecord(it) PROVE [Abstract!HeapNext]_Abstract!heapVars
  BY <1>9, <1>d DEF NextRecord
<1>10. ASSUME NEW it \in Iters, NEW p \in PageNumbers, NextFails(it, p) PROVE [Abstract!HeapNext]_Abstract!heapVars
  BY <1>10, <1>d DEF NextFails
<1>11. ASSUME NEW it \in Iters, Reset(it) \/ ResetFails(it) \/ Close(it) PROVE [Abstract!HeapNext]_Abstract!heapVars
  BY <1>11, <1>e DEF Reset, ResetFails, Close, fileVars
<1>12. ASSUME NEW W \in SUBSET PageNumbers, pages' = pages,
              \A p \in PageNumbers : durable'[p] = IF p \in W THEN pages[p] ELSE durable[p]
       PROVE  [Abstract!HeapNext]_Abstract!heapVars
  BY <1>12, <1>a, WriteBackRefines DEF Abstract!HeapNext
<1>13. ASSUME NEW p \in PageNumbers, WriteBack(p) PROVE [Abstract!HeapNext]_Abstract!heapVars
  <2>1. \A q \in PageNumbers : durable'[q] = IF q \in {p} THEN pages[q] ELSE durable[q]
    BY <1>13, <1>b DEF WriteBack, FilesOK
  <2> QED
    BY <1>12, <1>13, <2>1 DEF WriteBack
<1>14. CASE Restart
  BY <1>12, <1>14 DEF Restart
<1>15. CASE Crash
  BY <1>15, CrashRefines DEF Abstract!HeapNext
<1>16. CASE UNCHANGED vars
  BY <1>16, <1>e DEF vars, fileVars
<1> QED
  BY <1>1, <1>2, <1>3, <1>4, <1>5, <1>7, <1>8, <1>9, <1>10, <1>11, <1>13, <1>14, <1>15, <1>16 DEF Next

(* The heap file is the table of records HeapStore describes: an insert    *)
(* takes a RID no record has, a record keeps its RID until it is deleted   *)
(* or its page is vacuumed, a vacuum renumbers and loses none, and a crash *)
(* leaves what was written back (heap_file.cc, heap_file_page.cc).         *)
THEOREM Refinement == Spec => ImplementsHeapStore
<1>1. Abstract!HeapSpec <=> Abstract!HeapInit /\ [][Abstract!HeapNext]_Abstract!heapVars
  BY DEF Abstract!HeapSpec
<1>2. Init => PointwiseInv
  BY PointwiseInit
<1>3. PointwiseInv /\ [Next]_vars => PointwiseInv'
  BY PointwiseNext
<1> QED
  BY <1>1, <1>2, <1>3, InitRefines, NextRefines, PTL DEF Spec, ImplementsHeapStore

=============================================================================
