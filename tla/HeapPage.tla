------------------------------ MODULE HeapPage ------------------------------
(***************************************************************************)
(* A slotted page of a heap file (src/storage/heap_file/heap_file_page.cc) *)
(* as the bytes it is: cell 0 is dir_count, cell 1 free_space, cells 2 on  *)
(* are the directory, and the records grow from the end of the page        *)
(* towards it.  A cell stands for 4 bytes: an integer, or one piece of a   *)
(* record.  Nothing here keeps directory and records apart but the         *)
(* arithmetic of the code, which is what the properties are about.         *)
(***************************************************************************)
EXTENDS Integers, FiniteSets

CONSTANTS
  PageSize,  \* Page::SIZE, in cells
  Records,   \* the records a client inserts
  Size,      \* cells each record takes
  Word,      \* tag of a cell that holds an integer
  Garbage    \* what get_record yields on bytes that are no whole record

Cells == 0 .. PageSize - 1

ASSUME PageSizeAssumption == PageSize \in Nat /\ PageSize > 3
ASSUME SizeAssumption == Size \in [Records -> 1 .. PageSize - 3]
ASSUME TagAssumption == Word \notin Records /\ Garbage \notin Records

Int32(n) == <<Word, n>>
ZeroPage == [c \in Cells |-> Int32(0)]

DirCount(pg) == pg[0][2]
FreeSpace(pg) == pg[1][2]
Dir(pg, i) == pg[2 + i][2]
Slots(pg) == 0 .. DirCount(pg) - 1
LiveSlots(pg) == {i \in Slots(pg) : Dir(pg, i) > 0}

(* Mutant: the constructor looks at free_space only.                       *)
ConstructedIfFull(pg) == IF FreeSpace(pg) = 0 THEN [pg EXCEPT ![1] = Int32(PageSize - 2)] ELSE pg

(* Mutant: the constructor takes a full page for a new one.                *)
ConstructedAnew(pg) == IF FreeSpace(pg) = 0 THEN [pg EXCEPT ![0] = Int32(0), ![1] = Int32(PageSize - 2)] ELSE pg

(* The constructor: a page of zero bytes becomes an empty page.            *)
Constructed(pg) ==
  IF DirCount(pg) = 0 /\ FreeSpace(pg) = 0
  THEN [pg EXCEPT ![1] = Int32(PageSize - 2)]
  ELSE pg

(* The bytes of record r written at offset.                                *)
WriteRecord(pg, offset, r) ==
  [c \in Cells |-> IF c - offset \in 0 .. Size[r] - 1 THEN <<r, c - offset>> ELSE pg[c]]

ReadRecord(pg, offset) ==
  LET r == pg[offset][1] IN
  IF r \in Records /\ \A k \in 0 .. Size[r] - 1 : offset + k \in Cells /\ pg[offset + k] = <<r, k>>
  THEN r
  ELSE Garbage

(* The first deleted slot, or a new one at the end.                        *)
SlotFor(pg) ==
  CHOOSE i \in 0 .. DirCount(pg) :
    /\ i < DirCount(pg) => Dir(pg, i) <= 0
    /\ \A j \in 0 .. i - 1 : Dir(pg, j) > 0

(* Space record r takes: a slot that is reused costs nothing.              *)
Needed(pg, r) == IF SlotFor(pg) < DirCount(pg) THEN Size[r] ELSE Size[r] + 1

(* Mutant: the free space of a page without room for a slot is used up.    *)
FitsWithoutSlot(pg, r) == FreeSpace(pg) >= Size[r]

Fits(pg, r) == FreeSpace(pg) >= Needed(pg, r)

(* Mutant: the directory entry is computed from the old dir_count.         *)
InsertedBelow(pg, r) ==
  LET i == SlotFor(pg)
      count == IF i < DirCount(pg) THEN DirCount(pg) ELSE i + 1
      free == FreeSpace(pg) - Needed(pg, r)
      offset == 2 + DirCount(pg) + free
  IN WriteRecord([pg EXCEPT ![0] = Int32(count), ![1] = Int32(free), ![2 + i] = Int32(offset)],
                 offset, r)

(* try_insert_record when it returns true.                                 *)
Inserted(pg, r) ==
  LET i == SlotFor(pg)
      count == IF i < DirCount(pg) THEN DirCount(pg) ELSE i + 1
      free == FreeSpace(pg) - Needed(pg, r)
      offset == 2 + count + free
  IN WriteRecord([pg EXCEPT ![0] = Int32(count), ![1] = Int32(free), ![2 + i] = Int32(offset)],
                 offset, r)

(* delete_record: nothing is checked.  At or past dir_count, where no slot *)
(* is or is any more, it would write into the gap or a record.             *)
Deleted(pg, i) == [pg EXCEPT ![2 + i] = Int32(-1)]

(* What the loop of vacuum makes of slot i.                                *)
VacuumStep(pg, v, i) ==
  LET r == ReadRecord(pg, Dir(pg, i))
      free == v.free - (Size[r] + 1)
      offset == 2 + (v.count + 1) + free
  IN IF Dir(pg, i) < 0
     THEN v
     ELSE [count |-> v.count + 1,
           free |-> free,
           buf |-> WriteRecord([v.buf EXCEPT ![2 + v.count] = Int32(offset)], offset, r)]

(* Mutant: vacuum packs the records and leaves free_space as it was.       *)
VacuumedKeepsSpace(pg) ==
  LET loop[i \in 0 .. DirCount(pg)] ==
        IF i = 0
        THEN [count |-> 0, free |-> PageSize - 2, buf |-> ZeroPage]
        ELSE VacuumStep(pg, loop[i - 1], i - 1)
      v == loop[DirCount(pg)]
  IN [v.buf EXCEPT ![0] = Int32(v.count), ![1] = pg[1]]

(* vacuum: the live records, in slot order, rebuilt into an empty buffer.  *)
(* What the buffer holds elsewhere is never read again.                    *)
Vacuumed(pg) ==
  LET loop[i \in 0 .. DirCount(pg)] ==
        IF i = 0
        THEN [count |-> 0, free |-> PageSize - 2, buf |-> ZeroPage]
        ELSE VacuumStep(pg, loop[i - 1], i - 1)
      v == loop[DirCount(pg)]
  IN [v.buf EXCEPT ![0] = Int32(v.count), ![1] = Int32(v.free)]

-----------------------------------------------------------------------------
(* The cells slot i's record takes.                                        *)
Extent(pg, i) == {Dir(pg, i) + k : k \in 0 .. Size[ReadRecord(pg, Dir(pg, i))] - 1}

(* The cells all its records take.                                         *)
RecordCells(pg) == UNION {Extent(pg, i) : i \in LiveSlots(pg)}

(* The layout of a page: the directory, the gap of free_space cells and    *)
(* the records follow each other, records are whole and do not overlap.    *)
Laid(pg) ==
  LET top == 2 + DirCount(pg) + FreeSpace(pg) IN
  /\ DirCount(pg) >= 0 /\ FreeSpace(pg) >= 0 /\ top <= PageSize
  /\ \A i \in LiveSlots(pg) :
       /\ ReadRecord(pg, Dir(pg, i)) # Garbage
       /\ Extent(pg, i) \subseteq top .. PageSize - 1
       /\ \A j \in LiveSlots(pg) \ {i} : Extent(pg, i) \cap Extent(pg, j) = {}

=============================================================================
