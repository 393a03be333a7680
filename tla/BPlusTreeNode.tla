---------------------------- MODULE BPlusTreeNode ---------------------------
(***************************************************************************)
(* The pages of a B+ tree and the algorithms on one page:                  *)
(* src/storage/b_plus_tree/b_plus_tree_leaf.cc and b_plus_tree_dir.cc.     *)
(* Records, pairs of a key and a RID ordered by operator<, are integers    *)
(* here: only their order and equality matter to this code.  0 is the      *)
(* record of zero bytes, key 0 at RID (0, 0).                              *)
(***************************************************************************)
EXTENDS Integers

CONSTANTS
  LeafRecords,  \* BPlusTreeLeaf::max_records
  DirRecords    \* BPlusTreeDir::max_records

ASSUME LeafRecordsAssumption == LeafRecords \in Nat \ {0}
ASSUME DirRecordsAssumption == DirRecords \in Nat /\ DirRecords >= 2

DirChildren == DirRecords + 1

-----------------------------------------------------------------------------
(***************************************************************************)
(* Leaves: count records in the first cells of record.                     *)
(***************************************************************************)
ZeroLeaf == [count |-> 0, record |-> [i \in 0 .. LeafRecords - 1 |-> 0], next |-> 0]

Sorted(leaf) ==
  \A i, j \in 0 .. leaf.count - 1 : i < j => leaf.record[i] < leaf.record[j]

(* Mutant: the bound found by the search is returned without the last look. *)
SearchIndexNoLastLook(leaf, r) ==
  LET found[range \in (0 .. LeafRecords) \X (-1 .. LeafRecords)] ==
        LET from == range[1]
            to == range[2]
            mid == (from + to) \div 2
        IN
        IF from >= to THEN from
        ELSE IF r < leaf.record[mid] THEN found[<<from, mid - 1>>]
        ELSE IF leaf.record[mid] < r THEN found[<<mid + 1, to>>]
        ELSE mid
  IN found[<<0, leaf.count - 1>>]

(* search_index: the loop narrows from .. to until they meet.              *)
SearchIndex(leaf, r) ==
  LET found[range \in (0 .. LeafRecords) \X (-1 .. LeafRecords)] ==
        LET from == range[1]
            to == range[2]
            mid == (from + to) \div 2
        IN
        IF from >= to THEN (IF leaf.record[from] < r THEN from + 1 ELSE from)
        ELSE IF r < leaf.record[mid] THEN found[<<from, mid - 1>>]
        ELSE IF leaf.record[mid] < r THEN found[<<mid + 1, to>>]
        ELSE mid
  IN found[<<0, leaf.count - 1>>]

(* The index it is documented to return: of the lowest record that is      *)
(* greater or equal, or record_count.                                      *)
LowerBound(leaf, r) ==
  CHOOSE i \in 0 .. leaf.count :
    /\ \A j \in 0 .. i - 1 : leaf.record[j] < r
    /\ i < leaf.count => r <= leaf.record[i]

(* Mutant: the bound of the check is the record count of a full leaf but   *)
(* one.                                                                    *)
DuplicateNotLast(leaf, r) ==
  LET i == SearchIndex(leaf, r) IN i < LeafRecords - 1 /\ leaf.record[i] = r

(* insert_record returns early: it takes r for a record the leaf has.      *)
Duplicate(leaf, r) ==
  LET i == SearchIndex(leaf, r) IN i < LeafRecords /\ leaf.record[i] = r

-----------------------------------------------------------------------------
(***************************************************************************)
(* Directories: count children, and between each two of them a record.     *)
(* A child is a leaf page, or minus a directory page.                      *)
(***************************************************************************)
ZeroDir ==
  [count |-> 0,
   child |-> [i \in 0 .. DirChildren - 1 |-> 0],
   record |-> [i \in 0 .. DirRecords - 1 |-> 0]]

(* Mutant: a record equal to a separator goes left.                        *)
SearchChildIdxLeft(dir, r) ==
  LET found[range \in {x \in (0 .. DirRecords) \X (0 .. DirRecords) : x[1] <= x[2]}] ==
        LET from == range[1]
            to == range[2]
            mid == ((from + to + 1) \div 2) - 1
        IN
        IF from = to THEN from
        ELSE IF r <= dir.record[mid] THEN found[<<from, mid>>] ELSE found[<<mid + 1, to>>]
  IN found[<<0, dir.count - 1>>]

(* search_child_idx                                                        *)
SearchChildIdx(dir, r) ==
  LET found[range \in {x \in (0 .. DirRecords) \X (0 .. DirRecords) : x[1] <= x[2]}] ==
        LET from == range[1]
            to == range[2]
            mid == ((from + to + 1) \div 2) - 1
        IN
        IF from = to THEN from
        ELSE IF r < dir.record[mid] THEN found[<<from, mid>>] ELSE found[<<mid + 1, to>>]
  IN found[<<0, dir.count - 1>>]

(* Records and children after those from position at on were shifted one   *)
(* place, up to the last one the page has room for, and the split put in.  *)
Shifted(dir, at, split, last) ==
  [dir EXCEPT
     !.record = [i \in 0 .. DirRecords - 1 |->
                   CASE i = at              -> split.record
                     [] at < i /\ i <= last -> dir.record[i - 1]
                     [] OTHER               -> dir.record[i]],
     !.child = [i \in 0 .. DirChildren - 1 |->
                   CASE i = at + 1                  -> split.page
                     [] at + 1 < i /\ i <= last + 1 -> dir.child[i - 1]
                     [] OTHER                       -> dir.child[i]]]

(* insert_record, Case 1: the directory has room for the split of a child. *)
DirWithSplit(dir, split) ==
  [Shifted(dir, SearchChildIdx(dir, split.record), split, dir.count - 1)
     EXCEPT !.count = dir.count + 1]

(* The left and the right half of root split, and the record between them. *)
Middle == (DirRecords + 1) \div 2

LeftHalf(dir) ==
  [ZeroDir EXCEPT
     !.count = Middle + 1,
     !.child = [i \in 0 .. DirChildren - 1 |-> IF i <= Middle THEN dir.child[i] ELSE 0],
     !.record = [i \in 0 .. DirRecords - 1 |-> IF i < Middle THEN dir.record[i] ELSE 0]]

(* Mutant: the record that moves up stays in the right half.               *)
RightHalfFromMiddle(dir, last_record, last_child) ==
  LET j == DirRecords - (Middle + 1) IN
  [ZeroDir EXCEPT
     !.count = (DirChildren + 1) - (Middle + 1),
     !.child = [i \in 0 .. DirChildren - 1 |->
                  CASE i <= j -> dir.child[Middle + i] [] i = j + 1 -> last_child [] OTHER -> 0],
     !.record = [i \in 0 .. DirRecords - 1 |->
                  CASE i < j -> dir.record[Middle + i] [] i = j -> last_record [] OTHER -> 0]]

RightHalf(dir, last_record, last_child) ==
  LET j == DirRecords - (Middle + 1) IN
  [ZeroDir EXCEPT
     !.count = (DirChildren + 1) - (Middle + 1),
     !.child = [i \in 0 .. DirChildren - 1 |->
                  CASE i <= j -> dir.child[Middle + 1 + i] [] i = j + 1 -> last_child [] OTHER -> 0],
     !.record = [i \in 0 .. DirRecords - 1 |->
                  CASE i < j -> dir.record[Middle + 1 + i] [] i = j -> last_record [] OTHER -> 0]]

(* Case 3: the full root becomes two directories on pages lhs and rhs.     *)
RootSplit(dir, split, lhs, rhs) ==
  LET at == SearchChildIdx(dir, split.record)
      atEnd == at = DirChildren - 1
      d == IF atEnd THEN dir ELSE Shifted(dir, at, split, DirRecords - 1)
      last_record == IF atEnd THEN split.record ELSE dir.record[DirRecords - 1]
      last_child == IF atEnd THEN split.page ELSE dir.child[DirChildren - 1]
  IN [root |-> [d EXCEPT !.count = 2,
                         !.child[0] = -lhs, !.child[1] = -rhs,
                         !.record[0] = d.record[Middle]],
      left |-> LeftHalf(d),
      right |-> RightHalf(d, last_record, last_child)]

=============================================================================
