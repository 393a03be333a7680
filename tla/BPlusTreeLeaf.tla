---------------------------- MODULE BPlusTreeLeaf ---------------------------
(***************************************************************************)
(* What search_index and the duplicate check of insert_record              *)
(* (src/storage/b_plus_tree/b_plus_tree_leaf.cc) are declared to return,   *)
(* for a leaf of sorted records in a range of records.                     *)
(***************************************************************************)
EXTENDS BPlusTreeNode, FiniteSets

CONSTANTS
  Below, MaxRecord  \* bound: records are -Below .. MaxRecord

ASSUME RangeAssumption == Below \in Nat /\ MaxRecord \in Nat

Least == -Below
AllRecords == Least .. MaxRecord

(* The leaf that holds the records S.  Cells past record_count hold the    *)
(* zero bytes of a new page.                                               *)
LeafOf(S) ==
  [count |-> Cardinality(S),
   record |-> [i \in 0 .. LeafRecords - 1 |->
                 IF i < Cardinality(S) THEN CHOOSE r \in S : Cardinality({x \in S : x < r}) = i ELSE 0],
   next |-> 0]

(* The leaves with records from lo to hi only.                             *)
LeavesWithin(lo, hi) == {LeafOf(S) : S \in {X \in SUBSET (lo .. hi) : Cardinality(X) <= LeafRecords}}

LeafHas(l, r) == \E i \in 0 .. l.count - 1 : l.record[i] = r

(* search_index is right about r: "the index of the lowest record that is  *)
(* greater or equal than the record received", or record_count.            *)
Searched(l, r) == l.count > 0 => SearchIndex(l, r) = LowerBound(l, r)

(* The duplicate check is right about r, unless r is the record of zero    *)
(* bytes and greater than all of the leaf: then it is compared with the    *)
(* unused cell behind them.                                                *)
Checked(l, r) == l.count > 0 /\ (r # 0 \/ LeafHas(l, 0)) => (Duplicate(l, r) <=> LeafHas(l, r))

=============================================================================
