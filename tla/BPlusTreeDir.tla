---------------------------- MODULE BPlusTreeDir ----------------------------
(***************************************************************************)
(* The directories of a B+ tree while its leaves split                     *)
(* (src/storage/b_plus_tree/b_plus_tree_dir.cc).  A leaf split is what     *)
(* BPlusTreeLeaf::insert_record is declared to return: the first record of *)
(* the new right half and its page.  The repository leaves the body of the *)
(* leaf's split to be written (b_plus_tree_leaf.cc:33-37), so this module  *)
(* checks the directories against any leaf that keeps that contract: it    *)
(* splits its records at any point.  A full directory other than the root  *)
(* drops the split (Case 2, b_plus_tree_dir.cc:123-125, also to be         *)
(* written); dropped remembers it.                                         *)
(***************************************************************************)
EXTENDS BPlusTreeLeaf

CONSTANT
  MaxLeaves   \* bound: leaf pages

ASSUME LeavesAssumption == MaxLeaves \in Nat \ {0}

LeafPages == 0 .. MaxLeaves - 1

VARIABLES
  dirs,     \* directory pages 0, 1 and 2; page 0 is the root
  pages,    \* directory pages the file has
  lower,    \* first record each leaf page may hold
  leaves,   \* leaf pages the file has
  dropped   \* a split was dropped

vars == <<dirs, pages, lower, leaves, dropped>>

(* BPlusTree::BPlusTree on new files, and leaf 0.                          *)
Init ==
  /\ dirs = [d \in 0 .. 2 |-> IF d = 0 THEN [ZeroDir EXCEPT !.count = 1] ELSE ZeroDir]
  /\ pages = 1
  /\ lower = [l \in LeafPages |-> Least]
  /\ leaves = 1
  /\ dropped = FALSE

(* search_leaf: the pages from the root down to the leaf of r, and the leaf. *)
Route(r) ==
  LET top == dirs[0].child[SearchChildIdx(dirs[0], r)] IN
  IF top >= 0
  THEN [dir |-> 0, leaf |-> top]
  ELSE [dir |-> -top, leaf |-> dirs[-top].child[SearchChildIdx(dirs[-top], r)]]

(* The leaf whose records r belongs to.                                    *)
Home(r) ==
  CHOOSE l \in 0 .. leaves - 1 :
    /\ lower[l] <= r
    /\ \A k \in 0 .. leaves - 1 : lower[k] <= r => lower[k] <= lower[l]

(* Mutant: the comparison with max_records is off by one.                  *)
FullTooLate(d) == dirs[d].count - 1 > DirRecords

Full(d) == dirs[d].count - 1 >= DirRecords

NewLeaf(r) ==
  /\ leaves < MaxLeaves
  /\ lower' = [lower EXCEPT ![leaves] = r]
  /\ leaves' = leaves + 1

(* The insert of a record makes the leaf it was routed to split; the new   *)
(* leaf starts at record r, which that leaf had.                           *)
Split(r) == [record |-> r, page |-> leaves]

Splittable(r) ==
  /\ ~ dropped
  /\ lower[Route(r).leaf] < r
  /\ \A l \in 0 .. leaves - 1 : lower[l] # r

InsertSplit(r) ==
  /\ Splittable(r)
  /\ ~ Full(Route(r).dir)
  /\ NewLeaf(r)
  /\ dirs' = [dirs EXCEPT ![Route(r).dir] = DirWithSplit(@, Split(r))]
  /\ UNCHANGED <<pages, dropped>>

InsertRootSplit(r) ==
  LET s == RootSplit(dirs[0], Split(r), pages, pages + 1) IN
  /\ Splittable(r)
  /\ Full(0)
  /\ Route(r).dir = 0
  /\ NewLeaf(r)
  /\ dirs' = [dirs EXCEPT ![0] = s.root, ![pages] = s.left, ![pages + 1] = s.right]
  /\ pages' = pages + 2
  /\ UNCHANGED dropped

InsertDropsSplit(r) ==
  /\ Splittable(r)
  /\ Route(r).dir # 0
  /\ Full(Route(r).dir)
  /\ NewLeaf(r)
  /\ dropped' = TRUE
  /\ UNCHANGED <<dirs, pages>>

Next ==
  \/ \E r \in AllRecords : InsertSplit(r)
  \/ \E r \in AllRecords : InsertRootSplit(r)
  \/ \E r \in AllRecords : InsertDropsSplit(r)

Spec == Init /\ [][Next]_vars

-----------------------------------------------------------------------------
Children(d) == {dirs[d].child[i] : i \in 0 .. dirs[d].count - 1}

(* Every variable keeps its shape, and a directory never holds more        *)
(* children than a page has room for.                                      *)
TypeOK ==
  /\ dirs \in [0 .. 2 -> [count : 0 .. DirChildren,
                          child : [0 .. DirChildren - 1 -> Int],
                          record : [0 .. DirRecords - 1 -> AllRecords \cup {0}]]]
  /\ pages \in {1, 3}
  /\ lower \in [LeafPages -> AllRecords]
  /\ leaves \in 1 .. MaxLeaves
  /\ dropped \in BOOLEAN

(* The directories above the leaves, and the records that belong to        *)
(* directory d: from FirstOf(d) to before EndOf(d).                        *)
LeafDirs == IF pages = 1 THEN {0} ELSE {1, 2}
FirstOf(d) == IF d = 2 THEN dirs[0].record[0] ELSE Least
EndOf(d) == IF d = 1 THEN dirs[0].record[0] ELSE MaxRecord + 1

(* A directory cuts the records from first to before end into the ranges   *)
(* of its children, n leaves that start at low: each separator is the      *)
(* first record of the child behind it.                                    *)
Cuts(dir, first, end, low, n) ==
  /\ dir.count >= 1
  /\ \A i \in 0 .. dir.count - 1 :
       /\ dir.child[i] \in 0 .. n - 1
       /\ low[dir.child[i]] = IF i = 0 THEN first ELSE dir.record[i - 1]
  /\ \A i \in 0 .. dir.count - 2 : dir.record[i] \in AllRecords /\ first < dir.record[i] /\ dir.record[i] < end
  /\ \A i, j \in 0 .. dir.count - 2 : i < j => dir.record[i] < dir.record[j]

(* While no split was dropped the directories cut all records into the     *)
(* ranges of all leaves.                                                   *)
TreeCutsRecords ==
  /\ pages = 3 =>
       /\ dirs[0].count = 2 /\ dirs[0].child[0] = -1 /\ dirs[0].child[1] = -2
       /\ dirs[0].record[0] \in AllRecords /\ Least < dirs[0].record[0]
  /\ \A d \in LeafDirs : Cuts(dirs[d], FirstOf(d), EndOf(d), lower, leaves)
  /\ \A l \in 0 .. leaves - 1 : \E d \in LeafDirs : \E i \in 0 .. dirs[d].count - 1 : dirs[d].child[i] = l

(* The inductive invariant.                                                *)
IInv ==
  /\ TypeOK
  /\ \A j, k \in 0 .. leaves - 1 : lower[j] = lower[k] => j = k
  /\ ~ dropped => TreeCutsRecords

(* Every record is routed to the leaf that holds its range, through any    *)
(* sequence of splits and the split of the root: search_child_idx, the     *)
(* shift and the two halves agree on which separator goes where.           *)
RoutesHome == ~ dropped => \A r \in AllRecords : Route(r).leaf = Home(r)

(* Every leaf hangs in the tree exactly once, and directories hold their   *)
(* records in order.                                                       *)
LeavesInTree ==
  ~ dropped =>
    /\ UNION {{c \in Children(d) : c >= 0} : d \in 0 .. pages - 1} = 0 .. leaves - 1
    /\ \A d, e \in 0 .. pages - 1 : d # e => Children(d) \cap Children(e) = {}
    /\ \A d \in 0 .. pages - 1 :
         /\ Cardinality(Children(d)) = dirs[d].count
         /\ \A i \in 1 .. dirs[d].count - 2 : dirs[d].record[i - 1] < dirs[d].record[i]

(* The records leaf page k may hold.                                       *)
HighestOf(k) ==
  CHOOSE hi \in AllRecords :
    /\ hi = MaxRecord \/ \E j \in 0 .. leaves - 1 : lower[j] = hi + 1 /\ lower[j] > lower[k]
    /\ \A j \in 0 .. leaves - 1 : lower[j] > lower[k] => hi < lower[j]

(* In whatever leaf a record is routed to, and whatever that leaf holds of *)
(* its range, search_index returns what b_plus_tree_leaf.h:67-68 declares, *)
(* although its loop narrows past the middle record on both sides: the     *)
(* position search_leaf gives an iterator is the first it has to visit.    *)
SearchFindsLowerBound ==
  \A k \in 0 .. leaves - 1 :
    \A l \in LeavesWithin(lower[k], HighestOf(k)), r \in lower[k] .. HighestOf(k) : Searched(l, r)

(* In the same leaves the duplicate check of insert_record finds every     *)
(* record the leaf has and takes none it does not have for one             *)
(* (b_plus_tree_leaf.cc:28-31), but for the record of zero bytes.          *)
DuplicatesFound ==
  \A k \in 0 .. leaves - 1 :
    \A l \in LeavesWithin(lower[k], HighestOf(k)), r \in lower[k] .. HighestOf(k) : Checked(l, r)

=============================================================================
