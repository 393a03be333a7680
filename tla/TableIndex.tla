----------------------------- MODULE TableIndex -----------------------------
(***************************************************************************)
(* One table with a B+ tree on one of its columns: Catalog::insert_record, *)
(* delete_record and create_index (src/system/catalog.cc), BPlusTree       *)
(* (b_plus_tree.cc) with a root directory and the leaf it has at first,    *)
(* and BPlusTreeIter (b_plus_tree_iter.cc).  The table's page is the list  *)
(* of its slots: what HeapPage shows of it.  The column holds any values   *)
(* with an order and an integer encoding: integers, which are their own,   *)
(* or strings (StringKey).                                                 *)
(*                                                                         *)
(* BPlusTreeLeaf::insert_record runs off its end when the leaf has a       *)
(* record already (b_plus_tree_leaf.cc:33-38, to be written): undefined    *)
(* behaviour, for which a debug build aborts and a release build returns   *)
(* with the record dropped.  So the leaf never splits here.                *)
(***************************************************************************)
EXTENDS BPlusTreeNode, Sequences, FiniteSets

CONSTANTS
  Keys,      \* values of the key column
  Encoding,  \* encoded_key of each of them
  Less,      \* the pairs of keys for which operator< holds
  MaxSlots,  \* bound: slots of the table's page
  NoRow,     \* what a deleted slot holds
  Failures   \* whether get_page throws

ASSUME EncodingAssumption == Encoding \in [Keys -> Int]
ASSUME LessAssumption == Less \subseteq Keys \X Keys
ASSUME SlotsAssumption == MaxSlots \in Nat \ {0}
ASSUME NoRowAssumption == NoRow \notin Keys
ASSUME FailuresAssumption == Failures \in BOOLEAN

Slots == 0 .. MaxSlots - 1

(* value >= min && value <= max                                            *)
InRange(v, min, max) == <<v, min>> \notin Less /\ <<max, v>> \notin Less

(* BPlusTreeRecord: by encoded key, then by RID.  BPlusTree::get_iter      *)
(* searches from before every RID of min to after every RID of max.        *)
Stride == MaxSlots + 2
Entry(k, rid) == Encoding[k] * Stride + rid
LeastEntry(k) == Encoding[k] * Stride - 1
GreatestEntry(k) == Encoding[k] * Stride + MaxSlots
RidOf(e) == e % Stride
KeyOf(e) == e \div Stride

VARIABLES
  running,   \* the process has not aborted
  slots,     \* key of each slot of the table's page, or NoRow
  indexed,   \* the table has an index
  leaf,      \* leaf 0
  iter,      \* a BPlusTreeIter and what it has returned
  stale,     \* history: index entries whose row was deleted or moved
  missed     \* history: rows an exception, the unfinished leaf or vacuum kept out of the index

vars == <<running, slots, indexed, leaf, iter, stale, missed>>

(* pos is current_leaf_pos and out the key in the buffer next() fills.     *)
(* ended says that next() returned false, after which clients stop.  owes  *)
(* is history: the entries at begin that were not returned; none after a   *)
(* call that threw.                                                        *)
Closed == [open |-> FALSE, ended |-> FALSE, min |-> NoRow, max |-> NoRow, pos |-> 0, out |-> NoRow, owes |-> {}]

Init ==
  /\ running = TRUE
  /\ slots = <<>>
  /\ indexed = FALSE
  /\ leaf = ZeroLeaf
  /\ iter = Closed
  /\ stale = {}
  /\ missed = {}

Live(s) == {rid \in 0 .. Len(s) - 1 : s[rid + 1] # NoRow}
LiveRIDs == Live(slots)
Entries == {leaf.record[i] : i \in 0 .. leaf.count - 1}
EntriesOf(rids) == {e \in Entries : RidOf(e) \in rids}

(* The slot HeapFilePage::try_insert_record takes.                         *)
FreeSlot ==
  CHOOSE rid \in 0 .. Len(slots) :
    /\ rid \notin LiveRIDs
    /\ \A x \in 0 .. rid - 1 : x \in LiveRIDs

(* Mutant: a freed slot is found, and the row put behind all others.       *)
WithRowAppended(rid, k) == Append(slots, k)

WithRow(rid, k) == IF rid = Len(slots) THEN Append(slots, k) ELSE [slots EXCEPT ![rid + 1] = k]

-----------------------------------------------------------------------------
(* BPlusTreeLeaf::insert_record on an empty leaf.                          *)
WithFirst(l, e) == [l EXCEPT !.count = 1, !.record[0] = e]

(* BPlusTreeLeaf::insert_record has no code for the record.                *)
RunsOff(l, e) == l.count # 0 /\ ~ Duplicate(l, e)

(* BPlusTreeLeaf::insert_record of e into leaf l, and whether the process  *)
(* survives it.                                                            *)
LeafInsertOutcomes(l, e) ==
  IF RunsOff(l, e) THEN [leaf : {l}, survives : BOOLEAN]
  ELSE {[leaf |-> IF l.count = 0 THEN WithFirst(l, e) ELSE l, survives |-> TRUE]}

(* Mutant: the index is given the number of slots for the RID.             *)
IndexInsertLastSlot(s, rid, o) == o \in LeafInsertOutcomes(leaf, Entry(s[rid + 1], Len(s) - 1))

(* BPlusTree::insert_record: the key is read back from the heap file.      *)
IndexInsert(s, rid, o) == o \in LeafInsertOutcomes(leaf, Entry(s[rid + 1], rid))

Outcomes == [leaf : {leaf, WithFirst(leaf, 0)} \cup {WithFirst(leaf, Entry(k, rid)) : k \in Keys, rid \in Slots},
             survives : BOOLEAN]

(* Catalog::insert_record: the heap file, then the index.                  *)
Insert(k) ==
  /\ running
  /\ FreeSlot < MaxSlots
  /\ slots' = WithRow(FreeSlot, k)
  /\ IF indexed
     THEN \E o \in Outcomes :
            /\ IndexInsert(slots', FreeSlot, o)
            /\ leaf' = o.leaf
            /\ running' = o.survives
            /\ missed' = IF RunsOff(leaf, Entry(k, FreeSlot)) THEN missed \cup {FreeSlot} ELSE missed
     ELSE UNCHANGED <<leaf, running, missed>>
  /\ UNCHANGED <<indexed, iter, stale>>

(* The same when get_page throws once the heap file has the row: all of    *)
(* the index's calls of it come before the leaf is changed.                *)
InsertThrows(k) ==
  /\ Failures
  /\ running
  /\ indexed
  /\ FreeSlot < MaxSlots
  /\ slots' = WithRow(FreeSlot, k)
  /\ missed' = missed \cup {FreeSlot}
  /\ UNCHANGED <<running, indexed, leaf, iter, stale>>

(* Catalog::delete_record: the index's part is empty                       *)
(* (b_plus_tree_dir.cc:83-85).  Of a slot without a row it changes nothing *)
(* here.                                                                   *)
Delete(rid) ==
  /\ running
  /\ rid \in LiveRIDs
  /\ slots' = [slots EXCEPT ![rid + 1] = NoRow]
  /\ stale' = stale \cup EntriesOf({rid})
  /\ missed' = missed \ {rid}
  /\ UNCHANGED <<running, indexed, leaf, iter>>

LiveBefore(rid) == Cardinality({x \in LiveRIDs : x < rid})

(* HeapFile::vacuum moves the rows to the first slots, in their order, and *)
(* leaves the index alone.                                                 *)
Vacuum ==
  LET moved == {rid \in LiveRIDs : \E x \in 0 .. rid - 1 : x \notin LiveRIDs} IN
  /\ running
  /\ slots' = [i \in 1 .. Cardinality(LiveRIDs) |-> slots[1 + CHOOSE rid \in LiveRIDs : LiveBefore(rid) = i - 1]]
  /\ stale' = stale \cup EntriesOf(moved)
  /\ missed' = IF indexed THEN (missed \ moved) \cup (Live(slots') \ (LiveRIDs \ moved)) ELSE {}
  /\ UNCHANGED <<running, indexed, leaf, iter>>

(* Mutant: the scan of create_index begins behind the first row.           *)
ScannedWithoutFirst(n) == {rid \in LiveRIDs : LiveBefore(rid) \in 1 .. n}

(* The first n rows of create_index's scan.                                *)
Scanned(n) == {rid \in LiveRIDs : LiveBefore(rid) < n}

(* Catalog::create_index on new files puts n rows into the tree: all, or   *)
(* those before get_page throws, which leaves the table with the index it  *)
(* has so far.                                                             *)
CreateIndex(n) ==
  /\ running
  /\ ~ indexed
  /\ n = Cardinality(LiveRIDs) \/ (Failures /\ n < Cardinality(LiveRIDs))
  /\ indexed' = TRUE
  /\ IF Scanned(n) = {}
     THEN /\ missed' = IF n = Cardinality(LiveRIDs) THEN {} ELSE LiveRIDs
          /\ UNCHANGED <<leaf, running>>
     ELSE LET first == CHOOSE rid \in Scanned(n) : \A x \in Scanned(n) : rid <= x
              withFirst == WithFirst(leaf, Entry(slots[first + 1], first))
              rest == {x \in Scanned(n) \ {first} : RunsOff(withFirst, Entry(slots[x + 1], x))}
          IN /\ leaf' = withFirst
             /\ running' \in IF rest = {} THEN {TRUE} ELSE BOOLEAN
             /\ missed' = rest \cup {rid \in LiveRIDs : LiveBefore(rid) >= n}
  /\ UNCHANGED <<slots, iter, stale>>

-----------------------------------------------------------------------------
(* Mutant: the scan starts behind the first record it looks for.           *)
StartAfter(l, min) == SearchIndex(l, GreatestEntry(min))

(* current_leaf_pos after reset.                                           *)
StartOf(l, min) == SearchIndex(l, LeastEntry(min))

(* BPlusTree::get_iter and begin, with a buffer that holds key b.          *)
Begin(min, max, b) ==
  /\ running
  /\ indexed
  /\ ~ iter.open
  /\ iter' = [Closed EXCEPT !.open = TRUE, !.min = min, !.max = max, !.pos = StartOf(leaf, min),
                            !.out = b, !.owes = Entries]
  /\ UNCHANGED <<running, slots, indexed, leaf, stale, missed>>

(* reset() searches again and keeps the buffer.                            *)
Reset ==
  /\ running
  /\ iter.open
  /\ iter' = [iter EXCEPT !.ended = FALSE, !.pos = StartOf(leaf, iter.min),
                          !.owes = Entries]
  /\ UNCHANGED <<running, slots, indexed, leaf, stale, missed>>

(* next(): an entry whose row is gone leaves the buffer as it was.         *)
NextRow ==
  LET e == leaf.record[iter.pos]
      out == IF RidOf(e) \in LiveRIDs THEN slots[RidOf(e) + 1] ELSE iter.out
  IN
  /\ running
  /\ iter.open
  /\ ~ iter.ended
  /\ iter' = IF iter.pos >= leaf.count \/ GreatestEntry(iter.max) < e
             THEN [iter EXCEPT !.ended = TRUE, !.pos = IF iter.pos < leaf.count THEN @ + 1 ELSE @]
             ELSE [iter EXCEPT !.pos = @ + 1, !.out = out,
                               !.owes = IF InRange(out, iter.min, iter.max) THEN @ \ {e} ELSE @]
  /\ UNCHANGED <<running, slots, indexed, leaf, stale, missed>>

(* next() or reset() when get_page throws.  next() is past the entry whose *)
(* row it wanted by then, so that a client that calls it again misses it;  *)
(* reset() has not moved.                                                  *)
NextThrows ==
  /\ Failures
  /\ running
  /\ iter.open
  /\ ~ iter.ended
  /\ iter.pos < leaf.count
  /\ leaf.record[iter.pos] <= GreatestEntry(iter.max)
  /\ iter' = [iter EXCEPT !.pos = @ + 1, !.owes = {}]
  /\ UNCHANGED <<running, slots, indexed, leaf, stale, missed>>

ResetThrows ==
  /\ Failures
  /\ running
  /\ iter.open
  /\ iter' = [iter EXCEPT !.ended = FALSE, !.owes = {}]
  /\ UNCHANGED <<running, slots, indexed, leaf, stale, missed>>

(* The BPlusTreeIter is destroyed.                                         *)
End ==
  /\ running
  /\ iter.open
  /\ iter' = Closed
  /\ UNCHANGED <<running, slots, indexed, leaf, stale, missed>>

Next ==
  \/ \E k \in Keys : Insert(k)
  \/ \E k \in Keys : InsertThrows(k)
  \/ \E rid \in Slots : Delete(rid)
  \/ Vacuum
  \/ \E n \in 0 .. MaxSlots : CreateIndex(n)
  \/ \E min, max, b \in Keys : Begin(min, max, b)
  \/ Reset
  \/ NextRow
  \/ NextThrows
  \/ ResetThrows
  \/ End

Spec == Init /\ [][Next]_vars

-----------------------------------------------------------------------------
EntryRange == {Entry(k, rid) : k \in Keys, rid \in Slots}

(* Every variable keeps its shape; the leaf is as it was new, or has one   *)
(* record, and an open iterator has two keys and a place in it.            *)
TypeOK ==
  /\ running \in BOOLEAN
  /\ slots \in Seq(Keys \cup {NoRow}) /\ Len(slots) <= MaxSlots
  /\ indexed \in BOOLEAN
  /\ leaf \in {ZeroLeaf} \cup {WithFirst(ZeroLeaf, e) : e \in EntryRange}
  /\ \/ iter = Closed
     \/ iter \in [open : {TRUE}, ended : BOOLEAN, min : Keys, max : Keys, pos : 0 .. 1,
                  out : Keys \cup {NoRow}, owes : SUBSET EntryRange]
  /\ stale \subseteq EntryRange
  /\ missed \subseteq Slots

(* An index entry whose row was never deleted nor moved has the key of     *)
(* that row, whatever slots were freed and taken again (catalog.cc:193-220,*)
(* b_plus_tree.cc:60-76).  Entries of deleted rows do stay in the index    *)
(* (b_plus_tree_dir.cc:83-85), although catalog.cc:214 has them deleted.   *)
EntrySound ==
  \A e \in Entries \ stale : RidOf(e) \in LiveRIDs /\ Encoding[slots[RidOf(e) + 1]] = KeyOf(e)

(* Every row of an indexed table has its entry, whatever was deleted,      *)
(* inserted again and refused as a duplicate, unless an exception ended    *)
(* the call that had to insert it (catalog.cc:201-206, 273-275), vacuum    *)
(* moved the row, or the leaf ran off its end; if the keys are as          *)
(* ZeroIsLeast, below, asks.                                               *)
RowsHaveEntries ==
  indexed /\ running => \A rid \in LiveRIDs \ missed : Entry(slots[rid + 1], rid) \in Entries

(* A scan that ended has returned the entry of every row in its range that *)
(* was in the index when it began and still is where it was, whatever was  *)
(* inserted and deleted meanwhile, however little of a key its encoding    *)
(* keeps and whatever failed before it began (b_plus_tree.cc:35-58,        *)
(* b_plus_tree_iter.cc:23-56).                                             *)
ScanFindsEntries ==
  iter.ended => \A e \in iter.owes \ stale : ~ InRange(slots[RidOf(e) + 1], iter.min, iter.max)

(* There is nothing in the tree, and no iterator on it, before the table   *)
(* has an index.                                                           *)
NewUntilIndexed == ~ indexed => leaf = ZeroLeaf /\ ~ iter.open

(* What an iterator still has to return lies ahead of it.                  *)
OwesAhead ==
  /\ iter.owes \subseteq Entries
  /\ \A e \in iter.owes \ stale :
       InRange(slots[RidOf(e) + 1], iter.min, iter.max) =>
         ~ iter.ended /\ \E i \in iter.pos .. leaf.count - 1 : leaf.record[i] = e

(* The inductive invariant.                                                *)
EntriesAgree == TypeOK /\ NewUntilIndexed /\ EntrySound

IInv == EntriesAgree /\ RowsHaveEntries /\ OwesAhead

(* What IInv takes of the keys' encodings.  Encodings that differ are in   *)
(* the keys' order: so they are for integers and for ASCII strings, not    *)
(* for all of UTF-8.  If one is zero none is negative: the record of zero  *)
(* bytes behind a negative one is taken for a duplicate of the unused cell *)
(* (b_plus_tree_leaf.cc:28-31).                                            *)
EncodingKeepsOrder == \A x, y \in Keys : Encoding[x] < Encoding[y] => <<x, y>> \in Less
ZeroIsLeast == \A x, y \in Keys : Encoding[x] = 0 => Encoding[y] >= 0

=============================================================================
