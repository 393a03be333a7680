----------------------------- MODULE PageObjects ----------------------------
(***************************************************************************)
(* Which pages the objects of a process hold at the same time.  A          *)
(* HeapFilePage, BPlusTreeDir or BPlusTreeLeaf pins a frame from its       *)
(* constructor, which calls get_page, to its destructor; get_unused_page   *)
(* (src/system/buffer_manager.cc) turns forever when every frame is pinned *)
(* and the page asked for has none.  The control points of all operations  *)
(* that construct such objects are composed here, with the exceptions of   *)
(* get_page that unwind them; what is on the pages is left out.            *)
(***************************************************************************)
EXTENDS Integers, FiniteSets

CONSTANTS
  FrameCount,
  Pages,
  NoPage,     \* the page of an object that is not there
  Trees,      \* the indexes of the database
  HeapIters,  \* HeapFileIter objects of clients
  TreeIters,  \* BPlusTreeIter objects of clients
  MaxLost,    \* bound: reads that fail in one process
  Nobody      \* no object is about to be given the page of "next"

Iters == HeapIters \cup TreeIters

(* Objects on the stack of a call, by what they are for: the page          *)
(* insert_record tries and the one that will replace it (or an iterator's  *)
(* page), get_record's page, the child directory and leaf of a tree        *)
(* search, the halves of a root, and create_index's iterator.              *)
Locals == {"page", "next", "row", "dir", "leaf", "lhs", "rhs", "scan"}

Objects == Trees \cup Iters \cup Locals

ASSUME PagesAssumption == NoPage \notin Pages
ASSUME TreesAssumption == IsFiniteSet(Trees) /\ IsFiniteSet(HeapIters) /\ IsFiniteSet(TreeIters)
ASSUME ObjectsAssumption ==
  Locals \cap (Trees \cup Iters) = {} /\ Trees \cap Iters = {} /\ Nobody \notin Objects
ASSUME LostAssumption == MaxLost \in Nat

(* The buffer has a frame for each root and each iterator, for each pin a  *)
(* failed read may leave behind, and three more.                           *)
ASSUME FramesAssumption ==
  FrameCount \in Nat /\ FrameCount >= Cardinality(Trees) + Cardinality(Iters) + MaxLost + 3

VARIABLES
  obj,   \* the page each object holds
  at,    \* where the one thread is
  who,   \* the object whose page is being replaced by that of "next"
  lost   \* frames whose pin has no owner

vars == <<obj, at, who, lost>>

Held == {obj[o] : o \in Objects} \ {NoPage}

(* get_page(p) returns: p is pinned, and so in the buffer, or a frame is   *)
(* not pinned, which then has p already or is its victim.                  *)
SomeFrameIsFree == Cardinality(Held) + lost < FrameCount
CanHave(p) == p \in Held \/ SomeFrameIsFree

Init ==
  /\ obj = [o \in Objects |-> NoPage]
  /\ at = "down"
  /\ who = Nobody
  /\ lost = 0

-----------------------------------------------------------------------------
(* What the code constructs where: at a control point, an object is given  *)
(* a page, and the next control point is reached.                          *)
Take(from, o, to) == [from |-> from, object |-> o, to |-> to]

(* HeapFile::insert_record, delete_record, get_record and each page of     *)
(* vacuum; HeapFileIter's constructor.                                     *)
HeapTakes ==
  {Take("idle", "page", "inserting"), Take("idle", "page", "touching")}
    \cup {Take("idle", i, "idle") : i \in HeapIters}

(* BPlusTree::insert_record: the row is read back, then the way down, and  *)
(* the two halves when the root splits.                                    *)
InsertTakes ==
  {Take("indexing", "row", "row"),
   Take("descending", "dir", "dir"), Take("descending", "leaf", "leaf"), Take("dir", "leaf", "deep"),
   Take("splitting", "lhs", "halving"), Take("halving", "rhs", "halved")}

(* BPlusTree::delete_record reads the row, BPlusTreeIter::next too;        *)
(* BPlusTreeIter::reset goes down to a leaf.                               *)
SearchTakes ==
  {Take("idle", "row", "touching"),
   Take("idle", "dir", "searching"), Take("idle", "leaf", "searched"), Take("searching", "leaf", "searched")}

(* Catalog's constructor and create_index construct trees, whose roots     *)
(* live as long as they; create_index then scans the heap file.            *)
CatalogTakes ==
  {Take("starting", t, "starting") : t \in Trees} \cup {Take("idle", t, "rooted") : t \in Trees}
    \cup {Take("rooted", "scan", "scanning")}

Takes == HeapTakes \cup InsertTakes \cup SearchTakes \cup CatalogTakes

(* current_page = make_unique<...>(...): the new object is there before    *)
(* the old one goes.                                                       *)
Replacements ==
  {Take("inserting", "page", "inserting"), Take("scanning", "scan", "scanning")}
    \cup {Take("idle", i, "idle") : i \in Iters}
    \cup {Take("found", i, "idle") : i \in TreeIters}

(* Where objects go out of scope, and what the code goes on with.          *)
Leave(from, objects, to) == [from |-> from, objects |-> objects, to |-> to]

(* Mutant: the child directory outlives the insert.                        *)
LeavesKeepDir ==
  {Leave("inserting", {"page"}, "idle"), Leave("inserting", {"page"}, "indexing"), Leave("touching", {"page", "row"}, "idle"),
   Leave("row", {"row"}, "descending"), Leave("leaf", {"leaf"}, "splitting"), Leave("leaf", {"leaf"}, "indexed"),
   Leave("deep", {"leaf"}, "indexed"), Leave("halved", {"lhs", "rhs"}, "indexed"),
   Leave("searched", {"dir", "leaf"}, "found"), Leave("scanning", {"scan"}, "idle")}

Leaves ==
  {Leave("inserting", {"page"}, "idle"), Leave("inserting", {"page"}, "indexing"), Leave("touching", {"page", "row"}, "idle"),
   Leave("row", {"row"}, "descending"), Leave("leaf", {"leaf"}, "splitting"), Leave("leaf", {"leaf"}, "indexed"),
   Leave("deep", {"leaf", "dir"}, "indexed"), Leave("halved", {"lhs", "rhs"}, "indexed"),
   Leave("searched", {"dir", "leaf"}, "found"), Leave("scanning", {"scan"}, "idle")}

-----------------------------------------------------------------------------
(* A constructor whose get_page returns.                                   *)
Construct(t, p) ==
  /\ at = t.from /\ who = Nobody
  /\ obj[t.object] = NoPage
  /\ CanHave(p)
  /\ obj' = [obj EXCEPT ![t.object] = p]
  /\ at' = t.to
  /\ UNCHANGED <<who, lost>>

ConstructNext(t, p) ==
  /\ at = t.from /\ who = Nobody
  /\ CanHave(p)
  /\ obj' = [obj EXCEPT !["next"] = p]
  /\ at' = t.to
  /\ who' = t.object
  /\ UNCHANGED lost

(* Mutant: the object replaced leaves its pin with the new one.            *)
ReplaceLeaks ==
  /\ who # Nobody
  /\ obj' = [obj EXCEPT ![who] = obj["next"]]
  /\ who' = Nobody
  /\ UNCHANGED <<at, lost>>

(* The assignment that destroys the object replaced.                       *)
Replace ==
  /\ who # Nobody
  /\ obj' = [obj EXCEPT ![who] = obj["next"], !["next"] = NoPage]
  /\ who' = Nobody
  /\ UNCHANGED <<at, lost>>

Without(objects) == [o \in Objects |-> IF o \in objects THEN NoPage ELSE obj[o]]

Destroy(l) ==
  /\ at = l.from /\ who = Nobody
  /\ l.to = "indexing" => \E t \in Trees : obj[t] # NoPage
  /\ obj' = Without(l.objects)
  /\ at' = l.to
  /\ UNCHANGED <<who, lost>>

(* The next record of create_index's scan goes into the tree, and the end  *)
(* of an insert into a tree: back to create_index or to the client.        *)
IndexNext ==
  /\ at = "scanning" /\ who = Nobody
  /\ at' = "indexing"
  /\ UNCHANGED <<obj, who, lost>>

Indexed ==
  /\ at = "indexed" /\ who = Nobody
  /\ at' = IF obj["scan"] = NoPage THEN "idle" ELSE "scanning"
  /\ UNCHANGED <<obj, who, lost>>

(* A client destroys an iterator, or next() reaches the end of the file.   *)
Close(i) ==
  /\ at = "idle" /\ who = Nobody
  /\ obj[i] # NoPage
  /\ obj' = [obj EXCEPT ![i] = NoPage]
  /\ UNCHANGED <<at, who, lost>>

(* Mutant: unwinding does not destroy the iterator of create_index.        *)
UnwoundButScan == Without(Locals \ {"scan"})

(* The objects of the call are destroyed.  Roots and the pages of          *)
(* iterators stay: theirs are not replaced.                                *)
Unwound == Without(Locals)

(* get_page throws, in the write of a victim or in the read of the page;   *)
(* the frame of a page that could not be read stays pinned.  While the     *)
(* catalog is constructed nobody catches that.                             *)
GetPageThrows(n) ==
  /\ who = Nobody
  /\ \E t \in Takes \cup Replacements : at = t.from
  /\ SomeFrameIsFree
  /\ lost + n <= MaxLost
  /\ IF at = "starting"
     THEN obj' = [o \in Objects |-> NoPage] /\ at' = "down" /\ lost' = 0
     ELSE obj' = Unwound /\ at' = "idle" /\ lost' = lost + n
  /\ UNCHANGED who

-----------------------------------------------------------------------------
(* The process: System::System, which loads the catalog, ~Catalog, which   *)
(* destroys the trees, ~BufferManager, which flushes, and an end without   *)
(* them.                                                                   *)
Start ==
  /\ at = "down"
  /\ at' = "starting"
  /\ UNCHANGED <<obj, who, lost>>

Started ==
  /\ at = "starting"
  /\ at' = "idle"
  /\ UNCHANGED <<obj, who, lost>>

(* Clients have destroyed their iterators, which refer to heap files.      *)
Stop ==
  /\ at = "idle" /\ who = Nobody
  /\ \A i \in Iters : obj[i] = NoPage
  /\ obj' = Without(Trees)
  /\ at' = "flushing"
  /\ UNCHANGED <<who, lost>>

Die ==
  /\ at # "down"
  /\ obj' = [o \in Objects |-> NoPage]
  /\ at' = "down"
  /\ who' = Nobody
  /\ lost' = 0

Next ==
  \/ \E t \in Takes, p \in Pages : Construct(t, p)
  \/ \E t \in Replacements, p \in Pages : ConstructNext(t, p)
  \/ Replace
  \/ \E l \in Leaves : Destroy(l)
  \/ IndexNext
  \/ Indexed
  \/ \E i \in Iters : Close(i)
  \/ \E n \in {0, 1} : GetPageThrows(n)
  \/ Start
  \/ Started
  \/ Stop
  \/ Die

Spec == Init /\ [][Next]_vars

-----------------------------------------------------------------------------
Points ==
  {"down", "starting", "idle", "inserting", "touching", "indexing", "row", "descending", "dir", "leaf", "deep",
   "splitting", "halving", "halved", "indexed", "searching", "searched", "found", "rooted", "scanning", "flushing"}

(* Every variable keeps its shape.                                         *)
TypeOK ==
  /\ obj \in [Objects -> Pages \cup {NoPage}]
  /\ at \in Points
  /\ who \in Objects \cup {Nobody}
  /\ lost \in 0 .. MaxLost

(* Whenever the code is about to call get_page, some frame is not pinned,  *)
(* however the operations of clients with open iterators and indexes and   *)
(* the exceptions of earlier calls came together: get_unused_page ends     *)
(* (buffer_manager.cc:69-82) in a buffer of the size FramesAssumption has. *)
GetPageFindsFrame ==
  (who = Nobody /\ \E t \in Takes \cup Replacements : at = t.from) => SomeFrameIsFree

(* No pin outlives its object: between two calls only roots and iterators  *)
(* hold pages, and when ~BufferManager asserts that no frame is pinned     *)
(* (buffer_manager.cc:53) only reads that failed can have left a pin.      *)
PinsEndWithCalls ==
  /\ at = "idle" /\ who = Nobody => \A o \in Locals : obj[o] = NoPage
  /\ at = "flushing" => Held = {}

(* The local objects a call may hold at a control point.                   *)
MayHold(c) ==
  CASE c = "inserting" -> {"page", "next"}
    [] c = "touching"  -> {"page", "row"}
    [] c = "scanning"  -> {"scan", "next"}
    [] c = "idle"      -> {"next"}
    [] c = "row"       -> {"scan", "row"}
    [] c = "dir"       -> {"scan", "dir"}
    [] c = "leaf"      -> {"scan", "leaf"}
    [] c = "deep"      -> {"scan", "dir", "leaf"}
    [] c = "halving"   -> {"scan", "lhs"}
    [] c = "halved"    -> {"scan", "lhs", "rhs"}
    [] c = "searching" -> {"dir"}
    [] c = "searched"  -> {"dir", "leaf"}
    [] c \in {"indexing", "descending", "splitting", "indexed"} -> {"scan"}
    [] OTHER -> {}

(* The inductive invariant: every pin belongs to an object that is in      *)
(* scope where the code is, and the page of "next" to an object that is    *)
(* being replaced there.                                                   *)
IInv ==
  /\ TypeOK
  /\ \A o \in Locals : obj[o] # NoPage => o \in MayHold(at)
  /\ who = Nobody => obj["next"] = NoPage
  /\ who # Nobody => \E t \in Replacements : who = t.object /\ at = t.to
  /\ at = "flushing" => \A o \in Objects : obj[o] = NoPage

=============================================================================
