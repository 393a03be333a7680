------------------------- MODULE PageObjects_proofs -------------------------
(***************************************************************************)
(* Proofs about PageObjects, for every number of trees, iterators, pages   *)
(* and failed reads: no pin outlives its object, and every call of         *)
(* get_page finds a frame that is not pinned.                              *)
(***************************************************************************)
EXTENDS PageObjects, FiniteSetTheorems, TLAPS

(* What may be held where an object is taken may still be held afterwards, *)
(* with that object.                                                       *)
LEMMA TakesInScope ==
  ASSUME NEW t \in Takes
  PROVE  /\ t.from \in Points \ {"flushing"} /\ t.to \in Points \ {"flushing"}
         /\ t.object \in Objects \ {"next"}
         /\ t.object \in Locals => t.object \in MayHold(t.to)
         /\ MayHold(t.from) \ {"next"} \subseteq MayHold(t.to)
<1>1. CASE t \in HeapTakes
  BY <1>1, ObjectsAssumption DEF HeapTakes, Take, Points, Objects, Iters, Locals, MayHold
<1>2. CASE t \in InsertTakes
  BY <1>2 DEF InsertTakes, Take, Points, Objects, Locals, MayHold
<1>3. CASE t \in SearchTakes
  BY <1>3 DEF SearchTakes, Take, Points, Objects, Locals, MayHold
<1>4. CASE t \in CatalogTakes
  BY <1>4, ObjectsAssumption DEF CatalogTakes, Take, Points, Objects, Locals, MayHold
<1>. QED
  BY <1>1, <1>2, <1>3, <1>4 DEF Takes

(* The same of an object that is replaced.                                 *)
LEMMA ReplacementsInScope ==
  ASSUME NEW t \in Replacements
  PROVE  /\ t.from \in Points \ {"flushing"} /\ t.to \in Points \ {"flushing"}
         /\ t.object \in Objects \ {"next"}
         /\ t.object \in Locals => t.object \in MayHold(t.to)
         /\ "next" \in MayHold(t.to)
         /\ MayHold(t.from) \subseteq MayHold(t.to)
  BY ObjectsAssumption DEF Replacements, Take, Points, Objects, Iters, Locals, MayHold

(* What a call leaves with is in scope where it goes on.                   *)
LEMMA LeavesInScope ==
  ASSUME NEW l \in Leaves
  PROVE  /\ l.from \in Points \ {"flushing"} /\ l.to \in Points \ {"flushing"}
         /\ (MayHold(l.from) \ l.objects) \ {"next"} \subseteq MayHold(l.to)
  BY DEF Leaves, Leave, Points, MayHold

(* Objects out of scope give up their page, the others keep it.            *)
LEMMA WithoutType ==
  ASSUME TypeOK, NEW S
  PROVE  /\ Without(S) \in [Objects -> Pages \cup {NoPage}]
         /\ \A o \in Objects : Without(S)[o] = IF o \in S THEN NoPage ELSE obj[o]
  BY DEF Without, TypeOK

LEMMA LocalsAreObjects == Locals \subseteq Objects /\ "next" \in Locals
  BY DEF Locals, Objects

LEMMA InitInvariant == Init => IInv
  BY ObjectsAssumption, LostAssumption, LocalsAreObjects DEF Init, IInv, TypeOK, Points

LEMMA ConstructKeeps ==
  ASSUME IInv, NEW t \in Takes, NEW p \in Pages, Construct(t, p)
  PROVE  IInv'
  BY TakesInScope, LocalsAreObjects, ObjectsAssumption DEF IInv, TypeOK, Construct

LEMMA ConstructNextKeeps ==
  ASSUME IInv, NEW t \in Replacements, NEW p \in Pages, ConstructNext(t, p)
  PROVE  IInv'
<1>1. TypeOK'
  BY ReplacementsInScope, LocalsAreObjects DEF IInv, TypeOK, ConstructNext
<1>2. at' = t.to /\ who' = t.object /\ who' # Nobody
  BY ReplacementsInScope, ObjectsAssumption DEF ConstructNext
<1>3. \A o \in Locals : obj'[o] # NoPage => o \in MayHold(at')
  BY <1>2, ReplacementsInScope, LocalsAreObjects DEF IInv, TypeOK, ConstructNext
<1>. QED
  BY <1>1, <1>2, <1>3, ReplacementsInScope DEF IInv

LEMMA ReplaceKeeps ==
  ASSUME IInv, Replace
  PROVE  IInv'
<1>1. PICK t \in Replacements : who = t.object /\ at = t.to
  BY DEF IInv, Replace
<1>2. who \in Objects \ {"next"} /\ at # "flushing" /\ (who \in Locals => who \in MayHold(at))
  BY <1>1, ReplacementsInScope
<1>3. TypeOK'
  BY <1>2, LocalsAreObjects DEF IInv, TypeOK, Replace
<1>4. obj'["next"] = NoPage
  BY <1>2, LocalsAreObjects DEF IInv, TypeOK, Replace
<1>5. \A o \in Locals : obj'[o] # NoPage => o \in MayHold(at)
  BY <1>2, LocalsAreObjects DEF IInv, TypeOK, Replace
<1>. QED
  BY <1>2, <1>3, <1>4, <1>5 DEF IInv, Replace

LEMMA DestroyKeeps ==
  ASSUME IInv, NEW l \in Leaves, Destroy(l)
  PROVE  IInv'
<1>1. obj' = Without(l.objects) /\ at' = l.to /\ at = l.from /\ who = Nobody /\ who' = Nobody /\ lost' = lost
  BY DEF Destroy
<1>2. /\ obj' \in [Objects -> Pages \cup {NoPage}]
      /\ \A o \in Objects : obj'[o] = IF o \in l.objects THEN NoPage ELSE obj[o]
  BY <1>1, WithoutType DEF IInv
<1>3. TypeOK'
  BY <1>1, <1>2, LeavesInScope DEF IInv, TypeOK
<1>4. \A o \in Locals : obj'[o] # NoPage => o \in MayHold(at')
  BY <1>1, <1>2, LeavesInScope, LocalsAreObjects DEF IInv
<1>5. obj'["next"] = NoPage /\ at' # "flushing"
  BY <1>1, <1>2, LeavesInScope, LocalsAreObjects DEF IInv
<1>. QED
  BY <1>1, <1>3, <1>4, <1>5 DEF IInv

(* The steps that take no page.                                            *)
LEMMA MoveKeeps ==
  ASSUME IInv, IndexNext \/ Indexed \/ Start \/ Started
  PROVE  IInv'
<1>1. CASE IndexNext
  BY <1>1 DEF IInv, TypeOK, IndexNext, Points, MayHold
<1>2. CASE Indexed
  BY <1>2 DEF IInv, TypeOK, Indexed, Points, MayHold, Locals
<1>3. CASE Start
  BY <1>3 DEF IInv, TypeOK, Start, Points, MayHold, Replacements, Take
<1>4. CASE Started
  BY <1>4 DEF IInv, TypeOK, Started, Points, MayHold, Replacements, Take
<1>. QED
  BY <1>1, <1>2, <1>3, <1>4

LEMMA CloseKeeps ==
  ASSUME IInv, NEW i \in Iters, Close(i)
  PROVE  IInv'
  BY ObjectsAssumption, LocalsAreObjects DEF IInv, TypeOK, Close, Objects

LEMMA ThrowKeeps ==
  ASSUME IInv, NEW n \in {0, 1}, GetPageThrows(n)
  PROVE  IInv'
<1>1. CASE at = "starting"
  BY <1>1, LostAssumption, LocalsAreObjects DEF IInv, TypeOK, GetPageThrows, Points
<1>2. CASE at # "starting"
  <2>1. obj' = Without(Locals) /\ at' = "idle" /\ who = Nobody /\ who' = Nobody /\ lost' = lost + n
        /\ lost + n <= MaxLost
    BY <1>2 DEF GetPageThrows, Unwound
  <2>2. obj' \in [Objects -> Pages \cup {NoPage}] /\ \A o \in Locals : obj'[o] = NoPage
    BY <2>1, WithoutType, LocalsAreObjects DEF IInv
  <2>3. TypeOK'
    BY <2>1, <2>2, LostAssumption DEF IInv, TypeOK, Points
  <2>. QED
    BY <2>1, <2>2, <2>3, LocalsAreObjects DEF IInv
<1>. QED
  BY <1>1, <1>2

LEMMA StopKeeps ==
  ASSUME IInv, Stop
  PROVE  IInv'
<1>1. obj' = Without(Trees) /\ at' = "flushing" /\ at = "idle" /\ who = Nobody /\ who' = Nobody /\ lost' = lost
      /\ \A i \in Iters : obj[i] = NoPage
  BY DEF Stop
<1>2. /\ obj' \in [Objects -> Pages \cup {NoPage}]
      /\ \A o \in Objects : obj'[o] = IF o \in Trees THEN NoPage ELSE obj[o]
  BY <1>1, WithoutType DEF IInv
<1>3. \A o \in Locals : obj[o] = NoPage
  BY <1>1 DEF IInv, MayHold, Locals
<1>4. \A o \in Objects : obj'[o] = NoPage
  BY <1>1, <1>2, <1>3 DEF Objects
<1>5. TypeOK'
  BY <1>1, <1>2 DEF IInv, TypeOK, Points
<1>. QED
  BY <1>1, <1>4, <1>5, LocalsAreObjects DEF IInv

LEMMA DieKeeps ==
  ASSUME IInv, Die
  PROVE  IInv'
  BY LostAssumption, LocalsAreObjects DEF IInv, TypeOK, Die, Points

LEMMA StepInvariant == IInv /\ [Next]_vars => IInv'
<1>. SUFFICES ASSUME IInv, [Next]_vars
              PROVE  IInv'
  OBVIOUS
<1>1. CASE \E t \in Takes, p \in Pages : Construct(t, p)
  BY <1>1, ConstructKeeps
<1>2. CASE \E t \in Replacements, p \in Pages : ConstructNext(t, p)
  BY <1>2, ConstructNextKeeps
<1>3. CASE Replace
  BY <1>3, ReplaceKeeps
<1>4. CASE \E l \in Leaves : Destroy(l)
  BY <1>4, DestroyKeeps
<1>5. CASE IndexNext \/ Indexed \/ Start \/ Started
  BY <1>5, MoveKeeps
<1>6. CASE \E i \in Iters : Close(i)
  BY <1>6, CloseKeeps
<1>7. CASE \E n \in {0, 1} : GetPageThrows(n)
  BY <1>7, ThrowKeeps
<1>8. CASE Stop
  BY <1>8, StopKeeps
<1>9. CASE Die
  BY <1>9, DieKeeps
<1>10. CASE UNCHANGED vars
  BY <1>10 DEF IInv, TypeOK, vars
<1>. QED
  BY <1>1, <1>2, <1>3, <1>4, <1>5, <1>6, <1>7, <1>8, <1>9, <1>10 DEF Next

(* The inductive invariant: the pages an operation holds are those of the  *)
(* objects in scope where it is (the constructors and destructors of       *)
(* HeapFilePage, BPlusTreeDir and BPlusTreeLeaf).                          *)
THEOREM Invariance == Spec => []IInv
<1>1. Init => IInv
  BY InitInvariant
<1>2. IInv /\ [Next]_vars => IInv'
  BY StepInvariant
<1>. QED
  BY <1>1, <1>2, PTL DEF Spec

-----------------------------------------------------------------------------
(* Where a page is asked for, at most two local objects have one.          *)
LEMMA TwoLocals ==
  ASSUME NEW t \in Takes \cup Replacements
  PROVE  \E x, y \in Locals : MayHold(t.from) \ {"next"} \subseteq {x, y}
<1>1. t.from \in {"starting", "idle", "inserting", "indexing", "descending", "splitting", "found", "rooted", "scanning",
                  "dir", "searching", "halving"}
  BY DEF Takes, HeapTakes, InsertTakes, SearchTakes, CatalogTakes, Replacements, Take
<1>2. CASE t.from \in {"dir", "searching"}
  <2>1. MayHold(t.from) \ {"next"} \subseteq {"scan", "dir"}
    BY <1>2 DEF MayHold
  <2>. QED
    BY <2>1 DEF Locals
<1>3. CASE t.from = "halving"
  <2>1. MayHold(t.from) \ {"next"} \subseteq {"scan", "lhs"}
    BY <1>3 DEF MayHold
  <2>. QED
    BY <2>1 DEF Locals
<1>4. CASE t.from \notin {"dir", "searching", "halving"}
  <2>1. MayHold(t.from) \ {"next"} \subseteq {"scan", "page"}
    BY <1>1, <1>4 DEF MayHold
  <2>. QED
    BY <2>1 DEF Locals
<1>. QED
  BY <1>2, <1>3, <1>4

(* No more pages are held than objects hold one.                           *)
LEMMA HeldBound ==
  ASSUME TypeOK, NEW S, IsFiniteSet(S),
         \A o \in Objects : obj[o] # NoPage => o \in S
  PROVE  Cardinality(Held) \in Nat /\ Cardinality(Held) <= Cardinality(S)
<1>. DEFINE holders == {o \in Objects : obj[o] # NoPage}
            page == [o \in holders |-> obj[o]]
<1>1. IsFiniteSet(holders) /\ Cardinality(holders) <= Cardinality(S)
  BY FS_Subset
<1>2. page \in Surjection(holders, Held)
  BY DEF Surjection, Held
<1>3. IsFiniteSet(Held) /\ Cardinality(Held) <= Cardinality(holders)
  BY <1>1, <1>2, FS_Surjection
<1>4. Cardinality(Held) \in Nat /\ Cardinality(holders) \in Nat /\ Cardinality(S) \in Nat
  BY <1>1, <1>3, FS_CardinalityType
<1>. QED
  BY <1>1, <1>3, <1>4

(* One more element makes a finite set larger by at most one.              *)
LEMMA OneMore ==
  ASSUME NEW S, NEW x, IsFiniteSet(S)
  PROVE  IsFiniteSet(S \cup {x}) /\ Cardinality(S \cup {x}) <= Cardinality(S) + 1
<1>1. Cardinality(S) \in Nat
  BY FS_CardinalityType
<1>2. /\ IsFiniteSet(S \cup {x})
      /\ Cardinality(S \cup {x}) = IF x \in S THEN Cardinality(S) ELSE Cardinality(S) + 1
  BY FS_AddElement
<1>. QED
  BY <1>1, <1>2

LEMMA InvariantFindsFrame == IInv => GetPageFindsFrame
<1>. SUFFICES ASSUME IInv, who = Nobody, NEW t \in Takes \cup Replacements, at = t.from
              PROVE  SomeFrameIsFree
  BY DEF GetPageFindsFrame
<1>1. PICK x, y \in Locals : MayHold(t.from) \ {"next"} \subseteq {x, y}
  BY TwoLocals
<1>. DEFINE roots == Trees \cup Iters
            S == (roots \cup {x}) \cup {y}
<1>2. \A o \in Objects : obj[o] # NoPage => o \in S
  BY <1>1 DEF IInv, Objects
<1>3. IsFiniteSet(Iters) /\ IsFiniteSet(Trees)
  BY TreesAssumption, FS_Union DEF Iters
<1>4. IsFiniteSet(roots) /\ Cardinality(roots) = Cardinality(Trees) + Cardinality(Iters) - Cardinality(Trees \cap Iters)
  BY <1>3, FS_Union
<1>5. Cardinality(Trees \cap Iters) = 0
  BY ObjectsAssumption, FS_EmptySet
<1>6. IsFiniteSet(roots \cup {x}) /\ Cardinality(roots \cup {x}) <= Cardinality(roots) + 1
  BY <1>4, OneMore
<1>7. IsFiniteSet(S) /\ Cardinality(S) <= Cardinality(roots \cup {x}) + 1
  BY <1>6, OneMore
<1>8. Cardinality(Held) \in Nat /\ Cardinality(Held) <= Cardinality(S)
  <2>. HIDE DEF S
  <2>. QED
    BY <1>2, <1>7, HeldBound DEF IInv
<1>9. /\ Cardinality(Trees) \in Nat /\ Cardinality(Iters) \in Nat /\ Cardinality(roots) \in Nat
      /\ Cardinality(roots \cup {x}) \in Nat /\ Cardinality(S) \in Nat
  BY <1>3, <1>4, <1>6, <1>7, FS_CardinalityType
<1>10. lost \in Nat /\ lost <= MaxLost
  BY LostAssumption DEF IInv, TypeOK
<1>. HIDE DEF S, roots
<1>. QED
  BY <1>4, <1>5, <1>6, <1>7, <1>8, <1>9, <1>10, FramesAssumption, LostAssumption DEF SomeFrameIsFree

LEMMA InvariantEndsPins == IInv => PinsEndWithCalls
  BY DEF IInv, PinsEndWithCalls, MayHold, Locals, Held

(* get_page is never called with every frame pinned, so that               *)
(* get_unused_page (buffer_manager.cc:69-82) finds one, in any buffer with *)
(* three frames more than there are roots, iterators and lost pins.        *)
THEOREM NoCallSpins == Spec => []GetPageFindsFrame
  BY Invariance, InvariantFindsFrame, PTL

(* No pin outlives its object: the flush of ~BufferManager                 *)
(* (buffer_manager.cc:48-58) finds no pin but those of failed reads.       *)
THEOREM NoPinOutlives == Spec => []PinsEndWithCalls
  BY Invariance, InvariantEndsPins, PTL

=============================================================================
