------------------------ MODULE BPlusTreeDir_proofs -------------------------
(***************************************************************************)
(* For pages of any size and any number of leaves and records: through any *)
(* splits the directories cut the records into the ranges of the leaves,   *)
(* so that every record is routed to its leaf, where the searches find it. *)
(***************************************************************************)
EXTENDS BPlusTreeDir, BPlusTreeNode_proofs

LEMMA ConstantsTyped ==
  /\ Least \in Int /\ MaxRecord \in Int /\ Least <= 0 /\ 0 <= MaxRecord /\ 0 \in AllRecords
  /\ \A r : r \in AllRecords <=> r \in Int /\ Least <= r /\ r <= MaxRecord
  /\ DirRecords \in Nat /\ DirRecords >= 2 /\ DirChildren = DirRecords + 1
  /\ MaxLeaves \in Nat /\ MaxLeaves >= 1
BY RangeAssumption, DirRecordsAssumption, LeavesAssumption DEF Least, AllRecords, DirChildren

-----------------------------------------------------------------------------
(***************************************************************************)
(* Directories as lists of children and separators, longer than a page if  *)
(* need be.                                                                *)
(***************************************************************************)

(* The lists of two directories are the same.                              *)
SameLists(d, e) ==
  /\ d.count = e.count
  /\ \A i \in 0 .. d.count - 1 : d.child[i] = e.child[i]
  /\ \A i \in 0 .. d.count - 2 : d.record[i] = e.record[i]

(* The list with child p behind child at, and record r before it.          *)
WithChild(dir, at, r, p) ==
  [count |-> dir.count + 1,
   child |-> [i \in 0 .. dir.count |-> IF i <= at THEN dir.child[i] ELSE IF i = at + 1 THEN p ELSE dir.child[i - 1]],
   record |-> [i \in 0 .. dir.count - 1 |-> IF i < at THEN dir.record[i] ELSE IF i = at THEN r ELSE dir.record[i - 1]]]

(* The first k + 1 children of a list, and the others.                     *)
Front(dir, k) == [count |-> k + 1, child |-> dir.child, record |-> dir.record]
Back(dir, k) ==
  [count |-> dir.count - (k + 1),
   child |-> [i \in 0 .. dir.count - k - 2 |-> dir.child[k + 1 + i]],
   record |-> [i \in 0 .. dir.count - k - 3 |-> dir.record[k + 1 + i]]]

(* Only the cells that count matter.                                       *)
LEMMA SameListsCut ==
  ASSUME NEW d, NEW e, d.count \in Int, SameLists(d, e), NEW first, NEW end, NEW low, NEW n, Cuts(d, first, end, low, n)
  PROVE  Cuts(e, first, end, low, n)
<1>1. \A i \in 0 .. d.count - 1 : i # 0 => i - 1 \in 0 .. d.count - 2
  OBVIOUS
<1> QED
  BY <1>1 DEF SameLists, Cuts

(* A leaf that splits below a directory.                                   *)
LEMMA WithChildCuts ==
  ASSUME NEW dir, dir.count \in Int, NEW first \in Int, NEW end \in Int, NEW low, NEW n \in Nat,
         Cuts(dir, first, end, low, n),
         NEW r \in AllRecords, NEW at, IsChildOf(dir, r, at), low[dir.child[at]] < r, r < end,
         NEW low2, \A l \in 0 .. n - 1 : low2[l] = low[l], low2[n] = r
  PROVE  Cuts(WithChild(dir, at, r, n), first, end, low2, n + 1)
<1> DEFINE E == WithChild(dir, at, r, n)
           c == dir.count
<1>1. /\ c \in Nat /\ c >= 1 /\ at \in 0 .. c - 1 /\ r \in Int
      /\ \A j \in 0 .. at - 1 : dir.record[j] <= r
      /\ \A j \in at .. c - 2 : r < dir.record[j]
  BY ConstantsTyped DEF IsChildOf, Cuts
<1>2. /\ \A i \in 0 .. c - 1 : dir.child[i] \in 0 .. n - 1 /\ low[dir.child[i]] = IF i = 0 THEN first ELSE dir.record[i - 1]
      /\ \A i \in 0 .. c - 2 : dir.record[i] \in Int /\ dir.record[i] \in AllRecords /\ first < dir.record[i] /\ dir.record[i] < end
      /\ \A i, j \in 0 .. c - 2 : i < j => dir.record[i] < dir.record[j]
  BY ConstantsTyped DEF Cuts
<1>3. /\ E.count = c + 1
      /\ \A i \in 0 .. c : E.child[i] = IF i <= at THEN dir.child[i] ELSE IF i = at + 1 THEN n ELSE dir.child[i - 1]
      /\ \A i \in 0 .. c - 1 : E.record[i] = IF i < at THEN dir.record[i] ELSE IF i = at THEN r ELSE dir.record[i - 1]
  BY DEF WithChild
<1> HIDE DEF E
<1>4. first < r /\ (at > 0 => dir.record[at - 1] < r)
  <2>1. CASE at = 0
    BY <1>1, <1>2, <2>1
  <2>2. CASE at > 0
    <3>1. at - 1 \in 0 .. c - 2 /\ low[dir.child[at]] = dir.record[at - 1]
      BY <1>1, <1>2, <2>2
    <3> QED
      BY <1>1, <1>2, <3>1
  <2> QED
    BY <1>1, <2>1, <2>2
<1>5. ASSUME NEW i \in 0 .. c
      PROVE  E.child[i] \in 0 .. n /\ low2[E.child[i]] = IF i = 0 THEN first ELSE E.record[i - 1]
  <2>1. CASE i <= at
    <3>1. i \in 0 .. c - 1 /\ E.child[i] = dir.child[i] /\ dir.child[i] \in 0 .. n - 1
      BY <1>1, <1>2, <1>3, <2>1
    <3>2. low2[E.child[i]] = IF i = 0 THEN first ELSE dir.record[i - 1]
      BY <1>2, <3>1
    <3>3. i # 0 => E.record[i - 1] = dir.record[i - 1]
      BY <1>1, <1>3, <2>1, <3>1
    <3> QED
      BY <3>1, <3>2, <3>3
  <2>2. CASE i = at + 1
    <3>1. E.child[i] = n /\ i # 0 /\ i - 1 = at /\ E.record[at] = r
      BY <1>1, <1>3, <2>2
    <3> QED
      BY <3>1
  <2>3. CASE i > at + 1
    <3>1. /\ i - 1 \in 0 .. c - 1 /\ E.child[i] = dir.child[i - 1] /\ dir.child[i - 1] \in 0 .. n - 1
          /\ i # 0 /\ i - 1 # 0
      BY <1>1, <1>2, <1>3, <2>3
    <3>2. low2[E.child[i]] = dir.record[(i - 1) - 1]
      BY <1>2, <3>1
    <3>3. E.record[i - 1] = dir.record[(i - 1) - 1]
      BY <1>1, <1>3, <2>3, <3>1
    <3> QED
      BY <3>1, <3>2, <3>3
  <2> QED
    BY <1>1, <2>1, <2>2, <2>3
<1>6. ASSUME NEW i \in 0 .. c - 1
      PROVE  E.record[i] \in AllRecords /\ first < E.record[i] /\ E.record[i] < end
  <2>1. i < at => i \in 0 .. c - 2
    BY <1>1
  <2>2. i > at => i - 1 \in 0 .. c - 2
    BY <1>1
  <2> QED
    BY <1>1, <1>2, <1>3, <1>4, <2>1, <2>2
<1>7. ASSUME NEW i \in 0 .. c - 1, NEW j \in 0 .. c - 1, i < j
      PROVE  E.record[i] < E.record[j]
  <2>0. \A k \in 0 .. c - 2 : dir.record[k] \in Int
    BY <1>2
  <2>1. CASE j < at
    <3>1. i \in 0 .. c - 2 /\ j \in 0 .. c - 2 /\ E.record[i] = dir.record[i] /\ E.record[j] = dir.record[j]
      BY <1>1, <1>3, <1>7, <2>1
    <3> QED
      BY <1>2, <1>7, <3>1
  <2>2. CASE j = at
    <3>1. /\ i \in 0 .. c - 2 /\ at - 1 \in 0 .. c - 2 /\ i <= at - 1
          /\ E.record[i] = dir.record[i] /\ E.record[j] = r
      BY <1>1, <1>3, <1>7, <2>2
    <3>2. i = at - 1 \/ dir.record[i] < dir.record[at - 1]
      BY <1>2, <3>1
    <3> QED
      BY <1>1, <1>4, <2>0, <3>1, <3>2
  <2>3. CASE j > at
    <3>1. j - 1 \in 0 .. c - 2 /\ j - 1 \in at .. c - 2 /\ E.record[j] = dir.record[j - 1]
      BY <1>1, <1>3, <2>3
    <3>2. r < dir.record[j - 1]
      BY <1>1, <3>1
    <3>3. CASE i < at
      <4>1. i \in 0 .. c - 2 /\ i < j - 1 /\ E.record[i] = dir.record[i]
        BY <1>1, <1>3, <2>3, <3>3
      <4> QED
        BY <1>2, <3>1, <4>1
    <3>4. CASE i = at
      BY <1>3, <3>1, <3>2, <3>4
    <3>5. CASE i > at
      <4>1. i - 1 \in 0 .. c - 2 /\ i - 1 < j - 1 /\ E.record[i] = dir.record[i - 1]
        BY <1>1, <1>3, <1>7, <3>5
      <4> QED
        BY <1>2, <3>1, <4>1
    <3> QED
      BY <1>1, <3>3, <3>4, <3>5
  <2> QED
    BY <1>1, <2>1, <2>2, <2>3
<1> QED
  BY <1>1, <1>3, <1>5, <1>6, <1>7 DEF Cuts, E

(* A list cut in two, at a separator.                                      *)
LEMMA HalvesCut ==
  ASSUME NEW dir, dir.count \in Int, NEW first \in Int, NEW end \in Int, NEW low, NEW n \in Nat,
         Cuts(dir, first, end, low, n), NEW k \in 0 .. dir.count - 2
  PROVE  /\ Cuts(Front(dir, k), first, dir.record[k], low, n)
         /\ Cuts(Back(dir, k), dir.record[k], end, low, n)
         /\ dir.record[k] \in AllRecords /\ first < dir.record[k]
<1> DEFINE c == dir.count
           F == Front(dir, k)
           B == Back(dir, k)
           b == c - (k + 1)
<1>1. c \in Nat /\ k \in Nat /\ k <= c - 2 /\ b \in Nat /\ b >= 1
  OBVIOUS
<1>2. /\ \A i \in 0 .. c - 1 : dir.child[i] \in 0 .. n - 1 /\ low[dir.child[i]] = IF i = 0 THEN first ELSE dir.record[i - 1]
      /\ \A i \in 0 .. c - 2 : dir.record[i] \in Int /\ dir.record[i] \in AllRecords /\ first < dir.record[i] /\ dir.record[i] < end
      /\ \A i, j \in 0 .. c - 2 : i < j => dir.record[i] < dir.record[j]
  BY ConstantsTyped DEF Cuts
<1>3. F.count = k + 1 /\ F.child = dir.child /\ F.record = dir.record
  BY DEF Front
<1>4. /\ B.count = b
      /\ \A i \in 0 .. b - 1 : B.child[i] = dir.child[k + 1 + i]
      /\ \A i \in 0 .. b - 2 : B.record[i] = dir.record[k + 1 + i]
  BY <1>1 DEF Back
<1> HIDE DEF F, B, b
<1>5. Cuts(F, first, dir.record[k], low, n)
  <2>1. \A i \in 0 .. (k + 1) - 1 : i \in 0 .. c - 1
    BY <1>1
  <2>2. \A i \in 0 .. (k + 1) - 2 : i \in 0 .. c - 2 /\ i < k /\ k \in 0 .. c - 2
    BY <1>1
  <2>3. \A i \in 0 .. (k + 1) - 1 : dir.child[i] \in 0 .. n - 1 /\ low[dir.child[i]] = IF i = 0 THEN first ELSE dir.record[i - 1]
    BY <1>2, <2>1
  <2>4. \A i \in 0 .. (k + 1) - 2 : dir.record[i] \in AllRecords /\ first < dir.record[i] /\ dir.record[i] < dir.record[k]
    BY <1>2, <2>2
  <2>5. \A i, j \in 0 .. (k + 1) - 2 : i < j => dir.record[i] < dir.record[j]
    BY <1>2, <2>2
  <2> QED
    BY <1>1, <1>3, <2>3, <2>4, <2>5 DEF Cuts
<1>6. Cuts(B, dir.record[k], end, low, n)
  <2>1. \A i \in 0 .. b - 1 : k + 1 + i \in 0 .. c - 1 /\ k + 1 + i # 0
    BY <1>1 DEF b
  <2>2. \A i \in 0 .. b - 2 : k + 1 + i \in 0 .. c - 2 /\ k < k + 1 + i /\ k \in 0 .. c - 2
    BY <1>1 DEF b
  <2>3. ASSUME NEW i \in 0 .. b - 1
        PROVE  B.child[i] \in 0 .. n - 1 /\ low[B.child[i]] = IF i = 0 THEN dir.record[k] ELSE B.record[i - 1]
    <3>1. B.child[i] = dir.child[k + 1 + i] /\ dir.child[k + 1 + i] \in 0 .. n - 1
      BY <1>2, <1>4, <2>1
    <3>2. low[B.child[i]] = dir.record[(k + 1 + i) - 1] /\ (k + 1 + i) - 1 = k + i
      BY <1>1, <1>2, <2>1, <3>1
    <3>3. i # 0 => i - 1 \in 0 .. b - 2 /\ k + 1 + (i - 1) = k + i
      BY <1>1
    <3>4. i # 0 => B.record[i - 1] = dir.record[k + i]
      BY <1>4, <3>3
    <3>5. i = 0 => k + i = k
      BY <1>1
    <3> QED
      BY <3>1, <3>2, <3>4, <3>5
  <2>4. ASSUME NEW i \in 0 .. b - 2
        PROVE  B.record[i] \in AllRecords /\ dir.record[k] < B.record[i] /\ B.record[i] < end
    BY <1>2, <1>4, <2>2
  <2>5. ASSUME NEW i \in 0 .. b - 2, NEW j \in 0 .. b - 2, i < j PROVE B.record[i] < B.record[j]
    <3>1. k + 1 + i < k + 1 + j
      BY <1>1, <2>5
    <3> QED
      BY <1>2, <1>4, <2>2, <3>1
  <2> QED
    BY <1>1, <1>4, <2>3, <2>4, <2>5 DEF Cuts
<1> QED
  BY <1>2, <1>5, <1>6 DEF F, B

-----------------------------------------------------------------------------
(***************************************************************************)
(* What a split writes: the page Case 1 changes has the list with the new  *)
(* child, the three pages of Case 3 have its two halves and the separator  *)
(* between them.                                                           *)
(***************************************************************************)
DirPages ==
  [count : 0 .. DirChildren, child : [0 .. DirChildren - 1 -> Int], record : [0 .. DirRecords - 1 -> AllRecords \cup {0}]]

(* Membership in the set of directories, as the provers can use it.        *)
LEMMA DirPageShape ==
  ASSUME NEW d
  PROVE  d \in DirPages <=>
           /\ d = [count |-> d.count, child |-> d.child, record |-> d.record]
           /\ d.count \in 0 .. DirChildren
           /\ d.child \in [0 .. DirChildren - 1 -> Int]
           /\ d.record \in [0 .. DirRecords - 1 -> AllRecords \cup {0}]
BY DEF DirPages

LEMMA ZeroDirTyped == ZeroDir \in DirPages
BY ConstantsTyped DEF DirPages, ZeroDir

(* What the shift leaves in every cell: records and children move by       *)
(* different offsets.                                                      *)
LEMMA ShiftedCells ==
  ASSUME NEW dir \in DirPages, NEW at \in 0 .. DirRecords - 1, NEW r \in AllRecords, NEW p \in Int, NEW last \in at .. DirRecords
  PROVE  LET s == Shifted(dir, at, [record |-> r, page |-> p], last) IN
         /\ s \in DirPages /\ s.count = dir.count
         /\ \A i \in 0 .. DirRecords - 1 :
              s.record[i] = IF i = at THEN r ELSE IF at < i /\ i <= last THEN dir.record[i - 1] ELSE dir.record[i]
         /\ \A i \in 0 .. DirChildren - 1 :
              s.child[i] = IF i = at + 1 THEN p ELSE IF at + 1 < i /\ i <= last + 1 THEN dir.child[i - 1] ELSE dir.child[i]
<1> DEFINE sp == [record |-> r, page |-> p]
           s == Shifted(dir, at, sp, last)
           rec == [i \in 0 .. DirRecords - 1 |->
                     IF i = at THEN r ELSE IF at < i /\ i <= last THEN dir.record[i - 1] ELSE dir.record[i]]
           chi == [i \in 0 .. DirChildren - 1 |->
                     IF i = at + 1 THEN p ELSE IF at + 1 < i /\ i <= last + 1 THEN dir.child[i - 1] ELSE dir.child[i]]
<1>1. /\ dir = [count |-> dir.count, child |-> dir.child, record |-> dir.record]
      /\ dir.count \in 0 .. DirChildren
      /\ dir.child \in [0 .. DirChildren - 1 -> Int]
      /\ dir.record \in [0 .. DirRecords - 1 -> AllRecords \cup {0}]
  BY DirPageShape
<1>2. sp.record = r /\ sp.page = p
  OBVIOUS
<1> HIDE DEF sp
<1>3. s = [dir EXCEPT !.record = rec, !.child = chi]
  <2>1. rec = [i \in 0 .. DirRecords - 1 |->
                 CASE i = at              -> sp.record
                   [] at < i /\ i <= last -> dir.record[i - 1]
                   [] OTHER               -> dir.record[i]]
    BY <1>2, ConstantsTyped
  <2>2. chi = [i \in 0 .. DirChildren - 1 |->
                 CASE i = at + 1                  -> sp.page
                   [] at + 1 < i /\ i <= last + 1 -> dir.child[i - 1]
                   [] OTHER                       -> dir.child[i]]
    BY <1>2, ConstantsTyped
  <2> HIDE DEF rec, chi
  <2> QED
    BY <2>1, <2>2, Zenon DEF Shifted
<1>4. rec \in [0 .. DirRecords - 1 -> AllRecords \cup {0}]
  <2>1. ASSUME NEW i \in 0 .. DirRecords - 1 PROVE rec[i] \in AllRecords \cup {0}
    <3>1. at < i => i - 1 \in 0 .. DirRecords - 1
      BY ConstantsTyped
    <3> QED
      BY <1>1, <3>1
  <2> QED
    BY <2>1
<1>5. chi \in [0 .. DirChildren - 1 -> Int]
  <2>1. ASSUME NEW i \in 0 .. DirChildren - 1 PROVE chi[i] \in Int
    <3>1. at + 1 < i => i - 1 \in 0 .. DirChildren - 1
      BY ConstantsTyped
    <3> QED
      BY <1>1, <3>1
  <2> QED
    BY <2>1
<1>6. /\ \A i \in 0 .. DirRecords - 1 :
           rec[i] = IF i = at THEN r ELSE IF at < i /\ i <= last THEN dir.record[i - 1] ELSE dir.record[i]
      /\ \A i \in 0 .. DirChildren - 1 :
           chi[i] = IF i = at + 1 THEN p ELSE IF at + 1 < i /\ i <= last + 1 THEN dir.child[i - 1] ELSE dir.child[i]
  OBVIOUS
<1> HIDE DEF rec, chi, s
<1>7. s = [count |-> dir.count, child |-> chi, record |-> rec]
  BY <1>1, <1>3
<1>8. s \in DirPages
  BY <1>1, <1>4, <1>5, <1>7 DEF DirPages
<1> QED
  BY <1>6, <1>7, <1>8 DEF s, sp

(* A directory that has room gets the child, with its separator, behind the*)
(* one that was split.                                                     *)
LEMMA CaseOneLists ==
  ASSUME NEW dir \in DirPages, dir.count \in 1 .. DirRecords, NEW r \in AllRecords, NEW p \in Int,
         SearchChildIdx(dir, r) \in 0 .. dir.count - 1
  PROVE  /\ DirWithSplit(dir, [record |-> r, page |-> p]) \in DirPages
         /\ SameLists(WithChild(dir, SearchChildIdx(dir, r), r, p), DirWithSplit(dir, [record |-> r, page |-> p]))
<1> DEFINE sp == [record |-> r, page |-> p]
           at == SearchChildIdx(dir, r)
           c == dir.count
           s == Shifted(dir, at, sp, c - 1)
           w == DirWithSplit(dir, sp)
           E == WithChild(dir, at, r, p)
<1>1. c \in Nat /\ c >= 1 /\ c <= DirRecords /\ at \in 0 .. c - 1 /\ at \in 0 .. DirRecords - 1 /\ c - 1 \in at .. DirRecords
  BY ConstantsTyped
<1>2. w = [s EXCEPT !.count = c + 1]
  BY DEF DirWithSplit
<1>3. /\ s \in DirPages /\ s.count = c
      /\ \A i \in 0 .. DirRecords - 1 :
           s.record[i] = IF i = at THEN r ELSE IF at < i /\ i <= c - 1 THEN dir.record[i - 1] ELSE dir.record[i]
      /\ \A i \in 0 .. DirChildren - 1 :
           s.child[i] = IF i = at + 1 THEN p ELSE IF at + 1 < i /\ i <= (c - 1) + 1 THEN dir.child[i - 1] ELSE dir.child[i]
  BY <1>1, ShiftedCells
<1>4. /\ E.count = c + 1
      /\ \A i \in 0 .. c : E.child[i] = IF i <= at THEN dir.child[i] ELSE IF i = at + 1 THEN p ELSE dir.child[i - 1]
      /\ \A i \in 0 .. c - 1 : E.record[i] = IF i < at THEN dir.record[i] ELSE IF i = at THEN r ELSE dir.record[i - 1]
  BY DEF WithChild
<1> HIDE DEF E, s, w, at, sp
<1>5. w = [count |-> c + 1, child |-> s.child, record |-> s.record]
  BY <1>2, <1>3, DirPageShape
<1>6. w \in DirPages
  <2>1. c + 1 \in 0 .. DirChildren
    BY <1>1, ConstantsTyped
  <2> QED
    BY <1>3, <1>5, <2>1, DirPageShape DEF DirPages
<1>7. \A i \in 0 .. c : w.child[i] = E.child[i]
  <2>1. \A i \in 0 .. c : i \in 0 .. DirChildren - 1
    BY <1>1, ConstantsTyped
  <2> QED
    BY <1>1, <1>3, <1>4, <1>5, <2>1
<1>8. \A i \in 0 .. c - 1 : w.record[i] = E.record[i]
  <2>1. \A i \in 0 .. c - 1 : i \in 0 .. DirRecords - 1
    BY <1>1, ConstantsTyped
  <2> QED
    BY <1>1, <1>3, <1>4, <1>5, <2>1
<1>9. SameLists(E, w)
  BY <1>1, <1>4, <1>5, <1>7, <1>8 DEF SameLists
<1> QED
  BY <1>6, <1>9 DEF E, w, at, sp

LEMMA MiddleBounds == Middle \in 1 .. DirRecords - 1 /\ Middle + 1 <= DirRecords
BY ConstantsTyped DEF Middle

(* What the left half of the root keeps.                                   *)
LEMMA LeftHalfCells ==
  ASSUME NEW d \in DirPages
  PROVE  /\ LeftHalf(d) \in DirPages /\ LeftHalf(d).count = Middle + 1
         /\ \A i \in 0 .. Middle : LeftHalf(d).child[i] = d.child[i]
         /\ \A i \in 0 .. Middle - 1 : LeftHalf(d).record[i] = d.record[i]
<1> DEFINE chi == [i \in 0 .. DirChildren - 1 |-> IF i <= Middle THEN d.child[i] ELSE 0]
           rec == [i \in 0 .. DirRecords - 1 |-> IF i < Middle THEN d.record[i] ELSE 0]
<1>1. LeftHalf(d) = [ZeroDir EXCEPT !.count = Middle + 1, !.child = chi, !.record = rec]
  BY DEF LeftHalf
<1>2. chi \in [0 .. DirChildren - 1 -> Int] /\ rec \in [0 .. DirRecords - 1 -> AllRecords \cup {0}]
  BY DirPageShape, ConstantsTyped
<1>3. \A i \in 0 .. Middle : i \in 0 .. DirChildren - 1 /\ chi[i] = d.child[i]
  BY MiddleBounds, ConstantsTyped
<1>4. \A i \in 0 .. Middle - 1 : i \in 0 .. DirRecords - 1 /\ rec[i] = d.record[i]
  BY MiddleBounds, ConstantsTyped
<1> HIDE DEF chi, rec
<1>5. LeftHalf(d) = [count |-> Middle + 1, child |-> chi, record |-> rec]
  BY <1>1 DEF ZeroDir
<1>6. Middle + 1 \in 0 .. DirChildren
  BY MiddleBounds, ConstantsTyped
<1> QED
  BY <1>2, <1>3, <1>4, <1>5, <1>6 DEF DirPages

(* What the right half gets: the cells behind the middle and the one that  *)
(* had no room.                                                            *)
LEMMA RightHalfCells ==
  ASSUME NEW d \in DirPages, NEW lr \in AllRecords, NEW lc \in Int
  PROVE  LET j == DirRecords - (Middle + 1)
             h == RightHalf(d, lr, lc)
         IN
         /\ h \in DirPages /\ h.count = j + 2
         /\ \A i \in 0 .. j + 1 : h.child[i] = IF i <= j THEN d.child[Middle + 1 + i] ELSE lc
         /\ \A i \in 0 .. j : h.record[i] = IF i < j THEN d.record[Middle + 1 + i] ELSE lr
<1> DEFINE j == DirRecords - (Middle + 1)
           h == RightHalf(d, lr, lc)
           chi == [i \in 0 .. DirChildren - 1 |-> IF i <= j THEN d.child[Middle + 1 + i] ELSE IF i = j + 1 THEN lc ELSE 0]
           rec == [i \in 0 .. DirRecords - 1 |-> IF i < j THEN d.record[Middle + 1 + i] ELSE IF i = j THEN lr ELSE 0]
<1>0. j \in Nat /\ j <= DirRecords - 2 /\ Middle \in Nat /\ Middle >= 1 /\ Middle + 1 + j = DirRecords
  BY MiddleBounds, ConstantsTyped
<1>1. h = [ZeroDir EXCEPT !.count = (DirChildren + 1) - (Middle + 1), !.child = chi, !.record = rec]
  <2>1. chi = [i \in 0 .. DirChildren - 1 |->
                 CASE i <= j -> d.child[Middle + 1 + i] [] i = j + 1 -> lc [] OTHER -> 0]
    BY <1>0, ConstantsTyped
  <2>2. rec = [i \in 0 .. DirRecords - 1 |->
                 CASE i < j -> d.record[Middle + 1 + i] [] i = j -> lr [] OTHER -> 0]
    BY <1>0, ConstantsTyped
  <2> HIDE DEF rec, chi
  <2> QED
    BY <2>1, <2>2, Zenon DEF RightHalf
<1> HIDE DEF j
<1>2. chi \in [0 .. DirChildren - 1 -> Int]
  <2>1. ASSUME NEW i \in 0 .. DirChildren - 1 PROVE chi[i] \in Int
    <3>1. i <= j => Middle + 1 + i \in 0 .. DirChildren - 1
      BY <1>0, ConstantsTyped
    <3>2. d.child \in [0 .. DirChildren - 1 -> Int]
      BY DirPageShape
    <3>3. i <= j => d.child[Middle + 1 + i] \in Int
      BY <3>1, <3>2
    <3> QED
      BY <3>3
  <2> QED
    BY <2>1
<1>3. rec \in [0 .. DirRecords - 1 -> AllRecords \cup {0}]
  <2>1. ASSUME NEW i \in 0 .. DirRecords - 1 PROVE rec[i] \in AllRecords \cup {0}
    <3>1. i < j => Middle + 1 + i \in 0 .. DirRecords - 1
      BY <1>0, ConstantsTyped
    <3> QED
      BY <3>1, DirPageShape
  <2> QED
    BY <2>1
<1>4. \A i \in 0 .. j + 1 : chi[i] = IF i <= j THEN d.child[Middle + 1 + i] ELSE lc
  <2>1. \A i \in 0 .. j + 1 : i \in 0 .. DirChildren - 1 /\ (i <= j \/ i = j + 1)
    BY <1>0, ConstantsTyped
  <2> QED
    BY <2>1
<1>5. \A i \in 0 .. j : rec[i] = IF i < j THEN d.record[Middle + 1 + i] ELSE lr
  <2>1. \A i \in 0 .. j : i \in 0 .. DirRecords - 1 /\ (i < j \/ i = j)
    BY <1>0, ConstantsTyped
  <2> QED
    BY <2>1
<1>6. (DirChildren + 1) - (Middle + 1) = j + 2 /\ j + 2 \in 0 .. DirChildren
  BY <1>0, ConstantsTyped
<1> HIDE DEF chi, rec, h
<1>7. h = [count |-> j + 2, child |-> chi, record |-> rec]
  BY <1>1, <1>6 DEF ZeroDir
<1>8. h \in DirPages
  BY <1>2, <1>3, <1>6, <1>7 DEF DirPages
<1> QED
  BY <1>4, <1>5, <1>7, <1>8 DEF h, j

(* Case 3 writes the halves of the list the root would have with the new   *)
(* child, one longer than a page.                                          *)
LEMMA CaseThreeLists ==
  ASSUME NEW dir \in DirPages, dir.count = DirChildren, dir.record[DirRecords - 1] \in AllRecords,
         NEW r \in AllRecords, NEW p \in Int, NEW lhs \in Int, NEW rhs \in Int,
         SearchChildIdx(dir, r) \in 0 .. DirChildren - 1
  PROVE  LET s == RootSplit(dir, [record |-> r, page |-> p], lhs, rhs)
             E == WithChild(dir, SearchChildIdx(dir, r), r, p)
         IN
         /\ s.root \in DirPages /\ s.left \in DirPages /\ s.right \in DirPages
         /\ s.root.count = 2 /\ s.root.child[0] = -lhs /\ s.root.child[1] = -rhs /\ s.root.record[0] = E.record[Middle]
         /\ SameLists(Front(E, Middle), s.left)
         /\ SameLists(Back(E, Middle), s.right)
<1> DEFINE sp == [record |-> r, page |-> p]
           at == SearchChildIdx(dir, r)
           D == DirRecords
           atEnd == at = DirChildren - 1
           d == IF atEnd THEN dir ELSE Shifted(dir, at, sp, D - 1)
           lr == IF atEnd THEN sp.record ELSE dir.record[D - 1]
           lc == IF atEnd THEN sp.page ELSE dir.child[DirChildren - 1]
           root == [d EXCEPT !.count = 2, !.child[0] = -lhs, !.child[1] = -rhs, !.record[0] = d.record[Middle]]
           s == RootSplit(dir, sp, lhs, rhs)
           E == WithChild(dir, at, r, p)
<1>1. /\ D \in Nat /\ D >= 2 /\ DirChildren = D + 1 /\ at \in 0 .. D /\ (atEnd <=> at = D)
      /\ Middle \in 1 .. D - 1 /\ Middle + 1 <= D
  BY ConstantsTyped, MiddleBounds
<1>2. s = [root |-> root, left |-> LeftHalf(d), right |-> RightHalf(d, lr, lc)]
  BY DEF RootSplit
<1>3. /\ E.count = D + 2
      /\ \A i \in 0 .. D + 1 : E.child[i] = IF i <= at THEN dir.child[i] ELSE IF i = at + 1 THEN p ELSE dir.child[i - 1]
      /\ \A i \in 0 .. D : E.record[i] = IF i < at THEN dir.record[i] ELSE IF i = at THEN r ELSE dir.record[i - 1]
  BY <1>1 DEF WithChild
<1>4. sp.record = r /\ sp.page = p
  OBVIOUS
<1> HIDE DEF sp, at, E
<1>5. /\ d \in DirPages
      /\ \A i \in 0 .. D : d.child[i] = E.child[i]
      /\ \A i \in 0 .. D - 1 : d.record[i] = E.record[i]
      /\ lr = E.record[D] /\ lc = E.child[D + 1]
      /\ lr \in AllRecords /\ lc \in Int
  <2>1. CASE atEnd
    <3>1. d = dir /\ lr = r /\ lc = p
      BY <1>4, <2>1
    <3>2. \A i \in 0 .. D : i <= at
      BY <1>1, <2>1
    <3>3. \A i \in 0 .. D - 1 : i < at
      BY <1>1, <2>1
    <3>4. (\A i \in 0 .. D : i \in 0 .. D + 1) /\ (\A i \in 0 .. D - 1 : i \in 0 .. D)
      BY <1>1
    <3>5. E.record[D] = r /\ E.child[D + 1] = p
      BY <1>1, <1>3, <2>1
    <3> QED
      BY <1>3, <3>1, <3>2, <3>3, <3>4, <3>5
  <2>2. CASE ~ atEnd
    <3>1. d = Shifted(dir, at, [record |-> r, page |-> p], D - 1) /\ lr = dir.record[D - 1] /\ lc = dir.child[D]
      BY <1>1, <2>2 DEF sp
    <3>2. at \in 0 .. D - 1 /\ D - 1 \in at .. D
      BY <1>1, <2>2
    <3> HIDE DEF d
    <3>3. /\ d \in DirPages
          /\ \A i \in 0 .. D - 1 :
               d.record[i] = IF i = at THEN r ELSE IF at < i /\ i <= D - 1 THEN dir.record[i - 1] ELSE dir.record[i]
          /\ \A i \in 0 .. D :
               d.child[i] = IF i = at + 1 THEN p ELSE IF at + 1 < i /\ i <= (D - 1) + 1 THEN dir.child[i - 1] ELSE dir.child[i]
      <4> DEFINE sh == Shifted(dir, at, [record |-> r, page |-> p], D - 1)
      <4>1. /\ sh \in DirPages
            /\ \A i \in 0 .. D - 1 :
                 sh.record[i] = IF i = at THEN r ELSE IF at < i /\ i <= D - 1 THEN dir.record[i - 1] ELSE dir.record[i]
            /\ \A i \in 0 .. DirChildren - 1 :
                 sh.child[i] = IF i = at + 1 THEN p ELSE IF at + 1 < i /\ i <= (D - 1) + 1 THEN dir.child[i - 1] ELSE dir.child[i]
        BY <3>2, ShiftedCells
      <4>2. DirChildren - 1 = D
        BY <1>1
      <4> HIDE DEF sh
      <4>3. d = sh
        BY <3>1 DEF sh
      <4> QED
        BY <4>1, <4>2, <4>3
    <3>4. \A i \in 0 .. D : d.child[i] = E.child[i]
      BY <1>1, <1>3, <3>2, <3>3
    <3>5. \A i \in 0 .. D - 1 : d.record[i] = E.record[i]
      BY <1>1, <1>3, <3>2, <3>3
    <3>6. E.record[D] = dir.record[D - 1] /\ E.child[D + 1] = dir.child[D]
      BY <1>1, <1>3, <3>2
    <3>7. dir.child[D] \in Int
      BY <1>1, DirPageShape
    <3> QED
      BY <3>1, <3>3, <3>4, <3>5, <3>6, <3>7
  <2> QED
    BY <2>1, <2>2
<1> HIDE DEF d, lr, lc, root, s
<1>6. /\ root \in DirPages
      /\ root.count = 2 /\ root.child[0] = -lhs /\ root.child[1] = -rhs /\ root.record[0] = E.record[Middle]
  <2>1. /\ d = [count |-> d.count, child |-> d.child, record |-> d.record]
        /\ d.child \in [0 .. DirChildren - 1 -> Int]
        /\ d.record \in [0 .. D - 1 -> AllRecords \cup {0}]
    BY <1>5, DirPageShape
  <2>2. /\ 0 \in 0 .. DirChildren - 1 /\ 1 \in 0 .. DirChildren - 1 /\ 0 \in 0 .. D - 1 /\ Middle \in 0 .. D - 1
        /\ 2 \in 0 .. DirChildren
    BY <1>1
  <2> DEFINE x == -lhs
             y == -rhs
             m == d.record[Middle]
             chi == [d.child EXCEPT ![0] = x, ![1] = y]
             rec == [d.record EXCEPT ![0] = m]
  <2>3. x \in Int /\ y \in Int
    OBVIOUS
  <2>4. root = [d EXCEPT !.count = 2, !.child[0] = x, !.child[1] = y, !.record[0] = m]
    BY DEF root
  <2>5. m = E.record[Middle] /\ m \in AllRecords \cup {0}
    BY <1>1, <1>5, <2>1, <2>2
  <2> HIDE DEF x, y, m
  <2>6. root = [count |-> 2, child |-> chi, record |-> rec]
    BY <2>1, <2>4
  <2>7. chi \in [0 .. DirChildren - 1 -> Int] /\ chi[0] = x /\ chi[1] = y
    <3>1. \A f, I : f \in [I -> Int] /\ 0 \in I /\ 1 \in I =>
            LET g == [f EXCEPT ![0] = x, ![1] = y] IN g \in [I -> Int] /\ g[0] = x /\ g[1] = y
      BY <2>3
    <3> QED
      BY <2>1, <2>2, <3>1
  <2>8. rec \in [0 .. D - 1 -> AllRecords \cup {0}] /\ rec[0] = m
    BY <2>1, <2>2, <2>5
  <2> HIDE DEF chi, rec
  <2> QED
    BY <2>2, <2>5, <2>6, <2>7, <2>8 DEF DirPages, x, y
<1>7. LeftHalf(d) \in DirPages /\ SameLists(Front(E, Middle), LeftHalf(d))
  <2>1. /\ LeftHalf(d) \in DirPages /\ LeftHalf(d).count = Middle + 1
        /\ \A i \in 0 .. Middle : LeftHalf(d).child[i] = d.child[i]
        /\ \A i \in 0 .. Middle - 1 : LeftHalf(d).record[i] = d.record[i]
    BY <1>5, LeftHalfCells
  <2>2. /\ Front(E, Middle).count = Middle + 1 /\ Front(E, Middle).child = E.child /\ Front(E, Middle).record = E.record
        /\ (Middle + 1) - 1 = Middle /\ (Middle + 1) - 2 = Middle - 1
    BY <1>1 DEF Front
  <2>3. (\A i \in 0 .. Middle : i \in 0 .. D) /\ (\A i \in 0 .. Middle - 1 : i \in 0 .. D - 1)
    BY <1>1
  <2> QED
    BY <1>5, <2>1, <2>2, <2>3 DEF SameLists
<1>8. RightHalf(d, lr, lc) \in DirPages /\ SameLists(Back(E, Middle), RightHalf(d, lr, lc))
  <2> DEFINE j == D - (Middle + 1)
             h == RightHalf(d, lr, lc)
             b == Back(E, Middle)
  <2>1. /\ h \in DirPages /\ h.count = j + 2
        /\ \A i \in 0 .. j + 1 : h.child[i] = IF i <= j THEN d.child[Middle + 1 + i] ELSE lc
        /\ \A i \in 0 .. j : h.record[i] = IF i < j THEN d.record[Middle + 1 + i] ELSE lr
    <3>1. \A u \in AllRecords, v \in Int :
            /\ RightHalf(d, u, v) \in DirPages /\ RightHalf(d, u, v).count = j + 2
            /\ \A i \in 0 .. j + 1 : RightHalf(d, u, v).child[i] = IF i <= j THEN d.child[Middle + 1 + i] ELSE v
            /\ \A i \in 0 .. j : RightHalf(d, u, v).record[i] = IF i < j THEN d.record[Middle + 1 + i] ELSE u
      BY <1>5, RightHalfCells, Zenon
    <3> HIDE DEF j
    <3> QED
      BY <1>5, <3>1
  <2>2. j \in Nat /\ Middle + 1 + j = D /\ (D + 2) - (Middle + 1) = j + 2
    BY <1>1
  <2>3. /\ b.count = j + 2
        /\ \A i \in 0 .. (j + 2) - 1 : b.child[i] = E.child[Middle + 1 + i]
        /\ \A i \in 0 .. (j + 2) - 2 : b.record[i] = E.record[Middle + 1 + i]
    BY <1>1, <1>3 DEF Back
  <2> HIDE DEF j, h, b
  <2>4. ASSUME NEW i \in 0 .. (j + 2) - 1 PROVE h.child[i] = b.child[i]
    <3>1. i \in 0 .. j + 1 /\ (i <= j => Middle + 1 + i \in 0 .. D) /\ (~ (i <= j) => Middle + 1 + i = D + 1)
      BY <1>1, <2>2
    <3> QED
      BY <1>5, <2>1, <2>3, <3>1
  <2>5. ASSUME NEW i \in 0 .. (j + 2) - 2 PROVE h.record[i] = b.record[i]
    <3>1. i \in 0 .. j /\ (i < j => Middle + 1 + i \in 0 .. D - 1) /\ (~ (i < j) => Middle + 1 + i = D)
      BY <1>1, <2>2
    <3> QED
      BY <1>5, <2>1, <2>3, <3>1
  <2>6. SameLists(b, h)
    BY <2>1, <2>3, <2>4, <2>5 DEF SameLists
  <2> QED
    BY <2>1, <2>6 DEF h, b
<1> QED
  BY <1>2, <1>6, <1>7, <1>8 DEF s, E, at, sp

-----------------------------------------------------------------------------
(***************************************************************************)
(* Routing.                                                                *)
(***************************************************************************)
LEMMA TypeParts ==
  ASSUME TypeOK
  PROVE  /\ dirs \in [0 .. 2 -> DirPages] /\ pages \in {1, 3} /\ leaves \in Nat /\ leaves >= 1 /\ leaves <= MaxLeaves
         /\ lower \in [LeafPages -> AllRecords] /\ \A l \in 0 .. leaves - 1 : l \in LeafPages /\ lower[l] \in AllRecords
<1>1. dirs \in [0 .. 2 -> DirPages] /\ pages \in {1, 3} /\ leaves \in 1 .. MaxLeaves /\ lower \in [LeafPages -> AllRecords]
  BY DEF TypeOK, DirPages
<1>2. leaves \in Nat /\ leaves >= 1 /\ leaves <= MaxLeaves
  BY <1>1, ConstantsTyped
<1>3. \A l \in 0 .. leaves - 1 : l \in LeafPages
  BY <1>2, ConstantsTyped DEF LeafPages
<1> QED
  BY <1>1, <1>2, <1>3

(* A directory that cuts a range is sorted.                                *)
LEMMA CutsSorted ==
  ASSUME NEW dir, NEW first, NEW end, NEW low, NEW n, Cuts(dir, first, end, low, n)
  PROVE  SeparatorsSorted(dir)
BY ConstantsTyped DEF Cuts, SeparatorsSorted

(* The children of a directory start within its range, and the one r       *)
(* belongs to starts last of those that start before r.                    *)
LEMMA CutsRange ==
  ASSUME NEW dir, dir.count \in Int, NEW first \in Int, NEW end \in Int, first < end, NEW low, NEW n, Cuts(dir, first, end, low, n),
         NEW r \in Int, first <= r, NEW i, IsChildOf(dir, r, i)
  PROVE  /\ low[dir.child[i]] <= r
         /\ \A j \in 0 .. dir.count - 1 :
              /\ low[dir.child[j]] \in Int /\ first <= low[dir.child[j]] /\ low[dir.child[j]] < end
              /\ low[dir.child[j]] <= r => low[dir.child[j]] <= low[dir.child[i]]
<1> DEFINE c == dir.count
           L(j) == low[dir.child[j]]
<1>1. /\ c \in Nat /\ i \in 0 .. c - 1
      /\ \A j \in 0 .. i - 1 : dir.record[j] <= r
      /\ \A j \in i .. c - 2 : r < dir.record[j]
  BY DEF IsChildOf, Cuts
<1>2. /\ \A j \in 0 .. c - 1 : L(j) = IF j = 0 THEN first ELSE dir.record[j - 1]
      /\ \A j \in 0 .. c - 2 : dir.record[j] \in Int /\ first < dir.record[j] /\ dir.record[j] < end
      /\ \A j, k \in 0 .. c - 2 : j < k => dir.record[j] < dir.record[k]
  BY ConstantsTyped DEF Cuts
<1>3. \A j \in 0 .. c - 1 : j # 0 => j - 1 \in 0 .. c - 2
  BY <1>1
<1> HIDE DEF L
<1>4. L(i) <= r
  <2>1. i # 0 => i - 1 \in 0 .. i - 1
    BY <1>1
  <2> QED
    BY <1>1, <1>2, <2>1
<1>5. ASSUME NEW j \in 0 .. c - 1
      PROVE  L(j) \in Int /\ first <= L(j) /\ L(j) < end /\ (L(j) <= r => L(j) <= L(i))
  <2>1. L(j) \in Int /\ first <= L(j) /\ L(j) < end
    BY <1>2, <1>3
  <2>2. CASE j = i
    BY <2>1, <2>2
  <2>3. CASE j < i
    <3>1. i # 0 /\ i - 1 \in 0 .. c - 2 /\ L(i) = dir.record[i - 1]
      BY <1>1, <1>2, <2>3
    <3>2. CASE j = 0
      BY <1>2, <3>1, <3>2
    <3>3. CASE j # 0
      <4>1. j - 1 \in 0 .. c - 2 /\ j - 1 < i - 1 /\ L(j) = dir.record[j - 1]
        BY <1>1, <1>2, <1>3, <2>3, <3>3
      <4> QED
        BY <1>2, <3>1, <4>1
    <3> QED
      BY <3>2, <3>3
  <2>4. CASE i < j
    <3>1. j # 0 /\ j - 1 \in i .. c - 2 /\ L(j) = dir.record[j - 1]
      BY <1>1, <1>2, <2>4
    <3>2. r < L(j)
      BY <1>1, <3>1
    <3> QED
      BY <2>1, <3>2
  <2> QED
    BY <1>1, <2>1, <2>2, <2>3, <2>4
<1> QED
  BY <1>4, <1>5 DEF L

(* search_leaf goes to a directory above the leaves whose range r is in,   *)
(* and to the child of it that r belongs to.                               *)
LEMMA Routing ==
  ASSUME TypeOK, TreeCutsRecords, NEW r \in AllRecords
  PROVE  LET d == Route(r).dir
             at == SearchChildIdx(dirs[d], r)
         IN
         /\ d \in LeafDirs /\ d \in 0 .. 2 /\ (d = 0 <=> pages = 1)
         /\ Route(r).leaf = dirs[d].child[at] /\ IsChildOf(dirs[d], r, at)
         /\ FirstOf(d) \in Int /\ EndOf(d) \in Int /\ FirstOf(d) <= r /\ r < EndOf(d)
         /\ Cuts(dirs[d], FirstOf(d), EndOf(d), lower, leaves)
         /\ dirs[d] \in DirPages /\ dirs[d].count \in 1 .. DirChildren
<1>1. dirs \in [0 .. 2 -> DirPages] /\ pages \in {1, 3}
  BY TypeParts
<1>2. r \in Int /\ Least <= r /\ r < MaxRecord + 1 /\ Least \in Int /\ MaxRecord + 1 \in Int
  BY ConstantsTyped
<1>3. ASSUME NEW d \in LeafDirs, NEW q \in Int, d \in 0 .. 2
      PROVE  LET at == SearchChildIdx(dirs[d], q) IN
             /\ IsChildOf(dirs[d], q, at) /\ dirs[d].child[at] \in Nat
             /\ Cuts(dirs[d], FirstOf(d), EndOf(d), lower, leaves)
             /\ dirs[d] \in DirPages /\ dirs[d].count \in 1 .. DirChildren
  <2>1. Cuts(dirs[d], FirstOf(d), EndOf(d), lower, leaves) /\ SeparatorsSorted(dirs[d])
    BY CutsSorted DEF TreeCutsRecords
  <2>2. dirs[d] \in DirPages
    BY <1>1, <1>3
  <2>3. dirs[d].count \in 1 .. DirChildren
    <3>1. dirs[d].count \in 0 .. DirChildren /\ dirs[d].count >= 1
      BY <2>1, <2>2, DirPageShape DEF Cuts
    <3> QED
      BY <3>1, ConstantsTyped
  <2>4. IsChildOf(dirs[d], q, SearchChildIdx(dirs[d], q))
    BY <2>1, <2>3, SearchChildFinds
  <2>5. leaves \in Nat
    BY TypeParts
  <2>6. dirs[d].child[SearchChildIdx(dirs[d], q)] \in 0 .. leaves - 1
    BY <2>1, <2>4 DEF IsChildOf, Cuts
  <2> QED
    BY <2>1, <2>2, <2>3, <2>4, <2>5, <2>6
<1>4. CASE pages = 1
  <2>1. LeafDirs = {0} /\ 0 \in 0 .. 2 /\ FirstOf(0) = Least /\ EndOf(0) = MaxRecord + 1
    BY <1>4 DEF LeafDirs, FirstOf, EndOf
  <2>2. dirs[0].child[SearchChildIdx(dirs[0], r)] \in Nat
    BY <1>2, <1>3, <2>1
  <2>3. Route(r).dir = 0 /\ Route(r).leaf = dirs[0].child[SearchChildIdx(dirs[0], r)]
    BY <2>2 DEF Route
  <2> QED
    BY <1>2, <1>3, <1>4, <2>1, <2>3
<1>5. CASE pages = 3
  <2> DEFINE sep == dirs[0].record[0]
             k == SearchChildIdx(dirs[0], r)
  <2>1. /\ dirs[0].count = 2 /\ dirs[0].child[0] = -1 /\ dirs[0].child[1] = -2
        /\ sep \in Int /\ Least <= sep /\ sep < MaxRecord + 1
    BY <1>5, ConstantsTyped DEF TreeCutsRecords
  <2>2. SeparatorsSorted(dirs[0])
    BY <2>1 DEF SeparatorsSorted
  <2>3. 2 \in 1 .. DirChildren
    BY ConstantsTyped
  <2>4. IsChildOf(dirs[0], r, k)
    BY <1>2, <2>1, <2>2, <2>3, SearchChildFinds
  <2> HIDE DEF k
  <2>5. (k = 0 /\ r < sep) \/ (k = 1 /\ sep <= r)
    <3>1. k \in 0 .. 1 /\ (\A j \in 0 .. k - 1 : dirs[0].record[j] <= r) /\ (\A j \in k .. 0 : r < dirs[0].record[j])
      BY <2>1, <2>4 DEF IsChildOf
    <3> QED
      BY <3>1
  <2>6. LeafDirs = {1, 2}
    BY <1>5 DEF LeafDirs
  <2>7. CASE k = 0
    <3>1. Route(r).dir = 1 /\ Route(r).leaf = dirs[1].child[SearchChildIdx(dirs[1], r)]
      BY <2>1, <2>7 DEF Route, k
    <3>2. FirstOf(1) = Least /\ EndOf(1) = sep /\ 1 \in LeafDirs /\ 1 \in 0 .. 2
      BY <2>6 DEF FirstOf, EndOf
    <3> QED
      BY <1>2, <1>3, <1>5, <2>1, <2>5, <2>7, <3>1, <3>2
  <2>8. CASE k = 1
    <3>1. Route(r).dir = 2 /\ Route(r).leaf = dirs[2].child[SearchChildIdx(dirs[2], r)]
      BY <2>1, <2>8 DEF Route, k
    <3>2. FirstOf(2) = sep /\ EndOf(2) = MaxRecord + 1 /\ 2 \in LeafDirs /\ 2 \in 0 .. 2
      BY <2>6 DEF FirstOf, EndOf
    <3> QED
      BY <1>2, <1>3, <1>5, <2>1, <2>5, <2>8, <3>1, <3>2
  <2> QED
    BY <2>5, <2>7, <2>8
<1> QED
  BY <1>1, <1>4, <1>5

(* Of the leaves that start no later than r, l starts last.                *)
IsHome(l, r) ==
  /\ l \in 0 .. leaves - 1 /\ lower[l] <= r
  /\ \A k \in 0 .. leaves - 1 : lower[k] <= r => lower[k] <= lower[l]

Apart == \A j, k \in 0 .. leaves - 1 : lower[j] = lower[k] => j = k

(* A record has one leaf.                                                  *)
LEMMA HomeIsUnique ==
  ASSUME TypeOK, Apart, NEW r \in AllRecords, NEW l, NEW k, IsHome(l, r), IsHome(k, r)
  PROVE  l = k
<1>1. lower[l] <= lower[k] /\ lower[k] <= lower[l] /\ l \in 0 .. leaves - 1 /\ k \in 0 .. leaves - 1
  BY DEF IsHome
<1>2. lower[l] \in Int /\ lower[k] \in Int
  BY <1>1, TypeParts, ConstantsTyped
<1>3. lower[l] = lower[k]
  BY <1>1, <1>2
<1> QED
  BY <1>1, <1>3 DEF Apart

(* A record is routed to the last leaf that starts no later.               *)
LEMMA RouteIsHome ==
  ASSUME TypeOK, TreeCutsRecords, NEW r \in AllRecords
  PROVE  IsHome(Route(r).leaf, r)
<1> DEFINE d == Route(r).dir
           at == SearchChildIdx(dirs[d], r)
           l == Route(r).leaf
<1>1. /\ d \in LeafDirs /\ d \in 0 .. 2 /\ (d = 0 <=> pages = 1)
      /\ l = dirs[d].child[at] /\ IsChildOf(dirs[d], r, at)
      /\ FirstOf(d) \in Int /\ EndOf(d) \in Int /\ FirstOf(d) <= r /\ r < EndOf(d)
      /\ Cuts(dirs[d], FirstOf(d), EndOf(d), lower, leaves)
      /\ dirs[d] \in DirPages /\ dirs[d].count \in 1 .. DirChildren
  BY Routing
<1>2. r \in Int
  BY ConstantsTyped
<1> HIDE DEF d, at, l
<1>3. /\ lower[l] <= r
      /\ \A j \in 0 .. dirs[d].count - 1 :
           /\ lower[dirs[d].child[j]] \in Int /\ FirstOf(d) <= lower[dirs[d].child[j]] /\ lower[dirs[d].child[j]] < EndOf(d)
           /\ lower[dirs[d].child[j]] <= r => lower[dirs[d].child[j]] <= lower[l]
  <2>1. dirs[d].count \in Int /\ FirstOf(d) < EndOf(d)
    BY <1>1, <1>2
  <2> QED
    BY <1>1, <1>2, <2>1, CutsRange
<1>4. l \in 0 .. leaves - 1 /\ FirstOf(d) <= lower[l] /\ lower[l] < EndOf(d) /\ lower[l] \in Int
  BY <1>1, <1>3 DEF IsChildOf, Cuts
<1>5. ASSUME NEW k \in 0 .. leaves - 1, lower[k] <= r PROVE lower[k] <= lower[l]
  <2>1. PICK e \in LeafDirs : \E i \in 0 .. dirs[e].count - 1 : dirs[e].child[i] = k
    BY DEF TreeCutsRecords
  <2>2. PICK j \in 0 .. dirs[e].count - 1 : dirs[e].child[j] = k
    BY <2>1
  <2>3. CASE e = d
    BY <1>3, <1>5, <2>2, <2>3
  <2>4. CASE e # d
    <3>1. pages = 3 /\ e \in {1, 2} /\ d \in {1, 2}
      BY <1>1, <2>4, TypeParts DEF LeafDirs
    <3>2. dirs[0].record[0] \in Int
      BY <3>1, ConstantsTyped DEF TreeCutsRecords
    <3>3. Cuts(dirs[e], FirstOf(e), EndOf(e), lower, leaves)
      BY DEF TreeCutsRecords
    <3>4. lower[k] = IF j = 0 THEN FirstOf(e) ELSE dirs[e].record[j - 1]
      BY <2>2, <3>3 DEF Cuts
    <3>5. dirs[e].count \in Int
      BY <3>1, TypeParts, DirPageShape
    <3>6. j # 0 => j - 1 \in 0 .. dirs[e].count - 2
      BY <3>5
    <3>7. j # 0 => FirstOf(e) < lower[k] /\ lower[k] < EndOf(e) /\ lower[k] \in Int
      BY <3>3, <3>4, <3>6, ConstantsTyped DEF Cuts
    <3>8. CASE e = 1
      <4>1. EndOf(e) = dirs[0].record[0] /\ FirstOf(d) = dirs[0].record[0] /\ FirstOf(e) = Least /\ Least \in Int
        BY <2>4, <3>1, <3>8, ConstantsTyped DEF EndOf, FirstOf
      <4>2. Least <= lower[l]
        BY <1>4, ConstantsTyped, TypeParts
      <4> QED
        BY <1>4, <3>2, <3>4, <3>7, <4>1, <4>2
    <3>9. CASE e = 2
      <4>1. EndOf(d) = dirs[0].record[0] /\ FirstOf(e) = dirs[0].record[0]
        BY <2>4, <3>1, <3>9 DEF EndOf, FirstOf
      <4>2. dirs[0].record[0] <= lower[k] /\ lower[k] \in Int
        BY <3>2, <3>4, <3>7, <4>1
      <4> QED
        BY <1>1, <1>2, <1>5, <3>2, <4>1, <4>2
    <3> QED
      BY <3>1, <3>8, <3>9
  <2> QED
    BY <2>3, <2>4
<1> QED
  BY <1>3, <1>4, <1>5 DEF IsHome, l

(* The tree routes every record to that leaf.                              *)
LEMMA HomeOfRecord ==
  ASSUME TypeOK, TreeCutsRecords, Apart, NEW r \in AllRecords
  PROVE  Route(r).leaf = Home(r)
<1>1. IsHome(Route(r).leaf, r)
  BY RouteIsHome
<1>2. Home(r) = CHOOSE l \in 0 .. leaves - 1 : IsHome(l, r)
  BY DEF Home, IsHome
<1>3. IsHome(Home(r), r)
  BY <1>1, <1>2 DEF IsHome
<1> QED
  BY <1>1, <1>3, HomeIsUnique

-----------------------------------------------------------------------------
(***************************************************************************)
(* Splits.                                                                 *)
(***************************************************************************)
LEMMA CutsGrow ==
  ASSUME NEW dir, NEW first, NEW end, NEW low, NEW n \in Nat, Cuts(dir, first, end, low, n),
         NEW low2, \A l \in 0 .. n - 1 : low2[l] = low[l]
  PROVE  Cuts(dir, first, end, low2, n + 1)
<1>1. \A i \in 0 .. dir.count - 1 : dir.child[i] \in 0 .. n - 1 /\ dir.child[i] \in 0 .. (n + 1) - 1
  BY DEF Cuts
<1> QED
  BY <1>1 DEF Cuts

(* The leaf a split makes.                                                 *)
LEMMA NewLeafFacts ==
  ASSUME TypeOK, Apart, NEW r \in AllRecords, Splittable(r), NewLeaf(r)
  PROVE  /\ leaves' = leaves + 1 /\ leaves \in Nat /\ leaves' \in 1 .. MaxLeaves
         /\ lower' \in [LeafPages -> AllRecords]
         /\ lower'[leaves] = r /\ \A l \in 0 .. leaves - 1 : lower'[l] = lower[l]
         /\ Apart'
<1>1. /\ leaves \in Nat /\ leaves >= 1 /\ leaves < MaxLeaves /\ leaves' = leaves + 1
      /\ lower' = [lower EXCEPT ![leaves] = r] /\ lower \in [LeafPages -> AllRecords]
      /\ \A l \in 0 .. leaves - 1 : l \in LeafPages
  BY TypeParts DEF NewLeaf
<1>2. leaves \in LeafPages /\ leaves + 1 \in 1 .. MaxLeaves
  BY <1>1, ConstantsTyped DEF LeafPages
<1>3. lower' \in [LeafPages -> AllRecords] /\ lower'[leaves] = r
  BY <1>1, <1>2
<1>4. \A l \in 0 .. leaves - 1 : l # leaves /\ lower'[l] = lower[l]
  BY <1>1
<1>5. \A l \in 0 .. leaves - 1 : lower[l] # r
  BY DEF Splittable
<1>6. \A l \in 0 .. leaves' - 1 : l \in 0 .. leaves - 1 \/ l = leaves
  BY <1>1
<1>7. Apart'
  <2>1. ASSUME NEW j \in 0 .. leaves' - 1, NEW k \in 0 .. leaves' - 1, lower'[j] = lower'[k] PROVE j = k
    BY <1>3, <1>4, <1>5, <1>6, <2>1 DEF Apart
  <2> QED
    BY <2>1 DEF Apart
<1> QED
  BY <1>1, <1>2, <1>3, <1>4, <1>7

(* The children of a list with one more are those it had, and that one.    *)
LEMMA WithChildHas ==
  ASSUME NEW dir, dir.count \in Nat, NEW at \in 0 .. dir.count - 1, NEW r, NEW p
  PROVE  LET E == WithChild(dir, at, r, p) IN
         /\ E.count = dir.count + 1
         /\ \E i \in 0 .. E.count - 1 : E.child[i] = p
         /\ \A i \in 0 .. dir.count - 1 : \E j \in 0 .. E.count - 1 : E.child[j] = dir.child[i]
<1> DEFINE E == WithChild(dir, at, r, p)
           c == dir.count
<1>1. /\ E.count = c + 1 /\ (c + 1) - 1 = c
      /\ \A i \in 0 .. c : E.child[i] = IF i <= at THEN dir.child[i] ELSE IF i = at + 1 THEN p ELSE dir.child[i - 1]
  BY DEF WithChild
<1> HIDE DEF E
<1>2. at + 1 \in 0 .. c /\ E.child[at + 1] = p
  BY <1>1
<1>3. ASSUME NEW i \in 0 .. c - 1 PROVE \E j \in 0 .. c : E.child[j] = dir.child[i]
  <2>1. CASE i <= at
    <3>1. i \in 0 .. c /\ E.child[i] = dir.child[i]
      BY <1>1, <2>1
    <3> QED
      BY <3>1
  <2>2. CASE i > at
    <3>1. i + 1 \in 0 .. c /\ ~ (i + 1 <= at) /\ i + 1 # at + 1 /\ (i + 1) - 1 = i
      BY <2>2
    <3>2. E.child[i + 1] = dir.child[i]
      BY <1>1, <3>1
    <3> QED
      BY <3>1, <3>2
  <2> QED
    BY <2>1, <2>2
<1> QED
  BY <1>1, <1>2, <1>3 DEF E

(* Only the children that count matter.                                    *)
LEMMA SameListsHave ==
  ASSUME NEW d, NEW e, SameLists(d, e), NEW l, \E i \in 0 .. d.count - 1 : d.child[i] = l
  PROVE  \E i \in 0 .. e.count - 1 : e.child[i] = l
BY DEF SameLists

(* A child of a directory is in one of its halves.                         *)
LEMMA HalvesHave ==
  ASSUME NEW dir, dir.count \in Nat, NEW k \in 0 .. dir.count - 2, NEW i \in 0 .. dir.count - 1
  PROVE  \/ \E j \in 0 .. Front(dir, k).count - 1 : Front(dir, k).child[j] = dir.child[i]
         \/ \E j \in 0 .. Back(dir, k).count - 1 : Back(dir, k).child[j] = dir.child[i]
<1>1. Front(dir, k).count = k + 1 /\ Front(dir, k).child = dir.child
  BY DEF Front
<1>2. Back(dir, k).count = dir.count - (k + 1) /\ \A j \in 0 .. dir.count - k - 2 : Back(dir, k).child[j] = dir.child[k + 1 + j]
  BY DEF Back
<1>3. CASE i <= k
  <2>1. i \in 0 .. (k + 1) - 1
    BY <1>3
  <2> QED
    BY <1>1, <2>1
<1>4. CASE i > k
  <2>1. /\ i - (k + 1) \in 0 .. dir.count - k - 2 /\ k + 1 + (i - (k + 1)) = i
        /\ i - (k + 1) \in 0 .. (dir.count - (k + 1)) - 1
    BY <1>4
  <2> QED
    BY <1>2, <2>1
<1> QED
  BY <1>3, <1>4

(* The place a leaf splits at: the range of the leaf r is routed to, and r *)
(* is not its first record.                                                *)
LEMMA SplitPlace ==
  ASSUME IInv, NEW r \in AllRecords, Splittable(r), NewLeaf(r)
  PROVE  LET d == Route(r).dir
             at == SearchChildIdx(dirs[d], r)
         IN
         /\ d \in LeafDirs /\ d \in 0 .. 2 /\ (d = 0 <=> pages = 1)
         /\ at \in 0 .. dirs[d].count - 1 /\ dirs[d] \in DirPages /\ dirs[d].count \in 1 .. DirChildren
         /\ Cuts(dirs[d], FirstOf(d), EndOf(d), lower, leaves)
         /\ Cuts(WithChild(dirs[d], at, r, leaves), FirstOf(d), EndOf(d), lower', leaves + 1)
         /\ FirstOf(d) \in Int /\ EndOf(d) \in Int
<1> DEFINE d == Route(r).dir
           at == SearchChildIdx(dirs[d], r)
<1>1. TypeOK /\ Apart /\ TreeCutsRecords
  BY DEF IInv, Apart, Splittable
<1>2. /\ d \in LeafDirs /\ d \in 0 .. 2 /\ (d = 0 <=> pages = 1)
      /\ Route(r).leaf = dirs[d].child[at] /\ IsChildOf(dirs[d], r, at)
      /\ FirstOf(d) \in Int /\ EndOf(d) \in Int /\ FirstOf(d) <= r /\ r < EndOf(d)
      /\ Cuts(dirs[d], FirstOf(d), EndOf(d), lower, leaves)
      /\ dirs[d] \in DirPages /\ dirs[d].count \in 1 .. DirChildren
  BY <1>1, Routing
<1>3. lower[Route(r).leaf] < r
  BY DEF Splittable
<1> HIDE DEF d, at
<1>4. /\ leaves \in Nat /\ lower'[leaves] = r /\ \A l \in 0 .. leaves - 1 : lower'[l] = lower[l]
  BY <1>1, NewLeafFacts
<1>5. Cuts(WithChild(dirs[d], at, r, leaves), FirstOf(d), EndOf(d), lower', leaves + 1)
  BY <1>2, <1>3, <1>4, WithChildCuts
<1>6. at \in 0 .. dirs[d].count - 1
  BY <1>2 DEF IsChildOf
<1> QED
  BY <1>2, <1>5, <1>6 DEF d, at

LEMMA InsertSplitKeeps == ASSUME IInv, NEW r \in AllRecords, InsertSplit(r) PROVE IInv'
<1> DEFINE d == Route(r).dir
           at == SearchChildIdx(dirs[d], r)
           w == DirWithSplit(dirs[d], Split(r))
           E == WithChild(dirs[d], at, r, leaves)
<1>1. /\ Splittable(r) /\ NewLeaf(r) /\ ~ Full(d)
      /\ dirs' = [dirs EXCEPT ![d] = w] /\ UNCHANGED <<pages, dropped>>
      /\ TypeOK /\ Apart /\ TreeCutsRecords
  BY DEF InsertSplit, IInv, Apart, Splittable
<1>2. /\ d \in LeafDirs /\ d \in 0 .. 2 /\ (d = 0 <=> pages = 1)
      /\ at \in 0 .. dirs[d].count - 1 /\ dirs[d] \in DirPages /\ dirs[d].count \in 1 .. DirChildren
      /\ Cuts(dirs[d], FirstOf(d), EndOf(d), lower, leaves)
      /\ Cuts(E, FirstOf(d), EndOf(d), lower', leaves + 1)
  BY <1>1, SplitPlace
<1>3. /\ leaves' = leaves + 1 /\ leaves \in Nat /\ leaves' \in 1 .. MaxLeaves
      /\ lower' \in [LeafPages -> AllRecords]
      /\ lower'[leaves] = r /\ \A l \in 0 .. leaves - 1 : lower'[l] = lower[l]
      /\ Apart'
  BY <1>1, NewLeafFacts
<1>4. dirs[d].count \in 1 .. DirRecords
  BY <1>1, <1>2, ConstantsTyped DEF Full
<1>5. w \in DirPages /\ SameLists(E, w)
  <2>1. leaves \in Int /\ Split(r) = [record |-> r, page |-> leaves]
    BY <1>3 DEF Split
  <2> QED
    BY <1>2, <1>4, <2>1, CaseOneLists
<1>6. dirs \in [0 .. 2 -> DirPages] /\ pages \in {1, 3}
  BY <1>1, TypeParts
<1>7. E.count \in Nat /\ dirs[d].count \in Nat
  BY <1>4, <1>2, WithChildHas, ConstantsTyped
<1> HIDE DEF d, at, w, E
<1>8. dirs' \in [0 .. 2 -> DirPages] /\ dirs'[d] = w /\ \A e \in 0 .. 2 : e # d => dirs'[e] = dirs[e]
  BY <1>1, <1>2, <1>5, <1>6
<1>9. TypeOK'
  BY <1>1, <1>3, <1>6, <1>8 DEF TypeOK, DirPages
<1>10. LeafDirs' = LeafDirs /\ \A e \in LeafDirs : e \in 0 .. 2 /\ FirstOf(e)' = FirstOf(e) /\ EndOf(e)' = EndOf(e)
  <2>1. CASE pages = 1
    BY <1>1, <2>1 DEF LeafDirs, FirstOf, EndOf
  <2>2. CASE pages = 3
    <3>1. dirs'[0] = dirs[0]
      BY <1>2, <1>8, <2>2
    <3> QED
      BY <1>1, <2>2, <3>1 DEF LeafDirs, FirstOf, EndOf
  <2> QED
    BY <1>6, <2>1, <2>2
<1>11. pages' = 3 =>
         /\ dirs'[0].count = 2 /\ dirs'[0].child[0] = -1 /\ dirs'[0].child[1] = -2
         /\ dirs'[0].record[0] \in AllRecords /\ Least < dirs'[0].record[0]
  <2>1. pages = 3 => dirs'[0] = dirs[0]
    BY <1>2, <1>8
  <2> QED
    BY <1>1, <2>1 DEF TreeCutsRecords
<1>12. ASSUME NEW e \in LeafDirs
       PROVE  Cuts(dirs'[e], FirstOf(e), EndOf(e), lower', leaves')
  <2>1. CASE e = d
    <3>1. Cuts(w, FirstOf(d), EndOf(d), lower', leaves')
      BY <1>2, <1>3, <1>5, <1>7, SameListsCut
    <3> QED
      BY <1>8, <2>1, <3>1
  <2>2. CASE e # d
    <3>1. Cuts(dirs[e], FirstOf(e), EndOf(e), lower, leaves)
      BY <1>1 DEF TreeCutsRecords
    <3>2. Cuts(dirs[e], FirstOf(e), EndOf(e), lower', leaves')
      BY <1>3, <3>1, CutsGrow
    <3> QED
      BY <1>8, <1>10, <2>2, <3>2
  <2> QED
    BY <2>1, <2>2
<1>13. ASSUME NEW l \in 0 .. leaves' - 1
       PROVE  \E e \in LeafDirs : \E i \in 0 .. dirs'[e].count - 1 : dirs'[e].child[i] = l
  <2>1. (\E i \in 0 .. E.count - 1 : E.child[i] = l) => \E i \in 0 .. w.count - 1 : w.child[i] = l
    BY <1>5, SameListsHave
  <2>2. CASE l = leaves
    <3>1. \E i \in 0 .. E.count - 1 : E.child[i] = l
      BY <1>2, <1>7, <2>2, WithChildHas DEF E
    <3> QED
      BY <1>2, <1>8, <2>1, <3>1
  <2>3. CASE l # leaves
    <3>1. l \in 0 .. leaves - 1
      BY <1>3, <2>3
    <3>2. PICK e \in LeafDirs : \E i \in 0 .. dirs[e].count - 1 : dirs[e].child[i] = l
      BY <1>1, <3>1 DEF TreeCutsRecords
    <3>3. CASE e = d
      <4>1. \E i \in 0 .. E.count - 1 : E.child[i] = l
        BY <1>2, <1>7, <3>2, <3>3, WithChildHas DEF E
      <4> QED
        BY <1>2, <1>8, <2>1, <4>1
    <3>4. CASE e # d
      BY <1>8, <1>10, <3>2, <3>4
    <3> QED
      BY <3>3, <3>4
  <2> QED
    BY <2>2, <2>3
<1>14. TreeCutsRecords'
  BY <1>10, <1>11, <1>12, <1>13 DEF TreeCutsRecords
<1> QED
  BY <1>3, <1>9, <1>14 DEF IInv, Apart

LEMMA InsertRootSplitKeeps == ASSUME IInv, NEW r \in AllRecords, InsertRootSplit(r) PROVE IInv'
<1> DEFINE dir == dirs[0]
           at == SearchChildIdx(dir, r)
           s == RootSplit(dir, Split(r), pages, pages + 1)
           E == WithChild(dir, at, r, leaves)
           sep == E.record[Middle]
<1>1. /\ Splittable(r) /\ NewLeaf(r) /\ Full(0) /\ Route(r).dir = 0
      /\ dirs' = [dirs EXCEPT ![0] = s.root, ![pages] = s.left, ![pages + 1] = s.right]
      /\ pages' = pages + 2 /\ UNCHANGED dropped
      /\ TypeOK /\ Apart /\ TreeCutsRecords
  BY DEF InsertRootSplit, IInv, Apart, Splittable
<1>2. /\ pages = 1
      /\ at \in 0 .. dir.count - 1 /\ dir \in DirPages /\ dir.count \in 1 .. DirChildren
      /\ Cuts(dir, Least, MaxRecord + 1, lower, leaves)
      /\ Cuts(E, Least, MaxRecord + 1, lower', leaves + 1)
  BY <1>1, SplitPlace DEF FirstOf, EndOf
<1>3. /\ leaves' = leaves + 1 /\ leaves \in Nat /\ leaves' \in 1 .. MaxLeaves
      /\ lower' \in [LeafPages -> AllRecords]
      /\ lower'[leaves] = r /\ \A l \in 0 .. leaves - 1 : lower'[l] = lower[l]
      /\ Apart'
  BY <1>1, NewLeafFacts
<1>4. dir.count = DirChildren
  BY <1>1, <1>2, ConstantsTyped DEF Full
<1>5. dir.record[DirRecords - 1] \in AllRecords
  <2>1. DirRecords - 1 \in 0 .. dir.count - 2
    BY <1>4, ConstantsTyped
  <2> QED
    BY <1>2, <2>1 DEF Cuts
<1>6. /\ s.root \in DirPages /\ s.left \in DirPages /\ s.right \in DirPages
      /\ s.root.count = 2 /\ s.root.child[0] = -1 /\ s.root.child[1] = -2 /\ s.root.record[0] = sep
      /\ SameLists(Front(E, Middle), s.left)
      /\ SameLists(Back(E, Middle), s.right)
  <2>1. leaves \in Int /\ Split(r) = [record |-> r, page |-> leaves] /\ pages = 1 /\ pages + 1 = 2
    BY <1>2, <1>3 DEF Split
  <2>2. at \in 0 .. DirChildren - 1
    BY <1>2, <1>4
  <2>3. s = RootSplit(dir, [record |-> r, page |-> leaves], 1, 2)
    BY <2>1
  <2> QED
    BY <1>2, <1>4, <1>5, <2>1, <2>2, <2>3, CaseThreeLists
<1>7. dirs \in [0 .. 2 -> DirPages]
  BY <1>1, TypeParts
<1>8. /\ dir.count \in Nat /\ E.count = dir.count + 1
      /\ \E i \in 0 .. E.count - 1 : E.child[i] = leaves
      /\ \A i \in 0 .. dir.count - 1 : \E j \in 0 .. E.count - 1 : E.child[j] = dir.child[i]
  <2>1. dir.count \in Nat
    BY <1>4, ConstantsTyped
  <2> QED
    BY <1>2, <2>1, WithChildHas
<1> HIDE DEF dir, at, s, E
<1>9. Middle \in 0 .. E.count - 2 /\ E.count \in Nat
  BY <1>4, <1>8, MiddleBounds, ConstantsTyped
<1>10. /\ Cuts(Front(E, Middle), Least, sep, lower', leaves + 1)
       /\ Cuts(Back(E, Middle), sep, MaxRecord + 1, lower', leaves + 1)
       /\ sep \in AllRecords /\ Least < sep
  <2>1. Least \in Int /\ MaxRecord + 1 \in Int /\ leaves + 1 \in Nat /\ E.count \in Int
    BY <1>3, <1>9, ConstantsTyped
  <2> QED
    BY <1>2, <1>9, <2>1, HalvesCut
<1> HIDE DEF sep
<1>11. Cuts(s.left, Least, sep, lower', leaves') /\ Cuts(s.right, sep, MaxRecord + 1, lower', leaves')
  <2>1. Front(E, Middle).count \in Int /\ Back(E, Middle).count \in Int
    BY <1>9, MiddleBounds, ConstantsTyped DEF Front, Back
  <2> QED
    BY <1>3, <1>6, <1>10, <2>1, SameListsCut
<1>12. dirs' \in [0 .. 2 -> DirPages] /\ dirs'[0] = s.root /\ dirs'[1] = s.left /\ dirs'[2] = s.right /\ pages' = 3
  BY <1>1, <1>2, <1>6, <1>7
<1>13. TypeOK'
  BY <1>1, <1>3, <1>12 DEF TypeOK, DirPages
<1>14. /\ LeafDirs' = {1, 2}
       /\ FirstOf(1)' = Least /\ EndOf(1)' = sep /\ FirstOf(2)' = sep /\ EndOf(2)' = MaxRecord + 1
  BY <1>6, <1>12 DEF LeafDirs, FirstOf, EndOf
<1>15. ASSUME NEW l \in 0 .. leaves' - 1
       PROVE  \E e \in {1, 2} : \E i \in 0 .. dirs'[e].count - 1 : dirs'[e].child[i] = l
  <2>1. \E i \in 0 .. E.count - 1 : E.child[i] = l
    <3>1. CASE l = leaves
      BY <1>8, <3>1
    <3>2. CASE l # leaves
      <4>1. l \in 0 .. leaves - 1
        BY <1>3, <3>2
      <4>2. LeafDirs = {0}
        BY <1>2 DEF LeafDirs
      <4>3. \E i \in 0 .. dir.count - 1 : dir.child[i] = l
        BY <1>1, <4>1, <4>2 DEF TreeCutsRecords, dir
      <4> QED
        BY <1>8, <4>3
    <3> QED
      BY <3>1, <3>2
  <2>2. \/ \E j \in 0 .. Front(E, Middle).count - 1 : Front(E, Middle).child[j] = l
        \/ \E j \in 0 .. Back(E, Middle).count - 1 : Back(E, Middle).child[j] = l
    BY <1>9, <2>1, HalvesHave
  <2>3. \/ \E j \in 0 .. s.left.count - 1 : s.left.child[j] = l
        \/ \E j \in 0 .. s.right.count - 1 : s.right.child[j] = l
    BY <1>6, <2>2, SameListsHave
  <2> QED
    BY <1>12, <2>3
<1>16. TreeCutsRecords'
  <2>1. \A e \in {1, 2} : Cuts(dirs'[e], FirstOf(e)', EndOf(e)', lower', leaves')
    BY <1>11, <1>12, <1>14
  <2>2. \A e \in LeafDirs' : Cuts(dirs'[e], FirstOf(e)', EndOf(e)', lower', leaves')
    BY <1>14, <2>1
  <2>3. pages' = 3 =>
         /\ dirs'[0].count = 2 /\ dirs'[0].child[0] = -1 /\ dirs'[0].child[1] = -2
         /\ dirs'[0].record[0] \in AllRecords /\ Least < dirs'[0].record[0]
    BY <1>6, <1>10, <1>12
  <2> QED
    BY <1>14, <1>15, <2>2, <2>3 DEF TreeCutsRecords
<1> QED
  BY <1>3, <1>13, <1>16 DEF IInv, Apart

LEMMA InsertDropsSplitKeeps == ASSUME IInv, NEW r \in AllRecords, InsertDropsSplit(r) PROVE IInv'
<1>1. /\ Splittable(r) /\ NewLeaf(r) /\ dropped' = TRUE /\ UNCHANGED <<dirs, pages>>
      /\ TypeOK /\ Apart
  BY DEF InsertDropsSplit, IInv, Apart
<1>2. leaves' \in 1 .. MaxLeaves /\ lower' \in [LeafPages -> AllRecords] /\ Apart'
  BY <1>1, NewLeafFacts
<1>3. TypeOK'
  BY <1>1, <1>2 DEF TypeOK
<1> QED
  BY <1>1, <1>2, <1>3 DEF IInv, Apart

LEMMA InitIInv == Init => IInv
<1> SUFFICES ASSUME Init PROVE IInv
  OBVIOUS
<1> DEFINE root == [ZeroDir EXCEPT !.count = 1]
<1>1. /\ pages = 1 /\ leaves = 1 /\ dropped = FALSE
      /\ lower = [l \in LeafPages |-> Least]
      /\ dirs = [d \in 0 .. 2 |-> IF d = 0 THEN root ELSE ZeroDir]
  BY DEF Init
<1>2. ZeroDir \in DirPages
  BY ZeroDirTyped
<1>3. /\ root = [count |-> 1, child |-> [i \in 0 .. DirChildren - 1 |-> 0], record |-> [i \in 0 .. DirRecords - 1 |-> 0]]
      /\ root \in DirPages
  <2>1. root = [count |-> 1, child |-> [i \in 0 .. DirChildren - 1 |-> 0], record |-> [i \in 0 .. DirRecords - 1 |-> 0]]
    <3> DEFINE A == [i \in 0 .. DirChildren - 1 |-> 0]
               B == [i \in 0 .. DirRecords - 1 |-> 0]
    <3>1. ZeroDir = [count |-> 0, child |-> A, record |-> B]
      BY DEF ZeroDir
    <3> HIDE DEF A, B
    <3>2. root = [count |-> 1, child |-> A, record |-> B]
      BY <3>1
    <3> QED
      BY <3>2 DEF A, B
  <2>2. 1 \in 0 .. DirChildren
    BY ConstantsTyped
  <2>3. /\ [i \in 0 .. DirChildren - 1 |-> 0] \in [0 .. DirChildren - 1 -> Int]
        /\ [i \in 0 .. DirRecords - 1 |-> 0] \in [0 .. DirRecords - 1 -> AllRecords \cup {0}]
    OBVIOUS
  <2> HIDE DEF root
  <2> QED
    BY <2>1, <2>2, <2>3 DEF DirPages
<1>4. root.count = 1 /\ root.child[0] = 0
  <2>1. 0 \in 0 .. DirChildren - 1
    BY ConstantsTyped
  <2> QED
    BY <1>3, <2>1
<1> HIDE DEF root
<1>5. dirs \in [0 .. 2 -> DirPages] /\ dirs[0] = root
  BY <1>1, <1>2, <1>3
<1>6. Least \in AllRecords /\ 0 \in LeafPages /\ 1 \in 1 .. MaxLeaves
  BY ConstantsTyped DEF LeafPages
<1>7. lower \in [LeafPages -> AllRecords] /\ lower[0] = Least
  BY <1>1, <1>6
<1>8. TypeOK
  BY <1>1, <1>5, <1>6, <1>7 DEF TypeOK, DirPages
<1>9. \A j, k \in 0 .. leaves - 1 : lower[j] = lower[k] => j = k
  BY <1>1
<1>10. LeafDirs = {0} /\ FirstOf(0) = Least /\ EndOf(0) = MaxRecord + 1
  BY <1>1 DEF LeafDirs, FirstOf, EndOf
<1>11. Cuts(dirs[0], Least, MaxRecord + 1, lower, leaves)
  BY <1>1, <1>4, <1>5, <1>7 DEF Cuts
<1>12. \A l \in 0 .. leaves - 1 : \E i \in 0 .. dirs[0].count - 1 : dirs[0].child[i] = l
  <2>1. 0 \in 0 .. dirs[0].count - 1 /\ dirs[0].child[0] = 0
    BY <1>4, <1>5
  <2>2. \A l \in 0 .. leaves - 1 : l = 0
    BY <1>1
  <2> QED
    BY <2>1, <2>2
<1>13. TreeCutsRecords
  BY <1>1, <1>10, <1>11, <1>12 DEF TreeCutsRecords
<1> QED
  BY <1>8, <1>9, <1>13 DEF IInv

LEMMA NextIInv == IInv /\ [Next]_vars => IInv'
<1> SUFFICES ASSUME IInv, [Next]_vars PROVE IInv'
  OBVIOUS
<1>1. ASSUME NEW r \in AllRecords, InsertSplit(r) PROVE IInv'
  BY <1>1, InsertSplitKeeps
<1>2. ASSUME NEW r \in AllRecords, InsertRootSplit(r) PROVE IInv'
  BY <1>2, InsertRootSplitKeeps
<1>3. ASSUME NEW r \in AllRecords, InsertDropsSplit(r) PROVE IInv'
  BY <1>3, InsertDropsSplitKeeps
<1>4. CASE UNCHANGED vars
  BY <1>4 DEF vars, IInv, TypeOK, TreeCutsRecords, LeafDirs, FirstOf, EndOf
<1> QED
  BY <1>1, <1>2, <1>3, <1>4 DEF Next

(* Through any splits the directories cut all records into the ranges of   *)
(* all leaves, until a split is dropped (b_plus_tree_dir.cc:65-171).       *)
THEOREM Invariance == Spec => []IInv
  BY InitIInv, NextIInv, PTL DEF Spec

(* Directories and leaves keep their shape, and no directory holds more    *)
(* children than its page has room for.                                    *)
THEOREM TypeCorrect == Spec => []TypeOK
<1>1. IInv => TypeOK
  BY DEF IInv
<1> QED
  BY <1>1, Invariance, PTL

(* search_leaf takes every record to the leaf that holds its range, in any *)
(* tree no split was dropped from.                                         *)
THEOREM RecordsAreRoutedHome == Spec => []RoutesHome
<1>1. IInv => RoutesHome
  BY HomeOfRecord DEF IInv, Apart, RoutesHome
<1> QED
  BY <1>1, Invariance, PTL

-----------------------------------------------------------------------------
(***************************************************************************)
(* The leaves in the tree.                                                 *)
(***************************************************************************)

(* Behind each separator there is a child that starts later.               *)
LEMMA CutsApart ==
  ASSUME NEW dir, dir.count \in Int, NEW first \in Int, NEW end \in Int, first < end, NEW low, NEW n,
         Cuts(dir, first, end, low, n)
  PROVE  /\ \A i, j \in 0 .. dir.count - 1 : dir.child[i] = dir.child[j] => i = j
         /\ \A i \in 0 .. dir.count - 1 :
              low[dir.child[i]] \in Int /\ first <= low[dir.child[i]] /\ low[dir.child[i]] < end
<1> DEFINE c == dir.count
           L(j) == low[dir.child[j]]
<1>1. /\ c \in Nat
      /\ \A j \in 0 .. c - 1 : L(j) = IF j = 0 THEN first ELSE dir.record[j - 1]
      /\ \A j \in 0 .. c - 2 : dir.record[j] \in Int /\ first < dir.record[j] /\ dir.record[j] < end
      /\ \A j, k \in 0 .. c - 2 : j < k => dir.record[j] < dir.record[k]
  BY ConstantsTyped DEF Cuts
<1>2. \A j \in 0 .. c - 1 : j # 0 => j - 1 \in 0 .. c - 2
  BY <1>1
<1>3. ASSUME NEW i \in 0 .. c - 1, NEW j \in 0 .. c - 1, i < j PROVE dir.child[i] # dir.child[j]
  <2> HIDE DEF L
  <2>1. j # 0 /\ j - 1 \in 0 .. c - 2 /\ L(j) = dir.record[j - 1]
    BY <1>1, <1>2, <1>3
  <2>2. CASE i = 0
    <3>1. L(i) = first /\ first < L(j) /\ L(j) \in Int
      BY <1>1, <2>1, <2>2
    <3>2. L(i) # L(j)
      BY <3>1
    <3> QED
      BY <3>2 DEF L
  <2>3. CASE i # 0
    <3>1. i - 1 \in 0 .. c - 2 /\ L(i) = dir.record[i - 1] /\ i - 1 < j - 1
      BY <1>1, <1>2, <1>3, <2>3
    <3>2. L(i) < L(j) /\ L(i) \in Int /\ L(j) \in Int
      BY <1>1, <2>1, <3>1
    <3>3. L(i) # L(j)
      BY <3>2
    <3> QED
      BY <3>3 DEF L
  <2> QED
    BY <2>2, <2>3
<1>4. ASSUME NEW i \in 0 .. c - 1, NEW j \in 0 .. c - 1, dir.child[i] = dir.child[j] PROVE i = j
  <2>1. ~ (i < j) /\ ~ (j < i)
    BY <1>3, <1>4
  <2> QED
    BY <2>1
<1>5. ASSUME NEW i \in 0 .. c - 1 PROVE L(i) \in Int /\ first <= L(i) /\ L(i) < end
  <2> HIDE DEF L
  <2> QED
    BY <1>1, <1>2
<1> QED
  BY <1>4, <1>5

(* A list without repetitions has as many members as places.               *)
LEMMA ListedOnce ==
  ASSUME NEW dir, dir.count \in Nat, \A i, j \in 0 .. dir.count - 1 : dir.child[i] = dir.child[j] => i = j
  PROVE  Cardinality({dir.child[i] : i \in 0 .. dir.count - 1}) = dir.count
<1> DEFINE n == dir.count
           S == 0 .. n - 1
           T == {dir.child[i] : i \in S}
           f == [i \in S |-> dir.child[i]]
<1>1. IsFiniteSet(S) /\ Cardinality(S) = n
  <2>1. 0 \in Int /\ n - 1 \in Int
    OBVIOUS
  <2>2. IsFiniteSet(0 .. n - 1) /\ Cardinality(0 .. n - 1) = IF 0 > n - 1 THEN 0 ELSE (n - 1) - 0 + 1
    BY <2>1, FS_Interval
  <2> QED
    BY <2>2
<1>2. f \in Bijection(S, T)
  <2>1. f \in [S -> T] /\ \A i \in S : f[i] = dir.child[i]
    OBVIOUS
  <2>2. \A t \in T : \E i \in S : t = dir.child[i]
    OBVIOUS
  <2>3. \A i, j \in S : dir.child[i] = dir.child[j] => i = j
    OBVIOUS
  <2> HIDE DEF S, T, f
  <2>4. f \in Injection(S, T)
    BY <2>1, <2>3 DEF Injection, IsInjective
  <2>5. f \in Surjection(S, T)
    BY <2>1, <2>2 DEF Surjection
  <2> QED
    BY <2>4, <2>5 DEF Bijection
<1>3. ExistsBijection(S, T)
  BY <1>2 DEF ExistsBijection
<1> HIDE DEF S, T, f
<1>4. Cardinality(T) = Cardinality(S)
  BY <1>1, <1>3, FS_Bijection
<1> QED
  BY <1>1, <1>4 DEF S, T

(* A directory of leaves has those of its range, each once.                *)
LEMMA LeafDirFacts ==
  ASSUME TypeOK, TreeCutsRecords, NEW d \in LeafDirs
  PROVE  /\ d \in 0 .. pages - 1 /\ dirs[d].count \in Nat
         /\ Cuts(dirs[d], FirstOf(d), EndOf(d), lower, leaves)
         /\ Children(d) \subseteq 0 .. leaves - 1
         /\ Cardinality(Children(d)) = dirs[d].count
         /\ \A c \in Children(d) : lower[c] \in Int /\ FirstOf(d) <= lower[c] /\ lower[c] < EndOf(d)
         /\ \A i \in 1 .. dirs[d].count - 2 : dirs[d].record[i - 1] < dirs[d].record[i]
<1>1. dirs \in [0 .. 2 -> DirPages] /\ pages \in {1, 3} /\ (d = 0 \/ d = 1 \/ d = 2) /\ d \in 0 .. pages - 1
  BY TypeParts DEF LeafDirs
<1>2. dirs[d].count \in Nat
  <2>1. dirs[d] \in DirPages
    BY <1>1
  <2> QED
    BY <2>1, DirPageShape, ConstantsTyped
<1>3. Cuts(dirs[d], FirstOf(d), EndOf(d), lower, leaves)
  BY DEF TreeCutsRecords
<1>4. FirstOf(d) \in Int /\ EndOf(d) \in Int /\ FirstOf(d) < EndOf(d)
  <2>1. CASE pages = 1
    BY <2>1, ConstantsTyped DEF LeafDirs, FirstOf, EndOf
  <2>2. CASE pages = 3
    <3>1. dirs[0].record[0] \in AllRecords /\ Least < dirs[0].record[0]
      BY <2>2 DEF TreeCutsRecords
    <3> QED
      BY <2>2, <3>1, ConstantsTyped DEF LeafDirs, FirstOf, EndOf
  <2> QED
    BY <1>1, <2>1, <2>2
<1>5. /\ \A i, j \in 0 .. dirs[d].count - 1 : dirs[d].child[i] = dirs[d].child[j] => i = j
      /\ \A i \in 0 .. dirs[d].count - 1 :
           LET low == lower[dirs[d].child[i]] IN low \in Int /\ FirstOf(d) <= low /\ low < EndOf(d)
  BY <1>2, <1>3, <1>4, CutsApart
<1>6. Cardinality(Children(d)) = dirs[d].count
  BY <1>2, <1>5, ListedOnce DEF Children
<1>7. Children(d) \subseteq 0 .. leaves - 1
  BY <1>3 DEF Children, Cuts
<1>8. \A i \in 1 .. dirs[d].count - 2 : dirs[d].record[i - 1] < dirs[d].record[i]
  <2>1. \A i \in 1 .. dirs[d].count - 2 : i - 1 \in 0 .. dirs[d].count - 2 /\ i \in 0 .. dirs[d].count - 2 /\ i - 1 < i
    BY <1>2
  <2> QED
    BY <1>3, <2>1 DEF Cuts
<1> QED
  BY <1>1, <1>2, <1>3, <1>5, <1>6, <1>7, <1>8 DEF Children

(* The directories of leaves have disjoint ranges, so every leaf hangs     *)
(* once.                                                                   *)
LEMMA LeavesHang == TypeOK /\ TreeCutsRecords => LeavesInTree
<1> SUFFICES ASSUME TypeOK, TreeCutsRecords PROVE LeavesInTree
  OBVIOUS
<1> DEFINE U == UNION {{c \in Children(d) : c >= 0} : d \in 0 .. pages - 1}
<1>1. leaves \in Nat /\ pages \in {1, 3}
  BY TypeParts
<1>2. \A l \in 0 .. leaves - 1 : \E d \in LeafDirs : l \in Children(d)
  BY DEF TreeCutsRecords, Children
<1>3. CASE pages = 1
  <2>1. 0 .. pages - 1 = {0} /\ LeafDirs = {0}
    BY <1>3 DEF LeafDirs
  <2>2. /\ Children(0) \subseteq 0 .. leaves - 1 /\ Cardinality(Children(0)) = dirs[0].count
        /\ \A i \in 1 .. dirs[0].count - 2 : dirs[0].record[i - 1] < dirs[0].record[i]
    BY <2>1, LeafDirFacts
  <2>3. Children(0) = 0 .. leaves - 1
    BY <1>2, <2>1, <2>2
  <2>4. U = {c \in Children(0) : c >= 0}
    BY <2>1
  <2>5. U = 0 .. leaves - 1
    BY <1>1, <2>3, <2>4
  <2> QED
    BY <2>1, <2>2, <2>5 DEF LeavesInTree
<1>4. CASE pages = 3
  <2>1. 0 .. pages - 1 = {0, 1, 2} /\ LeafDirs = {1, 2}
    BY <1>4 DEF LeafDirs
  <2>2. \A d \in {1, 2} :
          /\ Children(d) \subseteq 0 .. leaves - 1 /\ Cardinality(Children(d)) = dirs[d].count
          /\ \A c \in Children(d) : lower[c] \in Int /\ FirstOf(d) <= lower[c] /\ lower[c] < EndOf(d)
          /\ \A i \in 1 .. dirs[d].count - 2 : dirs[d].record[i - 1] < dirs[d].record[i]
    BY <2>1, LeafDirFacts
  <2>3. /\ dirs[0].count = 2 /\ dirs[0].child[0] = -1 /\ dirs[0].child[1] = -2
        /\ dirs[0].record[0] \in Int
    BY <1>4, ConstantsTyped DEF TreeCutsRecords
  <2>4. Children(0) = {-1, -2} /\ Cardinality(Children(0)) = 2
    <3>1. Children(0) = {-1, -2}
      BY <2>3 DEF Children
    <3>2. \A i, j \in 0 .. dirs[0].count - 1 : dirs[0].child[i] = dirs[0].child[j] => i = j
      BY <2>3
    <3>3. dirs[0].count \in Nat
      BY <2>3
    <3> QED
      BY <2>3, <3>1, <3>2, <3>3, ListedOnce DEF Children
  <2>5. EndOf(1) = dirs[0].record[0] /\ FirstOf(2) = dirs[0].record[0]
    BY DEF EndOf, FirstOf
  <2>6. Children(1) \cap Children(2) = {}
    <3>1. SUFFICES ASSUME NEW c \in Children(1), c \in Children(2) PROVE FALSE
      OBVIOUS
    <3>2. lower[c] \in Int /\ lower[c] < dirs[0].record[0] /\ dirs[0].record[0] <= lower[c]
      BY <2>2, <2>5, <3>1
    <3> QED
      BY <2>3, <3>2
  <2>7. \A c \in Children(0) : ~ (c >= 0)
    BY <2>4
  <2>8. \A d \in {1, 2} : \A c \in Children(d) : c \in Int /\ c >= 0 /\ c \in 0 .. leaves - 1
    BY <1>1, <2>2
  <2>9. U = 0 .. leaves - 1
    <3>1. \A l \in 0 .. leaves - 1 : l \in U
      <4> TAKE l \in 0 .. leaves - 1
      <4>1. PICK d \in {1, 2} : l \in Children(d)
        BY <1>2, <2>1
      <4>2. d \in 0 .. pages - 1 /\ l \in {c \in Children(d) : c >= 0}
        BY <2>1, <2>8, <4>1
      <4> QED
        BY <4>2
    <3>2. \A l \in U : l \in 0 .. leaves - 1
      BY <2>1, <2>7, <2>8
    <3> QED
      BY <3>1, <3>2
  <2>10. \A d, e \in 0 .. pages - 1 : d # e => Children(d) \cap Children(e) = {}
    <3>1. \A e \in {1, 2} : Children(0) \cap Children(e) = {}
      BY <2>7, <2>8
    <3> QED
      BY <2>1, <2>6, <3>1
  <2>11. \A d \in 0 .. pages - 1 :
           /\ Cardinality(Children(d)) = dirs[d].count
           /\ \A i \in 1 .. dirs[d].count - 2 : dirs[d].record[i - 1] < dirs[d].record[i]
    <3>1. \A i \in 1 .. dirs[0].count - 2 : FALSE
      BY <2>3
    <3> QED
      BY <2>1, <2>2, <2>3, <2>4, <3>1
  <2> HIDE DEF U
  <2> QED
    BY <2>9, <2>10, <2>11 DEF LeavesInTree, U
<1> QED
  BY <1>1, <1>3, <1>4

(* Every leaf hangs in the tree once, under directories whose separators   *)
(* are in order, for pages of any size (b_plus_tree_dir.cc:105-171).       *)
THEOREM EveryLeafHangsOnce == Spec => []LeavesInTree
<1>1. IInv => LeavesInTree
  BY LeavesHang DEF IInv, LeavesInTree
<1> QED
  BY <1>1, Invariance, PTL

-----------------------------------------------------------------------------
(***************************************************************************)
(* The searches in the leaves.                                             *)
(***************************************************************************)

(* A leaf may hold the records up to some record.                          *)
LEMMA HighestExists ==
  ASSUME TypeOK, NEW k \in 0 .. leaves - 1
  PROVE  HighestOf(k) \in AllRecords
<1> DEFINE Above == {j \in 0 .. leaves - 1 : lower[j] > lower[k]}
           Ok(hi) == /\ hi = MaxRecord \/ \E j \in 0 .. leaves - 1 : lower[j] = hi + 1 /\ lower[j] > lower[k]
                     /\ \A j \in 0 .. leaves - 1 : lower[j] > lower[k] => hi < lower[j]
<1>1. \A j \in 0 .. leaves - 1 : lower[j] \in Int /\ Least <= lower[j] /\ lower[j] <= MaxRecord
  BY TypeParts, ConstantsTyped
<1>2. \E hi \in AllRecords : Ok(hi)
  <2>1. CASE Above = {}
    <3>1. MaxRecord \in AllRecords
      BY ConstantsTyped
    <3>2. Ok(MaxRecord)
      BY <2>1
    <3> QED
      BY <3>1, <3>2
  <2>2. CASE Above # {}
    <3> DEFINE T == {lower[j] - lower[k] : j \in Above}
    <3>1. T \subseteq Nat /\ T # {}
      BY <1>1, <2>2
    <3>2. PICK x \in T : \A y \in T : x <= y
      <4> HIDE DEF T
      <4> QED
        BY <3>1, LeastExists
    <3>3. PICK j \in Above : x = lower[j] - lower[k]
      BY <3>2
    <3>4. \A i \in Above : lower[j] <= lower[i]
      <4> TAKE i \in Above
      <4>1. lower[i] - lower[k] \in T
        OBVIOUS
      <4>2. lower[j] - lower[k] <= lower[i] - lower[k]
        BY <3>2, <3>3, <4>1
      <4> QED
        BY <1>1, <4>2
    <3>5. lower[j] - 1 \in AllRecords
      BY <1>1, ConstantsTyped
    <3>6. (lower[j] - 1) + 1 = lower[j] /\ \A i \in Above : lower[j] - 1 < lower[i]
      BY <1>1, <3>4
    <3>7. Ok(lower[j] - 1)
      BY <3>6
    <3> QED
      BY <3>5, <3>7
  <2> QED
    BY <2>1, <2>2
<1>3. HighestOf(k) = CHOOSE hi \in AllRecords : Ok(hi)
  BY DEF HighestOf
<1> HIDE DEF Ok
<1> QED
  BY <1>2, <1>3

(* The leaf of S holds S, in order.                                        *)
LEMMA LeafOfHolds ==
  ASSUME NEW S, S \subseteq Int, IsFiniteSet(S), Cardinality(S) <= LeafRecords
  PROVE  LET l == LeafOf(S) IN
         /\ l.count \in 0 .. LeafRecords /\ Sorted(l)
         /\ \A i \in 0 .. l.count - 1 : l.record[i] \in Int
         /\ l.count < LeafRecords => l.record[l.count] = 0
<1> DEFINE n == Cardinality(S)
           l == LeafOf(S)
<1>1. n \in Nat /\ n <= LeafRecords /\ LeafRecords \in Nat /\ \A i \in 0 .. n - 1 : i \in 0 .. LeafRecords - 1 /\ i < n
  BY FS_CardinalityType, LeafRecordsAssumption
<1>2. l.count = n /\ \A i \in 0 .. LeafRecords - 1 :
        l.record[i] = IF i < n THEN CHOOSE r \in S : Cardinality({x \in S : x < r}) = i ELSE 0
  BY DEF LeafOf
<1>3. /\ \A i \in 0 .. n - 1 : l.record[i] = CHOOSE r \in S : Rank(S, r) = i
      /\ \A i \in 0 .. LeafRecords - 1 : ~ (i < n) => l.record[i] = 0
  BY <1>1, <1>2 DEF Rank
<1> HIDE DEF n, l
<1>4. \A i \in 0 .. n - 1 : \E r \in S : Rank(S, r) = i
  BY EveryRankIsTaken DEF n
<1>5. \A i \in 0 .. n - 1 : l.record[i] \in S /\ Rank(S, l.record[i]) = i
  <2> TAKE i \in 0 .. n - 1
  <2>1. \E r \in S : Rank(S, r) = i
    BY <1>4
  <2> QED
    BY <1>3, <2>1
<1>6. ASSUME NEW i \in 0 .. n - 1, NEW j \in 0 .. n - 1, i < j PROVE l.record[i] < l.record[j]
  <2> DEFINE a == l.record[i]
             b == l.record[j]
  <2>1. a \in S /\ b \in S /\ Rank(S, a) = i /\ Rank(S, b) = j
    BY <1>5
  <2> HIDE DEF a, b
  <2>2. ~ (b < a) /\ a # b
    <3>1. b < a => Rank(S, b) < Rank(S, a)
      BY <2>1, RankGrows
    <3> QED
      BY <1>6, <2>1, <3>1
  <2>3. a < b
    BY <2>1, <2>2
  <2> QED
    BY <2>3 DEF a, b
<1>7. Sorted(l)
  BY <1>2, <1>6 DEF Sorted, n
<1>8. n < LeafRecords => l.record[n] = 0
  <2>1. n < LeafRecords => n \in 0 .. LeafRecords - 1
    BY <1>1
  <2> QED
    BY <1>1, <1>3, <2>1
<1>9. n \in 0 .. LeafRecords /\ \A i \in 0 .. n - 1 : l.record[i] \in Int
  <2>1. n \in 0 .. LeafRecords
    BY <1>1
  <2>2. \A i \in 0 .. n - 1 : l.record[i] \in Int
    BY <1>5
  <2> QED
    BY <2>1, <2>2
<1> QED
  BY <1>2, <1>7, <1>8, <1>9 DEF n, l

(* The theorems of BPlusTreeNode, for the leaves the properties speak of.  *)
LEMMA LeavesAreSearched ==
  ASSUME NEW lo \in Int, NEW hi \in Int, NEW l \in LeavesWithin(lo, hi), NEW r \in Int
  PROVE  Searched(l, r) /\ Checked(l, r)
<1>1. PICK S \in SUBSET (lo .. hi) : Cardinality(S) <= LeafRecords /\ l = LeafOf(S)
  BY DEF LeavesWithin
<1>2. S \subseteq Int /\ IsFiniteSet(S)
  <2>1. IsFiniteSet(lo .. hi)
    BY FS_Interval
  <2>2. IsFiniteSet(S)
    BY <2>1, FS_Subset
  <2> QED
    BY <2>2
<1>3. /\ l.count \in 0 .. LeafRecords /\ Sorted(l)
      /\ \A i \in 0 .. l.count - 1 : l.record[i] \in Int
      /\ l.count < LeafRecords => l.record[l.count] = 0
  BY <1>1, <1>2, LeafOfHolds
<1>4. l.count > 0 => l.count \in 1 .. LeafRecords
  BY <1>3, LeafRecordsAssumption
<1>5. Searched(l, r)
  BY <1>3, <1>4, SearchIndexIsLowerBound DEF Searched
<1>6. Checked(l, r)
  <2> SUFFICES ASSUME l.count > 0, r # 0 \/ LeafHas(l, 0) PROVE Duplicate(l, r) <=> LeafHas(l, r)
    BY DEF Checked
  <2>1. Duplicate(l, r) <=>
          \/ LeafHas(l, r)
          \/ /\ l.count < LeafRecords /\ l.record[l.count] = r
             /\ \A i \in 0 .. l.count - 1 : l.record[i] < r
    BY <1>3, <1>4, DuplicateIsExact DEF LeafHas
  <2>2. ASSUME l.count < LeafRecords, l.record[l.count] = r, \A i \in 0 .. l.count - 1 : l.record[i] < r
        PROVE  FALSE
    <3>1. r = 0
      BY <1>3, <2>2
    <3>2. PICK i \in 0 .. l.count - 1 : l.record[i] = 0
      BY <3>1 DEF LeafHas
    <3> QED
      BY <2>2, <3>1, <3>2
  <2> QED
    BY <2>1, <2>2
<1> QED
  BY <1>5, <1>6

(* Whatever the leaf a record is routed to holds, search_index returns the *)
(* index of its lowest record that is not less, or the number of records   *)
(* (b_plus_tree_leaf.h:67-68): for leaves of any size.                     *)
THEOREM SearchesFindLowerBounds == Spec => []SearchFindsLowerBound
<1>1. TypeOK => SearchFindsLowerBound
  <2> SUFFICES ASSUME TypeOK, NEW k \in 0 .. leaves - 1,
                      NEW l \in LeavesWithin(lower[k], HighestOf(k)), NEW r \in lower[k] .. HighestOf(k)
               PROVE  Searched(l, r)
    BY DEF SearchFindsLowerBound
  <2>1. lower[k] \in Int /\ HighestOf(k) \in Int
    BY HighestExists, TypeParts, ConstantsTyped
  <2> QED
    BY <2>1, LeavesAreSearched
<1> QED
  BY <1>1, TypeCorrect, PTL

(* In the same leaves the check of insert_record takes r for a record the  *)
(* leaf has just when it has it (b_plus_tree_leaf.cc:28-31), but for the   *)
(* record of zero bytes in front of an unused cell.                        *)
THEOREM DuplicatesAreFound == Spec => []DuplicatesFound
<1>1. TypeOK => DuplicatesFound
  <2> SUFFICES ASSUME TypeOK, NEW k \in 0 .. leaves - 1,
                      NEW l \in LeavesWithin(lower[k], HighestOf(k)), NEW r \in lower[k] .. HighestOf(k)
               PROVE  Checked(l, r)
    BY DEF DuplicatesFound
  <2>1. lower[k] \in Int /\ HighestOf(k) \in Int
    BY HighestExists, TypeParts, ConstantsTyped
  <2> QED
    BY <2>1, LeavesAreSearched
<1> QED
  BY <1>1, TypeCorrect, PTL

=============================================================================
