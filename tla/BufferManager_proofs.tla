----------------------- MODULE BufferManager_proofs -----------------------
(***************************************************************************)
(* Proofs about BufferManager, for every number of files, pages, frames    *)
(* and handles: the inductive invariant IInv, the safety invariants it     *)
(* contains, and that BufferManager implements PageStore.                  *)
(***************************************************************************)
EXTENDS BufferManager, FiniteSetTheorems, TLAPS

(* The set of objects holding a frame is finite.                           *)
LEMMA HoldersFinite ==
  ASSUME NEW f
  PROVE  IsFiniteSet(Holders(f)) /\ Cardinality(Holders(f)) \in Nat
<1>1. Holders(f) \subseteq Handles
  BY DEF Holders
<1>. QED
  BY <1>1, FS_Subset, FS_CardinalityType, HandlesAssumption

(* Taking a frame adds one holder to it and none to the others.            *)
LEMMA HoldersTake ==
  ASSUME TypeOK, NEW h \in Handles, ref[h] = NoFrame, NEW f \in Frames,
         ref' = [ref EXCEPT ![h] = f]
  PROVE  /\ Cardinality(Holders(f))' = Cardinality(Holders(f)) + 1
         /\ \A g \in Frames \ {f} : Holders(g)' = Holders(g)
<1>1. Holders(f)' = Holders(f) \cup {h}
  BY DEF Holders, TypeOK
<1>2. h \notin Holders(f)
  BY DEF Holders, Frames, NoFrame
<1>3. \A g \in Frames \ {f} : Holders(g)' = Holders(g)
  BY DEF Holders, TypeOK, Frames, NoFrame
<1>4. Cardinality(Holders(f))' = Cardinality(Holders(f)')
  OBVIOUS
<1>. QED
  BY <1>1, <1>2, <1>3, <1>4, HoldersFinite, FS_AddElement

(* Releasing a frame removes one holder from it and none from the others.  *)
LEMMA HoldersRelease ==
  ASSUME TypeOK, NEW h \in Handles, NEW f \in Frames, ref[h] = f,
         ref' = [ref EXCEPT ![h] = NoFrame]
  PROVE  /\ Cardinality(Holders(f))' = Cardinality(Holders(f)) - 1
         /\ \A g \in Frames \ {f} : Holders(g)' = Holders(g)
<1>1. Holders(f)' = Holders(f) \ {h}
  BY DEF Holders, TypeOK, Frames, NoFrame
<1>2. h \in Holders(f)
  BY DEF Holders
<1>3. \A g \in Frames \ {f} : Holders(g)' = Holders(g)
  BY DEF Holders, TypeOK, Frames, NoFrame
<1>4. Cardinality(Holders(f))' = Cardinality(Holders(f)')
  OBVIOUS
<1>. QED
  BY <1>1, <1>2, <1>3, <1>4, HoldersFinite, FS_RemoveElement

(* What the eviction writes: only the page of a dirty frame changes.       *)
LEMMA FlushedType ==
  ASSUME TypeOK, NEW F \in SUBSET Frames
  PROVE  /\ Flushed(F) \in [PageIds -> Content]
         /\ Clean(F) \in [Frames -> BOOLEAN]
<1>1. ASSUME NEW p \in PageIds
      PROVE  Flushed(F)[p] \in Content
  <2>1. CASE \E f \in F : dirty[f] /\ page_id[f] = p
    <3>1. PICK f \in F : f = CHOOSE g \in F : dirty[g] /\ page_id[g] = p
      BY <2>1
    <3>. QED
      BY <2>1, <3>1 DEF Flushed, TypeOK
  <2>2. CASE ~ \E f \in F : dirty[f] /\ page_id[f] = p
    BY <2>2 DEF Flushed, TypeOK
  <2>. QED
    BY <2>1, <2>2
<1>. QED
  BY <1>1 DEF Flushed, Clean, TypeOK
-----------------------------------------------------------------------------
(***************************************************************************)
(* The inductive invariant: one lemma per action.                          *)
(***************************************************************************)
(* A page of a file: the file, and a number below the bound.               *)
LEMMA PageIdParts ==
  ASSUME NEW p \in PageIds
  PROVE  p[1] \in Files /\ p[2] \in Nat /\ p[2] < MaxPages
BY MaxPagesAssumption DEF PageIds

(* NoFrame is no frame; the clock stays within the frames.                  *)
LEMMA FrameFacts ==
  /\ NoFrame \notin Frames
  /\ 0 \in Frames
  /\ \A f \in Frames : NextFrame(f) \in Frames
BY FrameCountAssumption DEF Frames, NoFrame, NextFrame

(* An action that leaves ref alone changes no holders.                     *)
LEMMA HoldersSame ==
  ASSUME UNCHANGED ref, NEW f
  PROVE  Holders(f)' = Holders(f) /\ Cardinality(Holders(f))' = Cardinality(Holders(f))
BY DEF Holders

(* Read_page extends the file within the bound.                            *)
LEMMA ExtendedType ==
  ASSUME TypeOK, NEW p \in PageIds
  PROVE  /\ Extended(p) \in [Files -> 0 .. MaxPages]
         /\ \A q \in PageIds : ~ IsNewPage(q) => ~ (Extended(p)[q[1]] <= q[2])
         /\ ~ (Extended(p)[p[1]] <= p[2])
BY PageIdParts, MaxPagesAssumption DEF Extended, IsNewPage, TypeOK

(* A first process over empty files satisfies the invariant.                *)
LEMMA InitIInv == Init => IInv
<1>. SUFFICES ASSUME Init PROVE IInv
  OBVIOUS
<1>. USE FrameFacts, PageIdParts, ZeroAssumption, MaxPagesAssumption DEF Init, Start
<1>1. TypeOK
  <2>1. page_id \in [Frames -> PageIds \cup {NoPage}] /\ bytes \in [Frames -> Content] /\ pins \in [Frames -> Nat]
    OBVIOUS
  <2>2. second_chance \in [Frames -> BOOLEAN] /\ dirty \in [Frames -> BOOLEAN]
    OBVIOUS
  <2>3. page_map \in [PageIds -> Frames \cup {NoFrame}] /\ clock \in Frames /\ stage = "idle"
    OBVIOUS
  <2>4. /\ req = NoHandle /\ asked \in [Handles -> PageIds \cup {NoPage}]
        /\ ref \in [Handles -> Frames \cup {NoFrame}]
    OBVIOUS
  <2>5. disk \in [PageIds -> Content] /\ file_pages \in [Files -> 0 .. MaxPages] /\ faked \in BOOLEAN
    <3>1. 0 \in 0 .. MaxPages
      OBVIOUS
    <3>. QED
      BY <3>1
  <2>. QED
    BY <2>1, <2>2, <2>3, <2>4, <2>5 DEF TypeOK
<1>2. \A f : Holders(f) # {} => f = NoFrame
  BY DEF Holders
<1>3. PinAccounting
  BY <1>2 DEF PinAccounting, Mapped
<1>4. HandleSound /\ MapSound /\ ReassignAsserts /\ StrandedIsNextVictim
  BY DEF HandleSound, MapSound, ReassignAsserts, StrandedIsNextVictim
<1>5. CleanMatchesDisk /\ AppendIsFresh
  BY DEF CleanMatchesDisk, AppendIsFresh, Mapped
<1>6. CallSound
  BY NoHandleAssumption DEF CallSound
<1>. QED
  BY <1>1, <1>3, <1>4, <1>5, <1>6 DEF IInv

(* The page is in the buffer.                                              *)
LEMMA HitIInv ==
  ASSUME IInv, NEW h \in Handles, NEW p \in PageIds,
         stage = "idle", ref[h] = NoFrame, Hit(h, p)
  PROVE  IInv'
<1>. USE FrameFacts, NoPageAssumption, NoHandleAssumption DEF IInv, callVars, fileVars
<1>. PICK f \in Frames : f = page_map[p]
  BY DEF Hit, TypeOK
<1>1. page_id[f] = p /\ Mapped(f)
  BY DEF Hit, TypeOK, MapSound, Mapped
<1>2. /\ Cardinality(Holders(f))' = Cardinality(Holders(f)) + 1
      /\ \A g \in Frames \ {f} : Holders(g)' = Holders(g)
  BY <1>1, HoldersTake DEF Hit
<1>3. \A g \in Frames : Mapped(g)' <=> Mapped(g)
  BY DEF Hit, Mapped
<1>4. TypeOK'
  BY <1>1 DEF TypeOK, Hit
<1>5. HandleSound' /\ MapSound'
  BY <1>1 DEF HandleSound, MapSound, Hit, TypeOK
<1>6. PinAccounting'
  <2>1. pins'[f] = Cardinality(Holders(f))'
    BY <1>1, <1>2 DEF Hit, TypeOK, PinAccounting
  <2>2. \A g \in Frames \ {f} : pins'[g] = pins[g]
    BY <1>1 DEF Hit, TypeOK
  <2>3. ASSUME NEW g \in Frames \ {f}
        PROVE  Cardinality(Holders(g))' = Cardinality(Holders(g)) /\ Holders(g)' = Holders(g)
    BY <1>2
  <2>. QED
    BY <1>1, <1>2, <1>3, <2>1, <2>2, <2>3 DEF PinAccounting
<1>7. ReassignAsserts' /\ CallSound'
  <2>1. ReassignAsserts' /\ stage' = "idle" /\ req' = NoHandle
    BY DEF ReassignAsserts, CallSound, Hit, TypeOK
  <2>2. \A k \in Handles : (asked[k] = NoPage \/ k = req <=> ref[k] = NoFrame)'
    BY <1>1, <2>1 DEF CallSound, Hit, TypeOK
  <2>. QED
    BY <2>1, <2>2 DEF CallSound
<1>8. StrandedIsNextVictim'
  BY <1>1, <1>3 DEF StrandedIsNextVictim, Hit, TypeOK, Evictable
<1>9. CleanMatchesDisk' /\ AppendIsFresh'
  BY <1>1, <1>3 DEF CleanMatchesDisk, AppendIsFresh, IsNewPage, Hit
<1>. QED
  BY <1>4, <1>5, <1>6, <1>7, <1>8, <1>9

(* The page is not in the buffer: the call goes on to the sweep.            *)
LEMMA MissIInv ==
  ASSUME IInv, NEW h \in Handles, NEW p \in PageIds,
         stage = "idle", ref[h] = NoFrame, Miss(h, p)
  PROVE  IInv'
<1>. USE FrameFacts, NoPageAssumption, NoHandleAssumption
     DEF IInv, Miss, frameVars, fileVars
<1>1. \A g \in Frames : Mapped(g)' <=> Mapped(g)
  BY DEF Mapped
<1>2. TypeOK'
  BY DEF TypeOK
<1>3. HandleSound' /\ MapSound'
  BY DEF HandleSound, MapSound, TypeOK
<1>4. PinAccounting'
  BY <1>1, HoldersSame DEF PinAccounting
<1>5. ReassignAsserts' /\ StrandedIsNextVictim'
  BY <1>1 DEF ReassignAsserts, StrandedIsNextVictim, Evictable
<1>6. CleanMatchesDisk' /\ AppendIsFresh'
  BY <1>1 DEF CleanMatchesDisk, AppendIsFresh, IsNewPage
<1>7. CallSound'
  BY DEF CallSound, TypeOK
<1>. QED
  BY <1>2, <1>3, <1>4, <1>5, <1>6, <1>7

(* One turn of the clock.                                                  *)
LEMMA AdvanceIInv ==
  ASSUME IInv, Advance
  PROVE  IInv'
<1>. USE FrameFacts DEF IInv, Advance, callVars, handleVars, fileVars
<1>1. \A g \in Frames : Mapped(g)' <=> Mapped(g)
  BY DEF Mapped
<1>2. TypeOK'
  BY DEF TypeOK
<1>3. HandleSound' /\ MapSound' /\ CallSound'
  BY DEF HandleSound, MapSound, CallSound
<1>4. PinAccounting'
  BY <1>1, HoldersSame DEF PinAccounting
<1>5. ReassignAsserts' /\ StrandedIsNextVictim'
  BY <1>1 DEF ReassignAsserts, StrandedIsNextVictim, Evictable, TypeOK
<1>6. CleanMatchesDisk' /\ AppendIsFresh'
  BY <1>1 DEF CleanMatchesDisk, AppendIsFresh, IsNewPage
<1>. QED
  BY <1>2, <1>3, <1>4, <1>5, <1>6

(* Flushing one frame.                                                     *)
LEMMA FlushedOne ==
  ASSUME TypeOK, NEW f \in Frames
  PROVE  \A p \in PageIds :
           Flushed({f})[p] = IF dirty[f] /\ page_id[f] = p THEN bytes[f] ELSE disk[p]
BY DEF Flushed

(* At most one dirty frame has a given page.                               *)
LEMMA DirtyUnique ==
  ASSUME IInv, NEW f \in Frames, NEW g \in Frames,
         dirty[f], dirty[g], page_id[f] = page_id[g], page_id[f] # NoPage
  PROVE  f = g
<1>1. \A k \in Frames : dirty[k] /\ page_id[k] # NoPage /\ ~ Mapped(k) =>
        k = clock /\ page_map[page_id[k]] = NoFrame
  BY DEF IInv, StrandedIsNextVictim
<1>2. CASE Mapped(f) /\ Mapped(g)
  BY <1>2 DEF Mapped
<1>3. CASE ~ Mapped(f) \/ ~ Mapped(g)
  BY <1>1, <1>3, FrameFacts DEF Mapped
<1>. QED
  BY <1>2, <1>3

(* A dirty frame of F reaches its file when F is flushed.                  *)
LEMMA FlushedAt ==
  ASSUME IInv, NEW F \in SUBSET Frames, NEW p \in PageIds
  PROVE  /\ \A f \in F : dirty[f] /\ page_id[f] = p => Flushed(F)[p] = bytes[f]
         /\ (\A f \in F : ~ (dirty[f] /\ page_id[f] = p)) => Flushed(F)[p] = disk[p]
<1>1. ASSUME NEW f \in F, dirty[f], page_id[f] = p
      PROVE  Flushed(F)[p] = bytes[f]
  <2>1. \A g \in F : dirty[g] /\ page_id[g] = p => g = f
    BY <1>1, DirtyUnique, NoPageAssumption
  <2>2. f = CHOOSE g \in F : dirty[g] /\ page_id[g] = p
    BY <1>1, <2>1
  <2>. QED
    BY <1>1, <2>2 DEF Flushed
<1>. QED
  BY <1>1 DEF Flushed

(* The victim of the sweep: nobody holds it, and its page is in no other   *)
(* frame.  Taking its page out of page_map changes no other entry in use.  *)
LEMMA VictimFacts ==
  ASSUME IInv, NEW c \in Frames, c = clock, Evictable(clock), page_map' = Forget(clock), UNCHANGED <<page_id, ref>>
  PROVE  /\ Holders(c) = {}
         /\ page_id[c] # NoPage => page_map[page_id[c]] \in {c, NoFrame}
         /\ ~ Mapped(c)'
         /\ \A g \in Frames \ {c} : Mapped(g)' <=> Mapped(g)
         /\ page_map' \in [PageIds -> Frames \cup {NoFrame}]
         /\ \A p \in PageIds : page_map'[p] = IF p = page_id[c] THEN NoFrame ELSE page_map[p]
<1>. USE FrameFacts, NoPageAssumption DEF IInv
<1>1. c \in Frames /\ page_map \in [PageIds -> Frames \cup {NoFrame}]
  BY DEF TypeOK
<1>2. Holders(c) = {}
  <2>1. CASE Mapped(c)
    <3>1. Cardinality(Holders(c)) = 0
      BY <2>1 DEF PinAccounting, Evictable
    <3>. QED
      BY <3>1, HoldersFinite, FS_EmptySet
  <2>2. CASE ~ Mapped(c)
    BY <1>1, <2>2 DEF PinAccounting
  <2>. QED
    BY <2>1, <2>2
<1>3. page_id[c] # NoPage => page_map[page_id[c]] \in {c, NoFrame}
  BY <1>1 DEF StrandedIsNextVictim, Mapped, Evictable
<1>4. page_id[c] \in PageIds \cup {NoPage}
  BY <1>1 DEF TypeOK
<1>5. /\ page_map' \in [PageIds -> Frames \cup {NoFrame}]
      /\ \A p \in PageIds : page_map'[p] = IF p = page_id[c] THEN NoFrame ELSE page_map[p]
  BY <1>1, <1>4 DEF Forget
<1>6. ~ Mapped(c)'
  BY <1>1, <1>4, <1>5 DEF Mapped
<1>7. \A g \in Frames \ {c} : Mapped(g)' <=> Mapped(g)
  BY <1>3, <1>4, <1>5 DEF Mapped, TypeOK
<1>. QED
  BY <1>2, <1>3, <1>5, <1>6, <1>7

(* The victim is written and leaves page_map.                              *)
LEMMA EvictIInv ==
  ASSUME IInv, Evict
  PROVE  IInv'
<1>. USE FrameFacts, NoPageAssumption DEF IInv, handleVars
<1>. PICK c \in Frames : c = clock
  BY DEF TypeOK
<1>1. /\ Holders(c) = {}
      /\ page_id[c] # NoPage => page_map[page_id[c]] \in {c, NoFrame}
      /\ ~ Mapped(c)'
      /\ \A g \in Frames \ {c} : Mapped(g)' <=> Mapped(g)
      /\ page_map' \in [PageIds -> Frames \cup {NoFrame}]
      /\ \A p \in PageIds : page_map'[p] = IF p = page_id[c] THEN NoFrame ELSE page_map[p]
  BY VictimFacts DEF Evict
<1>2. /\ disk' \in [PageIds -> Content]
      /\ dirty' \in [Frames -> BOOLEAN]
  BY FlushedType DEF Evict, TypeOK
<1>3. \A p \in PageIds : disk'[p] = IF dirty[c] /\ page_id[c] = p THEN bytes[c] ELSE disk[p]
  BY <1>2, FlushedOne DEF Evict
<1>4. \A g \in Frames : dirty'[g] <=> dirty[g] /\ g # c
  BY DEF Evict, Clean
<1>5. TypeOK'
  BY <1>1, <1>2 DEF TypeOK, Evict
<1>6. HandleSound'
  <2>1. \A h \in Handles : ref[h] # c
    BY <1>1 DEF Holders
  <2>. QED
    BY <1>1, <2>1 DEF HandleSound, TypeOK, Evict
<1>7. MapSound'
  BY <1>1 DEF MapSound, TypeOK, Evict
<1>8. PinAccounting'
  <2>1. /\ \A g \in Frames : pins'[g] = pins[g]
        /\ \A g \in Frames : Holders(g)' = Holders(g) /\ Cardinality(Holders(g))' = Cardinality(Holders(g))
        /\ pins[c] = 0
    BY HoldersSame DEF Evict, Evictable
  <2>. QED
    BY <1>1, <1>2, <2>1 DEF PinAccounting
<1>9. ReassignAsserts' /\ StrandedIsNextVictim'
  <2>1. /\ clock' = c /\ UNCHANGED <<page_id, pins, second_chance>> /\ ~ dirty'[c]
        /\ pins[c] = 0 /\ ~ second_chance[c]
    BY <1>4 DEF Evict, Evictable
  <2>2. ReassignAsserts'
    BY <1>1, <2>1 DEF ReassignAsserts, Evictable, Mapped
  <2>3. ASSUME NEW g \in Frames, page_id[g] # NoPage, ~ Mapped(g)', g # c
        PROVE  pins[g] = 1 /\ ~ dirty'[g]
    BY <1>1, <1>4, <2>3 DEF StrandedIsNextVictim
  <2>4. page_id[c] # NoPage => page_map'[page_id[c]] = NoFrame
    BY <1>1 DEF TypeOK
  <2>. QED
    BY <2>1, <2>2, <2>3, <2>4 DEF StrandedIsNextVictim, Evictable
<1>10. CleanMatchesDisk'
  <2>. SUFFICES ASSUME ~ faked, NEW g \in Frames, Mapped(g)', ~ dirty'[g]
                PROVE  bytes[g] = disk'[page_id[g]]
    BY DEF CleanMatchesDisk, Evict
  <2>1. g # c /\ Mapped(g) /\ ~ dirty[g]
    BY <1>1, <1>4
  <2>2. page_id[g] # page_id[c] /\ page_id[g] \in PageIds
    BY <1>1, <2>1 DEF Mapped, TypeOK
  <2>. QED
    BY <1>3, <2>1, <2>2 DEF CleanMatchesDisk
<1>11. AppendIsFresh'
  <2>1. \A p \in PageIds : IsNewPage(p)' <=> IsNewPage(p)
    BY DEF Evict, IsNewPage
  <2>2. \A g \in Frames : page_id[g] # NoPage /\ (Mapped(g)' \/ dirty'[g]) => ~ IsNewPage(page_id[g])
    BY <1>1, <1>4 DEF AppendIsFresh
  <2>3. ASSUME NEW p \in PageIds, IsNewPage(p)
        PROVE  disk'[p] = Zero
    BY <1>3, <2>3 DEF AppendIsFresh
  <2>. QED
    BY <2>2, <2>3 DEF AppendIsFresh, Evict, IsNewPage
<1>12. CallSound'
  BY <1>1 DEF CallSound, Evict, TypeOK
<1>. QED
  BY <1>5, <1>6, <1>7, <1>8, <1>9, <1>10, <1>11, <1>12

(* flush throws: the victim is out of page_map, still dirty.               *)
LEMMA EvictFailsIInv ==
  ASSUME IInv, EvictFails
  PROVE  IInv'
<1>. USE FrameFacts, NoPageAssumption, NoHandleAssumption DEF IInv, frameVars, fileVars
<1>. PICK c \in Frames : c = clock
  BY DEF TypeOK
<1>1. /\ Holders(c) = {}
      /\ page_id[c] # NoPage => page_map[page_id[c]] \in {c, NoFrame}
      /\ ~ Mapped(c)'
      /\ \A g \in Frames \ {c} : Mapped(g)' <=> Mapped(g)
      /\ page_map' \in [PageIds -> Frames \cup {NoFrame}]
      /\ \A p \in PageIds : page_map'[p] = IF p = page_id[c] THEN NoFrame ELSE page_map[p]
  BY VictimFacts DEF EvictFails, Unwind
<1>2. /\ UNCHANGED <<page_id, bytes, pins, second_chance, dirty, clock, ref, disk, file_pages, faked>>
      /\ pins[c] = 0 /\ ~ second_chance[c]
      /\ stage' = "idle" /\ req' = NoHandle /\ req \in Handles
      /\ asked' = [asked EXCEPT ![req] = NoPage]
  BY DEF EvictFails, Unwind, Evictable, CallSound, TypeOK
<1>3. TypeOK'
  BY <1>1, <1>2 DEF TypeOK
<1>4. HandleSound' /\ CallSound'
  <2>1. \A h \in Handles : ref[h] # c
    BY <1>1 DEF Holders
  <2>2. ref[req] = NoFrame
    BY <1>2 DEF CallSound
  <2>3. HandleSound'
    BY <1>1, <1>2, <2>1, <2>2 DEF HandleSound, TypeOK
  <2>4. \A h \in Handles : (asked[h] = NoPage \/ h = req <=> ref[h] = NoFrame)'
    BY <1>2, <2>2 DEF CallSound, TypeOK
  <2>. QED
    BY <1>2, <2>3, <2>4 DEF CallSound
<1>5. MapSound'
  BY <1>1, <1>2 DEF MapSound, TypeOK
<1>6. PinAccounting'
  <2>1. \A g \in Frames : Holders(g)' = Holders(g) /\ Cardinality(Holders(g))' = Cardinality(Holders(g))
    BY <1>2, HoldersSame
  <2>. QED
    BY <1>1, <1>2, <2>1 DEF PinAccounting
<1>7. ReassignAsserts'
  BY <1>2 DEF ReassignAsserts
<1>8. StrandedIsNextVictim'
  <2>1. ASSUME NEW g \in Frames, page_id[g] # NoPage, ~ Mapped(g)', g # c
        PROVE  pins[g] = 1 /\ ~ dirty[g]
    BY <1>1, <2>1 DEF StrandedIsNextVictim
  <2>2. page_id[c] # NoPage => page_map'[page_id[c]] = NoFrame
    BY <1>1 DEF TypeOK
  <2>. QED
    BY <1>2, <2>1, <2>2 DEF StrandedIsNextVictim, Evictable
<1>9. CleanMatchesDisk' /\ AppendIsFresh'
  BY <1>1, <1>2 DEF CleanMatchesDisk, AppendIsFresh, IsNewPage
<1>. QED
  BY <1>3, <1>4, <1>5, <1>6, <1>7, <1>8, <1>9

(* The frame get_page took is reassigned and read.                         *)
LEMMA LoadIInv ==
  ASSUME IInv, Load
  PROVE  IInv'
<1>. USE FrameFacts, NoPageAssumption, NoHandleAssumption DEF IInv
<1>. PICK c \in Frames : c = clock
  BY DEF TypeOK
<1>1. req \in Handles /\ ref[req] = NoFrame /\ asked[req] # NoPage
  BY DEF Load, CallSound, TypeOK
<1>. PICK p \in PageIds : p = asked[req]
  BY <1>1 DEF TypeOK
<1>2. /\ page_id' = [page_id EXCEPT ![c] = p]
      /\ pins' = [pins EXCEPT ![c] = 1]
      /\ second_chance' = [second_chance EXCEPT ![c] = TRUE]
      /\ bytes' = [bytes EXCEPT ![c] = IF IsNewPage(p) THEN Zero ELSE disk[p]]
      /\ file_pages' = Extended(p)
      /\ page_map' = [page_map EXCEPT ![p] = c]
      /\ ref' = [ref EXCEPT ![req] = c]
      /\ stage' = "idle" /\ req' = NoHandle
      /\ UNCHANGED <<dirty, clock, asked, disk, faked>>
  BY DEF Load, Reassign
<1>3. page_map[p] = NoFrame /\ pins[c] = 0 /\ ~ dirty[c] /\ ~ Mapped(c)
  BY <1>1 DEF CallSound, ReassignAsserts, Evictable, Load
<1>4. Mapped(c)' /\ \A g \in Frames \ {c} : Mapped(g)' <=> Mapped(g)
  BY <1>2, <1>3 DEF Mapped, TypeOK
<1>5. TypeOK'
  <2>1. file_pages' \in [Files -> 0 .. MaxPages]
    BY <1>2, ExtendedType
  <2>2. bytes' \in [Frames -> Content]
    BY <1>2, ZeroAssumption DEF TypeOK
  <2>. QED
    BY <1>1, <1>2, <2>1, <2>2 DEF TypeOK
<1>6. HandleSound' /\ MapSound'
  <2>1. MapSound'
    BY <1>2, <1>3 DEF MapSound, TypeOK, Mapped
  <2>2. ASSUME NEW h \in Handles, ref'[h] # NoFrame
        PROVE  asked[h] # NoPage /\ page_map'[asked[h]] = ref'[h]
    <3>1. CASE h = req
      BY <1>1, <1>2, <3>1 DEF TypeOK
    <3>2. CASE h # req
      <4>1. ref[h] # NoFrame /\ ref'[h] = ref[h]
        BY <1>2, <2>2, <3>2 DEF TypeOK
      <4>2. asked[h] # p
        BY <1>3, <4>1 DEF HandleSound
      <4>. QED
        BY <1>2, <4>1, <4>2 DEF HandleSound, TypeOK
    <3>. QED
      BY <3>1, <3>2
  <2>. QED
    BY <1>2, <2>1, <2>2 DEF HandleSound
<1>7. PinAccounting'
  <2>1. /\ Cardinality(Holders(c))' = Cardinality(Holders(c)) + 1
        /\ \A g \in Frames \ {c} : Holders(g)' = Holders(g)
    BY <1>1, <1>2, HoldersTake
  <2>2. Holders(c) = {} /\ Cardinality(Holders(c)) = 0
    BY <1>3, FS_EmptySet DEF PinAccounting
  <2>3. ASSUME NEW g \in Frames \ {c}
        PROVE  Cardinality(Holders(g))' = Cardinality(Holders(g)) /\ Holders(g)' = Holders(g)
    BY <2>1
  <2>4. pins'[c] = 1 /\ \A g \in Frames \ {c} : pins'[g] = pins[g]
    BY <1>2 DEF TypeOK
  <2>. QED
    BY <1>4, <2>1, <2>2, <2>3, <2>4 DEF PinAccounting
<1>8. ReassignAsserts'
  BY <1>2 DEF ReassignAsserts
<1>9. StrandedIsNextVictim'
  <2>. SUFFICES ASSUME NEW g \in Frames, (page_id[g] # NoPage /\ ~ Mapped(g))'
                PROVE  pins'[g] = 1 /\ ~ dirty'[g]
    BY DEF StrandedIsNextVictim
  <2>1. g # c
    BY <1>4
  <2>2. page_id[g] # NoPage /\ ~ Mapped(g)
    BY <1>2, <1>4, <2>1 DEF TypeOK
  <2>. QED
    BY <1>2, <2>1, <2>2 DEF StrandedIsNextVictim, TypeOK
<1>10. CleanMatchesDisk'
  <2>. SUFFICES ASSUME ~ faked, NEW g \in Frames, Mapped(g)', ~ dirty[g]
                PROVE  bytes'[g] = disk[page_id'[g]]
    BY <1>2 DEF CleanMatchesDisk
  <2>1. CASE g = c
    BY <1>2, <2>1 DEF AppendIsFresh, TypeOK
  <2>2. CASE g # c
    BY <1>2, <1>4, <2>2 DEF CleanMatchesDisk, TypeOK
  <2>. QED
    BY <2>1, <2>2
<1>11. AppendIsFresh'
  <2>1. \A q \in PageIds : IsNewPage(q)' => IsNewPage(q)
    BY <1>2, ExtendedType DEF IsNewPage
  <2>2. ~ IsNewPage(p)'
    BY <1>2, ExtendedType DEF IsNewPage
  <2>3. ASSUME NEW g \in Frames, page_id'[g] # NoPage, Mapped(g)' \/ dirty[g]
        PROVE  (~ IsNewPage(page_id[g]))'
    <3>1. CASE g = c
      <4>1. page_id'[g] = p
        BY <1>2, <3>1 DEF TypeOK
      <4>. QED
        BY <2>2, <4>1 DEF IsNewPage
    <3>2. CASE g # c
      <4>1. page_id'[g] = page_id[g] /\ page_id[g] \in PageIds /\ ~ IsNewPage(page_id[g])
        BY <1>2, <1>4, <2>3, <3>2 DEF TypeOK, AppendIsFresh
      <4>2. ~ (Extended(p)[page_id[g][1]] <= page_id[g][2])
        BY <4>1, ExtendedType
      <4>. QED
        BY <1>2, <4>1, <4>2 DEF IsNewPage
    <3>. QED
      BY <3>1, <3>2
  <2>. QED
    <3>1. ASSUME NEW q \in PageIds, IsNewPage(q)'
          PROVE  disk'[q] = Zero
      BY <1>2, <2>1, <3>1 DEF AppendIsFresh
    <3>2. UNCHANGED <<dirty, disk>>
      BY <1>2
    <3>. QED
      BY <2>3, <3>1, <3>2 DEF AppendIsFresh, IsNewPage
<1>12. CallSound'
  <2>1. \A h \in Handles : (asked[h] = NoPage \/ h = req <=> ref[h] = NoFrame)'
    BY <1>1, <1>2 DEF CallSound, TypeOK
  <2>. QED
    BY <1>2, <2>1 DEF CallSound
<1>. QED
  BY <1>5, <1>6, <1>7, <1>8, <1>9, <1>10, <1>11, <1>12

(* ftruncate or read fails: the frame is reassigned and keeps its pin.     *)
LEMMA LoadFailsIInv ==
  ASSUME IInv, LoadFails
  PROVE  IInv'
<1>. USE FrameFacts, NoPageAssumption, NoHandleAssumption DEF IInv
<1>. PICK c \in Frames : c = clock
  BY DEF TypeOK
<1>1. req \in Handles /\ ref[req] = NoFrame /\ asked[req] # NoPage
  BY DEF LoadFails, CallSound, TypeOK
<1>. PICK p \in PageIds : p = asked[req]
  BY <1>1 DEF TypeOK
<1>2. /\ page_id' = [page_id EXCEPT ![c] = p]
      /\ pins' = [pins EXCEPT ![c] = 1]
      /\ second_chance' = [second_chance EXCEPT ![c] = TRUE]
      /\ bytes' = [bytes EXCEPT ![c] = IF IsNewPage(p) THEN Zero ELSE @]
      /\ asked' = [asked EXCEPT ![req] = NoPage]
      /\ stage' = "idle" /\ req' = NoHandle
      /\ UNCHANGED <<dirty, page_map, clock, ref, disk, file_pages, faked>>
  BY DEF LoadFails, Reassign, Unwind, fileVars
<1>3. page_map[p] = NoFrame /\ pins[c] = 0 /\ ~ dirty[c] /\ ~ Mapped(c)
  BY <1>1 DEF CallSound, ReassignAsserts, Evictable, LoadFails
<1>4. ~ Mapped(c)' /\ \A g \in Frames \ {c} : Mapped(g)' <=> Mapped(g)
  BY <1>2, <1>3 DEF Mapped, TypeOK
<1>5. TypeOK'
  BY <1>1, <1>2, ZeroAssumption DEF TypeOK
<1>6. HandleSound' /\ MapSound' /\ ReassignAsserts'
  <2>1. MapSound'
    BY <1>2, <1>3 DEF MapSound, TypeOK, Mapped
  <2>. QED
    BY <1>1, <1>2, <2>1 DEF HandleSound, ReassignAsserts, TypeOK
<1>7. PinAccounting'
  <2>1. \A g \in Frames : Holders(g)' = Holders(g) /\ Cardinality(Holders(g))' = Cardinality(Holders(g))
    BY <1>2, HoldersSame
  <2>2. pins'[c] = 1 /\ \A g \in Frames \ {c} : pins'[g] = pins[g]
    BY <1>2 DEF TypeOK
  <2>. QED
    BY <1>3, <1>4, <2>1, <2>2 DEF PinAccounting
<1>8. StrandedIsNextVictim'
  <2>. SUFFICES ASSUME NEW g \in Frames, (page_id[g] # NoPage /\ ~ Mapped(g))'
                PROVE  pins'[g] = 1 /\ ~ dirty'[g]
    BY DEF StrandedIsNextVictim
  <2>1. CASE g = c
    BY <1>2, <1>3, <2>1 DEF TypeOK
  <2>2. CASE g # c
    <3>1. page_id[g] # NoPage /\ ~ Mapped(g)
      BY <1>2, <1>4, <2>2 DEF TypeOK
    <3>. QED
      BY <1>2, <2>2, <3>1 DEF StrandedIsNextVictim, TypeOK
  <2>. QED
    BY <2>1, <2>2
<1>9. CleanMatchesDisk' /\ AppendIsFresh'
  BY <1>2, <1>3, <1>4 DEF CleanMatchesDisk, AppendIsFresh, IsNewPage, TypeOK
<1>10. CallSound'
  <2>1. \A h \in Handles : (asked[h] = NoPage \/ h = req <=> ref[h] = NoFrame)'
    BY <1>1, <1>2 DEF CallSound, TypeOK
  <2>. QED
    BY <1>2, <2>1 DEF CallSound
<1>. QED
  BY <1>5, <1>6, <1>7, <1>8, <1>9, <1>10

(* A write through a Page&: the page becomes dirty.                        *)
LEMMA WriteIInv ==
  ASSUME IInv, NEW h \in Handles, NEW x \in Content, Write(h, x)
  PROVE  IInv'
<1>. USE FrameFacts, NoPageAssumption, NoHandleAssumption DEF IInv
<1>. PICK f \in Frames : f = ref[h]
  BY DEF Write, TypeOK
<1>1. /\ bytes' = [bytes EXCEPT ![f] = x]
      /\ dirty' = [dirty EXCEPT ![f] = TRUE]
      /\ UNCHANGED <<page_id, pins, second_chance, page_map, clock, stage, req, asked, ref,
                      disk, file_pages, faked>>
      /\ stage = "idle"
  BY DEF Write, callVars, handleVars, fileVars
<1>2. Mapped(f) /\ page_id[f] \in PageIds
  BY DEF Write, HandleSound, MapSound, TypeOK, Mapped
<1>3. \A g \in Frames : Mapped(g)' <=> Mapped(g)
  BY <1>1 DEF Mapped
<1>4. TypeOK'
  BY <1>1 DEF TypeOK
<1>5. HandleSound' /\ MapSound' /\ CallSound' /\ ReassignAsserts'
  BY <1>1 DEF HandleSound, MapSound, CallSound, ReassignAsserts
<1>6. PinAccounting'
  BY <1>1, <1>3, HoldersSame DEF PinAccounting
<1>7. StrandedIsNextVictim'
  BY <1>1, <1>2, <1>3 DEF StrandedIsNextVictim, Evictable, TypeOK
<1>8. CleanMatchesDisk'
  BY <1>1, <1>2, <1>3 DEF CleanMatchesDisk, TypeOK
<1>9. AppendIsFresh'
  BY <1>1, <1>2, <1>3 DEF AppendIsFresh, IsNewPage, TypeOK
<1>. QED
  BY <1>4, <1>5, <1>6, <1>7, <1>8, <1>9

(* A destructor releases its page.                                         *)
LEMMA UnpinIInv ==
  ASSUME IInv, NEW h \in Handles, Unpin(h)
  PROVE  IInv'
<1>. USE FrameFacts, NoPageAssumption, NoHandleAssumption DEF IInv
<1>. PICK f \in Frames : f = ref[h]
  BY DEF Unpin, TypeOK
<1>1. /\ pins' = [pins EXCEPT ![f] = @ - 1]
      /\ ref' = [ref EXCEPT ![h] = NoFrame]
      /\ asked' = [asked EXCEPT ![h] = NoPage]
      /\ UNCHANGED <<page_id, bytes, second_chance, dirty, page_map, clock, stage, req,
                      disk, file_pages, faked>>
      /\ stage = "idle"
  BY DEF Unpin, callVars, fileVars
<1>2. Mapped(f) /\ page_id[f] \in PageIds
  BY DEF Unpin, HandleSound, MapSound, TypeOK, Mapped
<1>3. \A g \in Frames : Mapped(g)' <=> Mapped(g)
  BY <1>1 DEF Mapped
<1>4. /\ Cardinality(Holders(f))' = Cardinality(Holders(f)) - 1
      /\ \A g \in Frames \ {f} : Holders(g)' = Holders(g)
  BY <1>1, HoldersRelease
<1>5. pins'[f] = Cardinality(Holders(f))' /\ \A g \in Frames \ {f} : pins'[g] = pins[g]
  BY <1>1, <1>2, <1>4 DEF PinAccounting, TypeOK
<1>6. TypeOK'
  <2>1. pins'[f] \in Nat
    <3>1. Cardinality(Holders(f)') \in Nat
      <4>1. Holders(f)' \subseteq Handles
        BY DEF Holders
      <4>. QED
        BY <4>1, FS_Subset, FS_CardinalityType, HandlesAssumption
    <3>. QED
      BY <1>5, <3>1
  <2>2. pins' \in [Frames -> Nat]
    BY <1>1, <2>1 DEF TypeOK
  <2>. QED
    BY <1>1, <2>2 DEF TypeOK
<1>7. HandleSound' /\ MapSound' /\ ReassignAsserts'
  BY <1>1 DEF HandleSound, MapSound, ReassignAsserts, TypeOK
<1>8. CallSound'
  <2>1. req = NoHandle
    BY <1>1 DEF CallSound
  <2>2. \A k \in Handles : (asked[k] = NoPage \/ k = req <=> ref[k] = NoFrame)'
    BY <1>1, <2>1 DEF CallSound, TypeOK
  <2>. QED
    BY <1>1, <2>1, <2>2 DEF CallSound
<1>9. PinAccounting'
  <2>1. ASSUME NEW g \in Frames \ {f}
        PROVE  Cardinality(Holders(g))' = Cardinality(Holders(g)) /\ Holders(g)' = Holders(g)
    BY <1>4
  <2>. QED
    BY <1>2, <1>3, <1>4, <1>5, <2>1 DEF PinAccounting
<1>10. StrandedIsNextVictim'
  BY <1>1, <1>2, <1>3 DEF StrandedIsNextVictim, Evictable, TypeOK
<1>11. CleanMatchesDisk' /\ AppendIsFresh'
  BY <1>1, <1>3 DEF CleanMatchesDisk, AppendIsFresh, IsNewPage
<1>. QED
  BY <1>6, <1>7, <1>8, <1>9, <1>10, <1>11

(* flush(), up to a write that fails.                                      *)
LEMMA FlushIInv ==
  ASSUME IInv, NEW n \in 0 .. FrameCount, Flush(n)
  PROVE  IInv'
<1>. USE FrameFacts, NoPageAssumption DEF IInv
<1>. DEFINE F == 0 .. n - 1
<1>1. F \subseteq Frames
  BY FrameCountAssumption DEF Frames
<1>. HIDE DEF F
<1>2. /\ disk' = Flushed(F) /\ dirty' = Clean(F)
      /\ UNCHANGED <<page_id, bytes, pins, second_chance, page_map, clock, stage, req, asked, ref,
                      file_pages, faked>>
      /\ stage = "idle"
  BY DEF Flush, callVars, handleVars, F
<1>3. disk' \in [PageIds -> Content] /\ dirty' \in [Frames -> BOOLEAN]
  BY <1>1, <1>2, FlushedType
<1>4. \A g \in Frames : Mapped(g)' <=> Mapped(g)
  BY <1>2 DEF Mapped
<1>5. \A g \in Frames : dirty'[g] <=> dirty[g] /\ g \notin F
  BY <1>2 DEF Clean
<1>6. TypeOK'
  BY <1>2, <1>3 DEF TypeOK
<1>7. HandleSound' /\ MapSound' /\ CallSound' /\ ReassignAsserts'
  BY <1>2 DEF HandleSound, MapSound, CallSound, ReassignAsserts
<1>8. PinAccounting'
  BY <1>2, <1>4, HoldersSame DEF PinAccounting
<1>9. StrandedIsNextVictim'
  BY <1>2, <1>4, <1>5 DEF StrandedIsNextVictim, Evictable
<1>10. CleanMatchesDisk'
  <2>. SUFFICES ASSUME ~ faked, NEW g \in Frames, Mapped(g), ~ dirty'[g]
                PROVE  bytes[g] = disk'[page_id[g]]
    BY <1>2, <1>4 DEF CleanMatchesDisk
  <2>1. page_id[g] \in PageIds
    BY DEF Mapped, TypeOK
  <2>2. CASE dirty[g]
    BY <1>1, <1>2, <1>5, <2>1, <2>2, FlushedAt
  <2>3. CASE ~ dirty[g]
    <3>1. ASSUME NEW k \in Frames, dirty[k], page_id[k] = page_id[g]
          PROVE  FALSE
      <4>1. k # g /\ ~ Mapped(k)
        BY <2>3, <3>1 DEF Mapped
      <4>2. page_map[page_id[k]] = NoFrame
        BY <2>1, <3>1, <4>1 DEF StrandedIsNextVictim
      <4>. QED
        BY <3>1, <4>2 DEF Mapped
    <3>2. disk'[page_id[g]] = disk[page_id[g]]
      BY <1>1, <1>2, <2>1, <3>1, FlushedAt
    <3>. QED
      BY <2>3, <3>2 DEF CleanMatchesDisk
  <2>. QED
    BY <2>2, <2>3
<1>11. AppendIsFresh'
  <2>1. ASSUME NEW p \in PageIds, IsNewPage(p)
        PROVE  disk'[p] = Zero
    <3>1. \A g \in F : ~ (dirty[g] /\ page_id[g] = p)
      BY <1>1, <2>1 DEF AppendIsFresh
    <3>. QED
      BY <1>1, <1>2, <2>1, <3>1, FlushedAt DEF AppendIsFresh
  <2>2. \A g \in Frames : page_id[g] # NoPage /\ (Mapped(g) \/ dirty'[g]) => ~ IsNewPage(page_id[g])
    BY <1>5 DEF AppendIsFresh
  <2>. QED
    BY <1>2, <1>4, <2>1, <2>2 DEF AppendIsFresh, IsNewPage
<1>. QED
  BY <1>6, <1>7, <1>8, <1>9, <1>10, <1>11

(* fake_flush drops every dirty flag.                                      *)
LEMMA FakeFlushIInv ==
  ASSUME IInv, FakeFlush
  PROVE  IInv'
<1>. USE FrameFacts, NoPageAssumption DEF IInv, Start
<1>1. /\ dirty' = [f \in Frames |-> FALSE] /\ faked' = TRUE
      /\ UNCHANGED <<page_id, bytes, pins, second_chance, page_map, clock, stage, req, asked, ref,
                      disk, file_pages>>
      /\ stage = "idle"
  BY DEF FakeFlush, callVars, handleVars, fileVars
<1>2. \A g \in Frames : Mapped(g)' <=> Mapped(g)
  BY <1>1 DEF Mapped
<1>3. TypeOK'
  BY <1>1 DEF TypeOK
<1>4. HandleSound' /\ MapSound' /\ CallSound' /\ ReassignAsserts'
  BY <1>1 DEF HandleSound, MapSound, CallSound, ReassignAsserts
<1>5. PinAccounting'
  BY <1>1, <1>2, HoldersSame DEF PinAccounting
<1>6. StrandedIsNextVictim'
  BY <1>1, <1>2 DEF StrandedIsNextVictim, Evictable
<1>7. CleanMatchesDisk' /\ AppendIsFresh'
  BY <1>1, <1>2 DEF CleanMatchesDisk, AppendIsFresh, IsNewPage
<1>. QED
  BY <1>3, <1>4, <1>5, <1>6, <1>7

(* A new process: whatever is on disk, the frames are empty.               *)
LEMMA NewProcessIInv ==
  ASSUME TypeOK, NewProcess, disk' \in [PageIds -> Content],
         \A p \in PageIds : IsNewPage(p) => disk'[p] = Zero
  PROVE  IInv'
<1>. USE FrameFacts, ZeroAssumption, NoHandleAssumption DEF NewProcess, Start
<1>1. TypeOK'
  BY DEF TypeOK
<1>2. \A f \in Frames : Holders(f)' = {}
  BY DEF Holders
<1>3. \A f \in Frames : ~ Mapped(f)' /\ page_id'[f] = NoPage
  BY DEF Mapped
<1>4. PinAccounting'
  BY <1>2, <1>3 DEF PinAccounting
<1>5. HandleSound' /\ MapSound' /\ ReassignAsserts' /\ StrandedIsNextVictim'
  BY <1>3 DEF HandleSound, MapSound, ReassignAsserts, StrandedIsNextVictim
<1>6. CleanMatchesDisk' /\ AppendIsFresh'
  BY <1>3 DEF CleanMatchesDisk, AppendIsFresh, IsNewPage
<1>7. CallSound'
  BY DEF CallSound
<1>. QED
  BY <1>1, <1>4, <1>5, <1>6, <1>7 DEF IInv

(* An orderly end, and the next process.                                   *)
LEMMA ShutdownIInv ==
  ASSUME IInv, Shutdown
  PROVE  IInv'
<1>1. TypeOK /\ NewProcess /\ disk' = Flushed(Frames)
  BY DEF IInv, Shutdown
<1>2. disk' \in [PageIds -> Content]
  BY <1>1, FlushedType
<1>3. ASSUME NEW p \in PageIds, IsNewPage(p)
      PROVE  disk'[p] = Zero
  <2>1. \A g \in Frames : ~ (dirty[g] /\ page_id[g] = p)
    BY <1>3, NoPageAssumption DEF IInv, AppendIsFresh
  <2>. QED
    BY <1>1, <1>3, <2>1, FlushedAt DEF IInv, AppendIsFresh
<1>. QED
  BY <1>1, <1>2, <1>3, NewProcessIInv

(* The process dies; the next one finds the files as they are.             *)
LEMMA CrashIInv ==
  ASSUME IInv, Crash
  PROVE  IInv'
BY NewProcessIInv DEF IInv, Crash, TypeOK, AppendIsFresh

(* Every step preserves the invariant.                                     *)
LEMMA NextIInv == IInv /\ [Next]_vars => IInv'
<1>. SUFFICES ASSUME IInv, [Next]_vars PROVE IInv'
  OBVIOUS
<1>1. ASSUME NEW h \in Handles, NEW p \in PageIds, GetPage(h, p)
      PROVE  IInv'
  BY <1>1, HitIInv, MissIInv DEF GetPage
<1>2. ASSUME NEW h \in Handles, NEW f \in Files, AppendPage(h, f)
      PROVE  IInv'
  <2>1. <<f, file_pages[f]>> \in PageIds
    BY <1>2, MaxPagesAssumption DEF AppendPage, PageIds, IInv, TypeOK
  <2>. QED
    BY <1>1, <1>2, <2>1 DEF AppendPage
<1>3. CASE Advance
  BY <1>3, AdvanceIInv
<1>4. CASE Evict
  BY <1>4, EvictIInv
<1>5. CASE EvictFails
  BY <1>5, EvictFailsIInv
<1>6. CASE Load
  BY <1>6, LoadIInv
<1>7. CASE LoadFails
  BY <1>7, LoadFailsIInv
<1>8. ASSUME NEW h \in Handles, NEW x \in Content, Write(h, x)
      PROVE  IInv'
  BY <1>8, WriteIInv
<1>9. ASSUME NEW h \in Handles, Unpin(h)
      PROVE  IInv'
  BY <1>9, UnpinIInv
<1>10. ASSUME NEW n \in 0 .. FrameCount, Flush(n)
       PROVE  IInv'
  BY <1>10, FlushIInv
<1>11. CASE FakeFlush
  BY <1>11, FakeFlushIInv
<1>12. CASE Shutdown
  BY <1>12, ShutdownIInv
<1>13. CASE Crash
  BY <1>13, CrashIInv
<1>14. CASE UNCHANGED vars
  <2>. USE <1>14 DEF vars, frameVars, callVars, handleVars, fileVars
  <2>1. \A g \in Frames : /\ Mapped(g)' <=> Mapped(g)
                         /\ Holders(g)' = Holders(g)
                         /\ Cardinality(Holders(g))' = Cardinality(Holders(g))
    BY HoldersSame DEF Mapped
  <2>2. TypeOK' /\ HandleSound' /\ MapSound' /\ CallSound'
    BY DEF IInv, TypeOK, HandleSound, MapSound, CallSound
  <2>3. PinAccounting'
    BY <2>1 DEF IInv, PinAccounting
  <2>4. ReassignAsserts' /\ StrandedIsNextVictim'
    BY DEF IInv, ReassignAsserts, StrandedIsNextVictim, Evictable, Mapped
  <2>5. CleanMatchesDisk' /\ AppendIsFresh'
    BY DEF IInv, CleanMatchesDisk, AppendIsFresh, IsNewPage, Mapped
  <2>. QED
    BY <2>2, <2>3, <2>4, <2>5 DEF IInv
<1>. QED
  BY <1>1, <1>2, <1>3, <1>4, <1>5, <1>6, <1>7, <1>8, <1>9, <1>10, <1>11, <1>12, <1>13, <1>14
     DEF Next

(* The state stays within IInv, so every property it is made of holds.     *)
THEOREM Invariance == Spec => []IInv
<1>. QED
  BY InitIInv, NextIInv, PTL DEF Spec

(* Every variable keeps its shape.                                         *)
THEOREM TypeCorrect == Spec => []TypeOK
BY Invariance, PTL DEF IInv

(* A Page& means the page its object was constructed for until the object  *)
(* unpins it, whatever is evicted and whatever fails in between.           *)
THEOREM HandlesStaySound == Spec => []HandleSound
BY Invariance, PTL DEF IInv

(* The pin count of a page in the buffer is the number of its holders.     *)
THEOREM PinsAreCounted == Spec => []PinAccounting
BY Invariance, PTL DEF IInv

(* Page::reassign finds a clean, unpinned, unmapped frame.                 *)
THEOREM ReassignIsSafe == Spec => []ReassignAsserts
BY Invariance, PTL DEF IInv

(* A dirty page an exception left outside page_map is the next victim, so  *)
(* it is written before any other frame takes its page.                    *)
THEOREM StrandedStaysNextVictim == Spec => []StrandedIsNextVictim
BY Invariance, PTL DEF IInv

(* A clean page in the buffer is what its file holds, but for fake_flush.  *)
THEOREM CleanPagesMatchDisk == Spec => []CleanMatchesDisk
BY Invariance, PTL DEF IInv

(* append_page picks a page nobody has.                                    *)
THEOREM AppendsAreFresh == Spec => []AppendIsFresh
BY Invariance, PTL DEF IInv

-----------------------------------------------------------------------------
(* Where the content of a page is.                                         *)
IsView(p, x) ==
  /\ page_map[p] # NoFrame => x = bytes[page_map[p]]
  /\ \A f \in Frames : page_map[p] = NoFrame /\ dirty[f] /\ page_id[f] = p => x = bytes[f]
  /\ page_map[p] = NoFrame /\ (\A f \in Frames : ~ (dirty[f] /\ page_id[f] = p)) => x = disk[p]

(* The content a handle sees is where IsView says.                         *)
LEMMA ViewAt == IInv => /\ \A p \in PageIds : IsView(p, View[p])
                        /\ View = [p \in PageIds |-> View[p]]
<1>. SUFFICES ASSUME IInv PROVE /\ \A p \in PageIds : IsView(p, View[p])
                               /\ View = [p \in PageIds |-> View[p]]
  OBVIOUS
<1>1. ASSUME NEW p \in PageIds
      PROVE  IsView(p, View[p])
  BY FlushedAt DEF View, IsView
<1>. QED
  BY <1>1 DEF View

(* The same in the next state.                                             *)
LEMMA ViewAtNext == IInv' => /\ \A p \in PageIds : IsView(p, View[p])'
                             /\ View' = [p \in PageIds |-> View'[p]]
<1>1. (IInv => /\ \A p \in PageIds : IsView(p, View[p])
               /\ View = [p \in PageIds |-> View[p]])'
  BY ViewAt, PTL
<1>. QED
  BY <1>1

(* A dirty frame holds the current content of its page.                    *)
LEMMA DirtyView ==
  ASSUME IInv, NEW f \in Frames, dirty[f], NEW p \in PageIds, page_id[f] = p
  PROVE  View[p] = bytes[f]
<1>1. page_map[p] \in {f, NoFrame}
  <2>1. CASE Mapped(f)
    BY <2>1 DEF Mapped
  <2>2. CASE ~ Mapped(f)
    BY <2>2, NoPageAssumption DEF IInv, StrandedIsNextVictim
  <2>. QED
    BY <2>1, <2>2
<1>. QED
  BY <1>1, ViewAt, FrameFacts DEF IsView

(* A page nobody has in the buffer or left unwritten is what its file holds. *)
LEMMA DiskView ==
  ASSUME IInv, NEW p \in PageIds, page_map[p] = NoFrame,
         \A f \in Frames : ~ (dirty[f] /\ page_id[f] = p)
  PROVE  View[p] = disk[p]
BY ViewAt DEF IsView

(* Only what a page contains, and who holds it, is visible.                *)
LEMMA SameView ==
  ASSUME IInv, IInv', UNCHANGED <<Held, disk, file_pages, faked>>,
         \A p \in PageIds : View'[p] = View[p]
  PROVE  UNCHANGED Abstract!storeVars
<1>1. View' = View
  BY ViewAt, ViewAtNext
<1>. QED
  BY <1>1 DEF Abstract!storeVars

(* Initial states map to initial states of the page store.                 *)
LEMMA InitRefines == Init => Abstract!StoreInit
<1>. SUFFICES ASSUME Init PROVE Abstract!StoreInit
  OBVIOUS
<1>1. \A f \in Frames : ~ dirty[f]
  BY DEF Init, Start
<1>2. \A p \in PageIds : Flushed(Frames)[p] = Zero
  BY <1>1 DEF Flushed, Init
<1>3. View = [p \in PageIds |-> Zero]
  BY <1>2 DEF View, Init, Start
<1>4. Held = [h \in Handles |-> NoPage]
  BY DEF Held, Init, Start
<1>. QED
  BY <1>3, <1>4 DEF Abstract!StoreInit, Abstract!PageIds, PageIds, Init

(* A hit opens the page.                                                   *)
LEMMA HitRefines ==
  ASSUME IInv, IInv', NEW h \in Handles, NEW p \in PageIds,
         stage = "idle", ref[h] = NoFrame, Hit(h, p)
  PROVE  Abstract!Open(h, p)
<1>. USE FrameFacts, NoPageAssumption
<1>. PICK f \in Frames : f = page_map[p]
  BY DEF Hit, IInv, TypeOK
<1>1. /\ asked' = [asked EXCEPT ![h] = p]
      /\ ref' = [ref EXCEPT ![h] = f]
      /\ UNCHANGED <<page_id, bytes, dirty, page_map, clock, stage, req, disk, file_pages, faked>>
  BY DEF Hit, callVars, fileVars
<1>2. View' = View
  BY <1>1 DEF View, Flushed
<1>3. Held[h] = NoPage
  BY DEF Held
<1>4. Held' = [Held EXCEPT ![h] = p]
  BY <1>1 DEF Held, IInv, TypeOK
<1>5. ~ IsNewPage(p)
  BY DEF Hit, IInv, MapSound, AppendIsFresh, Mapped
<1>6. file_pages' = [file_pages EXCEPT ![p[1]] = IF @ <= p[2] THEN p[2] + 1 ELSE @]
  BY <1>1, <1>5, PageIdParts DEF IsNewPage, IInv, TypeOK
<1>. QED
  BY <1>1, <1>2, <1>3, <1>4, <1>6 DEF Abstract!Open

(* A miss is not visible yet.                                              *)
LEMMA MissRefines ==
  ASSUME IInv, NEW h \in Handles, NEW p \in PageIds, ref[h] = NoFrame, Miss(h, p)
  PROVE  UNCHANGED Abstract!storeVars
<1>1. View' = View
  BY DEF Miss, frameVars, fileVars, View, Flushed
<1>2. Held' = Held
  BY DEF Miss, Held, IInv, TypeOK
<1>. QED
  BY <1>1, <1>2 DEF Miss, fileVars, Abstract!storeVars

(* A turn of the clock is not visible.                                     *)
LEMMA AdvanceRefines ==
  ASSUME Advance
  PROVE  UNCHANGED Abstract!storeVars
<1>1. View' = View /\ Held' = Held
  BY DEF Advance, callVars, handleVars, fileVars, View, Flushed, Held
<1>. QED
  BY <1>1 DEF Advance, fileVars, Abstract!storeVars

(* An eviction makes its page durable; after fake_flush it may drop it.    *)
LEMMA EvictRefines ==
  ASSUME IInv, IInv', Evict
  PROVE  [Abstract!StoreNext]_Abstract!storeVars
<1>. USE FrameFacts, NoPageAssumption
<1>. PICK c \in Frames : c = clock
  BY DEF IInv, TypeOK
<1>1. /\ Holders(c) = {}
      /\ page_id[c] # NoPage => page_map[page_id[c]] \in {c, NoFrame}
      /\ \A p \in PageIds : page_map'[p] = IF p = page_id[c] THEN NoFrame ELSE page_map[p]
  BY VictimFacts DEF Evict, handleVars
<1>2. /\ \A g \in Frames : dirty'[g] <=> dirty[g] /\ g # c
      /\ UNCHANGED <<page_id, bytes, asked, ref, file_pages, faked>>
      /\ Held' = Held
  BY DEF Evict, Clean, Held, handleVars
<1>3. \A p \in PageIds : disk'[p] = IF dirty[c] /\ page_id[c] = p THEN bytes[c] ELSE disk[p]
  BY FlushedOne DEF Evict, IInv
<1>4. ASSUME NEW p \in PageIds, p # page_id[c]
      PROVE  View'[p] = View[p] /\ disk'[p] = disk[p]
  <2>1. disk'[p] = disk[p] /\ page_map'[p] = page_map[p]
    BY <1>1, <1>3, <1>4
  <2>2. \A g \in Frames : dirty'[g] /\ page_id[g] = p <=> dirty[g] /\ page_id[g] = p
    BY <1>2, <1>4
  <2>3. IsView(p, View[p]) /\ IsView(p, View[p])'
    BY ViewAt, ViewAtNext
  <2>4. page_map[p] # NoFrame \/ (\E g \in Frames : dirty[g] /\ page_id[g] = p)
          \/ (\A g \in Frames : ~ (dirty[g] /\ page_id[g] = p))
    OBVIOUS
  <2>. QED
    BY <1>2, <2>1, <2>2, <2>3, <2>4 DEF IsView
<1>5. CASE page_id[c] = NoPage
  <2>1. disk' = disk
    BY <1>4, <1>5 DEF IInv, TypeOK
  <2>. QED
    BY <1>2, <1>4, <1>5, <2>1, SameView
<1>. SUFFICES ASSUME NEW q \in PageIds, q = page_id[c]
              PROVE  [Abstract!StoreNext]_Abstract!storeVars
  BY <1>5 DEF IInv, TypeOK
<1>6. View'[q] = disk'[q]
  <2>1. \A g \in Frames : ~ (dirty'[g] /\ page_id[g] = q)
    BY <1>1, <1>2 DEF IInv, StrandedIsNextVictim, Mapped
  <2>. QED
    BY <1>1, <1>2, <2>1, ViewAtNext DEF IsView
<1>7. CASE dirty[c]
  <2>1. disk'[q] = View[q]
    BY <1>3, <1>7, DirtyView
  <2>2. View' = View
    BY <1>4, <1>6, <2>1, ViewAt, ViewAtNext
  <2>3. disk' = [p \in PageIds |-> IF p \in {q} THEN View[p] ELSE disk[p]]
    BY <1>4, <2>1 DEF IInv, TypeOK
  <2>4. Abstract!WriteBack({q})
    BY <1>2, <2>2, <2>3 DEF Abstract!WriteBack, Abstract!PageIds, PageIds
  <2>. QED
    BY <2>4 DEF Abstract!StoreNext, Abstract!PageIds, PageIds
<1>8. CASE ~ dirty[c] /\ faked
  <2>1. disk' = disk
    BY <1>3, <1>8 DEF IInv, TypeOK
  <2>2. View' = [p \in PageIds |-> IF p \in {q} THEN disk[p] ELSE View[p]]
    BY <1>4, <1>6, <2>1, ViewAtNext
  <2>3. ~ \E h \in Handles : Held[h] = q
    BY <1>1 DEF Held, Holders, IInv, HandleSound, TypeOK
  <2>4. Abstract!FallBack({q})
    BY <1>2, <1>8, <2>1, <2>2, <2>3
       DEF Abstract!FallBack, Abstract!FallenBack, Abstract!IsHeld, Abstract!PageIds, PageIds
  <2>. QED
    BY <2>4 DEF Abstract!StoreNext, Abstract!PageIds, PageIds
<1>9. CASE ~ dirty[c] /\ ~ faked
  <2>1. disk' = disk
    BY <1>3, <1>9 DEF IInv, TypeOK
  <2>2. View[q] = disk[q]
    <3>1. CASE page_map[q] = c
      BY <1>9, <3>1, ViewAt DEF IsView, IInv, CleanMatchesDisk, Mapped
    <3>2. CASE page_map[q] = NoFrame
      <4>1. \A g \in Frames : ~ (dirty[g] /\ page_id[g] = q)
        BY <1>9, <3>2 DEF IInv, StrandedIsNextVictim, Mapped
      <4>. QED
        BY <3>2, <4>1, DiskView
    <3>. QED
      BY <1>1, <3>1, <3>2
  <2>. QED
    BY <1>2, <1>4, <1>6, <2>1, <2>2, SameView
<1>. QED
  BY <1>7, <1>8, <1>9

(* A failed write loses nothing: the content stays in the frame.           *)
LEMMA EvictFailsRefines ==
  ASSUME IInv, IInv', EvictFails
  PROVE  UNCHANGED Abstract!storeVars
<1>. USE FrameFacts, NoPageAssumption
<1>. PICK c \in Frames : c = clock
  BY DEF IInv, TypeOK
<1>1. \A p \in PageIds : page_map'[p] = IF p = page_id[c] THEN NoFrame ELSE page_map[p]
  BY VictimFacts DEF EvictFails, Unwind, frameVars
<1>2. /\ UNCHANGED <<page_id, bytes, dirty, ref, disk, file_pages, faked>>
      /\ dirty[c]
      /\ asked' = [asked EXCEPT ![req] = NoPage]
  BY DEF EvictFails, Unwind, frameVars, fileVars
<1>3. Held' = Held
  <2>1. req \in Handles /\ ref[req] = NoFrame
    BY DEF EvictFails, IInv, CallSound, TypeOK
  <2>. QED
    BY <1>2, <2>1 DEF Held, IInv, TypeOK
<1>4. ASSUME NEW p \in PageIds
      PROVE  View'[p] = View[p]
  <2>1. CASE p = page_id[c]
    BY <1>1, <1>2, <2>1, DirtyView, ViewAtNext DEF IsView
  <2>2. CASE p # page_id[c]
    <3>1. page_map'[p] = page_map[p]
      BY <1>1, <2>2
    <3>2. IsView(p, View[p]) /\ IsView(p, View[p])'
      BY ViewAt, ViewAtNext
    <3>. QED
      BY <1>2, <3>1, <3>2 DEF IsView
  <2>. QED
    BY <2>1, <2>2
<1>. QED
  BY <1>2, <1>3, <1>4, SameView

(* A load opens the page with the content it has.                          *)
LEMMA LoadRefines ==
  ASSUME IInv, IInv', Load
  PROVE  Abstract!Open(req, asked[req])
<1>. USE FrameFacts, NoPageAssumption
<1>. PICK c \in Frames : c = clock
  BY DEF IInv, TypeOK
<1>1. req \in Handles /\ ref[req] = NoFrame /\ asked[req] # NoPage
  BY DEF Load, IInv, CallSound, TypeOK
<1>. PICK p \in PageIds : p = asked[req]
  BY <1>1 DEF IInv, TypeOK
<1>2. /\ page_id' = [page_id EXCEPT ![c] = p]
      /\ bytes' = [bytes EXCEPT ![c] = IF IsNewPage(p) THEN Zero ELSE disk[p]]
      /\ file_pages' = Extended(p)
      /\ page_map' = [page_map EXCEPT ![p] = c]
      /\ ref' = [ref EXCEPT ![req] = c]
      /\ UNCHANGED <<dirty, asked, disk, faked>>
  BY DEF Load, Reassign
<1>3. page_map[p] = NoFrame /\ ~ dirty[c] /\ ~ Mapped(c)
  BY <1>1 DEF IInv, CallSound, ReassignAsserts, Load
<1>4. Held[req] = NoPage /\ Held' = [Held EXCEPT ![req] = p]
  <2>1. \A h \in Handles : ref'[h] = IF h = req THEN c ELSE ref[h]
    BY <1>1, <1>2 DEF IInv, TypeOK
  <2>2. Held' = [h \in Handles |-> IF h = req THEN p ELSE Held[h]]
    BY <1>2, <2>1 DEF Held
  <2>. QED
    BY <1>1, <2>2 DEF Held
<1>5. ASSUME NEW q \in PageIds
      PROVE  View'[q] = View[q]
  <2>1. IsView(q, View[q]) /\ IsView(q, View[q])'
    BY ViewAt, ViewAtNext
  <2>2. CASE q = p
    <3>1. \A g \in Frames : ~ (dirty[g] /\ page_id[g] = p)
      BY <1>3 DEF IInv, StrandedIsNextVictim, Mapped
    <3>2. View[p] = disk[p]
      BY <1>3, <3>1, DiskView
    <3>3. View'[p] = bytes'[c]
      BY <1>2, <2>1, <2>2 DEF IsView, IInv, TypeOK
    <3>4. bytes'[c] = disk[p]
      BY <1>2 DEF IInv, AppendIsFresh, TypeOK
    <3>. QED
      BY <2>2, <3>2, <3>3, <3>4
  <2>3. CASE q # p
    <3>1. page_map'[q] = page_map[q]
      BY <1>2, <2>3 DEF IInv, TypeOK
    <3>2. page_map[q] # NoFrame => page_map[q] \in Frames \ {c}
      BY <1>3 DEF IInv, TypeOK, MapSound, Mapped
    <3>3. \A g \in Frames : dirty[g] => page_id'[g] = page_id[g] /\ bytes'[g] = bytes[g]
      BY <1>2, <1>3 DEF IInv, TypeOK
    <3>4. CASE page_map[q] # NoFrame
      BY <1>2, <2>1, <3>1, <3>2, <3>4 DEF IsView, IInv, TypeOK
    <3>5. CASE page_map[q] = NoFrame
      BY <1>2, <2>1, <3>1, <3>3, <3>5 DEF IsView
    <3>. QED
      BY <3>4, <3>5
  <2>. QED
    BY <2>2, <2>3
<1>6. View' = View
  BY <1>5, ViewAt, ViewAtNext
<1>. QED
  BY <1>2, <1>4, <1>6 DEF Abstract!Open, Extended

(* A failed read is not visible to the clients.                            *)
LEMMA LoadFailsRefines ==
  ASSUME IInv, IInv', LoadFails
  PROVE  UNCHANGED Abstract!storeVars
<1>. USE FrameFacts, NoPageAssumption
<1>. PICK c \in Frames : c = clock
  BY DEF IInv, TypeOK
<1>1. req \in Handles /\ ref[req] = NoFrame
  BY DEF LoadFails, IInv, CallSound, TypeOK
<1>2. /\ page_id' = [page_id EXCEPT ![c] = asked[req]]
      /\ \E x : bytes' = [bytes EXCEPT ![c] = x]
      /\ asked' = [asked EXCEPT ![req] = NoPage]
      /\ UNCHANGED <<dirty, page_map, ref, disk, file_pages, faked>>
  BY DEF LoadFails, Reassign, Unwind, fileVars
<1>3. ~ dirty[c] /\ ~ Mapped(c)
  BY DEF IInv, ReassignAsserts, LoadFails
<1>4. Held' = Held
  BY <1>1, <1>2 DEF Held, IInv, TypeOK
<1>5. ASSUME NEW q \in PageIds
      PROVE  View'[q] = View[q]
  <2>1. IsView(q, View[q]) /\ IsView(q, View[q])'
    BY ViewAt, ViewAtNext
  <2>2. page_map[q] # NoFrame => page_map[q] \in Frames \ {c}
    BY <1>3 DEF IInv, TypeOK, MapSound, Mapped
  <2>3. \A g \in Frames \ {c} : page_id'[g] = page_id[g] /\ bytes'[g] = bytes[g]
    BY <1>2 DEF IInv, TypeOK
  <2>. QED
    BY <1>2, <1>3, <2>1, <2>2, <2>3 DEF IsView
<1>. QED
  BY <1>2, <1>4, <1>5, SameView

(* A write is seen by every handle on the page, and by no other.           *)
LEMMA WriteRefines ==
  ASSUME IInv, IInv', NEW h \in Handles, NEW x \in Content, Write(h, x)
  PROVE  Abstract!Store(h, x)
<1>. USE FrameFacts, NoPageAssumption
<1>. PICK f \in Frames : f = ref[h]
  BY DEF Write, IInv, TypeOK
<1>1. /\ bytes' = [bytes EXCEPT ![f] = x]
      /\ dirty' = [dirty EXCEPT ![f] = TRUE]
      /\ UNCHANGED <<page_id, page_map, asked, ref, disk, file_pages, faked>>
  BY DEF Write, handleVars, fileVars
<1>. PICK p \in PageIds : p = asked[h]
  BY DEF IInv, HandleSound, TypeOK
<1>2. page_map[p] = f /\ page_id[f] = p
  BY DEF IInv, HandleSound, MapSound
<1>3. Held[h] = p /\ Held' = Held
  BY <1>1 DEF Held
<1>4. ASSUME NEW q \in PageIds
      PROVE  View'[q] = IF q = p THEN x ELSE View[q]
  <2>1. IsView(q, View[q]) /\ IsView(q, View[q])'
    BY ViewAt, ViewAtNext
  <2>2. page_map[q] = f => q = p
    BY <1>2 DEF IInv, MapSound
  <2>3. \A g \in Frames \ {f} : bytes'[g] = bytes[g] /\ dirty'[g] = dirty[g]
    BY <1>1 DEF IInv, TypeOK
  <2>4. CASE q = p
    BY <1>1, <1>2, <2>1, <2>4 DEF IsView, IInv, TypeOK
  <2>5. CASE q # p
    <3>1. page_id[f] # q
      BY <1>2, <2>5
    <3>2. page_map[q] # NoFrame => page_map[q] \in Frames \ {f}
      BY <2>2, <2>5 DEF IInv, TypeOK
    <3>. QED
      BY <1>1, <2>1, <2>3, <2>5, <3>1, <3>2 DEF IsView
  <2>. QED
    BY <2>4, <2>5
<1>5. View' = [View EXCEPT ![p] = x]
  BY <1>4, ViewAt, ViewAtNext
<1>. QED
  BY <1>1, <1>3, <1>5 DEF Abstract!Store

(* Releasing a page closes its handle.                                     *)
LEMMA UnpinRefines ==
  ASSUME IInv, NEW h \in Handles, Unpin(h)
  PROVE  Abstract!Close(h)
<1>1. View' = View
  BY DEF Unpin, View, Flushed, fileVars
<1>2. Held[h] # NoPage /\ Held' = [Held EXCEPT ![h] = NoPage]
  BY DEF Unpin, Held, IInv, TypeOK, HandleSound
<1>. QED
  BY <1>1, <1>2 DEF Abstract!Close, Unpin, fileVars

(* flush makes the dirty pages it reaches durable.                         *)
LEMMA FlushRefines ==
  ASSUME IInv, IInv', NEW n \in 0 .. FrameCount, Flush(n)
  PROVE  \E W \in SUBSET PageIds : Abstract!WriteBack(W)
<1>. USE FrameFacts, NoPageAssumption
<1>. DEFINE F == 0 .. n - 1
            W == {p \in PageIds : \E f \in F : dirty[f] /\ page_id[f] = p}
<1>1. F \subseteq Frames
  BY FrameCountAssumption DEF Frames
<1>2. /\ disk' = Flushed(F) /\ dirty' = Clean(F)
      /\ UNCHANGED <<page_id, bytes, page_map, asked, ref, file_pages, faked>>
  BY DEF Flush, handleVars
<1>. HIDE DEF F
<1>3. Held' = Held
  BY <1>2 DEF Held
<1>4. ASSUME NEW p \in PageIds
      PROVE  disk'[p] = IF p \in W THEN View[p] ELSE disk[p]
  <2>1. CASE p \in W
    <3>1. PICK f \in F : dirty[f] /\ page_id[f] = p
      BY <2>1
    <3>. QED
      BY <1>1, <1>2, <2>1, <3>1, DirtyView, FlushedAt
  <2>2. CASE p \notin W
    BY <1>1, <1>2, <2>2, FlushedAt
  <2>. QED
    BY <2>1, <2>2
<1>5. ASSUME NEW p \in PageIds
      PROVE  View'[p] = View[p]
  <2>1. IsView(p, View[p]) /\ IsView(p, View[p])'
    BY ViewAt, ViewAtNext
  <2>2. \A g \in Frames : dirty'[g] <=> dirty[g] /\ g \notin F
    BY <1>2 DEF Clean
  <2>3. CASE page_map[p] # NoFrame
    BY <1>2, <2>1, <2>3 DEF IsView
  <2>4. CASE page_map[p] = NoFrame /\ p \in W
    <3>1. PICK f \in F : dirty[f] /\ page_id[f] = p
      BY <2>4
    <3>2. \A g \in Frames : ~ (dirty'[g] /\ page_id[g] = p)
      BY <1>1, <2>2, <3>1, DirtyUnique
    <3>3. View'[p] = disk'[p]
      BY <1>2, <2>1, <2>4, <3>2 DEF IsView
    <3>. QED
      BY <1>4, <2>4, <3>3
  <2>5. CASE page_map[p] = NoFrame /\ p \notin W
    <3>1. \A g \in Frames : dirty'[g] /\ page_id[g] = p <=> dirty[g] /\ page_id[g] = p
      BY <2>2, <2>5
    <3>2. disk'[p] = disk[p]
      BY <1>4, <2>5
    <3>. QED
      BY <1>2, <2>1, <2>5, <3>1, <3>2 DEF IsView
  <2>. QED
    BY <2>3, <2>4, <2>5
<1>6. View' = View
  BY <1>5, ViewAt, ViewAtNext
<1>7. disk' = [p \in PageIds |-> IF p \in W THEN View[p] ELSE disk[p]]
  <2>1. disk' = [p \in PageIds |-> disk'[p]]
    BY <1>2 DEF Flushed
  <2>. QED
    BY <1>4, <2>1
<1>8. Abstract!WriteBack(W)
  BY <1>2, <1>3, <1>6, <1>7 DEF Abstract!WriteBack, Abstract!PageIds, PageIds
<1>. QED
  BY <1>8

(* fake_flush drops what is not in the buffer and not written.             *)
LEMMA FakeFlushRefines ==
  ASSUME IInv, IInv', FakeFlush
  PROVE  \E R \in SUBSET PageIds : Abstract!Discard(R)
<1>. USE FrameFacts, NoPageAssumption
<1>. DEFINE R == {p \in PageIds : page_map[p] = NoFrame}
<1>1. /\ \A f \in Frames : ~ dirty'[f]
      /\ faked' = TRUE
      /\ UNCHANGED <<page_id, bytes, page_map, asked, ref, disk, file_pages>>
  BY DEF FakeFlush, Start, handleVars, fileVars
<1>2. \A p \in R : ~ \E h \in Handles : Held[h] = p
  BY DEF Held, IInv, HandleSound
<1>3. ASSUME NEW p \in PageIds
      PROVE  View'[p] = IF p \in R THEN disk[p] ELSE View[p]
  BY <1>1, ViewAt, ViewAtNext DEF IsView
<1>4. View' = [p \in PageIds |-> IF p \in R THEN disk[p] ELSE View[p]]
  BY <1>3, ViewAtNext
<1>5. Held' = Held
  BY <1>1 DEF Held
<1>6. Abstract!Discard(R)
  BY <1>1, <1>2, <1>4, <1>5
     DEF Abstract!Discard, Abstract!FallenBack, Abstract!IsHeld, Abstract!PageIds, PageIds
<1>. QED
  BY <1>6

(* A new process finds on disk all there is.                               *)
LEMMA NewProcessView ==
  ASSUME IInv', NewProcess, disk' \in [PageIds -> Content]
  PROVE  View' = disk' /\ Held' = [h \in Handles |-> NoPage]
<1>1. \A p \in PageIds : page_map'[p] = NoFrame
  BY DEF NewProcess, Start
<1>2. \A f \in Frames : ~ dirty'[f]
  BY DEF NewProcess, Start
<1>3. \A p \in PageIds : View'[p] = disk'[p]
  BY <1>1, <1>2, ViewAtNext DEF IsView
<1>4. View' = disk'
  BY <1>3, ViewAtNext
<1>5. Held' = [h \in Handles |-> NoPage]
  BY DEF NewProcess, Start, Held
<1>. QED
  BY <1>4, <1>5

(* An orderly end makes everything durable.                                *)
LEMMA ShutdownRefines ==
  ASSUME IInv, IInv', Shutdown
  PROVE  \E R \in SUBSET PageIds : Abstract!CloseAll(R)
<1>. USE FrameFacts, NoPageAssumption
<1>. DEFINE R == {p \in PageIds : faked /\ page_map[p] # NoFrame /\ ~ dirty[page_map[p]]}
<1>1. NewProcess /\ disk' = Flushed(Frames) /\ file_pages' = file_pages /\ faked' = FALSE
  BY DEF Shutdown, NewProcess
<1>2. \A h \in Handles : Held[h] = NoPage
  BY DEF Shutdown, Held
<1>3. View' = disk' /\ Held' = [h \in Handles |-> NoPage]
  BY <1>1, FlushedType, NewProcessView DEF IInv
<1>4. Held' = Held
  BY <1>2, <1>3 DEF Held
<1>5. ASSUME NEW p \in PageIds
      PROVE  disk'[p] = IF p \in R THEN disk[p] ELSE View[p]
  <2>1. CASE \E f \in Frames : dirty[f] /\ page_id[f] = p
    <3>1. PICK f \in Frames : dirty[f] /\ page_id[f] = p
      BY <2>1
    <3>2. disk'[p] = View[p]
      BY <1>1, <3>1, DirtyView, FlushedAt
    <3>3. page_map[p] \in {f, NoFrame}
      BY <3>1 DEF IInv, StrandedIsNextVictim, Mapped
    <3>. QED
      BY <3>1, <3>2, <3>3
  <2>2. CASE \A f \in Frames : ~ (dirty[f] /\ page_id[f] = p)
    <3>1. disk'[p] = disk[p]
      BY <1>1, <2>2, FlushedAt
    <3>2. CASE page_map[p] = NoFrame
      BY <2>2, <3>1, <3>2, DiskView
    <3>3. CASE page_map[p] # NoFrame
      <4>. PICK f \in Frames : f = page_map[p]
        BY <3>3 DEF IInv, TypeOK
      <4>1. page_id[f] = p /\ Mapped(f) /\ ~ dirty[f]
        BY <2>2, <3>3 DEF IInv, MapSound, Mapped
      <4>2. View[p] = bytes[f]
        BY <3>3, ViewAt DEF IsView
      <4>3. ~ faked => bytes[f] = disk[p]
        BY <4>1 DEF IInv, CleanMatchesDisk
      <4>. QED
        BY <3>1, <3>3, <4>1, <4>2, <4>3
    <3>. QED
      BY <3>2, <3>3
  <2>. QED
    BY <2>1, <2>2
<1>6. disk' = [p \in PageIds |-> IF p \in R THEN disk[p] ELSE View[p]]
  <2>1. disk' = [p \in PageIds |-> disk'[p]]
    BY <1>1 DEF Flushed
  <2>. QED
    BY <1>5, <2>1
<1>7. R # {} => faked
  OBVIOUS
<1>8. Abstract!CloseAll(R)
  BY <1>1, <1>2, <1>3, <1>4, <1>6, <1>7
     DEF Abstract!CloseAll, Abstract!FallenBack, Abstract!PageIds, PageIds
<1>. QED
  BY <1>8

(* A crash leaves what is durable.                                         *)
LEMMA CrashRefines ==
  ASSUME IInv, IInv', Crash
  PROVE  Abstract!Die
<1>1. View' = disk /\ Held' = [h \in Handles |-> NoPage] /\ disk' = disk
  BY NewProcessView DEF Crash, IInv, TypeOK
<1>. QED
  BY <1>1 DEF Abstract!Die, Crash, NewProcess

(* Every step of the buffer manager is a step of the page store, or is not *)
(* visible there.                                                          *)
LEMMA NextRefines == IInv /\ IInv' /\ [Next]_vars => [Abstract!StoreNext]_Abstract!storeVars
<1>. SUFFICES ASSUME IInv, IInv', [Next]_vars
              PROVE  [Abstract!StoreNext]_Abstract!storeVars
  OBVIOUS
<1>. USE DEF Abstract!StoreNext
<1>0. Abstract!PageIds = PageIds
  BY DEF Abstract!PageIds, PageIds
<1>1. ASSUME NEW h \in Handles, NEW p \in PageIds, GetPage(h, p)
      PROVE  [Abstract!StoreNext]_Abstract!storeVars
  BY <1>0, <1>1, HitRefines, MissRefines DEF GetPage
<1>2. ASSUME NEW h \in Handles, NEW f \in Files, AppendPage(h, f)
      PROVE  [Abstract!StoreNext]_Abstract!storeVars
  <2>1. <<f, file_pages[f]>> \in PageIds
    BY <1>2, MaxPagesAssumption DEF AppendPage, PageIds, IInv, TypeOK
  <2>. QED
    BY <1>1, <1>2, <2>1 DEF AppendPage
<1>3. CASE Advance
  BY <1>3, AdvanceRefines
<1>4. CASE Evict
  BY <1>4, EvictRefines
<1>5. CASE EvictFails
  BY <1>5, EvictFailsRefines
<1>6. CASE Load
  <2>1. req \in Handles /\ asked[req] \in PageIds
    BY <1>6 DEF Load, IInv, CallSound, TypeOK
  <2>. QED
    BY <1>0, <1>6, <2>1, LoadRefines
<1>7. CASE LoadFails
  BY <1>7, LoadFailsRefines
<1>8. ASSUME NEW h \in Handles, NEW x \in Content, Write(h, x)
      PROVE  [Abstract!StoreNext]_Abstract!storeVars
  BY <1>8, WriteRefines
<1>9. ASSUME NEW h \in Handles, Unpin(h)
      PROVE  [Abstract!StoreNext]_Abstract!storeVars
  BY <1>9, UnpinRefines
<1>10. ASSUME NEW n \in 0 .. FrameCount, Flush(n)
       PROVE  [Abstract!StoreNext]_Abstract!storeVars
  BY <1>0, <1>10, FlushRefines
<1>11. CASE FakeFlush
  BY <1>0, <1>11, FakeFlushRefines
<1>12. CASE Shutdown
  BY <1>0, <1>12, ShutdownRefines
<1>13. CASE Crash
  BY <1>13, CrashRefines
<1>14. CASE UNCHANGED vars
  BY <1>14 DEF vars, frameVars, callVars, handleVars, fileVars, Abstract!storeVars, View, Flushed, Held
<1>. QED
  BY <1>1, <1>2, <1>3, <1>4, <1>5, <1>6, <1>7, <1>8, <1>9, <1>10, <1>11, <1>12, <1>13, <1>14
     DEF Next

(* The buffer manager implements the page store.                           *)
THEOREM Refinement == Spec => ImplementsPageStore
<1>1. Abstract!StoreSpec <=> Abstract!StoreInit /\ [][Abstract!StoreNext]_Abstract!storeVars
  BY DEF Abstract!StoreSpec
<1>. QED
  BY <1>1, Invariance, InitRefines, NextRefines, PTL DEF Spec, ImplementsPageStore

=============================================================================
