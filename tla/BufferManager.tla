--------------------------- MODULE BufferManager ---------------------------
(***************************************************************************)
(* The buffer manager (src/system/buffer_manager.cc) over the page files   *)
(* of the file manager (src/system/file_manager.cc), with the frames of    *)
(* src/storage/page.h.  A call of get_page that misses is three steps, for *)
(* the process may die and I/O may fail between them: the clock sweep, the *)
(* eviction (erase from page_map, flush if dirty), and the load (reassign, *)
(* read_page, insert into page_map).  The program has one thread, so no    *)
(* other call runs between those steps.                                    *)
(*                                                                         *)
(* Clients are handles: the HeapFilePage, BPlusTreeDir and BPlusTreeLeaf   *)
(* objects, which take a Page& in their constructor and unpin it in their  *)
(* destructor.  Several can be alive at once: iterators, the root of every *)
(* index, the pages a split or a move to the next page touches.            *)
(***************************************************************************)
EXTENDS Integers, FiniteSets

CONSTANTS
  Files,       \* file descriptors of page files
  MaxPages,    \* bound: pages a file may have
  FrameCount,  \* frame_count
  Content,     \* what a page may hold
  Zero,        \* a page of zero bytes
  Handles,     \* objects that can hold a Page&
  NoPage,      \* PageId(FileId::UNASSIGNED, 0)
  NoHandle,    \* no constructor is waiting for get_page
  FailingIO    \* the system calls that may fail: a subset of {"write", "read"}

PageIds == Files \X (0 .. MaxPages - 1)
Frames == 0 .. FrameCount - 1
NoFrame == -1

ASSUME MaxPagesAssumption == MaxPages \in Nat \ {0}
ASSUME FrameCountAssumption == FrameCount \in Nat \ {0}
ASSUME ZeroAssumption == Zero \in Content
ASSUME NoPageAssumption == NoPage \notin PageIds
ASSUME NoHandleAssumption == NoHandle \notin Handles
ASSUME HandlesAssumption == IsFiniteSet(Handles)

VARIABLES
  page_id,        \* Page::page_id of each frame
  bytes,          \* Page::bytes
  pins,           \* Page::pins
  second_chance,  \* Page::second_chance
  dirty,          \* Page::dirty
  page_map,       \* frame of each page in the buffer, NoFrame if absent
  clock,          \* next frame the replacement looks at
  stage,          \* where the running get_page call is
  req,            \* the handle under construction in that call
  asked,          \* page each handle was constructed for
  ref,            \* frame each handle holds (its Page&), or NoFrame
  disk,           \* content of the files
  file_pages,     \* file size in pages (count_pages)
  faked           \* fake_flush() was called in this process

frameVars == <<page_id, bytes, pins, second_chance, dirty>>
callVars == <<stage, req>>
handleVars == <<asked, ref>>
fileVars == <<disk, file_pages>>
vars == <<frameVars, page_map, clock, callVars, handleVars, fileVars, faked>>

(***************************************************************************)
(* The state a new process finds: empty frames, the files as they are.     *)
(***************************************************************************)
Start ==
  [page_id |-> [f \in Frames |-> NoPage],
   pins |-> [f \in Frames |-> 0],
   flags |-> [f \in Frames |-> FALSE],
   page_map |-> [p \in PageIds |-> NoFrame],
   asked |-> [h \in Handles |-> NoPage],
   ref |-> [h \in Handles |-> NoFrame]]

Init ==
  /\ page_id = Start.page_id
  /\ bytes = [f \in Frames |-> Zero]
  /\ pins = Start.pins
  /\ second_chance = Start.flags
  /\ dirty = Start.flags
  /\ page_map = Start.page_map
  /\ clock = 0
  /\ stage = "idle"
  /\ req = NoHandle
  /\ asked = Start.asked
  /\ ref = Start.ref
  /\ disk = [p \in PageIds |-> Zero]
  /\ file_pages = [f \in Files |-> 0]
  /\ faked = FALSE

NewProcess ==
  /\ page_id' = Start.page_id
  /\ bytes' = [f \in Frames |-> Zero]
  /\ pins' = Start.pins
  /\ second_chance' = Start.flags
  /\ dirty' = Start.flags
  /\ page_map' = Start.page_map
  /\ clock' = 0
  /\ stage' = "idle"
  /\ req' = NoHandle
  /\ asked' = Start.asked
  /\ ref' = Start.ref
  /\ faked' = FALSE
  /\ UNCHANGED file_pages

-----------------------------------------------------------------------------
(***************************************************************************)
(* get_page and append_page                                                *)
(***************************************************************************)

(* Mutant: get_page forgets page.pin() on a hit.                           *)
HitWithoutPin(h, p) ==
  /\ page_map[p] # NoFrame
  /\ second_chance' = [second_chance EXCEPT ![page_map[p]] = TRUE]
  /\ asked' = [asked EXCEPT ![h] = p]
  /\ ref' = [ref EXCEPT ![h] = page_map[p]]
  /\ UNCHANGED <<page_id, bytes, pins, dirty, page_map, clock, callVars, fileVars, faked>>

(* The page is in the buffer: pin it.                                      *)
Hit(h, p) ==
  LET f == page_map[p] IN
  /\ f # NoFrame
  /\ pins' = [pins EXCEPT ![f] = @ + 1]
  /\ second_chance' = [second_chance EXCEPT ![f] = TRUE]
  /\ asked' = [asked EXCEPT ![h] = p]
  /\ ref' = [ref EXCEPT ![h] = f]
  /\ UNCHANGED <<page_id, bytes, dirty, page_map, clock, callVars, fileVars, faked>>

Miss(h, p) ==
  /\ page_map[p] = NoFrame
  /\ stage' = "sweep"
  /\ req' = h
  /\ asked' = [asked EXCEPT ![h] = p]
  /\ UNCHANGED <<frameVars, page_map, clock, ref, fileVars, faked>>

GetPage(h, p) ==
  /\ stage = "idle"
  /\ ref[h] = NoFrame
  /\ \/ Hit(h, p)
     \/ Miss(h, p)

AppendPage(h, f) ==
  /\ file_pages[f] < MaxPages
  /\ GetPage(h, <<f, file_pages[f]>>)

Evictable(f) == pins[f] = 0 /\ ~ second_chance[f]

(* Mutant: the clock does not wrap.                                        *)
NextFrameNoWrap(f) == f + 1

NextFrame(f) == IF f + 1 < FrameCount THEN f + 1 ELSE 0

(* Mutant: the clock does not take the second chance away.                 *)
AdvanceKeepsChance ==
  /\ stage = "sweep"
  /\ ~ Evictable(clock)
  /\ clock' = NextFrame(clock)
  /\ UNCHANGED <<frameVars, page_map, callVars, handleVars, fileVars, faked>>

(* One turn of the loop of get_unused_page that does not find its frame.   *)
Advance ==
  /\ stage = "sweep"
  /\ ~ Evictable(clock)
  /\ second_chance' =
       [second_chance EXCEPT ![clock] = @ /\ pins[clock] # 0]
  /\ clock' = NextFrame(clock)
  /\ UNCHANGED <<page_id, bytes, pins, dirty, page_map, callVars, handleVars, fileVars, faked>>

(* page_map after page_map.erase of the victim's page.                     *)
Forget(f) ==
  IF page_id[f] = NoPage THEN page_map ELSE [page_map EXCEPT ![page_id[f]] = NoFrame]

(* Mutant: the write is lost.                                              *)
FlushedNowhere(F) == disk

(* disk after the frames F were flushed.                                   *)
Flushed(F) ==
  [p \in PageIds |->
     IF \E f \in F : dirty[f] /\ page_id[f] = p
     THEN bytes[CHOOSE f \in F : dirty[f] /\ page_id[f] = p]
     ELSE disk[p]]

(* Mutant: the dirty flag outlives the write.                              *)
CleanNothing(F) == dirty

Clean(F) == [f \in Frames |-> dirty[f] /\ f \notin F]

(* The victim leaves page_map and, if it is dirty, is written to its file. *)
Evict ==
  /\ stage = "sweep"
  /\ Evictable(clock)
  /\ page_map' = Forget(clock)
  /\ disk' = Flushed({clock})
  /\ dirty' = Clean({clock})
  /\ stage' = "load"
  /\ UNCHANGED <<page_id, bytes, pins, second_chance, clock, req, handleVars, file_pages, faked>>

(* The constructor that called get_page is unwound by the exception.       *)
Unwind ==
  /\ stage' = "idle"
  /\ req' = NoHandle
  /\ asked' = [asked EXCEPT ![req] = NoPage]
  /\ UNCHANGED ref

(* Mutant: get_unused_page steps the clock past the frame it returns.      *)
EvictFailsPastVictim ==
  /\ "write" \in FailingIO
  /\ stage = "sweep"
  /\ Evictable(clock)
  /\ dirty[clock]
  /\ page_map' = Forget(clock)
  /\ clock' = NextFrame(clock)
  /\ Unwind
  /\ UNCHANGED <<frameVars, fileVars, faked>>

(* flush throws: the victim is out of page_map and still dirty.            *)
EvictFails ==
  /\ "write" \in FailingIO
  /\ stage = "sweep"
  /\ Evictable(clock)
  /\ dirty[clock]
  /\ page_map' = Forget(clock)
  /\ Unwind
  /\ UNCHANGED <<frameVars, clock, fileVars, faked>>

IsNewPage(p) == file_pages[p[1]] <= p[2]

(* Mutant: read_page does not extend the file.                             *)
NotExtended(p) == file_pages

(* file size after read_page: ftruncate extends a file that ends before p. *)
Extended(p) ==
  [file_pages EXCEPT ![p[1]] = IF @ <= p[2] THEN p[2] + 1 ELSE @]

(* Page::reassign of the victim to p.                                      *)
Reassign(p) ==
  /\ page_id' = [page_id EXCEPT ![clock] = p]
  /\ pins' = [pins EXCEPT ![clock] = 1]
  /\ second_chance' = [second_chance EXCEPT ![clock] = TRUE]

(* Mutant: get_page forgets page_map.insert.                               *)
LoadUnmapped ==
  LET p == asked[req] IN
  /\ stage = "load"
  /\ Reassign(p)
  /\ bytes' = [bytes EXCEPT ![clock] = IF IsNewPage(p) THEN Zero ELSE disk[p]]
  /\ file_pages' = Extended(p)
  /\ ref' = [ref EXCEPT ![req] = clock]
  /\ stage' = "idle"
  /\ req' = NoHandle
  /\ UNCHANGED <<dirty, page_map, clock, asked, disk, faked>>

Load ==
  LET p == asked[req] IN
  /\ stage = "load"
  /\ Reassign(p)
  /\ bytes' = [bytes EXCEPT ![clock] = IF IsNewPage(p) THEN Zero ELSE disk[p]]
  /\ file_pages' = Extended(p)
  /\ page_map' = [page_map EXCEPT ![p] = clock]
  /\ ref' = [ref EXCEPT ![req] = clock]
  /\ stage' = "idle"
  /\ req' = NoHandle
  /\ UNCHANGED <<dirty, clock, asked, disk, faked>>

(* ftruncate or read fails after reassign: the frame keeps its pin.        *)
LoadFails ==
  LET p == asked[req] IN
  /\ "read" \in FailingIO
  /\ stage = "load"
  /\ Reassign(p)
  /\ bytes' = [bytes EXCEPT ![clock] = IF IsNewPage(p) THEN Zero ELSE @]
  /\ Unwind
  /\ UNCHANGED <<dirty, page_map, clock, fileVars, faked>>

-----------------------------------------------------------------------------
(* Mutant: a client forgets make_dirty.                                    *)
WriteWithoutDirty(h, c) ==
  /\ stage = "idle"
  /\ ref[h] # NoFrame
  /\ bytes' = [bytes EXCEPT ![ref[h]] = c]
  /\ UNCHANGED <<page_id, pins, second_chance, dirty, page_map, clock, callVars, handleVars, fileVars, faked>>

(***************************************************************************)
(* What a client does with the Page& it holds.                             *)
(***************************************************************************)
Write(h, c) ==
  /\ stage = "idle"
  /\ ref[h] # NoFrame
  /\ bytes' = [bytes EXCEPT ![ref[h]] = c]
  /\ dirty' = [dirty EXCEPT ![ref[h]] = TRUE]
  /\ UNCHANGED <<page_id, pins, second_chance, page_map, clock, callVars, handleVars, fileVars, faked>>

Unpin(h) ==
  /\ stage = "idle"
  /\ ref[h] # NoFrame
  /\ pins' = [pins EXCEPT ![ref[h]] = @ - 1]
  /\ ref' = [ref EXCEPT ![h] = NoFrame]
  /\ asked' = [asked EXCEPT ![h] = NoPage]
  /\ UNCHANGED <<page_id, bytes, second_chance, dirty, page_map, clock, callVars, fileVars, faked>>

-----------------------------------------------------------------------------
(***************************************************************************)
(* flush, fake_flush, the destructor, and the death of the process.        *)
(***************************************************************************)

(* flush() writes dirty frames in order; with n < FrameCount, the write of *)
(* frame n failed and the exception left the loop.  A debug build aborts   *)
(* here when a frame is pinned (assert): that is Crash.                    *)
Flush(n) ==
  /\ stage = "idle"
  /\ n < FrameCount => "write" \in FailingIO /\ dirty[n]
  /\ disk' = Flushed(0 .. n - 1)
  /\ dirty' = Clean(0 .. n - 1)
  /\ UNCHANGED <<page_id, bytes, pins, second_chance, page_map, clock, callVars, handleVars, file_pages, faked>>

FakeFlush ==
  /\ stage = "idle"
  /\ dirty' = Start.flags
  /\ faked' = TRUE
  /\ UNCHANGED <<page_id, bytes, pins, second_chance, page_map, clock, callVars, handleVars, fileVars>>

(* System::~System: the catalog and its roots go first, so no handle is    *)
(* left, then ~BufferManager flushes.  A new process follows.              *)
Shutdown ==
  /\ stage = "idle"
  /\ \A h \in Handles : ref[h] = NoFrame
  /\ disk' = Flushed(Frames)
  /\ NewProcess

(* abort, an uncaught exception, a kill.                                   *)
Crash ==
  /\ NewProcess
  /\ UNCHANGED disk

Next ==
  \/ \E h \in Handles, p \in PageIds : GetPage(h, p)
  \/ \E h \in Handles, f \in Files : AppendPage(h, f)
  \/ Advance
  \/ Evict
  \/ EvictFails
  \/ Load
  \/ LoadFails
  \/ \E h \in Handles, c \in Content : Write(h, c)
  \/ \E h \in Handles : Unpin(h)
  \/ \E n \in 0 .. FrameCount : Flush(n)
  \/ FakeFlush
  \/ Shutdown
  \/ Crash

Spec == Init /\ [][Next]_vars

(* A running call of get_page keeps running: the thread is not suspended   *)
(* forever inside it.  Nothing is assumed of the clients.                  *)
Fairness == WF_vars(Advance) /\ WF_vars(Evict) /\ WF_vars(Load)

FairSpec == Spec /\ Fairness

-----------------------------------------------------------------------------
(***************************************************************************)
(* Properties                                                              *)
(***************************************************************************)

(* Every variable keeps its shape (the fields of BufferManager and Page).  *)
TypeOK ==
  /\ page_id \in [Frames -> PageIds \cup {NoPage}]
  /\ bytes \in [Frames -> Content]
  /\ pins \in [Frames -> Nat]
  /\ second_chance \in [Frames -> BOOLEAN]
  /\ dirty \in [Frames -> BOOLEAN]
  /\ page_map \in [PageIds -> Frames \cup {NoFrame}]
  /\ clock \in Frames
  /\ stage \in {"idle", "sweep", "load"}
  /\ req \in Handles \cup {NoHandle}
  /\ asked \in [Handles -> PageIds \cup {NoPage}]
  /\ ref \in [Handles -> Frames \cup {NoFrame}]
  /\ disk \in [PageIds -> Content]
  /\ file_pages \in [Files -> 0 .. MaxPages]
  /\ faked \in BOOLEAN

Mapped(f) == page_id[f] # NoPage /\ page_map[page_id[f]] = f

Holders(f) == {h \in Handles : ref[h] = f}

(* A Page& keeps meaning the page its object was constructed for, through  *)
(* any number of evictions and failed calls: get_page never reassigns a    *)
(* frame somebody holds (buffer_manager.cc:69-82, page.h:68-72).           *)
HandleSound ==
  \A h \in Handles :
    ref[h] # NoFrame => asked[h] # NoPage /\ page_map[asked[h]] = ref[h]

(* page_map never leads to a frame that holds another page.                *)
MapSound == \A p \in PageIds : page_map[p] # NoFrame => page_id[page_map[p]] = p

(* The pin count of a page in the buffer is the number of live objects     *)
(* holding it, so unpin finds pins > 0 and a released page can be evicted; *)
(* a frame out of page_map has at most the pin a failed load leaked.       *)
PinAccounting ==
  \A f \in Frames :
    /\ Mapped(f) => pins[f] = Cardinality(Holders(f))
    /\ ~ Mapped(f) => pins[f] <= 1 /\ Holders(f) = {}

(* The asserts of Page::reassign (page.h:69-71) hold when get_page reaches *)
(* them: the frame is clean, unpinned, without second chance, unmapped.    *)
ReassignAsserts ==
  stage = "load" => Evictable(clock) /\ ~ dirty[clock] /\ ~ Mapped(clock)

(* A dirty page that an exception left outside page_map is still the next  *)
(* victim, so no other frame can take its page before it is written, and   *)
(* its stale page_id never erases the entry of another frame.              *)
StrandedIsNextVictim ==
  \A f \in Frames :
    page_id[f] # NoPage /\ ~ Mapped(f) =>
      \/ f = clock /\ Evictable(f) /\ page_map[page_id[f]] = NoFrame
      \/ pins[f] = 1 /\ ~ dirty[f]

(* Unless fake_flush dropped dirty flags, a clean page in the buffer is    *)
(* what its file holds.                                                    *)
CleanMatchesDisk ==
  ~ faked => \A f \in Frames : Mapped(f) /\ ~ dirty[f] => bytes[f] = disk[page_id[f]]

(* No page in the buffer, nor one an exception left waiting to be written, *)
(* lies beyond the end of its file.  So the number append_page picks       *)
(* (count_pages) belongs to no page anybody has, and two calls in a row    *)
(* give two pages (buffer_manager.h:25-28).                                *)
AppendIsFresh ==
  /\ \A f \in Frames : page_id[f] # NoPage /\ (Mapped(f) \/ dirty[f]) => ~ IsNewPage(page_id[f])
  /\ \A p \in PageIds : IsNewPage(p) => disk[p] = Zero

(* The call in progress: its page is not in the buffer, its handle is new. *)
CallSound ==
  /\ stage = "idle" <=> req = NoHandle
  /\ req # NoHandle => asked[req] # NoPage /\ page_map[asked[req]] = NoFrame
  /\ \A h \in Handles : asked[h] = NoPage \/ h = req <=> ref[h] = NoFrame

(* The inductive invariant.                                                *)
IInv ==
  /\ TypeOK
  /\ HandleSound
  /\ MapSound
  /\ PinAccounting
  /\ ReassignAsserts
  /\ StrandedIsNextVictim
  /\ CleanMatchesDisk
  /\ AppendIsFresh
  /\ CallSound

-----------------------------------------------------------------------------
(***************************************************************************)
(* The page store it implements.                                           *)
(***************************************************************************)
View ==
  [p \in PageIds |->
     IF page_map[p] # NoFrame THEN bytes[page_map[p]] ELSE Flushed(Frames)[p]]

Held == [h \in Handles |-> IF ref[h] = NoFrame THEN NoPage ELSE asked[h]]

Abstract == INSTANCE PageStore WITH
  current <- View, durable <- disk, length <- file_pages,
  held <- Held, discarded <- faked

(* Every read through a handle returns the last write to that page by any  *)
(* handle, whatever was evicted, reloaded or failed in between; a crash    *)
(* loses only what was not written back, page by page; an orderly end      *)
(* loses nothing.                                                          *)
ImplementsPageStore == Abstract!StoreSpec

(* get_page returns (or throws) whenever some frame is not pinned: the     *)
(* sweep of get_unused_page comes to an end, whatever second chances and   *)
(* leaked pins it meets (buffer_manager.cc:69-82).                         *)
GetPageReturns == stage # "idle" /\ (\E f \in Frames : pins[f] = 0) ~> stage = "idle"

=============================================================================
