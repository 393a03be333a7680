------------------------------ MODULE HeapFile ------------------------------
(***************************************************************************)
(* A heap file (src/storage/heap_file/heap_file.cc) and the iterators over *)
(* it (heap_file_iter.cc), on the page store that PageStore specifies:     *)
(* pages have a current and a durable content, and pages may be written    *)
(* back whenever the code calls get_page.  An insert is several steps, for *)
(* it calls get_page for each page it tries; every other operation is one: *)
(* what its pages look like between two of its get_page calls differs only *)
(* in pages a crash can tear apart after it as well.                       *)
(***************************************************************************)
EXTENDS HeapPage, Functions

CONSTANTS
  MaxPages,   \* bound: pages of the file
  Iters,      \* HeapFileIter objects
  NoRecord,   \* no insert is running
  Restarts,   \* whether processes end, in order or not, and pages are written back
  Failures    \* whether get_page throws

PageNumbers == 0 .. MaxPages - 1
NoPage == -1
MaxSlots == PageSize - 2
RIDs == PageNumbers \X (0 .. MaxSlots - 1)

ASSUME MaxPagesAssumption == MaxPages \in Nat \ {0}
ASSUME NoRecordAssumption == NoRecord \notin Records \cup {Garbage, Word}
ASSUME RestartsAssumption == Restarts \in BOOLEAN
ASSUME FailuresAssumption == Failures \in BOOLEAN

VARIABLES
  pages,             \* content of each page, as the buffer manager gives it
  durable,           \* content of each page in the file
  page_count,        \* count_pages
  last_insert_page,
  inserting,         \* record of the running insert_record, or NoRecord
  iter               \* the HeapFileIter objects

fileVars == <<pages, durable, page_count>>
vars == <<fileVars, last_insert_page, inserting, iter>>

(* Mutant: the position starts on the first slot, not before it.           *)
ClosedAtZero == [open |-> FALSE, held |-> NoPage, page |-> 0, pos |-> 0, total |-> 0, owes |-> {}]

(* A HeapFileIter: the page its current_page object is on, its position    *)
(* and the page count its constructor saw.  owes is history: the records   *)
(* that have been there since it was constructed or reset, on the pages it *)
(* counts, and that it has not returned; none after a call that threw.     *)
Closed == [open |-> FALSE, held |-> NoPage, page |-> 0, pos |-> -1, total |-> 0, owes |-> {}]

IterTypes ==
  [open : BOOLEAN, held : PageNumbers \cup {NoPage}, page : 0 .. MaxPages, pos : -1 .. MaxSlots - 1,
   total : 0 .. MaxPages, owes : SUBSET RIDs]

Init ==
  /\ pages = [p \in PageNumbers |-> ZeroPage]
  /\ durable = [p \in PageNumbers |-> ZeroPage]
  /\ page_count = 0
  /\ last_insert_page = 0
  /\ inserting = NoRecord
  /\ iter = [it \in Iters |-> Closed]

LiveRIDs == {rid \in RIDs : rid[1] < page_count /\ rid[2] \in LiveSlots(pages[rid[1]])}

(* pages and page_count after HeapFilePage objects for the pages P were    *)
(* constructed.                                                            *)
Construct(P) ==
  [p \in PageNumbers |-> IF p \in P THEN Constructed(pages[p]) ELSE pages[p]]

(* Mutant: read_page extends the file by one page too many.                *)
ReachingTooFar(p) == IF p < page_count THEN page_count ELSE p + 2

(* count_pages after get_page of page p.                                   *)
Reaching(p) == IF p < page_count THEN page_count ELSE p + 1

-----------------------------------------------------------------------------
(* Bound: some page of the instance, used or not, has room for r.          *)
RoomWithinBound(r) == \E p \in last_insert_page .. MaxPages - 1 : Fits(Constructed(pages[p]), r)

(* insert_record up to the page it tries first.                            *)
InsertBegin(r) ==
  /\ inserting = NoRecord
  /\ RoomWithinBound(r)
  /\ inserting' = r
  /\ pages' = Construct({last_insert_page})
  /\ page_count' = Reaching(last_insert_page)
  /\ UNCHANGED <<durable, last_insert_page, iter>>

(* One turn of its loop: the page takes the record ...                     *)
InsertHere ==
  /\ inserting # NoRecord
  /\ Fits(pages[last_insert_page], inserting)
  /\ pages' = [pages EXCEPT ![last_insert_page] = Inserted(@, inserting)]
  /\ inserting' = NoRecord
  /\ UNCHANGED <<durable, page_count, last_insert_page, iter>>

(* Mutant: the loop forgets last_insert_page++.                            *)
InsertMoveNowhere ==
  /\ inserting # NoRecord
  /\ ~ Fits(pages[last_insert_page], inserting)
  /\ pages' = Construct({last_insert_page})
  /\ UNCHANGED <<durable, page_count, last_insert_page, inserting, iter>>

(* ... or the next page is tried.                                          *)
InsertMove ==
  /\ inserting # NoRecord
  /\ ~ Fits(pages[last_insert_page], inserting)
  /\ last_insert_page' = last_insert_page + 1
  /\ pages' = Construct({last_insert_page + 1})
  /\ page_count' = Reaching(last_insert_page + 1)
  /\ UNCHANGED <<durable, inserting, iter>>

(* ... unless get_page throws: the call ends, one page further.            *)
InsertMoveFails ==
  /\ Failures
  /\ inserting # NoRecord
  /\ ~ Fits(pages[last_insert_page], inserting)
  /\ last_insert_page' = last_insert_page + 1
  /\ inserting' = NoRecord
  /\ UNCHANGED <<fileVars, iter>>

NotOwed(R) == [it \in Iters |-> [iter[it] EXCEPT !.owes = @ \ R]]

(* A client deletes by a RID: of a record, or of a slot whose record is    *)
(* gone or has given way to another.  The client's contract, for the code  *)
(* checks nothing (heap_file.cc:30-33, heap_file_page.cc:76-78), is that   *)
(* the directory has the slot: a RID from before a vacuum may be past it.  *)
Delete(rid) ==
  /\ inserting = NoRecord
  /\ rid[1] < page_count
  /\ rid[2] \in Slots(pages[rid[1]])
  /\ pages' = [pages EXCEPT ![rid[1]] = Deleted(@, rid[2])]
  /\ iter' = NotOwed({rid})
  /\ UNCHANGED <<durable, page_count, last_insert_page, inserting>>

(* vacuum of the pages before page n.                                      *)
VacuumTo(n) ==
  /\ inserting = NoRecord
  /\ pages' = [p \in PageNumbers |-> IF p < n THEN Vacuumed(Constructed(pages[p])) ELSE pages[p]]
  /\ iter' = NotOwed({rid \in RIDs : rid[1] < n})
  /\ UNCHANGED <<durable, page_count, inserting>>

VacuumFile ==
  /\ VacuumTo(page_count)
  /\ last_insert_page' = 0

(* get_page throws on page n, and last_insert_page stays.                  *)
VacuumFails(n) ==
  /\ Failures
  /\ n < page_count
  /\ VacuumTo(n)
  /\ UNCHANGED last_insert_page

-----------------------------------------------------------------------------
(* Iterators                                                               *)

Open(it) ==
  /\ inserting = NoRecord
  /\ ~ iter[it].open
  /\ pages' = Construct({0})
  /\ page_count' = Reaching(0)
  /\ iter' = [iter EXCEPT ![it] = [Closed EXCEPT !.open = TRUE, !.held = 0, !.total = page_count', !.owes = LiveRIDs]]
  /\ UNCHANGED <<durable, last_insert_page, inserting>>

(* What is ahead of an iterator, in the order next() meets it: as the      *)
(* number of the page it is on and a slot, the rest of the page it holds   *)
(* and the records of later pages.                                         *)
Ahead(it) ==
  {<<iter[it].page, i>> : i \in {j \in LiveSlots(pages[iter[it].held]) : j > iter[it].pos}}
    \cup {rid \in LiveRIDs : rid[1] > iter[it].page /\ rid[1] < iter[it].total}

First(R) == CHOOSE rid \in R : \A x \in R : rid[1] < x[1] \/ (rid[1] = x[1] /\ rid[2] <= x[2])

(* The pages next() gets on its way to page p.                             *)
Passed(it, p) == {q \in PageNumbers : iter[it].page < q /\ q <= p /\ q < iter[it].total}

HeldAt(it, p) == IF p = iter[it].page THEN iter[it].held ELSE p

(* next(): the next record, or the end.                                    *)
NextRecord(it) ==
  LET R == Ahead(it)
      first == First(R)
  IN
  /\ inserting = NoRecord
  /\ iter[it].held # NoPage
  /\ pages' = Construct(Passed(it, IF R = {} THEN iter[it].total ELSE first[1]))
  /\ iter' = [iter EXCEPT ![it] =
                IF R = {}
                THEN [iter[it] EXCEPT !.held = NoPage, !.page = iter[it].total, !.pos = -1]
                ELSE [iter[it] EXCEPT !.held = HeldAt(it, first[1]), !.page = first[1], !.pos = first[2],
                                      !.owes = @ \ {first}]]
  /\ UNCHANGED <<durable, page_count, last_insert_page, inserting>>

(* next() when get_page throws on page p: the number is p already, the     *)
(* object is still on the page before, and the position starts over.       *)
NextFails(it, p) ==
  /\ Failures
  /\ inserting = NoRecord
  /\ iter[it].held # NoPage
  /\ p \in Passed(it, p)
  /\ \A rid \in Ahead(it) : rid[1] >= p
  /\ pages' = Construct(Passed(it, p - 1))
  /\ iter' = [iter EXCEPT ![it] = [@ EXCEPT !.held = HeldAt(it, p - 1), !.page = p, !.pos = -1, !.owes = {}]]
  /\ UNCHANGED <<durable, page_count, last_insert_page, inserting>>

(* reset() keeps the page count of the constructor.                        *)
Reset(it) ==
  /\ inserting = NoRecord
  /\ iter[it].open
  /\ iter' = [iter EXCEPT ![it] =
                [@ EXCEPT !.held = 0, !.page = 0, !.pos = -1,
                          !.owes = {rid \in LiveRIDs : rid[1] < iter[it].total}]]
  /\ UNCHANGED <<fileVars, last_insert_page, inserting>>

(* reset() when get_page throws.                                           *)
ResetFails(it) ==
  /\ Failures
  /\ inserting = NoRecord
  /\ iter[it].open
  /\ iter' = [iter EXCEPT ![it] = [@ EXCEPT !.page = 0, !.pos = -1, !.owes = {}]]
  /\ UNCHANGED <<fileVars, last_insert_page, inserting>>

Close(it) ==
  /\ inserting = NoRecord
  /\ iter[it].open
  /\ iter' = [iter EXCEPT ![it] = Closed]
  /\ UNCHANGED <<fileVars, last_insert_page, inserting>>

-----------------------------------------------------------------------------
(* The buffer manager writes a page back, in any call of get_page.         *)
WriteBack(p) ==
  /\ Restarts
  /\ durable' = [durable EXCEPT ![p] = pages[p]]
  /\ UNCHANGED <<pages, page_count, last_insert_page, inserting, iter>>

NewHeapFile ==
  /\ last_insert_page' = 0
  /\ inserting' = NoRecord
  /\ iter' = [it \in Iters |-> Closed]
  /\ UNCHANGED page_count

Restart ==
  /\ Restarts
  /\ inserting = NoRecord
  /\ durable' = pages
  /\ UNCHANGED pages
  /\ NewHeapFile

Crash ==
  /\ Restarts
  /\ pages' = durable
  /\ UNCHANGED durable
  /\ NewHeapFile

Next ==
  \/ \E r \in Records : InsertBegin(r)
  \/ InsertHere
  \/ InsertMove
  \/ InsertMoveFails
  \/ \E rid \in RIDs : Delete(rid)
  \/ VacuumFile
  \/ \E n \in PageNumbers : VacuumFails(n)
  \/ \E it \in Iters : Open(it)
  \/ \E it \in Iters : NextRecord(it)
  \/ \E it \in Iters, p \in PageNumbers : NextFails(it, p)
  \/ \E it \in Iters : Reset(it)
  \/ \E it \in Iters : ResetFails(it)
  \/ \E it \in Iters : Close(it)
  \/ \E p \in PageNumbers : WriteBack(p)
  \/ Restart
  \/ Crash

Spec == Init /\ [][Next]_vars

(* A running insert_record keeps running.                                  *)
FairSpec == Spec /\ WF_vars(InsertHere) /\ WF_vars(InsertMove)

-----------------------------------------------------------------------------
(* Every variable keeps its shape.                                         *)
TypeOK ==
  /\ pages \in [PageNumbers -> [Cells -> (Records \cup {Word}) \X Int]]
  /\ durable \in [PageNumbers -> [Cells -> (Records \cup {Word}) \X Int]]
  /\ page_count \in 0 .. MaxPages
  /\ last_insert_page \in PageNumbers
  /\ inserting \in Records \cup {NoRecord}
  /\ iter \in [Iters -> IterTypes]

(* Through any sequence of inserts, deletes of slots there are, slot reuse,*)
(* vacuums and crashes, every page is zero or keeps its layout: no record  *)
(* overlaps another or the directory, and free_space is at most the gap    *)
(* between them (heap_file_page.cc:80-187).                                *)
LayoutOK ==
  \A p \in PageNumbers :
    /\ pages[p] = ZeroPage \/ Laid(pages[p])
    /\ durable[p] = ZeroPage \/ Laid(durable[p])

(* The parts of the inductive invariant that are no properties by          *)
(* themselves.  A slot of a directory that is zero would be a record to    *)
(* vacuum and none to insert_record.                                       *)
NoZeroSlot(pg) == \A i \in Slots(pg) : Dir(pg, i) # 0

SlotsSet == \A p \in PageNumbers : NoZeroSlot(pages[p]) /\ NoZeroSlot(durable[p])

(* A running insert is on a page it constructed, and has one to come to.   *)
InsertFindsRoom ==
  inserting # NoRecord =>
    /\ Constructed(pages[last_insert_page]) = pages[last_insert_page]
    /\ RoomWithinBound(inserting)

(* An iterator that stands in the file has in front of it what it owes,    *)
(* and if it owes anything, its object is the page its number says.        *)
OwesAhead ==
  \A it \in Iters :
    iter[it].held # NoPage =>
      /\ iter[it].page \in PageNumbers
      /\ iter[it].owes # {} => iter[it].held = iter[it].page /\ iter[it].owes \subseteq Ahead(it)

(* A finished scan has returned every record that was in the file from the *)
(* beginning of the scan to its end, whatever was inserted and deleted     *)
(* meanwhile (heap_file_iter.cc:21-50), and whatever failed before the     *)
(* reset it began with.  After reset, that is every record on the pages    *)
(* the constructor counted, and not, as heap_file.h:33 has it, all         *)
(* results: pages added in between are not visited.                        *)
ScanComplete == \A it \in Iters : iter[it].held = NoPage => iter[it].owes = {}

(* The inductive invariant.                                                *)
IInv == TypeOK /\ LayoutOK /\ SlotsSet /\ InsertFindsRoom /\ OwesAhead /\ ScanComplete

(* vacuum gives back all the space deleted records and their slots took:   *)
(* each page has a slot for every record it had, and free_space is all but *)
(* the header, those slots and the cells of those records, which the       *)
(* layout keeps apart (heap_file_page.cc:146-187).                         *)
Reclaimed(old, new) ==
  LET count == Cardinality(LiveSlots(old)) IN
  /\ DirCount(new) = count
  /\ FreeSpace(new) = PageSize - 2 - count - Cardinality(RecordCells(old))

VacuumReclaims ==
  [][VacuumFile => \A p \in PageNumbers : p < page_count => Reclaimed(pages[p], pages'[p])]_vars

(* The record every RID has.                                               *)
Contents(pgs) ==
  [rid \in UNION {{p} \X LiveSlots(pgs[p]) : p \in PageNumbers} |-> ReadRecord(pgs[rid[1]], Dir(pgs[rid[1]], rid[2]))]

Abstract == INSTANCE HeapStore WITH live <- Contents(pages), saved <- Contents(durable)

(* The heap file is the table of records HeapStore describes.              *)
ImplementsHeapStore == Abstract!HeapSpec

(* insert_record returns: its loop finds a page (heap_file.cc:12-24).  It  *)
(* needs SizeAssumption: a record no empty page has room for is tried on   *)
(* one new page after the other, forever.                                  *)
InsertReturns == inserting # NoRecord ~> inserting = NoRecord

=============================================================================
