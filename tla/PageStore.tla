----------------------------- MODULE PageStore -----------------------------
(***************************************************************************)
(* What the buffer manager promises to the heap files and the B+ trees     *)
(* built on it: a store of pages.  A client opens a page through a handle  *)
(* (a HeapFilePage, BPlusTreeDir or BPlusTreeLeaf object, which holds a    *)
(* Page& until its destructor runs), reads and writes its content, and     *)
(* closes it.  A page has one current content, which every handle sees,    *)
(* and one durable content, which survives the process.  Which pages sit   *)
(* in memory, and when they are written back, is not visible here.         *)
(***************************************************************************)
EXTENDS Naturals

CONSTANTS
  Files,      \* open page files
  MaxPages,   \* bound: pages a file may have
  Content,    \* what a 4096-byte page may hold
  Zero,       \* the content of a page of zero bytes
  Handles,    \* objects that can hold a page
  NoPage      \* the page of a closed handle

PageIds == Files \X (0 .. MaxPages - 1)

VARIABLES
  current,    \* content of each page, as every handle on it sees it
  durable,    \* content of each page after a crash
  length,     \* pages each file has
  held,       \* page each handle is open on, or NoPage
  discarded   \* the dirty flags were dropped on purpose (fake_flush)

storeVars == <<current, durable, length, held, discarded>>

StoreTypeOK ==
  /\ current \in [PageIds -> Content]
  /\ durable \in [PageIds -> Content]
  /\ length \in [Files -> 0 .. MaxPages]
  /\ held \in [Handles -> PageIds \cup {NoPage}]
  /\ discarded \in BOOLEAN

StoreInit ==
  /\ current = [p \in PageIds |-> Zero]
  /\ durable = [p \in PageIds |-> Zero]
  /\ length = [f \in Files |-> 0]
  /\ held = [h \in Handles |-> NoPage]
  /\ discarded = FALSE

IsHeld(p) == \E h \in Handles : held[h] = p

(* Open page p: the file grows when it ends before p.  No content changes. *)
Open(h, p) ==
  /\ held[h] = NoPage
  /\ held' = [held EXCEPT ![h] = p]
  /\ length' = [length EXCEPT ![p[1]] = IF @ <= p[2] THEN p[2] + 1 ELSE @]
  /\ UNCHANGED <<current, durable, discarded>>

Store(h, c) ==
  /\ held[h] # NoPage
  /\ current' = [current EXCEPT ![held[h]] = c]
  /\ UNCHANGED <<durable, length, held, discarded>>

Close(h) ==
  /\ held[h] # NoPage
  /\ held' = [held EXCEPT ![h] = NoPage]
  /\ UNCHANGED <<current, durable, length, discarded>>

(* Any set of pages may become durable at any time, as whole pages.        *)
WriteBack(W) ==
  /\ durable' = [p \in PageIds |-> IF p \in W THEN current[p] ELSE durable[p]]
  /\ UNCHANGED <<current, length, held, discarded>>

FallenBack(R) == [p \in PageIds |-> IF p \in R THEN durable[p] ELSE current[p]]

(* An orderly end of the process makes everything durable.                 *)
CloseAll(R) ==
  /\ \A h \in Handles : held[h] = NoPage
  /\ R # {} => discarded
  /\ current' = FallenBack(R)
  /\ durable' = current'
  /\ discarded' = FALSE
  /\ UNCHANGED <<length, held>>

(* The process dies: what is not durable is gone, page by page.            *)
Die ==
  /\ current' = durable
  /\ held' = [h \in Handles |-> NoPage]
  /\ discarded' = FALSE
  /\ UNCHANGED <<durable, length>>

(* Dropping the dirty flags: from here on, until the process ends, a page  *)
(* nobody holds may fall back to its durable content.                      *)
Discard(R) ==
  /\ \A p \in R : ~ IsHeld(p)
  /\ current' = FallenBack(R)
  /\ discarded' = TRUE
  /\ UNCHANGED <<durable, length, held>>

FallBack(R) ==
  /\ discarded
  /\ \A p \in R : ~ IsHeld(p)
  /\ current' = FallenBack(R)
  /\ UNCHANGED <<durable, length, held, discarded>>

StoreNext ==
  \/ \E h \in Handles, p \in PageIds : Open(h, p)
  \/ \E h \in Handles, c \in Content : Store(h, c)
  \/ \E h \in Handles : Close(h)
  \/ \E W \in SUBSET PageIds : WriteBack(W)
  \/ \E R \in SUBSET PageIds : CloseAll(R)
  \/ \E R \in SUBSET PageIds : Discard(R)
  \/ \E R \in SUBSET PageIds : FallBack(R)
  \/ Die

StoreSpec == StoreInit /\ [][StoreNext]_storeVars

=============================================================================
