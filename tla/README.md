# A TLA+ development for IIC3413-DB

The repository is a small relational database for a course: heap files and
B+ trees on a buffer manager, a catalog on top of them, and a few command line
programs. It is C++17 and runs in one thread. This directory models its storage
engine and catalog in TLA+, checks the models with TLC on small instances, and
proves every safety property the runs check, and the two refinements, with TLAPS.

Paths below are relative to the repository (`src/system/...` is the
directory of its sources). Modules are in *italics* where they are first named.

## 1. The system

| Component | State it keeps | Operations | Works with |
|---|---|---|---|
| **Page** (`src/storage/page.*`) | identity, 4096 bytes, pin count, second chance, dirty flag | `pin`, `unpin`, `reassign`, `read/write`, `make_dirty`, `reset` | owned by the buffer manager, referenced (`Page&`) by every page object |
| **Buffer manager** (`src/system/buffer_manager.cc`) | frames, `page_map`, clock position | `get_page`, `append_page`, `flush`, `fake_flush`, destructor | calls the file manager; called by heap files and trees |
| **File manager** (`src/system/file_manager.cc`) | open descriptors by file name | `get_file_id`, `read_page` (extends the file), `flush` (one page), `count_pages` | the operating system |
| **Heap file page** (`src/storage/heap_file/heap_file_page.cc`) | `dir_count`, `free_space`, a directory that grows up, records that grow down | constructor, `try_insert_record`, `get_record`, `delete_record`, `vacuum` | holds one `Page&` |
| **Heap file** (`heap_file.cc`) | `last_insert_page` | `insert_record`, `delete_record`, `vacuum`, `get_record` | one page object at a time, two while it moves on |
| **Heap file iterator** (`heap_file_iter.cc`) | current page and slot, page count | `begin`, `next`, `reset` | holds a page between two calls of a client |
| **B+ tree leaf** (`src/storage/b_plus_tree/b_plus_tree_leaf.cc`) | sorted records, next leaf | `search_index`, `insert_record`, `get_record` | holds one `Page&` |
| **B+ tree directory** (`b_plus_tree_dir.cc`) | separators and children, positive for leaves, negative for directories | `search_leaf`, `search_child_idx`, `insert_record` with the split of the root, `delete_record` | recursive; leaf and directory files |
| **B+ tree, its iterator** (`b_plus_tree.cc`, `b_plus_tree_iter.cc`) | the root; a leaf and a position | `get_iter`, `insert_record`, `begin`, `next`, `reset` | reads rows back from the heap file |
| **Catalog** (`src/system/catalog.cc`) | `tables`, `table_name_idx`, `catalog.dat` | constructor (loads), destructor (saves), `create_table`, `get_table`, `create_index`, `insert_record`, `delete_record` | owns heap files and indexes |
| **System** (`src/system/system.cc`) | the three managers | construction and destruction, in an order that matters | the programs in `src/bin` |
| **Programs** (`src/bin/*.cc`) | their arguments and what is left of `main()` | `create_db`, `create_table`, `insert`, `print_table`, `test_lab2`: a few calls of the catalog each, an exit status | one process each, one after the other, on one folder |
| **Value** (`src/relational_model/value.cc`) | a type and an integer or an owned string block | constructors, copy and move, assignments, destructor, comparisons | fields of records |

`Record`, `Schema`, the abstract interfaces, the exceptions and the filesystem
helpers have no protocol of their own; the ANTLR
runtime under `src/third_party` is vendored and unused. They are not modelled.

### What is hard here

There are no threads, but there is plenty of interleaving. Page objects, iterators
and tree roots keep references into frames across any number of calls that evict
other frames. An iterator stands in a file while clients insert, delete and vacuum.
I/O calls throw in the middle of `get_page`, after some of its bookkeeping
and before the rest, and so in the middle of every operation above it, some of which
have changed a page number, a position or a pointer by then; callers catch that and go on.
Every object that is alive keeps a frame from being reused, and `get_page` turns forever when all are kept. Processes die between two page writes, between the catalog's
write and the buffer's flush, and in the middle of `catalog.dat`. And the page
layouts are hand-made, with two areas that grow towards each other, reused slots,
and node splits that shift two arrays by different offsets.

What makes each part correct:

* **Buffer manager**: a reference keeps meaning the page it was taken for; pins count
  holders; a dirty page is never lost or read stale, also when a write fails; an
  appended page is nobody's; `get_page` ends, because the code never holds all frames; no pin outlives its object.
* **Heap page and file**: records never overlap; a RID keeps its record until it is
  deleted or the file vacuumed, as long as clients delete by RIDs of slots there are; vacuum gives back all the space it can; after a crash every page has one of its own earlier
  contents; `insert_record` ends.
* **Iterators**: a scan misses no record that was there throughout.
* **B+ tree nodes**: the search finds the lower bound; splits route every record to
  the leaf that has its range.
* **Index**: an entry leads to a row with its key; every row no failure kept out has an entry; a scan of a range finds every entry in it.
* **Catalog**: names find their tables; rows stay in their table; a restart shows the tables an
  orderly end left, with their rows, and which of them have an index.
* **Programs**: a process adds the rows it inserts and changes nothing else; what it returns is true.
* **Value**: every string block has exactly one owner.

The hazards, each at its line, with the properties that would catch it
going wrong, are listed in `PROJECT.json`. Some the code does not withstand: there the models take the steps that
show it, the properties are stated for what is left, and the hazard names no property but says what is excluded.

## 2. The modules

| Module | Models | Abstraction |
|---|---|---|
| *PageStore* | what the buffer manager promises | abstract specification: a current and a durable content per page, handles on pages |
| *BufferManager* | buffer manager, `Page`'s flags, the file manager's page I/O | bytes are a member of `Content`; a page object is a handle |
| *PageObjects* | which objects hold which pages, over all operations that construct page objects | the control points of those operations; what is on the pages is left out |
| *HeapStore* | what a heap file promises | abstract specification: a partial function from RIDs to records, live and saved |
| *HeapPage* | the layout of a heap page | operators on a page of cells instead of bytes: a record of `Size[r]` cells, two counters, one cell per directory entry |
| *HeapFile* | heap file and its iterators, over pages as PageStore gives them | |
| *BPlusTreeNode* | leaf search, duplicate check, directory search, insertion and root split | operators; a record is an integer, which is all its comparison tells apart |
| *BPlusTreeLeaf* | the leaves a set of records makes, and what `search_index` and the duplicate check are declared to return | operators |
| *BPlusTreeDir* | the tree of directories while leaves split | a leaf is any leaf that keeps its declared contract |
| *StringKey* | `serialize_string_key` and the order of strings | operators on byte sequences with `KeyBytes` for 8, shifts as products |
| *TableIndex* | one table, its index and an index iterator | the table's page as its list of slots, a tree of one leaf |
| *Catalog* | catalog, System's life cycle, `catalog.dat` and the files, by their names | a file is the set of what it holds |
| *Programs* | the programs of `src/bin`, on the catalog | a program is the list of the calls it has still to make |
| *Value* | memory ownership | blocks as model values |

`MCHeapFile`, `MCTableIndex`, `MCCatalog` and `MCPrograms` add constants for TLC.
Eight modules hold the theorems: `BufferManager_proofs`, `PageObjects_proofs`, `HeapFile_proofs` (with HeapPage), `BPlusTreeNode_proofs`, `BPlusTreeDir_proofs` and `TableIndex_proofs` (which both use the
lemmas of the node; the last has StringKey too), `Programs_proofs` (with Catalog) and `Value_proofs`.
Operators that begin with "Mutant:" in their comment are plausible bugs: each is
a changed copy of the definition below it, used to make sure that the property named with it in
`PROJECT.json` fails when the code has that bug. No specification uses them.

How modules compose: HeapFile works on pages with a current and a durable content that may be
written back at any point, which is what PageStore promises, and BufferManager is
shown to implement PageStore. TableIndex uses BPlusTreeNode's operators and
the slots HeapPage shows. Catalog's files are sets that are written back in any
portions, as PageStore allows. Programs is Catalog with somebody to call it: each of its steps is a step of Catalog
or leaves the catalog alone. PageObjects is the other side of BufferManager: there *GetPageReturns* assumes that a frame is
unpinned, here *GetPageFindsFrame* says that the code above keeps it so.

### State and steps

*BufferManager.* One TLA+ variable per field: `page_id`, `bytes`, `pins`,
`second_chance`, `dirty` of each frame, `page_map`, `clock`. A miss in `get_page` is
the steps `Advance` (one turn of the clock), `Evict` (erase from `page_map`, flush if
dirty) and `Load` (`reassign`, `read_page`, insert into `page_map`), with the failures
`EvictFails` and `LoadFails`, because an exception or a crash may come between any two
of them. No other call runs in between: there is one thread. `asked` and `ref` are
the page objects: the page each was constructed for, and the frame its `Page&` refers to. `Flush(n)` is the
flush of which frame n's write failed, `n = FrameCount` the complete one.
`faked` remembers that `fake_flush` dropped the dirty flags.

*PageObjects.* `obj` maps each object that can be alive, on the stack of a call or in a root or iterator, to the page it holds, and `at` is
where the one thread is. `Takes` lists which code constructs which object where, `Replacements` the assignments `x = make_unique<...>(...)`, which construct the new
object before they destroy the old one (two pins), and `Leaves` where objects go out of scope. `GetPageThrows` unwinds the objects of the call; when it was a read that failed,
the frame stays pinned by nobody (`lost`), as in BufferManager. `create_index` runs inside `Takes` of `scan` and of the insert: the deepest nesting is a root, every iterator, the scan, and the two nodes of an insert.

*HeapFile.* `insert_record` is `InsertBegin`, then `InsertHere` or `InsertMove` for each page it
tries, because each calls `get_page` and may die there; the other operations are one step each.
Constructing a `HeapFilePage` on a zero page initializes it, so each action applies
`Constructed` to every page the code constructs, scans included. With `Failures`, `get_page` may throw where an operation has changed something before: `InsertMoveFails` (`last_insert_page` is one further),
`VacuumFails` (the first n pages are vacuumed), `NextFails` (the iterator has the number of a page and still the object of an earlier one: `held` and `page`), `ResetFails`. An iterator's `owes` is history.
`Delete` takes the RID of any slot the directory has, with a record, without, or with another than the client thinks. A RID whose slot is at or past `dir_count` is left out, by its guard: `delete_record` would write -1 there all the same (section 4).

*BPlusTreeDir.* The leaf properties are stated in the states of the tree: for every leaf page, every set of records of its range. A step is one insert that makes a leaf split: the split goes into its
directory (`InsertSplit`), splits the root (`InsertRootSplit`), or meets the
unwritten Case 2 (`InsertDropsSplit`), which drops it. `Route` walks the directories as `search_leaf` does.

*TableIndex.* `BPlusTreeLeaf::insert_record` runs off its end when the leaf has a record already. That is
undefined behaviour; the builds of the repository either abort (debug) or return with the record dropped
(release), and `LeafInsertOutcomes` has both. A row's place in a scan, and after a vacuum, is its rank among the live slots (`LiveBefore`). With `Failures`, the calls may end in an exception half-way: `InsertThrows` leaves a row without entry, `CreateIndex(n)` with n less than
the number of rows a partial index, `NextThrows` an iterator past an entry it has not returned. `missed` is history: the rows such a call, the unfinished leaf or vacuum kept out of the index.

*Catalog.* `phase` is the life of a process: down, up, saving (`~Catalog` is writing `catalog.dat`), flushing
(`~BufferManager`). A table named n has the files `n`, `n.bpt.dir` when `create_index` made its index, and `n.dir` when the constructor reopened it. `cached` and `disk` are the contents of files; `WriteBack` moves any part of one to
the other. `torn` is a `catalog.dat` the next process cannot read. `owner`, `orderly` and `kept` are history.

*Programs.* `program` is the one that runs, `calls` what it has still to ask of the catalog (`NoTable`, `ATable`: `get_table` must give nullptr, or a table), `status` what it will return.
A refused call is `Declines`, an exception the program catches is `CreateThrows` or `ScanThrows`, one it does not catch is `Killed`, with every other end without destructors. `Return` begins
`~System` with whatever the calls left. The program `client` stands for other users of the library: it creates tables and indexes and inserts, in any order, and goes on after exceptions. Nobody deletes rows here; deletes are in HeapFile and TableIndex. `found` and `added` are history: the database at the start, and the rows inserted since.

*Value.* The type tag and pointer of each object, the allocated blocks; an object that is destroyed may be constructed again.

## 3. The runs

No run has a state constraint: the only bounds are the constants below and the guards that name them. `catalog` uses the symmetry of its two rows, which no definition or
property tells apart and no liveness is checked of.

| Run | Instance | Checks |
|---|---|---|
| `buffer` | 1 file of at most 3 pages, 2 frames, 2 page objects, 2 contents, failing reads and writes, crashes | *ImplementsPageStore* (refinement); *HandleSound*, *PinAccounting*, *ReassignAsserts*, *StrandedIsNextVictim*, *CleanMatchesDisk*, *AppendIsFresh*, *IInv* (the inductive invariant), *TypeOK*; *GetPageReturns* (liveness) |
| `pins` | 6 pages, 1 index, 1 heap file iterator, 1 index iterator, at most 1 failed read a process, 7 frames | *GetPageFindsFrame*, *PinsEndWithCalls*, *IInv* (the inductive invariant) |
| `heap_page` | 1 page of 12 cells, records of 1 and 2 cells | *LayoutOK*, *ImplementsHeapStore*, *VacuumReclaims* |
| `heap_crash` | 2 pages of 6 cells, crashes and restarts at any step, pages written back in any order, `get_page` throws | *LayoutOK*, *ImplementsHeapStore*, *InsertReturns* (liveness) |
| `heap_scan` | 3 pages of 6 cells, one iterator, `get_page` throws | *ScanComplete*, *IInv* (the inductive invariant) |
| `tree` | directories of 4 records, 9 record values, up to 9 leaves of at most 4 records | *RoutesHome*, *LeavesInTree*, *SearchFindsLowerBound*, *DuplicatesFound*, *IInv* (the inductive invariant) |
| `index` | 2 slots, 4 ASCII strings of 0 to 3 bytes, keys of 2 bytes, `get_page` throws | *EntrySound*, *RowsHaveEntries*, *ScanFindsEntries*, *IInv* (the inductive invariant) |
| `catalog` | names `t`, `T`, `u`; 2 rows; all programs and a client, creations that fail, crashes, restarts | *RunAddsItsRows*, *StatusTells*, *TablesAreKnown*, *RowsBelong*, *CrashKeepsLastShutdown*, *RestartKeepsDatabase*, *ProgramsIInv* (the inductive invariant) |
| `value` | 3 objects, 4 blocks | *OneOwner*, *NoLeak* |
| `catalog_index` | one row | violated: *RestartFindsTrees* |
| `catalog_open` | one row | violated: *GetTableSound* |
| `index_utf8` | as `index`, with the key `é` | violated: *ScanFindsEntries* |

What they show:

* **buffer.** For every client, a page read is the last write to that page, whatever was evicted, reloaded, or
  interrupted by an exception; a crash falls back page by page to what was written; an orderly end loses nothing.
  Three pages for two frames make every load an eviction; two objects can hold both frames, one page twice, or leave one
  free; a failed write needs one victim, a failed read one frame. More of either repeats these cases, and the theorems of section 5 cover every number.
* **pins.** Whatever clients have open and however their calls end, `get_page` is only called while a frame is unpinned. Seven frames is what
  `FramesAssumption` asks of one root, two iterators, one leaked pin and three more; the three are an insert into an index while `create_index` scans (scan, directory, and the leaf to come). Six pages
  let all objects of the deepest nesting hold different pages, and any two the same one. A second tree or iterator adds a frame and a page held to each state; the theorem covers them.
* **heap_page, heap_crash.** Records never overlap each other or the directory, through deletes of any slot the directory has, slot reuse,
  vacuum, crashes and pages written back alone, and the file is the map from RIDs to records *HeapStore* describes.
  The layout bounds `free_space` only from above, since a delete gives nothing back; after a vacuum *VacuumReclaims* has it exactly: the page but its header, a slot for each record it had, and their cells.
  Twelve cells fit up to five records, so a slot is reused with less, exactly and more than the space it needs (a reused slot costs no
  directory entry). Two pages are what a crash needs to tear a move apart. `heap_crash` ends also with `last_insert_page` back at zero on pages that are full, zero, or half written.
* **heap_scan.** A scan owes every record that was there from its start to its end. Three pages give it a page behind,
  one under and one ahead of it. A scan owes nothing after a call that threw, until it is reset: what is checked is that a reset starts afresh from whatever position and object the exception left.
* **tree.** The root fills, splits with the new separator in the left half, at the middle and in the right half, and both halves fill. Four is even as
  the code's 204 is, which matters for the middle. The binary search ends with one more comparison; the leaves of the tree have every length from 0 to 4 and every position of the searched record.
* **index.** Keys of two bytes give strings that are shorter than a key, as long as one, and two that share one. Two slots are a row before and a row behind the point where a call fails.
* **catalog.** Of an index, *CrashKeepsLastShutdown* and *RestartKeepsDatabase* say only that a table has one: what was in its tree is lost, as `catalog_index` shows. Two tables are enough to confuse them, and `t`/`T` are one name. A row is inserted at most once, so two rows tell
  two tables and two moments apart. Any program can follow any other, its crash or its orderly end, so a program meets every database the others can leave within these tables.
* **value.** Three objects cover chains such as `a = b; c = move(a)` and self-assignment.

`CHECK_DEADLOCK FALSE` is set where the system really stops: `index` when the process aborts, `tree` when the bounded records are used up.

### Fairness

Two properties are about progress. *GetPageReturns* assumes weak fairness of `Advance`, `Evict` and `Load`: the
steps of a `get_page` call that has begun. *InsertReturns* assumes it of `InsertHere` and `InsertMove`, the turns of the loop of `insert_record`. The
program has one thread and does not block inside these loops, so a step that is possible is taken. Nothing is assumed of the clients: they may never call,
never unpin, never close. Failures and crashes are not fair, and both properties hold however often they happen or not.
*GetPageReturns* has the precondition that a frame is unpinned; with every frame pinned the loop of `get_unused_page` does not end. *GetPageFindsFrame*, proved of the code above, is what makes it hold. *InsertReturns* needs `SizeAssumption` (a record fits an empty page).

## 4. Where the code differs from what it says

Three disagreements have a run that finds them; `PROJECT.json` quotes the lines.

* `catalog_index`: `create_index` names its files `<table>.bpt`, the constructor opens `<table>` (`src/system/catalog.cc:77`, `268`), so after an orderly restart every index is new and empty.
* `catalog_open`: a `create_table` whose file cannot be opened leaves its name registered (`src/system/catalog.cc:171`), and `get_table` of it leads past the tables, or later to another table.
  *TablesAreKnown* shows that the names of real tables are not affected, and *RowsBelong* that only rows given to that name go astray.
* `index_utf8`: bytes above 127 are sign extended into the key (`src/storage/b_plus_tree/b_plus_tree.cc:16`), so a scan can miss a row.

The models contain these further deviations, without a run of their own:

* A read that fails in `get_page` leaves a pin nobody owns (`src/system/buffer_manager.cc:99-101`). *PinAccounting* states that it is at most one for a frame and on no page in the buffer; a debug build then aborts in `flush`.
* `HeapFileIter::next` advances its page number before it constructs the page object (`heap_file_iter.cc:28-31`). A client that calls `next` again after an exception gets the records of the old page under RIDs of the next one, and
  the next page's own records never; if `reset` throws after the end of a scan, `next` still says that it ended. `NextFails` and `ResetFails` have both; *ScanComplete* claims nothing until the next reset.
* `BPlusTreeIter::next` is past an entry before it reads the row, so calling it again after an exception skips that row (`b_plus_tree_iter.cc:32-40`).
* `HeapFilePage::delete_record` checks nothing (`heap_file.cc:30-33`, `heap_file_page.cc:76-78`). A RID whose slot was reused deletes the new record, which `Delete` has. A RID whose slot is at or past `dir_count`, such as one from before a vacuum, writes -1 into the gap or into a
  record: not to use it is the client's contract, so `Delete` requires a slot the directory has, and *LayoutOK* and *ImplementsHeapStore* hold of deletes by such RIDs only.
* `create_index` that throws half-way leaves the table with a partial index; calling it again is refused, because the table "already has an index" (`src/system/catalog.cc:263-268`).
* `create_table` (the program) ignores its `db_directory` argument and always works on `data/test_example` (`src/bin/create_table.cc:14-21`), and returns `EXIT_SUCCESS` after an exception (lines 68-71). *StatusTells* therefore says nothing of its success.
* `insert` prints "Record inserted" before `~System` makes the row durable (`src/bin/insert.cc:57`).
* `HeapFileIter::reset` keeps the page count of the constructor, so it does not visit pages added since. *ScanComplete* is about the pages it counts.
* `BPlusTreeLeaf::insert_record` compares with the cell behind the last record: a record of zeros that is greater than all others in its leaf is refused as a duplicate. On an empty leaf `search_index` compares with cell 0 and may return 1.
* `BPlusTreeDir::delete_record` is empty, so index entries of deleted rows stay: *EntrySound* is about the others. `BPlusTreeIter::next` ignores that `get_record` found nothing (`b_plus_tree_iter.cc:40`), so a scan may return rows that are gone: *ScanFindsEntries* says which rows it must return, not that it returns no others.
* A table whose creation a crash undid keeps its file (`catalog.cc:173`): created again it has its old rows. *RowsBelong* allows them, for they are rows of a table of that name.
* A leaf takes one record only, and a full directory below the root drops a split: both are marked to be written in the source.
* `Catalog::normalize` tests `c < 'a' && c > 'z' && c != '_'`, which refuses no name, although its message says that only letters and `_` are allowed; the programs themselves use `T1` and `test_1`. `Rejected` has it as it is. What the check would have
  kept out are names with a dot, with which a table can have the file of another one's index, or `catalog.dat`: see `NamesAssumption`.

## 5. The proofs

TLAPS checks these for every value of the constants that satisfies the named assumptions: any number of frames, pages, files and page objects
(`MaxPages`, `FrameCount` positive, finitely many handles), any number of trees, iterators and failed reads with the frames `FramesAssumption` asks for, pages and records of any size (a record fits an empty page),
leaves and directories of any size (two separators at least), any keys and encodings, any table names without a dot and any rows, any number of values and blocks.

| Theorem | States |
|---|---|
| `BufferManager_proofs!Invariance` | `Spec => []IInv` |
| `TypeCorrect`, `HandlesStaySound`, `PinsAreCounted`, `ReassignIsSafe`, `StrandedStaysNextVictim`, `CleanPagesMatchDisk`, `AppendsAreFresh` | each conjunct of it that `buffer` checks |
| `BufferManager_proofs!Refinement` | `Spec => ImplementsPageStore` |
| `PageObjects_proofs!Invariance`, `NoCallSpins`, `NoPinOutlives` | `IInv`, `GetPageFindsFrame`, `PinsEndWithCalls` |
| `HeapFile_proofs!Invariance`, `TypeCorrect`, `LayoutSurvives`, `ScansAreComplete` | `IInv` and its conjuncts `TypeOK`, `LayoutOK`, `ScanComplete` |
| `HeapFile_proofs!VacuumGivesBack` | `Spec => VacuumReclaims` |
| `HeapFile_proofs!Refinement` | `Spec => ImplementsHeapStore` |
| `BPlusTreeNode_proofs!SearchIndexIsLowerBound`, `DuplicateIsExact`, `SearchChildFinds` | what the two binary searches and the duplicate check return, for every sorted node |
| `BPlusTreeDir_proofs!Invariance`, `TypeCorrect`, `RecordsAreRoutedHome`, `EveryLeafHangsOnce` | `IInv`, `TypeOK`, `RoutesHome`, `LeavesInTree` |
| `BPlusTreeDir_proofs!SearchesFindLowerBounds`, `DuplicatesAreFound` | `SearchFindsLowerBound`, `DuplicatesFound` |
| `TableIndex_proofs!TypeCorrect`, `EntriesStaySound` | `TypeOK`, `EntrySound`, for any keys and encoding |
| `TableIndex_proofs!RowsKeepEntries` | `RowsHaveEntries`, if `ZeroIsLeast` |
| `TableIndex_proofs!ScansFindEntries`, `ScansOfIntegersFindEntries` | `ScanFindsEntries`, if `EncodingKeepsOrder`, and for columns of integers |
| `TableIndex_proofs!Invariance` | `IInv`, if both |
| `TableIndex_proofs!IndexesOfAsciiStrings` | `EntrySound`, `RowsHaveEntries` and `ScanFindsEntries`, for columns of ASCII strings |
| `Programs_proofs!Invariance`, `TypeCorrect`, `TablesStayKnown`, `RowsStayHome` | Catalog's `IInv` and its conjuncts |
| `Programs_proofs!CrashesKeepLastShutdown`, `RestartsKeepDatabase` | `CrashKeepsLastShutdown`, `RestartKeepsDatabase` |
| `Programs_proofs!ProgramsUseCatalog` | `ProgramsSpec => Spec` of Catalog |
| `Programs_proofs!ProgramsInvariance`, `ProgramsTypeCorrect`, `ProgramsKeepRowsHome` | `ProgramsIInv`, its first conjunct, `TablesAreKnown /\ RowsBelong` |
| `Programs_proofs!RunsAddTheirRows`, `StatusIsTrue` | `RunAddsItsRows`, `StatusTells` |
| `Value_proofs!StringsOwnTheirBlocks`, `BlocksAreGivenBack` | `OneOwner`, `NoLeak` |

**The buffer manager.** None of the properties is inductive alone. That a frame somebody holds is never reassigned (*HandleSound*)
follows from its pin count being positive, which needs *PinAccounting* to count holders through every hit, load and
unpin. That in turn needs *MapSound* (the map leads to frames that hold the page) and *CallSound* (the page a call is
loading is not in the buffer yet). The interesting part is failure: after `EvictFails` a dirty page sits in a frame outside `page_map`. A later load of the same
page would read a stale copy from disk, and a later eviction would erase another frame's map entry, unless that
frame is the next victim. *StrandedIsNextVictim* says it is: the clock still points at it, it is unpinned and without second chance, so the
next miss writes it or fails in the same place. Without this conjunct neither *MapSound* nor the refinement can be proved. *AppendIsFresh* then needs dirty stranded pages to be within their file.

The refinement maps a page's current content to its frame's bytes if it is in `page_map`, to a stranded dirty copy if there is one, and to the disk otherwise (`View`). `Hit`,
`Load` open a page; `Evict` and `Flush` are write backs; `Advance` and `Miss` stutter; after `fake_flush` pages may fall back, which PageStore allows only then.

**Page objects.** The invariant says which local objects may hold a page at each control point (`MayHold`), and that the object of a replacement is alive only there. A step keeps it because each row of `Takes`, `Replacements` and
`Leaves` moves between points whose `MayHold` allow it (lemmas `TakesInScope`, `ReplacementsInScope`, `LeavesInScope`). At a point from which `get_page` is called at most two locals hold pages (`TwoLocals`), so
together with roots, iterators and leaked pins fewer pages are held than there are frames (`HeldBound`).

**The heap file.** A page's layout is kept by inserting, deleting, constructing and vacuuming (lemmas `InsertedOK`, `DeletedOK`, `ConstructedOK`, `VacuumedOK`), but not by itself: vacuum would take a directory entry that is zero for a record and
`try_insert_record` would not take it for a free slot, so the invariant says that there is none (*SlotsSet*). *InsertFindsRoom* keeps an insert on a page it constructed and within the file's bound. *ScanComplete* is about a scan that ended; what makes it so is *OwesAhead*: whatever an
iterator still owes is in front of it, on the page its number says, which an insert, a delete and a vacuum behind or ahead of it have to keep, and an exception that leaves the number and the object apart makes void.

Vacuum is a loop, and the proof is an induction over its turns: after i slots the buffer has the records of the live ones among them, packed, in their order, and enough space for the rest (`PackedBefore`). What is left at the end is the page but its header, the new slots and those records' cells, which is *VacuumReclaims*. That there is enough is the one thing not local to a turn: the
cells the records take are counted as a set, which is within the space behind the gap because records do not overlap (`TakenCounted`). The library's induction theorems take an operator as parameter, which these provers cannot instantiate, so the induction is over the set of turns for which the claim holds, from a
least element outside of it (`LeastExists`, `SetInduction`).

The refinement maps the pages to the function from RIDs to records (`Contents`). Inserts and deletes change it at one RID, construction nowhere; vacuum is the renumbering HeapStore describes, since the i-th packed record is the live one of rank i (`VacuumRefines`).

**Tree nodes.** The searches are recursive functions over the range that is left. Each is shown to be a loop whose ranges get shorter (`LeafDescends`, `DirDescends`), so it ends, and what each turn keeps holds at the end (`LoopReturns`). For the leaf that is: all records before the range are
less, all behind it greater. `to = mid - 1` drops the middle record although it may be the answer; the claim still holds, because then the answer is the place behind the range, which the last comparison finds. `DuplicateIsExact` says what the duplicate check does, including the cell behind the last record.

**Tree directories.** *TreeCutsRecords* says that the directories of leaves cut all records into the ranges of all leaves, each separator being the first record of the child behind it, and with distinct first records (second conjunct of `IInv`) no leaf hangs twice. A split is followed through the cells: the list of children that the
shift, with or without room for the last one, and the two halves leave is the old one with the new leaf behind the one that split (`CaseOneLists`, `CaseThreeLists`; the list is one longer than a page in between), and such a list cuts its range again (`WithChildCuts`, `HalvesCut`). *RoutesHome* and *LeavesInTree*
follow by the theorems on nodes. The invariant says nothing once a split was dropped: the leaf Case 2 loses is out of reach of these properties.

**The table and its index.** That entries are right (*EntriesAgree*) needs no assumption on keys: a reused slot's old entry is stale, and vacuum makes those of rows it moves stale. The other two properties do need one, and each assumption is where the code differs from what it should do.
*RowsHaveEntries* needs `ZeroIsLeast`: behind a record with a negative key the unused cell of the leaf passes for the record of key 0 and RID (0, 0), which is refused as a duplicate: create the index, insert -1, delete it, insert 0, and the last row has no entry.
*ScanFindsEntries* needs `EncodingKeepsOrder`, which UTF-8 does not have, as `index_utf8` shows; integers and ASCII strings do. With it, *OwesAhead* is inductive: an entry a scan owes is at its position or behind.
That ASCII strings do, whatever their length and however many of their bytes a key has, is proved of `serialize_string_key` itself: a byte counts 256 times the next, so those behind the first that differs cannot make up for it (`KeyTail`, `KeysKeepOrder`).

**The catalog.** What a process loads must keep the map and the tables in step, so the invariant says that `catalog.dat` names no table twice (*SavedDistinct*);
saving keeps it because *TablesAreKnown* gives each name one position. *RowsBelong* needs *TablesAreKnown* for `Insert` and the fact that the files of two tables are different (lemma `FilesAreDistinct`): the file names are the table's with `.bpt.dir` or `.dir` behind it, and are apart because no name has a dot (`NamesAssumption`, which the code does not enforce).

What a crash leaves is *KeptIsDurable*: everything of the last orderly end that `View` shows, which are tables, rows and whether there is an index, is in `catalog.dat` and in the files, no process takes any of it away, and the tables of a running one still name it. It has to hold between the two ends of a shutdown too, when `catalog.dat` is new and the pages are not written yet, and after a `catalog.dat` that is torn, when no process starts.
After an orderly end, what loading shows is exactly what was kept. *RestartFindsTrees* is what would have to hold of the trees, and does not.

**The programs.** *ProgramsUseCatalog* brings the catalog's theorems over. *RunAddsItsRows* relates a process's end to its beginning (of processes that delete nothing), so the invariant has to carry what the process found through every call: *FoundStays* says that each table
it found is still there with the rows found and added, and that no other name leads to it, which a failed `create_table` could otherwise do. It needs *TablesAreKnown* and *RowsBelong* at each step. *CallsLeft* says what a program has still to do: its look
at the tables comes before any change, which is why a failure means that nothing changed.

**Value.** *OneOwner* and *NoLeak* are inductive together; each operation is a lemma of its own.

Only model-checked: liveness (*GetPageReturns*, *InsertReturns*), since progress under fairness and `ENABLED` are beyond the prover used here. The library's theorems on induction are too, as they take an operator for parameter; the inductions above, over loops, recursive functions and sets, go by a least counterexample instead.

## 6. What is not modelled

* Schemas and the contents of records: a record is what it takes in space. `HeapFile` keeps a reference to its creator's `Schema` (`catalog.cc:173`), whose lifetime is not modelled: in `create_db` it ends before the file does, but
  nothing there uses it, and the other programs keep theirs until their last call.
* Short reads and writes: `read` and `write` succeed or return an error, which is what the code tests for.
* A `catalog.dat` torn so that it reads as other tables: `torn` is one that cannot be read to its end.
* Tables whose names have a dot, and two processes on one folder at a time: nothing locks it, and the programs are run one after the other.
* A tree of more than one leaf with its rows, since the source does not build one: inserting into a leaf with records, its split, the split of a directory below the root and the deletes are empty bodies marked TODO. `BPlusTreeDir` checks the directories for the day they are written.
* Crashes between the page writes of a tree split, and what becomes of the tree of a full directory below the root: the source has neither recovery nor that split.
* Deletes by a client of the catalog in Catalog and Programs, whose programs delete nothing.
* Arithmetic on the sizes of pages and files stays far from the width of its integers and is not wrapped.
* Parsing of arguments and the printing of the programs; the loops of `create_db` and `test_lab2` are one insertion each, and its three tables one in the run.
* `Record`, `Schema`, interfaces, exceptions and filesystem helpers have no protocol; the ANTLR runtime is not used.

## 7. Plan

Done: the modules of section 2, their runs, and the theorems of section 5, in the order of what rests on what: the buffer manager, heap pages and files, tree nodes, the index, the catalog, values; then the objects that
hold pages, the exceptions of the heap file and the index, and the programs over the catalog.

Next, to model:

1. leaves with records and their splits, once they are written, which joins BPlusTreeDir and TableIndex;
2. a table with its index through crashes, to check what is durable of each;
3. the names of files with dots, should names be checked.

Next, to prove: that Catalog's files may be read as the heap files and trees of the other modules, which would bring their theorems together for a whole database.
