------------------------------- MODULE Catalog ------------------------------
(***************************************************************************)
(* The catalog (src/system/catalog.cc) through processes that start, shut  *)
(* down in the order of ~System (src/system/system.cc), or crash: the      *)
(* tables, the map from names to them, catalog.dat, which only ~Catalog    *)
(* writes, and the heap and index files, which the buffer manager writes   *)
(* back whenever a page is evicted and in its destructor.  A file is the   *)
(* set of what it holds: rows, or the root of a B+ tree.                   *)
(***************************************************************************)
EXTENDS Integers, Sequences

CONSTANTS
  RawNames,    \* table names as clients give them: sequences of character codes
  Rows,        \* rows, each inserted at most once
  Root,        \* an initialized root directory
  Nobody,      \* the owner of a row not inserted yet
  Astray       \* the owner of a row inserted under a name no table has

(* No name has a dot, 46.  The code does not refuse such names, and then a *)
(* table's file can be another table's index file, or catalog.dat.         *)
ASSUME NamesAssumption == \A n \in RawNames : n \in Seq(Int) /\ \A i \in DOMAIN n : n[i] # 46

ASSUME RootAssumption == Root \notin Rows
ASSUME OwnersAssumption == Nobody \notin Seq(Int) /\ Astray \notin Seq(Int) /\ Nobody # Astray

ToLower(n) == [i \in DOMAIN n |-> IF n[i] \in 65 .. 90 THEN n[i] + 32 ELSE n[i]]

(* normalize throws: 97 and 122 are 'a' and 'z', 95 is '_'.                *)
Rejected(n) == \E i \in DOMAIN n : ToLower(n)[i] < 97 /\ ToLower(n)[i] > 122 /\ ToLower(n)[i] # 95

Names == {ToLower(n) : n \in {x \in RawNames : ~ Rejected(x)}}

(* The heap file of a table, the file of the tree create_index makes, and  *)
(* the one the constructor opens for it: "n", "n.bpt.dir" and "n.dir".     *)
HeapFileOf(n) == n
IndexFileOf(n) == n \o <<46, 98, 112, 116, 46, 100, 105, 114>>
ReopenedIndexFileOf(n) == n \o <<46, 100, 105, 114>>
Files == UNION {{HeapFileOf(n), IndexFileOf(n), ReopenedIndexFileOf(n)} : n \in Names}

TableRecords == [name : Names, index : Files \cup {<<>>}]
NoIndex == <<>>

VARIABLES
  phase,           \* of the process: where it is in System's life
  tables,          \* Catalog::tables: name, and the file of the index
  table_name_idx,  \* from names to positions in tables
  catalog_dat,     \* catalog.dat: the tables' names, and which have an index
  torn,            \* the process died while it wrote catalog.dat
  cached,          \* content of each file, through the buffer manager
  disk,            \* content of each file
  owner,           \* history: the table a client inserted each row into
  orderly,         \* history: the last process shut down
  kept             \* history: the database at the last shutdown

processVars == <<phase, tables, table_name_idx>>
storeVars == <<catalog_dat, torn, cached, disk>>
historyVars == <<owner, orderly, kept>>
vars == <<processVars, storeVars, historyVars>>

Phases == {"down", "refused", "up", "saving", "flushing"}

(* What a client can see of every table: its rows, and whether it has an   *)
(* index.  What is in the tree of that index is not in it: a restart loses *)
(* that (RestartFindsTrees).                                               *)
View(tbls, content) ==
  {[name |-> tbls[i].name, indexed |-> tbls[i].index # NoIndex, rows |-> content[HeapFileOf(tbls[i].name)]] :
     i \in DOMAIN tbls}

Init ==
  /\ phase = "down"
  /\ tables = <<>>
  /\ table_name_idx = [n \in {} |-> 0]
  /\ catalog_dat = <<>>
  /\ torn = FALSE
  /\ cached = [f \in Files |-> {}]
  /\ disk = [f \in Files |-> {}]
  /\ owner = [r \in Rows |-> Nobody]
  /\ orderly = TRUE
  /\ kept = {}

-----------------------------------------------------------------------------
(* Mutant: a table keeps the index only if create_index made it this time. *)
LoadedWithoutIndex(saved) == [i \in DOMAIN saved |-> [name |-> saved[i].name, index |-> NoIndex]]

(* The tables the constructor makes of catalog.dat.                        *)
Loaded(saved) ==
  [i \in DOMAIN saved |->
     [name |-> saved[i].name,
      index |-> IF saved[i].indexed THEN ReopenedIndexFileOf(saved[i].name) ELSE NoIndex]]

NameIndexOf(tbls) ==
  [n \in {tbls[i].name : i \in DOMAIN tbls} |-> CHOOSE p \in 0 .. Len(tbls) - 1 : tbls[p + 1].name = n]

(* BPlusTree's constructor sets up the root of each tree that has none.    *)
WithRoots(content, trees) == [f \in Files |-> IF f \in trees THEN content[f] \cup {Root} ELSE content[f]]

TreesOf(tbls) == {tbls[i].index : i \in DOMAIN tbls} \ {NoIndex}

(* System::System on a readable catalog.dat.                               *)
Start ==
  /\ phase \in {"down", "refused"}
  /\ ~ torn
  /\ phase' = "up"
  /\ tables' = Loaded(catalog_dat)
  /\ table_name_idx' = NameIndexOf(tables')
  /\ cached' = WithRoots(disk, TreesOf(tables'))
  /\ UNCHANGED <<catalog_dat, torn, disk, historyVars>>

(* The constructor throws: it cannot read catalog.dat.                     *)
StartThrows ==
  /\ phase \in {"down", "refused"}
  /\ torn
  /\ phase' = "refused"
  /\ UNCHANGED <<tables, table_name_idx, storeVars, historyVars>>

(* Mutant: the new table is registered one position too far.               *)
RegisteredPast(n) == [m \in DOMAIN table_name_idx \cup {n} |-> IF m = n THEN Len(tables) + 1 ELSE table_name_idx[m]]

(* Mutant: the position is taken as that of the last table there is.       *)
RegisteredBefore(n) == [m \in DOMAIN table_name_idx \cup {n} |-> IF m = n THEN Len(tables) - 1 ELSE table_name_idx[m]]

(* table_name_idx.insert({n, tables.size()})                               *)
Registered(n) == [m \in DOMAIN table_name_idx \cup {n} |-> IF m = n THEN Len(tables) ELSE table_name_idx[m]]

(* create_table of a name that is not in use.                              *)
CreateTable(raw) ==
  LET n == ToLower(raw) IN
  /\ phase = "up"
  /\ ~ Rejected(raw)
  /\ n \notin DOMAIN table_name_idx
  /\ table_name_idx' = Registered(n)
  /\ tables' = Append(tables, [name |-> n, index |-> NoIndex])
  /\ UNCHANGED <<phase, storeVars, historyVars>>

(* The same when the HeapFile cannot open its file and throws: the name    *)
(* stays registered, and client code that catches the exception may go on. *)
CreateTableThrows(raw) ==
  LET n == ToLower(raw) IN
  /\ phase = "up"
  /\ ~ Rejected(raw)
  /\ n \notin DOMAIN table_name_idx
  /\ table_name_idx' = Registered(n)
  /\ UNCHANGED <<phase, tables, storeVars, historyVars>>

(* The table a call with this name works on.  A position past the tables   *)
(* is undefined behaviour, of which only Crash is modelled.                *)
Known(n) == n \in DOMAIN table_name_idx /\ table_name_idx[n] < Len(tables)
PositionOf(n) == table_name_idx[n] + 1

(* create_index of a table without one; its rows go into the tree, which   *)
(* TableIndex models.                                                      *)
CreateIndex(raw) ==
  LET n == ToLower(raw) IN
  /\ phase = "up"
  /\ ~ Rejected(raw)
  /\ Known(n)
  /\ tables[PositionOf(n)].index = NoIndex
  /\ tables' = [tables EXCEPT ![PositionOf(n)].index = IndexFileOf(n)]
  /\ cached' = WithRoots(cached, {IndexFileOf(n)})
  /\ UNCHANGED <<phase, table_name_idx, catalog_dat, torn, disk, historyVars>>

(* Mutant: the row goes to the table that was created last.                *)
InsertPositionLast(n) == Len(tables)
InsertPosition(n) == PositionOf(n)

TableNames == {tables[i].name : i \in DOMAIN tables}

(* insert_record                                                           *)
Insert(raw, r) ==
  LET n == ToLower(raw) IN
  /\ phase = "up"
  /\ ~ Rejected(raw)
  /\ Known(n)
  /\ owner[r] = Nobody
  /\ cached' = [cached EXCEPT ![HeapFileOf(tables[InsertPosition(n)].name)] = @ \cup {r}]
  /\ owner' = [owner EXCEPT ![r] = IF n \in TableNames THEN n ELSE Astray]
  /\ UNCHANGED <<processVars, catalog_dat, torn, disk, orderly, kept>>

-----------------------------------------------------------------------------
(* A page of file f, with what it holds, is evicted, in any call of        *)
(* get_page, or flushed by ~BufferManager.                                 *)
WriteBack(f, page) ==
  /\ phase \in {"up", "flushing"}
  /\ disk' = [disk EXCEPT ![f] = @ \cup page]
  /\ UNCHANGED <<processVars, catalog_dat, torn, cached, historyVars>>

(* Mutant: the index type is not written.                                  *)
SavedWithoutIndex == [i \in DOMAIN tables |-> [name |-> tables[i].name, indexed |-> FALSE]]

Saved == [i \in DOMAIN tables |-> [name |-> tables[i].name, indexed |-> tables[i].index # NoIndex]]

(* ~Catalog rewrites catalog.dat from its start, the number of tables      *)
(* first; until it closes the file any part of that may have reached it.   *)
(* A torn file is one the next process cannot read to its end; that it     *)
(* could also read as other tables is left out.                            *)
SaveBegins ==
  /\ phase = "up"
  /\ phase' = "saving"
  /\ torn' \in IF Saved = catalog_dat THEN {FALSE} ELSE BOOLEAN
  /\ UNCHANGED <<tables, table_name_idx, catalog_dat, cached, disk, historyVars>>

SaveEnds ==
  /\ phase = "saving"
  /\ phase' = "flushing"
  /\ torn' = FALSE
  /\ catalog_dat' = Saved
  /\ UNCHANGED <<tables, table_name_idx, cached, disk, historyVars>>

ProcessEnds ==
  /\ phase' = "down"
  /\ tables' = <<>>
  /\ table_name_idx' = [n \in {} |-> 0]

(* ~BufferManager has flushed every frame, ~FileManager closes the files.  *)
ShutdownEnds ==
  /\ phase = "flushing"
  /\ \A f \in Files : disk[f] = cached[f]
  /\ ProcessEnds
  /\ orderly' = TRUE
  /\ kept' = View(tables, cached)
  /\ UNCHANGED <<storeVars, owner>>

(* The process ends without destructors: killed, aborted, or an exception  *)
(* nobody catches, as in src/bin/insert.cc and src/bin/create_db.cc.       *)
Crash ==
  /\ phase \in {"up", "saving", "flushing"}
  /\ ProcessEnds
  /\ cached' = disk
  /\ orderly' = FALSE
  /\ UNCHANGED <<catalog_dat, torn, disk, owner, kept>>

Next ==
  \/ Start
  \/ StartThrows
  \/ \E raw \in RawNames : CreateTable(raw)
  \/ \E raw \in RawNames : CreateTableThrows(raw)
  \/ \E raw \in RawNames : CreateIndex(raw)
  \/ \E raw \in RawNames, r \in Rows : Insert(raw, r)
  \/ \E f \in Files : \E page \in SUBSET cached[f] : WriteBack(f, page)
  \/ SaveBegins
  \/ SaveEnds
  \/ ShutdownEnds
  \/ Crash

Spec == Init /\ [][Next]_vars

-----------------------------------------------------------------------------
(* Every variable keeps its shape.                                         *)
TypeOK ==
  /\ phase \in Phases
  /\ tables \in Seq(TableRecords)
  /\ DOMAIN table_name_idx \subseteq Names
  /\ \A n \in DOMAIN table_name_idx : table_name_idx[n] \in Nat
  /\ catalog_dat \in Seq([name : Names, indexed : BOOLEAN])
  /\ torn \in BOOLEAN
  /\ cached \in [Files -> SUBSET (Rows \cup {Root})]
  /\ disk \in [Files -> SUBSET (Rows \cup {Root})]
  /\ owner \in [Rows -> Names \cup {Nobody, Astray}]
  /\ orderly \in BOOLEAN

(* get_table gives the table of the name it is given, or nullptr: it "may  *)
(* return nullptr if table does not exist" (catalog.h:20,                  *)
(* catalog.cc:180-191).                                                    *)
GetTableSound == \A n \in DOMAIN table_name_idx : Known(n) /\ tables[PositionOf(n)].name = n

(* table_name_idx has every table, at its position, whatever is created,   *)
(* fails to be created, or is loaded (catalog.cc:54-85, 161-178): the name *)
(* of a table finds that table.                                            *)
TablesAreKnown ==
  \A i \in DOMAIN tables :
    tables[i].name \in DOMAIN table_name_idx /\ table_name_idx[tables[i].name] = i - 1

(* A heap file has only rows that were inserted into the table of its      *)
(* name, or under a name whose create_table failed: no order of creations, *)
(* crashes and restarts gives a table the rows of another one.             *)
RowsBelong ==
  \A n \in Names :
    \A f \in {HeapFileOf(n), IndexFileOf(n), ReopenedIndexFileOf(n)} :
      \A r \in (cached[f] \cup disk[f]) \ {Root} : f = HeapFileOf(n) /\ owner[r] \in {n, Astray}

(* catalog.dat names no table twice.                                       *)
SavedDistinct ==
  \A i, j \in DOMAIN catalog_dat : catalog_dat[i].name = catalog_dat[j].name => i = j

(* What the next process loads must keep the map and the tables in         *)
(* agreement, and rows get into their own file because the map finds the   *)
(* table a client names.                                                   *)
NamesAgree ==
  /\ TypeOK
  /\ SavedDistinct
  /\ TablesAreKnown
  /\ RowsBelong

(* What the last orderly end left is in catalog.dat and in the files, and  *)
(* no process takes any of it away before its own orderly end.             *)
KeptIsDurable ==
  /\ \A f \in Files : disk[f] \subseteq cached[f]
  /\ \A t \in kept :
       /\ t.name \in Names
       /\ t.rows \subseteq disk[HeapFileOf(t.name)]
       /\ \E i \in DOMAIN catalog_dat : catalog_dat[i].name = t.name /\ (t.indexed => catalog_dat[i].indexed)
       /\ phase \in {"up", "saving", "flushing"} =>
            \E i \in DOMAIN tables : tables[i].name = t.name /\ (t.indexed => tables[i].index # NoIndex)
  /\ phase = "flushing" => catalog_dat = Saved
  /\ orderly /\ phase \in {"down", "refused"} => View(Loaded(catalog_dat), disk) = kept

(* The inductive invariant.                                                *)
IInv == NamesAgree /\ KeptIsDurable

(* After an orderly shutdown, the next process sees the tables the last    *)
(* one had, their rows and which of them have an index, though the trees   *)
(* are new (catalog.cc:38-121, system.cc:22-26).                           *)
RestartKeepsDatabase == [][Start /\ orderly => View(tables', cached') = kept]_vars

(* Whatever crashes came since, a process that starts has at least the     *)
(* tables of the last orderly shutdown, with their rows, and an index, if  *)
(* an empty one, for each that had one.  A torn catalog.dat lets none      *)
(* start: that a torn one may read as other tables is left out.            *)
CrashKeepsLastShutdown ==
  phase = "up" =>
    \A t \in kept : \E u \in View(tables, cached) :
      t.name = u.name /\ (t.indexed => u.indexed) /\ t.rows \subseteq u.rows

(* The tree of a table in catalog.dat is not "new", to be initialized      *)
(* empty (b_plus_tree.cc:31-34): a process that starts after an orderly    *)
(* shutdown finds the root of every tree it opens.                         *)
RestartFindsTrees ==
  [][Start /\ orderly => \A f \in TreesOf(tables') : Root \in disk[f]]_vars

=============================================================================
