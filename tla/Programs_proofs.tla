--------------------------- MODULE Programs_proofs --------------------------
(***************************************************************************)
(* The catalog and the programs that call it, for any names, rows, tables  *)
(* of create_db and number of restarts and crashes.                        *)
(*                                                                         *)
(* The catalog: the map from names to tables and the tables agree, rows    *)
(* stay in the file of the table they were inserted into, and what an      *)
(* orderly shutdown left is there after it, whatever crashes in between.   *)
(*                                                                         *)
(* The programs: they use the catalog as any client may, so all this holds *)
(* of them; a process that returns has added its rows to what it found and *)
(* lost nothing; and its exit status tells what it did.                    *)
(***************************************************************************)
EXTENDS Programs, TLAPS

-----------------------------------------------------------------------------
(* The catalog                                                             *)

(* A normalized name is a sequence without dots, and not Nobody or Astray. *)
LEMMA NamesAreSequences == \A n \in Names : n \in Seq(Int) /\ n # Nobody /\ n # Astray /\ \A i \in DOMAIN n : n[i] # 46
<1> SUFFICES ASSUME NEW n \in Names
             PROVE  n \in Seq(Int) /\ \A i \in DOMAIN n : n[i] # 46
  BY OwnersAssumption
<1>1. PICK raw \in RawNames : n = ToLower(raw)
  BY DEF Names
<1>2. raw \in Seq(Int) /\ \A i \in DOMAIN raw : raw[i] # 46
  BY NamesAssumption
<1>3. DOMAIN raw = 1 .. Len(raw) /\ Len(raw) \in Nat /\ \A i \in DOMAIN raw : raw[i] \in Int
  BY <1>2
<1>4. n = [i \in 1 .. Len(raw) |-> IF raw[i] \in 65 .. 90 THEN raw[i] + 32 ELSE raw[i]]
  BY <1>1, <1>3 DEF ToLower
<1>5. n \in [1 .. Len(raw) -> Int]
  BY <1>3, <1>4
<1>6. ASSUME NEW i \in DOMAIN n PROVE n[i] # 46
  <2>1. i \in DOMAIN raw /\ raw[i] # 46 /\ raw[i] \in Int
    BY <1>2, <1>3, <1>4
  <2>2. n[i] = IF raw[i] \in 65 .. 90 THEN raw[i] + 32 ELSE raw[i]
    BY <2>1, <1>3, <1>4
  <2> QED
    BY <2>1, <2>2
<1>7. n \in Seq(Int)
  BY <1>3, <1>5
<1> QED
  BY <1>6, <1>7

(* A name with an ending that begins with a dot is no name.                *)
LEMMA DottedIsNoName ==
  ASSUME NEW n \in Names, NEW m \in Names, NEW s \in Seq(Int), Len(s) >= 1, s[1] = 46
  PROVE  n # m \o s /\ m \o s # <<>>
<1>1. m \in Seq(Int) /\ n \in Seq(Int) /\ \A i \in DOMAIN n : n[i] # 46
  BY NamesAreSequences
<1>2. /\ Len(m) + 1 \in 1 .. Len(m \o s) /\ (m \o s)[Len(m) + 1] = 46
      /\ DOMAIN (m \o s) = 1 .. Len(m \o s)
  BY <1>1
<1>3. n # m \o s
  BY <1>1, <1>2
<1>4. m \o s # <<>>
  BY <1>1, <1>2
<1> QED
  BY <1>3, <1>4

(* The files of two tables are different files.                            *)
LEMMA FilesAreDistinct ==
  ASSUME NEW n \in Names, NEW m \in Names
  PROVE  /\ HeapFileOf(n) \in Files /\ IndexFileOf(n) \in Files /\ ReopenedIndexFileOf(n) \in Files
         /\ HeapFileOf(n) = HeapFileOf(m) => n = m
         /\ HeapFileOf(n) # IndexFileOf(m) /\ HeapFileOf(n) # ReopenedIndexFileOf(m)
         /\ IndexFileOf(n) # NoIndex /\ ReopenedIndexFileOf(n) # NoIndex
<1>1. HeapFileOf(n) \in Files /\ IndexFileOf(n) \in Files /\ ReopenedIndexFileOf(n) \in Files
  BY DEF Files
<1>2. HeapFileOf(n) # IndexFileOf(m) /\ IndexFileOf(n) # NoIndex
  <2> DEFINE s == <<46, 98, 112, 116, 46, 100, 105, 114>>
  <2>1. s \in Seq(Int) /\ Len(s) >= 1 /\ s[1] = 46
    OBVIOUS
  <2>2. HeapFileOf(n) = n /\ IndexFileOf(m) = m \o s /\ IndexFileOf(n) = n \o s
    BY DEF HeapFileOf, IndexFileOf
  <2> HIDE DEF s
  <2> QED
    BY <2>1, <2>2, DottedIsNoName DEF NoIndex
<1>3. HeapFileOf(n) # ReopenedIndexFileOf(m) /\ ReopenedIndexFileOf(n) # NoIndex
  <2> DEFINE s == <<46, 100, 105, 114>>
  <2>1. s \in Seq(Int) /\ Len(s) >= 1 /\ s[1] = 46
    OBVIOUS
  <2>2. HeapFileOf(n) = n /\ ReopenedIndexFileOf(m) = m \o s /\ ReopenedIndexFileOf(n) = n \o s
    BY DEF HeapFileOf, ReopenedIndexFileOf
  <2> HIDE DEF s
  <2> QED
    BY <2>1, <2>2, DottedIsNoName DEF NoIndex
<1> QED
  BY <1>1, <1>2, <1>3 DEF HeapFileOf

(* Roots are no rows: setting up trees leaves the rows of files alone.     *)
LEMMA RootsAddNoRows ==
  ASSUME NEW content \in [Files -> SUBSET (Rows \cup {Root})], NEW trees \in SUBSET Files
  PROVE  /\ WithRoots(content, trees) \in [Files -> SUBSET (Rows \cup {Root})]
         /\ \A f \in Files : WithRoots(content, trees)[f] \ {Root} = content[f] \ {Root}
BY DEF WithRoots

-----------------------------------------------------------------------------
(* Rows stay where they belong when no file gets new ones.                 *)
LEMMA RowsBelongKept ==
  ASSUME RowsBelong, owner' = owner,
         \A f \in Files : (cached'[f] \cup disk'[f]) \ {Root} \subseteq (cached[f] \cup disk[f]) \ {Root}
  PROVE  RowsBelong'
<1> SUFFICES ASSUME NEW n \in Names,
                    NEW f \in {HeapFileOf(n), IndexFileOf(n), ReopenedIndexFileOf(n)},
                    NEW r \in (cached'[f] \cup disk'[f]) \ {Root}
             PROVE  f = HeapFileOf(n) /\ owner'[r] \in {n, Astray}
  BY DEF RowsBelong
<1>1. f \in Files
  BY FilesAreDistinct
<1>2. r \in (cached[f] \cup disk[f]) \ {Root}
  BY <1>1
<1> QED
  BY <1>2 DEF RowsBelong

(* No table, no name: the initial state is sound.                          *)
LEMMA InitNamesAgree == Init => NamesAgree
<1> SUFFICES ASSUME Init PROVE NamesAgree
  OBVIOUS
<1> USE DEF Init
<1>1. TypeOK
  <2>1. tables \in Seq(TableRecords) /\ catalog_dat \in Seq([name : Names, indexed : BOOLEAN])
    OBVIOUS
  <2>2. DOMAIN table_name_idx = {}
    OBVIOUS
  <2>3. /\ cached \in [Files -> SUBSET (Rows \cup {Root})]
        /\ disk \in [Files -> SUBSET (Rows \cup {Root})]
        /\ owner \in [Rows -> Names \cup {Nobody, Astray}]
    OBVIOUS
  <2>4. phase \in Phases /\ torn \in BOOLEAN /\ orderly \in BOOLEAN
    BY DEF Phases
  <2> QED
    BY <2>1, <2>2, <2>3, <2>4, Zenon DEF TypeOK
<1>2. SavedDistinct
  BY DEF SavedDistinct
<1>3. TablesAreKnown
  BY DEF TablesAreKnown
<1>4. RowsBelong
  BY FilesAreDistinct DEF RowsBelong
<1> QED
  BY <1>1, <1>2, <1>3, <1>4 DEF NamesAgree

(* What the constructor makes of a catalog.dat that names no table twice.  *)
LEMMA LoadedSound ==
  ASSUME NEW saved \in Seq([name : Names, indexed : BOOLEAN]),
         \A i, j \in DOMAIN saved : saved[i].name = saved[j].name => i = j
  PROVE  LET tbls == Loaded(saved) IN
         /\ tbls \in Seq(TableRecords) /\ DOMAIN tbls = DOMAIN saved /\ Len(tbls) \in Nat
         /\ TreesOf(tbls) \subseteq Files
         /\ DOMAIN NameIndexOf(tbls) \subseteq Names
         /\ \A i \in DOMAIN tbls :
              tbls[i].name \in DOMAIN NameIndexOf(tbls) /\ NameIndexOf(tbls)[tbls[i].name] = i - 1
         /\ \A n \in DOMAIN NameIndexOf(tbls) :
              /\ NameIndexOf(tbls)[n] \in Nat
              /\ NameIndexOf(tbls)[n] < Len(tbls)
              /\ tbls[NameIndexOf(tbls)[n] + 1].name = n
<1> DEFINE tbls == Loaded(saved)
           idx == NameIndexOf(tbls)
<1>1. /\ DOMAIN tbls = DOMAIN saved /\ DOMAIN saved = 1 .. Len(saved) /\ Len(saved) \in Nat
      /\ \A i \in DOMAIN saved : tbls[i].name = saved[i].name /\ saved[i].name \in Names /\ tbls[i] \in TableRecords
  <2>1. DOMAIN tbls = DOMAIN saved /\ DOMAIN saved = 1 .. Len(saved) /\ Len(saved) \in Nat
    BY DEF Loaded
  <2>2. ASSUME NEW i \in DOMAIN saved
        PROVE  /\ saved[i].name \in Names /\ tbls[i].name = saved[i].name
               /\ tbls[i] \in TableRecords
    <3>1. saved[i] \in [name : Names, indexed : BOOLEAN]
      <4> DEFINE S == [name : Names, indexed : BOOLEAN]
      <4>1. saved \in Seq(S)
        OBVIOUS
      <4> HIDE DEF S
      <4>2. saved[i] \in S
        BY <2>1, <4>1
      <4> QED
        BY <4>2 DEF S
    <3>2. tbls[i] = [name |-> saved[i].name,
                     index |-> IF saved[i].indexed THEN ReopenedIndexFileOf(saved[i].name) ELSE NoIndex]
      BY DEF Loaded
    <3>3. saved[i].name \in Names /\ ReopenedIndexFileOf(saved[i].name) \in Files
      BY <3>1, FilesAreDistinct
    <3> QED
      BY <3>2, <3>3 DEF TableRecords, NoIndex
  <2> QED
    BY <2>1, <2>2
<1>2. tbls \in [1 .. Len(saved) -> TableRecords]
  BY <1>1 DEF Loaded
<1>3. tbls \in Seq(TableRecords) /\ Len(tbls) = Len(saved)
  BY <1>1, <1>2
<1>4. TreesOf(tbls) \subseteq Files
  BY <1>1 DEF TreesOf, TableRecords, NoIndex
<1>5. DOMAIN idx = {tbls[i].name : i \in DOMAIN tbls}
  BY DEF NameIndexOf
<1>6. ASSUME NEW i \in DOMAIN tbls
      PROVE  tbls[i].name \in DOMAIN idx /\ idx[tbls[i].name] = i - 1
  <2>1. i - 1 \in 0 .. Len(tbls) - 1 /\ tbls[(i - 1) + 1].name = tbls[i].name
    BY <1>1, <1>3
  <2>2. \A p \in 0 .. Len(tbls) - 1 : tbls[p + 1].name = tbls[i].name => p = i - 1
    BY <1>1, <1>3
  <2>3. tbls[i].name \in DOMAIN idx
    BY <1>5
  <2>4. idx[tbls[i].name] = CHOOSE p \in 0 .. Len(tbls) - 1 : tbls[p + 1].name = tbls[i].name
    BY <2>3, <1>5 DEF NameIndexOf
  <2> HIDE DEF idx, tbls
  <2> QED
    BY <2>1, <2>2, <2>3, <2>4
<1>7. ASSUME NEW n \in DOMAIN idx
      PROVE  idx[n] \in Nat /\ idx[n] < Len(tbls) /\ tbls[idx[n] + 1].name = n
  <2>1. PICK i \in DOMAIN tbls : tbls[i].name = n
    BY <1>5
  <2> HIDE DEF idx, tbls
  <2> QED
    BY <2>1, <1>6, <1>1, <1>3
<1>8. DOMAIN idx \subseteq Names
  BY <1>1, <1>5
<1> QED
  BY <1>1, <1>3, <1>4, <1>6, <1>7, <1>8

-----------------------------------------------------------------------------
(* A process that starts loads a sound catalog.                            *)
LEMMA StartKeepsNames == ASSUME NamesAgree, Start PROVE NamesAgree'
<1> USE DEF Start, storeVars, historyVars
<1>1. catalog_dat \in Seq([name : Names, indexed : BOOLEAN]) /\ SavedDistinct
  BY DEF NamesAgree, TypeOK
<1>2. /\ tables' \in Seq(TableRecords) /\ DOMAIN table_name_idx' \subseteq Names
      /\ TreesOf(tables') \subseteq Files
      /\ \A i \in DOMAIN tables' :
           tables'[i].name \in DOMAIN table_name_idx' /\ table_name_idx'[tables'[i].name] = i - 1
      /\ \A n \in DOMAIN table_name_idx' :
           /\ table_name_idx'[n] \in Nat
           /\ table_name_idx'[n] < Len(tables')
           /\ tables'[table_name_idx'[n] + 1].name = n
  BY <1>1, LoadedSound DEF SavedDistinct
<1>3. /\ cached' \in [Files -> SUBSET (Rows \cup {Root})]
      /\ \A f \in Files : cached'[f] \ {Root} = disk[f] \ {Root}
  <2>1. disk \in [Files -> SUBSET (Rows \cup {Root})]
    BY DEF NamesAgree, TypeOK
  <2> QED
    BY <1>2, <2>1, RootsAddNoRows
<1>4. TypeOK'
  BY <1>2, <1>3, Zenon DEF NamesAgree, TypeOK, Phases
<1>5. SavedDistinct' /\ TablesAreKnown'
  BY <1>1, <1>2 DEF SavedDistinct, TablesAreKnown
<1>6. RowsBelong'
  BY <1>3, FilesAreDistinct DEF NamesAgree, RowsBelong
<1> QED
  BY <1>4, <1>5, <1>6 DEF NamesAgree

(* Positions and elements of tables, as the other actions use them.        *)
LEMMA TablesShape ==
  ASSUME NamesAgree
  PROVE  /\ DOMAIN tables = 1 .. Len(tables) /\ Len(tables) \in Nat
         /\ \A i \in DOMAIN tables : /\ tables[i] \in TableRecords
                                     /\ tables[i].name \in Names
                                     /\ tables[i].index \in Files \cup {NoIndex}
<1>1. tables \in Seq(TableRecords)
  BY DEF NamesAgree, TypeOK
<1>2. DOMAIN tables = 1 .. Len(tables) /\ Len(tables) \in Nat /\ \A i \in DOMAIN tables : tables[i] \in TableRecords
  BY <1>1
<1> QED
  BY <1>2 DEF TableRecords, NoIndex

(* A new table is registered at the position it then has.                  *)
LEMMA CreateTableKeepsNames ==
  ASSUME NamesAgree, NEW raw \in RawNames, CreateTable(raw)
  PROVE  NamesAgree'
<1> DEFINE n == ToLower(raw)
<1> USE DEF CreateTable, storeVars, historyVars
<1>1. n \in Names
  BY DEF Names
<1>2. [name |-> n, index |-> NoIndex] \in TableRecords
  BY <1>1 DEF TableRecords, NoIndex
<1>3. /\ tables \in Seq(TableRecords)
      /\ DOMAIN tables = 1 .. Len(tables) /\ Len(tables) \in Nat
  BY TablesShape DEF NamesAgree, TypeOK
<1>4. /\ tables' \in Seq(TableRecords)
      /\ Len(tables') = Len(tables) + 1 /\ DOMAIN tables' = 1 .. Len(tables) + 1
      /\ \A i \in 1 .. Len(tables) : tables'[i] = tables[i]
      /\ tables'[Len(tables) + 1].name = n
  BY <1>2, <1>3
<1>5. /\ DOMAIN table_name_idx' = DOMAIN table_name_idx \cup {n}
      /\ table_name_idx'[n] = Len(tables)
      /\ \A m \in DOMAIN table_name_idx : table_name_idx'[m] = table_name_idx[m]
  BY DEF Registered
<1> HIDE DEF n
<1>6. TypeOK'
  <2>1. \A m \in DOMAIN table_name_idx' : table_name_idx'[m] \in Nat
    BY <1>3, <1>5 DEF NamesAgree, TypeOK
  <2>2. DOMAIN table_name_idx' \subseteq Names
    BY <1>1, <1>5 DEF NamesAgree, TypeOK
  <2> QED
    BY <1>4, <2>1, <2>2, Zenon DEF NamesAgree, TypeOK
<1>7. SavedDistinct'
  BY DEF NamesAgree, SavedDistinct
<1>8. TablesAreKnown'
  BY <1>3, <1>4, <1>5 DEF NamesAgree, TablesAreKnown
<1>9. RowsBelong'
  BY DEF NamesAgree, RowsBelong
<1> QED
  BY <1>6, <1>7, <1>8, <1>9 DEF NamesAgree

(* A failed create_table misleads the map, but no name of a table.         *)
LEMMA CreateTableThrowsKeepsNames ==
  ASSUME NamesAgree, NEW raw \in RawNames, CreateTableThrows(raw)
  PROVE  NamesAgree'
<1> DEFINE n == ToLower(raw)
<1> USE DEF CreateTableThrows, storeVars, historyVars
<1>1. n \in Names
  BY DEF Names
<1>2. /\ DOMAIN table_name_idx' = DOMAIN table_name_idx \cup {n}
      /\ table_name_idx'[n] = Len(tables)
      /\ \A m \in DOMAIN table_name_idx : table_name_idx'[m] = table_name_idx[m]
  BY DEF Registered
<1>3. Len(tables) \in Nat
  BY TablesShape
<1> HIDE DEF n
<1>4. TypeOK'
  <2>1. \A m \in DOMAIN table_name_idx' : table_name_idx'[m] \in Nat
    BY <1>2, <1>3 DEF NamesAgree, TypeOK
  <2>2. DOMAIN table_name_idx' \subseteq Names
    BY <1>1, <1>2 DEF NamesAgree, TypeOK
  <2> QED
    BY <2>1, <2>2, Zenon DEF NamesAgree, TypeOK
<1>5. SavedDistinct' /\ TablesAreKnown'
  BY <1>2 DEF NamesAgree, SavedDistinct, TablesAreKnown
<1>6. RowsBelong'
  BY DEF NamesAgree, RowsBelong
<1> QED
  BY <1>4, <1>5, <1>6 DEF NamesAgree

(* create_index touches the index of a table, never its name, and adds no  *)
(* row to any file.                                                        *)
LEMMA CreateIndexKeepsNames ==
  ASSUME NamesAgree, NEW raw \in RawNames, CreateIndex(raw)
  PROVE  NamesAgree'
<1> DEFINE n == ToLower(raw)
           p == PositionOf(n)
<1> USE DEF CreateIndex, historyVars
<1>1. n \in Names /\ IndexFileOf(n) \in Files
  BY FilesAreDistinct DEF Names
<1>2. /\ tables \in Seq(TableRecords)
      /\ DOMAIN tables = 1 .. Len(tables) /\ Len(tables) \in Nat
      /\ \A i \in DOMAIN tables : tables[i] \in TableRecords
  BY TablesShape DEF NamesAgree, TypeOK
<1>3. p \in DOMAIN tables
  BY <1>2 DEF Known, PositionOf, NamesAgree, TypeOK
<1>4. tables' = [tables EXCEPT ![p].index = IndexFileOf(n)]
  OBVIOUS
<1> HIDE DEF n, p
<1>5. /\ DOMAIN tables' = DOMAIN tables
      /\ \A i \in DOMAIN tables : tables'[i].name = tables[i].name /\ tables'[i] \in TableRecords
  BY <1>1, <1>2, <1>3, <1>4 DEF TableRecords
<1>6. tables' \in Seq(TableRecords) /\ Len(tables') = Len(tables)
  <2>1. tables' \in [1 .. Len(tables) -> TableRecords]
    BY <1>2, <1>4, <1>5
  <2> QED
    BY <1>2, <2>1
<1>7. /\ cached' \in [Files -> SUBSET (Rows \cup {Root})]
      /\ \A f \in Files : cached'[f] \ {Root} = cached[f] \ {Root}
  <2>1. cached \in [Files -> SUBSET (Rows \cup {Root})]
    BY DEF NamesAgree, TypeOK
  <2>2. cached' = [f \in Files |-> IF f \in {IndexFileOf(n)} THEN cached[f] \cup {Root} ELSE cached[f]]
    BY DEF n, WithRoots
  <2> QED
    BY <2>1, <2>2
<1>8. TypeOK'
  BY <1>6, <1>7, Zenon DEF NamesAgree, TypeOK
<1>9. SavedDistinct' /\ TablesAreKnown'
  BY <1>5 DEF NamesAgree, SavedDistinct, TablesAreKnown
<1>10. RowsBelong'
  <2>1. \A f \in Files : (cached'[f] \cup disk'[f]) \ {Root} = (cached[f] \cup disk[f]) \ {Root}
    BY <1>7
  <2>2. owner' = owner
    OBVIOUS
  <2> QED
    BY <2>1, <2>2, RowsBelongKept DEF NamesAgree
<1> QED
  BY <1>8, <1>9, <1>10 DEF NamesAgree

(* A row goes into the file of the table the map names for it: the one the *)
(* client named.                                                           *)
LEMMA InsertKeepsNames ==
  ASSUME NamesAgree, NEW raw \in RawNames, NEW r \in Rows, Insert(raw, r)
  PROVE  NamesAgree'
<1> DEFINE n == ToLower(raw)
           g == HeapFileOf(tables[PositionOf(n)].name)
<1> USE DEF Insert, processVars
<1>1. n \in Names
  BY DEF Names
<1>2. PositionOf(n) \in DOMAIN tables
  BY TablesShape DEF Known, PositionOf, NamesAgree, TypeOK
<1>3. g \in Files
  BY <1>2, TablesShape, FilesAreDistinct
<1>4. cached' = [cached EXCEPT ![g] = @ \cup {r}] /\ owner' = [owner EXCEPT ![r] = IF n \in TableNames THEN n ELSE Astray]
  BY DEF InsertPosition
<1>5. g = HeapFileOf(tables[PositionOf(n)].name) /\ tables[PositionOf(n)].name \in Names
  BY <1>2, TablesShape
<1>6. n \in TableNames => tables[PositionOf(n)].name = n
  BY <1>2, TablesShape DEF NamesAgree, TablesAreKnown, TableNames, PositionOf
<1> HIDE DEF n, g
<1>7. /\ cached \in [Files -> SUBSET (Rows \cup {Root})]
      /\ disk \in [Files -> SUBSET (Rows \cup {Root})]
      /\ owner \in [Rows -> Names \cup {Nobody, Astray}]
  BY DEF NamesAgree, TypeOK
<1>8. TypeOK'
  <2>1. cached' \in [Files -> SUBSET (Rows \cup {Root})]
    <3>1. cached[g] \cup {r} \in SUBSET (Rows \cup {Root})
      BY <1>3, <1>7
    <3> QED
      BY <3>1, <1>3, <1>4, <1>7
  <2>2. owner' \in [Rows -> Names \cup {Nobody, Astray}]
    BY <1>1, <1>4, <1>7
  <2> QED
    BY <2>1, <2>2, Zenon DEF NamesAgree, TypeOK
<1>9. SavedDistinct' /\ TablesAreKnown'
  BY DEF NamesAgree, SavedDistinct, TablesAreKnown
<1>10. RowsBelong'
  <2> SUFFICES ASSUME NEW m \in Names,
                      NEW f \in {HeapFileOf(m), IndexFileOf(m), ReopenedIndexFileOf(m)},
                      NEW x \in (cached'[f] \cup disk'[f]) \ {Root}
               PROVE  f = HeapFileOf(m) /\ owner'[x] \in {m, Astray}
    BY DEF RowsBelong
  <2>1. f \in Files /\ x \in Rows /\ disk' = disk
    BY <1>3, <1>4, <1>7, FilesAreDistinct
  <2>2. CASE f = g /\ x = r
    <3>1. f = HeapFileOf(m) /\ m = tables[PositionOf(n)].name
      BY <2>2, <1>5, FilesAreDistinct
    <3>2. owner'[x] = IF n \in TableNames THEN n ELSE Astray
      BY <2>2, <1>4, <1>7
    <3> QED
      BY <3>1, <3>2, <1>6
  <2>3. CASE ~ (f = g /\ x = r)
    <3>1. x \in (cached[f] \cup disk[f]) \ {Root}
      BY <2>1, <2>3, <1>3, <1>4, <1>7
    <3>2. f = HeapFileOf(m) /\ owner[x] \in {m, Astray}
      BY <3>1 DEF NamesAgree, RowsBelong
    <3>3. m # Nobody /\ Astray # Nobody /\ owner[r] = Nobody
      BY NamesAreSequences, OwnersAssumption, <1>4 DEF n
    <3> QED
      BY <3>2, <3>3, <2>1, <1>4, <1>7
  <2> QED
    BY <2>2, <2>3
<1> QED
  BY <1>8, <1>9, <1>10 DEF NamesAgree

-----------------------------------------------------------------------------
(* Writing a page back moves rows from a file to the same file.            *)
LEMMA WriteBackKeepsNames ==
  ASSUME NamesAgree, NEW g \in Files, NEW page \in SUBSET cached[g], WriteBack(g, page)
  PROVE  NamesAgree'
<1> USE DEF WriteBack, processVars, historyVars
<1>1. /\ cached \in [Files -> SUBSET (Rows \cup {Root})]
      /\ disk \in [Files -> SUBSET (Rows \cup {Root})]
  BY DEF NamesAgree, TypeOK
<1>2. TypeOK'
  <2>1. disk' \in [Files -> SUBSET (Rows \cup {Root})]
    BY <1>1
  <2> QED
    BY <2>1, Zenon DEF NamesAgree, TypeOK
<1>3. SavedDistinct' /\ TablesAreKnown'
  BY DEF NamesAgree, SavedDistinct, TablesAreKnown
<1>4. \A f \in Files : (cached'[f] \cup disk'[f]) \ {Root} \subseteq (cached[f] \cup disk[f]) \ {Root}
  BY <1>1
<1>5. RowsBelong'
  BY <1>4, RowsBelongKept DEF NamesAgree
<1> QED
  BY <1>2, <1>3, <1>5 DEF NamesAgree

(* A catalog.dat that ~Catalog wrote names no table twice, because the map *)
(* has one position for each name.                                         *)
LEMMA SaveKeepsNames == ASSUME NamesAgree, SaveBegins \/ SaveEnds PROVE NamesAgree'
<1> USE DEF SaveBegins, SaveEnds, historyVars
<1>1. /\ Saved \in Seq([name : Names, indexed : BOOLEAN])
      /\ \A i, j \in DOMAIN Saved : Saved[i].name = Saved[j].name => i = j
  <2>1. DOMAIN Saved = 1 .. Len(tables) /\ Len(tables) \in Nat
    BY TablesShape DEF Saved
  <2>2. ASSUME NEW i \in DOMAIN Saved
        PROVE  Saved[i].name = tables[i].name /\ Saved[i] \in [name : Names, indexed : BOOLEAN]
    <3>1. tables[i].name \in Names
      BY <2>1, TablesShape
    <3>2. Saved[i] = [name |-> tables[i].name, indexed |-> tables[i].index # NoIndex]
      BY <2>1, TablesShape DEF Saved
    <3> QED
      BY <3>1, <3>2
  <2>3. Saved \in [1 .. Len(tables) -> [name : Names, indexed : BOOLEAN]]
    BY <2>1, <2>2 DEF Saved
  <2>4. ASSUME NEW i \in DOMAIN Saved, NEW j \in DOMAIN Saved, Saved[i].name = Saved[j].name
        PROVE  i = j
    <3>1. i \in DOMAIN tables /\ j \in DOMAIN tables /\ tables[i].name = tables[j].name
      BY <2>1, <2>2, <2>4, TablesShape
    <3>2. i - 1 = j - 1
      BY <3>1 DEF NamesAgree, TablesAreKnown
    <3> QED
      BY <3>2, <2>1
  <2>5. Saved \in Seq([name : Names, indexed : BOOLEAN])
    <3> DEFINE S == [name : Names, indexed : BOOLEAN]
    <3>1. Saved \in [1 .. Len(tables) -> S]
      BY <2>3
    <3> HIDE DEF S
    <3>2. Saved \in Seq(S)
      BY <3>1, <2>1
    <3> QED
      BY <3>2 DEF S
  <2> QED
    BY <2>4, <2>5
<1>2. TypeOK'
  <2>1. catalog_dat' \in Seq([name : Names, indexed : BOOLEAN]) /\ torn' \in BOOLEAN /\ phase' \in Phases
    BY <1>1 DEF NamesAgree, TypeOK, Phases
  <2> QED
    BY <2>1, Zenon DEF NamesAgree, TypeOK
<1>3. SavedDistinct'
  BY <1>1 DEF NamesAgree, SavedDistinct
<1>4. TablesAreKnown' /\ RowsBelong'
  BY DEF NamesAgree, TablesAreKnown, RowsBelong
<1> QED
  BY <1>2, <1>3, <1>4 DEF NamesAgree

(* A process that ended has no tables and no map.                          *)
LEMMA EndKeepsNames == ASSUME NamesAgree, ShutdownEnds \/ Crash PROVE NamesAgree'
<1> USE DEF ShutdownEnds, Crash, ProcessEnds, storeVars
<1>1. tables' = <<>> /\ DOMAIN tables' = {} /\ DOMAIN table_name_idx' = {}
  OBVIOUS
<1>2. /\ cached \in [Files -> SUBSET (Rows \cup {Root})]
      /\ disk \in [Files -> SUBSET (Rows \cup {Root})]
  BY DEF NamesAgree, TypeOK
<1>3. (cached' = cached \/ cached' = disk) /\ disk' = disk /\ owner' = owner
  OBVIOUS
<1>4. TypeOK'
  <2>1. tables' \in Seq(TableRecords) /\ DOMAIN table_name_idx' \subseteq Names
    BY <1>1
  <2>2. \A n \in DOMAIN table_name_idx' : table_name_idx'[n] \in Nat
    BY <1>1
  <2>3. cached' \in [Files -> SUBSET (Rows \cup {Root})] /\ orderly' \in BOOLEAN /\ phase' \in Phases
    BY <1>2, <1>3 DEF Phases
  <2>4. UNCHANGED <<catalog_dat, torn, disk, owner>>
    OBVIOUS
  <2> QED
    BY <2>1, <2>2, <2>3, <2>4, Zenon DEF NamesAgree, TypeOK
<1>5. SavedDistinct' /\ TablesAreKnown'
  BY <1>1 DEF NamesAgree, SavedDistinct, TablesAreKnown
<1>6. \A f \in Files : (cached'[f] \cup disk'[f]) \ {Root} \subseteq (cached[f] \cup disk[f]) \ {Root}
  BY <1>3
<1>7. RowsBelong'
  BY <1>3, <1>6, RowsBelongKept DEF NamesAgree
<1> QED
  BY <1>4, <1>5, <1>7 DEF NamesAgree

(* A constructor that throws changes nothing but the phase.                *)
LEMMA StartThrowsKeepsNames == ASSUME NamesAgree, StartThrows PROVE NamesAgree'
<1> USE DEF StartThrows, storeVars, historyVars
<1>1. TypeOK'
  BY Zenon DEF NamesAgree, TypeOK, Phases
<1>2. SavedDistinct' /\ TablesAreKnown' /\ RowsBelong'
  BY DEF NamesAgree, SavedDistinct, TablesAreKnown, RowsBelong
<1> QED
  BY <1>1, <1>2 DEF NamesAgree

-----------------------------------------------------------------------------
(* No step leaves the inductive invariant.                                 *)
LEMMA NextNamesAgree == NamesAgree /\ [Next]_vars => NamesAgree'
<1> SUFFICES ASSUME NamesAgree, [Next]_vars PROVE NamesAgree'
  OBVIOUS
<1>1. CASE Start
  BY <1>1, StartKeepsNames
<1>2. CASE StartThrows
  BY <1>2, StartThrowsKeepsNames
<1>3. CASE \E raw \in RawNames : CreateTable(raw)
  BY <1>3, CreateTableKeepsNames
<1>4. CASE \E raw \in RawNames : CreateTableThrows(raw)
  BY <1>4, CreateTableThrowsKeepsNames
<1>5. CASE \E raw \in RawNames : CreateIndex(raw)
  BY <1>5, CreateIndexKeepsNames
<1>6. CASE \E raw \in RawNames, r \in Rows : Insert(raw, r)
  BY <1>6, InsertKeepsNames
<1>7. CASE \E f \in Files : \E page \in SUBSET cached[f] : WriteBack(f, page)
  BY <1>7, WriteBackKeepsNames
<1>8. CASE SaveBegins \/ SaveEnds
  BY <1>8, SaveKeepsNames
<1>9. CASE ShutdownEnds \/ Crash
  BY <1>9, EndKeepsNames
<1>10. CASE UNCHANGED vars
  <2> USE <1>10 DEF vars, processVars, storeVars, historyVars
  <2>1. TypeOK'
    BY Zenon DEF NamesAgree, TypeOK
  <2>2. SavedDistinct' /\ TablesAreKnown' /\ RowsBelong'
    BY DEF NamesAgree, SavedDistinct, TablesAreKnown, RowsBelong
  <2> QED
    BY <2>1, <2>2 DEF NamesAgree
<1> QED
  BY <1>1, <1>2, <1>3, <1>4, <1>5, <1>6, <1>7, <1>8, <1>9, <1>10 DEF Next

-----------------------------------------------------------------------------
(***************************************************************************)
(* What the last orderly end left.                                         *)
(***************************************************************************)
Running == phase \in {"up", "saving", "flushing"}

(* A table t of the last orderly end is still there.                       *)
InSaved(t) == \E i \in DOMAIN catalog_dat : catalog_dat[i].name = t.name /\ (t.indexed => catalog_dat[i].indexed)
InTables(t) == \E i \in DOMAIN tables : tables[i].name = t.name /\ (t.indexed => tables[i].index # NoIndex)
OnDisk(t) == t.name \in Names /\ t.rows \subseteq disk[HeapFileOf(t.name)]

(* The conjuncts of KeptIsDurable by name.                                 *)
LEMMA KeptParts ==
  KeptIsDurable <=>
    /\ \A f \in Files : disk[f] \subseteq cached[f]
    /\ \A t \in kept : OnDisk(t) /\ InSaved(t) /\ (Running => InTables(t))
    /\ phase = "flushing" => catalog_dat = Saved
    /\ orderly /\ phase \in {"down", "refused"} => View(Loaded(catalog_dat), disk) = kept
  BY DEF KeptIsDurable, OnDisk, InSaved, InTables, Running

(* A step that changes no file but by adding to it, and neither catalog.dat *)
(* nor what is kept, and that drops no table.                              *)
LEMMA KeptWhenNothingGoes ==
  ASSUME KeptIsDurable, UNCHANGED <<catalog_dat, kept>>,
         \A f \in Files : disk[f] \subseteq disk'[f] /\ disk'[f] \subseteq cached'[f],
         Running' => \A t \in kept : InSaved(t) /\ (Running => InTables(t)) => InTables(t)',
         phase' = "flushing" => catalog_dat = Saved',
         orderly' /\ phase' \in {"down", "refused"} => orderly /\ phase \in {"down", "refused"} /\ disk' = disk
  PROVE  KeptIsDurable'
<1>1. \A f \in Files : disk'[f] \subseteq cached'[f]
  OBVIOUS
<1>2. ASSUME NEW t \in kept
      PROVE  OnDisk(t)' /\ InSaved(t)' /\ (Running' => InTables(t)')
  <2>1. OnDisk(t) /\ InSaved(t) /\ (Running => InTables(t))
    BY KeptParts
  <2>2. HeapFileOf(t.name) \in Files
    BY <2>1, FilesAreDistinct DEF OnDisk
  <2>3. OnDisk(t)'
    BY <2>1, <2>2 DEF OnDisk
  <2>4. InSaved(t)'
    BY <2>1 DEF InSaved
  <2> QED
    BY <2>1, <2>3, <2>4
<1>3. (phase = "flushing" => catalog_dat = Saved)'
  OBVIOUS
<1>4. (orderly /\ phase \in {"down", "refused"} => View(Loaded(catalog_dat), disk) = kept)'
  <2> SUFFICES ASSUME orderly', phase' \in {"down", "refused"}
               PROVE  View(Loaded(catalog_dat'), disk') = kept'
    OBVIOUS
  <2>1. View(Loaded(catalog_dat), disk) = kept /\ disk' = disk
    BY KeptParts
  <2> QED
    BY <2>1
<1>5. \A t \in kept' : OnDisk(t)' /\ InSaved(t)' /\ (Running' => InTables(t)')
  BY <1>2
<1> QED
  BY <1>1, <1>3, <1>4, <1>5 DEF KeptIsDurable, OnDisk, InSaved, InTables, Running

(* What the constructor makes of catalog.dat shows what catalog.dat says.  *)
LEMMA LoadedView ==
  ASSUME NEW saved \in Seq([name : Names, indexed : BOOLEAN]), NEW content
  PROVE  /\ DOMAIN Loaded(saved) = DOMAIN saved
         /\ \A i \in DOMAIN saved :
              /\ saved[i].name \in Names /\ saved[i].indexed \in BOOLEAN
              /\ Loaded(saved)[i].name = saved[i].name
              /\ Loaded(saved)[i].index # NoIndex <=> saved[i].indexed
<1>1. DOMAIN Loaded(saved) = DOMAIN saved /\ DOMAIN saved = 1 .. Len(saved)
  BY DEF Loaded
<1>2. ASSUME NEW i \in DOMAIN saved
      PROVE  /\ saved[i].name \in Names /\ saved[i].indexed \in BOOLEAN
             /\ Loaded(saved)[i].name = saved[i].name
             /\ Loaded(saved)[i].index # NoIndex <=> saved[i].indexed
  <2> DEFINE S == [name : Names, indexed : BOOLEAN]
  <2>1. saved[i] \in S
    <3> HIDE DEF S
    <3>1. saved \in Seq(S)
      BY DEF S
    <3> QED
      BY <1>1, <3>1
  <2>2. saved[i].name \in Names /\ saved[i].indexed \in BOOLEAN
    BY <2>1
  <2>3. Loaded(saved)[i] = [name |-> saved[i].name,
                            index |-> IF saved[i].indexed THEN ReopenedIndexFileOf(saved[i].name) ELSE NoIndex]
    BY DEF Loaded
  <2>4. ReopenedIndexFileOf(saved[i].name) # NoIndex
    BY <2>2, FilesAreDistinct
  <2> QED
    BY <2>2, <2>3, <2>4
<1> QED
  BY <1>1, <1>2

LEMMA StartKeepsKept == ASSUME IInv, Start PROVE KeptIsDurable'
<1>1. /\ phase' = "up" /\ tables' = Loaded(catalog_dat) /\ cached' = WithRoots(disk, TreesOf(tables'))
      /\ UNCHANGED <<catalog_dat, disk, orderly, kept>>
  BY DEF Start, historyVars
<1>2. catalog_dat \in Seq([name : Names, indexed : BOOLEAN])
  BY DEF IInv, NamesAgree, TypeOK
<1>3. ASSUME NEW t \in kept, InSaved(t) PROVE InTables(t)'
  <2>1. PICK i \in DOMAIN catalog_dat : catalog_dat[i].name = t.name /\ (t.indexed => catalog_dat[i].indexed)
    BY <1>3 DEF InSaved
  <2>2. i \in DOMAIN tables' /\ tables'[i].name = t.name /\ (t.indexed => tables'[i].index # NoIndex)
    BY <1>1, <1>2, <2>1, LoadedView
  <2> QED
    BY <2>2 DEF InTables
<1>4. \A f \in Files : disk'[f] \subseteq cached'[f]
  BY <1>1 DEF WithRoots
<1>5. KeptIsDurable
  BY DEF IInv
<1> QED
  BY <1>1, <1>3, <1>4, <1>5, KeptWhenNothingGoes

(* Steps that leave the tables a process has where they are.               *)
LEMMA TablesStayIn ==
  ASSUME NEW t, InTables(t), DOMAIN tables \subseteq DOMAIN tables',
         \A i \in DOMAIN tables : tables'[i].name = tables[i].name
                                  /\ (tables[i].index # NoIndex => tables'[i].index # NoIndex)
  PROVE  InTables(t)'
  BY DEF InTables

LEMMA ClientKeepsKept ==
  ASSUME IInv,
         \/ StartThrows
         \/ \E raw \in RawNames : CreateTable(raw) \/ CreateTableThrows(raw) \/ CreateIndex(raw)
         \/ \E raw \in RawNames, r \in Rows : Insert(raw, r)
         \/ \E f \in Files : \E page \in SUBSET cached[f] : WriteBack(f, page)
         \/ SaveBegins
         \/ UNCHANGED vars
  PROVE  KeptIsDurable'
<1>1. KeptIsDurable /\ \A f \in Files : disk[f] \subseteq cached[f]
  BY KeptParts DEF IInv
<1>2. /\ tables \in Seq(TableRecords) /\ DOMAIN tables = 1 .. Len(tables) /\ Len(tables) \in Nat
      /\ cached \in [Files -> SUBSET (Rows \cup {Root})] /\ disk \in [Files -> SUBSET (Rows \cup {Root})]
  BY TablesShape DEF IInv, NamesAgree, TypeOK
<1>3. \A t \in kept : Running => InTables(t)
  BY <1>1, KeptParts
<1>4. CASE StartThrows
  <2>1. phase' = "refused" /\ phase \in {"down", "refused"} /\ UNCHANGED <<tables, catalog_dat, cached, disk, orderly, kept>>
    BY <1>4 DEF StartThrows, storeVars, historyVars
  <2>2. ~ Running'
    BY <2>1 DEF Running
  <2> QED
    BY <1>1, <2>1, <2>2, KeptWhenNothingGoes
<1>5. ASSUME NEW raw \in RawNames, CreateTable(raw) PROVE KeptIsDurable'
  <2>1. /\ phase = "up" /\ phase' = "up" /\ tables' = Append(tables, [name |-> ToLower(raw), index |-> NoIndex])
        /\ UNCHANGED <<catalog_dat, cached, disk, orderly, kept>>
    BY <1>5 DEF CreateTable, storeVars, historyVars
  <2>2. DOMAIN tables \subseteq DOMAIN tables' /\ \A i \in DOMAIN tables : tables'[i] = tables[i]
    BY <1>2, <2>1
  <2>3. \A t \in kept : InTables(t)'
    BY <1>3, <2>1, <2>2, TablesStayIn DEF Running
  <2> QED
    BY <1>1, <2>1, <2>3, KeptWhenNothingGoes
<1>6. ASSUME NEW raw \in RawNames, CreateTableThrows(raw) PROVE KeptIsDurable'
  <2>1. phase = "up" /\ phase' = "up" /\ UNCHANGED <<tables, catalog_dat, cached, disk, orderly, kept>>
    BY <1>6 DEF CreateTableThrows, storeVars, historyVars
  <2>2. \A t \in kept : InTables(t)'
    BY <1>3, <2>1 DEF Running, InTables
  <2> QED
    BY <1>1, <2>1, <2>2, KeptWhenNothingGoes
<1>7. ASSUME NEW raw \in RawNames, CreateIndex(raw) PROVE KeptIsDurable'
  <2> DEFINE n == ToLower(raw)
             p == PositionOf(n)
  <2>1. /\ phase = "up" /\ phase' = "up" /\ tables' = [tables EXCEPT ![p].index = IndexFileOf(n)]
        /\ cached' = WithRoots(cached, {IndexFileOf(n)}) /\ n \in Names
        /\ UNCHANGED <<catalog_dat, disk, orderly, kept>>
    BY <1>7 DEF CreateIndex, historyVars, Names
  <2>2. IndexFileOf(n) # NoIndex
    BY <2>1, FilesAreDistinct
  <2> HIDE DEF n, p
  <2>3. DOMAIN tables' = DOMAIN tables
    BY <1>2, <2>1
  <2>4. ASSUME NEW i \in DOMAIN tables
        PROVE  tables'[i].name = tables[i].name /\ (tables[i].index # NoIndex => tables'[i].index # NoIndex)
    <3>1. tables[i] \in [name : Names, index : Files \cup {<<>>}]
      BY <1>2, TablesShape DEF IInv, TableRecords
    <3>2. tables'[i] = IF i = p THEN [tables[i] EXCEPT !.index = IndexFileOf(n)] ELSE tables[i]
      BY <1>2, <2>1
    <3> QED
      BY <2>2, <3>1, <3>2
  <2>5. \A t \in kept : InTables(t)'
    BY <1>3, <2>1, <2>3, <2>4, TablesStayIn DEF Running
  <2>6. \A f \in Files : disk'[f] \subseteq cached'[f]
    BY <1>1, <2>1 DEF WithRoots
  <2> QED
    BY <1>1, <2>1, <2>5, <2>6, KeptWhenNothingGoes
<1>8. ASSUME NEW raw \in RawNames, NEW r \in Rows, Insert(raw, r) PROVE KeptIsDurable'
  <2>1. /\ phase = "up" /\ phase' = "up" /\ UNCHANGED <<tables, catalog_dat, disk, orderly, kept>>
        /\ \E g : cached' = [cached EXCEPT ![g] = @ \cup {r}]
    BY <1>8 DEF Insert, processVars
  <2>2. \A f \in Files : cached[f] \subseteq cached'[f]
    BY <1>2, <2>1
  <2>3. \A t \in kept : InTables(t)'
    BY <1>3, <2>1 DEF Running, InTables
  <2> QED
    BY <1>1, <2>1, <2>2, <2>3, KeptWhenNothingGoes
<1>9. ASSUME NEW g \in Files, NEW page \in SUBSET cached[g], WriteBack(g, page) PROVE KeptIsDurable'
  <2>1. /\ phase \in {"up", "flushing"} /\ phase' = phase /\ disk' = [disk EXCEPT ![g] = @ \cup page]
        /\ UNCHANGED <<tables, catalog_dat, cached, orderly, kept>>
    BY <1>9 DEF WriteBack, processVars, historyVars
  <2>2. \A f \in Files : disk[f] \subseteq disk'[f] /\ disk'[f] \subseteq cached'[f]
    BY <1>1, <1>2, <2>1
  <2>3. \A t \in kept : InTables(t)'
    BY <1>3, <2>1 DEF Running, InTables
  <2>4. phase' = "flushing" => catalog_dat = Saved'
    BY <1>1, <2>1, KeptParts DEF Saved
  <2> QED
    BY <1>1, <2>1, <2>2, <2>3, <2>4, KeptWhenNothingGoes
<1>10. CASE SaveBegins
  <2>1. phase = "up" /\ phase' = "saving" /\ UNCHANGED <<tables, catalog_dat, cached, disk, orderly, kept>>
    BY <1>10 DEF SaveBegins, historyVars
  <2>2. \A t \in kept : InTables(t)'
    BY <1>3, <2>1 DEF Running, InTables
  <2> QED
    BY <1>1, <2>1, <2>2, KeptWhenNothingGoes
<1>11. CASE UNCHANGED vars
  <2>1. UNCHANGED <<phase, tables, catalog_dat, cached, disk, orderly, kept>>
    BY <1>11 DEF vars, processVars, storeVars, historyVars
  <2>2. Running' => \A t \in kept : InTables(t)'
    BY <1>3, <2>1 DEF Running, InTables
  <2>3. phase' = "flushing" => catalog_dat = Saved'
    BY <1>1, <2>1, KeptParts DEF Saved
  <2> QED
    BY <1>1, <2>1, <2>2, <2>3, KeptWhenNothingGoes
<1> QED
  BY <1>4, <1>5, <1>6, <1>7, <1>8, <1>9, <1>10, <1>11

(* catalog.dat gets every table the process has, so every one it began     *)
(* with.                                                                   *)
LEMMA SaveEndsKeepsKept == ASSUME IInv, SaveEnds PROVE KeptIsDurable'
<1>1. /\ phase = "saving" /\ phase' = "flushing" /\ catalog_dat' = Saved
      /\ UNCHANGED <<tables, cached, disk, orderly, kept>>
  BY DEF SaveEnds, historyVars
<1>2. KeptIsDurable
  BY DEF IInv
<1>3. ASSUME NEW t \in kept PROVE OnDisk(t)' /\ InSaved(t)' /\ InTables(t)'
  <2>1. OnDisk(t) /\ InTables(t)
    BY <1>1, <1>2, KeptParts DEF Running
  <2>2. PICK i \in DOMAIN tables : tables[i].name = t.name /\ (t.indexed => tables[i].index # NoIndex)
    BY <2>1 DEF InTables
  <2>3. i \in DOMAIN Saved /\ Saved[i].name = t.name /\ (t.indexed => Saved[i].indexed)
    BY <2>2 DEF Saved
  <2>4. InSaved(t)'
    BY <1>1, <2>3 DEF InSaved
  <2>5. OnDisk(t)' /\ InTables(t)'
    BY <1>1, <2>1 DEF OnDisk, InTables
  <2> QED
    BY <2>4, <2>5
<1>4. catalog_dat' = Saved'
  BY <1>1 DEF Saved
<1>5. \A f \in Files : disk'[f] \subseteq cached'[f]
  BY <1>1, <1>2, KeptParts
<1>6. \A t \in kept' : OnDisk(t)' /\ InSaved(t)' /\ (Running' => InTables(t)')
  BY <1>1, <1>3
<1>7. ~ (orderly' /\ phase' \in {"down", "refused"})
  BY <1>1
<1> QED
  BY <1>4, <1>5, <1>6, <1>7 DEF KeptIsDurable, OnDisk, InSaved, InTables, Running

(* catalog.dat as it will be saved.                                        *)
LEMMA SavedShape ==
  ASSUME IInv
  PROVE  /\ Saved \in Seq([name : Names, indexed : BOOLEAN]) /\ DOMAIN Saved = DOMAIN tables
         /\ \A i \in DOMAIN tables :
              /\ Saved[i].name = tables[i].name
              /\ Saved[i].indexed <=> tables[i].index # NoIndex
<1>1. /\ DOMAIN tables = 1 .. Len(tables) /\ Len(tables) \in Nat
      /\ \A i \in DOMAIN tables : tables[i].name \in Names
  BY TablesShape DEF IInv
<1>2. \A i \in DOMAIN tables : Saved[i] \in [name : Names, indexed : BOOLEAN]
  BY <1>1 DEF Saved
<1>3. DOMAIN Saved = DOMAIN tables
  BY DEF Saved
<1>4. \A i \in DOMAIN tables : Saved[i] = [name |-> tables[i].name, indexed |-> tables[i].index # NoIndex]
  BY DEF Saved
<1>5. \A i \in DOMAIN tables : Saved[i].name = tables[i].name /\ (Saved[i].indexed <=> tables[i].index # NoIndex)
  <2> SUFFICES ASSUME NEW i \in DOMAIN tables
               PROVE  Saved[i].name = tables[i].name /\ (Saved[i].indexed <=> tables[i].index # NoIndex)
    OBVIOUS
  <2>1. CASE tables[i].index = NoIndex
    <3>1. (tables[i].index # NoIndex) = FALSE
      BY <2>1
    <3>2. Saved[i] = [name |-> tables[i].name, indexed |-> FALSE]
      BY <1>4, <3>1
    <3> QED
      BY <2>1, <3>2
  <2>2. CASE tables[i].index # NoIndex
    <3>1. (tables[i].index # NoIndex) = TRUE
      BY <2>2
    <3>2. Saved[i] = [name |-> tables[i].name, indexed |-> TRUE]
      BY <1>4, <3>1
    <3> QED
      BY <2>2, <3>2
  <2> QED
    BY <2>1, <2>2
<1>6. Saved \in [1 .. Len(tables) -> [name : Names, indexed : BOOLEAN]]
  BY <1>1, <1>2 DEF Saved
<1> DEFINE S == [name : Names, indexed : BOOLEAN]
<1>7. Saved \in [1 .. Len(tables) -> S]
  BY <1>6
<1> HIDE DEF S
<1>8. Saved \in Seq(S)
  BY <1>1, <1>7
<1> QED
  BY <1>3, <1>5, <1>8 DEF S

(* Two lists of tables with the same names and indexes look the same.      *)
LEMMA SameView ==
  ASSUME NEW s, NEW u, NEW c, NEW d, DOMAIN s = DOMAIN u,
         \A i \in DOMAIN s : /\ s[i].name = u[i].name
                             /\ s[i].index # NoIndex <=> u[i].index # NoIndex
                             /\ c[HeapFileOf(s[i].name)] = d[HeapFileOf(s[i].name)]
  PROVE  View(s, c) = View(u, d)
<1> DEFINE V(tbls, content, i) ==
             [name |-> tbls[i].name, indexed |-> tbls[i].index # NoIndex, rows |-> content[HeapFileOf(tbls[i].name)]]
<1>1. ASSUME NEW i \in DOMAIN s PROVE V(s, c, i) = V(u, d, i)
  <2>1. (s[i].index # NoIndex) = (u[i].index # NoIndex)
    OBVIOUS
  <2> QED
    BY <2>1
<1>2. View(s, c) = {V(s, c, i) : i \in DOMAIN s} /\ View(u, d) = {V(u, d, i) : i \in DOMAIN u}
  BY DEF View
<1> HIDE DEF V
<1> QED
  BY <1>1, <1>2

LEMMA EndKeepsKept == ASSUME IInv, ShutdownEnds \/ Crash PROVE KeptIsDurable'
<1>1. /\ KeptIsDurable /\ phase' = "down" /\ catalog_dat' = catalog_dat /\ disk' = disk
  BY DEF IInv, ShutdownEnds, Crash, ProcessEnds, storeVars
<1>2. CASE ShutdownEnds
  <2>1. /\ phase = "flushing" /\ orderly' = TRUE /\ kept' = View(tables, cached) /\ cached' = cached
        /\ \A f \in Files : disk[f] = cached[f]
    BY <1>2 DEF ShutdownEnds, ProcessEnds, storeVars
  <2>2. catalog_dat = Saved
    BY <1>1, <2>1, KeptParts
  <2>3. /\ Saved \in Seq([name : Names, indexed : BOOLEAN]) /\ DOMAIN Saved = DOMAIN tables
        /\ \A i \in DOMAIN tables : /\ Saved[i].name = tables[i].name /\ tables[i].name \in Names
                                    /\ Saved[i].indexed <=> tables[i].index # NoIndex
    BY SavedShape, TablesShape DEF IInv
  <2>4. \A i \in DOMAIN tables : HeapFileOf(tables[i].name) \in Files
    BY <2>3, FilesAreDistinct
  <2>5. /\ DOMAIN Loaded(Saved) = DOMAIN tables
        /\ \A i \in DOMAIN tables : /\ Loaded(Saved)[i].name = tables[i].name
                                    /\ Loaded(Saved)[i].index # NoIndex <=> tables[i].index # NoIndex
    BY <2>3, LoadedView
  <2>6. View(Loaded(Saved), disk) = View(tables, cached)
    BY <2>1, <2>4, <2>5, SameView
  <2>7. ASSUME NEW t \in kept' PROVE OnDisk(t)' /\ InSaved(t)'
    <3>1. PICK i \in DOMAIN tables :
            t = [name |-> tables[i].name, indexed |-> tables[i].index # NoIndex, rows |-> cached[HeapFileOf(tables[i].name)]]
      BY <2>1 DEF View
    <3>2. t.name = tables[i].name /\ (t.indexed => tables[i].index # NoIndex) /\ t.rows = cached[HeapFileOf(tables[i].name)]
      BY <3>1
    <3>3. OnDisk(t)'
      BY <1>1, <2>1, <2>3, <2>4, <3>2 DEF OnDisk
    <3>4. InSaved(t)'
      BY <1>1, <2>2, <2>3, <3>2 DEF InSaved
    <3> QED
      BY <3>3, <3>4
  <2>8. /\ \A f \in Files : disk'[f] \subseteq cached'[f]
        /\ \A t \in kept' : OnDisk(t)' /\ InSaved(t)' /\ (Running' => InTables(t)')
        /\ (phase = "flushing" => catalog_dat = Saved)'
        /\ (orderly /\ phase \in {"down", "refused"} => View(Loaded(catalog_dat), disk) = kept)'
    BY <1>1, <2>1, <2>2, <2>6, <2>7 DEF Running
  <2> QED
    BY <2>8 DEF KeptIsDurable, OnDisk, InSaved, InTables, Running
<1>3. CASE Crash
  <2>1. cached' = disk /\ orderly' = FALSE /\ kept' = kept
    BY <1>3 DEF Crash
  <2>2. ~ Running' /\ phase' # "flushing"
    BY <1>1 DEF Running
  <2> QED
    BY <1>1, <2>1, <2>2, KeptWhenNothingGoes
<1> QED
  BY <1>2, <1>3

LEMMA InitKept == Init => KeptIsDurable
<1> SUFFICES ASSUME Init PROVE KeptIsDurable
  OBVIOUS
<1>1. View(Loaded(<<>>), disk) = {}
  BY DEF View, Loaded
<1> QED
  BY <1>1 DEF Init, KeptIsDurable

(* No step leaves the inductive invariant.                                 *)
LEMMA InitIInv == Init => IInv
  BY InitNamesAgree, InitKept DEF IInv

LEMMA NextIInv == IInv /\ [Next]_vars => IInv'
<1> SUFFICES ASSUME IInv, [Next]_vars PROVE IInv'
  OBVIOUS
<1>1. NamesAgree'
  BY NextNamesAgree DEF IInv
<1>2. KeptIsDurable'
  BY StartKeepsKept, ClientKeepsKept, SaveEndsKeepsKept, EndKeepsKept DEF Next
<1> QED
  BY <1>1, <1>2 DEF IInv

(* The inductive invariant holds in every reachable state.                 *)
THEOREM Invariance == Spec => []IInv
<1>1. Init => IInv
  BY InitIInv
<1>2. IInv /\ [Next]_vars => IInv'
  BY NextIInv
<1> QED
  BY <1>1, <1>2, PTL DEF Spec

(* Type correctness: tables, map and files always have their shape         *)
(* (catalog.h:50-54).                                                      *)
THEOREM TypeCorrect == Spec => []TypeOK
<1>1. IInv => TypeOK
  BY DEF IInv, NamesAgree
<1> QED
  BY <1>1, Invariance, PTL

(* Every table is in the map at its position, even after a create_table    *)
(* that failed, so get_table gives the table it is asked for               *)
(* (catalog.cc:54-85, 161-191).                                            *)
THEOREM TablesStayKnown == Spec => []TablesAreKnown
<1>1. IInv => TablesAreKnown
  BY DEF IInv, NamesAgree
<1> QED
  BY <1>1, Invariance, PTL

(* The rows of a table are those clients inserted into it, through every   *)
(* restart and crash, but for rows under the name of a failed create_table *)
(* (catalog.cc:161-178, 193-209).                                          *)
THEOREM RowsStayHome == Spec => []RowsBelong
<1>1. IInv => RowsBelong
  BY DEF IInv, NamesAgree
<1> QED
  BY <1>1, Invariance, PTL

(* What the last orderly end left survives any number of crashes and       *)
(* restarts: a process has at least its tables and their rows, and has an  *)
(* index where there was one (catalog.cc:38-121, system.cc:22-26).  What   *)
(* was in the trees is lost, and a torn catalog.dat is one no process can  *)
(* read.                                                                   *)
THEOREM CrashesKeepLastShutdown == Spec => []CrashKeepsLastShutdown
<1>1. ASSUME IInv, phase = "up", NEW t \in kept
      PROVE  \E u \in View(tables, cached) : t.name = u.name /\ (t.indexed => u.indexed) /\ t.rows \subseteq u.rows
  <2>1. OnDisk(t) /\ InTables(t) /\ \A f \in Files : disk[f] \subseteq cached[f]
    BY <1>1, KeptParts DEF IInv, Running
  <2>2. PICK i \in DOMAIN tables : tables[i].name = t.name /\ (t.indexed => tables[i].index # NoIndex)
    BY <2>1 DEF InTables
  <2> DEFINE u == [name |-> tables[i].name, indexed |-> tables[i].index # NoIndex, rows |-> cached[HeapFileOf(tables[i].name)]]
  <2>3. u \in View(tables, cached)
    BY DEF View
  <2>4. HeapFileOf(t.name) \in Files
    BY <2>1, FilesAreDistinct DEF OnDisk
  <2>5. t.name = u.name /\ (t.indexed => u.indexed) /\ t.rows \subseteq u.rows
    BY <2>1, <2>2, <2>4 DEF OnDisk
  <2> QED
    BY <2>3, <2>5
<1>2. IInv => CrashKeepsLastShutdown
  BY <1>1 DEF CrashKeepsLastShutdown
<1> QED
  BY <1>2, Invariance, PTL

(* A process that starts after an orderly end sees exactly the tables and  *)
(* rows that end left, and an index on the tables that had one, whose tree *)
(* is new (catalog.cc:38-121, system.cc:22-26).                            *)
THEOREM RestartsKeepDatabase == Spec => RestartKeepsDatabase
<1>1. ASSUME IInv, Start, orderly PROVE View(tables', cached') = kept
  <2>1. /\ tables' = Loaded(catalog_dat) /\ cached' = WithRoots(disk, TreesOf(tables'))
        /\ phase \in {"down", "refused"}
    BY <1>1 DEF Start
  <2>2. View(Loaded(catalog_dat), disk) = kept
    BY <1>1, <2>1, KeptParts DEF IInv
  <2>3. catalog_dat \in Seq([name : Names, indexed : BOOLEAN])
    BY <1>1 DEF IInv, NamesAgree, TypeOK
  <2>4. /\ DOMAIN tables' = DOMAIN catalog_dat
        /\ \A i \in DOMAIN catalog_dat : /\ catalog_dat[i].name \in Names
                                         /\ tables'[i].name = catalog_dat[i].name
    BY <2>1, <2>3, LoadedView
  <2>5. \A i \in DOMAIN catalog_dat :
          tables'[i].index = IF catalog_dat[i].indexed THEN ReopenedIndexFileOf(catalog_dat[i].name) ELSE NoIndex
    BY <2>1 DEF Loaded
  <2>6. ASSUME NEW i \in DOMAIN catalog_dat
        PROVE  cached'[HeapFileOf(tables'[i].name)] = disk[HeapFileOf(tables'[i].name)]
    <3>1. HeapFileOf(tables'[i].name) \notin TreesOf(tables')
      BY <2>4, <2>5, FilesAreDistinct DEF TreesOf
    <3>2. HeapFileOf(tables'[i].name) \in Files
      BY <2>4, FilesAreDistinct
    <3> QED
      BY <2>1, <3>1, <3>2 DEF WithRoots
  <2>7. View(tables', cached') = View(Loaded(catalog_dat), disk)
    BY <2>1, <2>4, <2>6, SameView
  <2> QED
    BY <2>2, <2>7
<1> QED
  BY <1>1, Invariance, PTL DEF Spec, RestartKeepsDatabase

-----------------------------------------------------------------------------
(* The programs                                                            *)

(* The steps of a program on the catalog, or beside it.                    *)
LEMMA StepsAreTheCatalogs == ASSUME [ProgramsNext]_allVars PROVE [Next]_vars
<1>1. CASE \E n \in RawNames : \E main \in Mains(n) : Launch(main)
  BY <1>1 DEF Launch, Next
<1>2. CASE LaunchThrows \/ Return \/ SaveEnds \/ Returned \/ Killed
  BY <1>2 DEF LaunchThrows, Return, Returned, Killed, Next
<1>3. CASE \E n \in RawNames : Found(n) \/ NotFound(n) \/ Scanned(n)
  BY <1>3 DEF Found, NotFound, Scanned
<1>4. CASE \E n \in RawNames : Created(n) \/ Indexed(n) \/ CreateThrows(n)
  BY <1>4 DEF Created, Indexed, CreateThrows, Next
<1>5. CASE \E n \in RawNames, r \in Rows : Inserted(n, r)
  BY <1>5 DEF Inserted, Next
<1>6. CASE Declines \/ ScanThrows
  BY <1>6 DEF Declines, ScanThrows
<1>7. CASE \E f \in Files : \E page \in (SUBSET (cached[f] \ disk[f])) \ {{}} : WriteBack(f, page) /\ UNCHANGED programVars
  <2>1. PICK f \in Files : \E page \in (SUBSET (cached[f] \ disk[f])) \ {{}} : WriteBack(f, page)
    BY <1>7
  <2>2. PICK page \in (SUBSET (cached[f] \ disk[f])) \ {{}} : WriteBack(f, page)
    BY <2>1
  <2>3. page \in SUBSET cached[f]
    OBVIOUS
  <2> QED
    BY <2>2, <2>3 DEF Next
<1>8. CASE UNCHANGED allVars
  BY <1>8 DEF allVars
<1> QED
  BY <1>1, <1>2, <1>3, <1>4, <1>5, <1>6, <1>7, <1>8 DEF ProgramsNext

(* Each program is a client of the catalog: its runs are runs of Catalog.  *)
THEOREM ProgramsUseCatalog == ProgramsSpec => Spec
<1>1. ProgramsInit => Init
  BY DEF ProgramsInit
<1>2. [ProgramsNext]_allVars => [Next]_vars
  BY StepsAreTheCatalogs
<1> QED
  BY <1>1, <1>2, PTL DEF ProgramsSpec, Spec

-----------------------------------------------------------------------------
CallRecords == [op : Operations, table : RawNames]

(* The calls that are left when the first has returned.                    *)
LEMMA TailShape ==
  ASSUME NEW S, NEW s \in Seq(S), s # <<>>
  PROVE  /\ Tail(s) \in Seq(S) /\ Head(s) = s[1] /\ Len(s) \in Nat /\ Len(s) >= 1
         /\ Len(Tail(s)) = Len(s) - 1
         /\ DOMAIN s = 1 .. Len(s) /\ DOMAIN Tail(s) = 1 .. Len(s) - 1
         /\ \A i \in DOMAIN Tail(s) : i + 1 \in DOMAIN s /\ i + 1 # 1 /\ Tail(s)[i] = s[i + 1]
OBVIOUS

(* Two calls make a sequence of them.                                      *)
LEMMA PairShape ==
  ASSUME NEW a \in CallRecords, NEW b \in CallRecords, NEW s, s = <<a, b>>
  PROVE  /\ s \in Seq(CallRecords) /\ Len(s) = 2 /\ s # <<>> /\ s[Len(s)] = b
         /\ \A i \in DOMAIN s : (i = 1 /\ s[i] = a) \/ (i = 2 /\ s[i] = b)
OBVIOUS

(* So do five.                                                             *)
LEMMA FiveShape ==
  ASSUME NEW S, NEW a \in S, NEW b \in S, NEW c \in S, NEW d \in S, NEW e \in S
  PROVE  <<a, b, c, d, e>> \in Seq(S)
OBVIOUS

(* What each program that can be started has to do.                        *)
LEMMA MainsShape ==
  ASSUME NEW n \in RawNames, NEW main \in Mains(n)
  PROVE  /\ main[1] \in {"create_table", "insert", "print_table", "create_db", "test_lab2", "client"}
         /\ main[2] \in Seq(CallRecords)
         /\ main[1] # "test_lab2" => \A i \in DOMAIN main[2] : main[2][i].op \in {"no table", "a table"} => i = 1
         /\ main[1] = "print_table" => \A i \in DOMAIN main[2] : main[2][i].op \in {"a table", "scan"}
         /\ main[1] = "client" => main[2] = <<>>
         /\ main[1] = "insert" => main[2] # <<>> /\ main[2][Len(main[2])].op = "insert"
<1>1. \A op \in Operations, m \in RawNames : Call(op, m) \in CallRecords /\ Call(op, m).op = op
  BY DEF Call, CallRecords
<1>2. LabTable \in RawNames /\ DbTables \in Seq(RawNames)
  BY ProgramTablesAssumption
<1> DEFINE ensures == [i \in 1 .. Len(DbTables) |-> Call("ensure", DbTables[i])]
           inserts == [i \in 1 .. Len(DbTables) |-> Call("insert", DbTables[i])]
<1>3. /\ CreateDbCalls \in Seq(CallRecords)
      /\ \A i \in DOMAIN CreateDbCalls : CreateDbCalls[i].op \in {"ensure", "insert"}
  <2>1. Len(DbTables) \in Nat /\ \A i \in 1 .. Len(DbTables) : DbTables[i] \in RawNames
    BY <1>2
  <2>2. /\ ensures \in [1 .. Len(DbTables) -> CallRecords]
        /\ inserts \in [1 .. Len(DbTables) -> CallRecords]
    BY <2>1, <1>1 DEF Operations
  <2>3. \A i \in 1 .. Len(DbTables) : ensures[i].op = "ensure" /\ inserts[i].op = "insert"
    BY <2>1, <1>1 DEF Operations
  <2>4. CreateDbCalls = ensures \o inserts
    BY DEF CreateDbCalls
  <2> HIDE DEF ensures, inserts
  <2>5. /\ ensures \in Seq(CallRecords) /\ Len(ensures) = Len(DbTables)
        /\ inserts \in Seq(CallRecords) /\ Len(inserts) = Len(DbTables)
    BY <2>1, <2>2
  <2>6. /\ ensures \o inserts \in Seq(CallRecords)
        /\ DOMAIN (ensures \o inserts) = 1 .. Len(ensures) + Len(inserts)
        /\ \A i \in 1 .. Len(ensures) + Len(inserts) :
             (ensures \o inserts)[i] = IF i <= Len(ensures) THEN ensures[i] ELSE inserts[i - Len(ensures)]
    BY <2>5
  <2>7. ASSUME NEW i \in DOMAIN (ensures \o inserts)
        PROVE  (ensures \o inserts)[i].op \in {"ensure", "insert"}
    <3>1. CASE i <= Len(ensures)
      BY <3>1, <2>1, <2>3, <2>5, <2>6
    <3>2. CASE ~ (i <= Len(ensures))
      <4>1. i - Len(ensures) \in 1 .. Len(DbTables)
        BY <3>2, <2>1, <2>5, <2>6
      <4>2. (ensures \o inserts)[i] = inserts[i - Len(ensures)]
        BY <3>2, <2>6
      <4> QED
        BY <4>1, <4>2, <2>3
    <3> QED
      BY <3>1, <3>2
  <2> QED
    BY <2>4, <2>6, <2>7
<1>4. CASE main = <<"create_db", CreateDbCalls>>
  <2>1. main[1] = "create_db" /\ main[2] = CreateDbCalls
    BY <1>4
  <2> QED
    BY <2>1, <1>3
<1>5. CASE main = <<"create_table", CreateTableCalls(n)>>
  <2>1. \E a, b \in CallRecords : a.op = "no table" /\ b.op = "create" /\ CreateTableCalls(n) = <<a, b>>
    <3>1. /\ Call("no table", n) \in CallRecords /\ Call("no table", n).op = "no table"
          /\ Call("create", n) \in CallRecords /\ Call("create", n).op = "create"
      BY <1>1 DEF Operations
    <3>2. CreateTableCalls(n) = <<Call("no table", n), Call("create", n)>>
      BY DEF CreateTableCalls, NoTable
    <3> QED
      BY <3>1, <3>2
  <2>2. PICK a, b \in CallRecords : a.op = "no table" /\ b.op = "create" /\ CreateTableCalls(n) = <<a, b>>
    BY <2>1
  <2>3. main[1] = "create_table" /\ main[2] = <<a, b>>
    BY <1>5, <2>2
  <2>4. /\ main[2] \in Seq(CallRecords) /\ Len(main[2]) = 2 /\ main[2] # <<>> /\ main[2][Len(main[2])] = b
        /\ \A i \in DOMAIN main[2] : (i = 1 /\ main[2][i] = a) \/ (i = 2 /\ main[2][i] = b)
    BY <2>3, PairShape
  <2> QED
    BY <2>2, <2>3, <2>4
<1>6. CASE main = <<"insert", InsertCalls(n)>>
  <2>1. \E a, b \in CallRecords : a.op = "a table" /\ b.op = "insert" /\ InsertCalls(n) = <<a, b>>
    <3>1. /\ Call("a table", n) \in CallRecords /\ Call("a table", n).op = "a table"
          /\ Call("insert", n) \in CallRecords /\ Call("insert", n).op = "insert"
      BY <1>1 DEF Operations
    <3>2. InsertCalls(n) = <<Call("a table", n), Call("insert", n)>>
      BY DEF InsertCalls, ATable
    <3> QED
      BY <3>1, <3>2
  <2>2. PICK a, b \in CallRecords : a.op = "a table" /\ b.op = "insert" /\ InsertCalls(n) = <<a, b>>
    BY <2>1
  <2>3. main[1] = "insert" /\ main[2] = <<a, b>>
    BY <1>6, <2>2
  <2>4. /\ main[2] \in Seq(CallRecords) /\ Len(main[2]) = 2 /\ main[2] # <<>> /\ main[2][Len(main[2])] = b
        /\ \A i \in DOMAIN main[2] : (i = 1 /\ main[2][i] = a) \/ (i = 2 /\ main[2][i] = b)
    BY <2>3, PairShape
  <2> QED
    BY <2>2, <2>3, <2>4
<1>7. CASE main = <<"print_table", PrintTableCalls(n)>>
  <2>1. \E a, b \in CallRecords : a.op = "a table" /\ b.op = "scan" /\ PrintTableCalls(n) = <<a, b>>
    <3>1. /\ Call("a table", n) \in CallRecords /\ Call("a table", n).op = "a table"
          /\ Call("scan", n) \in CallRecords /\ Call("scan", n).op = "scan"
      BY <1>1 DEF Operations
    <3>2. PrintTableCalls(n) = <<Call("a table", n), Call("scan", n)>>
      BY DEF PrintTableCalls, ATable
    <3> QED
      BY <3>1, <3>2
  <2>2. PICK a, b \in CallRecords : a.op = "a table" /\ b.op = "scan" /\ PrintTableCalls(n) = <<a, b>>
    BY <2>1
  <2>3. main[1] = "print_table" /\ main[2] = <<a, b>>
    BY <1>7, <2>2
  <2>4. /\ main[2] \in Seq(CallRecords) /\ Len(main[2]) = 2 /\ main[2] # <<>> /\ main[2][Len(main[2])] = b
        /\ \A i \in DOMAIN main[2] : (i = 1 /\ main[2][i] = a) \/ (i = 2 /\ main[2][i] = b)
    BY <2>3, PairShape
  <2> QED
    BY <2>2, <2>3, <2>4
<1>8. CASE main = <<"test_lab2", TestLab2Calls>>
  <2>1. main[1] = "test_lab2" /\ main[2] = TestLab2Calls
    BY <1>8
  <2>2. TestLab2Calls \in Seq(CallRecords)
    <3>1. \A op \in Operations : Call(op, LabTable) \in CallRecords
      BY <1>1, <1>2
    <3>2. /\ Call("no table", LabTable) \in CallRecords /\ Call("create", LabTable) \in CallRecords
          /\ Call("index", LabTable) \in CallRecords /\ Call("insert", LabTable) \in CallRecords
          /\ Call("scan", LabTable) \in CallRecords
      BY <3>1 DEF Operations
    <3>3. TestLab2Calls =
            <<Call("no table", LabTable), Call("create", LabTable), Call("index", LabTable),
              Call("insert", LabTable), Call("scan", LabTable)>>
      BY DEF TestLab2Calls, NoTable
    <3> QED
      BY <3>2, <3>3, FiveShape
  <2>3. main[2] \in Seq(CallRecords)
    BY <2>1, <2>2, Zenon
  <2> QED
    BY <2>1, <2>3
<1>9. CASE main = <<"client", <<>>>>
  BY <1>9
<1> QED
  BY <1>4, <1>5, <1>6, <1>7, <1>8, <1>9 DEF Mains

-----------------------------------------------------------------------------
(* A call that returns leaves the calls after it.                          *)
LEMMA ReturnsShape ==
  ASSUME calls \in Seq(CallRecords), NEW op, NEW n, Returns(op, n)
  PROVE  /\ calls' \in Seq(CallRecords)
         /\ UNCHANGED <<program, status, found>>
         /\ calls # <<>> /\ calls[1].op = op /\ Len(calls) \in Nat /\ Len(calls) >= 1
         /\ Len(calls') = Len(calls) - 1 /\ DOMAIN calls = 1 .. Len(calls)
         /\ \A i \in DOMAIN calls' : i \in Nat /\ i + 1 \in DOMAIN calls /\ i + 1 # 1 /\ calls'[i] = calls[i + 1]
<1>1. calls # <<>> /\ Head(calls) = Call(op, n) /\ calls' = Tail(calls) /\ UNCHANGED <<program, status, found>>
  BY DEF Returns
<1>2. Call(op, n).op = op
  BY DEF Call
<1> QED
  BY <1>1, <1>2, TailShape

(* The shape of the variables of the programs.                             *)
ProgramShape ==
  /\ program \in {"create_table", "insert", "print_table", "create_db", "test_lab2", "client", "none"}
  /\ calls \in Seq(CallRecords)
  /\ status \in {"success", "failure"}
  /\ added \subseteq Rows

LEMMA ShapeIsType == ProgramsTypeOK <=> TypeOK /\ ProgramShape
BY DEF ProgramsTypeOK, ProgramShape, CallRecords

LEMMA ShapeKept == ASSUME ProgramShape, [ProgramsNext]_allVars PROVE ProgramShape'
<1>1. CASE \E n \in RawNames : \E main \in Mains(n) : Launch(main)
  <2>1. PICK n \in RawNames : \E main \in Mains(n) : Launch(main)
    BY <1>1
  <2>2. PICK main \in Mains(n) : Launch(main)
    BY <2>1
  <2>3. program' = main[1] /\ calls' = main[2] /\ status' = "success" /\ added' = {}
    BY <2>2 DEF Launch
  <2> QED
    BY <2>3, MainsShape DEF ProgramShape
<1>2. CASE UNCHANGED programVars
  BY <1>2 DEF programVars, ProgramShape
<1>3. CASE \E op, n : Returns(op, n) /\ UNCHANGED added
  BY <1>3, ReturnsShape DEF ProgramShape
<1>4. CASE UNCHANGED <<program, calls, status, found, added>>
  BY <1>4 DEF ProgramShape
<1>5. CASE \E n \in RawNames, r \in Rows : Inserted(n, r)
  <2>1. PICK n \in RawNames, r \in Rows : Inserted(n, r)
    BY <1>5
  <2>2. added' = added \cup {r}
    BY <2>1 DEF Inserted
  <2>3. CASE Returns("insert", n)
    BY <2>2, <2>3, ReturnsShape DEF ProgramShape
  <2>4. CASE UNCHANGED <<program, calls, status, found>>
    BY <2>2, <2>4 DEF ProgramShape
  <2> QED
    BY <2>1, <2>3, <2>4 DEF Inserted, OrClient
<1>6. CASE \E s \in {"success", "failure"} : Ends(s)
  BY <1>6 DEF Ends, ProgramShape
<1>7. CASE NoProgram
  BY <1>7 DEF NoProgram, ProgramShape
<1>8. ASSUME NEW n \in RawNames, Found(n) \/ NotFound(n) \/ Scanned(n) \/ Created(n) \/ Indexed(n)
      PROVE  ProgramShape'
  BY <1>8, <1>3, <1>4 DEF Found, NotFound, Scanned, Created, Indexed, OrClient
<1>9. ASSUME NEW n \in RawNames, CreateThrows(n)
      PROVE  ProgramShape'
  BY <1>9, <1>2, <1>6 DEF CreateThrows
<1>10. CASE Declines \/ ScanThrows
  BY <1>10, <1>6 DEF Declines, ScanThrows
<1>11. CASE LaunchThrows \/ Return \/ (SaveEnds /\ UNCHANGED programVars)
  BY <1>11, <1>2 DEF LaunchThrows, Return
<1>12. CASE Returned \/ Killed
  BY <1>12, <1>7 DEF Returned, Killed
<1>13. CASE \E f \in Files : \E page \in (SUBSET (cached[f] \ disk[f])) \ {{}} : WriteBack(f, page) /\ UNCHANGED programVars
  BY <1>13, <1>2
<1>14. CASE UNCHANGED allVars
  BY <1>14, <1>2 DEF allVars
<1> QED
  BY <1>1, <1>5, <1>8, <1>9, <1>10, <1>11, <1>12, <1>13, <1>14 DEF ProgramsNext

-----------------------------------------------------------------------------
(* FoundStays while the process runs.                                      *)
Stays ==
  /\ \A t \in found : \E i \in DOMAIN tables :
       /\ tables[i].name = t.name
       /\ t.indexed => tables[i].index # NoIndex
       /\ cached[HeapFileOf(t.name)] = t.rows \cup {r \in added : owner[r] = t.name}
  /\ \A n \in DOMAIN table_name_idx : \A t \in found :
       Known(n) /\ tables[PositionOf(n)].name = t.name => t.name = n
  /\ \A r \in added : owner[r] # Nobody

(* What a process finds it has, and each name leads to its table.          *)
LEMMA LaunchStays ==
  ASSUME IInv, NEW n \in RawNames, NEW main \in Mains(n), Launch(main)
  PROVE  Stays'
<1>1. /\ tables' = Loaded(catalog_dat) /\ table_name_idx' = NameIndexOf(tables')
      /\ found' = View(tables', cached') /\ added' = {}
  BY DEF Launch, Start
<1>2. /\ catalog_dat \in Seq([name : Names, indexed : BOOLEAN])
      /\ \A i, j \in DOMAIN catalog_dat : catalog_dat[i].name = catalog_dat[j].name => i = j
  BY DEF IInv, NamesAgree, TypeOK, SavedDistinct
<1>3. \A m \in DOMAIN table_name_idx' : tables'[table_name_idx'[m] + 1].name = m
  BY <1>1, <1>2, LoadedSound
<1>4. ASSUME NEW t \in found'
      PROVE  \E i \in DOMAIN tables' :
               /\ tables'[i].name = t.name
               /\ t.indexed => tables'[i].index # NoIndex
               /\ cached'[HeapFileOf(t.name)] = t.rows \cup {r \in added' : owner'[r] = t.name}
  <2>1. PICK i \in DOMAIN tables' :
          t = [name |-> tables'[i].name, indexed |-> tables'[i].index # NoIndex,
               rows |-> cached'[HeapFileOf(tables'[i].name)]]
    BY <1>1 DEF View
  <2>2. {r \in added' : owner'[r] = t.name} = {}
    BY <1>1
  <2> QED
    BY <2>1, <2>2
<1> QED
  BY <1>1, <1>3, <1>4 DEF Stays, Known, PositionOf

(* Steps that change no table, no name and no row.                         *)
LEMMA IdleStays ==
  ASSUME Stays, UNCHANGED <<tables, table_name_idx, cached, owner, found, added>>
  PROVE  Stays'
BY DEF Stays, Known, PositionOf

(* The names the process found are in use, so a new one is another, and it *)
(* leads past the tables there were.                                       *)
LEMMA CreatedStays ==
  ASSUME IInv, Stays, NEW raw \in RawNames, CreateTable(raw) \/ CreateTableThrows(raw), UNCHANGED <<found, added>>
  PROVE  Stays'
<1> DEFINE n == ToLower(raw)
<1>1. /\ n \notin DOMAIN table_name_idx
      /\ table_name_idx' = Registered(n)
      /\ tables' = tables \/ tables' = Append(tables, [name |-> n, index |-> NoIndex])
      /\ UNCHANGED <<cached, owner>>
  BY DEF CreateTable, CreateTableThrows, storeVars, historyVars
<1> HIDE DEF n
<1>2. DOMAIN tables = 1 .. Len(tables) /\ Len(tables) \in Nat /\ tables \in Seq(TableRecords)
  BY TablesShape DEF IInv, NamesAgree, TypeOK
<1>3. /\ DOMAIN table_name_idx' = DOMAIN table_name_idx \cup {n}
      /\ table_name_idx'[n] = Len(tables)
      /\ \A m \in DOMAIN table_name_idx : table_name_idx'[m] = table_name_idx[m] /\ table_name_idx[m] \in Nat
  BY <1>1 DEF Registered, IInv, NamesAgree, TypeOK
<1>4. /\ Len(tables') \in Nat /\ DOMAIN tables' = 1 .. Len(tables')
      /\ Len(tables') = Len(tables) \/ (Len(tables') = Len(tables) + 1 /\ tables'[Len(tables) + 1].name = n)
      /\ Len(tables') >= Len(tables)
      /\ \A i \in 1 .. Len(tables) : i \in DOMAIN tables' /\ tables'[i] = tables[i]
  BY <1>1, <1>2
<1>5. /\ Len(tables) \in Nat /\ Len(tables') \in Nat
      /\ Len(tables') = Len(tables) \/ Len(tables') = Len(tables) + 1
  BY <1>2, <1>4
<1>6. \A t \in found : t.name # n
  BY <1>1 DEF Stays, IInv, NamesAgree, TablesAreKnown
<1>7. ASSUME NEW t \in found
      PROVE  \E i \in DOMAIN tables' :
               /\ tables'[i].name = t.name
               /\ t.indexed => tables'[i].index # NoIndex
               /\ cached'[HeapFileOf(t.name)] = t.rows \cup {r \in added' : owner'[r] = t.name}
  <2>1. PICK i \in DOMAIN tables :
          /\ tables[i].name = t.name
          /\ t.indexed => tables[i].index # NoIndex
          /\ cached[HeapFileOf(t.name)] = t.rows \cup {r \in added : owner[r] = t.name}
    BY DEF Stays
  <2>2. i \in DOMAIN tables' /\ tables'[i] = tables[i]
    BY <1>2, <1>4
  <2>3. {r \in added' : owner'[r] = t.name} = {r \in added : owner[r] = t.name}
    BY <1>1
  <2> QED
    BY <1>1, <2>1, <2>2, <2>3
<1>8. ASSUME NEW m \in DOMAIN table_name_idx', NEW t \in found,
             table_name_idx'[m] < Len(tables'), tables'[table_name_idx'[m] + 1].name = t.name
      PROVE  t.name = m
  <2>1. CASE m = n
    <3>1. Len(tables) < Len(tables') /\ tables'[Len(tables) + 1].name = t.name
      BY <2>1, <1>3, <1>8
    <3>2. Len(tables') # Len(tables)
      BY <3>1, <1>5
    <3>3. tables'[Len(tables) + 1].name = n
      BY <3>2, <1>4
    <3>4. t.name = n
      BY <3>1, <3>3
    <3> QED
      BY <3>4, <1>6
  <2>2. CASE m # n
    <3>1. m \in DOMAIN table_name_idx /\ table_name_idx'[m] = table_name_idx[m] /\ table_name_idx[m] \in Nat
      BY <2>2, <1>3
    <3>2. CASE table_name_idx[m] < Len(tables)
      <4>1. table_name_idx[m] + 1 \in 1 .. Len(tables)
        BY <3>1, <3>2, <1>5
      <4>2. tables'[table_name_idx[m] + 1] = tables[table_name_idx[m] + 1]
        BY <4>1, <1>4
      <4> QED
        BY <3>1, <3>2, <4>2, <1>8 DEF Stays, Known, PositionOf
    <3>3. CASE ~ (table_name_idx[m] < Len(tables))
      <4>1. table_name_idx[m] < Len(tables') /\ tables'[table_name_idx[m] + 1].name = t.name
        BY <3>1, <1>8
      <4>2. table_name_idx[m] = Len(tables) /\ Len(tables') # Len(tables)
        BY <3>1, <3>3, <4>1, <1>5
      <4>3. tables'[Len(tables) + 1].name = n
        BY <4>2, <1>4
      <4> QED
        BY <4>1, <4>2, <4>3, <1>6
    <3> QED
      BY <3>2, <3>3
  <2> QED
    BY <2>1, <2>2
<1>9. \A r \in added' : owner'[r] # Nobody
  BY <1>1 DEF Stays
<1> QED
  BY <1>7, <1>8, <1>9 DEF Stays, Known, PositionOf

(* An index takes neither names nor rows away.                             *)
LEMMA IndexedStays ==
  ASSUME IInv, Stays, NEW raw \in RawNames, CreateIndex(raw), UNCHANGED <<found, added>>
  PROVE  Stays'
<1> DEFINE n == ToLower(raw)
           p == PositionOf(n)
<1>1. n \in Names /\ IndexFileOf(n) \in Files /\ IndexFileOf(n) # NoIndex
  BY FilesAreDistinct DEF Names, CreateIndex
<1>2. p \in DOMAIN tables
  BY TablesShape DEF CreateIndex, Known, PositionOf, IInv, NamesAgree, TypeOK
<1>3. /\ tables' = [tables EXCEPT ![p].index = IndexFileOf(n)]
      /\ cached' = WithRoots(cached, {IndexFileOf(n)})
      /\ UNCHANGED <<table_name_idx, owner>>
  BY DEF CreateIndex, historyVars
<1> HIDE DEF n, p
<1>4. /\ DOMAIN tables = 1 .. Len(tables) /\ Len(tables) \in Nat /\ tables \in Seq(TableRecords)
      /\ \A i \in DOMAIN tables : tables[i] \in TableRecords /\ tables[i].name \in Names
  BY TablesShape DEF IInv, NamesAgree, TypeOK
<1>5. /\ DOMAIN tables' = DOMAIN tables /\ Len(tables') = Len(tables)
      /\ \A i \in DOMAIN tables : /\ tables'[i].name = tables[i].name
                                  /\ tables[i].index # NoIndex => tables'[i].index # NoIndex
  BY <1>1, <1>2, <1>3, <1>4 DEF TableRecords
<1>6. \A m \in Names : cached'[HeapFileOf(m)] = cached[HeapFileOf(m)]
  BY <1>1, <1>3, FilesAreDistinct DEF WithRoots
<1>7. ASSUME NEW t \in found
      PROVE  \E i \in DOMAIN tables' :
               /\ tables'[i].name = t.name
               /\ t.indexed => tables'[i].index # NoIndex
               /\ cached'[HeapFileOf(t.name)] = t.rows \cup {r \in added' : owner'[r] = t.name}
  <2>1. PICK i \in DOMAIN tables :
          /\ tables[i].name = t.name
          /\ t.indexed => tables[i].index # NoIndex
          /\ cached[HeapFileOf(t.name)] = t.rows \cup {r \in added : owner[r] = t.name}
    BY DEF Stays
  <2>2. cached'[HeapFileOf(t.name)] = cached[HeapFileOf(t.name)]
    BY <2>1, <1>4, <1>6
  <2>3. {r \in added' : owner'[r] = t.name} = {r \in added : owner[r] = t.name}
    BY <1>3
  <2> QED
    BY <1>5, <2>1, <2>2, <2>3
<1>8. ASSUME NEW m \in DOMAIN table_name_idx', NEW t \in found,
             Known(m)', tables'[PositionOf(m)'].name = t.name
      PROVE  t.name = m
  <2>1. Known(m) /\ PositionOf(m)' = PositionOf(m)
    BY <1>3, <1>5, <1>8 DEF Known, PositionOf
  <2>2. PositionOf(m) \in DOMAIN tables
    BY <2>1, TablesShape DEF Known, PositionOf, IInv, NamesAgree, TypeOK
  <2>3. tables[PositionOf(m)].name = t.name
    BY <2>1, <2>2, <1>5, <1>8
  <2>4. m \in DOMAIN table_name_idx
    BY <1>3
  <2> QED
    BY <2>1, <2>3, <2>4 DEF Stays
<1>9. \A r \in added' : owner'[r] # Nobody
  BY <1>3 DEF Stays
<1> QED
  BY <1>7, <1>8, <1>9 DEF Stays

(* A row inserted into a table the process found is one of that table's    *)
(* name.                                                                   *)
LEMMA InsertedStays ==
  ASSUME IInv, Stays, added \subseteq Rows, NEW raw \in RawNames, NEW r \in Rows, Insert(raw, r),
         found' = found, added' = added \cup {r}
  PROVE  Stays'
<1> DEFINE n == ToLower(raw)
           m == tables[PositionOf(n)].name
<1>1. n \in Names /\ Known(n) /\ n \in DOMAIN table_name_idx /\ n # Nobody
  BY NamesAreSequences DEF Names, Insert, Known
<1>2. PositionOf(n) \in DOMAIN tables
  BY <1>1, TablesShape DEF Known, PositionOf, IInv, NamesAgree, TypeOK
<1>3. m \in Names /\ HeapFileOf(m) \in Files /\ m \in TableNames
  BY <1>2, TablesShape, FilesAreDistinct DEF TableNames, IInv
<1>4. /\ cached' = [cached EXCEPT ![HeapFileOf(m)] = @ \cup {r}]
      /\ owner' = [owner EXCEPT ![r] = IF n \in TableNames THEN n ELSE Astray]
      /\ owner[r] = Nobody
      /\ UNCHANGED <<tables, table_name_idx>>
  BY DEF Insert, InsertPosition, processVars
<1>5. n \in TableNames => m = n
  BY <1>2, TablesShape DEF IInv, NamesAgree, TablesAreKnown, TableNames, PositionOf
<1>6. \A t \in found : m = t.name => m = n
  BY <1>1 DEF Stays
<1> HIDE DEF n, m
<1>7. /\ cached \in [Files -> SUBSET (Rows \cup {Root})]
      /\ owner \in [Rows -> Names \cup {Nobody, Astray}]
  BY DEF IInv, NamesAgree, TypeOK
<1>8. r \notin added
  BY <1>4 DEF Stays
<1>9. \A x \in added : owner'[x] = owner[x]
  BY <1>4, <1>7, <1>8
<1>10. owner'[r] = IF n \in TableNames THEN n ELSE Astray
  BY <1>4, <1>7
<1>11. ASSUME NEW t \in found
       PROVE  \E i \in DOMAIN tables' :
                /\ tables'[i].name = t.name
                /\ t.indexed => tables'[i].index # NoIndex
                /\ cached'[HeapFileOf(t.name)] = t.rows \cup {x \in added' : owner'[x] = t.name}
  <2>1. PICK i \in DOMAIN tables :
          /\ tables[i].name = t.name
          /\ t.indexed => tables[i].index # NoIndex
          /\ cached[HeapFileOf(t.name)] = t.rows \cup {x \in added : owner[x] = t.name}
    BY DEF Stays
  <2>2. t.name \in Names /\ HeapFileOf(t.name) \in Files /\ t.name # Astray
    BY <2>1, TablesShape, FilesAreDistinct, NamesAreSequences DEF IInv
  <2>3. CASE t.name = m
    <3>1. owner'[r] = t.name
      BY <2>3, <1>3, <1>6, <1>10
    <3>2. {x \in added' : owner'[x] = t.name} = {x \in added : owner[x] = t.name} \cup {r}
      BY <3>1, <1>9
    <3>3. cached'[HeapFileOf(t.name)] = cached[HeapFileOf(t.name)] \cup {r}
      BY <2>3, <1>3, <1>4, <1>7
    <3>4. cached'[HeapFileOf(t.name)] = t.rows \cup {x \in added' : owner'[x] = t.name}
      BY <2>1, <3>2, <3>3
    <3> QED
      BY <2>1, <3>4, <1>4
  <2>4. CASE t.name # m
    <3>1. owner'[r] # t.name
      BY <2>2, <2>4, <1>5, <1>10
    <3>2. {x \in added' : owner'[x] = t.name} = {x \in added : owner[x] = t.name}
      BY <3>1, <1>9
    <3>3. HeapFileOf(t.name) # HeapFileOf(m)
      BY <2>2, <2>4, <1>3, FilesAreDistinct
    <3>4. cached'[HeapFileOf(t.name)] = cached[HeapFileOf(t.name)]
      BY <2>2, <3>3, <1>3, <1>4, <1>7
    <3> QED
      BY <2>1, <3>2, <3>4, <1>4
  <2> QED
    BY <2>3, <2>4
<1>12. \A k \in DOMAIN table_name_idx' : \A t \in found' :
         Known(k)' /\ tables'[PositionOf(k)'].name = t.name => t.name = k
  BY <1>4 DEF Stays, Known, PositionOf
<1>13. \A x \in added' : owner'[x] # Nobody
  BY <1>1, <1>9, <1>10, OwnersAssumption DEF Stays
<1> QED
  BY <1>11, <1>12, <1>13 DEF Stays

-----------------------------------------------------------------------------
(* CallsLeft while the process runs.                                       *)
Left ==
  /\ program # "test_lab2" =>
       \A i \in DOMAIN calls : calls[i].op \in {"no table", "a table"} => i = 1 /\ Untouched
  /\ program = "print_table" => Untouched /\ \A i \in DOMAIN calls : calls[i].op \in {"a table", "scan"}
  /\ program = "client" => calls = <<>> /\ status = "success"
  /\ status = "failure" => calls = <<>> /\ (program # "test_lab2" => Untouched)
  /\ program = "insert" /\ status = "success" =>
       added # {} \/ (calls # <<>> /\ calls[Len(calls)].op = "insert")

(* A program starts with a database it has not touched.                    *)
LEMMA LaunchLeft == ASSUME NEW n \in RawNames, NEW main \in Mains(n), Launch(main) PROVE Left'
<1>1. /\ program' = main[1] /\ calls' = main[2] /\ status' = "success" /\ added' = {}
      /\ Untouched'
  BY DEF Launch, Untouched
<1> QED
  BY <1>1, MainsShape DEF Left

(* The calls that change the database come last.                           *)
LEMMA ReturnsLeft ==
  ASSUME ProgramShape, Left, NEW op, NEW n, Returns(op, n),
         op \notin {"ensure", "create", "index", "insert"} => UNCHANGED Untouched,
         added \subseteq added', op = "insert" => added' # {}
  PROVE  Left'
<1>1. program' = program /\ status' = status
  BY ReturnsShape DEF ProgramShape
<1>2. ASSUME NEW i \in DOMAIN calls'
      PROVE  /\ i + 1 \in DOMAIN calls /\ i + 1 # 1 /\ calls'[i] = calls[i + 1]
  BY ReturnsShape DEF ProgramShape
<1>3. 1 \in DOMAIN calls /\ calls # <<>> /\ calls[1].op = op
  BY ReturnsShape DEF ProgramShape
<1>4. program # "client" /\ status # "failure"
  BY <1>3 DEF Left
<1>5. program # "test_lab2" => \A i \in DOMAIN calls' : calls'[i].op \notin {"no table", "a table"}
  BY <1>2 DEF Left
<1>6. program = "print_table" => Untouched' /\ \A i \in DOMAIN calls' : calls'[i].op \in {"a table", "scan"}
  BY <1>2, <1>3 DEF Left
<1>7. ASSUME program = "insert", status = "success", added' = {}
      PROVE  calls' # <<>> /\ calls'[Len(calls')].op = "insert"
  <2>1. added = {} /\ op # "insert"
    BY <1>7
  <2>2. calls[Len(calls)].op = "insert"
    BY <2>1, <1>7 DEF Left
  <2>3. Len(calls) # 1
    BY <2>1, <2>2, <1>3
  <2>4. Len(calls') \in DOMAIN calls' /\ Len(calls') + 1 = Len(calls) /\ calls' # <<>>
    <3>1. /\ Len(calls) \in Nat /\ Len(calls) >= 1 /\ Len(calls') = Len(calls) - 1
          /\ calls' \in Seq(CallRecords)
      BY ReturnsShape DEF ProgramShape
    <3>2. Len(calls') \in Nat /\ Len(calls') >= 1 /\ Len(calls') + 1 = Len(calls)
      BY <2>3, <3>1
    <3>3. DOMAIN calls' = 1 .. Len(calls') /\ calls' # <<>>
      BY <3>1, <3>2
    <3> QED
      BY <3>2, <3>3
  <2>5. calls'[Len(calls')] = calls[Len(calls)]
    BY <2>4, <1>2
  <2> QED
    BY <2>2, <2>4, <2>5
<1> QED
  BY <1>1, <1>4, <1>5, <1>6, <1>7 DEF Left

(* A program that gives up has changed nothing.                            *)
LEMMA GivesUpLeft == ASSUME ProgramShape, Left, Declines \/ ScanThrows PROVE Left'
<1>1. /\ calls # <<>> /\ calls' = <<>> /\ status' = "failure"
      /\ UNCHANGED <<vars, program, found, added>>
  BY DEF Declines, ScanThrows, Ends
<1>2. UNCHANGED Untouched
  BY <1>1 DEF Untouched, View, vars, processVars, storeVars
<1>3. 1 \in DOMAIN calls /\ Head(calls) = calls[1]
  BY <1>1, TailShape DEF ProgramShape
<1>4. program # "test_lab2" => Untouched
  <2>1. CASE Declines
    <3>1. program # "test_lab2" => calls[1].op \in {"no table", "a table"}
      BY <2>1, <1>3 DEF Declines
    <3> QED
      BY <3>1, <1>3 DEF Left
  <2>2. CASE ScanThrows
    BY <2>2 DEF ScanThrows, Left
  <2> QED
    BY <2>1, <2>2
<1>5. program # "client" /\ program' = program
  BY <1>1 DEF Left
<1>6. program = "print_table" => Untouched
  BY DEF Left
<1>7. \A i \in DOMAIN calls' : FALSE
  BY <1>1
<1> QED
  BY <1>1, <1>2, <1>4, <1>5, <1>6, <1>7 DEF Left

(* A client promises nothing, and create_table answers for nothing after   *)
(* an exception.                                                           *)
LEMMA AnyLeft ==
  ASSUME Left, UNCHANGED program,
         \/ program = "client" /\ UNCHANGED <<calls, status>>
         \/ program = "create_table" /\ calls' = <<>> /\ status' = "success"
  PROVE  Left'
<1>1. calls' = <<>> /\ status' = "success" /\ program' # "print_table" /\ program' # "insert"
  BY DEF Left
<1>2. \A i \in DOMAIN calls' : FALSE
  BY <1>1
<1> QED
  BY <1>1, <1>2 DEF Left

(* Steps that change no table, no row and nothing of the program.          *)
LEMMA IdleLeft ==
  ASSUME Left, UNCHANGED <<tables, cached, programVars>>
  PROVE  Left'
BY DEF Left, Untouched, View, programVars

(* Only a program without calls shuts down.                                *)
LEMMA CallsMadeKept == ASSUME CallsMade, [ProgramsNext]_allVars PROVE CallsMade'
<1> SUFFICES ASSUME phase' \in {"saving", "flushing"} PROVE calls' = <<>>
  BY DEF CallsMade
<1>1. CASE UNCHANGED <<phase, calls>>
  BY <1>1 DEF CallsMade
<1>2. CASE Return
  BY <1>2 DEF Return, programVars
<1>3. CASE SaveEnds /\ UNCHANGED programVars
  BY <1>3 DEF SaveEnds, CallsMade, programVars
<1>4. CASE \E f \in Files : \E page \in (SUBSET (cached[f] \ disk[f])) \ {{}} : WriteBack(f, page) /\ UNCHANGED programVars
  BY <1>4, <1>1 DEF WriteBack, processVars, programVars
<1>5. ASSUME NEW n \in RawNames PROVE ~ (\E main \in Mains(n) : Launch(main))
  BY DEF Launch, Start
<1>6. ~ LaunchThrows /\ ~ Returned /\ ~ Killed
  BY DEF LaunchThrows, StartThrows, Returned, ShutdownEnds, Killed, Crash, ProcessEnds
<1>7. ASSUME NEW n \in RawNames
      PROVE  /\ ~ Found(n) /\ ~ NotFound(n) /\ ~ Scanned(n) /\ ~ Created(n) /\ ~ Indexed(n) /\ ~ CreateThrows(n)
             /\ \A r \in Rows : ~ Inserted(n, r)
  BY DEF Found, NotFound, Scanned, Created, Indexed, CreateThrows, Inserted, CreateTable, CreateTableThrows,
         CreateIndex, Insert, vars, processVars
<1>8. ~ Declines /\ ~ ScanThrows
  BY DEF Declines, ScanThrows, vars, processVars
<1>9. CASE UNCHANGED allVars
  BY <1>9, <1>1 DEF allVars, vars, processVars, programVars
<1> QED
  BY <1>2, <1>3, <1>4, <1>5, <1>6, <1>7, <1>8, <1>9 DEF ProgramsNext

-----------------------------------------------------------------------------
Runs == phase \in {"up", "saving", "flushing"}

(* No step of a program takes it out of the inductive invariant.           *)
LEMMA ProgramsNextIInv == ProgramsIInv /\ [ProgramsNext]_allVars => ProgramsIInv'
<1> SUFFICES ASSUME ProgramsIInv, [ProgramsNext]_allVars PROVE ProgramsIInv'
  OBVIOUS
<1>1. IInv /\ ProgramShape /\ (Runs => Stays /\ Left)
  BY ShapeIsType DEF ProgramsIInv, FoundStays, CallsLeft, Runs, Stays, Left
<1>2. IInv' /\ ProgramShape'
  BY <1>1, StepsAreTheCatalogs, NextIInv, ShapeKept
<1>3. Runs' => Stays' /\ Left'
  <2> SUFFICES ASSUME Runs' PROVE Stays' /\ Left'
    OBVIOUS
  <2>1. CASE \E n \in RawNames : \E main \in Mains(n) : Launch(main)
    BY <2>1, <1>1, LaunchStays, LaunchLeft
  <2>2. CASE LaunchThrows
    BY <2>2 DEF LaunchThrows, StartThrows, Runs
  <2>3. CASE \E n \in RawNames : Found(n) \/ NotFound(n) \/ Scanned(n)
    <3>1. PICK n \in RawNames : Found(n) \/ NotFound(n) \/ Scanned(n)
      BY <2>3
    <3>2. /\ Runs /\ UNCHANGED <<vars, found, added>>
          /\ \E op : Returns(op, n) /\ op # "insert"
      BY <3>1 DEF Found, NotFound, Scanned, Returns, Runs
    <3>3. UNCHANGED <<tables, table_name_idx, cached, owner, Untouched>>
      BY <3>2 DEF vars, processVars, storeVars, historyVars, Untouched, View
    <3> QED
      BY <1>1, <3>2, <3>3, IdleStays, ReturnsLeft
  <2>4. CASE \E n \in RawNames : Created(n)
    <3>1. PICK n \in RawNames : Created(n)
      BY <2>4
    <3>2. /\ Runs /\ CreateTable(n) /\ UNCHANGED <<found, added>>
          /\ \/ \E op \in {"create", "ensure"} : Returns(op, n)
             \/ program = "client" /\ UNCHANGED <<program, calls, status>>
      BY <3>1 DEF Created, OrClient, Returns, CreateTable, Runs
    <3> QED
      BY <1>1, <3>2, CreatedStays, ReturnsLeft, AnyLeft
  <2>5. CASE \E n \in RawNames : Indexed(n)
    <3>1. PICK n \in RawNames : Indexed(n)
      BY <2>5
    <3>2. /\ Runs /\ CreateIndex(n) /\ UNCHANGED <<found, added>>
          /\ Returns("index", n) \/ (program = "client" /\ UNCHANGED <<program, calls, status>>)
      BY <3>1 DEF Indexed, OrClient, Returns, CreateIndex, Runs
    <3> QED
      BY <1>1, <3>2, IndexedStays, ReturnsLeft, AnyLeft
  <2>6. CASE \E n \in RawNames, r \in Rows : Inserted(n, r)
    <3>1. PICK n \in RawNames, r \in Rows : Inserted(n, r)
      BY <2>6
    <3>2. /\ Runs /\ Insert(n, r) /\ found' = found /\ added' = added \cup {r}
          /\ Returns("insert", n) \/ (program = "client" /\ UNCHANGED <<program, calls, status>>)
      BY <3>1 DEF Inserted, OrClient, Returns, Insert, Runs
    <3>3. added \subseteq Rows
      BY <1>1 DEF ProgramShape
    <3>4. added \subseteq added' /\ added' # {}
      BY <3>2
    <3>5. Stays'
      BY <1>1, <3>2, <3>3, InsertedStays
    <3>6. Left'
      BY <1>1, <3>2, <3>4, ReturnsLeft, AnyLeft
    <3> QED
      BY <3>5, <3>6
  <2>7. CASE Declines \/ ScanThrows
    <3>1. Runs /\ UNCHANGED <<vars, found, added>>
      BY <2>7 DEF Declines, ScanThrows, Ends, Runs
    <3>2. UNCHANGED <<tables, table_name_idx, cached, owner>>
      BY <3>1 DEF vars, processVars, storeVars, historyVars
    <3> QED
      BY <2>7, <1>1, <3>1, <3>2, IdleStays, GivesUpLeft
  <2>8. CASE \E n \in RawNames : CreateThrows(n)
    <3>1. PICK n \in RawNames : CreateThrows(n)
      BY <2>8
    <3>2. /\ Runs /\ CreateTableThrows(n) /\ UNCHANGED <<found, added, program>>
          /\ \/ program = "client" /\ UNCHANGED <<calls, status>>
             \/ program = "create_table" /\ calls' = <<>> /\ status' = "success"
      BY <3>1 DEF CreateThrows, CreateTableThrows, Ends, programVars, Runs
    <3> QED
      BY <1>1, <3>2, CreatedStays, AnyLeft
  <2>9. CASE \E f \in Files : \E page \in (SUBSET (cached[f] \ disk[f])) \ {{}} : WriteBack(f, page) /\ UNCHANGED programVars
    <3>1. Runs /\ UNCHANGED <<tables, table_name_idx, cached, owner, found, added, programVars>>
      BY <2>9 DEF WriteBack, processVars, historyVars, programVars, Runs
    <3> QED
      BY <1>1, <3>1, IdleStays, IdleLeft
  <2>10. CASE Return \/ (SaveEnds /\ UNCHANGED programVars)
    <3>1. Runs /\ UNCHANGED <<tables, table_name_idx, cached, owner, found, added, programVars>>
      BY <2>10 DEF Return, SaveBegins, SaveEnds, historyVars, programVars, Runs
    <3> QED
      BY <1>1, <3>1, IdleStays, IdleLeft
  <2>11. CASE Returned \/ Killed
    BY <2>11 DEF Returned, Killed, ShutdownEnds, Crash, ProcessEnds, Runs
  <2>12. CASE UNCHANGED allVars
    <3>1. Runs /\ UNCHANGED <<tables, table_name_idx, cached, owner, found, added, programVars>>
      BY <2>12 DEF allVars, vars, processVars, storeVars, historyVars, programVars, Runs
    <3> QED
      BY <1>1, <3>1, IdleStays, IdleLeft
  <2> QED
    BY <2>1, <2>2, <2>3, <2>4, <2>5, <2>6, <2>7, <2>8, <2>9, <2>10, <2>11, <2>12 DEF ProgramsNext
<1>4. CallsMade'
  BY CallsMadeKept DEF ProgramsIInv
<1>5. ProgramsTypeOK'
  BY <1>2 DEF IInv, NamesAgree, ProgramsTypeOK, ProgramShape, CallRecords
<1>6. FoundStays' /\ CallsLeft'
  BY <1>3 DEF FoundStays, CallsLeft, Runs, Stays, Left
<1> QED
  BY <1>2, <1>4, <1>5, <1>6 DEF ProgramsIInv

(* No program runs yet.                                                    *)
LEMMA ProgramsInitIInv == ProgramsInit => ProgramsIInv
<1> SUFFICES ASSUME ProgramsInit PROVE ProgramsIInv
  OBVIOUS
<1>1. IInv
  BY InitIInv DEF ProgramsInit
<1>2. ProgramsTypeOK
  BY <1>1 DEF ProgramsInit, ProgramsTypeOK, IInv, NamesAgree
<1>3. FoundStays /\ CallsLeft /\ CallsMade
  BY DEF ProgramsInit, Init, FoundStays, CallsLeft, CallsMade
<1> QED
  BY <1>1, <1>2, <1>3 DEF ProgramsIInv

(* The inductive invariant holds whatever programs run, end or are killed. *)
THEOREM ProgramsInvariance == ProgramsSpec => []ProgramsIInv
BY ProgramsInitIInv, ProgramsNextIInv, PTL DEF ProgramsSpec

(* Programs keep the shape of their variables (src/bin/).                  *)
THEOREM ProgramsTypeCorrect == ProgramsSpec => []ProgramsTypeOK
<1>1. ProgramsIInv => ProgramsTypeOK
  BY DEF ProgramsIInv
<1> QED
  BY <1>1, ProgramsInvariance, PTL

(* Whatever programs run, each table's name finds it and each row stays in *)
(* its table's file (catalog.cc:54-85, 161-209).                           *)
THEOREM ProgramsKeepRowsHome == ProgramsSpec => [](TablesAreKnown /\ RowsBelong)
<1>1. ProgramsIInv => TablesAreKnown /\ RowsBelong
  BY DEF ProgramsIInv, IInv, NamesAgree
<1> QED
  BY <1>1, ProgramsInvariance, PTL

(* What the last process leaves is what it found and what it added.        *)
LEMMA ReturnedAdds ==
  ASSUME ProgramsIInv, Returned
  PROVE  \A t \in found : \E u \in kept' :
           /\ u.name = t.name
           /\ t.indexed => u.indexed
           /\ u.rows = t.rows \cup {r \in added : owner[r] = t.name}
<1> TAKE t \in found
<1>1. phase = "flushing" /\ kept' = View(tables, cached)
  BY DEF Returned, ShutdownEnds
<1>2. PICK i \in DOMAIN tables :
        /\ tables[i].name = t.name
        /\ t.indexed => tables[i].index # NoIndex
        /\ cached[HeapFileOf(t.name)] = t.rows \cup {r \in added : owner[r] = t.name}
  BY <1>1 DEF ProgramsIInv, FoundStays
<1> DEFINE u == [name |-> tables[i].name, indexed |-> tables[i].index # NoIndex, rows |-> cached[HeapFileOf(tables[i].name)]]
<1>3. u \in kept'
  BY <1>1 DEF View
<1> QED
  BY <1>2, <1>3

(* A process that ends in order leaves every table it found with the rows  *)
(* it found in it and those it inserted under its name                     *)
(* (catalog.cc:161-209, system.cc:22-26, src/bin/).                        *)
THEOREM RunsAddTheirRows == ProgramsSpec => RunAddsItsRows
<1>1. ASSUME ProgramsIInv, Returned
      PROVE  \A t \in found : \E u \in kept' :
               /\ u.name = t.name
               /\ t.indexed => u.indexed
               /\ u.rows = t.rows \cup {r \in added : owner[r] = t.name}
  BY <1>1, ReturnedAdds
<1> QED
  BY <1>1, ProgramsInvariance, PTL DEF ProgramsSpec, RunAddsItsRows

(* What a program returns tells what it did: EXIT_FAILURE when nothing     *)
(* changed, insert's EXIT_SUCCESS when its row is there                    *)
(* (create_table.cc:28-63, insert.cc:21-59, print_table.cc:27-56).         *)
THEOREM StatusIsTrue == ProgramsSpec => StatusTells
<1>1. ASSUME ProgramsIInv, Returned
      PROVE  /\ status = "failure" /\ program # "test_lab2" => kept' = found
             /\ status = "success" /\ program = "insert" => added # {}
  <2>1. phase = "flushing" /\ kept' = View(tables, cached)
    BY <1>1 DEF Returned, ShutdownEnds
  <2>2. CallsLeft /\ calls = <<>>
    BY <1>1, <2>1 DEF ProgramsIInv, CallsMade
  <2> QED
    BY <2>1, <2>2 DEF CallsLeft, Untouched
<1> QED
  BY <1>1, ProgramsInvariance, PTL DEF ProgramsSpec, StatusTells

=============================================================================
