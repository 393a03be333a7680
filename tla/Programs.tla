------------------------------ MODULE Programs ------------------------------
(***************************************************************************)
(* The command line programs (src/bin/) on one database: the calls of the  *)
(* catalog each main() makes between System::init and the end of its       *)
(* System object, what it does when one of them is refused or throws, and  *)
(* the exit status it reports.  Reading arguments and printing is left     *)
(* out.  A library client stands for other programs: it creates tables and *)
(* indexes and inserts, in any order, and goes on after exceptions.  No    *)
(* program deletes rows, and neither does it.                              *)
(***************************************************************************)
EXTENDS Catalog

CONSTANTS
  DbTables,  \* the tables create_db makes and fills
  LabTable   \* the table of test_lab2

ASSUME ProgramTablesAssumption == DbTables \in Seq(RawNames) /\ LabTable \in RawNames

VARIABLES
  program,   \* the program that is running
  calls,     \* the calls it has still to make
  status,    \* what it is going to return
  found,     \* history: the database when it started
  added      \* history: the rows it inserted

programVars == <<program, calls, status, found, added>>
allVars == <<vars, programVars>>

Call(op, n) == [op |-> op, table |-> n]

(* get_table gives nullptr, and get_table gives a table: else the program  *)
(* says so and returns EXIT_FAILURE.                                       *)
NoTable(n) == Call("no table", n)
ATable(n) == Call("a table", n)

Operations == {"no table", "a table", "ensure", "create", "index", "insert", "scan"}

(* Mutant: create_table looks for the table when it has created it.        *)
CreateTableCallsLate(n) == <<Call("create", n), NoTable(n)>>

(* One insertion stands for the loops of create_db and test_lab2, and the  *)
(* database for the one folder they and create_table use.                  *)
CreateTableCalls(n) == <<NoTable(n), Call("create", n)>>
InsertCalls(n) == <<ATable(n), Call("insert", n)>>
PrintTableCalls(n) == <<ATable(n), Call("scan", n)>>
CreateDbCalls ==
  [i \in 1 .. Len(DbTables) |-> Call("ensure", DbTables[i])] \o [i \in 1 .. Len(DbTables) |-> Call("insert", DbTables[i])]
TestLab2Calls ==
  <<NoTable(LabTable), Call("create", LabTable), Call("index", LabTable), Call("insert", LabTable), Call("scan", LabTable)>>

(* The processes that can be started, with a table name n.                 *)
Mains(n) ==
  {<<"create_table", CreateTableCalls(n)>>, <<"insert", InsertCalls(n)>>, <<"print_table", PrintTableCalls(n)>>,
   <<"create_db", CreateDbCalls>>, <<"test_lab2", TestLab2Calls>>, <<"client", <<>>>>}

ProgramsInit ==
  /\ Init
  /\ program = "none"
  /\ calls = <<>>
  /\ status = "success"
  /\ found = {}
  /\ added = {}

-----------------------------------------------------------------------------
(* System::init comes before any try, so that a catalog that cannot be     *)
(* read ends every program.                                                *)
Launch(main) ==
  /\ Start
  /\ program' = main[1]
  /\ calls' = main[2]
  /\ status' = "success"
  /\ found' = View(tables', cached')
  /\ added' = {}

LaunchThrows == StartThrows /\ UNCHANGED programVars

(* The next call is op of table n, and it returns.                         *)
Returns(op, n) ==
  /\ calls # <<>>
  /\ Head(calls) = Call(op, n)
  /\ calls' = Tail(calls)
  /\ UNCHANGED <<program, status, found>>

(* A client makes this call whenever it likes.                             *)
OrClient(op, n) == Returns(op, n) \/ (program = "client" /\ UNCHANGED <<program, calls, status, found>>)

Found(n) ==
  /\ phase = "up"
  /\ \E op \in {"a table", "ensure"} : Returns(op, n)
  /\ Known(ToLower(n))
  /\ UNCHANGED <<vars, added>>

NotFound(n) ==
  /\ phase = "up"
  /\ Returns("no table", n)
  /\ ToLower(n) \notin DOMAIN table_name_idx
  /\ UNCHANGED <<vars, added>>

Created(n) ==
  /\ \E op \in {"create", "ensure"} : OrClient(op, n)
  /\ CreateTable(n)
  /\ UNCHANGED added

Indexed(n) ==
  /\ OrClient("index", n)
  /\ CreateIndex(n)
  /\ UNCHANGED added

Inserted(n, r) ==
  /\ OrClient("insert", n)
  /\ Insert(n, r)
  /\ added' = added \cup {r}

Scanned(n) ==
  /\ phase = "up"
  /\ Returns("scan", n)
  /\ Known(ToLower(n))
  /\ UNCHANGED <<vars, added>>

(* The program returns with no further call.                               *)
Ends(s) ==
  /\ calls' = <<>>
  /\ status' = s
  /\ UNCHANGED <<program, found, added>>

(* EXIT_FAILURE: the table is there, or it is not, the arguments do not    *)
(* fit its columns, or test_lab2's scan gives other rows than it inserted. *)
Declines ==
  /\ phase = "up"
  /\ calls # <<>>
  /\ LET c == Head(calls) IN
     \/ c.op = "no table" /\ (ToLower(c.table) \in DOMAIN table_name_idx \/ program = "create_table")
     \/ c.op = "a table" /\ (ToLower(c.table) \notin DOMAIN table_name_idx \/ program = "insert")
     \/ c.op = "scan" /\ program = "test_lab2"
  /\ Ends("failure")
  /\ UNCHANGED vars

(* The file of a new table cannot be opened.  create_table catches that    *)
(* and returns EXIT_SUCCESS; in other programs it is a crash.              *)
CreateThrows(n) ==
  /\ CreateTableThrows(n)
  /\ \/ /\ program = "create_table"
        /\ calls # <<>> /\ Head(calls) = Call("create", n)
        /\ Ends("success")
     \/ /\ program = "client"
        /\ UNCHANGED programVars

(* print_table's scan throws: it returns EXIT_FAILURE.                     *)
ScanThrows ==
  /\ phase = "up"
  /\ program = "print_table"
  /\ calls # <<>> /\ Head(calls).op = "scan"
  /\ Ends("failure")
  /\ UNCHANGED vars

(* main() returns, which destroys the System object.                       *)
Return ==
  /\ calls = <<>>
  /\ SaveBegins
  /\ UNCHANGED programVars

(* No program runs; what the last one knew is gone.                        *)
NoProgram ==
  /\ program' = "none"
  /\ calls' = <<>>
  /\ status' = "success"
  /\ found' = {}
  /\ added' = {}

Returned == ShutdownEnds /\ NoProgram

(* An exception nobody catches, an assert, a kill: the rest of the calls   *)
(* is never made.                                                          *)
Killed == Crash /\ NoProgram

ProgramsNext ==
  \/ \E n \in RawNames : \E main \in Mains(n) : Launch(main)
  \/ LaunchThrows
  \/ \E n \in RawNames : Found(n)
  \/ \E n \in RawNames : NotFound(n)
  \/ \E n \in RawNames : Created(n)
  \/ \E n \in RawNames : Indexed(n)
  \/ \E n \in RawNames, r \in Rows : Inserted(n, r)
  \/ \E n \in RawNames : Scanned(n)
  \/ Declines
  \/ \E n \in RawNames : CreateThrows(n)
  \/ ScanThrows
  \/ \E f \in Files : \E page \in (SUBSET (cached[f] \ disk[f])) \ {{}} : WriteBack(f, page) /\ UNCHANGED programVars
  \/ Return
  \/ SaveEnds /\ UNCHANGED programVars
  \/ Returned
  \/ Killed

ProgramsSpec == ProgramsInit /\ [][ProgramsNext]_allVars

-----------------------------------------------------------------------------
(* Every variable keeps its shape.                                         *)
ProgramsTypeOK ==
  /\ TypeOK
  /\ program \in {"create_table", "insert", "print_table", "create_db", "test_lab2", "client", "none"}
  /\ calls \in Seq([op : Operations, table : RawNames])
  /\ status \in {"success", "failure"}
  /\ added \subseteq Rows

(* The database is as the program found it.                                *)
Untouched == View(tables, cached) = found

(* Every table the process found is still there with its rows and those it *)
(* inserted under its name, and no other name leads to it, such as one     *)
(* whose create_table failed.                                              *)
FoundStays ==
  phase \in {"up", "saving", "flushing"} =>
    /\ \A t \in found : \E i \in DOMAIN tables :
         /\ tables[i].name = t.name
         /\ t.indexed => tables[i].index # NoIndex
         /\ cached[HeapFileOf(t.name)] = t.rows \cup {r \in added : owner[r] = t.name}
    /\ \A n \in DOMAIN table_name_idx : \A t \in found :
         Known(n) /\ tables[PositionOf(n)].name = t.name => t.name = n
    /\ \A r \in added : owner[r] # Nobody

(* A program looks for its table before it changes anything, once it gives *)
(* up it makes no more calls, and insert ends well only by its insertion.  *)
CallsLeft ==
  phase \in {"up", "saving", "flushing"} =>
    /\ program # "test_lab2" =>
         \A i \in DOMAIN calls : calls[i].op \in {"no table", "a table"} => i = 1 /\ Untouched
    /\ program = "print_table" => Untouched /\ \A i \in DOMAIN calls : calls[i].op \in {"a table", "scan"}
    /\ program = "client" => calls = <<>> /\ status = "success"
    /\ status = "failure" => calls = <<>> /\ (program # "test_lab2" => Untouched)
    /\ program = "insert" /\ status = "success" =>
         added # {} \/ (calls # <<>> /\ calls[Len(calls)].op = "insert")

(* A program shuts down when it has made its calls.                        *)
CallsMade == phase \in {"saving", "flushing"} => calls = <<>>

(* The inductive invariant: that of the catalog, what is left of what the  *)
(* process found, and what the program has still to do.                    *)
ProgramsIInv == ProgramsTypeOK /\ IInv /\ FoundStays /\ CallsLeft /\ CallsMade

(* A process that ends in order, whatever was refused or caught, leaves    *)
(* every table it found with the rows it found in it and those it inserted *)
(* under its name, and no others; no process here deletes (src/bin/,       *)
(* catalog.cc).                                                            *)
RunAddsItsRows ==
  [][Returned => \A t \in found : \E u \in kept' :
       /\ u.name = t.name
       /\ t.indexed => u.indexed
       /\ u.rows = t.rows \cup {r \in added : owner[r] = t.name}]_allVars

(* What create_table, insert and print_table return: EXIT_FAILURE only     *)
(* when they have changed nothing (create_table.cc:28-63, insert.cc:21-43, *)
(* print_table.cc:27-56), and insert EXIT_SUCCESS only when its row is     *)
(* there.  create_table returns EXIT_SUCCESS after any exception too.      *)
StatusTells ==
  [][Returned =>
       /\ status = "failure" /\ program # "test_lab2" => kept' = found
       /\ status = "success" /\ program = "insert" => added # {}]_allVars

=============================================================================
