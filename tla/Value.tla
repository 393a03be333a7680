-------------------------------- MODULE Value -------------------------------
(***************************************************************************)
(* The memory of Value objects (src/relational_model/value.cc): a string   *)
(* value owns a block of MAX_STRLEN + 1 bytes, which constructors, copies, *)
(* moves and the destructor pass on, duplicate and give back.  A moved     *)
(* string becomes an integer that keeps the pointer's bits.  What a value  *)
(* holds is left out: only who owns which block matters.                   *)
(***************************************************************************)
EXTENDS FiniteSets

CONSTANTS
  Values,   \* storage for Value objects
  Blocks,   \* blocks of memory
  NoBlock   \* bits that are no block

ASSUME NoBlockAssumption == NoBlock \notin Blocks

VARIABLES
  alive,      \* the objects constructed and not destroyed yet
  datatype,
  value,      \* as_str, whatever datatype says
  allocated   \* blocks new gave and delete did not take back

vars == <<alive, datatype, value, allocated>>

Types == {"INT", "STR"}

Init ==
  /\ alive = {}
  /\ datatype = [v \in Values |-> "INT"]
  /\ value = [v \in Values |-> NoBlock]
  /\ allocated = {}

Free == Blocks \ allocated

(* What delete[] of a value's block leaves allocated, if it owns one.      *)
Without(v) == IF datatype[v] = "STR" THEN allocated \ {value[v]} ELSE allocated

NewInt(v) ==
  /\ v \notin alive
  /\ alive' = alive \cup {v}
  /\ datatype' = [datatype EXCEPT ![v] = "INT"]
  /\ value' = [value EXCEPT ![v] = NoBlock]
  /\ UNCHANGED allocated

NewStr(v, b) ==
  /\ v \notin alive
  /\ b \in Free
  /\ alive' = alive \cup {v}
  /\ datatype' = [datatype EXCEPT ![v] = "STR"]
  /\ value' = [value EXCEPT ![v] = b]
  /\ allocated' = allocated \cup {b}

(* Value(const Value&)                                                     *)
Copy(v, w, b) ==
  /\ v \notin alive /\ w \in alive
  /\ b \in Free
  /\ alive' = alive \cup {v}
  /\ datatype' = [datatype EXCEPT ![v] = datatype[w]]
  /\ value' = [value EXCEPT ![v] = IF datatype[w] = "STR" THEN b ELSE value[w]]
  /\ allocated' = IF datatype[w] = "STR" THEN allocated \cup {b} ELSE allocated

(* Mutant: the value that was moved from still owns its block.             *)
MovedKeepsType(v, w) == [datatype EXCEPT ![v] = datatype[w]]

(* The datatypes after w was moved into v.                                 *)
Moved(v, w) == [datatype EXCEPT ![v] = datatype[w], ![w] = "INT"]

(* Value(Value&&)                                                          *)
Move(v, w) ==
  /\ v \notin alive /\ w \in alive
  /\ alive' = alive \cup {v}
  /\ datatype' = Moved(v, w)
  /\ value' = [value EXCEPT ![v] = value[w]]
  /\ UNCHANGED allocated

(* operator=(const Value&), to itself as well.                             *)
CopyAssign(v, w, b) ==
  /\ v \in alive /\ w \in alive
  /\ b \in Free
  /\ datatype' = [datatype EXCEPT ![v] = datatype[w]]
  /\ \/ /\ datatype[w] = "STR" /\ datatype[v] = "STR"
        /\ UNCHANGED <<value, allocated>>
     \/ /\ datatype[w] = "STR" /\ datatype[v] # "STR"
        /\ value' = [value EXCEPT ![v] = b]
        /\ allocated' = allocated \cup {b}
     \/ /\ datatype[w] # "STR"
        /\ value' = [value EXCEPT ![v] = value[w]]
        /\ allocated' = Without(v)
  /\ UNCHANGED alive

(* Mutant: the block of the value assigned to is forgotten.                *)
ReplacedLeaks(v) == allocated

(* What stays allocated when the move assignment has deleted v's block.    *)
Replaced(v) == Without(v)

(* operator=(Value&&); nothing in the repository moves a value to itself,  *)
(* which would delete the block it keeps.                                  *)
MoveAssign(v, w) ==
  /\ v \in alive /\ w \in alive /\ v # w
  /\ datatype' = Moved(v, w)
  /\ value' = [value EXCEPT ![v] = value[w]]
  /\ allocated' = Replaced(v)
  /\ UNCHANGED alive

Destroy(v) ==
  /\ v \in alive
  /\ alive' = alive \ {v}
  /\ allocated' = Without(v)
  /\ UNCHANGED <<datatype, value>>

Next ==
  \/ \E v \in Values : NewInt(v)
  \/ \E v \in Values, b \in Blocks : NewStr(v, b)
  \/ \E v, w \in Values, b \in Blocks : Copy(v, w, b)
  \/ \E v, w \in Values : Move(v, w)
  \/ \E v, w \in Values, b \in Blocks : CopyAssign(v, w, b)
  \/ \E v, w \in Values : MoveAssign(v, w)
  \/ \E v \in Values : Destroy(v)

Spec == Init /\ [][Next]_vars

-----------------------------------------------------------------------------
Owners == {v \in alive : datatype[v] = "STR"}

(* Through any sequence of copies, moves and destructions every string     *)
(* owns a block that is allocated, and no two own the same: nothing is     *)
(* freed twice or used after it was freed (value.cc:6-80).                 *)
OneOwner ==
  /\ \A v \in Owners : value[v] \in allocated
  /\ \A v, w \in Owners : value[v] = value[w] => v = w

(* Every allocated block has a string that will give it back.              *)
NoLeak == \A b \in allocated : \E v \in Owners : value[v] = b

=============================================================================
