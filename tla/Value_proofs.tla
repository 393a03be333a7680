---------------------------- MODULE Value_proofs ----------------------------
(***************************************************************************)
(* For any number of values and blocks: strings own distinct allocated     *)
(* blocks, and every allocated block has an owner.                         *)
(***************************************************************************)
EXTENDS Value, TLAPS

(* Every variable has its shape; part of the induction only.               *)
Typed ==
  /\ alive \subseteq Values
  /\ datatype \in [Values -> Types]
  /\ value \in [Values -> Blocks \cup {NoBlock}]
  /\ allocated \subseteq Blocks

(* The inductive invariant: a block is given back safely only if its owner *)
(* is its only one.                                                        *)
IInv == Typed /\ OneOwner /\ NoLeak

(* Nothing is alive, nothing is allocated.                                 *)
LEMMA InitIInv == Init => IInv
BY DEF Init, IInv, Typed, Types, OneOwner, NoLeak, Owners

(* An integer owns nothing.                                                *)
LEMMA NewIntKeepsIInv ==
  ASSUME IInv, NEW v \in Values, NewInt(v)
  PROVE  IInv'
<1>1. Typed'
  BY DEF IInv, NewInt, Typed, Types
<1>2. OneOwner'
  BY DEF IInv, NewInt, Typed, Types, OneOwner, Owners
<1>3. NoLeak'
  BY DEF IInv, NewInt, Typed, Types, OneOwner, NoLeak, Owners
<1> QED
  BY <1>1, <1>2, <1>3 DEF IInv

(* A new string owns a block nobody had.                                   *)
LEMMA NewStrKeepsIInv ==
  ASSUME IInv, NEW v \in Values, NEW b \in Blocks, NewStr(v, b)
  PROVE  IInv'
<1>1. Typed'
  BY DEF IInv, NewStr, Typed, Types, Free
<1>2. OneOwner'
  BY DEF IInv, NewStr, Typed, Types, OneOwner, Owners, Free
<1>3. NoLeak'
  BY DEF IInv, NewStr, Typed, Types, OneOwner, NoLeak, Owners, Free
<1> QED
  BY <1>1, <1>2, <1>3 DEF IInv

(* A copy of a string gets a block of its own.                             *)
LEMMA CopyKeepsIInv ==
  ASSUME IInv, NEW v \in Values, NEW w \in Values, NEW b \in Blocks, Copy(v, w, b)
  PROVE  IInv'
<1>1. Typed'
  BY DEF IInv, Copy, Typed, Types, Free
<1>2. OneOwner'
  BY DEF IInv, Copy, Typed, Types, OneOwner, Owners, Free
<1>3. NoLeak'
  BY DEF IInv, Copy, Typed, Types, OneOwner, NoLeak, Owners, Free
<1> QED
  BY <1>1, <1>2, <1>3 DEF IInv

(* A move passes the block on, and the source stops being a string.        *)
LEMMA MoveKeepsIInv ==
  ASSUME IInv, NEW v \in Values, NEW w \in Values, Move(v, w)
  PROVE  IInv'
<1>1. Typed'
  BY DEF IInv, Move, Typed, Types, Moved
<1>2. OneOwner'
  BY DEF IInv, Move, Typed, Types, OneOwner, Owners, Moved
<1>3. NoLeak'
  BY DEF IInv, Move, Typed, Types, OneOwner, NoLeak, Owners, Moved
<1> QED
  BY <1>1, <1>2, <1>3 DEF IInv

(* An assignment keeps the block there is, takes a new one, or gives it back.*)
LEMMA CopyAssignKeepsIInv ==
  ASSUME IInv, NEW v \in Values, NEW w \in Values, NEW b \in Blocks, CopyAssign(v, w, b)
  PROVE  IInv'
<1> USE DEF IInv, CopyAssign, Typed, Types, OneOwner, NoLeak, Owners
<1>1. CASE datatype[w] = "STR" /\ datatype[v] = "STR"
  BY <1>1
<1>2. CASE datatype[w] = "STR" /\ datatype[v] # "STR"
  BY <1>2 DEF Free
<1>3. CASE datatype[w] # "STR"
  BY <1>3 DEF Without
<1> QED
  BY <1>1, <1>2, <1>3

(* A move assignment gives the old block back first.                       *)
LEMMA MoveAssignKeepsIInv ==
  ASSUME IInv, NEW v \in Values, NEW w \in Values, MoveAssign(v, w)
  PROVE  IInv'
<1>1. Typed'
  BY DEF IInv, MoveAssign, Typed, Types, Moved, Replaced, Without
<1>2. OneOwner'
  BY DEF IInv, MoveAssign, Typed, Types, OneOwner, Owners, Moved, Replaced, Without
<1>3. NoLeak'
  BY DEF IInv, MoveAssign, Typed, Types, OneOwner, NoLeak, Owners, Moved, Replaced, Without
<1> QED
  BY <1>1, <1>2, <1>3 DEF IInv

(* A destroyed string takes its block with it.                             *)
LEMMA DestroyKeepsIInv ==
  ASSUME IInv, NEW v \in Values, Destroy(v)
  PROVE  IInv'
<1>1. Typed'
  BY DEF IInv, Destroy, Typed, Types, Without
<1>2. OneOwner'
  BY DEF IInv, Destroy, Typed, Types, OneOwner, Owners, Without
<1>3. NoLeak'
  BY DEF IInv, Destroy, Typed, Types, OneOwner, NoLeak, Owners, Without
<1> QED
  BY <1>1, <1>2, <1>3 DEF IInv

(* No operation leaves the inductive invariant.                            *)
LEMMA NextIInv == IInv /\ [Next]_vars => IInv'
<1> SUFFICES ASSUME IInv, [Next]_vars PROVE IInv'
  OBVIOUS
<1>1. CASE Next
  BY <1>1, NewIntKeepsIInv, NewStrKeepsIInv, CopyKeepsIInv, MoveKeepsIInv, CopyAssignKeepsIInv,
     MoveAssignKeepsIInv, DestroyKeepsIInv DEF Next
<1>2. CASE UNCHANGED vars
  BY <1>2 DEF vars, IInv, Typed, OneOwner, NoLeak, Owners
<1> QED
  BY <1>1, <1>2

(* No two strings share a block and none owns a freed one (value.cc:6-80). *)
THEOREM StringsOwnTheirBlocks == Spec => []OneOwner
<1>1. IInv => OneOwner
  BY DEF IInv
<1> QED
  BY <1>1, InitIInv, NextIInv, PTL DEF Spec

(* No block is lost (value.cc:6-80).                                       *)
THEOREM BlocksAreGivenBack == Spec => []NoLeak
<1>1. IInv => NoLeak
  BY DEF IInv
<1> QED
  BY <1>1, InitIInv, NextIInv, PTL DEF Spec

=============================================================================
