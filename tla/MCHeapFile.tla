----------------------------- MODULE MCHeapFile -----------------------------
(***************************************************************************)
(* Instances of HeapFile for TLC.                                          *)
(***************************************************************************)
EXTENDS HeapFile

CONSTANTS a, b

(* Record a takes one cell and record b two.                               *)
MCSize == [r \in Records |-> IF r = a THEN 1 ELSE 2]

=============================================================================
