----------------------------- MODULE MCPrograms -----------------------------
(***************************************************************************)
(* Instances of Programs for TLC.                                          *)
(***************************************************************************)
EXTENDS MCCatalog, Programs, TLC

(* create_db's "T1", ... are one table "T", test_lab2's "test_1" is "u".   *)
LetterDb == <<<<84>>>>
LetterLab == <<117>>

RowSymmetry == Permutations(Rows)

=============================================================================
