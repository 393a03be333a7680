---------------------------- MODULE MCTableIndex ----------------------------
(***************************************************************************)
(* Instances of TableIndex for TLC, with a column of strings.              *)
(***************************************************************************)
EXTENDS TableIndex, StringKey

(* "", "ab", "abc" and "b": two of them share a key of two bytes.          *)
Ascii == {<<>>, <<97, 98>>, <<97, 98, 99>>, <<98>>}

(* "a", "e" with an acute accent, and "z"                                  *)
Accented == {<<97>>, <<195, 169>>, <<122>>}

StringEncoding == [k \in Keys |-> serialize_string_key(k)]

StringLess == {<<x, y>> \in Keys \X Keys : StrcmpLess(x, y)}

=============================================================================
