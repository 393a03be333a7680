------------------------------ MODULE MCCatalog -----------------------------
(***************************************************************************)
(* Instances of Catalog for TLC.                                           *)
(***************************************************************************)
EXTENDS Catalog

(* "t", "T" and "u"                                                        *)
LetterNames == {<<116>>, <<84>>, <<117>>}

=============================================================================
