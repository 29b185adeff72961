----------------------------- MODULE MCFindView -----------------------------
(***************************************************************************)
(* FindView over every haystack, needle and memory behind the haystack, up *)
(* to the sizes the configurations give, with two or three code units.     *)
(***************************************************************************)
EXTENDS FindView, TLC

(* Code units are only ever compared for equality.                         *)
Symmetry == Permutations(Char)
=============================================================================
