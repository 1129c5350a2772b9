------------------------------ MODULE MCAgency ------------------------------
(***************************************************************************)
(* Small instances of Agency for TLC.                                      *)
(***************************************************************************)
EXTENDS Agency, TLC

\* Tasks are interchangeable, and so are intents and keys.
Symmetry == Permutations(Tasks) \union Permutations(Idents) \union Permutations(Keys)
=============================================================================
