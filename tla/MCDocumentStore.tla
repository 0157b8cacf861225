--------------------------- MODULE MCDocumentStore ---------------------------
(***************************************************************************)
(* Instances of DocumentStore for TLC.                                     *)
(***************************************************************************)
EXTENDS DocumentStore, TLC

\* Job ids are interchangeable.
MCSymmetry == Permutations(Jobs)
=============================================================================
