--------------------------- MODULE MCBoardStore ---------------------------
(***************************************************************************)
(* Instances of BoardStore for TLC.  The processes are interchangeable.    *)
(***************************************************************************)
EXTENDS BoardStore, TLC

Symmetry == Permutations(Writers)
=============================================================================
