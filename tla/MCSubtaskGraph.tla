---------------------- MODULE MCSubtaskGraph ----------------------
(***************************************************************************)
(* Instances of SubtaskGraph for TLC.  The subtasks are interchangeable,   *)
(* and so are the paths.                                                   *)
(***************************************************************************)
EXTENDS SubtaskGraph

Symmetry == Permutations(Subtasks) \cup Permutations(Paths)

AnyScope == SUBSET Paths \ {{}}
OneOfEach == [k \in Kinds |-> 1]
=============================================================================
