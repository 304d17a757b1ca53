--------------------------- MODULE MCTestMachine ---------------------------
(* TestMachine for TLC: the symmetry of its constants, for runs without a    *)
(* liveness property.                                                        *)
EXTENDS TestMachine, TLC

Symmetry == Permutations(Projects) \cup Permutations(Machines) \cup Permutations(Requests)
=============================================================================
