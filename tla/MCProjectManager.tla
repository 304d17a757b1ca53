-------------------------- MODULE MCProjectManager --------------------------
(***************************************************************************)
(* Instances of ProjectManager for TLC.  Threads are interchangeable.      *)
(***************************************************************************)
EXTENDS ProjectManager, TLC

CONSTANTS here, other

Symmetry == Permutations(Threads)

OnePort == [m \in Managers |-> 1]
BothOrOne == {{here, other}, {here}}
OneOfEach == [e \in Events |-> 1]
=============================================================================
