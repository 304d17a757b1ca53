--------------------------- MODULE MCReviewCycle ---------------------------
(***************************************************************************)
(* Instances of ReviewCycle for TLC.  Agents, ledgers and calls are        *)
(* interchangeable.                                                        *)
(***************************************************************************)
EXTENDS ReviewCycle, TLC

Symmetry == Permutations(Developers) \cup Permutations(Reviewers)
            \cup Permutations(Ledgers) \cup Permutations(Calls)

=============================================================================
