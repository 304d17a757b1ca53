----------------------- MODULE MCDeliveryOwnership -----------------------
(***************************************************************************)
(* Instances of DeliveryOwnership for TLC.  The agents are interchangeable *)
(* (the order they register in is part of the state), and so are the tasks.*)
(***************************************************************************)
EXTENDS DeliveryOwnership

Symmetry == Permutations(Agents) \cup Permutations(Tasks)

\* How often each kind of event may happen in a run.
Calm == [k \in Kinds |-> 0]
TakeoverBudget == [Calm EXCEPT !["end"] = 1, !["stop"] = 1, !["restart"] = 1]
OwnerBudget == [k \in Kinds |-> IF k = "restart" THEN 0 ELSE 1]
=============================================================================
