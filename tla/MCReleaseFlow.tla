--------------------------- MODULE MCReleaseFlow ---------------------------
(* ReleaseFlow for TLC: the tasks in the order in which their names sort. *)
EXTENDS ReleaseFlow

CONSTANT t1

OneTask == <<t1>>
=============================================================================
