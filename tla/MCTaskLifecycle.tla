--------------------------- MODULE MCTaskLifecycle ---------------------------
(* TaskLifecycle for TLC: constants of the runs and the symmetry of the    *)
(* interchangeable ids and requests.                                       *)
EXTENDS TaskLifecycle, TLC

MCSymmetry == Permutations(TaskIds) \cup Permutations(Requests)

\* one kind that may run by itself and one that may not
MCKinds == {"research", "place_order"}
=============================================================================
