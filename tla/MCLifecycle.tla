---------------------------- MODULE MCLifecycle -----------------------------
(***************************************************************************)
(* Instances of Lifecycle: three processes, so that an init or a reset, one *)
(* that waits for its lock and a third that has not called yet meet; three  *)
(* runs, so that a reset is followed by another.                            *)
(***************************************************************************)
EXTENDS Lifecycle, TLC

CONSTANTS p1, p2, p3
MCProcs == {p1, p2, p3}
MCTwo == {p1, p2}

MCSymmetry == Permutations(Procs)
=============================================================================
