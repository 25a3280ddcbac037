--------------------------- MODULE MCEnforcement ----------------------------
(***************************************************************************)
(* An instance of Enforcement: two hooks, so that one stores between the    *)
(* read and the write of the other, and three stores: the first blob and    *)
(* two that meet.                                                           *)
(***************************************************************************)
EXTENDS Enforcement, TLC

CONSTANTS a1, a2
MCActors == {a1, a2}
MCSymmetry == Permutations(Actors)
=============================================================================
