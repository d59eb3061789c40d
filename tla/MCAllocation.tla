---------------------------- MODULE MCAllocation ----------------------------
(* Allocation for TLC: the symmetry of its three sets of identities. *)
EXTENDS Allocation, TLC

Symmetry == Permutations(Workers) \cup Permutations(Points) \cup Permutations(Sessions)
=============================================================================
