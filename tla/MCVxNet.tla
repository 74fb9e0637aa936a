------------------------------- MODULE MCVxNet -------------------------------
(* Small instances of VxNet for TLC. *)
EXTENDS VxNet, TLC

CONSTANTS a, b, v1, v2, v3, v4

\* Nodes and identifiers of networks are compared for equality only.
NodeSymmetry == Permutations({a, b}) \cup Permutations({v1, v2, v3, v4})

=============================================================================
