---------------------------- MODULE MCDataStore ----------------------------
(* Small instances of DataStore for TLC. *)
EXTENDS DataStorePool, TLC

CONSTANTS n1, n2, i1, i2, i3, p1, p2, noContainer, c1

\* NICs, addresses, pods and container identifiers are only compared.
StoreSymmetry ==
    Permutations(NIC) \cup Permutations(IP) \cup Permutations(Pod)
        \cup Permutations(Container)

=============================================================================
