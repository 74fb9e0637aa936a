--------------------------- MODULE DataStorePool ---------------------------
(***************************************************************************)
(* The address store in the order the daemon uses it, and the abstract     *)
(* pool of addresses it implements.                                        *)
(***************************************************************************)
EXTENDS DataStore

\* A NIC rests longer than an address: 1 min and 30 s in the code.
ASSUME PeriodOrder == addressNICCoolingPeriod > addressCoolingPeriod

VARIABLE serving  \* the server and the pool manager have been started

poolStoreVars == <<storeVars, serving>>

OrderedInit == NewDataStore /\ serving = FALSE

\* setup: setupNic for each attached NIC, then prepareLocalPods.
SetupNext ==
    \/ \E n \in NIC, dev \in Device, primary \in BOOLEAN : AddNIC(n, dev, primary)
    \/ \E n \in NIC, i \in IP : OnNoNIC(i) /\ AddIPv4AddressFromStore(n, i)
    \/ \E k \in PodKey, n \in NIC, i \in IP : HeldByNoPod(i) /\ Reassign(k, n, i)

\* Start: requests, and the pool manager with setupNic for each NIC it creates.
ServingNext ==
    \/ \E n \in NIC, dev \in Device, primary \in BOOLEAN : AddNIC(n, dev, primary)
    \/ \E n \in NIC, i \in IP : OnNoNIC(i) /\ AddIPv4AddressFromStore(n, i)
    \/ \E k \in PodKey, n \in NIC, i \in IP : AssignFresh(k, n, i)
    \/ \E k \in PodKey, n \in NIC : UnassignPodIPv4Address(k, n)
    \/ \E n \in NIC : RemoveUnusedNICFromStore(n)

Start == ~serving /\ serving' = TRUE /\ UNCHANGED storeVars

OrderedNext ==
    \/ ~serving /\ SetupNext /\ UNCHANGED serving
    \/ Start
    \/ serving /\ ServingNext /\ UNCHANGED serving
    \/ Tick /\ UNCHANGED serving

OrderedSpec == OrderedInit /\ [][OrderedNext]_poolStoreVars

----------------------------------------------------------------------------
(* The pool the store is *)

\* An address is in the pool when some NIC carries it.
PoolOfStore == {i \in IP : \E n \in NIC : <<n, i>> \in DOMAIN IPv4Addresses}

\* It rests while it is free and too young to be given.
RestsOn(n, i) ==
    /\ <<n, i>> \in DOMAIN IPv4Addresses
    /\ ~IPv4Addresses[<<n, i>>].Assigned
    /\ IPv4Addresses[<<n, i>>].unassignedAge <= addressCoolingPeriod

RestingOfStore == {i \in IP : \E n \in NIC : RestsOn(n, i)}

HoldsOfStore == {<<k, podsIP[k].IP>> : k \in DOMAIN podsIP}

Pool == INSTANCE AddressPool WITH
            Holder <- PodKey, Address <- IP, open <- serving,
            pool <- PoolOfStore, resting <- RestingOfStore, holds <- HoldsOfStore

\* To its users the store is a pool of addresses: through its marks, its three
\* counters, the skip test on full NICs and two kinds of release times, it gives
\* an address only if no pod has it and its period is over
\* (datastore.go:276-294), and withdraws addresses only if that is true of each.
ImplementsPool == Pool!PoolSpec

=============================================================================
