------------------------ MODULE DataStorePoolProofs ------------------------
(* Proof that the address store implements the abstract pool of addresses,   *)
(* for every value of the constants.                                         *)
EXTENDS DataStorePool, DataStoreProofs

----------------------------------------------------------------------------
(* The order of use and its invariant *)

\* Before the daemon serves, no address has been released.
NoneReleased ==
    ~serving => \A a \in DOMAIN IPv4Addresses : IPv4Addresses[a].unassignedAge = AgeCap

\* The inductive invariant: what DaemonSpec keeps, and the phase.
OrderedInv == OwnerInv /\ serving \in BOOLEAN /\ NoneReleased

\* In this order the store is used as DaemonSpec allows.
LEMMA OrderedNextIsDaemonNext ==
    [OrderedNext]_poolStoreVars => [DaemonNext]_storeVars
  BY DEF OrderedNext, SetupNext, ServingNext, Start, DaemonNext, poolStoreVars, storeVars

\* The oldest address does not age.
LEMMA OlderAtCap == Older(AgeCap) = AgeCap
  BY AgeCapAssumption DEF Older

\* Setting up NICs and recovering pods releases nothing.
LEMMA NoneReleasedNext ==
    ASSUME OrderedInv, [OrderedNext]_poolStoreVars
    PROVE  NoneReleased'
  <1> SUFFICES ASSUME ~serving',
                      NEW a \in DOMAIN IPv4Addresses'
               PROVE  IPv4Addresses'[a].unassignedAge = AgeCap
    BY DEF NoneReleased
  <1>0. StoreTypeOK
    BY DEF OrderedInv, OwnerInv, CountInv, FiniteTypeOK
  <1>1. ~serving
    BY DEF OrderedNext, Start, poolStoreVars
  <1>2. \A b \in DOMAIN IPv4Addresses : IPv4Addresses[b].unassignedAge = AgeCap
    BY <1>1 DEF OrderedInv, NoneReleased
  <1>3. ASSUME NEW n \in NIC, NEW dev \in Device, NEW primary \in BOOLEAN,
               AddNIC(n, dev, primary)
        PROVE  IPv4Addresses'[a].unassignedAge = AgeCap
    BY <1>2, <1>3 DEF AddNIC
  <1>4. ASSUME NEW n \in NIC, NEW i \in IP, AddIPv4AddressFromStore(n, i)
        PROVE  IPv4Addresses'[a].unassignedAge = AgeCap
    <2> DEFINE c == <<n, i>>
    <2>1. /\ DOMAIN IPv4Addresses' = DOMAIN IPv4Addresses \cup {c}
          /\ IPv4Addresses'[c] = [Assigned |-> FALSE, unassignedAge |-> AgeCap]
          /\ \A b \in DOMAIN IPv4Addresses : IPv4Addresses'[b] = IPv4Addresses[b]
      BY <1>4 DEF AddIPv4AddressFromStore, Put
    <2> HIDE DEF c
    <2> QED
      BY <1>2, <2>1
  <1>5. ASSUME NEW k \in PodKey, NEW n \in NIC, NEW i \in IP, Reassign(k, n, i)
        PROVE  IPv4Addresses'[a].unassignedAge = AgeCap
    <2>1. <<n, i>> \in DOMAIN IPv4Addresses
      BY <1>5 DEF Reassign
    <2>2. CASE IPv4Addresses[<<n, i>>].Assigned
      BY <1>2, <1>5, <2>2 DEF Reassign
    <2>3. CASE ~IPv4Addresses[<<n, i>>].Assigned
      <3>1. incrementAssignedCount(n, i)
        BY <1>5, <2>3 DEF Reassign
      <3>2. /\ DOMAIN IPv4Addresses' = DOMAIN IPv4Addresses
            /\ \A b \in DOMAIN IPv4Addresses :
                 IPv4Addresses'[b].unassignedAge = IPv4Addresses[b].unassignedAge
        BY <1>0, <2>1, <3>1, IncrementFacts
      <3> QED
        BY <1>2, <3>2
    <2> QED
      BY <2>2, <2>3
  <1>6. ASSUME Tick
        PROVE  IPv4Addresses'[a].unassignedAge = AgeCap
    BY <1>0, <1>2, <1>6, TickFacts, OlderAtCap
  <1>7. ASSUME UNCHANGED storeVars
        PROVE  IPv4Addresses'[a].unassignedAge = AgeCap
    BY <1>2, <1>7 DEF storeVars
  <1> QED
    BY <1>1, <1>3, <1>4, <1>5, <1>6, <1>7 DEF OrderedNext, SetupNext, Start, poolStoreVars

\* The invariant holds, by induction over the steps.
LEMMA OrderedInvariant == OrderedSpec => []OrderedInv
  <1>1. OrderedInit => OrderedInv
    <2>1. NewDataStore => DOMAIN IPv4Addresses = {}
      BY DEF NewDataStore
    <2> QED
      BY <2>1, OwnerInit DEF OrderedInit, OrderedInv, NoneReleased
  <1>2. OrderedInv /\ [OrderedNext]_poolStoreVars => OrderedInv'
    <2> SUFFICES ASSUME OrderedInv, [OrderedNext]_poolStoreVars
                 PROVE  OrderedInv'
      OBVIOUS
    <2>1. OwnerInv'
      BY OrderedNextIsDaemonNext, OwnerNext DEF OrderedInv
    <2>2. serving' \in BOOLEAN
      BY DEF OrderedInv, OrderedNext, Start, poolStoreVars
    <2> QED
      BY <2>1, <2>2, NoneReleasedNext DEF OrderedInv
  <1> QED
    BY <1>1, <1>2, PTL DEF OrderedSpec

\* The store, in the order of its use, keeps what DaemonSpec keeps.
LEMMA OrderedIsDaemon == OrderedSpec => DaemonSpec
  BY OrderedNextIsDaemonNext, PTL DEF OrderedSpec, OrderedInit, DaemonSpec

----------------------------------------------------------------------------
(* The steps of the store as steps of the pool *)

\* The addresses the pool counts as held are those of the pods.
LEMMA HeldOfPods ==
    \A i : i \in Pool!Held <=> \E k \in DOMAIN podsIP : podsIP[k].IP = i
  <1> TAKE i
  <1>1. ASSUME NEW k \in DOMAIN podsIP, podsIP[k].IP = i PROVE i \in Pool!Held
    <2>1. <<k, i>> \in HoldsOfStore
      BY <1>1 DEF HoldsOfStore
    <2>2. <<k, i>>[2] = i
      OBVIOUS
    <2> QED
      BY <2>1, <2>2 DEF Pool!Held
  <1>2. ASSUME i \in Pool!Held PROVE \E k \in DOMAIN podsIP : podsIP[k].IP = i
    <2>1. PICK h \in HoldsOfStore : h[2] = i
      BY <1>2 DEF Pool!Held
    <2>2. PICK k \in DOMAIN podsIP : h = <<k, podsIP[k].IP>>
      BY DEF HoldsOfStore
    <2> QED
      BY <2>1, <2>2
  <1> QED
    BY <1>1, <1>2

\* The effect on the pool of giving a free address: pool and resting addresses
\* stay if the address does not rest, and one pair is new.
LEMMA GiveView ==
    ASSUME OwnerInv, NEW k \in PodKey, NEW n \in NIC, NEW i \in IP, k \notin DOMAIN podsIP,
           <<n, i>> \in DOMAIN IPv4Addresses, ~IPv4Addresses[<<n, i>>].Assigned,
           IPv4Addresses[<<n, i>>].unassignedAge > addressCoolingPeriod,
           incrementAssignedCount(n, i), RecordPod(k, n, i)
    PROVE  /\ i \in PoolOfStore /\ i \notin RestingOfStore
           /\ i \notin Pool!Held /\ Pool!HasNone(k)
           /\ PoolOfStore' = PoolOfStore
           /\ RestingOfStore' = RestingOfStore
           /\ HoldsOfStore' = HoldsOfStore \cup {<<k, i>>}
  <1>0. StoreTypeOK
    BY DEF OwnerInv, CountInv, FiniteTypeOK
  <1>1. /\ DOMAIN podsIP' = DOMAIN podsIP \cup {k}
        /\ podsIP'[k].IP = i
        /\ \A l \in DOMAIN podsIP : podsIP'[l] = podsIP[l]
    <2>1. /\ DOMAIN podsIP' = DOMAIN podsIP \cup {k}
          /\ podsIP'[k] = [IP |-> i, DeviceNumber |-> nicIPPools[n].DeviceNumber]
          /\ \A l \in DOMAIN podsIP : podsIP'[l] = podsIP[l]
      BY <1>0, RecordPodFacts
    <2> QED
      BY <2>1
  <1>2. /\ DOMAIN IPv4Addresses' = DOMAIN IPv4Addresses
        /\ \A a \in DOMAIN IPv4Addresses :
             /\ IPv4Addresses'[a].Assigned <=> IPv4Addresses[a].Assigned \/ a = <<n, i>>
             /\ IPv4Addresses'[a].unassignedAge = IPv4Addresses[a].unassignedAge
    BY <1>0, IncrementFacts
  <1>3. i \in PoolOfStore /\ PoolOfStore' = PoolOfStore
    BY <1>2 DEF PoolOfStore
  <1>4. IPv4Addresses[<<n, i>>].unassignedAge \in Nat
    BY <1>0, RecordTypes DEF Age
  <1>5. ~RestsOn(n, i)
    BY <1>4, PeriodAssumption DEF RestsOn
  <1>6. \A m \in NIC : <<m, i>> \in DOMAIN IPv4Addresses => m = n
    <2> SUFFICES ASSUME NEW m \in NIC, <<m, i>> \in DOMAIN IPv4Addresses PROVE m = n
      OBVIOUS
    <2>1. <<m, i>> = <<n, i>>
      BY DEF OwnerInv, OneNIC
    <2> QED
      BY <2>1
  <1>7. i \notin RestingOfStore
    BY <1>5, <1>6 DEF RestingOfStore, RestsOn
  <1>8. \A m \in NIC, j \in IP : RestsOn(m, j)' <=> RestsOn(m, j)
    <2> SUFFICES ASSUME NEW m \in NIC, NEW j \in IP PROVE RestsOn(m, j)' <=> RestsOn(m, j)
      OBVIOUS
    <2>1. CASE <<m, j>> = <<n, i>>
      <3>1. m = n /\ j = i
        BY <2>1
      <3>2. ~RestsOn(n, i)'
        BY <1>2 DEF RestsOn
      <3> QED
        BY <1>5, <3>1, <3>2
    <2>2. CASE <<m, j>> # <<n, i>>
      BY <1>2, <2>2 DEF RestsOn
    <2> QED
      BY <2>1, <2>2
  <1>9. RestingOfStore' = RestingOfStore
    BY <1>8 DEF RestingOfStore
  <1>10. HoldsOfStore' = HoldsOfStore \cup {<<k, i>>}
    BY <1>1 DEF HoldsOfStore
  <1>11. Pool!HasNone(k)
    BY DEF Pool!HasNone, HoldsOfStore
  <1>12. i \notin Pool!Held
    BY HeldOfPods, HeldIsMarked
  <1> QED
    BY <1>3, <1>7, <1>9, <1>10, <1>11, <1>12

\* The effect of releasing an address: its pair goes, and it rests.
LEMMA ReleaseView ==
    ASSUME OwnerInv, NEW k \in PodKey, NEW n \in NIC, UnassignPodIPv4Address(k, n)
    PROVE  \E i \in IP :
             /\ <<k, i>> \in HoldsOfStore
             /\ PoolOfStore' = PoolOfStore
             /\ RestingOfStore' = RestingOfStore \cup {i}
             /\ HoldsOfStore' = HoldsOfStore \ {<<k, i>>}
  <1>0. StoreTypeOK
    BY DEF OwnerInv, CountInv, FiniteTypeOK
  <1> PICK i \in IP : k \in DOMAIN podsIP /\ i = podsIP[k].IP
    BY <1>0, RecordTypes DEF UnassignPodIPv4Address, HoldsOn
  <1>1. /\ k \in DOMAIN podsIP
        /\ <<n, i>> \in DOMAIN IPv4Addresses
        /\ DOMAIN IPv4Addresses' = DOMAIN IPv4Addresses
        /\ \A a \in DOMAIN IPv4Addresses :
             /\ IPv4Addresses'[a].Assigned <=> IPv4Addresses[a].Assigned /\ a # <<n, i>>
             /\ IPv4Addresses'[a].unassignedAge =
                  IF a = <<n, i>> THEN 0 ELSE IPv4Addresses[a].unassignedAge
        /\ DOMAIN podsIP' = DOMAIN podsIP \ {k}
        /\ \A l \in DOMAIN podsIP' : podsIP'[l] = podsIP[l]
    <2>1. ReleaseEffect(k, n)
      BY <1>0, UnassignFacts
    <2> QED
      BY <2>1 DEF ReleaseEffect, AssignedAddresses
  <1>2. <<k, i>> \in HoldsOfStore
    BY DEF HoldsOfStore
  <1>3. PoolOfStore' = PoolOfStore
    BY <1>1 DEF PoolOfStore
  <1>4. RestsOn(n, i)'
    BY <1>1, PeriodAssumption DEF RestsOn
  <1>5. \A m \in NIC, j \in IP : j # i => (RestsOn(m, j)' <=> RestsOn(m, j))
    <2> SUFFICES ASSUME NEW m \in NIC, NEW j \in IP, j # i
                 PROVE  RestsOn(m, j)' <=> RestsOn(m, j)
      OBVIOUS
    <2>1. <<m, j>> # <<n, i>>
      OBVIOUS
    <2> QED
      BY <1>1, <2>1 DEF RestsOn
  <1>6. RestingOfStore' = RestingOfStore \cup {i}
    BY <1>2, <1>4, <1>5 DEF RestingOfStore
  <1>7. HoldsOfStore' = HoldsOfStore \ {<<k, i>>}
    BY <1>1 DEF HoldsOfStore
  <1> QED
    BY <1>2, <1>3, <1>6, <1>7

\* The effect of removing a NIC: its addresses leave the pool, and nobody has
\* one of them and none rests.
LEMMA RemoveView ==
    ASSUME OwnerInv, NEW n \in NIC, RemoveUnusedNICFromStore(n)
    PROVE  \E S \in SUBSET IP :
             /\ S \subseteq PoolOfStore
             /\ S \cap Pool!Held = {} /\ S \cap RestingOfStore = {}
             /\ PoolOfStore' = PoolOfStore \ S
             /\ RestingOfStore' = RestingOfStore
             /\ HoldsOfStore' = HoldsOfStore
  <1> DEFINE S == {i \in IP : <<n, i>> \in DOMAIN IPv4Addresses}
  <1>0. StoreTypeOK
    BY DEF OwnerInv, CountInv, FiniteTypeOK
  <1>1. InUse(n) = {}
    BY DropNICCounts DEF RemoveUnusedNICFromStore, Deletable, OwnerInv
  <1>2. /\ DOMAIN IPv4Addresses' = DOMAIN IPv4Addresses \ AddressesOf(n)
        /\ \A a \in DOMAIN IPv4Addresses' : IPv4Addresses'[a] = IPv4Addresses[a]
        /\ UNCHANGED podsIP
    BY <1>0, DropNICFacts DEF RemoveUnusedNICFromStore
  <1>3. \A m \in NIC, i \in IP :
          <<m, i>> \in DOMAIN IPv4Addresses' <=> <<m, i>> \in DOMAIN IPv4Addresses /\ m # n
    <2> SUFFICES ASSUME NEW m \in NIC, NEW i \in IP
                 PROVE  <<m, i>> \in AddressesOf(n) <=>
                          <<m, i>> \in DOMAIN IPv4Addresses /\ m = n
      BY <1>2
    <2>1. <<m, i>>[1] = m
      OBVIOUS
    <2> QED
      BY <2>1 DEF AddressesOf
  <1>4. \A i \in S : /\ ~IPv4Addresses[<<n, i>>].Assigned
                     /\ \A m \in NIC : <<m, i>> \in DOMAIN IPv4Addresses => m = n
    <2> SUFFICES ASSUME NEW i \in S
                 PROVE  /\ ~IPv4Addresses[<<n, i>>].Assigned
                        /\ \A m \in NIC : <<m, i>> \in DOMAIN IPv4Addresses => m = n
      OBVIOUS
    <2>1. ~IPv4Addresses[<<n, i>>].Assigned
      BY <1>1 DEF InUse, AddressesOf, AssignedAddresses
    <2>2. ASSUME NEW m \in NIC, <<m, i>> \in DOMAIN IPv4Addresses PROVE m = n
      <3>1. <<m, i>> = <<n, i>>
        BY <2>2 DEF OwnerInv, OneNIC
      <3> QED
        BY <3>1
    <2> QED
      BY <2>1, <2>2
  <1>5. S \subseteq PoolOfStore
    BY DEF PoolOfStore
  <1>6. S \cap Pool!Held = {}
    <2> SUFFICES ASSUME NEW i \in S, NEW k \in DOMAIN podsIP, podsIP[k].IP = i PROVE FALSE
      BY HeldOfPods
    <2> QED
      BY <1>4, HeldIsMarked
  <1>7. \A i \in S : ~RestsOn(n, i)
    <2> SUFFICES ASSUME NEW i \in S PROVE ~RestsOn(n, i)
      OBVIOUS
    <2> DEFINE age == IPv4Addresses[<<n, i>>].unassignedAge
               nicAge == nicIPPools[n].lastUnassignedAge
    <2>1. nicAge >= addressNICCoolingPeriod
      BY DEF RemoveUnusedNICFromStore, Deletable
    <2>2. age >= nicAge
      <3> DEFINE a == <<n, i>>
      <3>1. a \in DOMAIN IPv4Addresses /\ a[1] = n
        OBVIOUS
      <3> HIDE DEF a
      <3>2. IPv4Addresses[a].unassignedAge >= nicIPPools[n].lastUnassignedAge
        BY <3>1 DEF OwnerInv, ReleaseTimes
      <3> QED
        BY <3>2 DEF a
    <2>3. n \in DOMAIN nicIPPools
      BY DEF RemoveUnusedNICFromStore, Deletable
    <2>4. age \in Nat /\ nicAge \in Nat
      BY <1>0, <2>3, RecordTypes DEF Age
    <2> HIDE DEF age, nicAge
    <2>5. ~(age <= addressCoolingPeriod)
      BY <2>1, <2>2, <2>4, PeriodAssumption, PeriodOrder
    <2> QED
      BY <2>5 DEF RestsOn, age
  <1>8. S \cap RestingOfStore = {}
    BY <1>4, <1>7 DEF RestingOfStore, RestsOn
  <1>9. PoolOfStore' = PoolOfStore \ S
    BY <1>3, <1>4 DEF PoolOfStore
  <1>10. \A m \in NIC, i \in IP : RestsOn(m, i)' <=> RestsOn(m, i)
    <2> SUFFICES ASSUME NEW m \in NIC, NEW i \in IP PROVE RestsOn(m, i)' <=> RestsOn(m, i)
      OBVIOUS
    <2>1. CASE m = n
      BY <1>3, <1>7, <2>1 DEF RestsOn
    <2>2. CASE m # n
      BY <1>2, <1>3, <2>2 DEF RestsOn
    <2> QED
      BY <2>1, <2>2
  <1>11. RestingOfStore' = RestingOfStore /\ HoldsOfStore' = HoldsOfStore
    BY <1>2, <1>10 DEF RestingOfStore, HoldsOfStore
  <1> QED
    BY <1>5, <1>6, <1>8, <1>9, <1>11

\* Every step of the store is a step of the pool, or changes nothing of it.
LEMMA StepIsPoolStep ==
    ASSUME OrderedInv, [OrderedNext]_poolStoreVars
    PROVE  [Pool!PoolNext]_(Pool!poolVars)
  <1> DEFINE Goal == [Pool!PoolNext]_(Pool!poolVars)
  <1>0. OwnerInv /\ StoreTypeOK
    BY DEF OrderedInv, OwnerInv, CountInv, FiniteTypeOK
  <1>1. ASSUME NEW n \in NIC, NEW dev \in Device, NEW primary \in BOOLEAN,
               AddNIC(n, dev, primary), UNCHANGED serving
        PROVE  Goal
    <2>1. UNCHANGED <<PoolOfStore, RestingOfStore, HoldsOfStore>>
      BY <1>1 DEF AddNIC, PoolOfStore, RestingOfStore, RestsOn, HoldsOfStore
    <2> QED
      BY <1>1, <2>1 DEF Pool!poolVars
  <1>2. ASSUME NEW n \in NIC, NEW i \in IP, OnNoNIC(i), AddIPv4AddressFromStore(n, i),
               UNCHANGED serving
        PROVE  Goal
    <2> DEFINE c == <<n, i>>
    <2>1. /\ DOMAIN IPv4Addresses' = DOMAIN IPv4Addresses \cup {c}
          /\ IPv4Addresses'[c] = [Assigned |-> FALSE, unassignedAge |-> AgeCap]
          /\ \A b \in DOMAIN IPv4Addresses : IPv4Addresses'[b] = IPv4Addresses[b]
          /\ c \notin DOMAIN IPv4Addresses
          /\ UNCHANGED podsIP
      BY <1>2 DEF AddIPv4AddressFromStore, Put
    <2>2. i \notin PoolOfStore /\ PoolOfStore' = PoolOfStore \cup {i}
      BY <1>2, <2>1 DEF OnNoNIC, PoolOfStore
    <2>3. ASSUME NEW m \in NIC, NEW j \in IP PROVE RestsOn(m, j)' <=> RestsOn(m, j)
      <3>1. CASE <<m, j>> = c
        <4>1. IPv4Addresses'[c].unassignedAge = AgeCap
          BY <2>1
        <4>2. ~(AgeCap <= addressCoolingPeriod)
          BY PeriodAssumption, AgeCapAssumption
        <4>3. ~(IPv4Addresses'[<<m, j>>].unassignedAge <= addressCoolingPeriod)
          <5> HIDE DEF c
          <5> QED BY <3>1, <4>1, <4>2
        <4>4. <<m, j>> \notin DOMAIN IPv4Addresses
          <5> HIDE DEF c
          <5> QED BY <2>1, <3>1
        <4> QED
          BY <4>3, <4>4 DEF RestsOn
      <3>2. CASE <<m, j>> # c
        <4> HIDE DEF c
        <4> QED BY <2>1, <3>2 DEF RestsOn
      <3> QED
        BY <3>1, <3>2
    <2>4. RestingOfStore' = RestingOfStore /\ HoldsOfStore' = HoldsOfStore
      BY <2>1, <2>3 DEF RestingOfStore, HoldsOfStore
    <2>5. Pool!Supply(i)
      BY <1>2, <2>2, <2>4 DEF Pool!Supply
    <2> QED
      BY <2>5 DEF Pool!PoolNext
  <1>3. ASSUME ~serving, NEW k \in PodKey, NEW n \in NIC, NEW i \in IP,
               HeldByNoPod(i), Reassign(k, n, i), UNCHANGED serving
        PROVE  Goal
    <2>1. k \notin DOMAIN podsIP /\ <<n, i>> \in DOMAIN IPv4Addresses /\ RecordPod(k, n, i)
      BY <1>3 DEF Reassign
    <2>2. ~IPv4Addresses[<<n, i>>].Assigned
      <3> SUFFICES ASSUME IPv4Addresses[<<n, i>>].Assigned PROVE FALSE
        OBVIOUS
      <3>1. <<n, i>> \in AssignedAddresses
        BY <2>1 DEF AssignedAddresses
      <3>2. PICK l \in DOMAIN podsIP : podsIP[l].IP = i
        BY <1>0, <3>1 DEF OwnerInv, Ownership
      <3> QED
        BY <1>3, <3>2 DEF HeldByNoPod
    <2>3. incrementAssignedCount(n, i)
      BY <1>3, <2>2 DEF Reassign
    <2>4. IPv4Addresses[<<n, i>>].unassignedAge > addressCoolingPeriod
      BY <1>3, <2>1, AgeCapAssumption DEF OrderedInv, NoneReleased
    <2>5. /\ i \in PoolOfStore /\ i \notin Pool!Held /\ Pool!HasNone(k)
          /\ PoolOfStore' = PoolOfStore
          /\ RestingOfStore' = RestingOfStore
          /\ HoldsOfStore' = HoldsOfStore \cup {<<k, i>>}
      BY <1>0, <2>1, <2>2, <2>3, <2>4, GiveView
    <2>6. Pool!Recover(k, i)
      BY <1>3, <2>5 DEF Pool!Recover
    <2> QED
      BY <2>6 DEF Pool!PoolNext
  <1>4. ASSUME serving, NEW k \in PodKey, NEW n \in NIC, NEW i \in IP,
               AssignFresh(k, n, i), UNCHANGED serving
        PROVE  Goal
    <2>1. /\ i \in PoolOfStore /\ i \notin RestingOfStore
          /\ i \notin Pool!Held /\ Pool!HasNone(k)
          /\ PoolOfStore' = PoolOfStore
          /\ RestingOfStore' = RestingOfStore
          /\ HoldsOfStore' = HoldsOfStore \cup {<<k, i>>}
      BY <1>0, <1>4, GiveView DEF AssignFresh, Available
    <2>2. Pool!Give(k, i)
      BY <1>4, <2>1 DEF Pool!Give
    <2> QED
      BY <2>2 DEF Pool!PoolNext
  <1>5. ASSUME serving, NEW k \in PodKey, NEW n \in NIC, UnassignPodIPv4Address(k, n),
               UNCHANGED serving
        PROVE  Goal
    <2>1. PICK i \in IP :
            /\ <<k, i>> \in HoldsOfStore
            /\ PoolOfStore' = PoolOfStore
            /\ RestingOfStore' = RestingOfStore \cup {i}
            /\ HoldsOfStore' = HoldsOfStore \ {<<k, i>>}
      BY <1>0, <1>5, ReleaseView
    <2>2. Pool!Release(k, i)
      BY <1>5, <2>1 DEF Pool!Release
    <2> QED
      BY <2>2 DEF Pool!PoolNext
  <1>6. ASSUME serving, NEW n \in NIC, RemoveUnusedNICFromStore(n), UNCHANGED serving
        PROVE  Goal
    <2>1. PICK S \in SUBSET IP :
            /\ S \subseteq PoolOfStore
            /\ S \cap Pool!Held = {} /\ S \cap RestingOfStore = {}
            /\ PoolOfStore' = PoolOfStore \ S
            /\ RestingOfStore' = RestingOfStore
            /\ HoldsOfStore' = HoldsOfStore
      BY <1>0, <1>6, RemoveView
    <2>2. Pool!Withdraw(S)
      BY <1>6, <2>1 DEF Pool!Withdraw
    <2> QED
      BY <2>2 DEF Pool!PoolNext
  <1>7. ASSUME Start PROVE Goal
    <2>1. UNCHANGED <<nicIPPools, IPv4Addresses, podsIP>>
      BY <1>7 DEF Start, storeVars
    <2>2. UNCHANGED <<PoolOfStore, RestingOfStore, HoldsOfStore>>
      BY <2>1 DEF PoolOfStore, RestingOfStore, RestsOn, HoldsOfStore
    <2>3. Pool!Open
      BY <1>7, <2>2 DEF Start, Pool!Open
    <2> QED
      BY <2>3 DEF Pool!PoolNext
  <1>8. ASSUME Tick, UNCHANGED serving PROVE Goal
    <2>1. /\ DOMAIN IPv4Addresses' = DOMAIN IPv4Addresses
          /\ \A a \in DOMAIN IPv4Addresses :
               /\ IPv4Addresses'[a].Assigned = IPv4Addresses[a].Assigned
               /\ IPv4Addresses'[a].unassignedAge = Older(IPv4Addresses[a].unassignedAge)
          /\ UNCHANGED podsIP
      BY <1>0, <1>8, TickFacts
    <2>2. PoolOfStore' = PoolOfStore /\ HoldsOfStore' = HoldsOfStore
      BY <2>1 DEF PoolOfStore, HoldsOfStore
    <2>3. ASSUME NEW m \in NIC, NEW j \in IP, RestsOn(m, j)' PROVE RestsOn(m, j)
      <3> DEFINE age == IPv4Addresses[<<m, j>>].unassignedAge
      <3>1. <<m, j>> \in DOMAIN IPv4Addresses /\ ~IPv4Addresses[<<m, j>>].Assigned
        BY <2>1, <2>3 DEF RestsOn
      <3>2. Older(age) <= addressCoolingPeriod
        BY <2>1, <2>3 DEF RestsOn
      <3>3. age \in Age
        BY <1>0, <3>1, RecordTypes
      <3> HIDE DEF age
      <3>4. Older(age) \in Age /\ Older(age) >= age
        BY <3>3, OlderAge
      <3>5. age <= addressCoolingPeriod
        BY <3>2, <3>3, <3>4, PeriodAssumption DEF Age
      <3> QED
        BY <3>1, <3>5 DEF RestsOn, age
    <2> DEFINE S == RestingOfStore \ RestingOfStore'
    <2>4. RestingOfStore' \subseteq RestingOfStore
      BY <2>3 DEF RestingOfStore
    <2>5. S \in SUBSET IP /\ RestingOfStore' = RestingOfStore \ S
      BY <2>4 DEF RestingOfStore
    <2>6. Pool!Rest(S)
      BY <1>8, <2>2, <2>5 DEF Pool!Rest
    <2> QED
      BY <2>5, <2>6 DEF Pool!PoolNext
  <1>9. ASSUME UNCHANGED poolStoreVars PROVE Goal
    <2>1. UNCHANGED <<nicIPPools, IPv4Addresses, podsIP, serving>>
      BY <1>9 DEF poolStoreVars, storeVars
    <2> QED
      BY <2>1 DEF Pool!poolVars, PoolOfStore, RestingOfStore, RestsOn, HoldsOfStore
  <1> QED
    <2> HIDE DEF Goal
    <2>1. Goal
      BY <1>1, <1>2, <1>3, <1>4, <1>5, <1>6, <1>7, <1>8, <1>9
         DEF OrderedNext, SetupNext, ServingNext
    <2> QED
      BY <2>1 DEF Goal

\* Driven in the daemon's order the store is, to its users, a pool of addresses
\* that are given to one pod at a time and only when rested, for any number of
\* NICs, addresses and pods and any periods in the order of the code's.
THEOREM PoolImplemented == OrderedSpec => ImplementsPool
  <1>1. OrderedInit => Pool!PoolInit
    <2> SUFFICES ASSUME OrderedInit PROVE Pool!PoolInit
      OBVIOUS
    <2>1. DOMAIN IPv4Addresses = {} /\ DOMAIN podsIP = {} /\ serving = FALSE
      BY DEF OrderedInit, NewDataStore
    <2> QED
      BY <2>1 DEF Pool!PoolInit, PoolOfStore, RestingOfStore, RestsOn, HoldsOfStore
  <1> QED
    BY <1>1, OrderedInvariant, StepIsPoolStep, PTL
       DEF OrderedSpec, ImplementsPool, Pool!PoolSpec

\* Two pods never hold one address in podsIP, those recovered at start-up and
\* those that come while the daemon serves.
THEOREM DistinctHoldersCorrect == OrderedSpec => []DistinctHolders
  BY OrderedIsDaemon, OwnershipCorrect, PTL

=============================================================================
