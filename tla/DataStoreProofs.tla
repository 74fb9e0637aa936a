-------------------------- MODULE DataStoreProofs --------------------------
(* Proofs about DataStore for every value of its constants. *)
EXTENDS DataStore, FiniteSetTheorems, TLAPS

----------------------------------------------------------------------------
(* Maps and ages *)

\* Assigning to a new key keeps the other entries of the map.
LEMMA PutEntry ==
    ASSUME NEW f, NEW k, NEW v
    PROVE  /\ DOMAIN Put(f, k, v) = DOMAIN f \cup {k}
           /\ Put(f, k, v)[k] = v
           /\ \A x \in DOMAIN f : x # k => Put(f, k, v)[x] = f[x]
           /\ \A T : f \in [DOMAIN f -> T] /\ v \in T =>
                Put(f, k, v) \in [DOMAIN Put(f, k, v) -> T]
  BY DEF Put

\* Deleting keys keeps the other entries of the map.
LEMMA WithoutEntries ==
    ASSUME NEW f, NEW S
    PROVE  /\ DOMAIN Without(f, S) = DOMAIN f \ S
           /\ \A x \in DOMAIN f \ S : Without(f, S)[x] = f[x]
  BY DEF Without, Restrict

\* Deleting keys keeps the range of the map.
LEMMA WithoutType ==
    ASSUME NEW T, NEW f, f \in [DOMAIN f -> T], NEW S
    PROVE  Without(f, S) \in [DOMAIN f \ S -> T]
  BY DEF Without, Restrict

\* An age stays an age, and never decreases, when time passes.
LEMMA OlderAge ==
    ASSUME NEW a \in Age
    PROVE  Older(a) \in Age /\ Older(a) >= a
  BY AgeCapAssumption DEF Age, Older

\* The update UnassignPodIPv4Address makes of a NIC's record.
LEMMA ReleasedRecord ==
    ASSUME NEW r \in NICIPPool
    PROVE  LET s == [r EXCEPT !.AssignedIPv4Addresses = @ - 1, !.lastUnassignedAge = 0]
           IN  /\ s \in NICIPPool
               /\ s.AssignedIPv4Addresses = r.AssignedIPv4Addresses - 1
               /\ s.DeviceNumber = r.DeviceNumber
               /\ s.lastUnassignedAge = 0
  <1>1. 0 \in Age
    BY AgeCapAssumption DEF Age
  <1>2. r.AssignedIPv4Addresses - 1 \in Int
    BY DEF NICIPPool
  <1> QED
    BY <1>1, <1>2 DEF NICIPPool

\* The update Tick makes of a NIC's record.
LEMMA OlderRecord ==
    ASSUME NEW r \in NICIPPool
    PROVE  LET s == [r EXCEPT !.createAge = Older(@), !.lastUnassignedAge = Older(@)]
           IN  /\ s \in NICIPPool
               /\ s.AssignedIPv4Addresses = r.AssignedIPv4Addresses
               /\ s.DeviceNumber = r.DeviceNumber
               /\ s.lastUnassignedAge = Older(r.lastUnassignedAge)
  <1>1. r.createAge \in Age /\ r.lastUnassignedAge \in Age
    BY DEF NICIPPool
  <1>2. Older(r.createAge) \in Age /\ Older(r.lastUnassignedAge) \in Age
    BY <1>1, OlderAge
  <1> QED
    BY <1>2 DEF NICIPPool

----------------------------------------------------------------------------
(* Type correctness *)

\* A new record is a well-typed record, and no address is touched.
LEMMA AddNICType ==
    ASSUME StoreTypeOK, NEW n \in NIC, NEW dev \in Device, NEW primary \in BOOLEAN,
           AddNIC(n, dev, primary)
    PROVE  StoreTypeOK'
  <1> DEFINE r == [DeviceNumber |-> dev, IsPrimary |-> primary, AssignedIPv4Addresses |-> 0,
                   createAge |-> 0, lastUnassignedAge |-> AgeCap]
  <1>1. r \in NICIPPool
    BY AgeCapAssumption DEF NICIPPool, Age
  <1>2. nicIPPools' = Put(nicIPPools, n, r)
    BY DEF AddNIC
  <1> HIDE DEF r
  <1>3. /\ DOMAIN nicIPPools' = DOMAIN nicIPPools \cup {n}
        /\ nicIPPools' \in [DOMAIN nicIPPools' -> NICIPPool]
    BY <1>1, <1>2, PutEntry DEF StoreTypeOK
  <1> QED
    BY <1>3 DEF StoreTypeOK, AddNIC

\* A new address belongs to a known NIC, and adds one key to a finite set.
LEMMA AddIPv4Type ==
    ASSUME StoreTypeOK, NEW n \in NIC, NEW i \in IP, AddIPv4AddressFromStore(n, i)
    PROVE  StoreTypeOK'
  <1> DEFINE r == [Assigned |-> FALSE, unassignedAge |-> AgeCap]
  <1>1. r \in AddressInfo
    BY AgeCapAssumption DEF AddressInfo, Age
  <1>2. IPv4Addresses' = Put(IPv4Addresses, <<n, i>>, r)
    BY DEF AddIPv4AddressFromStore
  <1> HIDE DEF r
  <1>3. /\ DOMAIN IPv4Addresses' = DOMAIN IPv4Addresses \cup {<<n, i>>}
        /\ IPv4Addresses' \in [DOMAIN IPv4Addresses' -> AddressInfo]
    BY <1>1, <1>2, PutEntry DEF StoreTypeOK
  <1>4. DOMAIN IPv4Addresses' \subseteq (DOMAIN nicIPPools) \X IP
    BY <1>3 DEF StoreTypeOK, AddIPv4AddressFromStore
  <1>5. total' \in Int /\ UNCHANGED <<nicIPPools, podsIP, assigned>>
    BY DEF StoreTypeOK, AddIPv4AddressFromStore
  <1> QED
    BY <1>3, <1>4, <1>5 DEF StoreTypeOK

\* Forgetting an address leaves the others as they were.
LEMMA DelIPv4Type ==
    ASSUME StoreTypeOK, NEW n \in NIC, NEW i \in IP, DelIPv4AddressFromStore(n, i)
    PROVE  StoreTypeOK'
  <1>1. /\ DOMAIN IPv4Addresses' = DOMAIN IPv4Addresses \ {<<n, i>>}
        /\ IPv4Addresses' \in [DOMAIN IPv4Addresses' -> AddressInfo]
    BY WithoutEntries, WithoutType DEF StoreTypeOK, DelIPv4AddressFromStore
  <1>2. total' \in Int /\ UNCHANGED <<nicIPPools, podsIP, assigned>>
    BY DEF StoreTypeOK, DelIPv4AddressFromStore
  <1> QED
    BY <1>1, <1>2 DEF StoreTypeOK

\* Marking an address assigned keeps the keys of both maps, the device numbers
\* and the ages.
LEMMA IncrementFacts ==
    ASSUME StoreTypeOK, NEW n, NEW i, <<n, i>> \in DOMAIN IPv4Addresses,
           incrementAssignedCount(n, i)
    PROVE  /\ n \in DOMAIN nicIPPools
           /\ DOMAIN nicIPPools' = DOMAIN nicIPPools
           /\ nicIPPools' \in [DOMAIN nicIPPools' -> NICIPPool]
           /\ \A m \in DOMAIN nicIPPools :
                /\ nicIPPools'[m].AssignedIPv4Addresses =
                     nicIPPools[m].AssignedIPv4Addresses + (IF m = n THEN 1 ELSE 0)
                /\ nicIPPools'[m].DeviceNumber = nicIPPools[m].DeviceNumber
                /\ nicIPPools'[m].lastUnassignedAge = nicIPPools[m].lastUnassignedAge
           /\ DOMAIN IPv4Addresses' = DOMAIN IPv4Addresses
           /\ IPv4Addresses' \in [DOMAIN IPv4Addresses' -> AddressInfo]
           /\ \A a \in DOMAIN IPv4Addresses :
                /\ IPv4Addresses'[a].Assigned <=> IPv4Addresses[a].Assigned \/ a = <<n, i>>
                /\ IPv4Addresses'[a].unassignedAge = IPv4Addresses[a].unassignedAge
           /\ assigned' = assigned + 1
  <1>1. n \in DOMAIN nicIPPools
    BY DEF StoreTypeOK
  <1>2. /\ DOMAIN nicIPPools' = DOMAIN nicIPPools
        /\ \A m \in DOMAIN nicIPPools :
             nicIPPools'[m] = IF m = n
               THEN [nicIPPools[m] EXCEPT !.AssignedIPv4Addresses = @ + 1] ELSE nicIPPools[m]
        /\ nicIPPools' \in [DOMAIN nicIPPools' -> NICIPPool]
    BY <1>1 DEF StoreTypeOK, incrementAssignedCount, NICIPPool
  <1>3. /\ DOMAIN IPv4Addresses' = DOMAIN IPv4Addresses
        /\ \A a \in DOMAIN IPv4Addresses :
             IPv4Addresses'[a] = IF a = <<n, i>>
               THEN [IPv4Addresses[a] EXCEPT !.Assigned = TRUE] ELSE IPv4Addresses[a]
        /\ IPv4Addresses' \in [DOMAIN IPv4Addresses' -> AddressInfo]
    BY DEF StoreTypeOK, incrementAssignedCount, AddressInfo
  <1>4. \A m \in DOMAIN nicIPPools : nicIPPools[m] \in NICIPPool
    BY DEF StoreTypeOK
  <1>5. \A a \in DOMAIN IPv4Addresses : IPv4Addresses[a] \in AddressInfo
    BY DEF StoreTypeOK
  <1>6. \A m \in DOMAIN nicIPPools :
          /\ nicIPPools'[m].AssignedIPv4Addresses =
               nicIPPools[m].AssignedIPv4Addresses + (IF m = n THEN 1 ELSE 0)
          /\ nicIPPools'[m].DeviceNumber = nicIPPools[m].DeviceNumber
          /\ nicIPPools'[m].lastUnassignedAge = nicIPPools[m].lastUnassignedAge
    BY <1>2, <1>4 DEF NICIPPool
  <1>7. \A a \in DOMAIN IPv4Addresses :
          /\ IPv4Addresses'[a].Assigned <=> IPv4Addresses[a].Assigned \/ a = <<n, i>>
          /\ IPv4Addresses'[a].unassignedAge = IPv4Addresses[a].unassignedAge
    BY <1>3, <1>5 DEF AddressInfo
  <1> QED
    BY <1>1, <1>2, <1>3, <1>6, <1>7 DEF incrementAssignedCount

\* Recording a pod adds one entry to podsIP.
LEMMA RecordPodFacts ==
    ASSUME StoreTypeOK, NEW k \in PodKey, NEW n, NEW i,
           <<n, i>> \in DOMAIN IPv4Addresses, RecordPod(k, n, i), k \notin DOMAIN podsIP
    PROVE  /\ DOMAIN podsIP' = DOMAIN podsIP \cup {k}
           /\ podsIP' \in [DOMAIN podsIP' -> PodIPInfo]
           /\ podsIP'[k] = [IP |-> i, DeviceNumber |-> nicIPPools[n].DeviceNumber]
           /\ \A l \in DOMAIN podsIP : podsIP'[l] = podsIP[l]
  <1> DEFINE r == [IP |-> i, DeviceNumber |-> nicIPPools[n].DeviceNumber]
  <1>1. r \in PodIPInfo
    <2>1. n \in DOMAIN nicIPPools /\ i \in IP
      BY DEF StoreTypeOK
    <2>2. nicIPPools[n] \in NICIPPool
      BY <2>1 DEF StoreTypeOK
    <2> QED
      BY <2>1, <2>2 DEF NICIPPool, PodIPInfo
  <1>2. podsIP' = Put(podsIP, k, r)
    BY DEF RecordPod
  <1> HIDE DEF r
  <1>3. /\ DOMAIN podsIP' = DOMAIN podsIP \cup {k}
        /\ podsIP' \in [DOMAIN podsIP' -> PodIPInfo]
        /\ podsIP'[k] = r
        /\ \A l \in DOMAIN podsIP : podsIP'[l] = podsIP[l]
    <2>1. podsIP \in [DOMAIN podsIP -> PodIPInfo]
      BY DEF StoreTypeOK
    <2> QED
      BY <1>1, <1>2, <2>1 DEF Put
  <1> QED
    BY <1>3 DEF r

\* Releasing an address clears one mark, lowers both counters by one and
\* drops one entry of podsIP.
ReleaseEffect(k, n) ==
    /\ k \in DOMAIN podsIP
    /\ <<n, podsIP[k].IP>> \in AssignedAddresses
    /\ n \in DOMAIN nicIPPools
    /\ DOMAIN nicIPPools' = DOMAIN nicIPPools
    /\ nicIPPools' \in [DOMAIN nicIPPools' -> NICIPPool]
    /\ \A m \in DOMAIN nicIPPools :
         /\ nicIPPools'[m].AssignedIPv4Addresses =
              IF m = n THEN nicIPPools[n].AssignedIPv4Addresses - 1
                       ELSE nicIPPools[m].AssignedIPv4Addresses
         /\ nicIPPools'[m].DeviceNumber = nicIPPools[m].DeviceNumber
         /\ nicIPPools'[m].lastUnassignedAge =
              IF m = n THEN 0 ELSE nicIPPools[m].lastUnassignedAge
    /\ DOMAIN IPv4Addresses' = DOMAIN IPv4Addresses
    /\ IPv4Addresses' \in [DOMAIN IPv4Addresses' -> AddressInfo]
    /\ \A a \in DOMAIN IPv4Addresses :
         /\ IPv4Addresses'[a].Assigned <=>
              IPv4Addresses[a].Assigned /\ a # <<n, podsIP[k].IP>>
         /\ IPv4Addresses'[a].unassignedAge =
              IF a = <<n, podsIP[k].IP>> THEN 0 ELSE IPv4Addresses[a].unassignedAge
    /\ assigned' = assigned - 1
    /\ total' = total
    /\ DOMAIN podsIP' = DOMAIN podsIP \ {k}
    /\ \A l \in DOMAIN podsIP' : podsIP'[l] = podsIP[l]
    /\ podsIP' \in [DOMAIN podsIP' -> PodIPInfo]

\* That is what UnassignPodIPv4Address does.
LEMMA UnassignFacts ==
    ASSUME StoreTypeOK, NEW k, NEW n, UnassignPodIPv4Address(k, n)
    PROVE  ReleaseEffect(k, n)
  <1> DEFINE b == <<n, podsIP[k].IP>>
  <1>1. k \in DOMAIN podsIP /\ b \in AssignedAddresses
    BY DEF UnassignPodIPv4Address, HoldsOn
  <1>2. b \in DOMAIN IPv4Addresses /\ n \in DOMAIN nicIPPools
    BY <1>1 DEF AssignedAddresses, StoreTypeOK
  <1>3. \A m \in DOMAIN nicIPPools : nicIPPools[m] \in NICIPPool
    BY DEF StoreTypeOK
  <1>4. \A a \in DOMAIN IPv4Addresses : IPv4Addresses[a] \in AddressInfo
    BY DEF StoreTypeOK
  <1>5. 0 \in Age
    BY AgeCapAssumption DEF Age
  <1> DEFINE r == [nicIPPools[n] EXCEPT !.AssignedIPv4Addresses = @ - 1,
                                        !.lastUnassignedAge = 0]
  <1>r. /\ r \in NICIPPool
        /\ r.AssignedIPv4Addresses = nicIPPools[n].AssignedIPv4Addresses - 1
        /\ r.DeviceNumber = nicIPPools[n].DeviceNumber
        /\ r.lastUnassignedAge = 0
    BY <1>2, <1>3, ReleasedRecord
  <1>s. nicIPPools' = [nicIPPools EXCEPT ![n] = r]
    BY DEF UnassignPodIPv4Address
  <1>6. /\ DOMAIN nicIPPools' = DOMAIN nicIPPools
        /\ \A m \in DOMAIN nicIPPools : nicIPPools'[m] = IF m = n THEN r ELSE nicIPPools[m]
        /\ nicIPPools' \in [DOMAIN nicIPPools' -> NICIPPool]
    <2>1. nicIPPools \in [DOMAIN nicIPPools -> NICIPPool]
      BY DEF StoreTypeOK
    <2> HIDE DEF r
    <2> QED
      BY <1>2, <1>r, <1>s, <2>1
  <1>7. /\ DOMAIN IPv4Addresses' = DOMAIN IPv4Addresses
        /\ \A a \in DOMAIN IPv4Addresses :
             IPv4Addresses'[a] = IF a = b THEN [Assigned |-> FALSE, unassignedAge |-> 0]
                                 ELSE IPv4Addresses[a]
        /\ IPv4Addresses' \in [DOMAIN IPv4Addresses' -> AddressInfo]
    <2>1. IPv4Addresses' =
            [IPv4Addresses EXCEPT ![b] = [Assigned |-> FALSE, unassignedAge |-> 0]]
      BY DEF UnassignPodIPv4Address
    <2>2. IPv4Addresses \in [DOMAIN IPv4Addresses -> AddressInfo]
      BY DEF StoreTypeOK
    <2> HIDE DEF b
    <2> QED
      BY <1>2, <1>5, <2>1, <2>2 DEF AddressInfo
  <1>8. /\ DOMAIN podsIP' = DOMAIN podsIP \ {k}
        /\ \A l \in DOMAIN podsIP' : podsIP'[l] = podsIP[l]
        /\ podsIP' \in [DOMAIN podsIP' -> PodIPInfo]
    <2>1. podsIP \in [DOMAIN podsIP -> PodIPInfo]
      BY DEF StoreTypeOK
    <2>2. podsIP' = Without(podsIP, {k})
      BY DEF UnassignPodIPv4Address
    <2> QED
      BY <2>1, <2>2 DEF Without, Restrict
  <1>9. \A m \in DOMAIN nicIPPools :
          /\ nicIPPools'[m].AssignedIPv4Addresses =
               IF m = n THEN nicIPPools[n].AssignedIPv4Addresses - 1
                        ELSE nicIPPools[m].AssignedIPv4Addresses
          /\ nicIPPools'[m].DeviceNumber = nicIPPools[m].DeviceNumber
          /\ nicIPPools'[m].lastUnassignedAge =
               IF m = n THEN 0 ELSE nicIPPools[m].lastUnassignedAge
    <2> HIDE DEF r
    <2>1. \A m \in DOMAIN nicIPPools : nicIPPools[m].AssignedIPv4Addresses \in Int
      BY <1>3 DEF NICIPPool
    <2> QED
      BY <1>6, <1>r, <2>1
  <1>10. \A a \in DOMAIN IPv4Addresses :
           /\ IPv4Addresses'[a].Assigned <=> IPv4Addresses[a].Assigned /\ a # b
           /\ IPv4Addresses'[a].unassignedAge =
                IF a = b THEN 0 ELSE IPv4Addresses[a].unassignedAge
    <2> HIDE DEF b
    <2> QED
      BY <1>4, <1>7 DEF AddressInfo
  <1> QED
    BY <1>1, <1>2, <1>6, <1>7, <1>8, <1>9, <1>10 DEF ReleaseEffect, UnassignPodIPv4Address

\* Dropping a NIC drops exactly its addresses.
LEMMA DropNICFacts ==
    ASSUME StoreTypeOK, NEW n, DropNIC(n)
    PROVE  /\ DOMAIN nicIPPools' = DOMAIN nicIPPools \ {n}
           /\ nicIPPools' \in [DOMAIN nicIPPools' -> NICIPPool]
           /\ \A m \in DOMAIN nicIPPools' : nicIPPools'[m] = nicIPPools[m]
           /\ DOMAIN IPv4Addresses' = DOMAIN IPv4Addresses \ AddressesOf(n)
           /\ IPv4Addresses' \in [DOMAIN IPv4Addresses' -> AddressInfo]
           /\ \A a \in DOMAIN IPv4Addresses' : IPv4Addresses'[a] = IPv4Addresses[a]
           /\ UNCHANGED <<podsIP, assigned>>
           /\ total' = total - Cardinality(AddressesOf(n))
  <1>1. /\ DOMAIN nicIPPools' = DOMAIN nicIPPools \ {n}
        /\ nicIPPools' \in [DOMAIN nicIPPools' -> NICIPPool]
        /\ \A m \in DOMAIN nicIPPools' : nicIPPools'[m] = nicIPPools[m]
    <2>1. nicIPPools \in [DOMAIN nicIPPools -> NICIPPool]
      BY DEF StoreTypeOK
    <2>2. nicIPPools' = Without(nicIPPools, {n})
      BY DEF DropNIC
    <2> QED
      BY <2>1, <2>2 DEF Without, Restrict
  <1>2. /\ DOMAIN IPv4Addresses' = DOMAIN IPv4Addresses \ AddressesOf(n)
        /\ IPv4Addresses' \in [DOMAIN IPv4Addresses' -> AddressInfo]
        /\ \A a \in DOMAIN IPv4Addresses' : IPv4Addresses'[a] = IPv4Addresses[a]
    <2>1. IPv4Addresses \in [DOMAIN IPv4Addresses -> AddressInfo]
      BY DEF StoreTypeOK
    <2>2. IPv4Addresses' = Without(IPv4Addresses, AddressesOf(n))
      BY DEF DropNIC
    <2> QED
      BY <2>1, <2>2 DEF Without, Restrict
  <1> QED
    BY <1>1, <1>2 DEF DropNIC

\* Time changes nothing but ages, and no age decreases.
LEMMA TickFacts ==
    ASSUME StoreTypeOK, Tick
    PROVE  /\ DOMAIN nicIPPools' = DOMAIN nicIPPools
           /\ nicIPPools' \in [DOMAIN nicIPPools' -> NICIPPool]
           /\ \A m \in DOMAIN nicIPPools :
                /\ nicIPPools'[m].AssignedIPv4Addresses = nicIPPools[m].AssignedIPv4Addresses
                /\ nicIPPools'[m].DeviceNumber = nicIPPools[m].DeviceNumber
                /\ nicIPPools'[m].lastUnassignedAge = Older(nicIPPools[m].lastUnassignedAge)
           /\ DOMAIN IPv4Addresses' = DOMAIN IPv4Addresses
           /\ IPv4Addresses' \in [DOMAIN IPv4Addresses' -> AddressInfo]
           /\ \A a \in DOMAIN IPv4Addresses :
                /\ IPv4Addresses'[a].Assigned = IPv4Addresses[a].Assigned
                /\ IPv4Addresses'[a].unassignedAge = Older(IPv4Addresses[a].unassignedAge)
           /\ UNCHANGED <<podsIP, total, assigned>>
  <1>1. \A m \in DOMAIN nicIPPools : nicIPPools[m] \in NICIPPool
    BY DEF StoreTypeOK
  <1>2. \A a \in DOMAIN IPv4Addresses : IPv4Addresses[a] \in AddressInfo
    BY DEF StoreTypeOK
  <1>3. \A a \in Age : Older(a) \in Age
    BY OlderAge
  <1>4. /\ DOMAIN nicIPPools' = DOMAIN nicIPPools
        /\ \A m \in DOMAIN nicIPPools :
             nicIPPools'[m] = [nicIPPools[m] EXCEPT !.createAge = Older(@),
                                                    !.lastUnassignedAge = Older(@)]
    BY DEF Tick
  <1>5. \A m \in DOMAIN nicIPPools :
          /\ nicIPPools'[m] \in NICIPPool
          /\ nicIPPools'[m].AssignedIPv4Addresses = nicIPPools[m].AssignedIPv4Addresses
          /\ nicIPPools'[m].DeviceNumber = nicIPPools[m].DeviceNumber
          /\ nicIPPools'[m].lastUnassignedAge = Older(nicIPPools[m].lastUnassignedAge)
    BY <1>1, <1>4, OlderRecord
  <1>6. /\ DOMAIN IPv4Addresses' = DOMAIN IPv4Addresses
        /\ \A a \in DOMAIN IPv4Addresses :
             IPv4Addresses'[a] = [IPv4Addresses[a] EXCEPT !.unassignedAge = Older(@)]
    BY DEF Tick
  <1>7. \A a \in DOMAIN IPv4Addresses :
          /\ IPv4Addresses'[a] \in AddressInfo
          /\ IPv4Addresses'[a].Assigned = IPv4Addresses[a].Assigned
          /\ IPv4Addresses'[a].unassignedAge = Older(IPv4Addresses[a].unassignedAge)
    BY <1>2, <1>3, <1>6 DEF AddressInfo
  <1>8. /\ nicIPPools' \in [DOMAIN nicIPPools' -> NICIPPool]
        /\ IPv4Addresses' \in [DOMAIN IPv4Addresses' -> AddressInfo]
    BY <1>5, <1>7 DEF Tick
  <1> QED
    BY <1>4, <1>5, <1>6, <1>7, <1>8 DEF Tick

\* The request of AddNetwork keeps the types.
LEMMA AssignFreshType ==
    ASSUME StoreTypeOK, NEW k \in PodKey, NEW n \in NIC, NEW i \in IP, AssignFresh(k, n, i)
    PROVE  StoreTypeOK'
  <1>1. /\ <<n, i>> \in DOMAIN IPv4Addresses
        /\ incrementAssignedCount(n, i)
        /\ RecordPod(k, n, i)
        /\ k \notin DOMAIN podsIP
        /\ total' = total
    BY DEF AssignFresh, Available
  <1>2. /\ DOMAIN podsIP' = DOMAIN podsIP \cup {k}
        /\ podsIP' \in [DOMAIN podsIP' -> PodIPInfo]
    BY <1>1, RecordPodFacts
  <1>3. /\ DOMAIN nicIPPools' = DOMAIN nicIPPools
        /\ nicIPPools' \in [DOMAIN nicIPPools' -> NICIPPool]
        /\ DOMAIN IPv4Addresses' = DOMAIN IPv4Addresses
        /\ IPv4Addresses' \in [DOMAIN IPv4Addresses' -> AddressInfo]
        /\ assigned' = assigned + 1
    BY <1>1, IncrementFacts
  <1> QED
    BY <1>1, <1>2, <1>3 DEF StoreTypeOK

\* The request of prepareLocalPods keeps the types, on both branches.
LEMMA ReassignType ==
    ASSUME StoreTypeOK, NEW k \in PodKey, NEW n \in NIC, NEW i \in IP, Reassign(k, n, i)
    PROVE  StoreTypeOK'
  <1>1. /\ <<n, i>> \in DOMAIN IPv4Addresses
        /\ RecordPod(k, n, i)
        /\ k \notin DOMAIN podsIP
        /\ total' = total
    BY DEF Reassign
  <1>2. /\ DOMAIN podsIP' = DOMAIN podsIP \cup {k}
        /\ podsIP' \in [DOMAIN podsIP' -> PodIPInfo]
    BY <1>1, RecordPodFacts
  <1>3. CASE IPv4Addresses[<<n, i>>].Assigned
    <2>1. UNCHANGED <<assigned, nicIPPools, IPv4Addresses>>
      BY <1>3 DEF Reassign
    <2> QED
      BY <1>1, <1>2, <2>1 DEF StoreTypeOK
  <1>4. CASE ~IPv4Addresses[<<n, i>>].Assigned
    <2>1. incrementAssignedCount(n, i)
      BY <1>4 DEF Reassign
    <2>2. /\ DOMAIN nicIPPools' = DOMAIN nicIPPools
          /\ nicIPPools' \in [DOMAIN nicIPPools' -> NICIPPool]
          /\ DOMAIN IPv4Addresses' = DOMAIN IPv4Addresses
          /\ IPv4Addresses' \in [DOMAIN IPv4Addresses' -> AddressInfo]
          /\ assigned' = assigned + 1
      BY <1>1, <2>1, IncrementFacts
    <2> QED
      BY <1>1, <1>2, <2>2 DEF StoreTypeOK
  <1> QED
    BY <1>3, <1>4

\* A release keeps the types.
LEMMA UnassignType ==
    ASSUME StoreTypeOK, NEW k \in PodKey, NEW n \in NIC, UnassignPodIPv4Address(k, n)
    PROVE  StoreTypeOK'
  <1>1. /\ DOMAIN nicIPPools' = DOMAIN nicIPPools
        /\ nicIPPools' \in [DOMAIN nicIPPools' -> NICIPPool]
        /\ DOMAIN IPv4Addresses' = DOMAIN IPv4Addresses
        /\ IPv4Addresses' \in [DOMAIN IPv4Addresses' -> AddressInfo]
        /\ assigned' = assigned - 1
        /\ total' = total
        /\ DOMAIN podsIP' = DOMAIN podsIP \ {k}
        /\ podsIP' \in [DOMAIN podsIP' -> PodIPInfo]
    <2>1. ReleaseEffect(k, n)
      BY UnassignFacts
    <2> QED
      BY <2>1 DEF ReleaseEffect
  <1> QED
    BY <1>1 DEF StoreTypeOK

\* A removed NIC takes its addresses with it: those left belong to known NICs.
LEMMA DropNICType ==
    ASSUME StoreTypeOK, IsFiniteSet(DOMAIN IPv4Addresses), NEW n \in NIC, DropNIC(n)
    PROVE  StoreTypeOK'
  <1>1. Cardinality(AddressesOf(n)) \in Nat
    <2>1. AddressesOf(n) \in SUBSET DOMAIN IPv4Addresses
      BY DEF AddressesOf
    <2> QED
      BY <2>1, FS_Subset, FS_CardinalityType
  <1>2. /\ DOMAIN nicIPPools' = DOMAIN nicIPPools \ {n}
        /\ nicIPPools' \in [DOMAIN nicIPPools' -> NICIPPool]
        /\ DOMAIN IPv4Addresses' = DOMAIN IPv4Addresses \ AddressesOf(n)
        /\ IPv4Addresses' \in [DOMAIN IPv4Addresses' -> AddressInfo]
        /\ UNCHANGED <<podsIP, assigned>>
        /\ total' = total - Cardinality(AddressesOf(n))
    BY DropNICFacts
  <1>3. DOMAIN IPv4Addresses' \subseteq (DOMAIN nicIPPools') \X IP
    BY <1>2 DEF StoreTypeOK, AddressesOf
  <1> QED
    BY <1>1, <1>2, <1>3 DEF StoreTypeOK

\* The passing of time keeps the types.
LEMMA TickType ==
    ASSUME StoreTypeOK, Tick
    PROVE  StoreTypeOK'
  BY TickFacts DEF StoreTypeOK

\* The type invariant needs the set of addresses to be finite: the counter
\* total is lowered by the size of a subset of it.
FiniteTypeOK == StoreTypeOK /\ IsFiniteSet(DOMAIN IPv4Addresses)

\* Every call keeps the types, and the set of addresses finite.
LEMMA TypeNext ==
    ASSUME FiniteTypeOK, [StoreNext]_storeVars
    PROVE  FiniteTypeOK'
  <1> USE DEF FiniteTypeOK
  <1>1. ASSUME NEW n \in NIC, NEW dev \in Device, NEW primary \in BOOLEAN,
               AddNIC(n, dev, primary)
        PROVE  FiniteTypeOK'
    <2>1. IPv4Addresses' = IPv4Addresses
      BY <1>1 DEF AddNIC
    <2> QED
      BY <1>1, <2>1, AddNICType
  <1>2. ASSUME NEW n \in NIC, NEW i \in IP, AddIPv4AddressFromStore(n, i)
        PROVE  FiniteTypeOK'
    <2>1. DOMAIN IPv4Addresses' = DOMAIN IPv4Addresses \cup {<<n, i>>}
      BY <1>2 DEF AddIPv4AddressFromStore, Put
    <2> QED
      BY <1>2, <2>1, AddIPv4Type, FS_AddElement
  <1>3. ASSUME NEW n \in NIC, NEW i \in IP, DelIPv4AddressFromStore(n, i)
        PROVE  FiniteTypeOK'
    <2>1. DOMAIN IPv4Addresses' = DOMAIN IPv4Addresses \ {<<n, i>>}
      BY <1>3 DEF DelIPv4AddressFromStore, Without, Restrict
    <2> QED
      BY <1>3, <2>1, DelIPv4Type, FS_RemoveElement
  <1>4. ASSUME NEW k \in PodKey, NEW n \in NIC, NEW i \in IP, AssignFresh(k, n, i)
        PROVE  FiniteTypeOK'
    <2>1. DOMAIN IPv4Addresses' = DOMAIN IPv4Addresses
      BY <1>4 DEF AssignFresh, incrementAssignedCount
    <2> QED
      BY <1>4, <2>1, AssignFreshType
  <1>5. ASSUME NEW k \in PodKey, NEW n \in NIC, NEW i \in IP, Reassign(k, n, i)
        PROVE  FiniteTypeOK'
    <2>1. DOMAIN IPv4Addresses' = DOMAIN IPv4Addresses
      BY <1>5 DEF Reassign, incrementAssignedCount
    <2> QED
      BY <1>5, <2>1, ReassignType
  <1>6. ASSUME NEW k \in PodKey, NEW n \in NIC, UnassignPodIPv4Address(k, n)
        PROVE  FiniteTypeOK'
    <2>1. DOMAIN IPv4Addresses' = DOMAIN IPv4Addresses
      BY <1>6 DEF UnassignPodIPv4Address
    <2> QED
      BY <1>6, <2>1, UnassignType
  <1>7. ASSUME NEW n \in NIC, DropNIC(n)
        PROVE  FiniteTypeOK'
    <2>1. DOMAIN IPv4Addresses' = DOMAIN IPv4Addresses \ AddressesOf(n)
      BY <1>7, DropNICFacts
    <2> QED
      BY <1>7, <2>1, DropNICType, FS_Difference
  <1>8. ASSUME Tick PROVE FiniteTypeOK'
    <2>1. DOMAIN IPv4Addresses' = DOMAIN IPv4Addresses
      BY <1>8 DEF Tick
    <2> QED
      BY <1>8, <2>1, TickType
  <1>9. CASE UNCHANGED storeVars
    BY <1>9 DEF storeVars, StoreTypeOK
  <1> QED
    BY <1>1, <1>2, <1>3, <1>4, <1>5, <1>6, <1>7, <1>8, <1>9
    DEF StoreNext, RemoveUnusedNICFromStore, RemoveNICFromDataStore

\* The empty store is well typed and has finitely many addresses.
LEMMA TypeInit == NewDataStore => FiniteTypeOK
  BY FS_EmptySet DEF NewDataStore, StoreTypeOK, FiniteTypeOK

\* Type correctness: whatever exported operations of the store are called, in
\* whatever order, its maps and counters keep their types and every address
\* belongs to a NIC the store knows.
THEOREM TypeCorrect == StoreSpec => []StoreTypeOK
  <1>1. NewDataStore => FiniteTypeOK
    BY TypeInit
  <1>2. FiniteTypeOK /\ [StoreNext]_storeVars => FiniteTypeOK'
    BY TypeNext
  <1>3. FiniteTypeOK => StoreTypeOK
    BY DEF FiniteTypeOK
  <1> QED
    BY <1>1, <1>2, <1>3, PTL DEF StoreSpec

----------------------------------------------------------------------------
(* The counters *)

\* A set of addresses in use of NIC n.
InUse(n) == AddressesOf(n) \cap AssignedAddresses

\* The counters and the sets they count.
CountInv == FiniteTypeOK /\ Accounting

\* Every set the counters count is finite.
LEMMA FiniteCounts ==
    ASSUME FiniteTypeOK
    PROVE  /\ IsFiniteSet(AssignedAddresses)
           /\ \A n : IsFiniteSet(AddressesOf(n)) /\ IsFiniteSet(InUse(n))
  <1>1. /\ AssignedAddresses \in SUBSET DOMAIN IPv4Addresses
        /\ \A n : /\ AddressesOf(n) \in SUBSET DOMAIN IPv4Addresses
                  /\ InUse(n) \in SUBSET DOMAIN IPv4Addresses
    BY DEF AssignedAddresses, AddressesOf, InUse
  <1> QED
    BY <1>1, FS_Subset DEF FiniteTypeOK

\* Marking a free address: both counters follow the set they count.
LEMMA IncrementCounts ==
    ASSUME CountInv, NEW n, NEW i, <<n, i>> \in DOMAIN IPv4Addresses,
           ~IPv4Addresses[<<n, i>>].Assigned, incrementAssignedCount(n, i), total' = total
    PROVE  Accounting'
  <1> DEFINE a == <<n, i>>
  <1>1. /\ n \in DOMAIN nicIPPools
        /\ DOMAIN nicIPPools' = DOMAIN nicIPPools
        /\ \A m \in DOMAIN nicIPPools :
             nicIPPools'[m].AssignedIPv4Addresses =
               nicIPPools[m].AssignedIPv4Addresses + (IF m = n THEN 1 ELSE 0)
        /\ DOMAIN IPv4Addresses' = DOMAIN IPv4Addresses
        /\ \A b \in DOMAIN IPv4Addresses :
             IPv4Addresses'[b].Assigned <=> IPv4Addresses[b].Assigned \/ b = a
        /\ assigned' = assigned + 1
    BY IncrementFacts DEF CountInv, FiniteTypeOK
  <1>2. a \notin AssignedAddresses /\ a[1] = n
    BY DEF AssignedAddresses
  <1> HIDE DEF a
  <1>3. AssignedAddresses' = AssignedAddresses \cup {a}
    BY <1>1 DEF AssignedAddresses, a
  <1>4. \A m : AddressesOf(m)' = AddressesOf(m)
    BY <1>1 DEF AddressesOf
  <1>5. InUse(n)' = InUse(n) \cup {a} /\ a \notin InUse(n)
    BY <1>2, <1>3, <1>4 DEF InUse, AddressesOf, a
  <1>6. \A m : m # n => InUse(m)' = InUse(m)
    BY <1>2, <1>3, <1>4 DEF InUse, AddressesOf
  <1>7. Cardinality(AssignedAddresses') = Cardinality(AssignedAddresses) + 1
    BY <1>2, <1>3, FiniteCounts, FS_AddElement DEF CountInv
  <1>8. Cardinality(InUse(n)') = Cardinality(InUse(n)) + 1
    BY <1>5, FiniteCounts, FS_AddElement DEF CountInv
  <1>9. \A m \in DOMAIN nicIPPools :
          nicIPPools'[m].AssignedIPv4Addresses = Cardinality(InUse(m)')
    <2>1. \A m \in DOMAIN nicIPPools :
            /\ nicIPPools[m].AssignedIPv4Addresses \in Int
            /\ nicIPPools[m].AssignedIPv4Addresses = Cardinality(InUse(m))
      BY DEF CountInv, Accounting, InUse, FiniteTypeOK, StoreTypeOK, NICIPPool
    <2> QED
      BY <1>1, <1>6, <1>8, <2>1
  <1> QED
    BY <1>1, <1>7, <1>9 DEF Accounting, InUse, CountInv

\* Releasing an address: both counters follow.
LEMMA UnassignCounts ==
    ASSUME CountInv, NEW k, NEW n, UnassignPodIPv4Address(k, n)
    PROVE  Accounting'
  <1> DEFINE a == <<n, podsIP[k].IP>>
  <1>0. StoreTypeOK
    BY DEF CountInv, FiniteTypeOK
  <1>1. /\ n \in DOMAIN nicIPPools
        /\ a \in AssignedAddresses
        /\ DOMAIN nicIPPools' = DOMAIN nicIPPools
        /\ \A m \in DOMAIN nicIPPools :
             nicIPPools'[m].AssignedIPv4Addresses =
               IF m = n THEN nicIPPools[n].AssignedIPv4Addresses - 1
                        ELSE nicIPPools[m].AssignedIPv4Addresses
        /\ DOMAIN IPv4Addresses' = DOMAIN IPv4Addresses
        /\ \A b \in DOMAIN IPv4Addresses :
             IPv4Addresses'[b].Assigned <=> IPv4Addresses[b].Assigned /\ b # a
        /\ assigned' = assigned - 1
        /\ total' = total
    <2>1. ReleaseEffect(k, n)
      BY <1>0, UnassignFacts
    <2> QED
      BY <2>1 DEF ReleaseEffect
  <1>2. a[1] = n
    OBVIOUS
  <1> HIDE DEF a
  <1>3. AssignedAddresses' = AssignedAddresses \ {a}
    BY <1>1 DEF AssignedAddresses
  <1>4. \A m : AddressesOf(m)' = AddressesOf(m)
    BY <1>1 DEF AddressesOf
  <1>5. InUse(n)' = InUse(n) \ {a} /\ a \in InUse(n)
    BY <1>1, <1>2, <1>3, <1>4 DEF InUse, AddressesOf, AssignedAddresses
  <1>6. \A m : m # n => InUse(m)' = InUse(m)
    BY <1>2, <1>3, <1>4 DEF InUse, AddressesOf
  <1>7. Cardinality(AssignedAddresses') = Cardinality(AssignedAddresses) - 1
    BY <1>1, <1>3, FiniteCounts, FS_RemoveElement DEF CountInv
  <1>8. Cardinality(InUse(n)') = Cardinality(InUse(n)) - 1
    BY <1>5, FiniteCounts, FS_RemoveElement DEF CountInv
  <1>9. \A m \in DOMAIN nicIPPools :
          nicIPPools'[m].AssignedIPv4Addresses = Cardinality(InUse(m)')
    <2>1. \A m \in DOMAIN nicIPPools :
            /\ nicIPPools[m].AssignedIPv4Addresses \in Int
            /\ nicIPPools[m].AssignedIPv4Addresses = Cardinality(InUse(m))
      BY DEF CountInv, Accounting, InUse, FiniteTypeOK, StoreTypeOK, NICIPPool
    <2> QED
      BY <1>1, <1>6, <1>8, <2>1
  <1> QED
    BY <1>1, <1>7, <1>9 DEF Accounting, InUse, CountInv

\* Dropping a NIC whose counter is zero drops no assigned address.
LEMMA DropNICCounts ==
    ASSUME CountInv, NEW n, n \in DOMAIN nicIPPools,
           nicIPPools[n].AssignedIPv4Addresses = 0, DropNIC(n)
    PROVE  /\ InUse(n) = {}
           /\ Accounting'
  <1>1. InUse(n) = {}
    <2>1. Cardinality(InUse(n)) = 0
      BY DEF CountInv, Accounting, InUse
    <2> QED
      BY <2>1, FiniteCounts, FS_EmptySet DEF CountInv
  <1>2. /\ DOMAIN nicIPPools' = DOMAIN nicIPPools \ {n}
        /\ \A m \in DOMAIN nicIPPools' : nicIPPools'[m] = nicIPPools[m]
        /\ DOMAIN IPv4Addresses' = DOMAIN IPv4Addresses \ AddressesOf(n)
        /\ \A a \in DOMAIN IPv4Addresses' : IPv4Addresses'[a] = IPv4Addresses[a]
        /\ UNCHANGED assigned
        /\ total' = total - Cardinality(AddressesOf(n))
    BY DropNICFacts DEF CountInv, FiniteTypeOK
  <1>3. AssignedAddresses' = AssignedAddresses
    BY <1>1, <1>2 DEF AssignedAddresses, InUse
  <1>4. \A m : m # n => AddressesOf(m)' = AddressesOf(m)
    BY <1>2 DEF AddressesOf
  <1>5. Cardinality(DOMAIN IPv4Addresses') =
          Cardinality(DOMAIN IPv4Addresses) - Cardinality(AddressesOf(n))
    <2>1. DOMAIN IPv4Addresses \cap AddressesOf(n) = AddressesOf(n)
      BY DEF AddressesOf
    <2> QED
      BY <1>2, <2>1, FS_Difference DEF CountInv, FiniteTypeOK
  <1>6. \A m \in DOMAIN nicIPPools' :
          nicIPPools'[m].AssignedIPv4Addresses =
            Cardinality(AddressesOf(m)' \cap AssignedAddresses')
    BY <1>2, <1>3, <1>4 DEF CountInv, Accounting
  <1> QED
    BY <1>1, <1>2, <1>3, <1>5, <1>6 DEF CountInv, Accounting

\* The counters agree with the maps after every call.
LEMMA CountNext ==
    ASSUME CountInv, [StoreNext]_storeVars
    PROVE  CountInv'
  <1>0. FiniteTypeOK'
    BY TypeNext DEF CountInv
  <1>1. ASSUME NEW n \in NIC, NEW dev \in Device, NEW primary \in BOOLEAN,
               AddNIC(n, dev, primary)
        PROVE  Accounting'
    <2>1. /\ DOMAIN nicIPPools' = DOMAIN nicIPPools \cup {n}
          /\ nicIPPools'[n].AssignedIPv4Addresses = 0
          /\ \A m \in DOMAIN nicIPPools : nicIPPools'[m] = nicIPPools[m]
          /\ UNCHANGED <<IPv4Addresses, total, assigned>>
          /\ n \notin DOMAIN nicIPPools
      BY <1>1 DEF AddNIC, Put
    <2>2. AddressesOf(n) = {}
      BY <2>1 DEF CountInv, FiniteTypeOK, StoreTypeOK, AddressesOf
    <2>3. Cardinality(AddressesOf(n) \cap AssignedAddresses) = 0
      BY <2>2, FS_EmptySet
    <2>4. AssignedAddresses' = AssignedAddresses /\ \A m : AddressesOf(m)' = AddressesOf(m)
      BY <2>1 DEF AssignedAddresses, AddressesOf
    <2> QED
      BY <2>1, <2>3, <2>4 DEF CountInv, Accounting
  <1>2. ASSUME NEW n \in NIC, NEW i \in IP, AddIPv4AddressFromStore(n, i)
        PROVE  Accounting'
    <2> DEFINE a == <<n, i>>
    <2>1. /\ a \notin DOMAIN IPv4Addresses
          /\ DOMAIN IPv4Addresses' = DOMAIN IPv4Addresses \cup {a}
          /\ ~IPv4Addresses'[a].Assigned
          /\ \A b \in DOMAIN IPv4Addresses : IPv4Addresses'[b] = IPv4Addresses[b]
          /\ total' = total + 1
          /\ UNCHANGED <<nicIPPools, assigned>>
      BY <1>2 DEF AddIPv4AddressFromStore, Put
    <2> HIDE DEF a
    <2>2. Cardinality(DOMAIN IPv4Addresses') = Cardinality(DOMAIN IPv4Addresses) + 1
      BY <2>1, FS_AddElement DEF CountInv, FiniteTypeOK
    <2>3. AssignedAddresses' = AssignedAddresses
      BY <2>1 DEF AssignedAddresses
    <2>4. \A m : AddressesOf(m)' \cap AssignedAddresses' = AddressesOf(m) \cap AssignedAddresses
      BY <2>1, <2>3 DEF AddressesOf, AssignedAddresses
    <2> QED
      BY <2>1, <2>2, <2>3, <2>4 DEF CountInv, Accounting
  <1>3. ASSUME NEW n \in NIC, NEW i \in IP, DelIPv4AddressFromStore(n, i)
        PROVE  Accounting'
    <2> DEFINE a == <<n, i>>
    <2>1. /\ a \in DOMAIN IPv4Addresses
          /\ ~IPv4Addresses[a].Assigned
          /\ DOMAIN IPv4Addresses' = DOMAIN IPv4Addresses \ {a}
          /\ \A b \in DOMAIN IPv4Addresses' : IPv4Addresses'[b] = IPv4Addresses[b]
          /\ total' = total - 1
          /\ UNCHANGED <<nicIPPools, assigned>>
      BY <1>3 DEF DelIPv4AddressFromStore, Without, Restrict
    <2> HIDE DEF a
    <2>2. Cardinality(DOMAIN IPv4Addresses') = Cardinality(DOMAIN IPv4Addresses) - 1
      BY <2>1, FS_RemoveElement DEF CountInv, FiniteTypeOK
    <2>3. AssignedAddresses' = AssignedAddresses
      BY <2>1 DEF AssignedAddresses
    <2>4. \A m : AddressesOf(m)' \cap AssignedAddresses' = AddressesOf(m) \cap AssignedAddresses
      BY <2>1, <2>3 DEF AddressesOf, AssignedAddresses
    <2> QED
      BY <2>1, <2>2, <2>3, <2>4 DEF CountInv, Accounting
  <1>4. ASSUME NEW k \in PodKey, NEW n \in NIC, NEW i \in IP, AssignFresh(k, n, i)
        PROVE  Accounting'
    BY <1>4, IncrementCounts DEF AssignFresh, Available
  <1>5. ASSUME NEW k \in PodKey, NEW n \in NIC, NEW i \in IP, Reassign(k, n, i)
        PROVE  Accounting'
    <2>1. CASE IPv4Addresses[<<n, i>>].Assigned
      BY <1>5, <2>1 DEF Reassign, CountInv, Accounting, AssignedAddresses, AddressesOf
    <2>2. CASE ~IPv4Addresses[<<n, i>>].Assigned
      BY <1>5, <2>2, IncrementCounts DEF Reassign
    <2> QED
      BY <2>1, <2>2
  <1>6. ASSUME NEW k \in PodKey, NEW n \in NIC, UnassignPodIPv4Address(k, n)
        PROVE  Accounting'
    BY <1>6, UnassignCounts
  <1>7. ASSUME NEW n \in NIC, RemoveUnusedNICFromStore(n)
        PROVE  Accounting'
    BY <1>7, DropNICCounts DEF RemoveUnusedNICFromStore, Deletable
  <1>8. ASSUME NEW n \in NIC, RemoveNICFromDataStore(n)
        PROVE  Accounting'
    BY <1>8, DropNICCounts DEF RemoveNICFromDataStore
  <1>9. ASSUME Tick PROVE Accounting'
    <2>1. /\ DOMAIN nicIPPools' = DOMAIN nicIPPools
          /\ \A m \in DOMAIN nicIPPools :
               nicIPPools'[m].AssignedIPv4Addresses = nicIPPools[m].AssignedIPv4Addresses
          /\ DOMAIN IPv4Addresses' = DOMAIN IPv4Addresses
          /\ \A a \in DOMAIN IPv4Addresses :
               IPv4Addresses'[a].Assigned = IPv4Addresses[a].Assigned
          /\ UNCHANGED <<total, assigned>>
      BY <1>9, TickFacts DEF CountInv, FiniteTypeOK
    <2>2. AssignedAddresses' = AssignedAddresses /\ \A m : AddressesOf(m)' = AddressesOf(m)
      BY <2>1 DEF AssignedAddresses, AddressesOf
    <2> QED
      BY <2>1, <2>2 DEF CountInv, Accounting
  <1>10. CASE UNCHANGED storeVars
    <2>1. UNCHANGED <<nicIPPools, IPv4Addresses, total, assigned>>
      BY <1>10 DEF storeVars
    <2>2. AssignedAddresses' = AssignedAddresses /\ \A m : AddressesOf(m)' = AddressesOf(m)
      BY <2>1 DEF AssignedAddresses, AddressesOf
    <2> QED
      BY <1>0, <2>1, <2>2 DEF CountInv, Accounting
  <1> QED
    BY <1>0, <1>1, <1>2, <1>3, <1>4, <1>5, <1>6, <1>7, <1>8, <1>9, <1>10 DEF StoreNext, CountInv

\* The counters of the empty store are right.
LEMMA CountInit == NewDataStore => CountInv
  <1> SUFFICES ASSUME NewDataStore PROVE Accounting
    BY TypeInit DEF CountInv
  <1>1. DOMAIN IPv4Addresses = {} /\ DOMAIN nicIPPools = {} /\ AssignedAddresses = {}
    BY DEF NewDataStore, AssignedAddresses
  <1> QED
    BY <1>1, FS_EmptySet DEF NewDataStore, Accounting

\* The counters GetStats returns and the per-NIC counters agree with the maps,
\* whatever exported operations of the store are called and in whatever order.
THEOREM AccountingCorrect == StoreSpec => []Accounting
  <1>1. NewDataStore => CountInv
    BY CountInit
  <1>2. CountInv /\ [StoreNext]_storeVars => CountInv'
    BY CountNext
  <1>3. CountInv => Accounting
    BY DEF CountInv
  <1> QED
    BY <1>1, <1>2, <1>3, PTL DEF StoreSpec

----------------------------------------------------------------------------
(* Ownership, under DaemonSpec *)

\* An address is on one NIC only.
OneNIC == \A a, b \in DOMAIN IPv4Addresses : a[2] = b[2] => a = b

\* No address was released more recently than its NIC remembers.
ReleaseTimes ==
    \A a \in DOMAIN IPv4Addresses :
        IPv4Addresses[a].unassignedAge >= nicIPPools[a[1]].lastUnassignedAge

\* The inductive invariant of DaemonSpec.  Accounting is what makes the test of
\* the NIC's counter a test of its addresses, OneNIC what makes the address a
\* pod holds determine the NIC.
OwnerInv ==
    /\ CountInv
    /\ OneNIC
    /\ DistinctHolders
    /\ Ownership
    /\ ReleaseTimes

\* What the daemon does to the store is among what any caller may do to it.
LEMMA DaemonNextIsNext == [DaemonNext]_storeVars => [StoreNext]_storeVars
  BY DEF DaemonNext, StoreNext

\* The passing of time does not reorder two ages.
LEMMA OlderMonotone ==
    ASSUME NEW a \in Age, NEW b \in Age, a >= b
    PROVE  Older(a) >= Older(b)
  BY AgeCapAssumption DEF Age, Older

\* What OwnerInv says of the records it compares.
LEMMA RecordTypes ==
    ASSUME StoreTypeOK
    PROVE  /\ \A a \in DOMAIN IPv4Addresses :
                /\ a[1] \in DOMAIN nicIPPools
                /\ a[1] \in NIC
                /\ a[2] \in IP
                /\ a = <<a[1], a[2]>>
                /\ IPv4Addresses[a].unassignedAge \in Age
           /\ \A n \in DOMAIN nicIPPools : nicIPPools[n].lastUnassignedAge \in Age
           /\ \A k \in DOMAIN podsIP : podsIP[k].IP \in IP
  <1>1. \A a \in DOMAIN IPv4Addresses :
          /\ a \in (DOMAIN nicIPPools) \X IP
          /\ IPv4Addresses[a] \in AddressInfo
    BY DEF StoreTypeOK
  <1>2. \A n \in DOMAIN nicIPPools : n \in NIC /\ nicIPPools[n] \in NICIPPool
    BY DEF StoreTypeOK
  <1>3. \A k \in DOMAIN podsIP : podsIP[k] \in PodIPInfo
    BY DEF StoreTypeOK
  <1> QED
    BY <1>1, <1>2, <1>3 DEF AddressInfo, NICIPPool, PodIPInfo

\* Giving a free address to a new pod.
LEMMA GiveOwner ==
    ASSUME OwnerInv, NEW k \in PodKey, NEW n \in NIC, NEW i \in IP, k \notin DOMAIN podsIP,
           <<n, i>> \in DOMAIN IPv4Addresses, ~IPv4Addresses[<<n, i>>].Assigned,
           incrementAssignedCount(n, i), RecordPod(k, n, i)
    PROVE  OneNIC' /\ DistinctHolders' /\ Ownership' /\ ReleaseTimes'
  <1> DEFINE c == <<n, i>>
  <1>0. StoreTypeOK
    BY DEF OwnerInv, CountInv, FiniteTypeOK
  <1>1. /\ DOMAIN podsIP' = DOMAIN podsIP \cup {k}
        /\ podsIP'[k].IP = i
        /\ podsIP'[k].DeviceNumber = nicIPPools[n].DeviceNumber
        /\ \A l \in DOMAIN podsIP : podsIP'[l] = podsIP[l]
    <2>1. /\ DOMAIN podsIP' = DOMAIN podsIP \cup {k}
          /\ podsIP'[k] = [IP |-> i, DeviceNumber |-> nicIPPools[n].DeviceNumber]
          /\ \A l \in DOMAIN podsIP : podsIP'[l] = podsIP[l]
      BY <1>0, RecordPodFacts
    <2> QED
      BY <2>1
  <1>2. /\ n \in DOMAIN nicIPPools
        /\ DOMAIN nicIPPools' = DOMAIN nicIPPools
        /\ \A m \in DOMAIN nicIPPools :
             /\ nicIPPools'[m].DeviceNumber = nicIPPools[m].DeviceNumber
             /\ nicIPPools'[m].lastUnassignedAge = nicIPPools[m].lastUnassignedAge
        /\ DOMAIN IPv4Addresses' = DOMAIN IPv4Addresses
        /\ \A a \in DOMAIN IPv4Addresses :
             /\ IPv4Addresses'[a].Assigned <=> IPv4Addresses[a].Assigned \/ a = c
             /\ IPv4Addresses'[a].unassignedAge = IPv4Addresses[a].unassignedAge
    BY <1>0, IncrementFacts
  <1>3. AssignedAddresses' = AssignedAddresses \cup {c}
    BY <1>2 DEF AssignedAddresses
  <1>4. \A l \in DOMAIN podsIP : podsIP[l].IP # i
    <2> SUFFICES ASSUME NEW l \in DOMAIN podsIP, podsIP[l].IP = i PROVE FALSE
      OBVIOUS
    <2>1. PICK m \in DOMAIN nicIPPools : <<m, i>> \in AssignedAddresses
      BY DEF OwnerInv, Ownership, HoldsOn
    <2>2. <<m, i>> \in DOMAIN IPv4Addresses /\ IPv4Addresses[<<m, i>>].Assigned
      BY <2>1 DEF AssignedAddresses
    <2>3. <<m, i>> = <<n, i>>
      BY <2>2 DEF OwnerInv, OneNIC
    <2> QED
      BY <2>2, <2>3
  <1>5. OneNIC'
    BY <1>2 DEF OwnerInv, OneNIC
  <1>6. DistinctHolders'
    BY <1>1, <1>4 DEF OwnerInv, DistinctHolders
  <1>7. ReleaseTimes'
    BY <1>0, <1>2, RecordTypes DEF OwnerInv, ReleaseTimes
  <1>8. Ownership'
    <2>1. ASSUME NEW l \in DOMAIN podsIP'
          PROVE  \E m \in DOMAIN nicIPPools' :
                   /\ <<m, podsIP'[l].IP>> \in AssignedAddresses'
                   /\ podsIP'[l].DeviceNumber = nicIPPools'[m].DeviceNumber
      <3>1. CASE l = k
        BY <1>1, <1>2, <1>3, <3>1
      <3>2. CASE l \in DOMAIN podsIP
        <4>1. PICK m \in DOMAIN nicIPPools :
                /\ <<m, podsIP[l].IP>> \in AssignedAddresses
                /\ podsIP[l].DeviceNumber = nicIPPools[m].DeviceNumber
          BY <3>2 DEF OwnerInv, Ownership, HoldsOn
        <4> QED
          BY <1>1, <1>2, <1>3, <3>2, <4>1
      <3> QED
        BY <1>1, <3>1, <3>2
    <2>2. ASSUME NEW a \in AssignedAddresses'
          PROVE  \E l \in DOMAIN podsIP' : podsIP'[l].IP = a[2]
      <3>1. CASE a = c
        BY <1>1, <3>1
      <3>2. CASE a \in AssignedAddresses
        <4>1. PICK l \in DOMAIN podsIP : podsIP[l].IP = a[2]
          BY <3>2 DEF OwnerInv, Ownership
        <4> QED
          BY <1>1, <4>1
      <3> QED
        BY <1>3, <3>1, <3>2
    <2> QED
      BY <2>1, <2>2 DEF Ownership, HoldsOn
  <1> QED
    BY <1>5, <1>6, <1>7, <1>8

\* Taking the address back from its only holder.
LEMMA TakeOwner ==
    ASSUME OwnerInv, NEW k \in PodKey, NEW n \in NIC, UnassignPodIPv4Address(k, n)
    PROVE  OneNIC' /\ DistinctHolders' /\ Ownership' /\ ReleaseTimes'
  <1> DEFINE c == <<n, podsIP[k].IP>>
  <1>0. StoreTypeOK
    BY DEF OwnerInv, CountInv, FiniteTypeOK
  <1>1. /\ k \in DOMAIN podsIP
        /\ c \in AssignedAddresses
        /\ DOMAIN nicIPPools' = DOMAIN nicIPPools
        /\ \A m \in DOMAIN nicIPPools :
             /\ nicIPPools'[m].DeviceNumber = nicIPPools[m].DeviceNumber
             /\ nicIPPools'[m].lastUnassignedAge =
                  IF m = n THEN 0 ELSE nicIPPools[m].lastUnassignedAge
        /\ DOMAIN IPv4Addresses' = DOMAIN IPv4Addresses
        /\ \A a \in DOMAIN IPv4Addresses :
             /\ IPv4Addresses'[a].Assigned <=> IPv4Addresses[a].Assigned /\ a # c
             /\ IPv4Addresses'[a].unassignedAge =
                  IF a = c THEN 0 ELSE IPv4Addresses[a].unassignedAge
        /\ DOMAIN podsIP' = DOMAIN podsIP \ {k}
        /\ \A l \in DOMAIN podsIP' : podsIP'[l] = podsIP[l]
    <2>1. ReleaseEffect(k, n)
      BY <1>0, UnassignFacts
    <2> QED
      BY <2>1 DEF ReleaseEffect
  <1>2. AssignedAddresses' = AssignedAddresses \ {c}
    BY <1>1 DEF AssignedAddresses
  <1>3. c[1] = n /\ c[2] = podsIP[k].IP
    OBVIOUS
  <1>4. OneNIC'
    BY <1>1 DEF OwnerInv, OneNIC
  <1>5. DistinctHolders'
    BY <1>1 DEF OwnerInv, DistinctHolders
  <1>6. ReleaseTimes'
    <2>1. ASSUME NEW a \in DOMAIN IPv4Addresses
          PROVE  IPv4Addresses'[a].unassignedAge >= nicIPPools'[a[1]].lastUnassignedAge
      <3>1. /\ a[1] \in DOMAIN nicIPPools
            /\ IPv4Addresses[a].unassignedAge \in Nat
            /\ IPv4Addresses[a].unassignedAge >= nicIPPools[a[1]].lastUnassignedAge
        BY <1>0, RecordTypes DEF OwnerInv, ReleaseTimes, Age
      <3>2. CASE a[1] = n
        <4>1. nicIPPools'[a[1]].lastUnassignedAge = 0
          BY <1>1, <3>1, <3>2
        <4>2. IPv4Addresses'[a].unassignedAge \in Nat
          <5> HIDE DEF c
          <5> QED BY <1>1, <3>1
        <4> QED
          BY <4>1, <4>2
      <3>3. CASE a[1] # n
        <4> HIDE DEF c
        <4> QED BY <1>1, <1>3, <3>1, <3>3
      <3> QED
        BY <3>2, <3>3
    <2> QED
      BY <1>1, <2>1 DEF ReleaseTimes
  <1>7. Ownership'
    <2>1. ASSUME NEW l \in DOMAIN podsIP'
          PROVE  \E m \in DOMAIN nicIPPools' :
                   /\ <<m, podsIP'[l].IP>> \in AssignedAddresses'
                   /\ podsIP'[l].DeviceNumber = nicIPPools'[m].DeviceNumber
      <3>1. PICK m \in DOMAIN nicIPPools :
              /\ <<m, podsIP[l].IP>> \in AssignedAddresses
              /\ podsIP[l].DeviceNumber = nicIPPools[m].DeviceNumber
        BY <1>1 DEF OwnerInv, Ownership, HoldsOn
      <3>2. podsIP[l].IP # podsIP[k].IP
        BY <1>1 DEF OwnerInv, DistinctHolders
      <3>3. <<m, podsIP[l].IP>> \in AssignedAddresses'
        BY <1>2, <3>1, <3>2
      <3> QED
        BY <1>1, <3>1, <3>3
    <2>2. ASSUME NEW a \in AssignedAddresses'
          PROVE  \E l \in DOMAIN podsIP' : podsIP'[l].IP = a[2]
      <3>1. a \in AssignedAddresses /\ a # c
        BY <1>2
      <3>2. a \in DOMAIN IPv4Addresses /\ c \in DOMAIN IPv4Addresses
        BY <1>1, <3>1 DEF AssignedAddresses
      <3>3. a[2] # podsIP[k].IP
        <4> HIDE DEF c
        <4> QED BY <1>3, <3>1, <3>2 DEF OwnerInv, OneNIC
      <3>4. PICK l \in DOMAIN podsIP : podsIP[l].IP = a[2]
        BY <3>1 DEF OwnerInv, Ownership
      <3> QED
        BY <1>1, <3>3, <3>4
    <2> QED
      BY <2>1, <2>2 DEF Ownership, HoldsOn
  <1> QED
    BY <1>4, <1>5, <1>6, <1>7

\* Every step of the daemon keeps the ownership invariant.
LEMMA OwnerNext ==
    ASSUME OwnerInv, [DaemonNext]_storeVars
    PROVE  OwnerInv'
  <1> DEFINE Goal == OneNIC /\ DistinctHolders /\ Ownership /\ ReleaseTimes
  <1>0. StoreTypeOK
    BY DEF OwnerInv, CountInv, FiniteTypeOK
  <1>1. CountInv'
    BY DaemonNextIsNext, CountNext DEF OwnerInv
  <1>2. ASSUME NEW n \in NIC, NEW dev \in Device, NEW primary \in BOOLEAN,
               AddNIC(n, dev, primary)
        PROVE  Goal'
    <2>1. /\ DOMAIN nicIPPools' = DOMAIN nicIPPools \cup {n}
          /\ \A m \in DOMAIN nicIPPools : nicIPPools'[m] = nicIPPools[m]
          /\ UNCHANGED <<IPv4Addresses, podsIP>>
      BY <1>2 DEF AddNIC, Put
    <2>2. AssignedAddresses' = AssignedAddresses
      BY <2>1 DEF AssignedAddresses
    <2>3. OneNIC' /\ DistinctHolders'
      BY <2>1 DEF OwnerInv, OneNIC, DistinctHolders
    <2>4. ReleaseTimes'
      BY <1>0, <2>1, RecordTypes DEF OwnerInv, ReleaseTimes
    <2>5. Ownership'
      BY <2>1, <2>2 DEF OwnerInv, Ownership, HoldsOn
    <2> QED
      BY <2>3, <2>4, <2>5
  <1>3. ASSUME NEW n \in NIC, NEW i \in IP, OnNoNIC(i), AddIPv4AddressFromStore(n, i)
        PROVE  Goal'
    <2> DEFINE c == <<n, i>>
    <2>1. /\ n \in DOMAIN nicIPPools
          /\ DOMAIN IPv4Addresses' = DOMAIN IPv4Addresses \cup {c}
          /\ IPv4Addresses'[c] = [Assigned |-> FALSE, unassignedAge |-> AgeCap]
          /\ \A b \in DOMAIN IPv4Addresses : IPv4Addresses'[b] = IPv4Addresses[b]
          /\ c \notin DOMAIN IPv4Addresses
          /\ UNCHANGED <<nicIPPools, podsIP>>
      BY <1>3 DEF AddIPv4AddressFromStore, Put
    <2>2. c[1] = n /\ c[2] = i
      OBVIOUS
    <2>3. \A b \in DOMAIN IPv4Addresses : b[2] # i
      BY <1>0, <1>3, RecordTypes DEF OnNoNIC
    <2> HIDE DEF c
    <2>4. ~IPv4Addresses'[c].Assigned /\ IPv4Addresses'[c].unassignedAge = AgeCap
      BY <2>1
    <2>5. AssignedAddresses' = AssignedAddresses
      BY <2>1, <2>4 DEF AssignedAddresses
    <2>6. OneNIC' /\ DistinctHolders'
      BY <2>1, <2>2, <2>3 DEF OwnerInv, OneNIC, DistinctHolders
    <2>7. ReleaseTimes'
      <3>1. AgeCap >= nicIPPools[n].lastUnassignedAge
        BY <1>0, <2>1, RecordTypes, AgeCapAssumption DEF Age
      <3> QED
        BY <2>1, <2>2, <2>4, <3>1 DEF OwnerInv, ReleaseTimes
    <2>8. Ownership'
      BY <2>1, <2>5 DEF OwnerInv, Ownership, HoldsOn
    <2> QED
      BY <2>6, <2>7, <2>8
  <1>4. ASSUME NEW k \in PodKey, NEW n \in NIC, NEW i \in IP, AssignFresh(k, n, i)
        PROVE  Goal'
    BY <1>4, GiveOwner DEF AssignFresh, Available
  <1>5. ASSUME NEW k \in PodKey, NEW n \in NIC, NEW i \in IP, HeldByNoPod(i), Reassign(k, n, i)
        PROVE  Goal'
    <2>1. /\ k \notin DOMAIN podsIP
          /\ <<n, i>> \in DOMAIN IPv4Addresses
          /\ RecordPod(k, n, i)
      BY <1>5 DEF Reassign
    <2>2. ~IPv4Addresses[<<n, i>>].Assigned
      <3> SUFFICES ASSUME IPv4Addresses[<<n, i>>].Assigned PROVE FALSE
        OBVIOUS
      <3>1. <<n, i>> \in AssignedAddresses
        BY <2>1 DEF AssignedAddresses
      <3>2. PICK l \in DOMAIN podsIP : podsIP[l].IP = i
        BY <3>1 DEF OwnerInv, Ownership
      <3> QED
        BY <1>5, <3>2 DEF HeldByNoPod
    <2>3. incrementAssignedCount(n, i)
      BY <1>5, <2>2 DEF Reassign
    <2> QED
      BY <2>1, <2>2, <2>3, GiveOwner
  <1>6. ASSUME NEW k \in PodKey, NEW n \in NIC, UnassignPodIPv4Address(k, n)
        PROVE  Goal'
    BY <1>6, TakeOwner
  <1>7. ASSUME NEW n \in NIC, RemoveUnusedNICFromStore(n)
        PROVE  Goal'
    <2>1. InUse(n) = {}
      BY <1>7, DropNICCounts DEF RemoveUnusedNICFromStore, Deletable, OwnerInv
    <2>2. /\ DOMAIN nicIPPools' = DOMAIN nicIPPools \ {n}
          /\ \A m \in DOMAIN nicIPPools' : nicIPPools'[m] = nicIPPools[m]
          /\ DOMAIN IPv4Addresses' = DOMAIN IPv4Addresses \ AddressesOf(n)
          /\ \A a \in DOMAIN IPv4Addresses' : IPv4Addresses'[a] = IPv4Addresses[a]
          /\ UNCHANGED podsIP
      BY <1>0, <1>7, DropNICFacts DEF RemoveUnusedNICFromStore
    <2>3. AssignedAddresses' = AssignedAddresses
      BY <2>1, <2>2 DEF AssignedAddresses, InUse
    <2>4. OneNIC' /\ DistinctHolders'
      BY <2>2 DEF OwnerInv, OneNIC, DistinctHolders
    <2>5. ReleaseTimes'
      <3>1. \A a \in DOMAIN IPv4Addresses' : a[1] \in DOMAIN nicIPPools'
        BY <1>0, <2>2, RecordTypes DEF AddressesOf
      <3> QED
        BY <2>2, <3>1 DEF OwnerInv, ReleaseTimes
    <2>6. Ownership'
      <3>1. ASSUME NEW k \in DOMAIN podsIP
            PROVE  \E m \in DOMAIN nicIPPools' :
                     /\ <<m, podsIP[k].IP>> \in AssignedAddresses
                     /\ podsIP[k].DeviceNumber = nicIPPools'[m].DeviceNumber
        <4>1. PICK m \in DOMAIN nicIPPools :
                /\ <<m, podsIP[k].IP>> \in AssignedAddresses
                /\ podsIP[k].DeviceNumber = nicIPPools[m].DeviceNumber
          BY DEF OwnerInv, Ownership, HoldsOn
        <4>2. m # n
          BY <2>1, <4>1 DEF InUse, AddressesOf, AssignedAddresses
        <4> QED
          BY <2>2, <4>1, <4>2
      <3> QED
        BY <2>2, <2>3, <3>1 DEF OwnerInv, Ownership, HoldsOn
    <2> QED
      BY <2>4, <2>5, <2>6
  <1>8. ASSUME Tick PROVE Goal'
    <2>1. /\ DOMAIN nicIPPools' = DOMAIN nicIPPools
          /\ \A m \in DOMAIN nicIPPools :
               /\ nicIPPools'[m].DeviceNumber = nicIPPools[m].DeviceNumber
               /\ nicIPPools'[m].lastUnassignedAge = Older(nicIPPools[m].lastUnassignedAge)
          /\ DOMAIN IPv4Addresses' = DOMAIN IPv4Addresses
          /\ \A a \in DOMAIN IPv4Addresses :
               /\ IPv4Addresses'[a].Assigned = IPv4Addresses[a].Assigned
               /\ IPv4Addresses'[a].unassignedAge = Older(IPv4Addresses[a].unassignedAge)
          /\ UNCHANGED podsIP
      BY <1>0, <1>8, TickFacts
    <2>2. AssignedAddresses' = AssignedAddresses
      BY <2>1 DEF AssignedAddresses
    <2>3. OneNIC' /\ DistinctHolders'
      BY <2>1 DEF OwnerInv, OneNIC, DistinctHolders
    <2>4. ReleaseTimes'
      BY <1>0, <2>1, RecordTypes, OlderMonotone DEF OwnerInv, ReleaseTimes
    <2>5. Ownership'
      <3>1. ASSUME NEW k \in DOMAIN podsIP
            PROVE  \E m \in DOMAIN nicIPPools' :
                     /\ <<m, podsIP[k].IP>> \in AssignedAddresses
                     /\ podsIP[k].DeviceNumber = nicIPPools'[m].DeviceNumber
        <4>1. PICK m \in DOMAIN nicIPPools :
                /\ <<m, podsIP[k].IP>> \in AssignedAddresses
                /\ podsIP[k].DeviceNumber = nicIPPools[m].DeviceNumber
          BY DEF OwnerInv, Ownership, HoldsOn
        <4> QED
          BY <2>1, <4>1
      <3> QED
        BY <2>1, <2>2, <3>1 DEF OwnerInv, Ownership, HoldsOn
    <2> QED
      BY <2>3, <2>4, <2>5
  <1>9. ASSUME UNCHANGED storeVars PROVE Goal'
    <2>1. UNCHANGED <<nicIPPools, IPv4Addresses, podsIP>>
      BY <1>9 DEF storeVars
    <2>2. AssignedAddresses' = AssignedAddresses
      BY <2>1 DEF AssignedAddresses
    <2> QED
      BY <2>1, <2>2 DEF OwnerInv, OneNIC, DistinctHolders, Ownership, HoldsOn, ReleaseTimes
  <1>10. Goal'
    <2> HIDE DEF Goal
    <2> QED
      BY <1>2, <1>3, <1>4, <1>5, <1>6, <1>7, <1>8, <1>9 DEF DaemonNext
  <1> QED
    BY <1>1, <1>10 DEF OwnerInv

\* An address that a pod has is marked on the NIC that carries it.
LEMMA HeldIsMarked ==
    ASSUME OwnerInv, NEW k \in DOMAIN podsIP,
           NEW n \in NIC, <<n, podsIP[k].IP>> \in DOMAIN IPv4Addresses
    PROVE  IPv4Addresses[<<n, podsIP[k].IP>>].Assigned
  <1> DEFINE i == podsIP[k].IP
  <1>1. PICK m \in DOMAIN nicIPPools : <<m, i>> \in AssignedAddresses
    BY DEF OwnerInv, Ownership, HoldsOn
  <1>2. <<m, i>> \in DOMAIN IPv4Addresses /\ IPv4Addresses[<<m, i>>].Assigned
    BY <1>1 DEF AssignedAddresses
  <1> HIDE DEF i
  <1>3. ASSUME <<n, i>> \in DOMAIN IPv4Addresses PROVE <<m, i>> = <<n, i>>
    BY <1>2, <1>3 DEF OwnerInv, OneNIC
  <1> QED
    BY <1>2, <1>3 DEF i

\* The empty store has no address to own.
LEMMA OwnerInit == NewDataStore => OwnerInv
  <1> SUFFICES ASSUME NewDataStore PROVE OwnerInv
    OBVIOUS
  <1>1. DOMAIN IPv4Addresses = {} /\ DOMAIN podsIP = {} /\ AssignedAddresses = {}
    BY DEF NewDataStore, AssignedAddresses
  <1> QED
    BY <1>1, CountInit DEF OwnerInv, OneNIC, DistinctHolders, Ownership, ReleaseTimes

\* The ownership invariant holds for the daemon, by induction over its steps.
LEMMA OwnerInvariant == DaemonSpec => []OwnerInv
  BY OwnerInit, OwnerNext, PTL DEF DaemonSpec

\* No address is handed to a pod while another pod holds it, and the table of
\* pods and the marks on addresses never drift apart, for any number of NICs,
\* addresses, pods and containers and any lengths of the cooling periods.
THEOREM OwnershipCorrect == DaemonSpec => [](DistinctHolders /\ Ownership)
  <1>1. OwnerInv => DistinctHolders /\ Ownership
    BY DEF OwnerInv
  <1> QED
    BY <1>1, OwnerInvariant, PTL

\* A NIC is given up only when no pod holds one of its addresses and all of
\* them have been free for addressNICCoolingPeriod.
THEOREM RemovalSafe == DaemonSpec => RemovedNICIsCold
  <1> DEFINE Cold == \A a \in DOMAIN IPv4Addresses :
                       a[1] \notin DOMAIN nicIPPools' =>
                         /\ \A k \in DOMAIN podsIP : podsIP[k].IP # a[2]
                         /\ IPv4Addresses[a].unassignedAge >= addressNICCoolingPeriod
  <1>1. ASSUME OwnerInv, [DaemonNext]_storeVars
        PROVE  [Cold]_storeVars
    <2> SUFFICES ASSUME NEW a \in DOMAIN IPv4Addresses, a[1] \notin DOMAIN nicIPPools'
                 PROVE  /\ \A k \in DOMAIN podsIP : podsIP[k].IP # a[2]
                        /\ IPv4Addresses[a].unassignedAge >= addressNICCoolingPeriod
      OBVIOUS
    <2>0. StoreTypeOK
      BY <1>1 DEF OwnerInv, CountInv, FiniteTypeOK
    <2>1. a[1] \in DOMAIN nicIPPools /\ a = <<a[1], a[2]>>
      BY <2>0, RecordTypes
    <2>2. PICK n \in NIC : RemoveUnusedNICFromStore(n)
      <3>1. ASSUME NEW n \in NIC, NEW dev \in Device, NEW primary \in BOOLEAN,
                   AddNIC(n, dev, primary)
            PROVE  FALSE
        BY <2>1, <3>1 DEF AddNIC, Put
      <3>2. ASSUME NEW n \in NIC, NEW i \in IP, AddIPv4AddressFromStore(n, i)
            PROVE  FALSE
        BY <2>1, <3>2 DEF AddIPv4AddressFromStore
      <3>3. ASSUME NEW k \in PodKey, NEW n \in NIC, NEW i \in IP, AssignFresh(k, n, i)
            PROVE  FALSE
        BY <2>1, <3>3 DEF AssignFresh, incrementAssignedCount
      <3>4. ASSUME NEW k \in PodKey, NEW n \in NIC, NEW i \in IP, Reassign(k, n, i)
            PROVE  FALSE
        BY <2>1, <3>4 DEF Reassign, incrementAssignedCount
      <3>5. ASSUME NEW k \in PodKey, NEW n \in NIC, UnassignPodIPv4Address(k, n)
            PROVE  FALSE
        BY <2>1, <3>5 DEF UnassignPodIPv4Address
      <3>6. ASSUME Tick PROVE FALSE
        BY <2>1, <3>6 DEF Tick
      <3>7. ASSUME UNCHANGED storeVars PROVE FALSE
        BY <2>1, <3>7 DEF storeVars
      <3> QED
        BY <1>1, <3>1, <3>2, <3>3, <3>4, <3>5, <3>6, <3>7 DEF DaemonNext
    <2>3. a[1] = n
      <3>1. DOMAIN nicIPPools' = DOMAIN nicIPPools \ {n}
        BY <2>2 DEF RemoveUnusedNICFromStore, DropNIC, Without, Restrict
      <3> QED
        BY <2>1, <3>1
    <2>4. InUse(n) = {}
      BY <1>1, <2>2, DropNICCounts DEF RemoveUnusedNICFromStore, Deletable, OwnerInv
    <2>5. a \notin AssignedAddresses
      BY <2>3, <2>4 DEF InUse, AddressesOf
    <2>6. \A k \in DOMAIN podsIP : podsIP[k].IP # a[2]
      <3> SUFFICES ASSUME NEW k \in DOMAIN podsIP, podsIP[k].IP = a[2] PROVE FALSE
        OBVIOUS
      <3>1. PICK m \in DOMAIN nicIPPools : <<m, a[2]>> \in AssignedAddresses
        BY <1>1 DEF OwnerInv, Ownership, HoldsOn
      <3>2. <<m, a[2]>> = a
        <4> DEFINE b == <<m, a[2]>>
        <4>1. b \in DOMAIN IPv4Addresses /\ b[2] = a[2]
          BY <3>1 DEF AssignedAddresses
        <4> HIDE DEF b
        <4>2. b = a
          BY <1>1, <4>1 DEF OwnerInv, OneNIC
        <4> QED
          BY <4>2 DEF b
      <3> QED
        BY <2>5, <3>1, <3>2
    <2>7. IPv4Addresses[a].unassignedAge >= addressNICCoolingPeriod
      <3>1. nicIPPools[n].lastUnassignedAge >= addressNICCoolingPeriod
        BY <2>2 DEF RemoveUnusedNICFromStore, Deletable
      <3>2. IPv4Addresses[a].unassignedAge >= nicIPPools[n].lastUnassignedAge
        BY <1>1, <2>3 DEF OwnerInv, ReleaseTimes
      <3>3. IPv4Addresses[a].unassignedAge \in Nat /\ nicIPPools[n].lastUnassignedAge \in Nat
        BY <2>0, <2>1, <2>3, RecordTypes DEF Age
      <3> QED
        BY <3>1, <3>2, <3>3, PeriodAssumption
    <2> QED
      BY <2>6, <2>7
  <1> QED
    BY <1>1, OwnerInvariant, PTL DEF DaemonSpec, RemovedNICIsCold

=============================================================================
