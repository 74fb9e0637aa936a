----------------------------- MODULE DataStore -----------------------------
(***************************************************************************)
(* The node-level address store of the hostnic IPAM daemon                 *)
(* (pkg/ipam/datastore/datastore.go): the NICs attached to the node, the   *)
(* addresses they carry, and the address each pod holds.                   *)
(*                                                                         *)
(* Every operation runs under the store's lock, so each is one action; an  *)
(* operation that returns an error leaves the store as it was and is the   *)
(* action being disabled.  Go's iteration order over a map is unspecified, *)
(* so the NIC and the address a loop settles on are parameters of the      *)
(* action.  Times are kept as ages, in ticks, that stop growing at AgeCap, *)
(* beyond which no comparison of the code can tell them apart.             *)
(***************************************************************************)
EXTENDS Integers, FiniteSets, Functions

CONSTANTS
    NIC,                      \* cloud identifiers of NICs
    IP,                       \* IPv4 addresses
    Device,                   \* device numbers a NIC may have on the host
    Pod,                      \* namespace and name of a pod
    Container,                \* container identifiers, the empty one included
    addressCoolingPeriod,     \* 30 s in the code
    addressNICCoolingPeriod,  \* 1 min in the code
    minLifeTime,              \* 1 min in the code
    AgeCap                    \* bound on the ages the model keeps

ASSUME PeriodAssumption ==
    /\ addressCoolingPeriod \in Nat
    /\ addressNICCoolingPeriod \in Nat
    /\ minLifeTime \in Nat

\* At AgeCap every test the code makes of an age is true, so that an age that
\* stops growing there behaves as the real one.
ASSUME AgeCapAssumption ==
    /\ AgeCap \in Nat
    /\ AgeCap > addressCoolingPeriod
    /\ AgeCap >= addressNICCoolingPeriod
    /\ AgeCap >= minLifeTime

\* AddNIC refuses a device number that is not positive before anything else.
ASSUME DeviceAssumption == Device \subseteq Nat \ {0}

VARIABLES
    nicIPPools,     \* NIC known to the store |-> its record
    IPv4Addresses,  \* <<NIC, IP>> known to the store |-> its AddressInfo
    podsIP,         \* PodKey |-> the address the pod holds and its device
    total,          \* number of addresses, as the code counts them
    assigned        \* number of assigned addresses, as the code counts them

storeVars == <<nicIPPools, IPv4Addresses, podsIP, total, assigned>>

PodKey == Pod \X Container

Age == 0 .. AgeCap

Older(age) == IF age < AgeCap THEN age + 1 ELSE age

NICIPPool ==
    [DeviceNumber : Device, IsPrimary : BOOLEAN, AssignedIPv4Addresses : Int,
     createAge : Age, lastUnassignedAge : Age]

AddressInfo == [Assigned : BOOLEAN, unassignedAge : Age]

PodIPInfo == [IP : IP, DeviceNumber : Device]

\* Assignment to a key of a Go map, and deletion of keys from one.
Put(f, k, v) == [x \in DOMAIN f \cup {k} |-> IF x = k THEN v ELSE f[x]]

Without(f, S) == Restrict(f, DOMAIN f \ S)

\* The addresses of a NIC, as keys of IPv4Addresses.
AddressesOf(n) == {a \in DOMAIN IPv4Addresses : a[1] = n}

AssignedAddresses == {a \in DOMAIN IPv4Addresses : IPv4Addresses[a].Assigned}

----------------------------------------------------------------------------
(* Operations *)

NewDataStore ==
    /\ nicIPPools = << >>
    /\ IPv4Addresses = << >>
    /\ podsIP = << >>
    /\ total = 0
    /\ assigned = 0

\* A NIC that has never released an address has a zero lastUnassignedTime.
AddNIC(n, dev, primary) ==
    /\ dev > 0
    /\ n \notin DOMAIN nicIPPools
    /\ nicIPPools' =
         Put(nicIPPools, n,
             [DeviceNumber |-> dev, IsPrimary |-> primary, AssignedIPv4Addresses |-> 0,
              createAge |-> 0, lastUnassignedAge |-> AgeCap])
    /\ UNCHANGED <<IPv4Addresses, podsIP, total, assigned>>

\* Faulty variant: the NIC is not looked up.
AddIPv4ToAnyNIC(n, i) ==
    /\ <<n, i>> \notin DOMAIN IPv4Addresses
    /\ total' = total + 1
    /\ IPv4Addresses' =
         Put(IPv4Addresses, <<n, i>>, [Assigned |-> FALSE, unassignedAge |-> AgeCap])
    /\ UNCHANGED <<nicIPPools, podsIP, assigned>>

AddIPv4AddressFromStore(n, i) ==
    /\ n \in DOMAIN nicIPPools
    /\ <<n, i>> \notin DOMAIN IPv4Addresses
    /\ total' = total + 1
    /\ IPv4Addresses' =
         Put(IPv4Addresses, <<n, i>>, [Assigned |-> FALSE, unassignedAge |-> AgeCap])
    /\ UNCHANGED <<nicIPPools, podsIP, assigned>>

DelIPv4AddressFromStore(n, i) ==
    /\ <<n, i>> \in DOMAIN IPv4Addresses
    /\ ~IPv4Addresses[<<n, i>>].Assigned
    /\ total' = total - 1
    /\ IPv4Addresses' = Without(IPv4Addresses, {<<n, i>>})
    /\ UNCHANGED <<nicIPPools, podsIP, assigned>>

incrementAssignedCount(n, i) ==
    /\ assigned' = assigned + 1
    /\ nicIPPools' = [nicIPPools EXCEPT ![n].AssignedIPv4Addresses = @ + 1]
    /\ IPv4Addresses' = [IPv4Addresses EXCEPT ![<<n, i>>].Assigned = TRUE]

\* podsIP[k] = PodIPInfo{...}
RecordPod(k, n, i) ==
    podsIP' = Put(podsIP, k, [IP |-> i, DeviceNumber |-> nicIPPools[n].DeviceNumber])

\* A NIC all of whose addresses are counted as assigned is skipped.
HasRoom(n) == Cardinality(AddressesOf(n)) # nicIPPools[n].AssignedIPv4Addresses

\* Faulty variants: the mark is not tested; the period is tested with >=.
AvailableIfCool(n, i) ==
    /\ <<n, i>> \in DOMAIN IPv4Addresses
    /\ HasRoom(n)
    /\ IPv4Addresses[<<n, i>>].unassignedAge > addressCoolingPeriod

AvailableAtPeriod(n, i) ==
    /\ <<n, i>> \in DOMAIN IPv4Addresses
    /\ HasRoom(n)
    /\ ~IPv4Addresses[<<n, i>>].Assigned
    /\ IPv4Addresses[<<n, i>>].unassignedAge >= addressCoolingPeriod

\* The address a request without an address may be given.
Available(n, i) ==
    /\ <<n, i>> \in DOMAIN IPv4Addresses
    /\ HasRoom(n)
    /\ ~IPv4Addresses[<<n, i>>].Assigned
    /\ IPv4Addresses[<<n, i>>].unassignedAge > addressCoolingPeriod

\* AssignPodIPv4Address with an empty IP: the request of AddNetwork.
AssignFresh(k, n, i) ==
    /\ k \notin DOMAIN podsIP
    /\ Available(n, i)
    /\ incrementAssignedCount(n, i)
    /\ RecordPod(k, n, i)
    /\ UNCHANGED total

\* Faulty variant: the address is recorded for the pod and not marked.
ReassignUnmarked(k, n, i) ==
    /\ k \notin DOMAIN podsIP
    /\ <<n, i>> \in DOMAIN IPv4Addresses
    /\ RecordPod(k, n, i)
    /\ UNCHANGED <<total, assigned, nicIPPools, IPv4Addresses>>

\* AssignPodIPv4Address with the IP a running pod reports: the request of
\* prepareLocalPods.  An address that is already assigned is recorded for
\* this pod too.
Reassign(k, n, i) ==
    /\ k \notin DOMAIN podsIP
    /\ <<n, i>> \in DOMAIN IPv4Addresses
    /\ IF IPv4Addresses[<<n, i>>].Assigned
         THEN UNCHANGED <<assigned, nicIPPools, IPv4Addresses>>
         ELSE incrementAssignedCount(n, i)
    /\ RecordPod(k, n, i)
    /\ UNCHANGED total

\* The NIC on which UnassignPodIPv4Address finds the address of key k.
HoldsOn(k, n) ==
    /\ k \in DOMAIN podsIP
    /\ <<n, podsIP[k].IP>> \in AssignedAddresses

\* Faulty variants: the NIC's release time is not set; the entry of podsIP stays.
UnassignKeepsNICTime(k, n) ==
    /\ HoldsOn(k, n)
    /\ IPv4Addresses' = [IPv4Addresses EXCEPT ![<<n, podsIP[k].IP>>] =
                           [Assigned |-> FALSE, unassignedAge |-> 0]]
    /\ assigned' = assigned - 1
    /\ nicIPPools' = [nicIPPools EXCEPT ![n].AssignedIPv4Addresses = @ - 1]
    /\ podsIP' = Without(podsIP, {k})
    /\ UNCHANGED total

UnassignKeepsEntry(k, n) ==
    /\ HoldsOn(k, n)
    /\ IPv4Addresses' = [IPv4Addresses EXCEPT ![<<n, podsIP[k].IP>>] =
                           [Assigned |-> FALSE, unassignedAge |-> 0]]
    /\ assigned' = assigned - 1
    /\ nicIPPools' = [nicIPPools EXCEPT ![n].AssignedIPv4Addresses = @ - 1,
                                        ![n].lastUnassignedAge = 0]
    /\ UNCHANGED <<total, podsIP>>

\* UnassignPodIPv4Address when it succeeds.  Its errors: ErrUnknownPod
\* (k \notin DOMAIN podsIP) and ErrUnknownPodIP (no NIC with HoldsOn), which
\* keeps the entry of podsIP.
UnassignPodIPv4Address(k, n) ==
    /\ HoldsOn(k, n)
    /\ IPv4Addresses' = [IPv4Addresses EXCEPT ![<<n, podsIP[k].IP>>] =
                           [Assigned |-> FALSE, unassignedAge |-> 0]]
    /\ assigned' = assigned - 1
    /\ nicIPPools' = [nicIPPools EXCEPT ![n].AssignedIPv4Addresses = @ - 1,
                                        ![n].lastUnassignedAge = 0]
    /\ podsIP' = Without(podsIP, {k})
    /\ UNCHANGED total

\* Faulty variant: the counter of the NIC is not tested.
DeletableInUse(n) ==
    /\ n \in DOMAIN nicIPPools
    /\ ~nicIPPools[n].IsPrimary
    /\ nicIPPools[n].createAge >= minLifeTime
    /\ nicIPPools[n].lastUnassignedAge >= addressNICCoolingPeriod

\* getDeletableNIC may return n.
Deletable(n) ==
    /\ n \in DOMAIN nicIPPools
    /\ ~nicIPPools[n].IsPrimary
    /\ nicIPPools[n].createAge >= minLifeTime
    /\ nicIPPools[n].lastUnassignedAge >= addressNICCoolingPeriod
    /\ nicIPPools[n].AssignedIPv4Addresses = 0

\* Faulty variant of DropNIC: the addresses are not counted out.
DropNICOnly(n) ==
    /\ nicIPPools' = Without(nicIPPools, {n})
    /\ IPv4Addresses' = Without(IPv4Addresses, AddressesOf(n))
    /\ UNCHANGED <<podsIP, assigned, total>>

\* Both removals drop the NIC's record, and its addresses with it.
DropNIC(n) ==
    /\ total' = total - Cardinality(AddressesOf(n))
    /\ nicIPPools' = Without(nicIPPools, {n})
    /\ IPv4Addresses' = Without(IPv4Addresses, AddressesOf(n))
    /\ UNCHANGED <<podsIP, assigned>>

RemoveUnusedNICFromStore(n) ==
    /\ Deletable(n)
    /\ DropNIC(n)

RemoveNICFromDataStore(n) ==
    /\ n \in DOMAIN nicIPPools
    /\ nicIPPools[n].AssignedIPv4Addresses = 0
    /\ DropNIC(n)

\* Time passes for every timestamp of the store.
Tick ==
    /\ nicIPPools' =
         [n \in DOMAIN nicIPPools |->
            [nicIPPools[n] EXCEPT !.createAge = Older(@), !.lastUnassignedAge = Older(@)]]
    /\ IPv4Addresses' =
         [a \in DOMAIN IPv4Addresses |-> [IPv4Addresses[a] EXCEPT !.unassignedAge = Older(@)]]
    /\ UNCHANGED <<podsIP, total, assigned>>

----------------------------------------------------------------------------
(* The store under any sequence of calls of its exported operations. *)

StoreNext ==
    \/ \E n \in NIC, dev \in Device, primary \in BOOLEAN : AddNIC(n, dev, primary)
    \/ \E n \in NIC, i \in IP : AddIPv4AddressFromStore(n, i)
    \/ \E n \in NIC, i \in IP : DelIPv4AddressFromStore(n, i)
    \/ \E k \in PodKey, n \in NIC, i \in IP : AssignFresh(k, n, i)
    \/ \E k \in PodKey, n \in NIC, i \in IP : Reassign(k, n, i)
    \/ \E k \in PodKey, n \in NIC : UnassignPodIPv4Address(k, n)
    \/ \E n \in NIC : RemoveUnusedNICFromStore(n)
    \/ \E n \in NIC : RemoveNICFromDataStore(n)
    \/ Tick

StoreSpec == NewDataStore /\ [][StoreNext]_storeVars

(***************************************************************************)
(* The store as the daemon is meant to drive it: the cloud gives an        *)
(* address to one NIC only, and the pods found at start-up report distinct *)
(* addresses.  The daemon never calls the two operations left out; IpamD   *)
(* shows where the second condition fails.                                 *)
(***************************************************************************)
OnNoNIC(i) == \A n \in NIC : <<n, i>> \notin DOMAIN IPv4Addresses

HeldByNoPod(i) == \A k \in DOMAIN podsIP : podsIP[k].IP # i

DaemonNext ==
    \/ \E n \in NIC, dev \in Device, primary \in BOOLEAN : AddNIC(n, dev, primary)
    \/ \E n \in NIC, i \in IP : OnNoNIC(i) /\ AddIPv4AddressFromStore(n, i)
    \/ \E k \in PodKey, n \in NIC, i \in IP : AssignFresh(k, n, i)
    \/ \E k \in PodKey, n \in NIC, i \in IP : HeldByNoPod(i) /\ Reassign(k, n, i)
    \/ \E k \in PodKey, n \in NIC : UnassignPodIPv4Address(k, n)
    \/ \E n \in NIC : RemoveUnusedNICFromStore(n)
    \/ Tick

DaemonSpec == NewDataStore /\ [][DaemonNext]_storeVars

----------------------------------------------------------------------------
(* Properties *)

\* The maps and counters hold what their Go types and keys allow: every
\* address belongs to a NIC of the store (the address map of the code is a
\* field of the NIC's record).
StoreTypeOK ==
    /\ DOMAIN nicIPPools \subseteq NIC
    /\ nicIPPools \in [DOMAIN nicIPPools -> NICIPPool]
    /\ DOMAIN IPv4Addresses \subseteq (DOMAIN nicIPPools) \X IP
    /\ IPv4Addresses \in [DOMAIN IPv4Addresses -> AddressInfo]
    /\ DOMAIN podsIP \subseteq PodKey
    /\ podsIP \in [DOMAIN podsIP -> PodIPInfo]
    /\ total \in Int
    /\ assigned \in Int

\* The incrementally kept counters agree with the maps after every sequence of
\* calls: total and assigned (what GetStats returns and the pool manager decides
\* on) and the per-NIC count (what getDeletableNIC and the skip test of
\* assignPodIPv4AddressUnsafe decide on).
Accounting ==
    /\ total = Cardinality(DOMAIN IPv4Addresses)
    /\ assigned = Cardinality(AssignedAddresses)
    /\ \A n \in DOMAIN nicIPPools :
         nicIPPools[n].AssignedIPv4Addresses =
           Cardinality(AddressesOf(n) \cap AssignedAddresses)

\* Two pods never hold one address in podsIP.
DistinctHolders ==
    \A k, l \in DOMAIN podsIP : podsIP[k].IP = podsIP[l].IP => k = l

\* Pods and assigned addresses correspond: the address a pod holds is on a NIC
\* of the store whose device number is the one the pod was told, it is marked
\* assigned, and no address is marked assigned without a holder, so that
\* UnassignPodIPv4Address never answers ErrUnknownPodIP and nothing is lost.
Ownership ==
    /\ \A k \in DOMAIN podsIP : \E n \in DOMAIN nicIPPools :
         /\ HoldsOn(k, n)
         /\ podsIP[k].DeviceNumber = nicIPPools[n].DeviceNumber
    /\ \A a \in AssignedAddresses : \E k \in DOMAIN podsIP : podsIP[k].IP = a[2]

\* A NIC leaves the store (and is then deleted in the cloud) only when no pod
\* holds one of its addresses and none of them was released within
\* addressNICCoolingPeriod (the comment at datastore.go:14-15).
RemovedNICIsCold ==
    [][\A a \in DOMAIN IPv4Addresses :
         a[1] \notin DOMAIN nicIPPools' =>
           /\ \A k \in DOMAIN podsIP : podsIP[k].IP # a[2]
           /\ IPv4Addresses[a].unassignedAge >= addressNICCoolingPeriod]_storeVars

=============================================================================
