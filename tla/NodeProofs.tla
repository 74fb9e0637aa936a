----------------------------- MODULE NodeProofs -----------------------------
(* Proofs about Node for every value of its constants: any pods, sandboxes,  *)
(* NICs, addresses and periods.                                              *)
EXTENDS Node, DataStoreProofs

----------------------------------------------------------------------------
(* Type correctness *)

\* The types of the daemon's variables outside the store.  NodeTypeOK leaves
\* open that the counters a thread has read are records, and that the NIC
\* setupNic or the pool manager works on is a NIC.
DaemonTypeOK ==
    /\ cloud \in [NIC -> {"absent", "detached", "attached"}]
    /\ pc \in [main : MainLabel, pool : PoolLabel]
    /\ work \in [Thread -> NIC \cup {NoNIC}]
    /\ stats \in [Thread -> [total : Nat \cup {-1}, assigned : Nat \cup {-1}]]
    /\ todoNICs \subseteq NIC
    /\ todoPods \subseteq K8SPodInfo
    /\ tries \in 0 .. MaxTries - 1
    /\ cniConfig \in BOOLEAN
    /\ fallback \subseteq PodKey
    /\ \A t \in Thread : pc[t] \in {"addnic", "addip"} => work[t] \in NIC
    /\ pc.pool \in {"describe", "attach", "detach", "drop"} => work.pool \in NIC

\* The types of the variables around the daemon.
NodeVarsOK ==
    /\ sandbox \in [Sandbox -> SandboxState]
    /\ addr \in [Sandbox -> IP \cup {NoIP}]
    /\ api \in [Pod -> [IP : IP \cup {NoIP}, container : Container \cup {NoStatus},
                        exists : BOOLEAN]]
    /\ idle \in [IP -> Age]
    /\ crashes \in 0 .. MaxCrash

\* The counters of the store are part of the inductive invariant: a thread
\* stores what it has read of them.
TypeInv == CountInv /\ DaemonTypeOK /\ NodeVarsOK

\* The key a sandbox's requests carry, and the one of the second lookup.
LEMMA KeyType ==
    ASSUME NEW s \in Sandbox
    PROVE  PodOf[s] \in Pod /\ Key(s) \in PodKey /\ <<PodOf[s], NoContainer>> \in PodKey
  BY NodeAssumption DEF Key, PodKey

\* The counters GetStats reads are natural numbers.
LEMMA CountTypes ==
    ASSUME CountInv
    PROVE  StoreTypeOK /\ total \in Nat /\ assigned \in Nat
  <1>1. StoreTypeOK /\ IsFiniteSet(DOMAIN IPv4Addresses) /\ Accounting
    BY DEF CountInv, FiniteTypeOK
  <1>2. IsFiniteSet(AssignedAddresses)
    BY <1>1, FS_Subset DEF AssignedAddresses
  <1> QED
    BY <1>1, <1>2, FS_CardinalityType DEF Accounting

\* A thread that ends leaves nothing but the empty store.
LEMMA DiesType ==
    ASSUME TypeInv, ProcessDies, UNCHANGED <<cloud, cniConfig>>
    PROVE  NewDataStore' /\ DaemonTypeOK'
  <1>1. NewDataStore'
    BY DEF ProcessDies, NewDataStore
  <1>2. stats' \in [Thread -> [total : Nat \cup {-1}, assigned : Nat \cup {-1}]]
    BY DEF ProcessDies, Unread
  <1>3. tries' \in 0 .. MaxTries - 1
    BY PoolAssumption DEF ProcessDies
  <1>4. /\ pc' = [main |-> "down", pool |-> "off"]
        /\ pc' \in [main : MainLabel, pool : PoolLabel]
        /\ work' \in [Thread -> NIC \cup {NoNIC}]
    BY DEF ProcessDies, MainLabel, PoolLabel
  <1>5. \A t \in Thread : pc'[t] \in {"down", "off"}
    BY <1>4 DEF Thread
  <1> QED
    BY <1>1, <1>2, <1>3, <1>4, <1>5 DEF ProcessDies, TypeInv, DaemonTypeOK

\* setupNic keeps the types, in either thread.
LEMMA SetupNicType ==
    ASSUME TypeInv, NEW t \in Thread,
           SetupNicAdd(t) \/ SetupNicAddress(t) \/ SetupNicFails(t)
    PROVE  DaemonTypeOK'
  <1> USE DEF TypeInv
  <1>1. CASE SetupNicAdd(t)
    BY <1>1 DEF DaemonTypeOK, SetupNicAdd, Goto, Thread, MainLabel, PoolLabel
  <1>2. CASE SetupNicAddress(t)
    BY <1>2 DEF DaemonTypeOK, SetupNicAddress, Goto, AfterSetupNic, Thread, MainLabel, PoolLabel
  <1>3. CASE SetupNicFails(t)
    <2>1. CASE t = "main"
      BY <1>3, <2>1, DiesType DEF SetupNicFails
    <2>2. CASE t # "main"
      BY <1>3, <2>2 DEF DaemonTypeOK, SetupNicFails, Goto, Thread, MainLabel, PoolLabel
    <2> QED
      BY <2>1, <2>2
  <1> QED
    BY <1>1, <1>2, <1>3

\* So does reading a counter.
LEMMA ReadType ==
    ASSUME TypeInv, NEW t \in Thread, ReadTotal(t) \/ ReadAssigned(t)
    PROVE  DaemonTypeOK'
  <1>1. stats' \in [Thread -> [total : Nat \cup {-1}, assigned : Nat \cup {-1}]]
    BY CountTypes DEF TypeInv, DaemonTypeOK, ReadTotal, ReadAssigned, Thread
  <1> QED
    BY <1>1 DEF TypeInv, DaemonTypeOK, ReadTotal, ReadAssigned

\* The main thread keeps the types.
LEMMA MainType ==
    ASSUME TypeInv, MainNext
    PROVE  DaemonTypeOK'
  <1> USE DEF TypeInv
  <1>1. CASE SetupNicAdd("main") \/ SetupNicAddress("main") \/ SetupNicFails("main")
    BY <1>1, SetupNicType DEF Thread
  <1>2. CASE Boot
    BY <1>2 DEF DaemonTypeOK, Boot, Goto, Thread, MainLabel, PoolLabel
  <1>3. CASE NextAttachedNIC
    BY <1>3 DEF DaemonTypeOK, NextAttachedNIC, Goto, Thread, MainLabel, PoolLabel
  <1>4. CASE AttachedNICsDone
    BY <1>4 DEF DaemonTypeOK, AttachedNICsDone, Goto, Thread, MainLabel, PoolLabel
  <1>5. CASE RecoverPod
    BY <1>5 DEF DaemonTypeOK, RecoverPod
  <1>6. CASE RuleListFails
    BY <1>6 DEF DaemonTypeOK, RuleListFails
  <1>7. CASE StartServing
    BY <1>7 DEF DaemonTypeOK, StartServing, Thread, MainLabel, PoolLabel
  <1>8. CASE ReadTotal("main") \/ ReadAssigned("main")
    BY <1>8, ReadType DEF Thread
  <1>9. CASE WriteCNIConfig
    BY <1>9, PoolAssumption
       DEF DaemonTypeOK, WriteCNIConfig, Goto, Unread, Thread, MainLabel, PoolLabel
  <1>10. CASE NoAddressYet
    BY <1>10, PoolAssumption DEF DaemonTypeOK, NoAddressYet, Unread, Thread
  <1>11. CASE GiveUp
    BY <1>11, DiesType DEF GiveUp
  <1> QED
    BY <1>1, <1>2, <1>3, <1>4, <1>5, <1>6, <1>7, <1>8, <1>9, <1>10, <1>11 DEF MainNext

\* The pool manager keeps the types.
LEMMA PoolType ==
    ASSUME TypeInv, PoolNext
    PROVE  DaemonTypeOK'
  <1> USE DEF TypeInv
  <1>1. CASE SetupNicAdd("pool") \/ SetupNicAddress("pool") \/ SetupNicFails("pool")
    BY <1>1, SetupNicType DEF Thread
  <1>2. CASE ReadTotal("pool") \/ ReadAssigned("pool")
    BY <1>2, ReadType DEF Thread
  <1>3. CASE DecideLow
    BY <1>3 DEF DaemonTypeOK, DecideLow, Goto, Unread, Thread, MainLabel, PoolLabel
  <1>4. CASE DecideHigh
    BY <1>4 DEF DaemonTypeOK, DecideHigh, Goto, Unread, Thread, MainLabel, PoolLabel
  <1>5. CASE CreateNic
    BY <1>5 DEF DaemonTypeOK, CreateNic, Goto, Thread, MainLabel, PoolLabel
  <1>6. CASE CreateNicRefused \/ DescribeNic \/ NoUnusedNIC \/ StopPoolManager
    BY <1>6 DEF DaemonTypeOK, CreateNicRefused, DescribeNic, NoUnusedNIC, StopPoolManager,
                Goto, Thread, MainLabel, PoolLabel
  <1>7. CASE DescribeNicFails
    BY <1>7 DEF DaemonTypeOK, DescribeNicFails, Goto, Thread, MainLabel, PoolLabel
  <1>8. CASE DescribeNicPanics
    BY <1>8, DiesType DEF DescribeNicPanics
  <1>9. CASE AttachNic \/ AttachNicFails
    BY <1>9 DEF DaemonTypeOK, AttachNic, AttachNicFails, Goto, Thread, MainLabel, PoolLabel
  <1>10. CASE RemoveUnusedNIC
    BY <1>10 DEF DaemonTypeOK, RemoveUnusedNIC, Goto, Thread, MainLabel, PoolLabel
  <1>11. CASE DetachNic \/ DropNic \/ DeleteNicFails
    BY <1>11 DEF DaemonTypeOK, DetachNic, DropNic, DeleteNicFails, Goto, Thread, MainLabel,
                 PoolLabel
  <1> QED
    BY <1>1, <1>2, <1>3, <1>4, <1>5, <1>6, <1>7, <1>8, <1>9, <1>10, <1>11 DEF PoolNext

\* A request of the plugin, and the passing of time, leave the daemon's threads,
\* the cloud and the configuration alone.
DaemonFrame ==
    UNCHANGED <<cloud, pc, work, stats, todoNICs, todoPods, tries, cniConfig, crashes>>

\* A step of DelNetwork releases at most one entry, under the key of the request
\* or under the pod's name alone.
LEMMA PluginDelCases ==
    ASSUME NEW s \in Sandbox, PluginDel(s)
    PROVE  /\ DaemonFrame
           /\ UNCHANGED <<addr, api, idle>>
           /\ Serving
           /\ DelPending(s)
           /\ \/ UNCHANGED sandbox
              \/ sandbox' = [sandbox EXCEPT ![s] = IF @ = "cleanup" THEN "failed" ELSE "gone"]
           /\ \/ /\ UNCHANGED storeVars
                 /\ fallback' = fallback \cup {Key(s)} \/ fallback' = fallback \ {Key(s)}
              \/ /\ \E n \in NIC : \/ UnassignPodIPv4Address(Key(s), n)
                                   \/ UnassignPodIPv4Address(<<PodOf[s], NoContainer>>, n)
                 /\ fallback' \subseteq fallback
  BY DEF PluginDel, DelReply, DelNetworkUnknown, DelNetwork, DelNetworkByName,
         DelNetworkUnhealthy, DelNetworkUnknownIP, HandlerUnchanged, DaemonFrame, Key

\* Pods, the kubelet and the plugin change none of the daemon's variables but
\* the store and, in DelNetwork, fallback.
LEMMA PodFrame ==
    ASSUME PodNext
    PROVE  DaemonFrame
  <1>1. ASSUME NEW p \in Pod, DeletePod(p) PROVE DaemonFrame
    BY <1>1 DEF DeletePod, DaemonFrame, ipamVars, daemonVars
  <1>2. ASSUME NEW s \in Sandbox,
               PublishStatus(s) \/ RunSandbox(s) \/ KillSandbox(s) \/ DeleteAgain(s)
        PROVE  DaemonFrame
    BY <1>2 DEF PublishStatus, RunSandbox, KillSandbox, DeleteAgain, DaemonFrame, ipamVars,
                daemonVars
  <1>3. ASSUME NEW s \in Sandbox,
               PluginAdd(s) \/ PluginAddLost(s) \/ PluginAddRefused(s)
        PROVE  DaemonFrame
    BY <1>3 DEF PluginAdd, PluginAddLost, PluginAddRefused, AddNetwork, AddNetworkRefused,
                HandlerUnchanged, DaemonFrame
  <1>4. ASSUME NEW s \in Sandbox,
               \/ PluginAddUnreachable(s) \/ PluginSetup(s) \/ PluginSetupFails(s)
               \/ PluginCleanupUnreachable(s)
        PROVE  DaemonFrame
    BY <1>4 DEF PluginAddUnreachable, PluginSetup, PluginSetupFails, PluginCleanupUnreachable,
                DaemonFrame, ipamVars, daemonVars
  <1> QED
    BY <1>1, <1>2, <1>3, <1>4, PluginDelCases DEF PodNext

\* A pod, its sandboxes and the API server keep their types.
LEMMA PodType ==
    ASSUME TypeInv, PodNext
    PROVE  NodeVarsOK' /\ fallback' \subseteq PodKey
  <1> USE DEF TypeInv, SandboxState, NodeVarsOK
  <1>a. fallback \subseteq PodKey
    BY DEF DaemonTypeOK
  <1>b. crashes' = crashes
    BY PodFrame DEF DaemonFrame
  <1>1. ASSUME NEW p \in Pod, DeletePod(p) PROVE NodeVarsOK' /\ fallback' = fallback
    BY <1>1, <1>b, NodeAssumption DEF DeletePod, Absent, ipamVars, daemonVars
  <1>2. ASSUME NEW s \in Sandbox, PublishStatus(s) PROVE NodeVarsOK' /\ fallback' = fallback
    BY <1>2, <1>b, NodeAssumption DEF PublishStatus, ipamVars, daemonVars
  <1>3. ASSUME NEW s \in Sandbox, KillSandbox(s) PROVE NodeVarsOK' /\ fallback' = fallback
    BY <1>3, <1>b, AgeCapAssumption DEF KillSandbox, ipamVars, daemonVars, Age
  <1>4. ASSUME NEW s \in Sandbox,
               \/ RunSandbox(s) \/ DeleteAgain(s) \/ PluginAddUnreachable(s) \/ PluginSetup(s)
               \/ PluginSetupFails(s) \/ PluginCleanupUnreachable(s)
        PROVE  NodeVarsOK' /\ fallback' = fallback
    BY <1>4, <1>b DEF RunSandbox, DeleteAgain, PluginAddUnreachable, PluginSetup,
                PluginSetupFails, PluginCleanupUnreachable, ipamVars, daemonVars
  <1>5. ASSUME NEW s \in Sandbox, PluginAdd(s) PROVE NodeVarsOK' /\ fallback' = fallback
    BY <1>5, <1>b DEF PluginAdd, AddNetwork
  <1>6. ASSUME NEW s \in Sandbox, PluginAddLost(s) \/ PluginAddRefused(s)
        PROVE  NodeVarsOK' /\ fallback' = fallback
    BY <1>6, <1>b DEF PluginAddLost, PluginAddRefused, AddNetwork, AddNetworkRefused
  <1>7. ASSUME NEW s \in Sandbox, PluginDel(s) PROVE NodeVarsOK' /\ fallback' \subseteq PodKey
    BY <1>7, <1>a, <1>b, PluginDelCases, KeyType
  <1> QED
    BY <1>a, <1>1, <1>2, <1>3, <1>4, <1>5, <1>6, <1>7 DEF PodNext

\* What the API server answers is what K8SPodInfo says, unless a pod has no
\* container statuses.
LEMMA ListedType ==
    ASSUME TypeInv, NEW p \in CurrentNodePods, p.container # NoStatus
    PROVE  p \in K8SPodInfo
  <1>1. PICK q \in Pod : p = [pod |-> q, IP |-> api[q].IP, container |-> api[q].container]
    BY DEF CurrentNodePods
  <1> QED
    BY <1>1 DEF TypeInv, NodeVarsOK, K8SPodInfo

\* The pods listed are kept as they are.
LEMMA ListType ==
    ASSUME TypeInv, ListPods(CurrentNodePods)
    PROVE  DaemonTypeOK'
  <1>1. CurrentNodePods \subseteq K8SPodInfo
    BY ListedType DEF ListPods
  <1> HIDE DEF CurrentNodePods
  <1>2. todoPods' \subseteq K8SPodInfo /\ tries' \in 0 .. MaxTries - 1
    BY <1>1, PoolAssumption DEF TypeInv, DaemonTypeOK, ListPods
  <1> QED
    BY <1>2 DEF TypeInv, DaemonTypeOK, ListPods, Goto, MainLabel, PoolLabel, Thread

----------------------------------------------------------------------------
(* What a step of the node does to the store *)

\* No change, a new process, or one operation of the store, with the arguments
\* the daemon gives it.
NodeStoreStep ==
    \/ UNCHANGED storeVars
    \/ NewDataStore'
    \/ \E n \in NIC, dev \in Device : AddNIC(n, dev, FALSE)
    \/ \E n \in NIC : AddIPv4AddressFromStore(n, AddrOf[n])
    \/ \E s \in Sandbox, n \in NIC, i \in IP : AssignFresh(Key(s), n, i)
    \/ \E p \in todoPods, n \in NIC :
         /\ pc.main = "recover"
         /\ p.IP \in IP
         /\ Reassign(<<p.pod, p.container>>, n, p.IP)
    \/ \E k \in PodKey, n \in NIC : UnassignPodIPv4Address(k, n)
    \/ \E n \in NIC : RemoveUnusedNICFromStore(n)
    \/ Tick

\* setupNic adds a NIC, or the NIC's address, or nothing.
LEMMA SetupNicStore ==
    ASSUME TypeInv, NEW t \in Thread,
           SetupNicAdd(t) \/ SetupNicAddress(t) \/ SetupNicFails(t)
    PROVE  NodeStoreStep
  <1>0. /\ \A u \in Thread : pc[u] \in {"addnic", "addip"} => work[u] \in NIC
        /\ \A n \in NIC, u \in Thread : DeviceNumber(u, n) \in Device
    BY CloudAssumption DEF TypeInv, DaemonTypeOK, DeviceNumber
  <1>1. CASE SetupNicAdd(t)
    BY <1>0, <1>1 DEF SetupNicAdd, NodeStoreStep
  <1>2. CASE SetupNicAddress(t)
    BY <1>0, <1>2 DEF SetupNicAddress, NodeStoreStep
  <1>3. CASE SetupNicFails(t)
    BY <1>3 DEF SetupNicFails, ProcessDies, NewDataStore, NodeStoreStep
  <1> QED
    BY <1>1, <1>2, <1>3

\* The main thread's other change of the store is the recovery of a pod.
LEMMA RecoverStore ==
    ASSUME TypeInv, RecoverPod
    PROVE  NodeStoreStep
  <1>1. PICK p \in todoPods :
          \/ UNCHANGED storeVars
          \/ \E n \in NIC : /\ <<n, p.IP>> \in DOMAIN IPv4Addresses
                            /\ Reassign(<<p.pod, p.container>>, n, p.IP)
    BY DEF RecoverPod
  <1>2. \A n \in NIC : <<n, p.IP>> \in DOMAIN IPv4Addresses => p.IP \in IP
    BY CountTypes DEF TypeInv, StoreTypeOK
  <1> QED
    BY <1>1, <1>2 DEF RecoverPod, NodeStoreStep

\* The main thread fills the store and recovers pods.
LEMMA MainStore ==
    ASSUME TypeInv, MainNext
    PROVE  NodeStoreStep
  <1>1. CASE SetupNicAdd("main") \/ SetupNicAddress("main") \/ SetupNicFails("main")
    BY <1>1, SetupNicStore DEF Thread
  <1>2. CASE RecoverPod
    BY <1>2, RecoverStore
  <1>3. CASE GiveUp
    BY <1>3 DEF GiveUp, ProcessDies, NewDataStore, NodeStoreStep
  <1>4. CASE \/ Boot \/ NextAttachedNIC \/ AttachedNICsDone \/ RuleListFails \/ StartServing
             \/ ReadTotal("main") \/ ReadAssigned("main") \/ WriteCNIConfig \/ NoAddressYet
    BY <1>4 DEF Boot, NextAttachedNIC, AttachedNICsDone, RuleListFails, StartServing,
                ReadTotal, ReadAssigned, WriteCNIConfig, NoAddressYet, NodeStoreStep
  <1> QED
    BY <1>1, <1>2, <1>3, <1>4 DEF MainNext

\* The pool manager adds and removes NICs.
LEMMA PoolStore ==
    ASSUME TypeInv, PoolNext
    PROVE  NodeStoreStep
  <1>1. CASE SetupNicAdd("pool") \/ SetupNicAddress("pool") \/ SetupNicFails("pool")
    BY <1>1, SetupNicStore DEF Thread
  <1>2. CASE RemoveUnusedNIC
    BY <1>2 DEF RemoveUnusedNIC, NodeStoreStep
  <1>3. CASE DescribeNicPanics
    BY <1>3 DEF DescribeNicPanics, ProcessDies, NewDataStore, NodeStoreStep
  <1>4. CASE \/ ReadTotal("pool") \/ ReadAssigned("pool") \/ DecideLow \/ DecideHigh
             \/ CreateNic \/ CreateNicRefused \/ DescribeNic \/ DescribeNicFails
             \/ AttachNic \/ AttachNicFails \/ NoUnusedNIC \/ DetachNic \/ DropNic
             \/ DeleteNicFails \/ StopPoolManager
    BY <1>4 DEF ReadTotal, ReadAssigned, DecideLow, DecideHigh, CreateNic, CreateNicRefused,
                DescribeNic, DescribeNicFails, AttachNic, AttachNicFails, NoUnusedNIC,
                DetachNic, DropNic, DeleteNicFails, StopPoolManager, NodeStoreStep
  <1> QED
    BY <1>1, <1>2, <1>3, <1>4 DEF PoolNext

\* The requests of the plugin assign and release addresses.
LEMMA PodStore ==
    ASSUME TypeInv, PodNext
    PROVE  NodeStoreStep
  <1>1. CASE \E p \in Pod : DeletePod(p)
    BY <1>1 DEF DeletePod, ipamVars, NodeStoreStep
  <1>2. ASSUME NEW s \in Sandbox, PluginAdd(s) \/ PluginAddLost(s)
        PROVE  NodeStoreStep
    BY <1>2 DEF PluginAdd, PluginAddLost, AddNetwork, NodeStoreStep
  <1>3. ASSUME NEW s \in Sandbox, PluginDel(s)
        PROVE  NodeStoreStep
    BY <1>3, PluginDelCases, KeyType DEF NodeStoreStep
  <1>4. ASSUME NEW s \in Sandbox,
               \/ PublishStatus(s) \/ RunSandbox(s) \/ KillSandbox(s) \/ DeleteAgain(s)
               \/ PluginAddRefused(s) \/ PluginAddUnreachable(s) \/ PluginSetup(s)
               \/ PluginSetupFails(s) \/ PluginCleanupUnreachable(s)
        PROVE  NodeStoreStep
    BY <1>4 DEF PublishStatus, RunSandbox, KillSandbox, DeleteAgain, PluginAddRefused,
                AddNetworkRefused, PluginAddUnreachable, PluginSetup, PluginSetupFails,
                PluginCleanupUnreachable, ipamVars, NodeStoreStep
  <1> QED
    BY <1>1, <1>2, <1>3, <1>4 DEF PodNext

\* Every step of the node is one of these for the store.
LEMMA StoreSteps ==
    ASSUME TypeInv, [Next]_vars
    PROVE  NodeStoreStep
  <1>1. CASE DaemonListsPods
    BY <1>1 DEF DaemonListsPods, ListPods, ListPodsPanics, ProcessDies, NewDataStore,
                NodeStoreStep
  <1>2. CASE Crash
    BY <1>2 DEF Crash, ProcessDies, NewDataStore, NodeStoreStep
  <1>3. CASE TimePasses
    BY <1>3 DEF TimePasses, NodeStoreStep
  <1>4. CASE UNCHANGED vars
    BY <1>4 DEF vars, ipamVars, NodeStoreStep
  <1> QED
    BY <1>1, <1>2, <1>3, <1>4, MainStore, PoolStore, PodStore DEF Next

\* The store starts empty, also after a restart.
LEMMA EmptyStore ==
    NewDataStore' => OwnerInv' /\ CountInv'
  <1>1. NewDataStore => OwnerInv /\ CountInv
    BY OwnerInit, CountInit
  <1> QED
    BY <1>1, PTL

\* Every step keeps the counters right: it is a call of the store or a restart.
LEMMA CountStep ==
    ASSUME TypeInv, [Next]_vars
    PROVE  CountInv'
  <1>1. NodeStoreStep
    BY StoreSteps
  <1>2. CountInv
    BY DEF TypeInv
  <1>3. CASE NewDataStore'
    BY <1>3, EmptyStore
  <1>4. \A p \in todoPods : <<p.pod, p.container>> \in PodKey
    BY DEF TypeInv, DaemonTypeOK, K8SPodInfo, PodKey
  <1>5. CASE ~NewDataStore'
    <2>1. [StoreNext]_storeVars
      BY <1>1, <1>4, <1>5, KeyType, CloudAssumption DEF NodeStoreStep, StoreNext
    <2> QED
      BY <1>2, <2>1, CountNext
  <1> QED
    BY <1>3, <1>5

\* Every step keeps the types.
LEMMA TypeStep ==
    ASSUME TypeInv, [Next]_vars
    PROVE  TypeInv'
  <1>1. CASE MainNext /\ UNCHANGED nodeVars
    BY <1>1, MainType, CountStep DEF TypeInv, NodeVarsOK, nodeVars
  <1>2. CASE DaemonListsPods
    BY <1>2, ListType, DiesType, CountStep
       DEF TypeInv, NodeVarsOK, DaemonListsPods, ListPodsPanics, nodeVars
  <1>3. CASE PoolNext /\ UNCHANGED nodeVars
    BY <1>3, PoolType, CountStep DEF TypeInv, NodeVarsOK, nodeVars
  <1>4. CASE PodNext
    BY <1>4, PodType, PodFrame, CountStep DEF TypeInv, DaemonTypeOK, DaemonFrame
  <1>5. CASE Crash
    <2>1. DaemonTypeOK'
      BY <1>5, DiesType DEF Crash
    <2>2. NodeVarsOK'
      BY <1>5, NodeAssumption DEF TypeInv, NodeVarsOK, Crash
    <2> QED
      BY <2>1, <2>2, CountStep DEF TypeInv
  <1>6. CASE TimePasses
    <2>1. \A i \in IP : Older(idle[i]) \in Age /\ 0 \in Age
      BY OlderAge, AgeCapAssumption DEF TypeInv, NodeVarsOK, Age
    <2>2. NodeVarsOK'
      BY <1>6, <2>1 DEF TypeInv, NodeVarsOK, TimePasses
    <2> QED
      BY <1>6, <2>2, CountStep DEF TypeInv, DaemonTypeOK, TimePasses, daemonVars
  <1>7. CASE UNCHANGED vars
    BY <1>7, CountStep DEF TypeInv, DaemonTypeOK, NodeVarsOK, vars, ipamVars, daemonVars, nodeVars
  <1> QED
    BY <1>1, <1>2, <1>3, <1>4, <1>5, <1>6, <1>7 DEF Next

\* They hold when the node is set up.
LEMMA NodeTypeInit == Init => TypeInv
  <1> SUFFICES ASSUME Init PROVE TypeInv
    OBVIOUS
  <1>1. CountInv
    BY CountInit DEF Init, IpamInit
  <1>2. DaemonTypeOK
    <2>1. \A t \in Thread : pc[t] \in {"down", "off"}
      BY DEF Init, IpamInit, Thread
    <2>2. tries \in 0 .. MaxTries - 1
      BY PoolAssumption DEF Init, IpamInit
    <2>3. stats \in [Thread -> [total : Nat \cup {-1}, assigned : Nat \cup {-1}]]
      BY DEF Init, IpamInit, Unread
    <2>4. pc \in [main : MainLabel, pool : PoolLabel] /\ pc.pool = "off"
      BY DEF Init, IpamInit, MainLabel, PoolLabel
    <2> QED
      BY <2>1, <2>2, <2>3, <2>4 DEF Init, IpamInit, DaemonTypeOK
  <1>3. NodeVarsOK
    <2>1. Scheduled \subseteq [IP : IP \cup {NoIP}, container : Container \cup {NoStatus},
                               exists : BOOLEAN]
      <3> SUFFICES ASSUME NEW x \in Scheduled
                   PROVE  x \in [IP : IP \cup {NoIP}, container : Container \cup {NoStatus},
                                 exists : BOOLEAN]
        OBVIOUS
      <3>1. PICK c \in {NoContainer, NoStatus} :
              x = [IP |-> NoIP, container |-> c, exists |-> TRUE]
        BY DEF Scheduled
      <3> QED
        BY <3>1, NodeAssumption
    <2>2. AgeCap \in Age /\ 0 \in 0 .. MaxCrash
      BY AgeCapAssumption, NodeAssumption DEF Age
    <2> QED
      BY <2>1, <2>2 DEF Init, NodeVarsOK, SandboxState
  <1> QED
    BY <1>1, <1>2, <1>3 DEF TypeInv

\* The types of the daemon and of what surrounds it, throughout.
LEMMA TypeInvariant == Spec => []TypeInv
  BY NodeTypeInit, TypeStep, PTL DEF Spec

\* The variables of the daemon and of the node hold values of their types, and
\* the number of crashes its bound, whatever fails (NodeTypeOK).
THEOREM NodeTypeCorrect == Spec => []NodeTypeOK
  <1>1. TypeInv => NodeTypeOK
    <2>1. ASSUME TypeInv, NEW t \in Thread
          PROVE  stats[t].total \in Nat \cup {-1} /\ stats[t].assigned \in Nat \cup {-1}
      BY <2>1 DEF TypeInv, DaemonTypeOK
    <2> QED
      BY <2>1, CountTypes DEF TypeInv, DaemonTypeOK, NodeVarsOK, NodeTypeOK, IpamTypeOK
  <1> QED
    BY <1>1, TypeInvariant, PTL

----------------------------------------------------------------------------
(* NICs of the store are attached *)

\* The pool manager does not run during start-up, and start-up has NICs to set
\* up in its first phase only.
Phases ==
    /\ ~Serving => pc.pool = "off"
    /\ pc.main \notin {"nics", "addnic", "addip"} => todoNICs = {}

\* The NICs a thread is to put into the store are attached; one the pool
\* manager attaches or deletes is not in the store.
NICInv ==
    /\ Phases
    /\ StoreNICAttached
    /\ \A n \in todoNICs : cloud[n] = "attached"
    /\ \A t \in Thread : pc[t] \in {"addnic", "addip"} => cloud[work[t]] = "attached"
    /\ pc.pool \in {"describe", "attach", "detach", "drop"} => work.pool \notin DOMAIN nicIPPools

\* Requests of pods and time change no NIC and no address, only what is known
\* of them.
LEMMA PodKeepsNICs ==
    ASSUME TypeInv, PodNext \/ TimePasses
    PROVE  /\ UNCHANGED <<cloud, pc, work, todoNICs>>
           /\ DOMAIN nicIPPools' = DOMAIN nicIPPools
           /\ DOMAIN IPv4Addresses' = DOMAIN IPv4Addresses
  <1>0. StoreTypeOK
    BY CountTypes DEF TypeInv
  <1>1. CASE TimePasses
    BY <1>0, <1>1, TickFacts DEF TimePasses, daemonVars
  <1>2. CASE PodNext
    <2>1. UNCHANGED <<cloud, pc, work, todoNICs>>
      BY <1>2, PodFrame DEF DaemonFrame
    <2>2. ASSUME NEW p \in Pod, DeletePod(p) PROVE UNCHANGED storeVars
      BY <2>2 DEF DeletePod, ipamVars
    <2>3. ASSUME NEW s \in Sandbox, PluginAdd(s) \/ PluginAddLost(s)
          PROVE  /\ DOMAIN nicIPPools' = DOMAIN nicIPPools
                 /\ DOMAIN IPv4Addresses' = DOMAIN IPv4Addresses
      <3>1. PICK n \in NIC, i \in IP : AssignFresh(Key(s), n, i)
        BY <2>3 DEF PluginAdd, PluginAddLost, AddNetwork
      <3> QED
        BY <1>0, <3>1, IncrementFacts DEF AssignFresh, Available
    <2>4. ASSUME NEW s \in Sandbox, PluginDel(s)
          PROVE  /\ DOMAIN nicIPPools' = DOMAIN nicIPPools
                 /\ DOMAIN IPv4Addresses' = DOMAIN IPv4Addresses
      <3>1. \/ UNCHANGED storeVars
            \/ \E k \in PodKey, n \in NIC : UnassignPodIPv4Address(k, n)
        BY <2>4, PluginDelCases, KeyType
      <3> QED
        BY <1>0, <3>1, UnassignFacts DEF ReleaseEffect, storeVars
    <2>5. ASSUME NEW s \in Sandbox,
                 \/ PublishStatus(s) \/ RunSandbox(s) \/ KillSandbox(s) \/ DeleteAgain(s)
                 \/ PluginAddRefused(s) \/ PluginAddUnreachable(s) \/ PluginSetup(s)
                 \/ PluginSetupFails(s) \/ PluginCleanupUnreachable(s)
          PROVE  UNCHANGED storeVars
      BY <2>5 DEF PublishStatus, RunSandbox, KillSandbox, DeleteAgain, PluginAddRefused,
                  AddNetworkRefused, PluginAddUnreachable, PluginSetup, PluginSetupFails,
                  PluginCleanupUnreachable, ipamVars
    <2> QED
      BY <1>2, <2>1, <2>2, <2>3, <2>4, <2>5 DEF PodNext, storeVars
  <1> QED
    BY <1>1, <1>2

\* Once the process has died no thread works on a NIC and the store has none.
LEMMA DiesNIC ==
    ASSUME ProcessDies
    PROVE  NICInv'
  <1>1. pc' = [main |-> "down", pool |-> "off"] /\ DOMAIN nicIPPools' = {} /\ todoNICs' = {}
    BY DEF ProcessDies
  <1>2. \A t \in Thread : pc'[t] \in {"down", "off"}
    BY <1>1 DEF Thread
  <1> QED
    BY <1>1, <1>2 DEF NICInv, Phases, StoreNICAttached, Serving

\* setupNic puts an attached NIC into the store.
LEMMA SetupNicNIC ==
    ASSUME TypeInv, NICInv, NEW t \in Thread,
           SetupNicAdd(t) \/ SetupNicAddress(t) \/ SetupNicFails(t)
    PROVE  NICInv'
  <1> USE DEF NICInv, Phases, StoreNICAttached, Serving
  <1>0. /\ pc \in [main : MainLabel, pool : PoolLabel]
        /\ work \in [Thread -> NIC \cup {NoNIC}]
    BY DEF TypeInv, DaemonTypeOK
  <1>1. CASE SetupNicAdd(t)
    <2>1. DOMAIN nicIPPools' = DOMAIN nicIPPools \cup {work[t]}
      BY <1>1 DEF SetupNicAdd, AddNIC, Put, storeVars
    <2>2. /\ pc[t] = "addnic" /\ pc' = [pc EXCEPT ![t] = "addip"]
          /\ UNCHANGED <<cloud, work, todoNICs>>
      BY <1>1 DEF SetupNicAdd, Goto
    <2> QED
      BY <1>0, <2>1, <2>2 DEF Thread, MainLabel, PoolLabel
  <1>2. CASE SetupNicAddress(t)
    <2>1. nicIPPools' = nicIPPools /\ UNCHANGED <<cloud, todoNICs>>
      BY <1>2 DEF SetupNicAddress, AddIPv4AddressFromStore, storeVars
    <2>2. /\ pc[t] = "addip" /\ pc' = [pc EXCEPT ![t] = AfterSetupNic(t)]
          /\ work' = [work EXCEPT ![t] = NoNIC]
      BY <1>2 DEF SetupNicAddress, Goto
    <2> QED
      BY <1>0, <2>1, <2>2 DEF AfterSetupNic, Thread, MainLabel, PoolLabel
  <1>3. CASE SetupNicFails(t)
    <2>1. CASE t = "main"
      BY <1>3, <2>1, DiesNIC DEF SetupNicFails
    <2>2. CASE t # "main"
      BY <1>0, <1>3, <2>2 DEF SetupNicFails, Goto, storeVars, Thread, MainLabel, PoolLabel
    <2> QED
      BY <2>1, <2>2
  <1> QED
    BY <1>1, <1>2, <1>3

\* setup() takes the NICs that are attached.
LEMMA MainNIC ==
    ASSUME TypeInv, NICInv, MainNext
    PROVE  NICInv'
  <1> USE DEF NICInv, Phases, StoreNICAttached, Serving
  <1>0. /\ pc \in [main : MainLabel, pool : PoolLabel]
        /\ work \in [Thread -> NIC \cup {NoNIC}]
    BY DEF TypeInv, DaemonTypeOK
  <1>1. CASE SetupNicAdd("main") \/ SetupNicAddress("main") \/ SetupNicFails("main")
    BY <1>1, SetupNicNIC DEF Thread
  <1>2. CASE Boot
    BY <1>0, <1>2 DEF Boot, Goto, storeVars, Thread, MainLabel, PoolLabel
  <1>3. CASE NextAttachedNIC
    BY <1>0, <1>3 DEF NextAttachedNIC, Goto, storeVars, Thread, MainLabel, PoolLabel
  <1>4. CASE AttachedNICsDone
    BY <1>0, <1>4 DEF AttachedNICsDone, Goto, storeVars, Thread, MainLabel, PoolLabel
  <1>5. CASE RecoverPod
    <2>1. DOMAIN nicIPPools' = DOMAIN nicIPPools
      BY <1>5 DEF RecoverPod, Reassign, incrementAssignedCount, storeVars
    <2> QED
      BY <1>5, <2>1 DEF RecoverPod
  <1>6. CASE RuleListFails \/ ReadTotal("main") \/ ReadAssigned("main") \/ NoAddressYet
    BY <1>6 DEF RuleListFails, ReadTotal, ReadAssigned, NoAddressYet, storeVars
  <1>7. CASE StartServing
    BY <1>7 DEF StartServing, storeVars, Thread
  <1>8. CASE WriteCNIConfig
    BY <1>0, <1>8 DEF WriteCNIConfig, Goto, storeVars, Thread, MainLabel, PoolLabel
  <1>9. CASE GiveUp
    BY <1>9, DiesNIC DEF GiveUp
  <1> QED
    BY <1>1, <1>2, <1>3, <1>4, <1>5, <1>6, <1>7, <1>8, <1>9 DEF MainNext

\* The pool manager keeps a NIC out of the store while it is not attached.
LEMMA PoolNIC ==
    ASSUME TypeInv, NICInv, PoolNext
    PROVE  NICInv'
  <1> USE DEF NICInv, Phases, StoreNICAttached, Serving
  <1>0. /\ pc \in [main : MainLabel, pool : PoolLabel]
        /\ work \in [Thread -> NIC \cup {NoNIC}]
        /\ cloud \in [NIC -> {"absent", "detached", "attached"}]
        /\ pc.pool \in {"describe", "attach", "detach", "drop"} => work.pool \in NIC
        /\ DOMAIN nicIPPools \subseteq NIC
    BY CountTypes DEF TypeInv, DaemonTypeOK, StoreTypeOK
  <1>a. pc.pool # "off" => Serving /\ todoNICs = {} /\ pc.main \notin {"addnic", "addip"}
    OBVIOUS
  <1>1. CASE SetupNicAdd("pool") \/ SetupNicAddress("pool") \/ SetupNicFails("pool")
    BY <1>1, SetupNicNIC DEF Thread
  <1>2. CASE ReadTotal("pool") \/ ReadAssigned("pool")
    BY <1>2 DEF ReadTotal, ReadAssigned, storeVars
  <1>3. CASE DecideLow \/ DecideHigh
    BY <1>0, <1>3 DEF DecideLow, DecideHigh, Goto, storeVars, Thread, MainLabel, PoolLabel
  <1>4. CASE CreateNic
    BY <1>0, <1>a, <1>4 DEF CreateNic, Goto, storeVars, Thread, MainLabel, PoolLabel
  <1>5. CASE CreateNicRefused \/ DescribeNic \/ NoUnusedNIC \/ StopPoolManager
    BY <1>0, <1>5 DEF CreateNicRefused, DescribeNic, NoUnusedNIC, StopPoolManager,
                      Goto, storeVars, Thread, MainLabel, PoolLabel
  <1>6. CASE DescribeNicFails
    BY <1>0, <1>6 DEF DescribeNicFails, Goto, storeVars, Thread, MainLabel, PoolLabel
  <1>7. CASE DescribeNicPanics
    BY <1>7, DiesNIC DEF DescribeNicPanics
  <1>8. CASE AttachNic
    BY <1>0, <1>a, <1>8 DEF AttachNic, Goto, storeVars, Thread, MainLabel, PoolLabel
  <1>9. CASE AttachNicFails
    BY <1>0, <1>a, <1>9 DEF AttachNicFails, Goto, storeVars, Thread, MainLabel, PoolLabel
  <1>10. CASE RemoveUnusedNIC
    <2>1. PICK n \in NIC : /\ DOMAIN nicIPPools' = DOMAIN nicIPPools \ {n}
                           /\ work' = [work EXCEPT !.pool = n]
      BY <1>10 DEF RemoveUnusedNIC, RemoveUnusedNICFromStore, DropNIC, Without, Restrict
    <2> QED
      BY <1>0, <1>a, <1>10, <2>1 DEF RemoveUnusedNIC, Goto, Thread, MainLabel, PoolLabel
  <1>11. CASE DetachNic
    BY <1>0, <1>a, <1>11 DEF DetachNic, Goto, storeVars, Thread, MainLabel, PoolLabel
  <1>12. CASE DropNic
    BY <1>0, <1>a, <1>12 DEF DropNic, Goto, storeVars, Thread, MainLabel, PoolLabel
  <1>13. CASE DeleteNicFails
    BY <1>0, <1>a, <1>13 DEF DeleteNicFails, Goto, storeVars, Thread, MainLabel, PoolLabel
  <1> QED
    BY <1>1, <1>2, <1>3, <1>4, <1>5, <1>6, <1>7, <1>8, <1>9, <1>10, <1>11, <1>12, <1>13
       DEF PoolNext

\* So does every step of the node.
LEMMA NICStep ==
    ASSUME TypeInv, NICInv, [Next]_vars
    PROVE  NICInv'
  <1> USE DEF NICInv, Phases, StoreNICAttached, Serving
  <1>0. pc \in [main : MainLabel, pool : PoolLabel]
    BY DEF TypeInv, DaemonTypeOK
  <1>1. CASE DaemonListsPods
    <2>1. CASE ListPods(CurrentNodePods)
      BY <1>0, <2>1 DEF ListPods, Goto, storeVars, Thread, MainLabel, PoolLabel
    <2>2. CASE ListPodsPanics(CurrentNodePods)
      BY <2>2, DiesNIC DEF ListPodsPanics
    <2> QED
      BY <1>1, <2>1, <2>2 DEF DaemonListsPods
  <1>2. CASE PodNext \/ TimePasses
    BY <1>2, PodKeepsNICs
  <1>3. CASE Crash
    BY <1>3, DiesNIC DEF Crash
  <1>4. CASE UNCHANGED vars
    BY <1>4 DEF vars, ipamVars, storeVars, daemonVars
  <1> QED
    BY <1>1, <1>2, <1>3, <1>4, MainNIC, PoolNIC DEF Next

\* At first there is no NIC anywhere.
LEMMA NICInit == Init => NICInv
  BY DEF Init, IpamInit, NewDataStore, NICInv, Phases, StoreNICAttached, Serving, Thread

\* Nothing has to be assumed of the environment.
LEMMA NICInvariant == Spec => []NICInv
  BY TypeInvariant, NICInit, NICStep, PTL DEF Spec

\* Every NIC of the store is attached, whatever fails and however often the
\* daemon dies (StoreNICAttached: setupNic, decreaseIPPool and DeleteNic).
THEOREM StoreNICAttachedCorrect == Spec => []StoreNICAttached
  <1>1. NICInv => StoreNICAttached
    BY DEF NICInv
  <1> QED
    BY <1>1, NICInvariant, PTL

----------------------------------------------------------------------------
(* No NIC is lost *)

\* No NIC exists before the pool manager runs; and it lets go of a NIC only
\* when that is in the store or gone.
KeptInv ==
    /\ NoLostNIC
    /\ ~Serving => \A n \in NIC : cloud[n] = "absent"
    /\ pc.pool = "addip" => work.pool \in DOMAIN nicIPPools
    /\ pc.pool \in {"off", "low", "high", "create", "remove", "stopped"} => work.pool = NoNIC

\* A process that ends before it serves leaves no NIC behind.
LEMMA DiesKept ==
    ASSUME TypeInv, KeptInv, ~Serving, ProcessDies, UNCHANGED cloud
    PROVE  KeptInv'
  <1>1. pc' = [main |-> "down", pool |-> "off"] /\ \A n \in NIC : cloud'[n] = "absent"
    BY DEF ProcessDies, KeptInv
  <1>2. work'.pool = NoNIC
    BY DEF ProcessDies, Thread
  <1> QED
    BY <1>1, <1>2 DEF KeptInv, NoLostNIC

\* Before the daemon serves there is no NIC to set up.
LEMMA MainKept ==
    ASSUME "slow" \notin Faults, TypeInv, NICInv, KeptInv, MainNext
    PROVE  KeptInv'
  <1> USE DEF KeptInv, NoLostNIC, Serving
  <1>0. /\ pc \in [main : MainLabel, pool : PoolLabel]
        /\ work \in [Thread -> NIC \cup {NoNIC}]
        /\ cloud \in [NIC -> {"absent", "detached", "attached"}]
    BY DEF TypeInv, DaemonTypeOK
  <1>1. pc.main \notin {"addnic", "addip"} /\ todoNICs = {}
    <2>1. \A n \in NIC : ~Serving => cloud[n] # "attached"
      OBVIOUS
    <2>2. pc.main \notin {"addnic", "addip"}
      BY <2>1 DEF TypeInv, DaemonTypeOK, NICInv, Thread
    <2>3. \A n \in todoNICs : FALSE
      BY <2>1 DEF TypeInv, DaemonTypeOK, NICInv, Phases
    <2> QED
      BY <2>2, <2>3
  <1>2. ~(SetupNicAdd("main") \/ SetupNicAddress("main") \/ SetupNicFails("main"))
    BY <1>1 DEF SetupNicAdd, SetupNicAddress, SetupNicFails
  <1>3. CASE Boot
    <2>1. todoNICs' = {}
      BY <1>3 DEF Boot
    <2> QED
      BY <1>0, <1>3, <2>1 DEF Boot, Goto, storeVars, NICInv, Phases, MainLabel, PoolLabel
  <1>4. CASE NextAttachedNIC
    BY <1>1, <1>4 DEF NextAttachedNIC
  <1>5. CASE AttachedNICsDone
    BY <1>0, <1>5 DEF AttachedNICsDone, Goto, storeVars, MainLabel, PoolLabel
  <1>6. CASE RecoverPod
    <2>1. DOMAIN nicIPPools' = DOMAIN nicIPPools
      BY <1>6 DEF RecoverPod, Reassign, incrementAssignedCount, storeVars
    <2> QED
      BY <1>6, <2>1 DEF RecoverPod
  <1>7. CASE RuleListFails \/ ReadTotal("main") \/ ReadAssigned("main") \/ NoAddressYet
    BY <1>7 DEF RuleListFails, ReadTotal, ReadAssigned, NoAddressYet, storeVars
  <1>8. CASE StartServing
    BY <1>8 DEF StartServing, storeVars, NICInv, Phases
  <1>9. CASE WriteCNIConfig
    BY <1>0, <1>9 DEF WriteCNIConfig, Goto, storeVars, MainLabel, PoolLabel
  <1>10. ~GiveUp
    BY DEF GiveUp
  <1> QED
    BY <1>2, <1>3, <1>4, <1>5, <1>6, <1>7, <1>8, <1>9, <1>10 DEF MainNext

\* The pool manager works on a NIC from its creation until it is in the store, and
\* from its removal until it is gone.
LEMMA PoolKept ==
    ASSUME "cloud" \notin Faults, "network" \notin Faults, TypeInv, NICInv, KeptInv, PoolNext
    PROVE  KeptInv'
  <1> USE DEF KeptInv, NoLostNIC, Serving
  <1>0. /\ pc \in [main : MainLabel, pool : PoolLabel]
        /\ work \in [Thread -> NIC \cup {NoNIC}]
        /\ cloud \in [NIC -> {"absent", "detached", "attached"}]
        /\ pc.pool \in {"describe", "attach", "addnic", "addip", "detach", "drop"} =>
             work.pool \in NIC
    BY DEF TypeInv, DaemonTypeOK, Thread
  <1>a. pc.pool # "off" => Serving
    BY DEF NICInv, Phases
  <1>1. CASE SetupNicAdd("pool")
    <2>1. DOMAIN nicIPPools' = DOMAIN nicIPPools \cup {work.pool}
      BY <1>1 DEF SetupNicAdd, AddNIC, Put, storeVars
    <2> QED
      BY <1>0, <1>a, <1>1, <2>1 DEF SetupNicAdd, Goto, Thread, MainLabel, PoolLabel
  <1>2. CASE SetupNicAddress("pool")
    <2>1. nicIPPools' = nicIPPools
      BY <1>2 DEF SetupNicAddress, AddIPv4AddressFromStore, storeVars
    <2> QED
      BY <1>0, <1>a, <1>2, <2>1
         DEF SetupNicAddress, Goto, AfterSetupNic, Thread, MainLabel, PoolLabel
  <1>3. CASE ReadTotal("pool") \/ ReadAssigned("pool")
    BY <1>3 DEF ReadTotal, ReadAssigned, storeVars
  <1>4. CASE DecideLow \/ DecideHigh
    BY <1>0, <1>4 DEF DecideLow, DecideHigh, Goto, storeVars, MainLabel, PoolLabel
  <1>5. CASE CreateNic
    BY <1>0, <1>a, <1>5, NodeAssumption DEF CreateNic, Goto, storeVars, Thread, MainLabel, PoolLabel
  <1>6. CASE CreateNicRefused \/ DescribeNic \/ NoUnusedNIC \/ StopPoolManager
    BY <1>0, <1>6 DEF CreateNicRefused, DescribeNic, NoUnusedNIC, StopPoolManager,
                      Goto, storeVars, MainLabel, PoolLabel
  <1>7. CASE AttachNic
    BY <1>0, <1>a, <1>7 DEF AttachNic, Goto, storeVars, Thread, MainLabel, PoolLabel
  <1>8. CASE RemoveUnusedNIC
    <2>1. PICK n \in NIC : /\ DOMAIN nicIPPools' = DOMAIN nicIPPools \ {n}
                           /\ work' = [work EXCEPT !.pool = n]
      BY <1>8 DEF RemoveUnusedNIC, RemoveUnusedNICFromStore, DropNIC, Without, Restrict
    <2> QED
      BY <1>0, <1>a, <1>8, <2>1, NodeAssumption
         DEF RemoveUnusedNIC, Goto, Thread, MainLabel, PoolLabel
  <1>9. CASE DetachNic
    BY <1>0, <1>a, <1>9 DEF DetachNic, Goto, storeVars, Thread, MainLabel, PoolLabel
  <1>10. CASE DropNic
    BY <1>0, <1>a, <1>10 DEF DropNic, Goto, storeVars, Thread, MainLabel, PoolLabel
  <1>11. ~(SetupNicFails("pool") \/ DescribeNicFails \/ DescribeNicPanics \/ AttachNicFails
           \/ DeleteNicFails)
    BY DEF SetupNicFails, DescribeNicFails, DescribeNicPanics, AttachNicFails, DeleteNicFails
  <1> QED
    BY <1>1, <1>2, <1>3, <1>4, <1>5, <1>6, <1>7, <1>8, <1>9, <1>10, <1>11 DEF PoolNext

\* Only the failures named can break that.
LEMMA KeptStep ==
    ASSUME {"cloud", "network", "slow"} \cap Faults = {}, MaxCrash = 0,
           TypeInv, NICInv, KeptInv, [Next]_vars
    PROVE  KeptInv'
  <1> USE DEF KeptInv, NoLostNIC, Serving
  <1>0. pc \in [main : MainLabel, pool : PoolLabel]
    BY DEF TypeInv, DaemonTypeOK
  <1>1. CASE DaemonListsPods
    <2>1. CASE ListPods(CurrentNodePods)
      BY <1>0, <2>1 DEF ListPods, Goto, storeVars, MainLabel, PoolLabel
    <2>2. CASE ListPodsPanics(CurrentNodePods)
      BY <2>2, DiesKept DEF ListPodsPanics
    <2> QED
      BY <1>1, <2>1, <2>2 DEF DaemonListsPods
  <1>2. CASE PodNext \/ TimePasses
    BY <1>2, PodKeepsNICs
  <1>3. ~Crash
    BY DEF Crash, TypeInv, NodeVarsOK
  <1>4. CASE UNCHANGED vars
    BY <1>4 DEF vars, ipamVars, storeVars, daemonVars
  <1> QED
    BY <1>1, <1>2, <1>3, <1>4, MainKept, PoolKept DEF Next

\* At first there is no NIC to lose.
LEMMA KeptInit == Init => KeptInv
  BY DEF Init, IpamInit, NewDataStore, KeptInv, NoLostNIC, Serving, Thread

\* While nothing fails in the cloud and on the host and the daemon does not die
\* once it serves, no NIC the pool manager has created is forgotten: it is in
\* the store, or the manager is at work on it (NoLostNIC: CreateNic, setupNic,
\* decreaseIPPool, DeleteNic).  Pods and the plugin may do anything, SetupNS and
\* the replies may fail.
THEOREM NoLostNICCorrect ==
    ASSUME {"cloud", "network", "slow"} \cap Faults = {}, MaxCrash = 0
    PROVE  Spec => []NoLostNIC
  <1>1. KeptInv => NoLostNIC
    BY DEF KeptInv
  <1>2. TypeInv /\ NICInv /\ KeptInv /\ [Next]_vars => KeptInv'
    BY KeptStep
  <1> QED
    BY <1>1, <1>2, TypeInvariant, NICInvariant, KeptInit, PTL DEF Spec
=============================================================================
