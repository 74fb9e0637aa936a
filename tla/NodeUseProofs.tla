--------------------------- MODULE NodeUseProofs ----------------------------
(* Proofs about the addresses sandboxes use, for every value of the          *)
(* constants of Node.                                                        *)
EXTENDS NodeProofs

----------------------------------------------------------------------------
(* Sandboxes and the API server *)

\* A sandbox uses an address.
Uses(s) == addr[s] # NoIP

\* Nothing of the sandbox is left to set up or to delete, unless the kubelet
\* deletes it once more.
Done(s) == sandbox[s] \in {"none", "gone", "redeleting"}

\* A sandbox uses the address of a NIC from the plugin's reply to the kill, a
\* pod has one sandbox at a time, and the API server shows an address only of a
\* pod that exists and lists a container.
SandboxInv ==
    /\ \A s \in Sandbox : Uses(s) <=> sandbox[s] \in {"replied", "up"}
    /\ \A s, t \in Sandbox : PodOf[s] = PodOf[t] /\ s # t => Done(s) \/ Done(t)
    /\ \A s \in Sandbox : Uses(s) => \E n \in NIC : addr[s] = AddrOf[n]
    /\ \A p \in Pod : api[p].IP # NoIP => api[p].exists /\ api[p].container # NoStatus

\* An address is the one the cloud has given to its NIC.
OwnAddress == \A a \in DOMAIN IPv4Addresses : a[2] = AddrOf[a[1]]

\* What a sandbox does agrees with its state in every step.
LEMMA SandboxStep ==
    ASSUME TypeInv, OwnAddress, SandboxInv, [Next]_vars
    PROVE  SandboxInv'
  <1> USE DEF SandboxInv, Uses, Done
  <1>0. /\ sandbox \in [Sandbox -> SandboxState]
        /\ addr \in [Sandbox -> IP \cup {NoIP}]
        /\ api \in [Pod -> [IP : IP \cup {NoIP}, container : Container \cup {NoStatus},
                            exists : BOOLEAN]]
        /\ \A s \in Sandbox : PodOf[s] \in Pod
    BY KeyType DEF TypeInv, NodeVarsOK
  <1>1. ASSUME NEW p \in Pod, DeletePod(p) PROVE SandboxInv'
    BY <1>0, <1>1 DEF DeletePod, Absent
  <1>2. ASSUME NEW s \in Sandbox, PublishStatus(s) PROVE SandboxInv'
    <2>1. PICK c \in {NoContainer, AppContainer} :
            api' = [api EXCEPT ![PodOf[s]] = [IP |-> addr[s], container |-> c, exists |-> TRUE]]
      BY <1>2 DEF PublishStatus
    <2>2. c # NoStatus
      BY NodeAssumption
    <2>3. \A p \in Pod : api'[p].IP # NoIP => api'[p].exists /\ api'[p].container # NoStatus
      BY <1>0, <2>1, <2>2
    <2> QED
      BY <1>2, <2>3 DEF PublishStatus
  <1>3. ASSUME NEW s \in Sandbox, RunSandbox(s) PROVE SandboxInv'
    <2>1. \A t \in Sandbox : PodOf[t] = PodOf[s] /\ t # s => Done(t)
      BY <1>3 DEF RunSandbox, Siblings, Over
    <2> QED
      BY <1>0, <1>3, <2>1 DEF RunSandbox
  <1>4. ASSUME NEW s \in Sandbox, KillSandbox(s) PROVE SandboxInv'
    BY <1>0, <1>4 DEF KillSandbox
  <1>5. ASSUME NEW s \in Sandbox, DeleteAgain(s) PROVE SandboxInv'
    BY <1>0, <1>5 DEF DeleteAgain
  <1>6. ASSUME NEW s \in Sandbox, PluginAdd(s) PROVE SandboxInv'
    <2>1. PICK n \in NIC, i \in IP : /\ AssignFresh(Key(s), n, i)
                                     /\ addr' = [addr EXCEPT ![s] = i]
      BY <1>6 DEF PluginAdd, AddNetwork
    <2>2. <<n, i>> \in DOMAIN IPv4Addresses
      BY <2>1 DEF AssignFresh, Available
    <2>3. i = AddrOf[n] /\ i # NoIP
      <3> DEFINE a == <<n, i>>
      <3>1. a[1] = n /\ a[2] = i
        OBVIOUS
      <3> HIDE DEF a
      <3> QED
        BY <2>2, <3>1, NodeAssumption DEF OwnAddress, a
    <2> QED
      BY <1>0, <1>6, <2>1, <2>3 DEF PluginAdd
  <1>7. ASSUME NEW s \in Sandbox,
               PluginAddLost(s) \/ PluginAddRefused(s) \/ PluginAddUnreachable(s)
        PROVE  SandboxInv'
    BY <1>0, <1>7 DEF PluginAddLost, PluginAddRefused, PluginAddUnreachable
  <1>8. ASSUME NEW s \in Sandbox,
               PluginSetup(s) \/ PluginSetupFails(s) \/ PluginCleanupUnreachable(s)
        PROVE  SandboxInv'
    BY <1>0, <1>8 DEF PluginSetup, PluginSetupFails, PluginCleanupUnreachable
  <1>9. ASSUME NEW s \in Sandbox, PluginDel(s) PROVE SandboxInv'
    <2>1. /\ UNCHANGED <<addr, api>>
          /\ sandbox[s] \in {"cleanup", "deleting", "redeleting"}
          /\ \/ UNCHANGED sandbox
             \/ sandbox' = [sandbox EXCEPT ![s] = IF sandbox[s] = "cleanup" THEN "failed"
                                                                         ELSE "gone"]
      BY <1>9, PluginDelCases DEF DelPending
    <2> QED
      BY <1>0, <2>1
  <1>10. CASE UNCHANGED <<sandbox, addr, api>>
    BY <1>10
  <1> QED
    BY <1>1, <1>2, <1>3, <1>4, <1>5, <1>6, <1>7, <1>8, <1>9, <1>10
       DEF Next, PodNext, DaemonListsPods, Crash, TimePasses, nodeVars, vars

\* An address enters the store with its own NIC only.
LEMMA OwnAddressStep ==
    ASSUME TypeInv, OwnAddress, [Next]_vars
    PROVE  OwnAddress'
  <1>0. StoreTypeOK
    BY CountTypes DEF TypeInv
  <1>1. DOMAIN IPv4Addresses' \subseteq DOMAIN IPv4Addresses
          \cup {<<n, AddrOf[n]>> : n \in NIC}
    <2>1. CASE NewDataStore'
      BY <2>1 DEF NewDataStore
    <2>2. ASSUME NEW n \in NIC, AddIPv4AddressFromStore(n, AddrOf[n])
          PROVE  DOMAIN IPv4Addresses' = DOMAIN IPv4Addresses \cup {<<n, AddrOf[n]>>}
      BY <2>2 DEF AddIPv4AddressFromStore, Put
    <2>3. ASSUME NEW k, NEW n, NEW i, AssignFresh(k, n, i) \/ Reassign(k, n, i)
          PROVE  DOMAIN IPv4Addresses' = DOMAIN IPv4Addresses
      BY <2>3 DEF AssignFresh, Reassign, incrementAssignedCount
    <2>4. ASSUME NEW k, NEW n, UnassignPodIPv4Address(k, n)
          PROVE  DOMAIN IPv4Addresses' = DOMAIN IPv4Addresses
      BY <2>4 DEF UnassignPodIPv4Address
    <2>5. ASSUME NEW n, RemoveUnusedNICFromStore(n)
          PROVE  DOMAIN IPv4Addresses' \subseteq DOMAIN IPv4Addresses
      BY <2>5 DEF RemoveUnusedNICFromStore, DropNIC, Without, Restrict
    <2>6. ASSUME NEW n, NEW dev, AddNIC(n, dev, FALSE)
          PROVE  DOMAIN IPv4Addresses' = DOMAIN IPv4Addresses
      BY <2>6 DEF AddNIC
    <2>7. CASE Tick
      BY <2>7 DEF Tick
    <2> QED
      BY <2>1, <2>2, <2>3, <2>4, <2>5, <2>6, <2>7, StoreSteps DEF NodeStoreStep, storeVars
  <1>2. ASSUME NEW n \in NIC, NEW a, a = <<n, AddrOf[n]>>
        PROVE  a[2] = AddrOf[a[1]]
    BY <1>2
  <1> QED
    BY <1>1, <1>2 DEF OwnAddress

----------------------------------------------------------------------------
(* The steps of the node, by what they may do to an address in use *)

\* The process ends.
Dies == ProcessDies /\ UNCHANGED <<cloud, cniConfig, sandbox, addr, api, idle>>

\* A step of start-up that does not end it.
StartUpStep ==
    \/ Boot \/ NextAttachedNIC \/ SetupNicAdd("main") \/ SetupNicAddress("main")
    \/ AttachedNICsDone \/ ListPods(CurrentNodePods) \/ RecoverPod \/ RuleListFails
    \/ StartServing

\* A step of the main thread or the pool manager of a daemon that serves and
\* goes on.
WorkStep ==
    /\ Serving /\ Serving'
    /\ UNCHANGED <<podsIP, fallback, todoPods, todoNICs, crashes>>
    /\ pc'.main = "ready" \/ (pc'.main = pc.main /\ UNCHANGED cniConfig)
    /\ \/ UNCHANGED IPv4Addresses
       \/ \E n \in NIC : AddIPv4AddressFromStore(n, AddrOf[n])
       \/ \E n \in NIC : RemoveUnusedNICFromStore(n)

\* A step of the main thread; after start-up it ends the process only in Start,
\* when no attempt is left.
LEMMA MainKinds ==
    ASSUME TypeInv, NICInv, MainNext, UNCHANGED nodeVars
    PROVE  \/ Dies /\ (Serving => GiveUp)
           \/ StartUpStep /\ ~Serving
           \/ WorkStep
  <1> USE DEF Serving
  <1>0. pc \in [main : MainLabel, pool : PoolLabel]
    BY DEF TypeInv, DaemonTypeOK
  <1>1. CASE SetupNicAdd("main") \/ SetupNicAddress("main")
    BY <1>1 DEF SetupNicAdd, SetupNicAddress, StartUpStep
  <1>2. CASE SetupNicFails("main") \/ GiveUp
    BY <1>2 DEF SetupNicFails, GiveUp, Dies, nodeVars
  <1>3. CASE \/ Boot \/ NextAttachedNIC \/ AttachedNICsDone \/ RecoverPod \/ RuleListFails
             \/ StartServing
    BY <1>3 DEF Boot, NextAttachedNIC, AttachedNICsDone, RecoverPod, RuleListFails,
                StartServing, StartUpStep
  <1>4. CASE ReadTotal("main") \/ ReadAssigned("main") \/ WriteCNIConfig \/ NoAddressYet
    BY <1>0, <1>4 DEF ReadTotal, ReadAssigned, Reading, WriteCNIConfig, NoAddressYet, Goto,
                      WorkStep, storeVars, nodeVars, MainLabel
  <1> QED
    BY <1>1, <1>2, <1>3, <1>4 DEF MainNext

\* A step of the pool manager.
LEMMA PoolKinds ==
    ASSUME TypeInv, NICInv, PoolNext, UNCHANGED nodeVars
    PROVE  (Dies /\ "cloud" \in Faults) \/ WorkStep
  <1> USE DEF Serving
  <1>0. pc \in [main : MainLabel, pool : PoolLabel]
    BY DEF TypeInv, DaemonTypeOK
  <1>1. pc.pool # "off" => Serving
    BY DEF NICInv, Phases
  <1>2. CASE SetupNicAdd("pool") \/ SetupNicFails("pool")
    BY <1>0, <1>1, <1>2 DEF SetupNicAdd, SetupNicFails, Goto, AddNIC, WorkStep, storeVars,
                            nodeVars, PoolLabel
  <1>9. CASE SetupNicAddress("pool")
    <2>1. /\ UNCHANGED <<podsIP, fallback, todoPods, todoNICs, crashes, cniConfig>>
          /\ pc'.main = pc.main /\ pc.pool = "addip"
      BY <1>0, <1>9 DEF SetupNicAddress, AddIPv4AddressFromStore, Goto, storeVars, nodeVars
    <2>2. \/ UNCHANGED IPv4Addresses
          \/ AddIPv4AddressFromStore(work.pool, AddrOf[work.pool])
      BY <1>9 DEF SetupNicAddress, storeVars
    <2>3. work.pool \in NIC
      BY <2>1 DEF TypeInv, DaemonTypeOK, Thread
    <2> QED
      BY <1>1, <2>1, <2>2, <2>3 DEF WorkStep
  <1>3. CASE ReadTotal("pool") \/ ReadAssigned("pool")
    BY <1>1, <1>3 DEF ReadTotal, ReadAssigned, Reading, WorkStep, storeVars, nodeVars
  <1>4. CASE DecideLow \/ DecideHigh \/ CreateNic \/ CreateNicRefused
    BY <1>0, <1>1, <1>4 DEF DecideLow, DecideHigh, CreateNic, CreateNicRefused, Goto,
                            WorkStep, storeVars, nodeVars
  <1>5. CASE DescribeNicPanics
    BY <1>5 DEF DescribeNicPanics, Dies, nodeVars
  <1>6. CASE RemoveUnusedNIC
    <2>1. PICK n \in NIC : RemoveUnusedNICFromStore(n)
      BY <1>6 DEF RemoveUnusedNIC
    <2>2. UNCHANGED podsIP
      BY <2>1 DEF RemoveUnusedNICFromStore, DropNIC
    <2> QED
      BY <1>0, <1>1, <1>6, <2>1, <2>2 DEF RemoveUnusedNIC, Goto, WorkStep, nodeVars
  <1>7. CASE \/ DescribeNic \/ DescribeNicFails \/ AttachNic \/ AttachNicFails \/ NoUnusedNIC
    BY <1>0, <1>1, <1>7 DEF DescribeNic, DescribeNicFails, AttachNic, AttachNicFails,
                            NoUnusedNIC, Goto, WorkStep, storeVars, nodeVars
  <1>8. CASE DetachNic \/ DropNic \/ DeleteNicFails \/ StopPoolManager
    BY <1>0, <1>1, <1>8 DEF DetachNic, DropNic, DeleteNicFails, StopPoolManager, Goto,
                            WorkStep, storeVars, nodeVars
  <1> QED
    BY <1>2, <1>3, <1>4, <1>5, <1>6, <1>7, <1>8, <1>9 DEF PoolNext

\* Every step is of one of these kinds, or of the pods and the plugin.
LEMMA StepKinds ==
    ASSUME TypeInv, NICInv, [Next]_vars
    PROVE  \/ Dies /\ (Serving => Crash \/ GiveUp \/ "cloud" \in Faults)
           \/ StartUpStep /\ ~Serving /\ UNCHANGED nodeVars
           \/ WorkStep /\ UNCHANGED nodeVars
           \/ PodNext
           \/ TimePasses
           \/ UNCHANGED vars
  <1>1. CASE DaemonListsPods
    BY <1>1 DEF DaemonListsPods, ListPods, ListPodsPanics, Dies, StartUpStep, Serving, nodeVars
  <1>2. CASE Crash
    BY <1>2 DEF Crash, Dies
  <1> QED
    BY <1>1, <1>2, MainKinds, PoolKinds DEF Next

\* Start-up ends before the configuration is written.
LEMMA StartUpNotReady ==
    ASSUME TypeInv, StartUpStep, ~Serving
    PROVE  pc'.main # "ready"
  <1>1. pc \in [main : MainLabel, pool : PoolLabel]
    BY DEF TypeInv, DaemonTypeOK
  <1>2. CASE \/ Boot \/ NextAttachedNIC \/ AttachedNICsDone \/ ListPods(CurrentNodePods)
             \/ RecoverPod \/ RuleListFails \/ StartServing
    BY <1>1, <1>2 DEF Boot, NextAttachedNIC, AttachedNICsDone, ListPods, RecoverPod,
       RuleListFails, StartServing, Goto, Serving, MainLabel, PoolLabel
  <1>3. CASE SetupNicAdd("main") \/ SetupNicAddress("main")
    BY <1>1, <1>3 DEF SetupNicAdd, SetupNicAddress, AfterSetupNic, Goto, Serving, MainLabel,
       PoolLabel
  <1> QED
    BY <1>2, <1>3 DEF StartUpStep

----------------------------------------------------------------------------
(* What the API server shows during start-up *)

\* While the daemon does not serve, the API server shows every address in use
\* at its pod, and no address at two pods.
ApiShowsUse ==
    ~Serving =>
      /\ \A s \in Sandbox : Uses(s) => sandbox[s] = "up" /\ api[PodOf[s]].IP = addr[s]
      /\ \A p, q \in Pod : api[p].IP # NoIP /\ api[p].IP = api[q].IP => p = q

\* It does when a daemon that serves dies while the API server is up to date.
LEMMA DiesShown ==
    ASSUME TypeInv, SandboxInv, NoDoubleUse, ApiShowsUse, Serving => ApiCurrent, Dies
    PROVE  ApiShowsUse'
  <1>1. CASE ~Serving
    BY <1>1 DEF ApiShowsUse, Dies, Uses
  <1>2. CASE Serving
    <2>1. \A s \in Sandbox : Uses(s) => sandbox[s] = "up" /\ api[PodOf[s]].IP = addr[s]
      BY <1>2 DEF SandboxInv, ApiCurrent
    <2>2. ASSUME NEW p \in Pod, NEW q \in Pod, api[p].IP # NoIP, api[p].IP = api[q].IP
          PROVE  p = q
      <3>1. PICK s \in Sandbox : PodOf[s] = p /\ sandbox[s] = "up"
        BY <1>2, <2>2 DEF ApiCurrent
      <3>2. PICK t \in Sandbox : PodOf[t] = q /\ sandbox[t] = "up"
        BY <1>2, <2>2 DEF ApiCurrent
      <3>3. addr[s] = addr[t] /\ addr[s] # NoIP
        BY <1>2, <2>2, <3>1, <3>2 DEF ApiCurrent
      <3> QED
        BY <3>1, <3>2, <3>3 DEF NoDoubleUse
    <2> QED
      BY <2>1, <2>2 DEF ApiShowsUse, Dies, Uses
  <1> QED
    BY <1>1, <1>2

\* Without a daemon no address enters use, and what is published is known.
LEMMA PodUnserved ==
    ASSUME TypeInv, SandboxInv, ApiShowsUse, ~Serving, PodNext
    PROVE  /\ UNCHANGED <<storeVars, fallback>>
           /\ \A s \in Sandbox : addr'[s] \in {addr[s], NoIP}
           /\ ApiShowsUse'
  <1> USE DEF SandboxInv, Uses, ApiShowsUse, ipamVars, daemonVars
  <1> DEFINE Goal == /\ UNCHANGED <<storeVars, fallback>>
                     /\ \A s \in Sandbox : addr'[s] \in {addr[s], NoIP}
                     /\ ApiShowsUse'
  <1>0. /\ sandbox \in [Sandbox -> SandboxState]
        /\ addr \in [Sandbox -> IP \cup {NoIP}]
        /\ api \in [Pod -> [IP : IP \cup {NoIP}, container : Container \cup {NoStatus},
                            exists : BOOLEAN]]
        /\ \A s \in Sandbox : PodOf[s] \in Pod
    BY KeyType DEF TypeInv, NodeVarsOK
  <1>a. ~Serving'
    BY PodFrame DEF DaemonFrame, Serving
  <1>1. ASSUME NEW p \in Pod, DeletePod(p) PROVE Goal
    <2>1. \A s \in Sandbox : Uses(s) => PodOf[s] # p
      BY <1>1 DEF DeletePod, Over
    <2>2. \A q \in Pod : api'[q].IP = IF q = p THEN NoIP ELSE api[q].IP
      BY <1>0, <1>1 DEF DeletePod, Absent
    <2> QED
      BY <1>0, <1>1, <2>1, <2>2 DEF DeletePod
  <1>2. ASSUME NEW s \in Sandbox, PublishStatus(s) PROVE Goal
    <2>1. \A q \in Pod : api'[q].IP = api[q].IP
      BY <1>0, <1>2 DEF PublishStatus
    <2> QED
      BY <1>0, <1>2, <2>1 DEF PublishStatus
  <1>3. ASSUME NEW s \in Sandbox, RunSandbox(s) PROVE Goal
    BY <1>0, <1>3 DEF RunSandbox
  <1>4. ASSUME NEW s \in Sandbox, KillSandbox(s) PROVE Goal
    BY <1>0, <1>4 DEF KillSandbox
  <1>5. ASSUME NEW s \in Sandbox, DeleteAgain(s) PROVE Goal
    BY <1>0, <1>5 DEF DeleteAgain
  <1>6. ASSUME NEW s \in Sandbox,
               PluginAdd(s) \/ PluginAddLost(s) \/ PluginAddRefused(s) \/ PluginDel(s)
        PROVE  Goal
    BY <1>6, PluginDelCases DEF PluginAdd, PluginAddLost, PluginAddRefused, AddNetwork,
                                AddNetworkRefused
  <1>7. ASSUME NEW s \in Sandbox, PluginSetup(s) \/ PluginSetupFails(s) PROVE Goal
    BY <1>7 DEF PluginSetup, PluginSetupFails
  <1>8. ASSUME NEW s \in Sandbox, PluginAddUnreachable(s) \/ PluginCleanupUnreachable(s)
        PROVE  Goal
    BY <1>0, <1>8 DEF PluginAddUnreachable, PluginCleanupUnreachable
  <1> HIDE DEF Goal
  <1>9. Goal
    BY <1>1, <1>2, <1>3, <1>4, <1>5, <1>6, <1>7, <1>8 DEF PodNext
  <1> QED
    BY <1>9 DEF Goal

\* It goes on showing them until the daemon serves.
LEMMA ShownStep ==
    ASSUME TypeInv, NICInv, SandboxInv, NoDoubleUse, ApiShowsUse, [Next]_vars,
           Serving /\ ~Serving' => ApiCurrent
    PROVE  ApiShowsUse'
  <1>1. CASE Dies
    <2>1. ~Serving'
      BY <1>1 DEF Dies, ProcessDies, Serving
    <2> QED
      BY <1>1, <2>1, DiesShown
  <1>2. CASE StartUpStep /\ ~Serving /\ UNCHANGED nodeVars
    BY <1>2 DEF ApiShowsUse, Uses, nodeVars
  <1>3. CASE WorkStep
    BY <1>3 DEF WorkStep, ApiShowsUse
  <1>4. CASE PodNext
    <2>1. Serving' = Serving
      BY <1>4, PodFrame DEF DaemonFrame, Serving
    <2> QED
      BY <1>4, <2>1, PodUnserved DEF ApiShowsUse
  <1>5. CASE TimePasses
    BY <1>5 DEF TimePasses, daemonVars, ApiShowsUse, Uses, Serving
  <1>6. CASE UNCHANGED vars
    BY <1>6 DEF vars, ipamVars, daemonVars, nodeVars, ApiShowsUse, Uses, Serving
  <1> QED
    BY <1>1, <1>2, <1>3, <1>4, <1>5, <1>6, StepKinds

----------------------------------------------------------------------------
(* The NICs found at start-up *)

\* Of every attached NIC start-up has put the address into the store, is about
\* to, or has still to begin.
NICsComing ==
    /\ pc.main = "addip" => work.main \in DOMAIN nicIPPools
    /\ ~Serving /\ pc.main # "down" =>
         \A n \in NIC : cloud[n] = "attached" =>
           \/ n \in todoNICs
           \/ pc.main \in {"addnic", "addip"} /\ work.main = n
           \/ <<n, AddrOf[n]>> \in DOMAIN IPv4Addresses

\* Start-up forgets none of them.
LEMMA NICsComingStep ==
    ASSUME TypeInv, NICInv, NICsComing, [Next]_vars
    PROVE  NICsComing'
  <1> USE DEF NICsComing, Serving
  <1>0. /\ pc \in [main : MainLabel, pool : PoolLabel]
        /\ work \in [Thread -> NIC \cup {NoNIC}]
        /\ pc.main \in {"addnic", "addip"} => work.main \in NIC
    BY DEF TypeInv, DaemonTypeOK, Thread
  <1>1. CASE Dies
    BY <1>1 DEF Dies, ProcessDies
  <1>2. CASE StartUpStep /\ ~Serving /\ UNCHANGED nodeVars
    <2>1. CASE Boot
      BY <1>0, <2>1 DEF Boot, Goto, storeVars, MainLabel, PoolLabel
    <2>2. CASE NextAttachedNIC
      BY <1>0, <2>2 DEF NextAttachedNIC, Goto, storeVars, Thread, MainLabel, PoolLabel
    <2>3. CASE SetupNicAdd("main")
      <3>1. /\ work.main \in DOMAIN nicIPPools'
            /\ IPv4Addresses' = IPv4Addresses
        BY <2>3 DEF SetupNicAdd, AddNIC, Put, storeVars
      <3> QED
        BY <1>0, <2>3, <3>1 DEF SetupNicAdd, Goto, MainLabel, PoolLabel
    <2>4. CASE SetupNicAddress("main")
      <3> DEFINE n == work.main
      <3>1. DOMAIN IPv4Addresses' = DOMAIN IPv4Addresses \cup {<<n, AddrOf[n]>>}
        BY <2>4 DEF SetupNicAddress, AddIPv4AddressFromStore, Put, storeVars
      <3>2. /\ pc.main = "addip" /\ pc'.main = "nics"
            /\ UNCHANGED <<cloud, todoNICs>>
        BY <1>0, <2>4 DEF SetupNicAddress, Goto, AfterSetupNic, MainLabel, PoolLabel
      <3> QED
        BY <3>1, <3>2
    <2>5. CASE AttachedNICsDone
      BY <1>0, <2>5 DEF AttachedNICsDone, Goto, storeVars, MainLabel, PoolLabel
    <2>6. CASE ListPods(CurrentNodePods)
      BY <1>0, <2>6 DEF ListPods, Goto, storeVars, MainLabel, PoolLabel
    <2>7. CASE RecoverPod
      <3>1. DOMAIN IPv4Addresses' = DOMAIN IPv4Addresses
        BY <2>7 DEF RecoverPod, Reassign, incrementAssignedCount, storeVars
      <3> QED
        BY <2>7, <3>1 DEF RecoverPod
    <2>8. CASE RuleListFails
      BY <2>8 DEF RuleListFails, storeVars
    <2>9. CASE StartServing
      BY <2>9 DEF StartServing
    <2> QED
      BY <1>2, <2>1, <2>2, <2>3, <2>4, <2>5, <2>6, <2>7, <2>8, <2>9 DEF StartUpStep
  <1>3. CASE WorkStep
    BY <1>3 DEF WorkStep
  <1>4. CASE PodNext \/ TimePasses
    BY <1>4, PodKeepsNICs
  <1>5. CASE UNCHANGED vars
    BY <1>5 DEF vars, ipamVars, storeVars, daemonVars
  <1> QED
    BY <1>1, <1>2, <1>3, <1>4, <1>5, StepKinds

----------------------------------------------------------------------------
(* The pods found at start-up *)

\* An entry of podsIP for the pod of the sandbox has its address.
HeldFor(s) == \E k \in DOMAIN podsIP : k[1] = PodOf[s] /\ podsIP[k].IP = addr[s]

\* The pod of the sandbox has still to be recovered, with its address.
TodoFor(s) == \E p \in todoPods : p.pod = PodOf[s] /\ p.IP = addr[s]

\* The pods still to recover are different ones with different addresses, none
\* of them recovered yet; every sandbox that uses an address is among them or
\* has its entry.  Before recovery begins there is no entry.
PodsComing ==
    /\ pc.main # "recover" => todoPods = {}
    /\ ~Serving /\ pc.main # "recover" => DOMAIN podsIP = {}
    /\ \A p, q \in todoPods : p.pod = q.pod \/ (p.IP = q.IP /\ p.IP # NoIP) => p = q
    /\ \A p \in todoPods, k \in DOMAIN podsIP : k[1] # p.pod /\ podsIP[k].IP # p.IP
    /\ pc.main = "recover" => \A s \in Sandbox : Uses(s) => HeldFor(s) \/ TodoFor(s)

\* The listing finds every sandbox that uses an address.
LEMMA ListComing ==
    ASSUME TypeInv, SandboxInv, ApiShowsUse, PodsComing, ListPods(CurrentNodePods),
           UNCHANGED nodeVars
    PROVE  PodsComing'
  <1>0. /\ pc \in [main : MainLabel, pool : PoolLabel]
        /\ pc.main = "pods" /\ ~Serving
        /\ podsIP' = podsIP /\ DOMAIN podsIP = {}
        /\ UNCHANGED <<sandbox, addr, api>>
    BY DEF ListPods, PodsComing, TypeInv, DaemonTypeOK, storeVars, Serving, nodeVars
  <1>1. CASE UNCHANGED <<pc, todoPods>>
    BY <1>0, <1>1 DEF PodsComing, Serving
  <1>2. CASE todoPods' = CurrentNodePods /\ pc'.main = "recover"
    <2>1. \A p \in CurrentNodePods : p.pod \in Pod /\ p.IP = api[p.pod].IP
                                     /\ p.container = api[p.pod].container
      BY DEF CurrentNodePods
    <2>2. ASSUME NEW p \in CurrentNodePods, NEW q \in CurrentNodePods,
                 p.pod = q.pod \/ (p.IP = q.IP /\ p.IP # NoIP)
          PROVE  p = q
      <3>1. p.pod = q.pod
        BY <1>0, <2>1, <2>2 DEF ApiShowsUse
      <3> QED
        BY <3>1 DEF CurrentNodePods
    <2>3. ASSUME NEW s \in Sandbox, Uses(s)
          PROVE  \E p \in CurrentNodePods : p.pod = PodOf[s] /\ p.IP = addr[s]
      <3>1. PodOf[s] \in Pod /\ api[PodOf[s]].IP = addr[s] /\ addr[s] # NoIP
        BY <1>0, <2>3, KeyType DEF ApiShowsUse, Uses
      <3>2. api[PodOf[s]].exists
        BY <3>1 DEF SandboxInv
      <3> DEFINE p == [pod |-> PodOf[s], IP |-> api[PodOf[s]].IP,
                       container |-> api[PodOf[s]].container]
      <3>3. p \in CurrentNodePods
        BY <3>1, <3>2 DEF CurrentNodePods
      <3> QED
        BY <3>1, <3>3
    <2> QED
      BY <1>0, <1>2, <2>2, <2>3 DEF PodsComing, TodoFor, Uses, Serving
  <1> QED
    BY <1>0, <1>1, <1>2 DEF ListPods, Goto

\* The recovery of a pod records its address if one of the NICs carries it, as
\* is the case of every address in use.
LEMMA RecoverComing ==
    ASSUME TypeInv, NICInv, SandboxInv, NICsComing, PodsComing, UsedNICAttached, RecoverPod,
           UNCHANGED nodeVars
    PROVE  PodsComing'
  <1>0. /\ StoreTypeOK
        /\ pc.main = "recover" /\ UNCHANGED <<pc, sandbox, addr>>
        /\ todoNICs = {}
    BY CountTypes DEF TypeInv, RecoverPod, NICInv, Phases, nodeVars
  <1>1. PICK p \in todoPods :
          /\ todoPods' = todoPods \ {p}
          /\ LET k == <<p.pod, p.container>>
                 Carriers == {n \in NIC : <<n, p.IP>> \in DOMAIN IPv4Addresses}
             IN  IF k \notin DOMAIN podsIP /\ Carriers # {}
                   THEN \E n \in Carriers : Reassign(k, n, p.IP)
                   ELSE UNCHANGED storeVars
    BY DEF RecoverPod
  <1> DEFINE k == <<p.pod, p.container>>
  <1>2. k[1] = p.pod /\ k \notin DOMAIN podsIP
    <2>1. k[1] = p.pod
      OBVIOUS
    <2> HIDE DEF k
    <2> QED
      BY <2>1 DEF PodsComing
  <1>3. CASE \E n \in NIC : <<n, p.IP>> \in DOMAIN IPv4Addresses
    <2>1. PICK n \in NIC : <<n, p.IP>> \in DOMAIN IPv4Addresses /\ Reassign(k, n, p.IP)
      BY <1>1, <1>2, <1>3
    <2>2. p.IP # NoIP
      BY <1>0, <2>1, NodeAssumption DEF StoreTypeOK
    <2> HIDE DEF k
    <2>3. /\ DOMAIN podsIP' = DOMAIN podsIP \cup {k}
          /\ podsIP'[k].IP = p.IP
          /\ \A l \in DOMAIN podsIP : podsIP'[l] = podsIP[l]
      BY <1>2, <2>1 DEF Reassign, RecordPod, Put
    <2>4. \A q \in todoPods' : q \in todoPods /\ q.pod # p.pod /\ q.IP # p.IP
      BY <1>1, <2>2 DEF PodsComing
    <2>5. \A q \in todoPods', l \in DOMAIN podsIP' : l[1] # q.pod /\ podsIP'[l].IP # q.IP
      BY <1>2, <2>3, <2>4 DEF PodsComing
    <2>6. ASSUME NEW s \in Sandbox, Uses(s)
          PROVE  HeldFor(s)' \/ TodoFor(s)'
      <3>1. CASE HeldFor(s)
        BY <1>0, <2>3, <3>1 DEF HeldFor
      <3>2. CASE TodoFor(s)
        <4>1. PICK q \in todoPods : q.pod = PodOf[s] /\ q.IP = addr[s]
          BY <3>2 DEF TodoFor
        <4>2. CASE q = p
          BY <1>0, <1>2, <2>3, <4>1, <4>2 DEF HeldFor
        <4>3. CASE q # p
          BY <1>0, <1>1, <4>1, <4>3 DEF TodoFor
        <4> QED
          BY <4>2, <4>3
      <3> QED
        BY <1>0, <2>6, <3>1, <3>2 DEF PodsComing
    <2> QED
      BY <1>0, <2>4, <2>5, <2>6 DEF PodsComing, Uses, Serving
  <1>4. CASE \A n \in NIC : <<n, p.IP>> \notin DOMAIN IPv4Addresses
    <2>1. UNCHANGED podsIP
      BY <1>1, <1>4 DEF storeVars
    <2>2. ASSUME NEW s \in Sandbox, Uses(s), p.pod = PodOf[s] /\ p.IP = addr[s]
          PROVE  FALSE
      <3>1. PICK n \in NIC : addr[s] = AddrOf[n]
        BY <2>2 DEF SandboxInv
      <3>2. <<n, AddrOf[n]>> \in DOMAIN IPv4Addresses
        BY <1>0, <3>1 DEF UsedNICAttached, NICsComing, Serving
      <3> QED
        BY <1>4, <2>2, <3>1, <3>2
    <2>3. ASSUME NEW s \in Sandbox, Uses(s)
          PROVE  HeldFor(s)' \/ TodoFor(s)'
      <3>1. CASE HeldFor(s)
        BY <1>0, <2>1, <3>1 DEF HeldFor
      <3>2. CASE TodoFor(s)
        BY <1>0, <1>1, <2>2, <2>3, <3>2 DEF TodoFor
      <3> QED
        BY <1>0, <2>3, <3>1, <3>2 DEF PodsComing
    <2> QED
      BY <1>0, <1>1, <2>1, <2>3 DEF PodsComing, Uses, Serving
  <1> QED
    BY <1>3, <1>4

\* Start-up forgets no address in use.
LEMMA PodsComingStep ==
    ASSUME TypeInv, NICInv, SandboxInv, ApiShowsUse, NICsComing, PodsComing, UsedNICAttached,
           RuleListFails => \A s \in Sandbox : ~Uses(s),
           [Next]_vars
    PROVE  PodsComing'
  <1>0. pc \in [main : MainLabel, pool : PoolLabel]
    BY DEF TypeInv, DaemonTypeOK
  <1>1. CASE Dies
    BY <1>1 DEF Dies, ProcessDies, PodsComing
  <1>2. CASE StartUpStep /\ ~Serving /\ UNCHANGED nodeVars
    <2> USE DEF PodsComing, Serving
    <2>0. UNCHANGED addr
      BY <1>2 DEF nodeVars
    <2>1. CASE Boot \/ NextAttachedNIC \/ AttachedNICsDone
      BY <1>0, <2>1 DEF Boot, NextAttachedNIC, AttachedNICsDone, Goto, storeVars, MainLabel,
                        PoolLabel
    <2>2. CASE SetupNicAdd("main")
      <3>1. UNCHANGED podsIP
        BY <2>2 DEF SetupNicAdd, AddNIC, storeVars
      <3> QED
        BY <1>0, <2>2, <3>1 DEF SetupNicAdd, Goto, MainLabel, PoolLabel
    <2>3. CASE SetupNicAddress("main")
      <3>1. UNCHANGED podsIP
        BY <2>3 DEF SetupNicAddress, AddIPv4AddressFromStore, storeVars
      <3> QED
        BY <1>0, <2>3, <3>1 DEF SetupNicAddress, Goto, AfterSetupNic, MainLabel, PoolLabel
    <2>4. CASE ListPods(CurrentNodePods)
      BY <1>2, <2>4, ListComing
    <2>5. CASE RecoverPod
      BY <1>2, <2>5, RecoverComing
    <2>6. CASE RuleListFails
      BY <2>0, <2>6 DEF RuleListFails, storeVars, Uses
    <2>7. CASE StartServing
      BY <2>7 DEF StartServing
    <2> QED
      BY <1>2, <2>1, <2>2, <2>3, <2>4, <2>5, <2>6, <2>7 DEF StartUpStep
  <1>3. CASE WorkStep
    <2>1. todoPods = {} /\ todoPods' = {} /\ Serving' /\ pc'.main # "recover"
      BY <1>3 DEF WorkStep, PodsComing, Serving
    <2> QED
      BY <2>1 DEF PodsComing
  <1>4. CASE PodNext
    <2>1. UNCHANGED <<pc, todoPods>>
      BY <1>4, PodFrame DEF DaemonFrame
    <2>2. CASE Serving
      <3>1. todoPods = {} /\ pc.main # "recover"
        BY <2>2 DEF Serving, PodsComing
      <3> QED
        BY <2>1, <2>2, <3>1 DEF PodsComing, Serving
    <2>3. CASE ~Serving
      <3>1. UNCHANGED podsIP /\ \A s \in Sandbox : addr'[s] \in {addr[s], NoIP}
        BY <1>4, <2>3, PodUnserved DEF storeVars
      <3>2. \A s \in Sandbox : Uses(s)' => Uses(s) /\ addr'[s] = addr[s]
        BY <3>1 DEF Uses
      <3> QED
        BY <2>1, <3>1, <3>2 DEF PodsComing, HeldFor, TodoFor, Serving
    <2> QED
      BY <2>2, <2>3
  <1>5. CASE TimePasses
    BY <1>5 DEF TimePasses, Tick, daemonVars, PodsComing, HeldFor, TodoFor, Uses, Serving
  <1>6. CASE UNCHANGED vars
    BY <1>6 DEF vars, ipamVars, storeVars, daemonVars, nodeVars, PodsComing, HeldFor, TodoFor,
                Uses, Serving
  <1> QED
    BY <1>1, <1>2, <1>3, <1>4, <1>5, <1>6, StepKinds

----------------------------------------------------------------------------
(* The store is used in the order DaemonSpec asks for *)

\* The address the cloud has given to a NIC is on no other one, and the pods
\* found at start-up have different addresses.
LEMMA DaemonOrder ==
    ASSUME TypeInv, OwnAddress, PodsComing, [Next]_vars
    PROVE  [DaemonNext]_storeVars \/ NewDataStore'
  <1>0. StoreTypeOK
    BY CountTypes DEF TypeInv
  <1>1. ASSUME NEW n \in NIC, AddIPv4AddressFromStore(n, AddrOf[n])
        PROVE  OnNoNIC(AddrOf[n]) /\ AddrOf[n] \in IP
    <2>1. ASSUME NEW m \in NIC, <<m, AddrOf[n]>> \in DOMAIN IPv4Addresses
          PROVE  FALSE
      <3> DEFINE a == <<m, AddrOf[n]>>
      <3>1. a[1] = m /\ a[2] = AddrOf[n]
        OBVIOUS
      <3> HIDE DEF a
      <3>2. AddrOf[n] = AddrOf[m]
        BY <2>1, <3>1 DEF OwnAddress, a
      <3>3. m = n
        BY <3>2, CloudAssumption
      <3> QED
        BY <1>1, <2>1, <3>3 DEF AddIPv4AddressFromStore
    <2> QED
      BY <2>1, CloudAssumption DEF OnNoNIC
  <1>2. ASSUME NEW p \in todoPods
        PROVE  HeldByNoPod(p.IP) /\ <<p.pod, p.container>> \in PodKey
    BY DEF PodsComing, HeldByNoPod, TypeInv, DaemonTypeOK, K8SPodInfo, PodKey
  <1> QED
    BY <1>1, <1>2, StoreSteps, KeyType DEF NodeStoreStep, DaemonNext

\* So what OwnerInv says of the store stays true on the node.
LEMMA OwnerStep ==
    ASSUME TypeInv, OwnAddress, PodsComing, OwnerInv, [Next]_vars
    PROVE  OwnerInv'
  <1>1. CASE [DaemonNext]_storeVars
    BY <1>1, OwnerNext
  <1>2. CASE NewDataStore'
    BY <1>2, EmptyStore
  <1> QED
    BY <1>1, <1>2, DaemonOrder

----------------------------------------------------------------------------
(* Addresses in use *)

\* The deletion of a sandbox that was gone already finds nothing to release.
NothingToRelease ==
    \A t \in Sandbox : sandbox[t] = "redeleting" =>
        Key(t) \notin DOMAIN podsIP /\ <<PodOf[t], NoContainer>> \notin DOMAIN podsIP

\* What the plugin and the kubelet do takes no entry from a sandbox that uses
\* its address.
LEMMA PodHeld ==
    ASSUME TypeInv, SandboxInv, UsedAddressHeld, NothingToRelease, Serving, PodNext
    PROVE  UsedAddressHeld'
  <1> USE DEF UsedAddressHeld, ipamVars
  <1>0. /\ StoreTypeOK
        /\ addr \in [Sandbox -> IP \cup {NoIP}]
        /\ \A s \in Sandbox : Key(s)[1] = PodOf[s]
    BY CountTypes DEF TypeInv, NodeVarsOK, Key
  <1>1. ASSUME UNCHANGED podsIP, \A s \in Sandbox : addr'[s] \in {addr[s], NoIP}
        PROVE  UsedAddressHeld'
    BY <1>1
  <1>2. ASSUME NEW p \in Pod, DeletePod(p) PROVE UNCHANGED <<podsIP, addr>>
    BY <1>2 DEF DeletePod, storeVars
  <1>3. ASSUME NEW s \in Sandbox,
               \/ PublishStatus(s) \/ RunSandbox(s) \/ DeleteAgain(s) \/ PluginAddRefused(s)
               \/ PluginAddUnreachable(s) \/ PluginSetup(s) \/ PluginCleanupUnreachable(s)
        PROVE  UNCHANGED <<podsIP, addr>>
    BY <1>3 DEF PublishStatus, RunSandbox, DeleteAgain, PluginAddRefused, AddNetworkRefused,
                PluginAddUnreachable, PluginSetup, PluginCleanupUnreachable, storeVars
  <1>4. ASSUME NEW s \in Sandbox, KillSandbox(s) \/ PluginSetupFails(s)
        PROVE  UNCHANGED podsIP /\ \A t \in Sandbox : addr'[t] \in {addr[t], NoIP}
    BY <1>0, <1>4 DEF KillSandbox, PluginSetupFails, storeVars
  <1>5. ASSUME NEW s \in Sandbox, NEW n \in NIC, NEW i \in IP, AssignFresh(Key(s), n, i),
               addr' = addr \/ addr' = [addr EXCEPT ![s] = i]
        PROVE  UsedAddressHeld'
    <2> DEFINE k == Key(s)
    <2>1. k[1] = PodOf[s]
      BY <1>0
    <2>2. /\ DOMAIN podsIP' = DOMAIN podsIP \cup {k}
          /\ k \notin DOMAIN podsIP
          /\ podsIP'[k].IP = i
          /\ \A l \in DOMAIN podsIP : podsIP'[l] = podsIP[l]
      BY <1>5 DEF AssignFresh, RecordPod, Put
    <2> HIDE DEF k
    <2>3. ASSUME NEW t \in Sandbox, addr'[t] # NoIP
          PROVE  \E l \in DOMAIN podsIP' : l[1] = PodOf[t] /\ podsIP'[l].IP = addr'[t]
      <3>1. CASE addr'[t] = addr[t]
        BY <2>2, <2>3, <3>1
      <3>2. CASE t = s /\ addr'[t] = i
        BY <2>1, <2>2, <3>2
      <3> QED
        BY <1>0, <1>5, <3>1, <3>2
    <2> QED
      BY <2>3
  <1>6. ASSUME NEW s \in Sandbox, PluginAdd(s) \/ PluginAddLost(s) PROVE UsedAddressHeld'
    BY <1>5, <1>6 DEF PluginAdd, PluginAddLost, AddNetwork
  <1>7. ASSUME NEW t \in Sandbox, PluginDel(t) PROVE UsedAddressHeld'
    <2>0. UNCHANGED addr /\ DelPending(t)
      BY <1>7, PluginDelCases
    <2>1. CASE UNCHANGED storeVars
      BY <1>1, <2>0, <2>1 DEF storeVars
    <2>2. ASSUME NEW l \in {Key(t), <<PodOf[t], NoContainer>>}, NEW n \in NIC,
                 UnassignPodIPv4Address(l, n)
          PROVE  UsedAddressHeld'
      <3>1. /\ l \in DOMAIN podsIP
            /\ DOMAIN podsIP' = DOMAIN podsIP \ {l}
            /\ \A k \in DOMAIN podsIP' : podsIP'[k] = podsIP[k]
        BY <1>0, <2>2, UnassignFacts DEF ReleaseEffect
      <3>2. l[1] = PodOf[t]
        BY <1>0
      <3>3. ASSUME NEW s \in Sandbox, Uses(s) PROVE PodOf[s] # PodOf[t]
        <4>1. sandbox[s] \in {"replied", "up"} /\ ~Done(s)
          BY <3>3 DEF SandboxInv, Done
        <4>2. sandbox[t] # "redeleting"
          BY <3>1 DEF NothingToRelease
        <4>3. s # t /\ ~Done(t)
          BY <2>0, <4>1, <4>2 DEF DelPending, Done
        <4> QED
          BY <4>1, <4>3 DEF SandboxInv
      <3> HIDE DEF Uses
      <3> QED
        BY <2>0, <3>1, <3>2, <3>3 DEF Uses
    <2> QED
      BY <1>7, <2>1, <2>2, PluginDelCases
  <1> QED
    BY <1>1, <1>2, <1>3, <1>4, <1>6, <1>7 DEF PodNext

\* Start-up ends with every address in use held, and it stays held.
LEMMA HeldStep ==
    ASSUME TypeInv, NICInv, SandboxInv, PodsComing, UsedAddressHeld, NothingToRelease,
           [Next]_vars
    PROVE  UsedAddressHeld'
  <1>1. CASE Dies
    BY <1>1 DEF Dies, ProcessDies, UsedAddressHeld, Serving
  <1>2. CASE StartUpStep /\ ~Serving /\ UNCHANGED nodeVars
    <2> SUFFICES ASSUME Serving' PROVE UsedAddressHeld'
      BY DEF UsedAddressHeld
    <2>0. pc \in [main : MainLabel, pool : PoolLabel] /\ UNCHANGED addr
      BY <1>2 DEF TypeInv, DaemonTypeOK, nodeVars
    <2>1. StartServing
      BY <1>2, <2>0 DEF StartUpStep, Boot, NextAttachedNIC, SetupNicAdd, SetupNicAddress,
         AttachedNICsDone, ListPods, RecoverPod, RuleListFails, AfterSetupNic, Goto, Serving,
         MainLabel, PoolLabel
    <2>2. pc.main = "recover" /\ todoPods = {} /\ UNCHANGED podsIP
      BY <2>1 DEF StartServing, storeVars
    <2> QED
      BY <2>0, <2>2 DEF PodsComing, HeldFor, TodoFor, Uses, UsedAddressHeld
  <1>3. CASE WorkStep /\ UNCHANGED nodeVars
    BY <1>3 DEF WorkStep, UsedAddressHeld, nodeVars
  <1>4. CASE PodNext
    <2>1. Serving' = Serving
      BY <1>4, PodFrame DEF DaemonFrame, Serving
    <2> QED
      BY <1>4, <2>1, PodHeld DEF UsedAddressHeld
  <1>5. CASE TimePasses
    BY <1>5 DEF TimePasses, Tick, daemonVars, UsedAddressHeld, Serving
  <1>6. CASE UNCHANGED vars
    BY <1>6 DEF vars, ipamVars, storeVars, daemonVars, nodeVars, UsedAddressHeld, Serving
  <1> QED
    BY <1>1, <1>2, <1>3, <1>4, <1>5, <1>6, StepKinds

\* AddNetwork gives out an address nobody uses: one in use is marked.
LEMMA DistinctStep ==
    ASSUME TypeInv, NICInv, SandboxInv, OwnerInv, UsedAddressHeld, NoDoubleUse, [Next]_vars
    PROVE  NoDoubleUse'
  <1> USE DEF NoDoubleUse
  <1>0. addr \in [Sandbox -> IP \cup {NoIP}]
    BY DEF TypeInv, NodeVarsOK
  <1>1. ASSUME NEW s \in Sandbox, PluginAdd(s) PROVE NoDoubleUse'
    <2>1. PICK n \in NIC, i \in IP : /\ Serving
                                     /\ Available(n, i)
                                     /\ addr' = [addr EXCEPT ![s] = i]
      BY <1>1 DEF PluginAdd, AddNetwork, AssignFresh
    <2>2. ASSUME NEW t \in Sandbox, addr[t] = i PROVE FALSE
      <3>1. PICK k \in DOMAIN podsIP : podsIP[k].IP = i
        BY <2>1, <2>2, NodeAssumption DEF UsedAddressHeld
      <3>2. <<n, podsIP[k].IP>> \in DOMAIN IPv4Addresses
        BY <2>1, <3>1 DEF Available
      <3>3. IPv4Addresses[<<n, podsIP[k].IP>>].Assigned
        BY <3>2, HeldIsMarked
      <3> QED
        BY <2>1, <3>1, <3>3 DEF Available
    <2> QED
      BY <1>0, <2>1, <2>2
  <1>2. ASSUME NEW s \in Sandbox, KillSandbox(s) \/ PluginSetupFails(s) PROVE NoDoubleUse'
    BY <1>0, <1>2 DEF KillSandbox, PluginSetupFails
  <1>3. ASSUME NEW s \in Sandbox, PluginDel(s) PROVE UNCHANGED addr
    BY <1>3, PluginDelCases
  <1>4. ASSUME NEW s \in Sandbox,
               \/ PublishStatus(s) \/ RunSandbox(s) \/ DeleteAgain(s) \/ PluginAddLost(s)
               \/ PluginAddRefused(s) \/ PluginAddUnreachable(s) \/ PluginSetup(s)
               \/ PluginCleanupUnreachable(s)
        PROVE  UNCHANGED addr
    BY <1>4 DEF PublishStatus, RunSandbox, DeleteAgain, PluginAddLost, PluginAddRefused,
                PluginAddUnreachable, PluginSetup, PluginCleanupUnreachable
  <1>5. ASSUME NEW p \in Pod, DeletePod(p) PROVE UNCHANGED addr
    BY <1>5 DEF DeletePod
  <1>6. CASE PodNext
    BY <1>1, <1>2, <1>3, <1>4, <1>5, <1>6 DEF PodNext
  <1>7. CASE ~PodNext
    <2>1. UNCHANGED addr
      BY <1>7, StepKinds DEF Dies, TimePasses, nodeVars, vars
    <2> QED
      BY <2>1
  <1> QED
    BY <1>6, <1>7

\* While the daemon serves, the store holds the NIC of an address in use, and
\* NICs of the store are attached; during start-up nothing changes in the cloud.
LEMMA AttachedStep ==
    ASSUME TypeInv, NICInv, SandboxInv, ApiShowsUse, UsedNICAttached, [Next]_vars,
           NICInv', OwnAddress', OwnerInv', SandboxInv', UsedAddressHeld'
    PROVE  UsedNICAttached'
  <1> SUFFICES ASSUME NEW s \in Sandbox, NEW n \in NIC, addr'[s] = AddrOf[n]
               PROVE  cloud'[n] = "attached"
    BY DEF UsedNICAttached
  <1>0. AddrOf[n] # NoIP
    BY CloudAssumption, NodeAssumption
  <1>1. CASE Serving'
    <2>1. PICK k \in DOMAIN podsIP' : podsIP'[k].IP = AddrOf[n]
      BY <1>0, <1>1 DEF UsedAddressHeld
    <2>2. PICK m \in DOMAIN nicIPPools' : <<m, AddrOf[n]>> \in AssignedAddresses'
      BY <2>1 DEF OwnerInv, Ownership, HoldsOn
    <2>3. <<m, AddrOf[n]>> \in DOMAIN IPv4Addresses'
      BY <2>2 DEF AssignedAddresses
    <2>4. AddrOf[n] = AddrOf[m]
      <3> DEFINE a == <<m, AddrOf[n]>>
      <3>1. a[1] = m /\ a[2] = AddrOf[n]
        OBVIOUS
      <3> HIDE DEF a
      <3> QED
        BY <2>3, <3>1 DEF OwnAddress, a
    <2>5. m \in NIC
      BY DEF OwnerInv, CountInv, FiniteTypeOK, StoreTypeOK
    <2>6. m = n
      BY <2>4, <2>5, CloudAssumption
    <2> QED
      BY <2>6 DEF NICInv, StoreNICAttached
  <1>2. CASE ~Serving'
    <2>1. UNCHANGED cloud /\ (Uses(s)' => addr'[s] = addr[s])
      <3>1. CASE Dies \/ (StartUpStep /\ UNCHANGED nodeVars) \/ TimePasses \/ UNCHANGED vars
        BY <3>1 DEF Dies, StartUpStep, Boot, NextAttachedNIC, SetupNicAdd, SetupNicAddress,
           AttachedNICsDone, ListPods, RecoverPod, RuleListFails, StartServing, TimePasses,
           vars, ipamVars, nodeVars
      <3>2. CASE PodNext
        <4>1. UNCHANGED cloud /\ ~Serving
          BY <1>2, <3>2, PodFrame DEF DaemonFrame, Serving
        <4> QED
          BY <3>2, <4>1, PodUnserved DEF Uses
      <3> QED
        BY <1>2, <3>1, <3>2, StepKinds DEF WorkStep
    <2> QED
      BY <1>0, <2>1 DEF UsedNICAttached, Uses
  <1> QED
    BY <1>1, <1>2

\* The invariant of the addresses in use, and what its steps ask of the
\* environment: a daemon that serves dies only while the API server is up to
\* date, a repeated deletion releases nothing, and the rules can be read when
\* there is something to recover.
UseInv ==
    /\ SandboxInv /\ OwnAddress /\ OwnerInv
    /\ ApiShowsUse /\ NICsComing /\ PodsComing
    /\ UsedAddressHeld /\ NoDoubleUse /\ UsedNICAttached

\* What a step must not do.
Orderly ==
    /\ Serving /\ ~Serving' => ApiCurrent
    /\ NothingToRelease
    /\ RuleListFails => \A s \in Sandbox : ~Uses(s)

\* A step that does none of this keeps the invariant.
LEMMA UseStep ==
    ASSUME TypeInv, NICInv, UseInv, [Next]_vars, Orderly
    PROVE  UseInv'
  <1> USE DEF UseInv, Orderly
  <1>1. NICInv'
    BY NICStep
  <1>2. SandboxInv' /\ OwnAddress'
    BY SandboxStep, OwnAddressStep
  <1>3. OwnerInv'
    BY OwnerStep
  <1>4. ApiShowsUse' /\ NICsComing' /\ PodsComing'
    BY ShownStep, NICsComingStep, PodsComingStep
  <1>5. UsedAddressHeld' /\ NoDoubleUse'
    BY HeldStep, DistinctStep
  <1>6. UsedNICAttached'
    BY <1>1, <1>2, <1>3, <1>5, AttachedStep
  <1> QED
    BY <1>2, <1>3, <1>4, <1>5, <1>6

\* At first no address is in use.
LEMMA UseInit == Init => UseInv
  <1> SUFFICES ASSUME Init PROVE UseInv
    OBVIOUS
  <1>1. /\ NewDataStore /\ todoPods = {}
        /\ pc = [main |-> "down", pool |-> "off"]
        /\ \A s \in Sandbox : addr[s] = NoIP /\ sandbox[s] = "none"
    BY DEF Init, IpamInit
  <1>2. \A p \in Pod : api[p].IP = NoIP
    <2>1. \A x \in Scheduled : x.IP = NoIP
      BY DEF Scheduled
    <2> QED
      BY <2>1 DEF Init
  <1>3. OwnerInv
    BY <1>1, OwnerInit
  <1>4. DOMAIN IPv4Addresses = {} /\ DOMAIN podsIP = {}
    BY <1>1 DEF NewDataStore
  <1>5. SandboxInv /\ OwnAddress /\ ApiShowsUse
    BY <1>1, <1>2, <1>4 DEF SandboxInv, Uses, Done, OwnAddress, ApiShowsUse
  <1>6. NICsComing /\ PodsComing
    BY <1>1, <1>4 DEF NICsComing, PodsComing
  <1>7. UsedAddressHeld /\ NoDoubleUse /\ UsedNICAttached
    BY <1>1, CloudAssumption, NodeAssumption
       DEF UsedAddressHeld, NoDoubleUse, UsedNICAttached, Serving
  <1> QED
    BY <1>3, <1>5, <1>6, <1>7 DEF UseInv

----------------------------------------------------------------------------
(* An environment in which the daemon may be killed *)

\* The daemon dies only while the API server is up to date, and comes as far as
\* reading the running pods; nothing finished is deleted again.
Careful == {"lag", "rules", "dupdel", "cloud", "slow"} \cap Faults = {}

\* No sandbox is deleted once more.
NoRedelete == \A s \in Sandbox : sandbox[s] # "redeleting"

\* Only the kubelet's garbage collection deletes a sandbox that is gone.
LEMMA NoRedeleteStep ==
    ASSUME "dupdel" \notin Faults, TypeInv, NoRedelete, [Next]_vars
    PROVE  NoRedelete'
  <1> USE DEF NoRedelete
  <1>0. sandbox \in [Sandbox -> SandboxState]
    BY DEF TypeInv, NodeVarsOK
  <1>1. ASSUME NEW s \in Sandbox, PluginDel(s)
        PROVE  \/ UNCHANGED sandbox
               \/ \E x \in {"failed", "gone"} : sandbox' = [sandbox EXCEPT ![s] = x]
    BY <1>1, PluginDelCases
  <1>2. CASE PodNext
    BY <1>0, <1>1, <1>2 DEF PodNext, DeletePod, PublishStatus, RunSandbox, KillSandbox,
       DeleteAgain, PluginAdd, PluginAddLost, PluginAddRefused, PluginAddUnreachable,
       PluginSetup, PluginSetupFails, PluginCleanupUnreachable
  <1>3. CASE UNCHANGED sandbox
    BY <1>3
  <1> QED
    BY <1>2, <1>3 DEF Next, DaemonListsPods, Crash, TimePasses, nodeVars, vars

\* Such an environment takes orderly steps only.
LEMMA CarefulOrderly ==
    ASSUME Careful, TypeInv, NICInv, NoRedelete, [Next]_vars
    PROVE  Orderly
  <1>1. ASSUME Serving, ~Serving' PROVE ApiCurrent
    <2>1. CASE PodNext
      BY <1>1, <2>1, PodFrame DEF DaemonFrame, Serving
    <2>2. CASE TimePasses \/ UNCHANGED vars
      BY <1>1, <2>2 DEF TimePasses, daemonVars, vars, ipamVars, Serving
    <2> QED
      BY <1>1, <2>1, <2>2, StepKinds DEF Careful, WorkStep, Crash, GiveUp
  <1>2. ~RuleListFails
    BY DEF Careful, RuleListFails
  <1> QED
    BY <1>1, <1>2 DEF Orderly, NoRedelete, NothingToRelease

\* So the invariant holds in it.
LEMMA CarefulInvariant ==
    ASSUME Careful
    PROVE  Spec => []UseInv
  <1>1. Init => NoRedelete
    BY DEF Init, NoRedelete
  <1>2. TypeInv /\ NoRedelete /\ [Next]_vars => NoRedelete'
    BY NoRedeleteStep DEF Careful
  <1>3. TypeInv /\ NICInv /\ NoRedelete /\ UseInv /\ [Next]_vars => UseInv'
    BY CarefulOrderly, UseStep
  <1> QED
    BY <1>1, <1>2, <1>3, UseInit, TypeInvariant, NICInvariant, PTL DEF Spec

----------------------------------------------------------------------------
(* An environment in which the daemon does not die once pods run *)

\* The daemon is not killed, and DescribeNic does not panic.
Quiet == MaxCrash = 0 /\ "cloud" \notin Faults

\* Until the configuration is written for the first time no pod has run.
NoPodYet ==
    /\ cniConfig => pc.main = "ready"
    /\ pc.main # "ready" => /\ \A s \in Sandbox : sandbox[s] = "none"
                            /\ \A p \in Pod : api[p].IP = NoIP
                            /\ DOMAIN podsIP = {}
                            /\ \A i \in IP : idle[i] = AgeCap
    /\ \A p \in todoPods : p.IP = NoIP

\* The sandbox of an entry of podsIP has been given an address and has not been
\* deleted.
LiveEntry(k) ==
    \E s \in Sandbox :
      k = Key(s) /\ sandbox[s] \in {"replied", "up", "cleanup", "failed", "deleting"}

\* Every entry is one of a sandbox; the first lookup of DelNetwork has failed
\* only for keys of sandboxes without an entry.
EntriesLive ==
    /\ \A k \in DOMAIN podsIP : LiveEntry(k)
    /\ \A k \in fallback : /\ k \notin DOMAIN podsIP
                           /\ \E s \in Sandbox : k = Key(s) /\ sandbox[s] \notin {"none", "adding"}

\* The invariant of a daemon that is not killed, besides UseInv.
QuietInv == NoPodYet /\ EntriesLive

\* The key of a request names one sandbox, and is not the key of a pod's name alone.
LEMMA KeyFacts ==
    ASSUME NEW s \in Sandbox
    PROVE  /\ Key(s) # <<PodOf[s], NoContainer>>
           /\ \A t \in Sandbox : /\ Key(s) = Key(t) => s = t
                                 /\ Key(t) # <<PodOf[s], NoContainer>>
  BY NodeAssumption DEF Key

\* Without a configuration, in a daemon that was never killed, nothing happens
\* to pods.
LEMMA NoPodStep ==
    ASSUME Quiet, TypeInv, NoPodYet, PodNext, pc.main # "ready"
    PROVE  FALSE
  <1>1. crashes = 0 /\ ~cniConfig
    BY DEF Quiet, TypeInv, NodeVarsOK, NoPodYet
  <1>2. \A s \in Sandbox : sandbox[s] = "none"
    BY DEF NoPodYet
  <1>3. ASSUME NEW p \in Pod, DeletePod(p) PROVE FALSE
    BY <1>2, <1>3 DEF DeletePod, Over
  <1>4. ASSUME NEW s \in Sandbox, PublishStatus(s) \/ RunSandbox(s) \/ KillSandbox(s)
        PROVE  FALSE
    BY <1>1, <1>2, <1>4 DEF PublishStatus, RunSandbox, KillSandbox
  <1>5. ASSUME NEW s \in Sandbox,
               \/ DeleteAgain(s) \/ PluginAdd(s) \/ PluginAddLost(s) \/ PluginAddRefused(s)
               \/ PluginAddUnreachable(s) \/ PluginSetup(s) \/ PluginSetupFails(s)
               \/ PluginCleanupUnreachable(s) \/ PluginDel(s)
        PROVE  FALSE
    BY <1>2, <1>5 DEF DeleteAgain, PluginAdd, PluginAddLost, PluginAddRefused,
       PluginAddUnreachable, PluginSetup, PluginSetupFails, PluginCleanupUnreachable,
       PluginDel, DelPending
  <1> QED
    BY <1>3, <1>4, <1>5 DEF PodNext

\* No pod runs before the configuration is written.
LEMMA NoPodYetStep ==
    ASSUME Quiet, TypeInv, NICInv, SandboxInv, NoPodYet, [Next]_vars
    PROVE  NoPodYet'
  <1> USE DEF NoPodYet
  <1>0. /\ pc \in [main : MainLabel, pool : PoolLabel]
        /\ StoreTypeOK
        /\ crashes = 0
    BY CountTypes DEF TypeInv, DaemonTypeOK, NodeVarsOK, Quiet
  <1>1. CASE Dies /\ (Serving => Crash \/ GiveUp \/ "cloud" \in Faults)
    <2>1. pc.main # "ready"
      BY <1>0, <1>1 DEF Quiet, Crash, GiveUp, Serving
    <2> QED
      BY <1>1, <2>1 DEF Dies, ProcessDies
  <1>2. CASE StartUpStep /\ ~Serving /\ UNCHANGED nodeVars
    <2>0. pc.main # "ready" /\ UNCHANGED <<sandbox, api, idle>>
      BY <1>2 DEF Serving, nodeVars
    <2>1. CASE RecoverPod
      <3>1. PICK p \in todoPods :
              /\ todoPods' = todoPods \ {p}
              /\ LET k == <<p.pod, p.container>>
                     Carriers == {n \in NIC : <<n, p.IP>> \in DOMAIN IPv4Addresses}
                 IN  IF k \notin DOMAIN podsIP /\ Carriers # {}
                       THEN \E n \in Carriers : Reassign(k, n, p.IP)
                       ELSE UNCHANGED storeVars
        BY <2>1 DEF RecoverPod
      <3>2. \A n \in NIC : <<n, p.IP>> \notin DOMAIN IPv4Addresses
        BY <1>0, <3>1, NodeAssumption DEF StoreTypeOK
      <3>3. UNCHANGED storeVars
        BY <3>1, <3>2
      <3> QED
        BY <2>0, <2>1, <3>1, <3>3 DEF RecoverPod, storeVars
    <2>2. CASE ListPods(CurrentNodePods)
      <3>1. \A p \in CurrentNodePods : p.IP = NoIP
        BY <2>0 DEF CurrentNodePods
      <3> QED
        BY <1>0, <2>0, <2>2, <3>1 DEF ListPods, Goto, storeVars, MainLabel, PoolLabel
    <2>3. CASE Boot \/ NextAttachedNIC \/ AttachedNICsDone \/ RuleListFails \/ StartServing
      BY <1>0, <2>0, <2>3 DEF Boot, NextAttachedNIC, AttachedNICsDone, RuleListFails,
         StartServing, Goto, storeVars, MainLabel, PoolLabel
    <2>4. CASE SetupNicAdd("main") \/ SetupNicAddress("main")
      BY <1>0, <2>0, <2>4 DEF SetupNicAdd, SetupNicAddress, AfterSetupNic, AddNIC,
         AddIPv4AddressFromStore, Goto, storeVars, MainLabel, PoolLabel
    <2> QED
      BY <1>2, <2>1, <2>2, <2>3, <2>4 DEF StartUpStep
  <1>3. CASE WorkStep /\ UNCHANGED nodeVars
    BY <1>3 DEF WorkStep, nodeVars
  <1>4. CASE PodNext
    <2>1. pc.main = "ready" /\ UNCHANGED <<pc, todoPods, cniConfig>>
      BY <1>4, NoPodStep, PodFrame DEF DaemonFrame
    <2> QED
      BY <2>1
  <1>5. CASE TimePasses
    <2>1. UNCHANGED <<pc, cniConfig, todoPods, podsIP, sandbox, api>>
      BY <1>5 DEF TimePasses, Tick, daemonVars
    <2>2. ASSUME pc.main # "ready", NEW i \in IP
          PROVE  idle'[i] = AgeCap
      <3>1. \A s \in Sandbox : addr[s] = NoIP
        BY <2>2 DEF SandboxInv, Uses
      <3>2. idle[i] = AgeCap /\ ~\E s \in Sandbox : addr[s] = i
        BY <2>2, <3>1, NodeAssumption
      <3>3. idle'[i] = Older(idle[i])
        BY <1>5, <3>2 DEF TimePasses
      <3> QED
        BY <3>2, <3>3, AgeCapAssumption DEF Older
    <2> QED
      BY <2>1, <2>2
  <1>6. CASE UNCHANGED vars
    BY <1>6 DEF vars, ipamVars, storeVars, daemonVars, nodeVars
  <1> QED
    BY <1>1, <1>2, <1>3, <1>4, <1>5, <1>6, StepKinds

\* A sandbox with an entry keeps it until DelNetwork has released it, and then
\* the deletion replies.
LEMMA PluginDelLive ==
    ASSUME TypeInv, OwnerInv, EntriesLive, NEW s \in Sandbox, PluginDel(s)
    PROVE  EntriesLive'
  <1> DEFINE k == Key(s)
  <1>0. /\ sandbox \in [Sandbox -> SandboxState]
        /\ StoreTypeOK
        /\ sandbox[s] \in {"cleanup", "deleting", "redeleting"}
    BY CountTypes DEF TypeInv, NodeVarsOK, PluginDel, DelPending
  <1>1. /\ k = Key(s) /\ k[1] = PodOf[s]
        /\ <<PodOf[s], NoContainer>> \notin DOMAIN podsIP
    BY KeyFacts DEF EntriesLive, LiveEntry, Key
  <1> HIDE DEF k
  <1>2. ASSUME UNCHANGED sandbox \/ DelReply(s)
        PROVE  /\ \A t \in Sandbox : t # s => sandbox'[t] = sandbox[t]
               /\ sandbox'[s] \notin {"none", "adding"}
    BY <1>0, <1>2 DEF DelReply
  <1>3. ASSUME UNCHANGED sandbox \/ DelReply(s),
               DOMAIN podsIP' \subseteq DOMAIN podsIP,
               k \in DOMAIN podsIP' => UNCHANGED sandbox,
               \A l \in fallback' : l = k \/ l \in fallback,
               k \in fallback' => k \notin DOMAIN podsIP'
        PROVE  EntriesLive'
    <2>1. ASSUME NEW l \in DOMAIN podsIP' PROVE LiveEntry(l)'
      <3>1. PICK t \in Sandbox :
              l = Key(t) /\ sandbox[t] \in {"replied", "up", "cleanup", "failed", "deleting"}
        BY <1>3, <2>1 DEF EntriesLive, LiveEntry
      <3>2. sandbox'[t] = sandbox[t]
        BY <1>1, <1>2, <1>3, <2>1, <3>1
      <3> QED
        BY <3>1, <3>2 DEF LiveEntry, Key
    <2>2. ASSUME NEW l \in fallback'
          PROVE  /\ l \notin DOMAIN podsIP'
                 /\ \E t \in Sandbox : l = Key(t) /\ sandbox'[t] \notin {"none", "adding"}
      <3>1. CASE l = k
        BY <1>1, <1>2, <1>3, <2>2, <3>1
      <3>2. CASE l \in fallback
        <4>1. PICK t \in Sandbox : l = Key(t) /\ sandbox[t] \notin {"none", "adding"}
          BY <3>2 DEF EntriesLive
        <4>2. sandbox'[t] \notin {"none", "adding"}
          BY <1>2, <1>3, <4>1
        <4> QED
          BY <1>3, <3>2, <4>1, <4>2 DEF EntriesLive
      <3> QED
        BY <1>3, <2>2, <3>1, <3>2
    <2> QED
      BY <2>1, <2>2 DEF EntriesLive, LiveEntry, Key
  <1>4. CASE DelNetworkUnknown(k) /\ UNCHANGED sandbox
    BY <1>3, <1>4 DEF DelNetworkUnknown, storeVars
  <1>5. CASE DelNetwork(k) /\ DelReply(s)
    <2>1. PICK n \in NIC : UnassignPodIPv4Address(k, n)
      BY <1>5 DEF DelNetwork
    <2>2. DOMAIN podsIP' = DOMAIN podsIP \ {k}
      BY <1>0, <2>1, UnassignFacts DEF ReleaseEffect
    <2> QED
      BY <1>3, <1>5, <2>2 DEF DelNetwork
  <1>6. CASE DelNetworkByName(k)
    BY <1>1, <1>6 DEF DelNetworkByName, UnassignPodIPv4Address, HoldsOn
  <1>7. CASE DelNetworkUnhealthy(k) /\ DelReply(s)
    BY <1>3, <1>7 DEF DelNetworkUnhealthy, EntriesLive, storeVars
  <1>8. CASE DelNetworkUnknownIP(k)
    <2>1. PICK l \in DOMAIN podsIP : \A n \in NIC : ~HoldsOn(l, n)
      BY <1>8 DEF DelNetworkUnknownIP
    <2>2. DOMAIN nicIPPools \subseteq NIC
      BY <1>0 DEF StoreTypeOK
    <2> QED
      BY <2>1, <2>2 DEF OwnerInv, Ownership
  <1> QED
    BY <1>1, <1>4, <1>5, <1>6, <1>7, <1>8 DEF PluginDel

\* An address is recorded for a sandbox that is being added, and its entry goes
\* when it is deleted.
LEMMA PodEntriesLive ==
    ASSUME TypeInv, OwnerInv, EntriesLive, Serving, PodNext
    PROVE  EntriesLive'
  <1>0. sandbox \in [Sandbox -> SandboxState]
    BY DEF TypeInv, NodeVarsOK
  <1> DEFINE Live == {"replied", "up", "cleanup", "failed", "deleting"}
  <1>1. ASSUME UNCHANGED <<podsIP, fallback>>,
               \A s \in Sandbox : /\ sandbox[s] \in Live => sandbox'[s] \in Live
                                  /\ sandbox[s] \notin {"none", "adding"} =>
                                       sandbox'[s] \notin {"none", "adding"}
        PROVE  EntriesLive'
    <2>1. ASSUME NEW l \in DOMAIN podsIP PROVE LiveEntry(l)'
      BY <1>1, <2>1 DEF EntriesLive, LiveEntry, Key
    <2>2. ASSUME NEW l \in fallback
          PROVE  \E t \in Sandbox : l = Key(t) /\ sandbox'[t] \notin {"none", "adding"}
      BY <1>1, <2>2 DEF EntriesLive
    <2> QED
      BY <1>1, <2>1, <2>2 DEF EntriesLive, Key
  <1>2. ASSUME NEW p \in Pod, DeletePod(p) PROVE EntriesLive'
    BY <1>1, <1>2 DEF DeletePod, ipamVars, storeVars, daemonVars
  <1>3. ASSUME NEW s \in Sandbox, PublishStatus(s) \/ RunSandbox(s) \/ KillSandbox(s)
        PROVE  EntriesLive'
    BY <1>0, <1>1, <1>3 DEF PublishStatus, RunSandbox, KillSandbox, ipamVars, storeVars,
                            daemonVars
  <1>4. ASSUME NEW s \in Sandbox,
               DeleteAgain(s) \/ PluginAddRefused(s) \/ PluginAddUnreachable(s)
        PROVE  EntriesLive'
    BY <1>0, <1>1, <1>4 DEF DeleteAgain, PluginAddRefused, AddNetworkRefused,
                            PluginAddUnreachable, ipamVars, storeVars, daemonVars
  <1>5. ASSUME NEW s \in Sandbox,
               PluginSetup(s) \/ PluginSetupFails(s) \/ PluginCleanupUnreachable(s)
        PROVE  EntriesLive'
    BY <1>0, <1>1, <1>5 DEF PluginSetup, PluginSetupFails, PluginCleanupUnreachable, ipamVars,
                            storeVars, daemonVars
  <1>6. ASSUME NEW s \in Sandbox, PluginAdd(s) \/ PluginAddLost(s)
        PROVE  EntriesLive'
    <2> DEFINE k == Key(s)
    <2>1. PICK n \in NIC, i \in IP : AssignFresh(k, n, i) /\ UNCHANGED fallback
      BY <1>6 DEF PluginAdd, PluginAddLost, AddNetwork
    <2>2. DOMAIN podsIP' = DOMAIN podsIP \cup {k}
      BY <2>1 DEF AssignFresh, RecordPod, Put
    <2>3. /\ sandbox[s] = "adding"
          /\ sandbox'[s] \in Live
          /\ \A t \in Sandbox : t # s => sandbox'[t] = sandbox[t]
      BY <1>0, <1>6 DEF PluginAdd, PluginAddLost
    <2>4. k = Key(s) /\ k \notin fallback
      BY <2>3, KeyFacts DEF EntriesLive
    <2> HIDE DEF k
    <2>5. LiveEntry(k)'
      BY <2>3, <2>4 DEF LiveEntry, Key
    <2>6. ASSUME NEW l \in DOMAIN podsIP PROVE LiveEntry(l)'
      <3>1. PICK t \in Sandbox : l = Key(t) /\ sandbox[t] \in Live
        BY <2>6 DEF EntriesLive, LiveEntry
      <3>2. sandbox'[t] = sandbox[t]
        BY <2>3, <3>1
      <3> QED
        BY <3>1, <3>2 DEF LiveEntry, Key
    <2>7. ASSUME NEW l \in fallback
          PROVE  /\ l \notin DOMAIN podsIP'
                 /\ \E t \in Sandbox : l = Key(t) /\ sandbox'[t] \notin {"none", "adding"}
      <3>1. PICK t \in Sandbox : l = Key(t) /\ sandbox[t] \notin {"none", "adding"}
        BY <2>7 DEF EntriesLive
      <3>2. sandbox'[t] = sandbox[t]
        BY <2>3, <3>1
      <3> QED
        BY <2>2, <2>4, <2>7, <3>1, <3>2 DEF EntriesLive
    <2> QED
      BY <2>1, <2>2, <2>5, <2>6, <2>7 DEF EntriesLive, Key
  <1> QED
    BY <1>2, <1>3, <1>4, <1>5, <1>6, PluginDelLive DEF PodNext

\* No entry outlives its sandbox.
LEMMA EntriesLiveStep ==
    ASSUME Quiet, TypeInv, NICInv, SandboxInv, OwnerInv, NoPodYet, EntriesLive, [Next]_vars
    PROVE  EntriesLive'
  <1> USE DEF EntriesLive, LiveEntry, Key
  <1>0. NoPodYet'
    BY NoPodYetStep
  <1>1. CASE Dies
    BY <1>1 DEF Dies, ProcessDies
  <1>2. CASE StartUpStep /\ ~Serving /\ UNCHANGED nodeVars
    <2>1. UNCHANGED <<fallback, sandbox>>
      BY <1>2 DEF StartUpStep, Boot, NextAttachedNIC, SetupNicAdd, SetupNicAddress,
         AttachedNICsDone, ListPods, RecoverPod, RuleListFails, StartServing, nodeVars
    <2>2. fallback = {} /\ \A s \in Sandbox : sandbox[s] = "none"
      BY <1>2 DEF NoPodYet, Serving
    <2>3. DOMAIN podsIP' = {}
      <3>1. pc'.main # "ready"
        BY <1>2, StartUpNotReady
      <3> QED
        BY <1>0, <3>1 DEF NoPodYet
    <2> QED
      BY <2>1, <2>2, <2>3
  <1>3. CASE WorkStep /\ UNCHANGED nodeVars
    BY <1>3 DEF WorkStep, nodeVars
  <1>4. CASE PodNext
    BY <1>4, NoPodStep, PodEntriesLive DEF Serving
  <1>5. CASE TimePasses
    BY <1>5 DEF TimePasses, Tick, daemonVars
  <1>6. CASE UNCHANGED vars
    BY <1>6 DEF vars, ipamVars, storeVars, daemonVars, nodeVars
  <1> QED
    BY <1>1, <1>2, <1>3, <1>4, <1>5, <1>6, StepKinds

\* The first start-up recovers nothing, and only it may be cut short; a
\* repeated deletion finds its entry gone.
LEMMA QuietOrderly ==
    ASSUME Quiet, TypeInv, NICInv, SandboxInv, QuietInv, [Next]_vars
    PROVE  Orderly
  <1>1. ASSUME Serving, ~Serving' PROVE ApiCurrent
    <2>1. CASE PodNext
      BY <1>1, <2>1, PodFrame DEF DaemonFrame, Serving
    <2>2. CASE TimePasses \/ UNCHANGED vars
      BY <1>1, <2>2 DEF TimePasses, daemonVars, vars, ipamVars, Serving
    <2>3. ~Crash
      BY DEF Quiet, TypeInv, NodeVarsOK, Crash
    <2>4. CASE GiveUp
      BY <2>4 DEF GiveUp, QuietInv, NoPodYet, ApiCurrent
    <2> QED
      BY <1>1, <2>1, <2>2, <2>3, <2>4, StepKinds DEF Quiet, WorkStep
  <1>2. NothingToRelease
    <2>1. ASSUME NEW t \in Sandbox, sandbox[t] = "redeleting", Key(t) \in DOMAIN podsIP
          PROVE  FALSE
      BY <2>1, KeyFacts DEF QuietInv, EntriesLive, LiveEntry
    <2>2. ASSUME NEW t \in Sandbox, <<PodOf[t], NoContainer>> \in DOMAIN podsIP
          PROVE  FALSE
      BY <2>2, KeyFacts DEF QuietInv, EntriesLive, LiveEntry
    <2> QED
      BY <2>1, <2>2 DEF NothingToRelease
  <1>3. RuleListFails => \A s \in Sandbox : ~Uses(s)
    BY DEF RuleListFails, QuietInv, NoPodYet, SandboxInv
  <1> QED
    BY <1>1, <1>2, <1>3 DEF Orderly

\* At first there are no pods.
LEMMA QuietInit == Init => QuietInv
  <1> SUFFICES ASSUME Init PROVE QuietInv
    OBVIOUS
  <1>1. \A x \in Scheduled : x.IP = NoIP
    BY DEF Scheduled
  <1>2. \A p \in Pod : api[p].IP = NoIP
    BY <1>1 DEF Init
  <1> QED
    BY <1>2 DEF Init, IpamInit, NewDataStore, QuietInv, NoPodYet, EntriesLive

\* The two invariants hold together: the first needs the second to see that the
\* steps are orderly.
LEMMA QuietInvariant ==
    ASSUME Quiet
    PROVE  Spec => [](UseInv /\ QuietInv)
  <1>1. TypeInv /\ NICInv /\ UseInv /\ QuietInv /\ [Next]_vars => UseInv' /\ QuietInv'
    <2> SUFFICES ASSUME TypeInv, NICInv, UseInv, QuietInv, [Next]_vars
                 PROVE  UseInv' /\ QuietInv'
      OBVIOUS
    <2>1. UseInv'
      BY QuietOrderly, UseStep DEF UseInv
    <2> QED
      BY <2>1, NoPodYetStep, EntriesLiveStep DEF UseInv, QuietInv
  <1> QED
    BY <1>1, UseInit, QuietInit, TypeInvariant, NICInvariant, PTL DEF Spec

----------------------------------------------------------------------------
(* The theorems *)

\* Under either condition the invariant of the addresses in use holds.
LEMMA UseInvariant ==
    ASSUME Quiet \/ Careful
    PROVE  Spec => []UseInv
  <1>1. CASE Quiet
    BY <1>1, QuietInvariant, PTL
  <1>2. CASE Careful
    BY <1>2, CarefulInvariant
  <1> QED
    BY <1>1, <1>2

\* While the daemon serves, the address of every running sandbox is held in its
\* store (UsedAddressHeld): AddNetwork records what it gives out, DelNetwork
\* releases only what is no longer used, and prepareLocalPods records the
\* addresses of the pods it finds.  Either nothing kills a daemon pods run
\* under, or it dies while the API server is up to date, reaches the end of
\* prepareLocalPods when it starts again, and no sandbox is deleted once more.
THEOREM UsedAddressHeldCorrect ==
    ASSUME Quiet \/ Careful
    PROVE  Spec => []UsedAddressHeld
  <1>1. UseInv => UsedAddressHeld
    BY DEF UseInv
  <1> QED
    BY <1>1, UseInvariant, PTL

\* Two running sandboxes never use one address (NoDoubleUse), under the same
\* conditions: AddNetwork gives out an address that is held by no pod.
THEOREM NoDoubleUseCorrect ==
    ASSUME Quiet \/ Careful
    PROVE  Spec => []NoDoubleUse
  <1>1. UseInv => NoDoubleUse
    BY DEF UseInv
  <1> QED
    BY <1>1, UseInvariant, PTL

\* The NIC of an address in use stays attached (UsedNICAttached), under the
\* same conditions: decreaseIPPool deletes a NIC the store counts no assigned
\* address on, and setup() finds the NICs that are attached.
THEOREM UsedNICAttachedCorrect ==
    ASSUME Quiet \/ Careful
    PROVE  Spec => []UsedNICAttached
  <1>1. UseInv => UsedNICAttached
    BY DEF UseInv
  <1> QED
    BY <1>1, UseInvariant, PTL

\* In a daemon that is not killed every entry of podsIP belongs to a sandbox
\* whose deletion has not completed (NoLeakedAddress): DelNetwork releases the
\* address of its sandbox, also where the reply of AddNetwork or of an earlier
\* DelNetwork was lost or the interface could not be set up.
THEOREM NoLeakedAddressCorrect ==
    ASSUME Quiet
    PROVE  Spec => []NoLeakedAddress
  <1>1. QuietInv => NoLeakedAddress
    BY DEF QuietInv, EntriesLive, LiveEntry, NoLeakedAddress
  <1> QED
    BY <1>1, QuietInvariant, PTL

----------------------------------------------------------------------------
(* Cooling *)

\* An address is held, or has cooled, or the store has seen its release no
\* earlier than its use ended.
Cool(i) ==
    \/ \E k \in DOMAIN podsIP : podsIP[k].IP = i
    \/ idle[i] > addressCoolingPeriod
    \/ \E n \in NIC : /\ <<n, i>> \in DOMAIN IPv4Addresses
                      /\ IPv4Addresses[<<n, i>>].unassignedAge <= idle[i]

\* So it is of every address.
CoolInv == \A i \in IP : Cool(i)

\* The ages a comparison of Cool is about are natural numbers.
LEMMA CoolTypes ==
    ASSUME TypeInv, NEW i \in IP
    PROVE  /\ idle[i] \in Age
           /\ \A a \in DOMAIN IPv4Addresses : IPv4Addresses[a].unassignedAge \in Age
           /\ Age \subseteq Nat
  <1>1. StoreTypeOK
    BY CountTypes DEF TypeInv
  <1>2. \A a \in DOMAIN IPv4Addresses : IPv4Addresses[a] \in AddressInfo
    BY <1>1 DEF StoreTypeOK
  <1> QED
    BY <1>2 DEF TypeInv, NodeVarsOK, AddressInfo, Age

\* The pool manager takes only NICs out of the store that have been cold for
\* longer than an address has to cool.
LEMMA WorkCool ==
    ASSUME addressNICCoolingPeriod > addressCoolingPeriod,
           TypeInv, OwnerInv, WorkStep, UNCHANGED nodeVars, NEW i \in IP, Cool(i)
    PROVE  Cool(i)'
  <1>0. StoreTypeOK
    BY CountTypes DEF TypeInv
  <1>1. UNCHANGED <<podsIP, idle>>
    BY DEF WorkStep, nodeVars
  <1>2. CASE (\E k \in DOMAIN podsIP : podsIP[k].IP = i) \/ idle[i] > addressCoolingPeriod
    BY <1>1, <1>2 DEF Cool
  <1>3. ASSUME NEW n \in NIC, <<n, i>> \in DOMAIN IPv4Addresses,
               IPv4Addresses[<<n, i>>].unassignedAge <= idle[i]
        PROVE  Cool(i)'
    <2> DEFINE a == <<n, i>>
    <2>0. a = <<n, i>> /\ a[1] = n
      OBVIOUS
    <2> HIDE DEF a
    <2>1. CASE UNCHANGED IPv4Addresses
      BY <1>1, <1>3, <2>1 DEF Cool
    <2>2. ASSUME NEW m \in NIC, AddIPv4AddressFromStore(m, AddrOf[m])
          PROVE  Cool(i)'
      <3>1. a \in DOMAIN IPv4Addresses' /\ IPv4Addresses'[a] = IPv4Addresses[a]
        BY <1>3, <2>0, <2>2 DEF AddIPv4AddressFromStore, Put
      <3> QED
        BY <1>1, <1>3, <2>0, <3>1 DEF Cool
    <2>3. ASSUME NEW m \in NIC, RemoveUnusedNICFromStore(m)
          PROVE  Cool(i)'
      <3>1. CASE m = n
        <4>1. nicIPPools[n].lastUnassignedAge >= addressNICCoolingPeriod
          BY <2>3, <3>1 DEF RemoveUnusedNICFromStore, Deletable
        <4>2. IPv4Addresses[a].unassignedAge >= nicIPPools[n].lastUnassignedAge
          BY <1>3, <2>0 DEF OwnerInv, ReleaseTimes
        <4>3. /\ IPv4Addresses[a].unassignedAge \in Nat
              /\ nicIPPools[n].lastUnassignedAge \in Nat
              /\ idle[i] \in Nat
          <5>1. n \in DOMAIN nicIPPools
            BY <2>3, <3>1 DEF RemoveUnusedNICFromStore, Deletable
          <5>2. nicIPPools[n] \in NICIPPool
            BY <1>0, <5>1 DEF StoreTypeOK
          <5> QED
            BY <1>3, <2>0, <5>2, CoolTypes DEF NICIPPool, Age
        <4>4. idle[i] > addressCoolingPeriod
          BY <1>3, <2>0, <4>1, <4>2, <4>3, PeriodAssumption
        <4> QED
          BY <1>1, <4>4 DEF Cool
      <3>2. CASE m # n
        <4>1. a \in DOMAIN IPv4Addresses' /\ IPv4Addresses'[a] = IPv4Addresses[a]
          BY <1>0, <1>3, <2>0, <2>3, <3>2, DropNICFacts
             DEF RemoveUnusedNICFromStore, AddressesOf
        <4> QED
          BY <1>1, <1>3, <2>0, <4>1 DEF Cool
      <3> QED
        BY <3>1, <3>2
    <2> QED
      BY <2>1, <2>2, <2>3 DEF WorkStep
  <1> QED
    BY <1>2, <1>3 DEF Cool

\* An address that is killed with its sandbox is held, and its release by
\* DelNetwork sets the time the store measures from.
LEMMA PodCool ==
    ASSUME TypeInv, OwnerInv, UsedAddressHeld, Serving, PodNext, NEW i \in IP, Cool(i)
    PROVE  Cool(i)'
  <1>0. StoreTypeOK
    BY CountTypes DEF TypeInv
  <1>1. CASE UNCHANGED <<storeVars, idle>>
    BY <1>1 DEF Cool, storeVars
  <1>2. ASSUME NEW p \in Pod, DeletePod(p) PROVE UNCHANGED <<storeVars, idle>>
    BY <1>2 DEF DeletePod, ipamVars
  <1>3. ASSUME NEW s \in Sandbox,
               \/ PublishStatus(s) \/ RunSandbox(s) \/ DeleteAgain(s) \/ PluginAddRefused(s)
               \/ PluginAddUnreachable(s) \/ PluginSetup(s) \/ PluginSetupFails(s)
               \/ PluginCleanupUnreachable(s)
        PROVE  UNCHANGED <<storeVars, idle>>
    BY <1>3 DEF PublishStatus, RunSandbox, DeleteAgain, PluginAddRefused, AddNetworkRefused,
                PluginAddUnreachable, PluginSetup, PluginSetupFails,
                PluginCleanupUnreachable, ipamVars
  <1>4. ASSUME NEW s \in Sandbox, KillSandbox(s) PROVE Cool(i)'
    <2>1. UNCHANGED <<podsIP, IPv4Addresses>>
      BY <1>4 DEF KillSandbox, ipamVars, storeVars
    <2>2. CASE addr[s] = i
      <3>1. \E k \in DOMAIN podsIP : podsIP[k].IP = i
        BY <2>2, NodeAssumption DEF UsedAddressHeld
      <3> QED
        BY <2>1, <3>1 DEF Cool
    <2>3. CASE addr[s] # i
      <3>1. idle'[i] = idle[i]
        BY <1>4, <2>3 DEF KillSandbox
      <3> QED
        BY <2>1, <3>1 DEF Cool
    <2> QED
      BY <2>2, <2>3
  <1>5. ASSUME NEW s \in Sandbox, PluginAdd(s) \/ PluginAddLost(s) PROVE Cool(i)'
    <2>1. PICK n \in NIC, j \in IP : AssignFresh(Key(s), n, j) /\ UNCHANGED idle
      BY <1>5 DEF PluginAdd, PluginAddLost, AddNetwork
    <2> DEFINE l == Key(s)
    <2>2. AssignFresh(l, n, j)
      BY <2>1
    <2> HIDE DEF l
    <2>3. /\ \A k \in DOMAIN podsIP : k \in DOMAIN podsIP' /\ podsIP'[k] = podsIP[k]
          /\ DOMAIN IPv4Addresses' = DOMAIN IPv4Addresses
          /\ \A a \in DOMAIN IPv4Addresses :
               IPv4Addresses'[a].unassignedAge = IPv4Addresses[a].unassignedAge
      BY <1>0, <2>2, IncrementFacts DEF AssignFresh, Available, RecordPod, Put
    <2> QED
      BY <2>1, <2>3 DEF Cool
  <1>6. ASSUME NEW s \in Sandbox, PluginDel(s) PROVE Cool(i)'
    <2>0. UNCHANGED idle
      BY <1>6, PluginDelCases
    <2>1. CASE UNCHANGED storeVars
      BY <1>1, <2>0, <2>1
    <2>2. ASSUME NEW l, NEW n \in NIC, UnassignPodIPv4Address(l, n)
          PROVE  Cool(i)'
      <3> DEFINE b == <<n, podsIP[l].IP>>
      <3>1. /\ b \in DOMAIN IPv4Addresses
            /\ DOMAIN IPv4Addresses' = DOMAIN IPv4Addresses
            /\ \A a \in DOMAIN IPv4Addresses :
                 IPv4Addresses'[a].unassignedAge =
                   IF a = b THEN 0 ELSE IPv4Addresses[a].unassignedAge
            /\ DOMAIN podsIP' = DOMAIN podsIP \ {l}
            /\ \A k \in DOMAIN podsIP' : podsIP'[k] = podsIP[k]
        BY <1>0, <2>2, UnassignFacts DEF ReleaseEffect, AssignedAddresses
      <3>2. idle[i] \in Nat
        BY CoolTypes
      <3>3. CASE podsIP[l].IP = i
        <4>1. IPv4Addresses'[<<n, i>>].unassignedAge = 0
          BY <3>1, <3>3
        <4> QED
          BY <2>0, <3>1, <3>2, <3>3, <4>1 DEF Cool
      <3>4. CASE podsIP[l].IP # i
        <4>1. CASE \E k \in DOMAIN podsIP : podsIP[k].IP = i
          <5>1. PICK k \in DOMAIN podsIP : podsIP[k].IP = i
            BY <4>1
          <5>2. k \in DOMAIN podsIP' /\ podsIP'[k].IP = i
            BY <3>1, <3>4, <5>1
          <5> QED
            BY <5>2 DEF Cool
        <4>2. CASE idle[i] > addressCoolingPeriod
          BY <2>0, <4>2 DEF Cool
        <4>3. ASSUME NEW m \in NIC, <<m, i>> \in DOMAIN IPv4Addresses,
                     IPv4Addresses[<<m, i>>].unassignedAge <= idle[i]
              PROVE  Cool(i)'
          <5>1. <<m, i>> # b
            BY <3>4
          <5>2. /\ <<m, i>> \in DOMAIN IPv4Addresses'
                /\ IPv4Addresses'[<<m, i>>].unassignedAge <= idle[i]
            BY <3>1, <4>3, <5>1
          <5> QED
            BY <2>0, <5>2 DEF Cool
        <4> QED
          BY <4>1, <4>2, <4>3 DEF Cool
      <3> QED
        BY <3>3, <3>4
    <2> QED
      BY <1>6, <2>1, <2>2, PluginDelCases
  <1> QED
    BY <1>1, <1>2, <1>3, <1>4, <1>5, <1>6 DEF PodNext

\* The store's clock and the sandboxes' tick together.
LEMMA TickCool ==
    ASSUME TypeInv, UsedAddressHeld, Serving, TimePasses, NEW i \in IP, Cool(i)
    PROVE  Cool(i)'
  <1>0. StoreTypeOK
    BY CountTypes DEF TypeInv
  <1>1. /\ UNCHANGED podsIP
        /\ DOMAIN IPv4Addresses' = DOMAIN IPv4Addresses
        /\ \A a \in DOMAIN IPv4Addresses :
             IPv4Addresses'[a].unassignedAge = Older(IPv4Addresses[a].unassignedAge)
    BY <1>0, TickFacts DEF TimePasses
  <1>2. CASE \E s \in Sandbox : addr[s] = i
    <2>1. \E k \in DOMAIN podsIP : podsIP[k].IP = i
      BY <1>2, NodeAssumption DEF UsedAddressHeld
    <2> QED
      BY <1>1, <2>1 DEF Cool
  <1>3. CASE ~\E s \in Sandbox : addr[s] = i
    <2>1. idle'[i] = Older(idle[i])
      BY <1>3 DEF TimePasses
    <2>2. idle[i] \in Age /\ Age \subseteq Nat
      BY CoolTypes
    <2>3. CASE \E k \in DOMAIN podsIP : podsIP[k].IP = i
      BY <1>1, <2>3 DEF Cool
    <2>4. CASE idle[i] > addressCoolingPeriod
      <3>1. /\ Older(idle[i]) \in Nat /\ idle[i] \in Nat
            /\ Older(idle[i]) >= idle[i]
        BY <2>2, OlderAge
      <3>2. Older(idle[i]) > addressCoolingPeriod
        BY <2>4, <3>1, PeriodAssumption
      <3>3. idle'[i] > addressCoolingPeriod
        BY <2>1, <3>2
      <3> QED
        BY <3>3 DEF Cool
    <2>5. ASSUME NEW n \in NIC, <<n, i>> \in DOMAIN IPv4Addresses,
                 IPv4Addresses[<<n, i>>].unassignedAge <= idle[i]
          PROVE  Cool(i)'
      <3> DEFINE a == <<n, i>>
      <3> DEFINE x == IPv4Addresses[a].unassignedAge
      <3>1. x \in Age
        BY <2>5, CoolTypes
      <3>2. idle[i] >= x
        BY <2>2, <2>5, <3>1
      <3>3. Older(idle[i]) >= Older(x)
        BY <2>2, <3>1, <3>2, OlderMonotone
      <3>4. Older(x) \in Nat /\ Older(idle[i]) \in Nat
        BY <2>2, <3>1, OlderAge
      <3>5. IPv4Addresses'[a].unassignedAge = Older(x)
        BY <1>1, <2>5
      <3> HIDE DEF x
      <3>6. IPv4Addresses'[a].unassignedAge <= idle'[i]
        BY <2>1, <3>3, <3>4, <3>5
      <3> QED
        BY <1>1, <2>5, <3>6 DEF Cool
    <2> QED
      BY <2>3, <2>4, <2>5 DEF Cool
  <1> QED
    BY <1>2, <1>3

\* No step loses the memory of a use too early.
LEMMA CoolStep ==
    ASSUME Quiet, addressNICCoolingPeriod > addressCoolingPeriod,
           TypeInv, NICInv, UseInv, QuietInv, CoolInv, [Next]_vars, TypeInv', QuietInv'
    PROVE  CoolInv'
  <1> SUFFICES ASSUME NEW i \in IP, Cool(i) PROVE Cool(i)'
    BY DEF CoolInv
  <1>1. CASE pc'.main # "ready"
    <2>1. idle'[i] = AgeCap
      BY <1>1 DEF QuietInv, NoPodYet
    <2> QED
      BY <2>1, AgeCapAssumption DEF Cool
  <1>2. CASE pc'.main = "ready"
    <2>0. pc \in [main : MainLabel, pool : PoolLabel]
      BY DEF TypeInv, DaemonTypeOK
    <2>1. CASE Dies
      BY <1>2, <2>1 DEF Dies, ProcessDies
    <2>2. ~(StartUpStep /\ ~Serving)
      BY <1>2, StartUpNotReady
    <2>3. CASE WorkStep /\ UNCHANGED nodeVars
      BY <2>3, WorkCool DEF UseInv
    <2>4. CASE PodNext
      <3>1. Serving
        BY <1>2, <2>4, PodFrame DEF DaemonFrame, Serving
      <3> QED
        BY <2>4, <3>1, PodCool DEF UseInv
    <2>5. CASE TimePasses
      <3>1. Serving
        BY <1>2, <2>5 DEF TimePasses, daemonVars, Serving
      <3> QED
        BY <2>5, <3>1, TickCool DEF UseInv
    <2>6. CASE UNCHANGED vars
      BY <2>6 DEF vars, ipamVars, storeVars, nodeVars, Cool
    <2> QED
      BY <2>1, <2>2, <2>3, <2>4, <2>5, <2>6, StepKinds
  <1> QED
    BY <1>1, <1>2

\* An address that AddNetwork gives out has cooled: the store's mark and time
\* tell when its last use ended at the latest.
LEMMA GivenCool ==
    ASSUME TypeInv, OwnerInv, CoolInv, NEW n \in NIC, NEW i \in IP, Available(n, i)
    PROVE  idle[i] > addressCoolingPeriod
  <1> DEFINE a == <<n, i>>
  <1>1. /\ a \in DOMAIN IPv4Addresses
        /\ ~IPv4Addresses[a].Assigned
        /\ IPv4Addresses[a].unassignedAge > addressCoolingPeriod
    BY DEF Available
  <1>2. ASSUME NEW k \in DOMAIN podsIP, podsIP[k].IP = i PROVE FALSE
    <2>1. <<n, podsIP[k].IP>> = a
      BY <1>2
    <2> QED
      BY <1>1, <2>1, HeldIsMarked
  <1>3. ASSUME NEW m \in NIC, <<m, i>> \in DOMAIN IPv4Addresses,
               IPv4Addresses[<<m, i>>].unassignedAge <= idle[i]
        PROVE  idle[i] > addressCoolingPeriod
    <2> DEFINE b == <<m, i>>
    <2>1. b[2] = a[2] /\ b \in DOMAIN IPv4Addresses
      BY <1>3
    <2>2. IPv4Addresses[b].unassignedAge <= idle[i]
      BY <1>3
    <2> HIDE DEF a, b
    <2>3. b = a
      BY <1>1, <2>1 DEF OwnerInv, OneNIC
    <2>4. IPv4Addresses[a].unassignedAge \in Nat /\ idle[i] \in Nat
      BY <1>1, CoolTypes
    <2> QED
      BY <1>1, <2>2, <2>3, <2>4, PeriodAssumption
  <1> QED
    BY <1>2, <1>3 DEF CoolInv, Cool

\* No address enters use within addressCoolingPeriod of its use by another
\* sandbox (CoolingHonoured), in a daemon that is not killed, if a NIC has to
\* be unused for longer than an address before it is deleted, as it has in the
\* code (1 min and 30 s): the memory of an address goes with its NIC.
THEOREM CoolingHonouredCorrect ==
    ASSUME Quiet, addressNICCoolingPeriod > addressCoolingPeriod
    PROVE  Spec => CoolingHonoured
  <1> DEFINE Honoured == \A s \in Sandbox : addr[s] = NoIP /\ addr'[s] # NoIP =>
                           idle[addr'[s]] > addressCoolingPeriod
  <1>1. Init => CoolInv
    BY AgeCapAssumption DEF Init, CoolInv, Cool
  <1>2. /\ TypeInv /\ NICInv /\ UseInv /\ QuietInv /\ CoolInv /\ [Next]_vars
        /\ TypeInv' /\ QuietInv'
        => CoolInv'
    BY CoolStep
  <1>3. TypeInv /\ NICInv /\ UseInv /\ CoolInv /\ [Next]_vars => [Honoured]_vars
    <2> SUFFICES ASSUME TypeInv, NICInv, UseInv, CoolInv, [Next]_vars,
                        NEW s \in Sandbox, addr[s] = NoIP, addr'[s] # NoIP
                 PROVE  idle[addr'[s]] > addressCoolingPeriod
      OBVIOUS
    <2>0. addr \in [Sandbox -> IP \cup {NoIP}]
      BY DEF TypeInv, NodeVarsOK
    <2>1. PodNext
      BY StepKinds DEF Dies, TimePasses, nodeVars, vars
    <2>2. ASSUME NEW t \in Sandbox,
                 \/ PublishStatus(t) \/ RunSandbox(t) \/ DeleteAgain(t) \/ PluginAddLost(t)
                 \/ PluginAddRefused(t) \/ PluginAddUnreachable(t) \/ PluginSetup(t)
                 \/ PluginCleanupUnreachable(t) \/ PluginDel(t)
          PROVE  FALSE
      BY <2>2, PluginDelCases DEF PublishStatus, RunSandbox, DeleteAgain, PluginAddLost,
         PluginAddRefused, PluginAddUnreachable, PluginSetup, PluginCleanupUnreachable
    <2>3. ASSUME NEW t \in Sandbox, KillSandbox(t) \/ PluginSetupFails(t) PROVE FALSE
      BY <2>0, <2>3 DEF KillSandbox, PluginSetupFails
    <2>4. ASSUME NEW p \in Pod, DeletePod(p) PROVE FALSE
      BY <2>4 DEF DeletePod
    <2>5. PICK t \in Sandbox : PluginAdd(t)
      BY <2>1, <2>2, <2>3, <2>4 DEF PodNext
    <2>6. PICK n \in NIC, i \in IP : /\ Available(n, i)
                                     /\ addr' = [addr EXCEPT ![t] = i]
      BY <2>5 DEF PluginAdd, AddNetwork, AssignFresh
    <2>7. addr'[s] = i
      BY <2>0, <2>6
    <2> QED
      BY <2>6, <2>7, GivenCool DEF UseInv
  <1> QED
    BY <1>1, <1>2, <1>3, TypeInvariant, NICInvariant, QuietInvariant, PTL
       DEF Spec, CoolingHonoured

----------------------------------------------------------------------------
(* The store on the node *)

\* The counters GetStats returns agree with the maps of the store on the node
\* too (Accounting), through every crash and every fault.
THEOREM NodeAccountingCorrect == Spec => []Accounting
  <1>1. TypeInv => Accounting
    BY DEF TypeInv, CountInv
  <1> QED
    BY <1>1, TypeInvariant, PTL

\* The daemon uses the store as DaemonSpec does, from an empty store after each
\* death: what is proved of DataStore under DaemonSpec holds of the node.
THEOREM StoreDrivenInOrder ==
    ASSUME Quiet \/ Careful
    PROVE  Spec => [][DaemonNext \/ NewDataStore']_storeVars
  <1>1. TypeInv /\ UseInv /\ [Next]_vars => [DaemonNext \/ NewDataStore']_storeVars
    BY DaemonOrder DEF UseInv
  <1> QED
    BY <1>1, UseInvariant, TypeInvariant, PTL DEF Spec

\* Two pods never hold one address in the node's store, and what is held is
\* marked, and marked for nobody else (DistinctHolders, Ownership).
THEOREM NodeOwnershipCorrect ==
    ASSUME Quiet \/ Careful
    PROVE  Spec => [](DistinctHolders /\ Ownership)
  <1>1. UseInv => DistinctHolders /\ Ownership
    BY DEF UseInv, OwnerInv
  <1> QED
    BY <1>1, UseInvariant, PTL

=============================================================================
