------------------------------- MODULE IpamD -------------------------------
(***************************************************************************)
(* The IPAM daemon (pkg/ipam): its start-up, its pool manager and the two  *)
(* gRPC handlers, as threads that share one DataStore, with the calls they *)
(* make to the cloud (pkg/qcclient).  The environment of the daemon (pods, *)
(* kubelet, CNI plugin, crashes) is in Node.                               *)
(*                                                                         *)
(* A thread is at a label; between two labels it holds no lock and every   *)
(* other thread may run.                                                   *)
(***************************************************************************)
EXTENDS DataStore

CONSTANTS
    NoContainer,   \* the empty container identifier
    NoStatus,      \* a pod whose status lists no container
    NoIP,          \* the empty address
    NoNIC,
    AddrOf,        \* the private address the cloud gives each NIC
    Sequence,      \* the position of a NIC on the instance, as the cloud counts
    IfIndex,       \* the interface index of a NIC on the host
    poolSize,      \* the pool grows below this many free addresses
    maxPoolSize,   \* and shrinks above this many
    MaxTries,      \* attempts of retry.Do (5 and 10 in the code)
    Faults         \* what the environment may do in this instance

ASSUME CloudAssumption ==
    /\ AddrOf \in [NIC -> IP]
    /\ \A m, n \in NIC : AddrOf[m] = AddrOf[n] => m = n
    /\ Sequence \in [NIC -> Int]
    /\ IfIndex \in [NIC -> Device]
    /\ \A n \in NIC : Sequence[n] > 0 => Sequence[n] \in Device

ASSUME PoolAssumption ==
    /\ poolSize \in Nat
    /\ maxPoolSize \in Nat
    /\ MaxTries \in Nat \ {0}

VARIABLES
    cloud,      \* state of every NIC in the cloud
    pc,         \* label of each thread
    work,       \* the NIC a thread is busy with
    stats,      \* what a thread has read of the store's two counters
    todoNICs,   \* attached NICs setup() has still to set up
    todoPods,   \* pods prepareLocalPods has still to recover
    tries,      \* failed attempts of the retry.Do the main thread is in
    cniConfig,  \* the CNI configuration file exists
    fallback    \* DelNetwork calls between their two lookups

daemonVars == <<pc, work, stats, todoNICs, todoPods, tries, fallback>>
ipamVars == <<storeVars, cloud, daemonVars, cniConfig>>

Thread == {"main", "pool"}

MainLabel == {"down", "nics", "addnic", "addip", "pods", "recover", "serve", "ready"}

PoolLabel == {"off", "low", "high", "create", "describe", "attach", "addnic", "addip",
              "remove", "detach", "drop", "stopped"}

\* What GetCurrentNodePods returns of a pod.
K8SPodInfo == [pod : Pod, IP : IP \cup {NoIP}, container : Container]

Unread == [total |-> -1, assigned |-> -1]

IpamTypeOK ==
    /\ StoreTypeOK
    /\ cloud \in [NIC -> {"absent", "detached", "attached"}]
    /\ pc \in [main : MainLabel, pool : PoolLabel]
    /\ work \in [Thread -> NIC \cup {NoNIC}]
    /\ \A t \in Thread : /\ stats[t].total \in Nat \cup {-1}
                         /\ stats[t].assigned \in Nat \cup {-1}
    /\ todoNICs \subseteq NIC
    /\ todoPods \subseteq K8SPodInfo
    /\ tries \in 0 .. MaxTries - 1
    /\ cniConfig \in BOOLEAN
    /\ fallback \subseteq PodKey

IpamInit ==
    /\ NewDataStore
    /\ cloud = [n \in NIC |-> "absent"]
    /\ pc = [main |-> "down", pool |-> "off"]
    /\ work = [t \in Thread |-> NoNIC]
    /\ stats = [t \in Thread |-> Unread]
    /\ todoNICs = {}
    /\ todoPods = {}
    /\ tries = 0
    /\ cniConfig = FALSE
    /\ fallback = {}

Goto(t, label) == pc' = [pc EXCEPT ![t] = label]

\* The process ends: its memory is gone, the cloud and the file stay.
ProcessDies ==
    /\ nicIPPools' = << >>
    /\ IPv4Addresses' = << >>
    /\ podsIP' = << >>
    /\ total' = 0
    /\ assigned' = 0
    /\ pc' = [main |-> "down", pool |-> "off"]
    /\ work' = [t \in Thread |-> NoNIC]
    /\ stats' = [t \in Thread |-> Unread]
    /\ todoNICs' = {}
    /\ todoPods' = {}
    /\ tries' = 0
    /\ fallback' = {}

----------------------------------------------------------------------------
(* setupNic, called by setup() and by the pool manager *)

\* setup() passes the cloud's sequence number, CreateNic leaves it zero.
DeviceNumber(t, n) ==
    IF t = "main" /\ Sequence[n] > 0 THEN Sequence[n] ELSE IfIndex[n]

\* Where a thread continues after setupNic.
AfterSetupNic(t) == IF t = "main" THEN "nics" ELSE "low"

\* AddNIC; DuplicatedNICError is tolerated.
SetupNicAdd(t) ==
    /\ pc[t] = "addnic"
    /\ IF work[t] \in DOMAIN nicIPPools
         THEN UNCHANGED storeVars
         ELSE AddNIC(work[t], DeviceNumber(t, work[t]), FALSE)
    /\ Goto(t, "addip")
    /\ UNCHANGED <<cloud, work, stats, todoNICs, todoPods, tries, cniConfig, fallback>>

\* SetupNICNetwork succeeds and the address enters the pool; DuplicateIPError
\* is tolerated.
SetupNicAddress(t) ==
    /\ pc[t] = "addip"
    /\ LET n == work[t] IN
         IF n \in DOMAIN nicIPPools /\ <<n, AddrOf[n]>> \notin DOMAIN IPv4Addresses
           THEN AddIPv4AddressFromStore(n, AddrOf[n])
           ELSE UNCHANGED storeVars
    /\ Goto(t, AfterSetupNic(t))
    /\ work' = [work EXCEPT ![t] = NoNIC]
    /\ UNCHANGED <<cloud, stats, todoNICs, todoPods, tries, cniConfig, fallback>>

\* The link of the NIC is not found, or SetupNICNetwork fails.  setup() returns
\* the error and the daemon exits; the pool manager only logs it.
SetupNicFails(t) ==
    /\ "network" \in Faults
    /\ pc[t] \in {"addnic", "addip"}
    /\ IF t = "main"
         THEN ProcessDies
         ELSE /\ Goto(t, "low")
              /\ work' = [work EXCEPT ![t] = NoNIC]
              /\ UNCHANGED <<storeVars, stats, todoNICs, todoPods, tries, fallback>>
    /\ UNCHANGED <<cloud, cniConfig>>

----------------------------------------------------------------------------
(* The main thread: setup() and Start *)

\* The entry point removes an earlier configuration and starts the daemon;
\* setup() up to GetAttachedNICs.  A failure before that ends the daemon with
\* nothing else changed.
Boot ==
    /\ pc.main = "down"
    /\ cniConfig' = FALSE
    /\ todoNICs' = {n \in NIC : cloud[n] = "attached"}
    /\ Goto("main", "nics")
    /\ UNCHANGED <<storeVars, cloud, work, stats, todoPods, tries, fallback>>

\* The loop over the attached NICs.
NextAttachedNIC ==
    /\ pc.main = "nics"
    /\ \E n \in todoNICs :
         /\ todoNICs' = todoNICs \ {n}
         /\ work' = [work EXCEPT !.main = n]
    /\ Goto("main", "addnic")
    /\ UNCHANGED <<storeVars, cloud, stats, todoPods, tries, cniConfig, fallback>>

AttachedNICsDone ==
    /\ pc.main = "nics"
    /\ todoNICs = {}
    /\ Goto("main", "pods")
    /\ UNCHANGED <<storeVars, cloud, work, stats, todoNICs, todoPods, tries, cniConfig,
                   fallback>>

\* Faulty variant: one attempt too many.
ListPodsOnceMore(infos) ==
    /\ pc.main = "pods"
    /\ \A p \in infos : p.container # NoStatus
    /\ IF (\E p \in infos : p.IP = NoIP) /\ tries < MaxTries
         THEN /\ tries' = tries + 1
              /\ UNCHANGED <<pc, todoPods>>
         ELSE /\ tries' = 0
              /\ todoPods' = infos
              /\ Goto("main", "recover")
    /\ UNCHANGED <<storeVars, cloud, work, stats, todoNICs, cniConfig, fallback>>

\* One attempt of the retry.Do around GetCurrentNodePods, which returned
\* infos.  The loop ends when every pod has an IP, or with the last attempt;
\* its error is ignored.
ListPods(infos) ==
    /\ pc.main = "pods"
    /\ \A p \in infos : p.container # NoStatus
    /\ IF (\E p \in infos : p.IP = NoIP) /\ tries + 1 < MaxTries
         THEN /\ tries' = tries + 1
              /\ UNCHANGED <<pc, todoPods>>
         ELSE /\ tries' = 0
              /\ todoPods' = infos
              /\ Goto("main", "recover")
    /\ UNCHANGED <<storeVars, cloud, work, stats, todoNICs, cniConfig, fallback>>

\* ContainerStatuses[0] of a pod without container statuses: an index panic.
ListPodsPanics(infos) ==
    /\ pc.main = "pods"
    /\ \E p \in infos : p.container = NoStatus
    /\ ProcessDies
    /\ UNCHANGED <<cloud, cniConfig>>

\* One round of prepareLocalPods.  A pod without IP is skipped; the errors of
\* AssignPodIPv4Address (the key is known, or no NIC has the address) are
\* only logged.
RecoverPod ==
    /\ pc.main = "recover"
    /\ \E p \in todoPods :
         /\ todoPods' = todoPods \ {p}
         /\ LET k == <<p.pod, p.container>>
                Carriers == {n \in NIC : <<n, p.IP>> \in DOMAIN IPv4Addresses}
            IN  IF k \notin DOMAIN podsIP /\ Carriers # {}
                  THEN \E n \in Carriers : Reassign(k, n, p.IP)
                  ELSE UNCHANGED storeVars
    /\ UNCHANGED <<cloud, pc, work, stats, todoNICs, tries, cniConfig, fallback>>

\* GetRuleList fails: prepareLocalPods returns nil and recovers nothing.
RuleListFails ==
    /\ "rules" \in Faults
    /\ pc.main = "recover"
    /\ todoPods' = {}
    /\ UNCHANGED <<storeVars, cloud, pc, work, stats, todoNICs, tries, cniConfig, fallback>>

\* Faulty variant: requests are answered while pods are still being recovered.
StartServingEarly ==
    /\ pc.main = "recover"
    /\ pc' = [main |-> "serve", pool |-> "low"]
    /\ todoPods' = {}
    /\ UNCHANGED <<storeVars, cloud, work, stats, todoNICs, tries, cniConfig, fallback>>

\* The pool manager starts, then the gRPC server.
StartServing ==
    /\ pc.main = "recover"
    /\ todoPods = {}
    /\ pc' = [main |-> "serve", pool |-> "low"]
    /\ UNCHANGED <<storeVars, cloud, work, stats, todoNICs, todoPods, tries, cniConfig,
                   fallback>>

Serving == pc.main \in {"serve", "ready"}

----------------------------------------------------------------------------
(***************************************************************************)
(* GetStats reads the two counters without the lock, in an order the       *)
(* language leaves open: each read is a step, and a thread decides on what *)
(* it has read.                                                            *)
(***************************************************************************)
Reading(t) == pc[t] \in {"low", "high", "serve"}

ReadTotal(t) ==
    /\ Reading(t)
    /\ stats[t].total = -1
    /\ stats' = [stats EXCEPT ![t].total = total]
    /\ UNCHANGED <<storeVars, cloud, pc, work, todoNICs, todoPods, tries, cniConfig, fallback>>

ReadAssigned(t) ==
    /\ Reading(t)
    /\ stats[t].assigned = -1
    /\ stats' = [stats EXCEPT ![t].assigned = assigned]
    /\ UNCHANGED <<storeVars, cloud, pc, work, todoNICs, todoPods, tries, cniConfig, fallback>>

Read(t) == stats[t].total # -1 /\ stats[t].assigned # -1

Free(t) == stats[t].total - stats[t].assigned

\* Faulty variant: Start waits for more than a full pool.
WriteCNIConfigWhenFull ==
    /\ pc.main = "serve"
    /\ Read("main")
    /\ Free("main") > poolSize
    /\ cniConfig' = TRUE
    /\ Goto("main", "ready")
    /\ stats' = [stats EXCEPT !.main = Unread]
    /\ tries' = 0
    /\ UNCHANGED <<storeVars, cloud, work, todoNICs, todoPods, fallback>>

\* Start writes the configuration once it has seen a free address.
WriteCNIConfig ==
    /\ pc.main = "serve"
    /\ Read("main")
    /\ Free("main") > 0
    /\ cniConfig' = TRUE
    /\ Goto("main", "ready")
    /\ stats' = [stats EXCEPT !.main = Unread]
    /\ tries' = 0
    /\ UNCHANGED <<storeVars, cloud, work, todoNICs, todoPods, fallback>>

\* Start saw no free address and tries again.  Only where "slow" is among the
\* faults do the attempts run out before the cloud has delivered a NIC.
NoAddressYet ==
    /\ pc.main = "serve"
    /\ Read("main")
    /\ Free("main") <= 0
    /\ IF "slow" \in Faults THEN tries + 1 < MaxTries /\ tries' = tries + 1
                            ELSE UNCHANGED tries
    /\ stats' = [stats EXCEPT !.main = Unread]
    /\ UNCHANGED <<storeVars, cloud, pc, work, todoNICs, todoPods, cniConfig, fallback>>

\* The last attempt of Start saw no free address: the daemon exits.
GiveUp ==
    /\ "slow" \in Faults
    /\ pc.main = "serve"
    /\ Read("main")
    /\ Free("main") <= 0
    /\ tries + 1 = MaxTries
    /\ ProcessDies
    /\ UNCHANGED <<cloud, cniConfig>>

----------------------------------------------------------------------------
(* The pool manager: updateIPPoolIfRequired *)

\* Faulty variants: assigned addresses count as free; the pool shrinks at its
\* maximum size.
TooFewAddresses == stats.pool.total < poolSize

TooHighAtMax == Free("pool") >= maxPoolSize

nodeIPPoolTooLow == Free("pool") < poolSize

nodeIPPoolTooHigh == Free("pool") > maxPoolSize

\* The two tests of updateIPPoolIfRequired, each on a GetStats of its own.
DecideLow ==
    /\ pc.pool = "low"
    /\ Read("pool")
    /\ Goto("pool", IF nodeIPPoolTooLow THEN "create" ELSE "high")
    /\ stats' = [stats EXCEPT !.pool = Unread]
    /\ UNCHANGED <<storeVars, cloud, work, todoNICs, todoPods, tries, cniConfig, fallback>>

DecideHigh ==
    /\ pc.pool = "high"
    /\ Read("pool")
    /\ Goto("pool", IF nodeIPPoolTooHigh THEN "remove" ELSE "low")
    /\ stats' = [stats EXCEPT !.pool = Unread]
    /\ UNCHANGED <<storeVars, cloud, work, todoNICs, todoPods, tries, cniConfig, fallback>>

\* CreateNic: a new NIC exists in the cloud, not yet attached.
CreateNic ==
    /\ pc.pool = "create"
    /\ \E n \in NIC :
         /\ cloud[n] = "absent"
         /\ cloud' = [cloud EXCEPT ![n] = "detached"]
         /\ work' = [work EXCEPT !.pool = n]
    /\ Goto("pool", "describe")
    /\ UNCHANGED <<storeVars, stats, todoNICs, todoPods, tries, cniConfig, fallback>>

\* CreateNics is refused: the quota is used up, or the call fails.
CreateNicRefused ==
    /\ pc.pool = "create"
    /\ "cloud" \in Faults \/ \A n \in NIC : cloud[n] # "absent"
    /\ Goto("pool", "low")
    /\ UNCHANGED <<storeVars, cloud, work, stats, todoNICs, todoPods, tries, cniConfig,
                   fallback>>

\* CreateNic: GetNics and GetVxNet answer.
DescribeNic ==
    /\ pc.pool = "describe"
    /\ Goto("pool", "attach")
    /\ UNCHANGED <<storeVars, cloud, work, stats, todoNICs, todoPods, tries, cniConfig,
                   fallback>>

\* CreateNic: GetVxNet fails and CreateNic returns, leaving the new NIC behind.
DescribeNicFails ==
    /\ "cloud" \in Faults
    /\ pc.pool = "describe"
    /\ Goto("pool", "low")
    /\ work' = [work EXCEPT !.pool = NoNIC]
    /\ UNCHANGED <<storeVars, cloud, stats, todoNICs, todoPods, tries, cniConfig, fallback>>

\* CreateNic: GetNics failed five times; the nil hostnic is dereferenced.
DescribeNicPanics ==
    /\ "cloud" \in Faults
    /\ pc.pool = "describe"
    /\ ProcessDies
    /\ UNCHANGED <<cloud, cniConfig>>

\* attachNic succeeds.
AttachNic ==
    /\ pc.pool = "attach"
    /\ cloud' = [cloud EXCEPT ![work.pool] = "attached"]
    /\ Goto("pool", "addnic")
    /\ UNCHANGED <<storeVars, work, stats, todoNICs, todoPods, tries, cniConfig, fallback>>

\* attachNic fails: the call did, or the wait did and the NIC may be attached
\* all the same.  CreateNic then calls DeleteNic.
AttachNicFails ==
    /\ "cloud" \in Faults
    /\ pc.pool = "attach"
    /\ \E s \in {"detached", "attached"} : cloud' = [cloud EXCEPT ![work.pool] = s]
    /\ Goto("pool", "detach")
    /\ UNCHANGED <<storeVars, work, stats, todoNICs, todoPods, tries, cniConfig, fallback>>

\* Faulty variant: the NIC leaves the cloud first.
RemoveFromCloudFirst ==
    /\ pc.pool = "remove"
    /\ \E n \in NIC :
         /\ Deletable(n)
         /\ work' = [work EXCEPT !.pool = n]
    /\ Goto("pool", "detach")
    /\ UNCHANGED <<storeVars, cloud, stats, todoNICs, todoPods, tries, cniConfig, fallback>>

\* decreaseIPPool: the NIC leaves the store before it leaves the cloud.
RemoveUnusedNIC ==
    /\ pc.pool = "remove"
    /\ \E n \in NIC :
         /\ RemoveUnusedNICFromStore(n)
         /\ work' = [work EXCEPT !.pool = n]
    /\ Goto("pool", "detach")
    /\ UNCHANGED <<cloud, stats, todoNICs, todoPods, tries, cniConfig, fallback>>

NoUnusedNIC ==
    /\ pc.pool = "remove"
    /\ \A n \in NIC : ~Deletable(n)
    /\ Goto("pool", "low")
    /\ UNCHANGED <<storeVars, cloud, work, stats, todoNICs, todoPods, tries, cniConfig,
                   fallback>>

\* Faulty variant: DeleteNic returns once the NIC is detached.
DetachNicOnly ==
    /\ pc.pool = "detach"
    /\ cloud' = [cloud EXCEPT ![work.pool] = "detached"]
    /\ Goto("pool", "low")
    /\ work' = [work EXCEPT !.pool = NoNIC]
    /\ UNCHANGED <<storeVars, stats, todoNICs, todoPods, tries, cniConfig, fallback>>

\* DeleteNic: detachNics, then DeleteNics.
DetachNic ==
    /\ pc.pool = "detach"
    /\ cloud' = [cloud EXCEPT ![work.pool] = "detached"]
    /\ Goto("pool", "drop")
    /\ UNCHANGED <<storeVars, work, stats, todoNICs, todoPods, tries, cniConfig, fallback>>

DropNic ==
    /\ pc.pool = "drop"
    /\ cloud' = [cloud EXCEPT ![work.pool] = "absent"]
    /\ Goto("pool", "low")
    /\ work' = [work EXCEPT !.pool = NoNIC]
    /\ UNCHANGED <<storeVars, stats, todoNICs, todoPods, tries, cniConfig, fallback>>

\* Either call of DeleteNic fails; the error is only logged.
DeleteNicFails ==
    /\ "cloud" \in Faults
    /\ pc.pool \in {"detach", "drop"}
    /\ Goto("pool", "low")
    /\ work' = [work EXCEPT !.pool = NoNIC]
    /\ UNCHANGED <<storeVars, cloud, stats, todoNICs, todoPods, tries, cniConfig, fallback>>

\* A signal: the pool manager returns, the process goes on.
StopPoolManager ==
    /\ "signal" \in Faults
    /\ pc.pool = "low"
    /\ stats.pool = Unread
    /\ Goto("pool", "stopped")
    /\ UNCHANGED <<storeVars, cloud, work, stats, todoNICs, todoPods, tries, cniConfig,
                   fallback>>

MainNext ==
    \/ SetupNicAdd("main") \/ SetupNicAddress("main") \/ SetupNicFails("main")
    \/ Boot \/ NextAttachedNIC \/ AttachedNICsDone
    \/ RecoverPod \/ RuleListFails \/ StartServing
    \/ ReadTotal("main") \/ ReadAssigned("main")
    \/ WriteCNIConfig \/ NoAddressYet \/ GiveUp

PoolNext ==
    \/ SetupNicAdd("pool") \/ SetupNicAddress("pool") \/ SetupNicFails("pool")
    \/ ReadTotal("pool") \/ ReadAssigned("pool")
    \/ DecideLow \/ DecideHigh
    \/ CreateNic \/ CreateNicRefused
    \/ DescribeNic \/ DescribeNicFails \/ DescribeNicPanics
    \/ AttachNic \/ AttachNicFails
    \/ RemoveUnusedNIC \/ NoUnusedNIC \/ DetachNic \/ DropNic \/ DeleteNicFails
    \/ StopPoolManager

----------------------------------------------------------------------------
(***************************************************************************)
(* The gRPC handlers.  Each is called for the key <<pod, container>> of    *)
(* the request; Node says who calls and what becomes of the reply.         *)
(***************************************************************************)
HandlerUnchanged == UNCHANGED <<cloud, pc, work, stats, todoNICs, todoPods, tries, cniConfig>>

\* AddNetwork succeeds with address i of NIC n.
AddNetwork(k, n, i) ==
    /\ Serving
    /\ AssignFresh(k, n, i)
    /\ HandlerUnchanged
    /\ UNCHANGED fallback

\* AddNetwork replies Success = false: the key is known already, or no address
\* is available.
AddNetworkRefused(k) ==
    /\ Serving
    /\ k \in DOMAIN podsIP \/ \A a \in DOMAIN IPv4Addresses : ~Available(a[1], a[2])
    /\ HandlerUnchanged
    /\ UNCHANGED <<storeVars, fallback>>

\* DelNetwork finds its key and replies with the address it has released.
DelNetwork(k) ==
    /\ Serving
    /\ k \notin fallback
    /\ \E n \in NIC : UnassignPodIPv4Address(k, n)
    /\ HandlerUnchanged
    /\ UNCHANGED fallback

\* The first lookup of DelNetwork returns ErrUnknownPod.
DelNetworkUnknown(k) ==
    /\ Serving
    /\ k \notin fallback
    /\ k \notin DOMAIN podsIP
    /\ fallback' = fallback \cup {k}
    /\ HandlerUnchanged
    /\ UNCHANGED storeVars

\* Faulty variant: the second lookup takes an entry of the pod with any container.
DelNetworkByPod(k) ==
    /\ Serving
    /\ k \in fallback
    /\ fallback' = fallback \ {k}
    /\ \E l \in DOMAIN podsIP, n \in NIC : l[1] = k[1] /\ UnassignPodIPv4Address(l, n)
    /\ HandlerUnchanged

\* The second lookup, by pod name alone, finds an entry and releases it.
DelNetworkByName(k) ==
    /\ Serving
    /\ k \in fallback
    /\ fallback' = fallback \ {k}
    /\ \E n \in NIC : UnassignPodIPv4Address(<<k[1], NoContainer>>, n)
    /\ HandlerUnchanged

\* The second lookup returns ErrUnknownPod: success without an address.
DelNetworkUnhealthy(k) ==
    /\ Serving
    /\ k \in fallback
    /\ <<k[1], NoContainer>> \notin DOMAIN podsIP
    /\ fallback' = fallback \ {k}
    /\ HandlerUnchanged
    /\ UNCHANGED storeVars

\* Either lookup returns ErrUnknownPodIP: Success = false, nothing changed.
DelNetworkUnknownIP(k) ==
    /\ Serving
    /\ LET l == IF k \in fallback THEN <<k[1], NoContainer>> ELSE k
       IN  l \in DOMAIN podsIP /\ \A n \in NIC : ~HoldsOn(l, n)
    /\ fallback' = fallback \ {k}
    /\ HandlerUnchanged
    /\ UNCHANGED storeVars

=============================================================================
