-------------------------------- MODULE Node --------------------------------
(***************************************************************************)
(* A node: the IPAM daemon together with what surrounds it.  The kubelet   *)
(* runs the sandboxes of pods one after the other and calls the CNI plugin *)
(* (cmd/hostnic) to add and to delete a sandbox; the API server shows what *)
(* the kubelet last published of a pod; the daemon may be killed at any    *)
(* step and started again.                                                 *)
(*                                                                         *)
(* Faults names what the environment may do:                               *)
(*   "network"  setting up a NIC on the host fails                         *)
(*   "cloud"    a call to the cloud fails                                  *)
(*   "rules"    the kernel's rule list cannot be read at start-up          *)
(*   "signal"   the daemon receives SIGTERM                                *)
(*   "lost"     the reply of a gRPC call does not reach the plugin         *)
(*   "setup"    the plugin fails to set up the pod's interface             *)
(*   "dupdel"   a finished sandbox is deleted once more                    *)
(*   "lag"      the daemon dies while the API server is behind             *)
(*   "evicted"  a pod has no container statuses                            *)
(*   "slow"     the daemon gives up waiting for a free address             *)
(***************************************************************************)
EXTENDS IpamD

CONSTANTS
    Sandbox,       \* pod sandboxes; the plugin passes their identifiers
    PodOf,         \* the pod of each sandbox
    AppContainer,  \* identifier of a pod's first application container
    MaxCrash       \* how often the daemon may be killed

ASSUME NodeAssumption ==
    /\ PodOf \in [Sandbox -> Pod]
    /\ Sandbox \cup {NoContainer, AppContainer} \subseteq Container
    /\ NoContainer \notin Sandbox
    /\ AppContainer \notin Sandbox \cup {NoContainer}
    /\ NoStatus \notin Container
    /\ NoIP \notin IP
    /\ NoNIC \notin NIC
    /\ MaxCrash \in Nat

VARIABLES
    sandbox,  \* where each sandbox is in its life
    addr,     \* the address configured in a sandbox, while it is in use
    api,      \* what the API server shows of each pod
    idle,     \* ticks since each address was last in use
    crashes   \* how often the daemon was killed

nodeVars == <<sandbox, addr, api, idle, crashes>>
vars == <<ipamVars, nodeVars>>

Key(s) == <<PodOf[s], s>>

\* A pod bound to the node whose sandbox is not up yet: its status lists a
\* waiting container, unless the pod was evicted, whose status lists none.
Scheduled ==
    {[IP |-> NoIP, container |-> c, exists |-> TRUE] :
        c \in {NoContainer} \cup (IF "evicted" \in Faults THEN {NoStatus} ELSE {})}

Absent == [IP |-> NoIP, container |-> NoContainer, exists |-> FALSE]

SandboxState == {"none", "adding", "replied", "up", "cleanup", "failed", "deleting", "gone",
                 "redeleting"}

Siblings(s) == {t \in Sandbox : PodOf[t] = PodOf[s] /\ t # s}

Over(s) == sandbox[s] \in {"gone", "redeleting"}

\* A call of DelNetwork for sandbox s is waiting for its reply.
DelPending(s) == sandbox[s] \in {"cleanup", "deleting", "redeleting"}

Init ==
    /\ IpamInit
    /\ sandbox = [s \in Sandbox |-> "none"]
    /\ addr = [s \in Sandbox |-> NoIP]
    /\ api \in [Pod -> Scheduled]
    /\ idle = [i \in IP |-> AgeCap]
    /\ crashes = 0

----------------------------------------------------------------------------
(* Pods, as the API server and the kubelet see them *)

\* The kubelet publishes the address of the running sandbox, with the first
\* container waiting or started.
PublishStatus(s) ==
    /\ sandbox[s] = "up"
    /\ api[PodOf[s]].exists
    /\ \E c \in {NoContainer, AppContainer} :
         api' = [api EXCEPT ![PodOf[s]] = [IP |-> addr[s], container |-> c, exists |-> TRUE]]
    /\ UNCHANGED <<ipamVars, sandbox, addr, idle, crashes>>

\* The object of a pod goes when its sandboxes are gone.  Until then it shows
\* the last address published, also of a pod that has completed.
DeletePod(p) ==
    /\ api[p].exists
    /\ \A s \in Sandbox : PodOf[s] = p => sandbox[s] = "none" \/ Over(s)
    /\ \E s \in Sandbox : PodOf[s] = p /\ Over(s)
    /\ api' = [api EXCEPT ![p] = Absent]
    /\ UNCHANGED <<ipamVars, sandbox, addr, idle, crashes>>

\* The kubelet starts a sandbox and calls the plugin's add, once a CNI
\* configuration exists (or it has read one before a restart of the daemon) and
\* the pod's earlier sandboxes are gone.
RunSandbox(s) ==
    /\ sandbox[s] = "none"
    /\ cniConfig \/ crashes > 0
    /\ api[PodOf[s]].exists
    /\ api[PodOf[s]].container # NoStatus
    /\ \A t \in Siblings(s) : sandbox[t] = "none" \/ Over(t)
    /\ sandbox' = [sandbox EXCEPT ![s] = "adding"]
    /\ UNCHANGED <<ipamVars, addr, api, idle, crashes>>

\* add: AddNetwork assigns an address and the reply arrives.
PluginAdd(s) ==
    /\ sandbox[s] = "adding"
    /\ \E n \in NIC, i \in IP :
         /\ AddNetwork(Key(s), n, i)
         /\ addr' = [addr EXCEPT ![s] = i]
    /\ sandbox' = [sandbox EXCEPT ![s] = "replied"]
    /\ UNCHANGED <<api, idle, crashes>>

\* add: the address is assigned and the reply lost; the plugin returns an error.
PluginAddLost(s) ==
    /\ "lost" \in Faults
    /\ sandbox[s] = "adding"
    /\ \E n \in NIC, i \in IP : AddNetwork(Key(s), n, i)
    /\ sandbox' = [sandbox EXCEPT ![s] = "failed"]
    /\ UNCHANGED <<addr, api, idle, crashes>>

PluginAddRefused(s) ==
    /\ sandbox[s] = "adding"
    /\ AddNetworkRefused(Key(s))
    /\ sandbox' = [sandbox EXCEPT ![s] = "failed"]
    /\ UNCHANGED <<addr, api, idle, crashes>>

\* add: the daemon cannot be reached.
PluginAddUnreachable(s) ==
    /\ sandbox[s] = "adding"
    /\ ~Serving
    /\ sandbox' = [sandbox EXCEPT ![s] = "failed"]
    /\ UNCHANGED <<ipamVars, addr, api, idle, crashes>>

\* add: SetupNS succeeds.  This needs no daemon.
PluginSetup(s) ==
    /\ sandbox[s] = "replied"
    /\ sandbox' = [sandbox EXCEPT ![s] = "up"]
    /\ UNCHANGED <<ipamVars, addr, api, idle, crashes>>

\* add: SetupNS fails and the plugin asks for the address to be released.
PluginSetupFails(s) ==
    /\ "setup" \in Faults
    /\ sandbox[s] = "replied"
    /\ sandbox' = [sandbox EXCEPT ![s] = "cleanup"]
    /\ addr' = [addr EXCEPT ![s] = NoIP]
    /\ UNCHANGED <<ipamVars, api, idle, crashes>>

\* add: that request fails too, and the plugin dereferences a nil reply.
PluginCleanupUnreachable(s) ==
    /\ sandbox[s] = "cleanup"
    /\ ~Serving
    /\ sandbox' = [sandbox EXCEPT ![s] = "failed"]
    /\ UNCHANGED <<ipamVars, addr, api, idle, crashes>>

\* The kubelet kills a sandbox and calls the plugin's del until it succeeds.
KillSandbox(s) ==
    /\ sandbox[s] \in {"up", "failed"}
    /\ sandbox' = [sandbox EXCEPT ![s] = "deleting"]
    /\ addr' = [addr EXCEPT ![s] = NoIP]
    /\ idle' = [i \in IP |-> IF i = addr[s] THEN 0 ELSE idle[i]]
    /\ UNCHANGED <<ipamVars, api, crashes>>

\* The kubelet's garbage collection deletes a finished sandbox once more.
DeleteAgain(s) ==
    /\ "dupdel" \in Faults
    /\ sandbox[s] = "gone"
    /\ sandbox' = [sandbox EXCEPT ![s] = "redeleting"]
    /\ UNCHANGED <<ipamVars, addr, api, idle, crashes>>

\* The reply of DelNetwork arrives.  del returns nil for every reply, the
\* unsuccessful one included (it wraps a nil error).
DelReply(s) ==
    \/ sandbox' = [sandbox EXCEPT ![s] = IF @ = "cleanup" THEN "failed" ELSE "gone"]
    \/ "lost" \in Faults /\ UNCHANGED sandbox

\* The steps of DelNetwork for the request of sandbox s.
PluginDel(s) ==
    /\ DelPending(s)
    /\ \/ DelNetworkUnknown(Key(s)) /\ UNCHANGED sandbox
       \/ DelNetwork(Key(s)) /\ DelReply(s)
       \/ DelNetworkByName(Key(s)) /\ DelReply(s)
       \/ DelNetworkUnhealthy(Key(s)) /\ DelReply(s)
       \/ DelNetworkUnknownIP(Key(s)) /\ DelReply(s)
    /\ UNCHANGED <<addr, api, idle, crashes>>

----------------------------------------------------------------------------
(* The daemon on this node *)

\* GetCurrentNodePods.
CurrentNodePods ==
    {[pod |-> p, IP |-> api[p].IP, container |-> api[p].container] : p \in
        {q \in Pod : api[q].exists}}

DaemonListsPods ==
    /\ \/ ListPods(CurrentNodePods)
       \/ ListPodsPanics(CurrentNodePods)
    /\ UNCHANGED nodeVars

\* The API server shows the addresses in use, and only those, and nothing is
\* being set up.
ApiCurrent ==
    /\ \A s \in Sandbox : /\ sandbox[s] # "replied"
                          /\ sandbox[s] = "up" => api[PodOf[s]].IP = addr[s]
    /\ \A p \in Pod : api[p].IP # NoIP =>
         \E s \in Sandbox : PodOf[s] = p /\ sandbox[s] = "up"

\* The daemon is killed.
Crash ==
    /\ pc.main # "down"
    /\ crashes < MaxCrash
    /\ "lag" \in Faults \/ ApiCurrent
    /\ crashes' = crashes + 1
    /\ ProcessDies
    /\ UNCHANGED <<cloud, cniConfig, sandbox, addr, api, idle>>

TimePasses ==
    /\ Tick
    /\ idle' = [i \in IP |-> IF \E s \in Sandbox : addr[s] = i THEN 0 ELSE Older(idle[i])]
    /\ UNCHANGED <<cloud, daemonVars, cniConfig, sandbox, addr, api, crashes>>

----------------------------------------------------------------------------
PodNext ==
    \/ \E p \in Pod : DeletePod(p)
    \/ \E s \in Sandbox :
         \/ PublishStatus(s) \/ RunSandbox(s) \/ KillSandbox(s) \/ DeleteAgain(s)
         \/ PluginAdd(s) \/ PluginAddLost(s) \/ PluginAddRefused(s) \/ PluginAddUnreachable(s)
         \/ PluginSetup(s) \/ PluginSetupFails(s) \/ PluginCleanupUnreachable(s)
         \/ PluginDel(s)

Next ==
    \/ MainNext /\ UNCHANGED nodeVars
    \/ DaemonListsPods
    \/ PoolNext /\ UNCHANGED nodeVars
    \/ PodNext
    \/ Crash
    \/ TimePasses

Spec == Init /\ [][Next]_vars

\* The plugin finishes the command it was called for.
PluginNext(s) ==
    \/ PluginAdd(s) \/ PluginAddRefused(s) \/ PluginAddUnreachable(s)
    \/ PluginSetup(s) \/ PluginCleanupUnreachable(s)
    \/ PluginDel(s)

\* Go's scheduler runs every goroutine that can run, the calls to the cloud
\* return, the daemon set restarts the daemon, and the plugin and the clock go
\* on.  Nothing makes the kubelet start or kill a sandbox or publish a status.
Fairness ==
    /\ WF_vars(MainNext /\ UNCHANGED nodeVars)
    /\ WF_vars(DaemonListsPods)
    /\ WF_vars(PoolNext /\ UNCHANGED nodeVars)
    /\ WF_vars(TimePasses)
    /\ \A s \in Sandbox : WF_vars(PluginNext(s))

FairSpec == Spec /\ Fairness

----------------------------------------------------------------------------
(* Properties *)

\* The daemon's state and the node's state are well typed; the model's bounds
\* hold.
NodeTypeOK ==
    /\ IpamTypeOK
    /\ sandbox \in [Sandbox -> SandboxState]
    /\ addr \in [Sandbox -> IP \cup {NoIP}]
    /\ api \in [Pod -> [IP : IP \cup {NoIP}, container : Container \cup {NoStatus},
                        exists : BOOLEAN]]
    /\ idle \in [IP -> Age]
    /\ crashes \in 0 .. MaxCrash

\* Two sandboxes never use one address at the same time.
NoDoubleUse ==
    \A s, t \in Sandbox : addr[s] = addr[t] /\ addr[s] # NoIP => s = t

\* While the daemon serves requests, every address in use is held by a pod in
\* its store: start-up has taken the addresses of the running pods out of the
\* pool before the first request is answered.
UsedAddressHeld ==
    Serving => \A s \in Sandbox :
        addr[s] # NoIP => \E k \in DOMAIN podsIP : k[1] = PodOf[s] /\ podsIP[k].IP = addr[s]

\* The NIC of an address in use stays attached to the node.
UsedNICAttached ==
    \A s \in Sandbox, n \in NIC : addr[s] = AddrOf[n] => cloud[n] = "attached"

\* Every NIC of the store is attached: the pool manager puts a NIC into the
\* store after the cloud has attached it and takes it out before the cloud
\* detaches it.
StoreNICAttached ==
    \A n \in DOMAIN nicIPPools : cloud[n] = "attached"

\* No NIC is lost: one that exists in the cloud is in the store, or a thread of
\* the daemon is busy with it or will be.
NoLostNIC ==
    \A n \in NIC : cloud[n] # "absent" =>
        \/ n \in DOMAIN nicIPPools
        \/ \E t \in Thread : work[t] = n
        \/ n \in todoNICs

\* Entries of podsIP belong to sandboxes whose deletion has not completed, so
\* that no address is lost to the pool.
NoLeakedAddress ==
    \A k \in DOMAIN podsIP : \E s \in Sandbox :
        k = Key(s) /\ sandbox[s] \notin {"none", "gone"}

\* An entry of podsIP belongs to a pod that still has a sandbox to delete: the
\* deletion of a pod's last sandbox takes its address back.
DeletedPodReleased ==
    Serving => \A k \in DOMAIN podsIP :
        \E s \in Sandbox : PodOf[s] = k[1] /\ sandbox[s] # "none" /\ ~Over(s)

\* No address enters use in a sandbox within addressCoolingPeriod of its use by
\* another one.
CoolingHonoured ==
    [][\A s \in Sandbox : addr[s] = NoIP /\ addr'[s] # NoIP =>
         idle[addr'[s]] > addressCoolingPeriod]_vars

CloudExhausted == \A n \in NIC : cloud[n] # "absent"

\* A pool with fewer than poolSize free addresses is refilled, unless the daemon
\* dies or the cloud gives no more NICs.
PoolRefilled ==
    (Serving /\ total - assigned < poolSize /\ ~CloudExhausted) ~>
        (~Serving \/ total - assigned >= poolSize \/ CloudExhausted)

\* The pool does not oscillate: once the pods stop changing, NICs are neither
\* created nor deleted for ever.
PoolSettles == <>[][cloud' = cloud]_vars

\* The daemon reaches the end of its start-up for good, crashes and restarts
\* notwithstanding, unless every NIC the cloud grants exists already.
DaemonReady == <>[](pc.main = "ready" \/ CloudExhausted)

=============================================================================
