# A TLA+ development of hostnic-cni

hostnic-cni gives Kubernetes pods addresses of QingCloud network interfaces (NICs).
Each node runs a daemon (`hostnic-agent`) that keeps a pool of NICs and their
addresses, and the kubelet calls a CNI plugin (`hostnic`) that asks the daemon for an
address when a sandbox is created and gives it back when the sandbox is deleted.

This directory holds a model of the parts of the system where a mistake costs most
and is hardest to test: who holds which address, across failures, lost replies and
restarts of the daemon; how a node comes by its network; and the rules, routes and
packet filter of the host, which plugin and daemon change call by call.

## The system

| Part | Source | State | Operations | Interacts with |
|---|---|---|---|---|
| Address store | `pkg/ipam/datastore/datastore.go` | NICs, their addresses with mark and release time, pods with the address each holds, three counters | add and remove NIC, add and remove address, assign, unassign | called by start-up, pool manager and handlers under one lock; `GetStats` without it |
| Start-up | `pkg/ipam/ipam.go` | none of its own | `setup`, `prepareLocalPods`, `Start`, `WriteCNIConfig` | cloud, API server, kernel, store |
| Pool manager | `pkg/ipam/pool_manager.go` | none of its own | grow by a NIC, shrink by a NIC | cloud, store |
| gRPC handlers | `pkg/ipam/grpc_handlers.go` | none | `AddNetwork`, `DelNetwork` | store; called by the plugin |
| VxNet management | `pkg/ipam/vxnet.go` | the node's network in the VPC and its annotation | `EnsureVxNet` | cloud, API server, other nodes |
| CNI plugin | `cmd/hostnic/hostnic.go` | none | `add`, `del` | daemon over gRPC, driver |
| Pod network driver | `pkg/driver/driver.go` | veth pairs, routes, rules | `SetupNS`, `TeardownNS` | kernel |
| Host network utilities | `pkg/networkutils/networkutil.go` | rules, routes, iptables of the host | `SetupHostNetwork`, `SetupNICNetwork`, `UpdateRuleListBySrc` | kernel |
| QingCloud client | `pkg/qcclient/wrapper.go` | none; the cloud's | NICs, VxNets, VPCs, tags | cloud |
| Kubernetes client | `pkg/k8sclient` | informer caches | `GetCurrentNodePods`, `GetCurrentNode`, `UpdateNodeAnnotation` | API server |
| Entry point, script | `cmd/daemon/main.go`, `scripts/install_hostnic.sh` | the CNI configuration file | start, stop, clean-up | kubelet reads the file |
| Retry | `pkg/retry/retry.go` | none | `Do` | start-up, cloud client |

What is hard about it, and what makes each part correct:

- **Store.** Any interleaving of calls is a sequence of critical sections, so the
  question is what long sequences do: the counters must agree with the maps, a
  pod's address must stay marked, an address must have one holder, an address and a
  NIC must rest for their cooling periods.
- **Start-up.** Everything the store knew is lost with the process. The addresses of
  running pods must be out of the pool before the first request is answered, from an
  API server that may be behind; and start-up must come to an end.
- **Pool manager.** It decides on two counters read without the lock, then acts. The
  removal must look again. A NIC must enter the store after the cloud attaches it and
  leave before the cloud detaches it. The pool must be refilled, and must not oscillate.
- **Handlers and plugin.** Replies are lost, set-up fails half way, the kubelet
  deletes a sandbox more than once. No address may leak or be released under a running pod.
- **VxNet management.** A crash between two calls to the cloud, calls that fail half way,
  and two nodes choosing one subnet. A node must end up with one network, in the VPC, and
  know its subnet.
- **Driver.** Release of the address before the rules are removed; rules a failed set-up
  or teardown leaves behind for the next owner of the address; the routing table
  named by an interface index before a restart and by a sequence number after it. A running
  pod must stay reachable and be routed through the NIC that carries its address.
- **Host network.** Every start makes the chains of the packet filter anew, beside running
  pods; any call may fail and end the start, and the next one may have other settings and other
  networks. Traffic inside the VPC must never be translated, and a start must end with what it asked for.

`PROJECT.json` lists the hazards line by line, with the property that covers each.

## Modules

| Module | Models | Extends |
|---|---|---|
| `DataStore` | the store; one action per exported operation | |
| `DataStoreProofs` | theorems about the store | `DataStore` |
| `IpamD` | start-up, pool manager, handlers, calls to the cloud | `DataStore` |
| `Node` | kubelet, plugin, API server, crashes, the clock; composes everything | `IpamD` |
| `NodeProofs` | theorems about the node's types and its NICs | `Node`, `DataStoreProofs` |
| `NodeUseProofs` | theorems about the addresses that sandboxes use | `NodeProofs` |
| `VxNet` | `EnsureVxNet` on several nodes of one VPC; stands alone | |
| `VxNetProofs` | theorems about `EnsureVxNet` | `VxNet` |
| `AddressPool` | the abstract specification of the store: addresses in the pool, at rest, held | |
| `DataStorePool` | the store in the daemon's order, and its mapping to `AddressPool` | `DataStore` |
| `DataStorePoolProofs` | theorem that the store implements the pool | `DataStorePool`, `DataStoreProofs` |
| `PodNetwork` | `SetupNS`, `TeardownNS`, `setupNICNetwork`, `UpdateRuleListBySrc` over the kernel's tables; stands alone | |
| `PodNetworkProofs` | theorem that running pods are reachable | `PodNetwork` |
| `PodRulesProofs` | theorems about types, the tables the rules lead to, what is left behind, and that running pods are routed | `PodNetworkProofs` |
| `HostNetwork` | `SetupHostNetwork` at each start; stands alone | |
| `HostNetworkProofs` | theorems about `SetupHostNetwork` | `HostNetwork` |
| `MCDataStore`, `MCNode`, `MCVxNet`, `MCPodNetwork`, `MCHostNetwork` | small instances | |

**DataStore.** `nicIPPools`, `podsIP`, `total` and `assigned` are the fields of the Go
struct. The address map inside each NIC's record is the variable `IPv4Addresses`, keyed
by NIC and address. Every operation holds the lock, so each is one action; an operation
that returns an error changes nothing and is the action being disabled. Loops over Go
maps settle on any NIC or address, which is why those are parameters. Times are ages
that stop growing at `AgeCap`, above which every comparison the code makes is true; the
ages grow together in `Tick`, so durations are compared as the code does, with `>` for
an address and "not before" for a NIC. `StoreSpec` lets any operation be called with any
argument; `DaemonSpec` is restricted to what the daemon is meant to do: an address is on one
NIC, and pods recovered at start-up report distinct addresses.

**AddressPool and DataStorePool.** The pool knows nothing of NICs, marks, counters and times: an address
is given when it is in the pool, nobody has it and it does not rest, and withdrawn only then;
before the pool opens, holders from before are put back. `OrderedSpec` lets the store's operations
run in the order of the daemon: `setup` recovers, then `Start` opens, and no pod is recovered any
more. Under the mapping an address is in the pool if some NIC carries it, rests while it is free and
no older than its period, and the pool is open when the daemon serves.

**IpamD.** The main thread and the pool manager are program counters; between two labels
a thread holds no lock. `setupNic` has two labels because AddNIC and AddIPv4AddressFromStore
are two critical sections with a slow kernel operation in between. `GetStats` is two
reads in either order, since the code takes no lock. `CreateNic` is four steps (create,
describe, attach, set up) and `DeleteNic` two (detach, delete), each with its failure.
`DelNetwork` is two critical sections: the lookup by key, then the lookup by name;
`fallback` holds the calls in between. `ProcessDies` ends the process; the cloud
and the configuration file stay.

**Node.** A sandbox goes from `none` through `adding`, `replied` and `up` to `deleting` and
`gone`; `failed`, `cleanup` and `redeleting` are the plugin's error paths and the kubelet's
repeated deletion. `addr` is the address a sandbox has configured, `api` what the API
server shows of a pod, `idle` how long an address has been out of use on the node. `idle`
is what the cooling comments speak of; the store's own ages are what the code has. The constant `Faults`
names what the environment does in an instance (the module lists the names).

**VxNet.** Each node's daemon is a record: where it is between two calls, the network it
has, the subnet it takes that network to have, and the subnets it believes the VPC has. The cloud
(`name`, `router`, `unused`) and the annotations survive it. One action is one call with the
decision the code takes on its answer; `Wrong(f)` is the same call going wrong, as often as
`MaxFaults` allows in all. A network found by name gets one attempt to join, a new one
`JoinAttempts`. `chooseIPFromVxnet` changes the octet in memory that the network's own
subnet shares, which `GetVPCVxNets` reproduces when the search comes up empty. Assumed of
the cloud: it refuses to join a network that is in the VPC, or under a subnet in use.
`IpamD` starts where this ends: its NICs are those of the node's one network.

**PodNetwork.** The variables are the kernel's (`tables`: the NIC of each routing table's default route,
`toRules`, `fromRules` in order, `veth`, `hostRoute`, `localAddr`), the daemon's (where its main
thread is, the NIC it is setting up, the rules it listed, the call of `UpdateRuleListBySrc` in progress) and
the plugin's (`step`, and the rules it has yet to add or delete). One action is one netlink call, so
that plugins of different pods, the main thread and the pool manager interleave between any two. A
rule added goes behind the others of its priority, one that exists is an error where the code takes
it for one. `Routing` is how the kernel reads the rules: the first that matches and whose table has a route.
The store is abstracted to what `Node` and `IpamD` show of it: `stored` and `podsIP`. `Cooled` is the
promise `CoolingHonoured` is about, seen from here: a teardown is over before the address is given
again. The fault `slow` takes it back.

**HostNetwork.** `config` is the `linuxNetwork` of a start with the networks it read, `at` the chain or the rule it has
come to; the kernel has `markRules`, `looseIntf` and `iptables`. `iptableRules` is the list the code builds, in its
order. A call that fails ends the process (`Stop`), as a crash or an update does; `Reboot` empties the
kernel's tables. `Start` draws other settings and another list of networks each time. `Translations`
is what the kernel may do with a packet: it follows the jumps from chain to chain, and collects every translation the
packet may meet, in whatever order a chain has its rules. `MaxNetworks` bounds the lengths of the lists.

A property that the code breaks under some fault is checked without that fault in a
passing run; "What the violations show" names every such exclusion.

## Runs

| Run | Instance | Shows |
|---|---|---|
| `store` | 2 NICs, 3 addresses, 2 pods x 2 containers, the daemon's order of calls | `StoreTypeOK`, `Accounting`, `DistinctHolders`, `Ownership`, `RemovedNICIsCold`, `ImplementsPool` |
| `node` | 2 NICs, 2 sandboxes of a pod, lost replies, failed set-up, repeated deletion | `NodeTypeOK`, `NoLostNIC`, `NoLeakedAddress`, `UsedAddressHeld`, `CoolingHonoured` |
| `restart` | 2 NICs, 2 pods, failed set-up, one kill at any step with the API server up to date | `NoDoubleUse`, `UsedAddressHeld`, `UsedNICAttached` |
| `faults` | 1 NIC, 2 pods, every failure, one kill, a pool that always shrinks | `StoreNICAttached` |
| `live` | 2 NICs, 1 pod, one kill, fairness | `PoolRefilled`, `PoolSettles`, `DaemonReady` |
| `leak` | 1 NIC, 2 sandboxes of a pod, one kill | violates `DeletedPodReleased` |
| `evicted` | 1 NIC, a pod without container statuses, fairness | violates `DaemonReady` |
| `vxnet` | 2 nodes, 4 networks, 2 free subnets, up to 4 failures | `VxNetTypeOK`, `OneNetwork`, `OwnSubnetKnown` |
| `vxnet_live` | the same with 4 free subnets, up to 2 failures, fairness | `ReadyJoined`, `AnnotationSound`, `Guaranteed` |
| `vxnet_full` | 2 nodes, 1 free subnet, no failure | violates `ReadyJoined` |
| `podnet` | 3 NICs, the third with the first one's address, 2 pods, one kill, one failing call | `PodNetworkTypeOK`, `PodReachable`, `OwnNICOnly`, `RunningPodsRouted`, `NothingLeftBehind` |
| `host` | 3 networks in 3 lists, 5 environments, 2 marks, up to 2 interruptions or reboots, fairness | `HostTypeOK`, `TranslatedOutsideVPC`, `NeverTranslatedInVPC`, `NodePortReplies`, `HostReady` |

**Bounds.** `AgeCap`, `MaxTries` (attempts of `retry.Do`: 5 and 10 in the code, 1 or 2
here), `MaxCrash` and the number of sandboxes. Two NICs with an address each let one be in use
while the other is free, created, attached or removed; two pods compete for them. The
cloud's limit on NICs is the number of NICs of the instance. Cooling periods are 0 or 1
(address) and 1 or 2 (NIC) ticks: what matters is their order and that time can be short
of, at and past each. `poolSize` and `maxPoolSize` are 1 (3 and 10 in the code); in
`faults` `maxPoolSize` is 0, so that the single NIC is removed too. Device
numbers are handed on and never compared, so that in the larger runs one stands for all and NICs
(and pods) can be exchanged: these runs use symmetry. Attempts
of `Start` to see a free address only run out under the fault `slow`, since the model's clock does
not relate the 70 s of its attempts to the time the cloud takes.

In `VxNet` two nodes and one subnet taken by another network are enough for a race, two attempts
for a retry after a lost or refused join; four networks leave room for each deleted or
duplicated one within the failures allowed, except when more than two failures of `vxnet` end in
a deletion, where `CreateVxNet` stops. Subnets are the octets 1 to 5 (1 to 252 in the code).

In `store` three addresses on two NICs let a NIC with one address in use and one at rest be
tested for removal. Two operations of `StoreSpec` that the daemon never calls, `DelIPv4AddressFromStore` and
`RemoveNICFromDataStore`, and the recovery of one address for two pods are not in this run; they are covered by the
proofs about `StoreSpec`.

In `PodNetwork` an address that comes back with another NIC, and so with another table, is what stale
rules can hurt: `n3` carries the address of `n1`, and a NIC is attached once, so that the
rules of a pod on `n1` can meet those of one on `n3`. Two pods with a sandbox each compete for two
addresses. One kill and one failing call (`MaxCrash`, `MaxFailures`) are bounds; a second kill did not
finish. The kill comes while no `SetupNS` runs, for the API server shows an address only of a sandbox that
is up (what else it may show is the subject of `Node`). The two pods with their sandboxes are exchangeable, as are
`n1` and `n3`, which differ in their numbers only and numbers are only compared: the symmetry set exchanges
the pods, and the constraint `FirstBeforeThird` keeps of two such behaviours the one that
attaches `n1` first. Two NICs have no common number in this instance.

In `HostNetwork` a list of networks grows, shrinks and changes its order, and the environments have
every value of each setting. Two interruptions let a set-up find the remains of one that found the
remains of another.

**Deadlock** is checked in every run but those where the system may rest: in `VxNet` once all daemons
have their networks and nothing more may fail (`Guaranteed` says that they get there), in
`HostNetwork` once it is set up (`HostReady` says so), in `PodNetwork` once every sandbox and NIC has had
its one life.

**Fairness** (`Fairness` in `Node`). Weak fairness of the main thread, the pool manager,
the clock and the plugin: the Go scheduler runs a goroutine that can run, calls to the cloud
return, the daemon set restarts the container, and the plugin finishes the command it
was called for. There is none for starting, killing or publishing a sandbox, nor for
crashes. In `VxNet` each daemon's steps are weakly fair, its restart by the kubelet among them;
failures are not, and `MaxFaults` bounds them. In `HostNetwork` the kubelet starts the daemon again and
each call returns; interruptions are not fair and bounded by `MaxStops`. `PoolRefilled` and `DaemonReady` allow for a cloud that has no NIC left.

## What the violations show

- `leak`. A comment in `grpc_handlers.go` expects recovered pods to be known by
  name alone. They are recovered under the identifier of their first application container,
  which no deletion carries: the lookup by sandbox and the lookup by name both miss, and the
  address stays taken by a pod that is gone, until the next restart.
- `evicted`. `ContainerStatuses[0]` on a pod that has none is a panic, on every start.
- `vxnet_full`. `joinVPC` without a free subnet joins nothing and returns no error, so the
  daemon annotates the node with a network outside the VPC, and trusts it at every later start.

Some properties fail when a run is given a fault it excludes. The cfg change that shows each,
the property being checked alone:

- `CoolingHonoured` with `MaxCrash = 1` in `MCNode.cfg`: release times are lost with the process,
  so an address can move to another sandbox at once after a restart. The comment on `addressCoolingPeriod` in
  `datastore.go` makes no such exception.
- `UsedAddressHeld` with `Faults = {"rules"}` in `MCNodeLeak.cfg`: where `GetRuleList` fails, `prepareLocalPods` returns
  no error and recovers no pod, and the addresses of running pods are in the pool, from which a comment in
  `assignPodIPv4AddressUnsafe` says a restart needs to take them.
- `UsedAddressHeld` with `Faults = {"lag"}` in `MCNodeLeak.cfg`: a running pod whose address the
  API server does not show is skipped after the retries, and its address is free for others.
- `UsedAddressHeld` with `Faults = {"dupdel"}` in `MCNodeLeak.cfg`: the lookup by name does not tell
  sandboxes of one pod apart. After a restart a second deletion of an old sandbox frees the running one's address.
- `UsedAddressHeld` with `Faults = {"slow"}` in `MCNodeLeak.cfg`, or `{"cloud"}` in `MCNodeRestart.cfg`: a daemon that gives up
  waiting for an address, or panics because the cloud does not describe a new NIC, ends beside a pod whose status is not published yet.
  With `cloud` it does so without any kill.
- `NoLostNIC` with `Faults = {"cloud"}`, `{"network"}` or `{"slow"}` or with `MaxCrash = 1` in `MCNodeLeak.cfg` (and
  `MaxCrash = 0` for the faults): a NIC that has been created stays behind where a later call fails or the process ends.
- `NoLeakedAddress` with `MaxCrash = 1` in `MCNodeLeak.cfg`, for the reason that the run `leak` shows.
- `OwnSubnetKnown` with the fault `list` in `MCVxNet.cfg`: `GetVPC` only logs that the VPC's
  networks could not be listed, and a daemon that joined its network in an earlier life goes on
  without any subnet.
- `Guaranteed` with the fault `apilost` in `MCVxNetLive.cfg`: `UpdateNodeAnnotation` can succeed
  at the API server and fail for the daemon, which deletes the network the annotation names and
  never starts again. `AnnotationSound` fails with it, and `ReadyJoined` if the deletion stops half way.
- `PodReachable` with the fault `slow` in `MCPodNetwork.cfg`: `del` releases the address first and tears
  down afterwards; a teardown slower than the cooling period takes the rules of the next pod.
- `OwnNICOnly` with `IfIndex[n2] = Sequence[n1]` in `MCPodNetwork`: after a restart `n1` is set up in the table that
  a new `n2` takes for its own.
- `RunningPodsRouted` with the fault `slow` and two pods that take turns with one address: the slow
  teardown deletes rules of the next pod. Without it, but with three NICs of one address, three sandboxes of a pod
  in turn, two kills, two failed teardowns and `IfIndex[n3] = Sequence[n1]`: the rule the first sandbox left is good enough for
  the third, whose NIC has the same number, but behind it is the one the second left, and the next start takes
  from that last one the table to keep, which has no route.

## Proofs

`DataStoreProofs` proves, for any sets of NICs, addresses, pods and containers and any
lengths of the periods:

- `TypeCorrect`: `StoreSpec => []StoreTypeOK`.
- `AccountingCorrect`: `StoreSpec => []Accounting`. The invariant is `CountInv`: types, the
  finiteness of the address map (without which cardinalities do not follow the counters)
  and `Accounting`. Lemmas `IncrementCounts`, `UnassignCounts` and `DropNICCounts` say that
  each counter moves with the set it counts; dropping a NIC needs its own counter to
  be zero to conclude that no assigned address goes with it.
- `OwnershipCorrect`: `DaemonSpec => [](DistinctHolders /\ Ownership)`. The invariant is
  `OwnerInv`: `CountInv` turns the code's test of a NIC's counter into a test of its
  addresses, `OneNIC` makes the address a pod holds determine its NIC, `ReleaseTimes`
  relates each address's release to its NIC's.
- `RemovalSafe`: `DaemonSpec => RemovedNICIsCold`, from the same invariant.

They assume `PeriodAssumption`, `AgeCapAssumption` and `DeviceAssumption` of `DataStore`.

`DataStorePoolProofs` adds `PeriodOrder` (an address rests for a shorter time than its NIC, 30 s and 1 min in
the code), for any sets and any such periods:

- `PoolImplemented`: `OrderedSpec => ImplementsPool`. Each step of the store is a step of the pool or leaves it
  alone. `OrderedInv` is `OwnerInv` with `NoneReleased`: before the daemon serves nothing has been
  released, so that a recovered address cannot be at rest. `GiveView`, `ReleaseView` and `RemoveView` say what
  an assignment, a release and a removal look like through the mapping. The removal is where the order of
  the periods matters: the code looks at the NIC's release time only, and a NIC past its own period has
  no address within the shorter one.
- `DistinctHoldersCorrect`: `OrderedSpec => []DistinctHolders`, since `OrderedSpec` implies `DaemonSpec`.

TLC checks the same properties first, in the run `store`. `StoreSpec` includes the recovery of one address for two
pods; `DaemonSpec` and `OrderedSpec` do not (`HeldByNoPod`): a second holder is excluded there, and
`StoreDrivenInOrder` below says when the daemon keeps to that.

`VxNetProofs` proves, for any number of nodes, networks, subnets, attempts and failures:

- `ChoiceCorrect`: `chooseIPFromVxnet` returns the lowest subnet not in use, and none only if
  all are. It rests on the well-foundedness of `<`.
- `VxNetTypeCorrect`: `Spec => []VxNetTypeOK`. Types alone are not inductive: `GetVxNet`
  and the calls after it look up the network the daemon holds, so `TypeInv` adds that a
  daemon past the search holds one.
- `OneNetworkCorrect`: `Spec => []OneNetwork`, with every fault. `OneInv` adds that a daemon creates a
  network only while its node has none, which no other daemon can change, and that an identifier not given
  yet names nothing.
- `ReadyJoinedCorrect`: `Spec /\ []SubnetFree => []ReadyJoined /\ []AnnotationSound` unless
  `"apilost"` is among them. `JoinInv` carries the network's owner, its subnet and
  the fact that no annotation names it yet from its creation to the end of `EnsureVxNet`: only so is
  giving it up (`LeaveVPC`, `DeleteVxNet`) harmless. `SubnetFree` says that the VPC has room
  for another network; the run `vxnet_full` shows that it is needed.
- `AnnotationSoundCorrect` states the half of it that a later start relies on.
- `OwnSubnetCorrect`: `Spec => []OwnSubnetKnown` unless `"list"` is among them. The VPC's
  subnets are read once; `SubnetInv` says that afterwards only the node's own daemon joins a
  network the node may come to use.

Each has one effect lemma per action (what it does to the types and to the daemon's record)
and one step lemma per invariant. They assume `VxNetAssumption`; each excluded fault has a
counterexample, listed above. The runs `vxnet` and `vxnet_live` check the same properties.

Two modules prove about `PodNetwork`, for any number of NICs, addresses, pods and sandboxes, any
list of networks, and any number of kills of the daemon and of failing calls:

- `PodReachableCorrect` (`PodNetworkProofs`): `Spec => []PodReachable` unless `"slow"` is among the
  faults. At the moment a pod comes up the property is a matter of a few assignments; what has to be
  shown is that nobody takes anything back later. `PodNetworkInv` says why: no two
  sandboxes work on one address, one that tears down included (`Exclusive`); the daemon holds
  every address in use, or has yet to recover it, and holds none for another pod (`HeldInv`,
  `KeysInv`), through the phases of a start-up (`PhaseInv`); every address in use is on a NIC whose interface
  has given it up (`NICInv`); and the policy is complete up to the step of `SetupNS` (`WiredInv`).
- `PodNetworkTypeCorrect` (`PodRulesProofs`): `Spec => []PodNetworkTypeOK`, with every fault. That no list
  of rules holds a rule twice and that nothing is taken from an empty list need `RulesInv`.
- `OwnNICOnlyCorrect`: `Spec => []OwnNICOnly`, with every fault, if the device numbers of NICs with
  different addresses differ (`Numbered`). `RulesInv` says that every rule of an address, every rule
  the daemon has read and every rule anyone has yet to write or to delete leads to a table numbered
  after a NIC of that address. The kernel's indices and the cloud's sequence numbers do not promise
  `Numbered`: the counterexample is above.
- `NothingLeftBehindCorrect`: `Spec => []NothingLeftBehind` unless `"slow"` is among
  the faults. `CleanInv` adds to both invariants that without failures no error path is taken (`PathInv`), that
  `del` finds each sandbox under its own key with the address it has (`KeyInv`), and that the list a
  teardown works through is all there is (`TracesInv`): no other process writes rules of the address meanwhile.
- `RunningPodsRoutedCorrect`: `Spec => []RunningPodsRouted` if no number is used for two NICs
  (`Distinct`) and `"slow"` is not among the faults; a counterexample without either is above. Teardowns that fail leave rules
  behind, and `UpdateRuleListBySrc` writes the new rules to the table of the last rule it has read. That this
  is the pod's own needs `RoutedInv`: in every list of rules the stale ones, whose NIC has gone, come first
  (`StaleFirst`), and an address that is to be recovered has either no rule or one that is not stale
  (`NotAllStale`). A loop that deletes what it has read keeps both, for it begins with the stale
  ones (`LoopDeletes`), even when it is broken off; a NIC that goes makes all rules of its address
  stale at once. `UsedInv` says that a table some rule names, in the kernel or in
  anybody's hands, has a route as long as its NIC is on the host, so that a rule that is not stale decides (`InvRouted`);
  and `UpdateInv` and `SandboxRules` that the rules half written by the daemon or a plugin process, with those it
  has yet to write, cover every network.

They assume `PodNetworkAssumption`. The run `podnet` checks the same properties.

`NodeProofs` and `NodeUseProofs` prove about the whole node, for any number of NICs, pods, sandboxes and attempts, any
periods and pool sizes. What is proved for which environment:

| Theorem | Property | Environment |
|---|---|---|
| `NodeTypeCorrect`, `NodeAccountingCorrect` | `NodeTypeOK`, `Accounting` | any |
| `StoreNICAttachedCorrect` | `StoreNICAttached` | any |
| `NoLostNICCorrect` | `NoLostNIC` | no kills, none of the faults `cloud`, `network`, `slow` |
| `UsedAddressHeldCorrect`, `NoDoubleUseCorrect`, `UsedNICAttachedCorrect`, `StoreDrivenInOrder`, `NodeOwnershipCorrect` | `UsedAddressHeld`, `NoDoubleUse`, `UsedNICAttached`, `DaemonSpec`, `DistinctHolders` and `Ownership` | `Quiet` or `Careful` |
| `NoLeakedAddressCorrect` | `NoLeakedAddress` | `Quiet` |
| `CoolingHonouredCorrect` | `CoolingHonoured` | `Quiet`, and a NIC's period longer than an address's |

`Quiet` is a daemon that nothing kills: no `Crash`, and not the fault `cloud`, under which a panic ends it. Replies may be
lost, set-ups fail, sandboxes be deleted twice. `Careful` allows any number of kills, but not `lag` (so the API server
is up to date when the daemon dies), `dupdel` (no repeated deletion), `rules` (the rules can be read at start-up), nor
`cloud` and `slow`, under which a daemon ends by itself at a moment that `lag` does not govern. Every excluded fault
has its counterexample under "What the violations show".

- `TypeInv` is `CountInv` of the store with the types of the daemon (`DaemonTypeOK`) and of its surroundings
  (`NodeVarsOK`). The store's counters belong to it: a thread keeps what it read of them.
- `NICInv` adds to `StoreNICAttached` the NICs on their way: those a thread is about to put into the store are attached,
  the one that the pool manager attaches or deletes is not in the store, and the pool manager does not run beside start-up.
- `KeptInv` adds to `NoLostNIC` that before the daemon serves there is no NIC to lose, and that the pool manager drops its
  NIC from `work` only when the store or the cloud has settled it.
- `UseInv` is one invariant for the three properties of addresses in use, since each needs the others.
  `SandboxInv` ties addresses to the sandboxes' states and gives a pod one sandbox at a time; `OwnAddress` and
  `OwnerInv` make the store speak of the cloud's addresses. A restart is the hard part: `ApiShowsUse` says that
  while the daemon does not serve, every address in use is shown at its pod and at no other; `NICsComing` and
  `PodsComing` that start-up has put every attached NIC and every such pod into the store, or has yet to. At its end
  nothing is left to come, and `UsedAddressHeld` holds again. What a step may not do for this to work is `Orderly`;
  `CarefulOrderly` and its counterpart for `Quiet` show that the two environments do none of it.
- `NoRedelete` is all that `Careful` needs beside it. `QuietInv` serves `Quiet`: no pod exists before the daemon first
  serves (`NoPodYet`), and every entry of the store is of a sandbox not yet deleted, while the second
  lookup of `DelNetwork` runs only for keys without an entry (`EntriesLive`).
- `CoolInv` compares the clock of the node with that of the store: an address is held, or out of use for longer than its
  period, or its release is in the store and not older than its last use. The last of these is lost when the
  NIC is deleted, which is why the NIC's period has to be the longer one.

They assume the store's assumptions, `CloudAssumption` and `PoolAssumption` of `IpamD` and `NodeAssumption`. The runs `node`,
`restart` and `faults` check the same properties.

`HostNetworkProofs` proves, for any networks, lists of them, settings and marks, and any number of interruptions and
reboots, the four safety properties of `HostNetwork`: `HostTypeCorrect`, `NodePortRepliesCorrect`,
`NeverTranslatedCorrect`, `TranslatedOutsideCorrect`. The invariant is `HostInv`:

- `TypeInv` says where the process is and which rules a chain may hold, of any start;
- `ChainsInv` that the chains of this start are empty once made, and hold just their own rule once `EnsureRule` has come
  past it (`Past`): nothing that an earlier start has put there survives;
- `BuiltInInv` and `MarkInv` the same of the rules in the built-in chains and of the mark;
- `BarrierInv` that every network all starts have known has a barrier: a chain that its packets do not leave, with no
  translation in it or before it. `NewChain` keeps a barrier, for it only takes rules away. `EnsureRule` can take one
  away by filling an empty chain, but then the next chain is still empty; and when the last
  gets its translation, the chain of the network itself is one. It holds between any two calls, and across starts with
  other lists.

`ItemCases` says what stands at each place of `iptableRules`, for a list of any length; `AppendRuleFacts` and `RemoveRuleFacts`
what `EnsureRule` does to a chain. They assume `HostNetworkAssumption`. The run `host` checks the same properties, and
checked the parts of `HostInv` before they were proved.

Only model-checked: liveness (`PoolRefilled`, `PoolSettles` and `DaemonReady` of `Node`,
`HostReady`, `Guaranteed` of `VxNet`), which is out of the prover's reach.

## Not modelled

- Tags of cloud resources; the refresh of the VPC's subnets (the code has none); the network for VPN
  traffic that `AddNetwork` may add to its reply (no code sets `supportVPNTraffic`).
- The gateway's address, the MTU, the end of `dhclient`; the order of a NIC's two routes, which come and go
  together here.
- Rules, routes and filters of other programs of the host.
- `SetupNS` asked for external translation: the reply of `AddNetwork` always says no, whatever
  the daemon's setting. `UpdateRuleListBySrc` does follow the setting, at the next start.
- What `SetupHostNetwork` never takes back, after a change of settings: the rules of an earlier connection mark, the
  connection-mark rule of an interface other than `eth0` once node ports are off, and the reverse path filter.
  Nothing acts on such a mark any more unless the settings change back.
- While the chains are made anew, what leaves the VPC goes untranslated for a moment. The code accepts
  that; `NeverTranslatedInVPC` is about the opposite mistake.
- Calls of the cloud that answer with a return code: the vendored client turns every code but 0 into an error
  (`parseError` in `request/unpacker.go`), so that the tests of `RetCode` in `wrapper.go` never see another.
- A creation of a NIC that takes effect and is reported to fail: it leaves the state that `DescribeNicFails` leaves, in one
  step instead of two. A server that cannot listen, a configuration file that cannot be written: both end the process in
  `Start`, as a kill does.
- In `PodNetwork`, which takes the store and the cloud as they are when nothing fails there: a failing `DeleteNic` (`DetachNIC`
  takes the NIC from the store and from the host at once) and a failing `GetRuleList` (`ListPodsAndRules` lists both at once). `IpamD`
  has each call and its failure. `AddRoutes` adds the routes, takes the one of the main table away and enters the NIC in the store in
  one step; a `RouteDel` that fails there is not modelled.
- Several crashes in one behaviour of `Node` or `PodNetwork`, and the informer loops stopped by a signal.
- Prometheus gauges, logging, templates.
- Generated messages, wrappers and test doubles.

## Plan

1. Done: `DataStore`, `IpamD`, `Node`, `VxNet`, their runs, and the proofs about the store
   and about `VxNet`.
2. Done: `PodNetwork` and `HostNetwork`, and their runs.
3. Done: `AddressPool`, the store as its refinement, and the proof.
4. Next: an abstract allocation of subnets with `VxNet` as its refinement; `PodNetwork` composed with
   `Node`, so that `Cooled` is the store's own ages instead of a promise.
5. Done: the proofs about `PodNetwork`, `Node` and `HostNetwork`, which state every invariant the runs check.
