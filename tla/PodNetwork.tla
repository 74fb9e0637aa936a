----------------------------- MODULE PodNetwork -----------------------------
(***************************************************************************)
(* The routing policy of the host: the interfaces, rules and routes that   *)
(* the CNI plugin (pkg/driver/driver.go, called by cmd/hostnic) makes for  *)
(* each sandbox, and those the IPAM daemon makes for each NIC and repairs  *)
(* at start-up (setupNic and prepareLocalPods of pkg/ipam/ipam.go, with    *)
(* pkg/networkutils/networkutil.go).                                       *)
(*                                                                         *)
(* Plugin processes and the daemon change the kernel's tables call by call *)
(* and without a common lock: each netlink call is one action.  What IpamD *)
(* and DataStore show in detail is kept abstract here: the store is the    *)
(* set of NICs that can serve and the addresses held, the cooling period   *)
(* is the promise that a teardown is over when an address is given again.  *)
(*                                                                         *)
(* Faults names what may go wrong, at most MaxFailures times:              *)
(*   "setup"     a call of SetupNS fails                                   *)
(*   "teardown"  a call of TeardownNS fails                                *)
(*   "nic"       a call of setupNICNetwork fails                           *)
(*   "update"    a call of UpdateRuleListBySrc fails                       *)
(*   "slow"      a teardown takes longer than the cooling period           *)
(***************************************************************************)
EXTENDS Integers, Sequences, Functions, SequencesExt

CONSTANTS
    NIC,           \* NICs, each attached at most once
    Addr,          \* addresses
    AddrOf,        \* the address of each NIC, which is the address a pod is given
    IfIndex,       \* the kernel's index of a NIC's interface
    Sequence,      \* the cloud's sequence number of a NIC on this instance
    toCIDRs,       \* the networks of the VPC, and the VPN network, in order
    AnyDst,        \* a rule without a destination
    Pod, Sandbox, PodOf,
    AppContainer,  \* identifier of a pod's first application container
    NoContainer,   \* the empty identifier
    None,
    MaxCrash,
    MaxFailures,
    Faults

ASSUME PodNetworkAssumption ==
    /\ AddrOf \in [NIC -> Addr]
    /\ IfIndex \in [NIC -> Nat \ {0}]
    /\ Sequence \in [NIC -> Nat]
    /\ PodOf \in [Sandbox -> Pod]
    /\ toCIDRs \in Seq(Range(toCIDRs)) /\ toCIDRs # << >>
    /\ AnyDst \notin Range(toCIDRs)
    /\ AppContainer \notin Sandbox \cup {NoContainer}
    /\ NoContainer \notin Sandbox
    /\ None \notin NIC \cup Addr \cup Sandbox
    /\ MaxCrash \in Nat /\ MaxFailures \in Nat

VARIABLES
    \* the kernel
    links,      \* NICs that have an interface on the host
    localAddr,  \* NICs whose address the host itself uses
    tables,     \* number of a routing table |-> the NIC of its default route
    toRules,    \* addresses with a rule "to address lookup main"
    fromRules,  \* address |-> its rules "to destination lookup table", oldest first
    veth,       \* the sandbox at the other end of the host interface named for a pod
    hostRoute,  \* the sandbox to whose interface the host routes an address
    \* the daemon
    daemon,     \* where its main thread is
    setting,    \* the NIC it is setting up, and how far it is
    todoNICs,   \* NICs it has yet to set up at start-up
    number,     \* the device number the store has for a NIC, 0 if it has none
    stored,     \* NICs whose address is in the store
    podsIP,     \* pod and container |-> the address held, with its device number
    listed,     \* the rules GetRuleList returned at start-up
    todoPods,   \* pods it has yet to recover
    update,     \* the call of UpdateRuleListBySrc in progress
    externalSNAT, \* whether this start leaves translation to an external gateway
    \* the plugin
    step,       \* where each sandbox is in its life
    addr,       \* the address the daemon's reply named
    table,      \* the device number the daemon's reply to add named, until the rules are made from it
    todo,       \* the rules it has yet to add, or to delete
    \* bounds and history
    retired,    \* NICs that have been detached
    crashes, failures,
    broken      \* addresses whose last update failed

kernelVars == <<links, localAddr, tables, toRules, fromRules, veth, hostRoute>>
daemonVars ==
    <<daemon, setting, todoNICs, number, stored, podsIP, listed, todoPods, update, externalSNAT>>
pluginVars == <<step, addr, table, todo>>
histVars == <<retired, crashes, failures, broken>>
vars == <<kernelVars, daemonVars, pluginVars, histVars>>

Table == {IfIndex[n] : n \in NIC} \cup {Sequence[n] : n \in {m \in NIC : Sequence[m] > 0}}

Dst == Range(toCIDRs)

Rule == [dst : Dst \cup {AnyDst}, table : Table]

Key(s) == <<PodOf[s], s>>

RuleExists(a, r) == r \in Range(fromRules[a])

\* RuleDel of an existing or a missing rule, RuleAdd behind the rules of the
\* same priority.
RuleDel(a, r) ==
    IF RuleExists(a, r)
      THEN \E i \in DOMAIN fromRules[a] :
             fromRules[a][i] = r /\ fromRules' = [fromRules EXCEPT ![a] = RemoveAt(@, i)]
      ELSE UNCHANGED fromRules

RuleAdd(a, r) ==
    fromRules' = [fromRules EXCEPT ![a] = IF RuleExists(a, r) THEN @ ELSE Append(@, r)]

SetupSteps == {"veth", "route", "delTo", "addTo", "addFrom"}
TeardownSteps == {"tearTo", "tearList", "tearFrom", "tearRoute"}

Idle == [nic |-> None, at |-> "idle"]
NoRules == [a \in Addr |-> << >>]
NoUpdate == [src |-> None, del |-> << >>, add |-> << >>, rebuild |-> FALSE]

Held == {podsIP[k].addr : k \in DOMAIN podsIP}

\* The cooling period (or the duration of a restart) outlasts a teardown.
Cooled(a) ==
    "slow" \in Faults \/ \A t \in Sandbox : addr[t] = a => step[t] \notin TeardownSteps

Fail(kind) ==
    /\ kind \in Faults
    /\ failures < MaxFailures
    /\ failures' = failures + 1
    /\ UNCHANGED <<retired, crashes>>

NoFault == UNCHANGED histVars

Init ==
    /\ links = {} /\ localAddr = {}
    /\ tables = [t \in Table |-> None]
    /\ toRules = {} /\ fromRules = NoRules
    /\ veth = [p \in Pod |-> None]
    /\ hostRoute = [a \in Addr |-> None]
    /\ daemon = "down" /\ setting = Idle
    /\ todoNICs = {} /\ number = [n \in NIC |-> 0] /\ stored = {}
    /\ podsIP = << >>
    /\ listed = NoRules /\ todoPods = {} /\ update = NoUpdate /\ externalSNAT = FALSE
    /\ step = [s \in Sandbox |-> "none"]
    /\ addr = [s \in Sandbox |-> None]
    /\ table = [s \in Sandbox |-> 0]
    /\ todo = [s \in Sandbox |-> << >>]
    /\ retired = {} /\ crashes = 0 /\ failures = 0 /\ broken = {}

----------------------------------------------------------------------------
(* setupNic, of the main thread at start-up and of the pool manager later *)

At(n, at) == setting = [nic |-> n, at |-> at]

Advance(n, at) == setting' = [nic |-> n, at |-> at]

SetupUnchanged ==
    UNCHANGED <<daemon, todoNICs, podsIP, listed, todoPods, update, externalSNAT, pluginVars,
                toRules, fromRules, veth, hostRoute>>

\* A NIC that comes without a device number gets its interface's index.
DeviceNumber(n) == IF daemon = "ready" \/ Sequence[n] = 0 THEN IfIndex[n] ELSE Sequence[n]

\* setupNic begins with AddNIC of the store.
AddNIC(n) ==
    /\ number' = [number EXCEPT ![n] = DeviceNumber(n)]
    /\ Advance(n, "link")

\* Faulty variant of SetupLink: the interface keeps its addresses.
SetupLinkOnly(n) ==
    /\ At(n, "link")
    /\ Advance(n, "routeDel")
    /\ SetupUnchanged /\ NoFault
    /\ UNCHANGED <<stored, number, links, tables, localAddr>>

\* setupNICNetwork finds the interface, sets it up and takes its addresses away.
SetupLink(n) ==
    /\ At(n, "link")
    /\ localAddr' = localAddr \ {n}
    /\ Advance(n, "routeDel")
    /\ SetupUnchanged /\ NoFault
    /\ UNCHANGED <<stored, number, links, tables>>

\* RouteDel removes a default route only if it leads to this interface.
CleanRoutes(n) ==
    /\ At(n, "routeDel")
    /\ tables' = [tables EXCEPT ![number[n]] = IF @ = n THEN None ELSE @]
    /\ Advance(n, "routeAdd")
    /\ SetupUnchanged /\ NoFault
    /\ UNCHANGED <<stored, number, links, localAddr>>

\* RouteAdd, or RouteReplace if the table has a default route; then
\* AddIPv4AddressFromStore.
AddRoutes(n) ==
    /\ At(n, "routeAdd")
    /\ tables' = [tables EXCEPT ![number[n]] = n]
    /\ stored' = stored \cup {n}
    /\ setting' = Idle
    /\ SetupUnchanged /\ NoFault
    /\ UNCHANGED <<number, links, localAddr>>

\* The process ends, and with it all it knew.
DaemonDies ==
    /\ daemon' = "down" /\ setting' = Idle
    /\ todoNICs' = {} /\ number' = [n \in NIC |-> 0] /\ stored' = {}
    /\ podsIP' = << >>
    /\ listed' = NoRules /\ todoPods' = {} /\ update' = NoUpdate
    /\ UNCHANGED externalSNAT

\* An error of setupNICNetwork ends a start-up; the pool manager logs it.
SetupNicFails(n) ==
    /\ Fail("nic") /\ UNCHANGED broken
    /\ setting.nic = n
    /\ IF daemon = "ready"
         THEN /\ setting' = Idle
              /\ UNCHANGED <<daemon, todoNICs, number, stored, podsIP, listed, todoPods, update,
                             externalSNAT>>
         ELSE DaemonDies
    /\ UNCHANGED <<kernelVars, pluginVars>>

setupNICNetwork(n) == SetupLink(n) \/ CleanRoutes(n) \/ AddRoutes(n)

----------------------------------------------------------------------------
(* The pool manager, on a daemon that serves *)

\* CreateNic: the cloud attaches a new NIC, whose address DHCP configures.
AttachNIC(n) ==
    /\ daemon = "ready" /\ setting = Idle
    /\ n \notin links \cup retired
    /\ \A m \in links : AddrOf[m] # AddrOf[n]
    /\ links' = links \cup {n}
    /\ localAddr' = localAddr \cup {n}
    /\ AddNIC(n)
    /\ UNCHANGED <<tables, toRules, fromRules, veth, hostRoute, pluginVars, histVars, daemon,
                   todoNICs, stored, podsIP, listed, todoPods, update, externalSNAT>>

\* Faulty variant of DetachNIC: its address stays in the store.
DetachNICOnly(n) ==
    /\ daemon = "ready" /\ setting = Idle
    /\ number[n] # 0
    /\ AddrOf[n] \notin Held /\ Cooled(AddrOf[n])
    /\ number' = [number EXCEPT ![n] = 0]
    /\ links' = links \ {n}
    /\ localAddr' = localAddr \ {n}
    /\ tables' = [t \in Table |-> IF tables[t] = n THEN None ELSE tables[t]]
    /\ retired' = retired \cup {n}
    /\ UNCHANGED <<toRules, fromRules, veth, hostRoute, pluginVars, crashes, failures, broken,
                   daemon, setting, todoNICs, podsIP, listed, todoPods, update, externalSNAT, stored>>

\* RemoveUnusedNICFromStore and DeleteNic: the interface goes, with the routes
\* that lead to it.
DetachNIC(n) ==
    /\ daemon = "ready" /\ setting = Idle
    /\ number[n] # 0
    /\ AddrOf[n] \notin Held /\ Cooled(AddrOf[n])
    /\ number' = [number EXCEPT ![n] = 0]
    /\ stored' = stored \ {n}
    /\ links' = links \ {n}
    /\ localAddr' = localAddr \ {n}
    /\ tables' = [t \in Table |-> IF tables[t] = n THEN None ELSE tables[t]]
    /\ retired' = retired \cup {n}
    /\ UNCHANGED <<toRules, fromRules, veth, hostRoute, pluginVars, crashes, failures, broken,
                   daemon, setting, todoNICs, podsIP, listed, todoPods, update, externalSNAT>>

----------------------------------------------------------------------------
(* Start-up of the daemon *)

BootUnchanged ==
    UNCHANGED <<pluginVars, links, localAddr, tables, toRules, veth, hostRoute>>

\* The daemon reads its environment at every start.
Boot ==
    /\ daemon = "down"
    /\ daemon' = "nics"
    /\ todoNICs' = links
    /\ externalSNAT' \in BOOLEAN
    /\ BootUnchanged /\ NoFault
    /\ UNCHANGED <<setting, number, stored, podsIP, listed, todoPods, update, fromRules>>

NextAttachedNIC(n) ==
    /\ daemon = "nics" /\ setting = Idle
    /\ n \in todoNICs
    /\ todoNICs' = todoNICs \ {n}
    /\ AddNIC(n)
    /\ BootUnchanged /\ NoFault
    /\ UNCHANGED <<daemon, stored, podsIP, listed, todoPods, update, fromRules, externalSNAT>>

\* Pods the API server shows an address of: those in use, and maybe some whose
\* sandbox is on its way down; of one that is deleted it never does so again.
Listable == {s \in Sandbox : step[s] \in {"up", "deleting"} \cup TeardownSteps /\ addr[s] # None}

\* GetCurrentNodePods, then GetRuleList at the beginning of prepareLocalPods.
ListPodsAndRules ==
    /\ daemon = "nics" /\ setting = Idle
    /\ todoNICs = {}
    /\ \E L \in SUBSET Listable, c \in {NoContainer, AppContainer} :
         /\ {s \in Listable : step[s] = "up"} \subseteq L
         /\ todoPods' = {[key |-> <<PodOf[s], c>>, addr |-> addr[s]] : s \in L}
         /\ addr' = [s \in Sandbox |->
                       IF step[s] = "deleting" /\ s \notin L THEN None ELSE addr[s]]
    /\ listed' = fromRules
    /\ daemon' = "pods"
    /\ UNCHANGED <<kernelVars, step, table, todo>> /\ NoFault
    /\ UNCHANGED <<setting, todoNICs, number, stored, podsIP, update, fromRules, externalSNAT>>

\* The rules UpdateRuleListBySrc writes: for each destination, and one without
\* a destination when an external gateway translates addresses.
NewRules(t, toFlag) ==
    LET dsts == IF toFlag THEN toCIDRs ELSE <<AnyDst>>
    IN  [i \in DOMAIN dsts |-> [dst |-> dsts[i], table |-> t]]

\* Faulty variants of StartUpdate: the table is that of the first rule; the
\* table is that of another address's rule.
StartUpdateFirst(a, toFlag, t) ==
    LET old == listed[a]
    IN  update' = IF old = << >>
                    THEN [src |-> a, del |-> << >>, add |-> NewRules(t, TRUE), rebuild |-> TRUE]
                    ELSE [src |-> a, del |-> old,
                          add |-> NewRules(old[1].table, toFlag), rebuild |-> FALSE]

StartUpdateUnfiltered(a, toFlag, t) ==
    IF listed = NoRules
      THEN update' = [src |-> a, del |-> << >>, add |-> NewRules(t, TRUE), rebuild |-> TRUE]
      ELSE \E b \in Addr :
             /\ listed[b] # << >>
             /\ update' = [src |-> a, del |-> listed[a],
                           add |-> NewRules(listed[b][1].table, toFlag), rebuild |-> FALSE]

\* UpdateRuleListBySrc reads its argument, the old list.  If that has no rule of
\* the address it builds them anew; otherwise the table of the rule that is last
\* in the list is kept.
StartUpdate(a, toFlag, t) ==
    LET old == listed[a]
    IN  update' = IF old = << >>
                    THEN [src |-> a, del |-> << >>, add |-> NewRules(t, TRUE), rebuild |-> TRUE]
                    ELSE [src |-> a, del |-> old,
                          add |-> NewRules(old[Len(old)].table, toFlag), rebuild |-> FALSE]

\* One round of prepareLocalPods: AssignPodIPv4Address, getNicIndexByIP and the
\* call of UpdateRuleListBySrc with the setting of this start.
RecoverPod ==
    /\ daemon = "pods" /\ update = NoUpdate
    /\ \E r \in todoPods :
         /\ todoPods' = todoPods \ {r}
         /\ IF \E n \in stored : AddrOf[n] = r.addr
              THEN \E n \in {m \in stored : AddrOf[m] = r.addr} :
                     /\ podsIP' = [k \in DOMAIN podsIP \cup {r.key} |->
                                     IF k \in DOMAIN podsIP THEN podsIP[k]
                                     ELSE [addr |-> r.addr, num |-> number[n]]]
                     /\ StartUpdate(r.addr, ~externalSNAT, number[n])
              ELSE UNCHANGED <<podsIP, update>>
    /\ BootUnchanged /\ NoFault
    /\ UNCHANGED <<daemon, setting, todoNICs, number, stored, listed, fromRules, externalSNAT>>

\* Both loops of UpdateRuleListBySrc, one netlink call at a time.
UpdateDel ==
    /\ update.del # << >>
    /\ RuleDel(update.src, Head(update.del))
    /\ update' = [update EXCEPT !.del = Tail(@)]
    /\ BootUnchanged /\ NoFault
    /\ UNCHANGED <<daemon, setting, todoNICs, number, stored, podsIP, listed, todoPods,
                   externalSNAT>>

\* An existing rule is an error unless the rules are built anew.
UpdateAdd ==
    /\ update # NoUpdate /\ update.del = << >>
    /\ LET r == Head(update.add)
           error == RuleExists(update.src, r) /\ ~update.rebuild
           last == Len(update.add) = 1
       IN  /\ RuleAdd(update.src, r)
           /\ update' = IF error \/ last THEN NoUpdate ELSE [update EXCEPT !.add = Tail(@)]
           /\ broken' = IF error THEN broken \cup {update.src}
                        ELSE IF last THEN broken \ {update.src} ELSE broken
    /\ BootUnchanged
    /\ UNCHANGED <<daemon, setting, todoNICs, number, stored, podsIP, listed, todoPods,
                   externalSNAT, retired, crashes, failures>>

\* Its errors are logged.
UpdateFails ==
    /\ Fail("update")
    /\ update # NoUpdate
    /\ broken' = broken \cup {update.src}
    /\ update' = NoUpdate
    /\ BootUnchanged
    /\ UNCHANGED <<daemon, setting, todoNICs, number, stored, podsIP, listed, todoPods, fromRules,
                   externalSNAT>>

Serve ==
    /\ daemon = "pods" /\ todoPods = {} /\ update = NoUpdate
    /\ daemon' = "ready"
    /\ listed' = NoRules
    /\ BootUnchanged /\ NoFault
    /\ UNCHANGED <<setting, todoNICs, number, stored, podsIP, todoPods, update, fromRules,
                   externalSNAT>>

\* The daemon is killed while nothing is being set up: the API server then shows
\* every address in use.
Crash ==
    /\ daemon # "down"
    /\ crashes < MaxCrash
    /\ \A s \in Sandbox : step[s] \notin SetupSteps
    /\ crashes' = crashes + 1
    /\ DaemonDies
    /\ UNCHANGED <<kernelVars, pluginVars, retired, failures, broken>>

----------------------------------------------------------------------------
(* The plugin *)

PluginUnchanged == UNCHANGED <<daemonVars, links, localAddr, tables, retired, crashes>>

Go(s, at) == step' = [step EXCEPT ![s] = at]

\* add: AddNetwork assigns an address and its reply names the device number.
AddNetwork(s) ==
    /\ step[s] = "none" /\ daemon = "ready"
    /\ \A t \in Sandbox : PodOf[t] = PodOf[s] => step[t] \in {"none", "gone"}
    /\ \E n \in stored :
         /\ AddrOf[n] \notin Held /\ Cooled(AddrOf[n])
         /\ podsIP' = [k \in DOMAIN podsIP \cup {Key(s)} |->
                         IF k \in DOMAIN podsIP THEN podsIP[k]
                         ELSE [addr |-> AddrOf[n], num |-> number[n]]]
         /\ addr' = [addr EXCEPT ![s] = AddrOf[n]]
         /\ table' = [table EXCEPT ![s] = number[n]]
    /\ Go(s, "veth")
    /\ NoFault
    /\ UNCHANGED <<kernelVars, daemon, setting, todoNICs, number, stored, listed, todoPods, update,
                   externalSNAT, todo>>

\* setupNS deletes an interface that has the pod's name, with the route through
\* it, and makes a new pair in the sandbox, whose host end it moves to the host.
CreateVeth(s) ==
    /\ step[s] = "veth"
    /\ hostRoute' = [a \in Addr |->
                       IF hostRoute[a] = veth[PodOf[s]] THEN None ELSE hostRoute[a]]
    /\ veth' = [veth EXCEPT ![PodOf[s]] = s]
    /\ Go(s, "route")
    /\ PluginUnchanged
    /\ UNCHANGED <<toRules, fromRules, addr, table, todo, failures, broken>>

ReplaceRoute(s) ==
    /\ step[s] = "route"
    /\ hostRoute' = [hostRoute EXCEPT ![addr[s]] = s]
    /\ Go(s, "delTo")
    /\ PluginUnchanged
    /\ UNCHANGED <<toRules, fromRules, veth, addr, table, todo, failures, broken>>

\* addContainerRule deletes the rule and adds it.
DelToRule(s) ==
    /\ step[s] = "delTo"
    /\ toRules' = toRules \ {addr[s]}
    /\ Go(s, "addTo")
    /\ PluginUnchanged
    /\ UNCHANGED <<fromRules, veth, hostRoute, addr, table, todo, failures, broken>>

AddToRule(s) ==
    /\ step[s] = "addTo"
    /\ addr[s] \notin toRules
    /\ toRules' = toRules \cup {addr[s]}
    /\ todo' = [todo EXCEPT ![s] = NewRules(table[s], TRUE)]
    /\ table' = [table EXCEPT ![s] = 0]
    /\ Go(s, "addFrom")
    /\ PluginUnchanged
    /\ UNCHANGED <<fromRules, veth, hostRoute, addr, failures, broken>>

\* A rule that exists is good enough here; the reply never asks for external
\* translation.
AddFromRule(s) ==
    /\ step[s] = "addFrom"
    /\ RuleAdd(addr[s], Head(todo[s]))
    /\ todo' = [todo EXCEPT ![s] = Tail(@)]
    /\ IF Len(todo[s]) = 1
         THEN Go(s, "up") /\ broken' = broken \ {addr[s]}
         ELSE UNCHANGED <<step, broken>>
    /\ PluginUnchanged
    /\ UNCHANGED <<toRules, veth, hostRoute, addr, table, failures>>

\* SetupNS returns an error at any call and leaves behind what it has made; a
\* "to" rule that exists already is one.
SetupNSFails(s) ==
    /\ step[s] \in SetupSteps
    /\ \/ Fail("setup")
       \/ step[s] = "addTo" /\ addr[s] \in toRules /\ UNCHANGED <<failures, retired, crashes>>
    /\ Go(s, "cleanup")
    /\ todo' = [todo EXCEPT ![s] = << >>]
    /\ table' = [table EXCEPT ![s] = 0]
    /\ UNCHANGED <<kernelVars, daemonVars, addr, broken>>

\* The keys under which DelNetwork finds a sandbox's address.
DelKey(s, k) ==
    /\ k \in DOMAIN podsIP
    /\ \/ k = Key(s)
       \/ Key(s) \notin DOMAIN podsIP /\ k = <<PodOf[s], NoContainer>>

Release(k) == podsIP' = [j \in DOMAIN podsIP \ {k} |-> podsIP[j]]

ReleaseUnchanged ==
    /\ UNCHANGED <<kernelVars, daemon, setting, todoNICs, number, stored, listed, todoPods, update,
                   externalSNAT, todo>>
    /\ NoFault

\* add after a failed SetupNS: the address is released, if the daemon can be
\* reached, and no rule is taken back.
Cleanup(s) ==
    /\ step[s] = "cleanup"
    /\ \/ daemon # "ready" /\ UNCHANGED podsIP
       \/ daemon = "ready" /\ \E k \in DOMAIN podsIP : DelKey(s, k) /\ Release(k)
       \/ daemon = "ready" /\ (\A k \in DOMAIN podsIP : ~DelKey(s, k)) /\ UNCHANGED podsIP
    /\ Go(s, "failed")
    /\ addr' = [addr EXCEPT ![s] = None]
    /\ UNCHANGED table
    /\ ReleaseUnchanged

\* The kubelet kills a sandbox and calls del.
KillSandbox(s) ==
    /\ step[s] \in {"up", "failed"}
    /\ Go(s, "deleting")
    /\ UNCHANGED <<kernelVars, daemonVars, addr, table, todo>>
    /\ NoFault

\* del: the daemon releases the address and then the plugin tears down what the
\* reply names.
DelNetwork(s) ==
    /\ step[s] = "deleting" /\ daemon = "ready"
    /\ \E k \in DOMAIN podsIP :
         /\ DelKey(s, k)
         /\ addr' = [addr EXCEPT ![s] = podsIP[k].addr]
         /\ Release(k)
    /\ Go(s, "tearTo")
    /\ UNCHANGED table
    /\ ReleaseUnchanged

\* del: the daemon knows no address of the pod, and the plugin does nothing.
DelNetworkUnknown(s) ==
    /\ step[s] = "deleting" /\ daemon = "ready"
    /\ \A k \in DOMAIN podsIP : ~DelKey(s, k)
    /\ Go(s, "gone")
    /\ addr' = [addr EXCEPT ![s] = None]
    /\ UNCHANGED <<podsIP, table>>
    /\ ReleaseUnchanged

\* tearDownNS logs the failure to delete the "to" rule, or the route, and goes on.
TearToRule(s) ==
    /\ step[s] = "tearTo"
    /\ \/ toRules' = toRules \ {addr[s]} /\ UNCHANGED <<failures>>
       \/ Fail("teardown") /\ UNCHANGED toRules
    /\ Go(s, "tearList")
    /\ PluginUnchanged
    /\ UNCHANGED <<fromRules, veth, hostRoute, addr, table, todo, broken>>

\* DeleteRuleListBySrc reads the list and deletes rule by rule.
TearList(s) ==
    /\ step[s] = "tearList"
    /\ todo' = [todo EXCEPT ![s] = fromRules[addr[s]]]
    /\ Go(s, IF fromRules[addr[s]] = << >> THEN "tearRoute" ELSE "tearFrom")
    /\ PluginUnchanged
    /\ UNCHANGED <<toRules, fromRules, veth, hostRoute, addr, table, failures, broken>>

\* Faulty variant of TearFromRule: one rule is enough.
TearOneFromRule(s) ==
    /\ step[s] = "tearFrom"
    /\ RuleDel(addr[s], Head(todo[s]))
    /\ todo' = [todo EXCEPT ![s] = << >>]
    /\ Go(s, "tearRoute")
    /\ PluginUnchanged
    /\ UNCHANGED <<toRules, veth, hostRoute, addr, table, failures, broken>>

TearFromRule(s) ==
    /\ step[s] = "tearFrom"
    /\ RuleDel(addr[s], Head(todo[s]))
    /\ todo' = [todo EXCEPT ![s] = Tail(@)]
    /\ IF Len(todo[s]) = 1 THEN Go(s, "tearRoute") ELSE UNCHANGED step
    /\ PluginUnchanged
    /\ UNCHANGED <<toRules, veth, hostRoute, addr, table, failures, broken>>

\* Its errors are returned: the kubelet calls del again, and the daemon no
\* longer knows the pod.
TearDownNSFails(s) ==
    /\ step[s] \in {"tearList", "tearFrom"}
    /\ Fail("teardown")
    /\ Go(s, "deleting")
    /\ todo' = [todo EXCEPT ![s] = << >>]
    /\ addr' = [addr EXCEPT ![s] = None]
    /\ UNCHANGED <<kernelVars, daemonVars, table, broken>>

TearRoute(s) ==
    /\ step[s] = "tearRoute"
    /\ \/ hostRoute' = [hostRoute EXCEPT ![addr[s]] = None] /\ UNCHANGED <<failures>>
       \/ Fail("teardown") /\ UNCHANGED hostRoute
    /\ Go(s, "gone")
    /\ addr' = [addr EXCEPT ![s] = None]
    /\ PluginUnchanged
    /\ UNCHANGED <<toRules, fromRules, veth, table, todo, broken>>

\* Once del has returned the network namespace of the sandbox is removed, with
\* its interface and a route through it.
DestroyNetns(s) ==
    /\ step[s] = "gone"
    /\ veth[PodOf[s]] = s
    /\ veth' = [veth EXCEPT ![PodOf[s]] = None]
    /\ hostRoute' = [a \in Addr |-> IF hostRoute[a] = s THEN None ELSE hostRoute[a]]
    /\ PluginUnchanged
    /\ UNCHANGED <<toRules, fromRules, pluginVars, failures, broken>>

----------------------------------------------------------------------------
DaemonNext ==
    \/ Boot \/ ListPodsAndRules \/ RecoverPod \/ UpdateDel \/ UpdateAdd \/ UpdateFails \/ Serve
    \/ \E n \in NIC : NextAttachedNIC(n) \/ setupNICNetwork(n) \/ SetupNicFails(n)

PoolNext == \E n \in NIC : AttachNIC(n) \/ DetachNIC(n)

SetupNS(s) ==
    CreateVeth(s) \/ ReplaceRoute(s) \/ DelToRule(s) \/ AddToRule(s) \/ AddFromRule(s)

TearDownNS(s) == TearToRule(s) \/ TearList(s) \/ TearFromRule(s) \/ TearRoute(s)

PluginNext(s) ==
    \/ SetupNS(s) \/ SetupNSFails(s) \/ Cleanup(s)
    \/ DelNetwork(s) \/ DelNetworkUnknown(s) \/ TearDownNS(s) \/ TearDownNSFails(s)

Next ==
    \/ DaemonNext
    \/ PoolNext
    \/ \E s \in Sandbox :
         PluginNext(s) \/ AddNetwork(s) \/ KillSandbox(s) \/ DestroyNetns(s)
    \/ Crash

Spec == Init /\ [][Next]_vars

----------------------------------------------------------------------------
(* Properties *)

\* The state is well typed and the bounds of the model hold.
PodNetworkTypeOK ==
    /\ links \subseteq NIC /\ localAddr \subseteq links
    /\ tables \in [Table -> links \cup {None}]
    /\ toRules \subseteq Addr
    /\ fromRules \in [Addr -> Seq(Rule)] /\ \A a \in Addr : IsInjective(fromRules[a])
    /\ veth \in [Pod -> Sandbox \cup {None}]
    /\ hostRoute \in [Addr -> Sandbox \cup {None}]
    /\ daemon \in {"down", "nics", "pods", "ready"}
    /\ setting \in [nic : links \cup {None},
                    at : {"idle", "link", "routeDel", "routeAdd"}]
    /\ todoNICs \subseteq links
    /\ number \in [NIC -> Table \cup {0}] /\ stored \subseteq links
    /\ podsIP \in [DOMAIN podsIP -> [addr : Addr, num : Table]]
    /\ DOMAIN podsIP \subseteq Pod \X (Sandbox \cup {NoContainer, AppContainer})
    /\ listed \in [Addr -> Seq(Rule)]
    /\ todoPods \subseteq [key : Pod \X {NoContainer, AppContainer}, addr : Addr]
    /\ update \in [src : Addr \cup {None}, del : Seq(Rule), add : Seq(Rule), rebuild : BOOLEAN]
    /\ externalSNAT \in BOOLEAN
    /\ step \in [Sandbox -> SetupSteps \cup TeardownSteps \cup
                   {"none", "up", "cleanup", "failed", "deleting", "gone"}]
    /\ addr \in [Sandbox -> Addr \cup {None}]
    /\ table \in [Sandbox -> Table \cup {0}]
    /\ todo \in [Sandbox -> Seq(Rule)]
    /\ retired \subseteq NIC \ links
    /\ crashes \in 0 .. MaxCrash /\ failures \in 0 .. MaxFailures
    /\ broken \subseteq Addr

Up(s) == step[s] = "up"

\* The NIC that carries an address.
Owns(n, a) == n \in links /\ AddrOf[n] = a

\* The NIC through which the policy routes what address a sends to destination
\* d: the first matching rule whose table has a route decides; without one the
\* main table does.
Routing(a, d) ==
    {i \in DOMAIN fromRules[a] :
       LET r == fromRules[a][i] IN r.dst \in {d, AnyDst} /\ tables[r.table] # None}

Outgoing(a, d) ==
    IF Routing(a, d) = {}
      THEN None
      ELSE LET first == CHOOSE i \in Routing(a, d) : \A j \in Routing(a, d) : i <= j
           IN  tables[fromRules[a][first].table]

\* Packets for a running pod reach its own interface: the address has its rule
\* and its route, and is not the host's own.
PodReachable ==
    \A s \in Sandbox : Up(s) =>
        /\ addr[s] \in toRules
        /\ hostRoute[addr[s]] = s /\ veth[PodOf[s]] = s
        /\ \E n \in NIC : Owns(n, addr[s]) /\ n \notin localAddr

\* What a running pod sends into the VPC never leaves through a NIC other than
\* the one that has the pod's address (docs/proposal.md:73), whatever rules
\* earlier pods have left behind.
OwnNICOnly ==
    \A s \in Sandbox, d \in Dst :
        Up(s) /\ Outgoing(addr[s], d) # None => Owns(Outgoing(addr[s], d), addr[s])

\* While the daemon serves it does leave through that NIC, for every network of
\* the VPC, unless the last update of the pod's rules failed.
RunningPodsRouted ==
    daemon = "ready" => \A s \in Sandbox, d \in Dst :
        Up(s) => addr[s] \in broken \/ Owns(Outgoing(addr[s], d), addr[s])

\* Without crashes and failures, what was made for a pod is taken back when the
\* pod goes: an address that no sandbox has is not in any rule or route.
NothingLeftBehind ==
    crashes = 0 /\ failures = 0 =>
        \A a \in Addr : (\A s \in Sandbox : addr[s] # a) =>
            /\ a \notin toRules
            /\ fromRules[a] = << >>
            /\ hostRoute[a] = None

=============================================================================
