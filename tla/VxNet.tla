------------------------------- MODULE VxNet -------------------------------
(***************************************************************************)
(* The network of a node (pkg/ipam/vxnet.go with its calls in              *)
(* pkg/qcclient/wrapper.go and pkg/k8sclient/k8s.go).  The daemons of      *)
(* several nodes each find or create a VxNet of their own, join it to the  *)
(* one VPC under a free subnet, and record it in the node's annotation.    *)
(* The cloud and the annotations outlive a daemon; all it knows else is    *)
(* gone when it exits.  Between two calls any other daemon may run.        *)
(*                                                                         *)
(* A subnet is the third octet of its address.  The cloud admits a VxNet   *)
(* to the VPC only if it is in none and its subnet is free.                *)
(*                                                                         *)
(* Faults names what may go wrong, MaxFaults how often:                    *)
(*   "crash"    the daemon is killed                                       *)
(*   "call"     a call fails without effect                                *)
(*   "lost"     a call to the cloud has its effect and reports an error    *)
(*   "stale"    the daemon reads its node without the annotation            *)
(*   "list"     the VPC's networks cannot be listed at start-up            *)
(*   "api"      the annotation cannot be written                           *)
(*   "apilost"  the annotation is written and an error is reported         *)
(***************************************************************************)
EXTENDS Integers, FiniteSets

CONSTANTS
    Node,
    VxNet,         \* identifiers the cloud gives, each once
    Subnet,        \* the octets chooseIPFromVxnet tries (1 to 252 in the code)
    InUse,         \* subnets of the VPC's other networks
    JoinAttempts,  \* attempts of createNewVxnet to join (5 in the code)
    Faults,
    MaxFaults,
    NoNode,
    NoVxNet

ASSUME VxNetAssumption ==
    /\ NoNode \notin Node
    /\ NoVxNet \notin VxNet
    /\ Subnet \subseteq Nat \ {0}
    /\ \E s \in Subnet : \A t \in Subnet : t <= s
    /\ InUse \subseteq Subnet
    /\ JoinAttempts \in Nat \ {0}
    /\ MaxFaults \in Nat

VARIABLES
    unused,      \* identifiers the cloud has not given yet
    name,        \* the node each existing VxNet is named for
    router,      \* the subnet of each VxNet in the VPC, 0 if it is not in it
    annotation,  \* the VxNet in each node's annotation
    daemon,      \* the memory of each node's daemon
    faults       \* how much has gone wrong so far

cloudVars == <<unused, name, router>>
vars == <<cloudVars, annotation, daemon, faults>>

Label == {"down", "node", "describe", "search", "create", "list", "join", "annotate",
          "leave", "delete", "ready"}

NoSubnet == 0

\* network is the subnet of vxnet as the daemon has it, subnets what it has of
\* the VPC's, fresh whether it created vxnet itself.
Memory == [at : Label, vxnet : VxNet \cup {NoVxNet}, network : Subnet \cup {NoSubnet},
           subnets : SUBSET (Subnet \cup {NoSubnet}), attempt : 1 .. JoinAttempts,
           fresh : BOOLEAN]

Down == [at |-> "down", vxnet |-> NoVxNet, network |-> NoSubnet, subnets |-> {},
         attempt |-> 1, fresh |-> FALSE]

\* The state is well formed (IpamD's vxnet and vpc, types.VxNet, types.VPC).
VxNetTypeOK ==
    /\ unused \subseteq VxNet
    /\ name \in [VxNet -> Node \cup {NoNode}]
    /\ router \in [VxNet -> (Subnet \ InUse) \cup {NoSubnet}]
    /\ annotation \in [Node -> VxNet \cup {NoVxNet}]
    /\ daemon \in [Node -> Memory]
    /\ faults \in 0 .. MaxFaults

Init ==
    /\ unused = VxNet
    /\ name = [v \in VxNet |-> NoNode]
    /\ router = [v \in VxNet |-> NoSubnet]
    /\ annotation = [n \in Node |-> NoVxNet]
    /\ daemon = [n \in Node |-> Down]
    /\ faults = 0

Named(n) == {v \in VxNet : name[v] = n}
VPCSubnets == InUse \cup ({router[v] : v \in VxNet} \ {NoSubnet})

At(n, label) == daemon[n].at = label
Becomes(n, memory) == daemon' = [daemon EXCEPT ![n] = memory]
Goto(n, label) == daemon' = [daemon EXCEPT ![n].at = label]
Exit(n) == Becomes(n, Down)

Right == UNCHANGED faults
Wrong(f) == f \in Faults /\ faults < MaxFaults /\ faults' = faults + 1

----------------------------------------------------------------------------
(* Start-up *)

\* GetNodeVPC: the subnets of the VPC are read once, before EnsureVxNet; if
\* that fails start-up goes on without them.
GetNodeVPC(n) ==
    /\ At(n, "down")
    /\ \/ Right /\ Becomes(n, [Down EXCEPT !.at = "node", !.subnets = VPCSubnets])
       \/ Wrong("list") /\ Becomes(n, [Down EXCEPT !.at = "node"])
    /\ UNCHANGED <<cloudVars, annotation>>

\* Faulty variant: a node without annotation has no network yet.
CreateUnlessAnnotated(n) ==
    /\ At(n, "node")
    /\ \/ /\ annotation[n] # NoVxNet
          /\ daemon' = [daemon EXCEPT ![n].at = "describe", ![n].vxnet = annotation[n]]
       \/ /\ annotation[n] = NoVxNet
          /\ Goto(n, "create")
    /\ Right
    /\ UNCHANGED <<cloudVars, annotation>>

\* The node comes from an informer's cache, which may still lack the annotation.
GetCurrentNode(n) ==
    /\ At(n, "node")
    /\ \/ /\ annotation[n] # NoVxNet
          /\ daemon' = [daemon EXCEPT ![n].at = "describe", ![n].vxnet = annotation[n]]
          /\ Right
       \/ /\ annotation[n] = NoVxNet
          /\ Goto(n, "search")
          /\ Right
       \/ /\ annotation[n] # NoVxNet
          /\ Wrong("stale")
          /\ Goto(n, "search")
    /\ UNCHANGED <<cloudVars, annotation>>

\* The VxNet of the annotation is used as it is, joined or not; if it does not
\* exist the daemon exits.
GetVxNet(n) ==
    /\ At(n, "describe")
    /\ LET v == daemon[n].vxnet
       IN  \/ /\ name[v] # NoNode
              /\ daemon' = [daemon EXCEPT ![n].at = "ready", ![n].network = router[v]]
           \/ /\ name[v] = NoNode
              /\ Exit(n)
    /\ Right
    /\ UNCHANGED <<cloudVars, annotation>>

\* Faulty variant: a VxNet found by name is taken to be joined.
UseVxNetByName(n) ==
    /\ At(n, "search")
    /\ \/ \E v \in Named(n) :
                daemon' = [daemon EXCEPT
                    ![n].at = "ready", ![n].vxnet = v, ![n].network = router[v]]
       \/ Named(n) = {} /\ Goto(n, "create")
    /\ Right
    /\ UNCHANGED <<cloudVars, annotation>>

\* A VxNet found by name is joined first if it is not in the VPC.  An answer with
\* a return code is an error of the client library, as in every other call.
GetVxNetByName(n) ==
    /\ At(n, "search")
    /\ \/ \E v \in Named(n) :
                daemon' = [daemon EXCEPT
                    ![n].at = IF router[v] = NoSubnet THEN "list" ELSE "ready",
                    ![n].vxnet = v,
                    ![n].network = router[v]]
       \/ Named(n) = {} /\ Goto(n, "create")
    /\ Right
    /\ UNCHANGED <<cloudVars, annotation>>

\* Faulty variant: the node is annotated before its network is in the VPC.
CreateVxNetAnnotated(n) ==
    /\ At(n, "create")
    /\ \E v \in unused :
          /\ unused' = unused \ {v}
          /\ name' = [name EXCEPT ![v] = n]
          /\ annotation' = [annotation EXCEPT ![n] = v]
          /\ \/ /\ Right
                /\ daemon' = [daemon EXCEPT ![n].at = "list", ![n].vxnet = v, ![n].fresh = TRUE]
             \/ Wrong("lost") /\ Exit(n)
    /\ UNCHANGED router

CreateVxNet(n) ==
    /\ At(n, "create")
    /\ \E v \in unused :
          /\ unused' = unused \ {v}
          /\ name' = [name EXCEPT ![v] = n]
          /\ \/ /\ Right
                /\ daemon' = [daemon EXCEPT ![n].at = "list", ![n].vxnet = v, ![n].fresh = TRUE]
             \/ Wrong("lost") /\ Exit(n)
    /\ UNCHANGED <<router, annotation>>

----------------------------------------------------------------------------
(* joinVPC: one attempt for a VxNet found by name, several for a new one *)

AfterJoin(n) == IF daemon[n].fresh THEN "annotate" ELSE "ready"

\* Faulty variant: one attempt too many.
JoinErrorOnceMore(n) ==
    IF daemon[n].fresh /\ daemon[n].attempt <= JoinAttempts
    THEN daemon' = [daemon EXCEPT ![n].at = "list", ![n].attempt = @ + 1]
    ELSE Exit(n)

JoinError(n) ==
    IF daemon[n].fresh /\ daemon[n].attempt < JoinAttempts
    THEN daemon' = [daemon EXCEPT ![n].at = "list", ![n].attempt = @ + 1]
    ELSE Exit(n)

\* Faulty variant: the networks of the VPC are not looked at.
chooseAnyIP(used) == CHOOSE s \in Subnet : \A t \in Subnet : s <= t

\* The lowest octet whose subnet no network of the VPC has.
chooseIPFromVxnet(used) ==
    LET free == Subnet \ used
    IN  IF free = {} THEN NoSubnet ELSE CHOOSE s \in free : \A t \in free : s <= t

LastSubnet == CHOOSE s \in Subnet : \A t \in Subnet : t <= s

\* Without a free subnet joinVPC joins nothing and reports no error.  The
\* octet of an earlier attempt shares its memory with the search, which leaves
\* it at the last one.
GetVPCVxNets(n) ==
    /\ At(n, "list")
    /\ LET s == chooseIPFromVxnet(VPCSubnets)
           left == IF daemon[n].network = NoSubnet THEN NoSubnet ELSE LastSubnet
       IN  \/ /\ s # NoSubnet
              /\ daemon' = [daemon EXCEPT ![n].at = "join", ![n].network = s]
              /\ Right
           \/ /\ s = NoSubnet
              /\ daemon' = [daemon EXCEPT ![n].at = AfterJoin(n),
                                          ![n].network = left,
                                          ![n].subnets = @ \cup {left}]
              /\ Right
           \/ Wrong("call") /\ JoinError(n)
    /\ UNCHANGED <<cloudVars, annotation>>

Admitted(n) == router[daemon[n].vxnet] = NoSubnet /\ daemon[n].network \notin VPCSubnets

Joins(n) == router' = [router EXCEPT ![daemon[n].vxnet] = daemon[n].network]

\* Faulty variant: the daemon's list of subnets lacks the new one.
JoinedUnlisted(n) == Goto(n, AfterJoin(n))

Joined(n) ==
    daemon' = [daemon EXCEPT ![n].at = AfterJoin(n), ![n].subnets = @ \cup {daemon[n].network}]

\* Another node may have taken the subnet since the networks were listed.
JoinVPC(n) ==
    /\ At(n, "join")
    /\ \/ Admitted(n) /\ Joins(n) /\ Right /\ Joined(n)
       \/ Admitted(n) /\ Joins(n) /\ Wrong("lost") /\ JoinError(n)
       \/ ~Admitted(n) /\ Right /\ JoinError(n) /\ UNCHANGED router
       \/ Wrong("call") /\ JoinError(n) /\ UNCHANGED router
    /\ UNCHANGED <<unused, name, annotation>>

----------------------------------------------------------------------------
(* The annotation; a network that cannot be recorded is given up again *)

UpdateNodeAnnotation(n) ==
    /\ At(n, "annotate")
    /\ \/ /\ annotation' = [annotation EXCEPT ![n] = daemon[n].vxnet]
          /\ \/ Right /\ Goto(n, "ready")
             \/ Wrong("apilost") /\ Goto(n, "leave")
       \/ Wrong("api") /\ Goto(n, "leave") /\ UNCHANGED annotation
    /\ UNCHANGED cloudVars

\* LeaveVPC, its two calls; the daemon exits whatever comes of them.
LeaveVPC(n) ==
    /\ At(n, "leave")
    /\ \/ /\ router[daemon[n].vxnet] # NoSubnet
          /\ router' = [router EXCEPT ![daemon[n].vxnet] = NoSubnet]
          /\ \/ Right /\ Goto(n, "delete")
             \/ Wrong("lost") /\ Exit(n)
       \/ router[daemon[n].vxnet] = NoSubnet /\ Right /\ Exit(n) /\ UNCHANGED router
       \/ Wrong("call") /\ Exit(n) /\ UNCHANGED router
    /\ UNCHANGED <<unused, name, annotation>>

DeleteVxNet(n) ==
    /\ At(n, "delete")
    /\ Exit(n)
    /\ \/ Right /\ name' = [name EXCEPT ![daemon[n].vxnet] = NoNode]
       \/ Wrong("call") /\ UNCHANGED name
    /\ UNCHANGED <<unused, router, annotation>>

----------------------------------------------------------------------------
(* Failures that end the daemon *)

CallFails(n) ==
    /\ daemon[n].at \in {"node", "describe", "search", "create"}
    /\ Wrong("call")
    /\ Exit(n)
    /\ UNCHANGED <<cloudVars, annotation>>

Crash(n) ==
    /\ ~At(n, "down")
    /\ Wrong("crash")
    /\ Exit(n)
    /\ UNCHANGED <<cloudVars, annotation>>

Step(n) ==
    \/ GetNodeVPC(n)
    \/ GetCurrentNode(n)
    \/ GetVxNet(n)
    \/ GetVxNetByName(n)
    \/ CreateVxNet(n)
    \/ GetVPCVxNets(n)
    \/ JoinVPC(n)
    \/ UpdateNodeAnnotation(n)
    \/ LeaveVPC(n)
    \/ DeleteVxNet(n)

Next == \E n \in Node : Step(n) \/ CallFails(n) \/ Crash(n)

Spec == Init /\ [][Next]_vars

\* The kubelet starts the daemon again whenever it has exited, and a running
\* daemon goes on; faults need not happen.
FairSpec == Spec /\ \A n \in Node : WF_vars(Step(n))

----------------------------------------------------------------------------
(* Properties *)

\* A daemon past EnsureVxNet has a network of its own node that is in the VPC,
\* under the subnet the daemon takes it to have, whatever failed and whoever
\* joined meanwhile (EnsureVxNet, joinVPC).
ReadyJoined ==
    \A n \in Node : At(n, "ready") =>
        LET v == daemon[n].vxnet
        IN  name[v] = n /\ router[v] # NoSubnet /\ router[v] = daemon[n].network

\* A daemon past EnsureVxNet whose network has a subnet lists it among the
\* VPC's subnets, which it exempts from address translation (vpcSubnets).
OwnSubnetKnown ==
    \A n \in Node : At(n, "ready") =>
        daemon[n].network \in daemon[n].subnets \cup {NoSubnet}

\* An annotation names an existing network of the node that is in the VPC:
\* EnsureVxNet trusts it without looking (vxnet.go:32).
AnnotationSound ==
    \A n \in Node : annotation[n] # NoVxNet =>
        name[annotation[n]] = n /\ router[annotation[n]] # NoSubnet

\* A node never has two networks, one of which would be left behind with the
\* NICs of running pods (EnsureVxNet looks for an existing one first).
OneNetwork == \A v, w \in VxNet : name[v] = name[w] /\ name[v] # NoNode => v = w

\* Once nothing fails any more every node comes to have a network and keeps
\* it ("EnsureVxNet guarantee a vxnet for a node").
Guaranteed == \A n \in Node : <>[]At(n, "ready")

=============================================================================
