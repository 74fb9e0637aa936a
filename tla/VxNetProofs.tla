--------------------------- MODULE VxNetProofs ---------------------------
(* Proofs about VxNet for every value of its constants. *)
EXTENDS VxNet, WellFoundedInduction, TLAPS

----------------------------------------------------------------------------
(* The choice of a subnet *)

\* chooseIPFromVxnet returns the lowest subnet not in use, and none only if
\* all are in use.
THEOREM ChoiceCorrect ==
    ASSUME NEW used
    PROVE  LET s == chooseIPFromVxnet(used)
           IN  \/ s = NoSubnet /\ Subnet \subseteq used
               \/ /\ s \in Subnet \ used
                  /\ s # NoSubnet
                  /\ \A t \in Subnet \ used : s <= t
  <1>1. Subnet \ used \subseteq Nat /\ NoSubnet \notin Subnet
    BY VxNetAssumption DEF NoSubnet
  <1>2. CASE Subnet \ used = {}
    BY <1>2 DEF chooseIPFromVxnet
  <1>3. CASE Subnet \ used # {}
    <2>1. \E s \in Subnet \ used : \A t \in Subnet \ used : s <= t
      <3> DEFINE Less == {p \in Nat \X Nat : p[1] < p[2]}
      <3>1. OpToRel(<, Nat) = Less
        BY SMT DEF OpToRel
      <3>2. \A s, t \in Nat : t < s => <<t, s>> \in Less
        OBVIOUS
      <3> HIDE DEF Less
      <3>3. IsWellFoundedOn(Less, Nat)
        BY <3>1, NatLessThanWellFounded
      <3>4. PICK s \in Subnet \ used : \A t \in Subnet \ used : <<t, s>> \notin Less
        BY <1>1, <1>3, <3>3, WFMin
      <3>5. \A t \in Subnet \ used : ~(t < s) /\ t \in Nat /\ s \in Nat
        BY <1>1, <3>2, <3>4
      <3> QED
        BY <3>5
    <2> QED
      BY <1>1, <1>3, <2>1 DEF chooseIPFromVxnet
  <1> QED
    BY <1>2, <1>3

\* There is a last subnet for the search to end at.
LEMMA LastSubnetType == LastSubnet \in Subnet
  BY VxNetAssumption DEF LastSubnet

----------------------------------------------------------------------------
(* Type correctness *)

\* Past the search for it, a daemon has a network.
Holding(n) == daemon[n].at \notin {"down", "node", "search", "create"}

TypeInv ==
    /\ VxNetTypeOK
    /\ \A n \in Node : Holding(n) => daemon[n].vxnet \in VxNet

\* A step changes the memory of one daemon only.
OthersKeep(n) == \A m \in Node : m # n => daemon'[m] = daemon[m]

\* The memory of a daemon that does not run is well formed.
LEMMA DownType == Down \in Memory
  BY VxNetAssumption DEF Down, Memory, Label

\* A daemon that exits forgets everything.
LEMMA ExitEffect ==
    ASSUME TypeInv, NEW n \in Node, Exit(n)
    PROVE  /\ daemon' \in [Node -> Memory]
           /\ daemon'[n] = Down
           /\ daemon'[n].at = "down"
           /\ OthersKeep(n)
  BY DownType DEF TypeInv, VxNetTypeOK, Exit, Becomes, OthersKeep, Down

\* A failed attempt to join ends the daemon or starts another attempt.
LEMMA JoinErrorEffect ==
    ASSUME TypeInv, NEW n \in Node, JoinError(n)
    PROVE  /\ daemon' \in [Node -> Memory]
           /\ \/ daemon'[n].at = "down"
              \/ /\ daemon'[n].at = "list"
                 /\ daemon'[n].vxnet = daemon[n].vxnet
                 /\ daemon'[n].fresh = daemon[n].fresh
                 /\ daemon'[n].subnets = daemon[n].subnets
                 /\ daemon[n].fresh
           /\ OthersKeep(n)
  <1>1. CASE Exit(n)
    BY <1>1, ExitEffect
  <1>2. CASE /\ daemon[n].fresh /\ daemon[n].attempt < JoinAttempts
             /\ daemon' = [daemon EXCEPT ![n].at = "list", ![n].attempt = @ + 1]
    <2> DEFINE r == [daemon[n] EXCEPT !.at = "list", !.attempt = @ + 1]
    <2>1. daemon[n] \in Memory
      BY DEF TypeInv, VxNetTypeOK
    <2>2. daemon[n].attempt + 1 \in 1 .. JoinAttempts
      BY <1>2, <2>1, VxNetAssumption DEF Memory
    <2>3. r \in Memory
      BY <2>1, <2>2 DEF Memory, Label
    <2>4. daemon' = [daemon EXCEPT ![n] = r]
      BY <1>2
    <2>5. /\ r.at = "list" /\ r.vxnet = daemon[n].vxnet
          /\ r.fresh = daemon[n].fresh /\ r.subnets = daemon[n].subnets
      BY <2>1 DEF Memory
    <2> HIDE DEF r
    <2> QED
      BY <1>2, <2>3, <2>4, <2>5 DEF TypeInv, VxNetTypeOK, OthersKeep
  <1> QED
    BY <1>1, <1>2 DEF JoinError

\* What a call that goes wrong, or right, does to the count of failures.
LEMMA FaultsType ==
    ASSUME TypeInv, Right \/ (\E f : Wrong(f))
    PROVE  faults' \in 0 .. MaxFaults
  BY VxNetAssumption DEF TypeInv, VxNetTypeOK, Right, Wrong

\* Replacing a daemon's memory by a well-formed one.
LEMMA Update ==
    ASSUME TypeInv, NEW n \in Node, NEW r \in Memory, daemon' = [daemon EXCEPT ![n] = r]
    PROVE  /\ daemon' \in [Node -> Memory]
           /\ daemon'[n] = r
           /\ OthersKeep(n)
  BY DEF TypeInv, VxNetTypeOK, OthersKeep

\* Start-up reads the VPC's subnets or goes on without them.
LEMMA GetNodeVPCEffect ==
    ASSUME TypeInv, NEW n \in Node, GetNodeVPC(n)
    PROVE  /\ TypeInv'
           /\ daemon'[n].at = "node"
           /\ daemon'[n].subnets = VPCSubnets \/ "list" \in Faults
           /\ OthersKeep(n)
           /\ UNCHANGED <<unused, name, router, annotation>>
  <1>1. VPCSubnets \subseteq Subnet
    BY VxNetAssumption DEF TypeInv, VxNetTypeOK, VPCSubnets
  <1>2. Down \in Memory /\ "node" \in Label
    BY DownType DEF Label
  <1>3. PICK r \in Memory : /\ daemon' = [daemon EXCEPT ![n] = r]
                            /\ r.at = "node"
                            /\ r.subnets = VPCSubnets \/ "list" \in Faults
    <2>1. CASE Becomes(n, [Down EXCEPT !.at = "node", !.subnets = VPCSubnets])
      <3> DEFINE r == [Down EXCEPT !.at = "node", !.subnets = VPCSubnets]
      <3>1. r \in Memory /\ r.at = "node" /\ r.subnets = VPCSubnets
        BY <1>1, <1>2 DEF Memory
      <3> QED
        BY <2>1, <3>1 DEF Becomes
    <2>2. CASE "list" \in Faults /\ Becomes(n, [Down EXCEPT !.at = "node"])
      <3> DEFINE r == [Down EXCEPT !.at = "node"]
      <3>1. r \in Memory /\ r.at = "node"
        BY <1>2 DEF Memory
      <3> QED
        BY <2>2, <3>1 DEF Becomes
    <2> QED
      BY <2>1, <2>2 DEF GetNodeVPC, Wrong
  <1>4. faults' \in 0 .. MaxFaults
    BY FaultsType DEF GetNodeVPC
  <1>5. /\ daemon' \in [Node -> Memory]
        /\ daemon'[n] = r
        /\ OthersKeep(n)
    BY <1>3, Update
  <1>6. UNCHANGED <<unused, name, router, annotation>>
    BY DEF GetNodeVPC, cloudVars
  <1> QED
    BY <1>3, <1>4, <1>5, <1>6 DEF TypeInv, VxNetTypeOK, Holding, OthersKeep

\* The node is looked up by its annotation, if it is seen, or by name.
LEMMA GetCurrentNodeEffect ==
    ASSUME TypeInv, NEW n \in Node, GetCurrentNode(n)
    PROVE  /\ TypeInv'
           /\ daemon'[n].subnets = daemon[n].subnets
           /\ \/ /\ annotation[n] # NoVxNet
                 /\ daemon'[n].at = "describe"
                 /\ daemon'[n].vxnet = annotation[n]
              \/ daemon'[n].at = "search"
           /\ OthersKeep(n)
           /\ UNCHANGED <<unused, name, router, annotation>>
  <1>1. daemon[n] \in Memory /\ annotation[n] \in VxNet \cup {NoVxNet}
    BY DEF TypeInv, VxNetTypeOK
  <1>2. PICK r \in Memory :
          /\ daemon' = [daemon EXCEPT ![n] = r]
          /\ r.subnets = daemon[n].subnets
          /\ \/ annotation[n] # NoVxNet /\ r.at = "describe" /\ r.vxnet = annotation[n]
             \/ r.at = "search"
    <2>1. CASE /\ annotation[n] # NoVxNet
               /\ daemon' = [daemon EXCEPT ![n].at = "describe", ![n].vxnet = annotation[n]]
      <3> DEFINE r == [daemon[n] EXCEPT !.at = "describe", !.vxnet = annotation[n]]
      <3>1. /\ r \in Memory /\ r.at = "describe" /\ r.vxnet = annotation[n]
            /\ r.subnets = daemon[n].subnets
        BY <1>1 DEF Memory, Label
      <3>2. daemon' = [daemon EXCEPT ![n] = r]
        BY <2>1
      <3> QED
        BY <2>1, <3>1, <3>2
    <2>2. CASE Goto(n, "search")
      <3> DEFINE r == [daemon[n] EXCEPT !.at = "search"]
      <3>1. r \in Memory /\ r.at = "search" /\ r.subnets = daemon[n].subnets
        BY <1>1 DEF Memory, Label
      <3>2. daemon' = [daemon EXCEPT ![n] = r]
        BY <2>2 DEF Goto
      <3> QED
        BY <3>1, <3>2
    <2> QED
      BY <2>1, <2>2 DEF GetCurrentNode
  <1>3. faults' \in 0 .. MaxFaults
    BY FaultsType DEF GetCurrentNode
  <1>4. daemon' \in [Node -> Memory] /\ daemon'[n] = r /\ OthersKeep(n)
    BY <1>2, Update
  <1>5. UNCHANGED <<unused, name, router, annotation>>
    BY DEF GetCurrentNode, cloudVars
  <1> QED
    BY <1>1, <1>2, <1>3, <1>4, <1>5 DEF TypeInv, VxNetTypeOK, Holding, OthersKeep

\* The network of the annotation is used if it exists.
LEMMA GetVxNetEffect ==
    ASSUME TypeInv, NEW n \in Node, GetVxNet(n)
    PROVE  /\ TypeInv'
           /\ \/ daemon'[n].at = "down"
              \/ /\ name[daemon[n].vxnet] # NoNode
                 /\ daemon'[n].at = "ready"
                 /\ daemon'[n].vxnet = daemon[n].vxnet
                 /\ daemon'[n].network = router[daemon[n].vxnet]
                 /\ daemon'[n].subnets = daemon[n].subnets
           /\ OthersKeep(n)
           /\ UNCHANGED <<unused, name, router, annotation>>
  <1> DEFINE v == daemon[n].vxnet
  <1>1. daemon[n] \in Memory /\ v \in VxNet /\ router[v] \in Subnet \cup {NoSubnet}
    BY DEF TypeInv, VxNetTypeOK, Holding, GetVxNet, At
  <1>2. faults' \in 0 .. MaxFaults
    BY FaultsType DEF GetVxNet
  <1>3. UNCHANGED <<unused, name, router, annotation>>
    BY DEF GetVxNet, cloudVars
  <1>4. CASE Exit(n)
    BY <1>2, <1>3, <1>4, ExitEffect DEF TypeInv, VxNetTypeOK, Holding, OthersKeep
  <1>5. CASE /\ name[v] # NoNode
             /\ daemon' = [daemon EXCEPT ![n].at = "ready", ![n].network = router[v]]
    <2> DEFINE r == [daemon[n] EXCEPT !.at = "ready", !.network = router[v]]
    <2>1. /\ r \in Memory /\ r.at = "ready" /\ r.vxnet = v
          /\ r.network = router[v] /\ r.subnets = daemon[n].subnets
      BY <1>1 DEF Memory, Label
    <2>2. daemon' = [daemon EXCEPT ![n] = r]
      BY <1>5
    <2> HIDE DEF r
    <2>3. daemon' \in [Node -> Memory] /\ daemon'[n] = r /\ OthersKeep(n)
      BY <2>1, <2>2, Update
    <2> QED
      BY <1>1, <1>2, <1>3, <1>5, <2>1, <2>3 DEF TypeInv, VxNetTypeOK, Holding, OthersKeep
  <1> QED
    BY <1>4, <1>5 DEF GetVxNet

\* A network found by name is used or joined; only without one another is created.
LEMMA GetVxNetByNameEffect ==
    ASSUME TypeInv, NEW n \in Node, GetVxNetByName(n)
    PROVE  /\ TypeInv'
           /\ daemon'[n].subnets = daemon[n].subnets
           /\ \/ /\ daemon'[n].at = "create"
                 /\ Named(n) = {}
              \/ /\ daemon'[n].at = "list"
                 /\ daemon'[n].vxnet \in Named(n)
                 /\ router[daemon'[n].vxnet] = NoSubnet
              \/ /\ daemon'[n].at = "ready"
                 /\ daemon'[n].vxnet \in Named(n)
                 /\ router[daemon'[n].vxnet] # NoSubnet
                 /\ daemon'[n].network = router[daemon'[n].vxnet]
           /\ OthersKeep(n)
           /\ UNCHANGED <<unused, name, router, annotation>>
  <1>1. daemon[n] \in Memory
    BY DEF TypeInv, VxNetTypeOK
  <1>2. faults' \in 0 .. MaxFaults
    BY FaultsType DEF GetVxNetByName
  <1>3. UNCHANGED <<unused, name, router, annotation>>
    BY DEF GetVxNetByName, cloudVars
  <1>4. CASE Goto(n, "create") /\ Named(n) = {}
    <2> DEFINE r == [daemon[n] EXCEPT !.at = "create"]
    <2>1. r \in Memory /\ r.at = "create" /\ r.subnets = daemon[n].subnets
      BY <1>1 DEF Memory, Label
    <2>2. daemon' = [daemon EXCEPT ![n] = r]
      BY <1>4 DEF Goto
    <2> HIDE DEF r
    <2>3. daemon' \in [Node -> Memory] /\ daemon'[n] = r /\ OthersKeep(n)
      BY <2>1, <2>2, Update
    <2> QED
      BY <1>2, <1>3, <1>4, <2>1, <2>3
      DEF TypeInv, VxNetTypeOK, Holding, OthersKeep
  <1>5. CASE \E v \in Named(n) :
               daemon' = [daemon EXCEPT ![n].at = IF router[v] = NoSubnet THEN "list" ELSE "ready",
                                        ![n].vxnet = v, ![n].network = router[v]]
    <2> DEFINE labelOf(v) == IF router[v] = NoSubnet THEN "list" ELSE "ready"
    <2>0. PICK v \in Named(n) : daemon' = [daemon EXCEPT
              ![n].at = labelOf(v), ![n].vxnet = v, ![n].network = router[v]]
      BY <1>5
    <2> DEFINE label == labelOf(v)
    <2> DEFINE r == [daemon[n] EXCEPT !.at = label, !.vxnet = v, !.network = router[v]]
    <2>1. v \in VxNet /\ router[v] \in Subnet \cup {NoSubnet} /\ label \in Label
      BY DEF TypeInv, VxNetTypeOK, Named, Label
    <2>2. /\ r \in Memory /\ r.at = label /\ r.vxnet = v /\ r.network = router[v]
          /\ r.subnets = daemon[n].subnets
      BY <1>1, <2>1 DEF Memory
    <2>3. daemon' = [daemon EXCEPT ![n] = r]
      BY <2>0
    <2> HIDE DEF r
    <2>4. daemon' \in [Node -> Memory] /\ daemon'[n] = r /\ OthersKeep(n)
      BY <2>2, <2>3, Update
    <2> QED
      BY <1>2, <1>3, <2>1, <2>2, <2>4 DEF TypeInv, VxNetTypeOK, Holding, OthersKeep
  <1> QED
    BY <1>4, <1>5 DEF GetVxNetByName

\* A new network is named for the node, whether the daemon learns of it or not.
LEMMA CreateVxNetEffect ==
    ASSUME TypeInv, NEW n \in Node, CreateVxNet(n)
    PROVE  /\ TypeInv'
           /\ \E v \in unused :
                /\ unused' = unused \ {v}
                /\ name' = [name EXCEPT ![v] = n]
                /\ \/ daemon'[n].at = "down"
                   \/ /\ daemon'[n].at = "list"
                      /\ daemon'[n].vxnet = v
                      /\ daemon'[n].subnets = daemon[n].subnets
           /\ OthersKeep(n)
           /\ UNCHANGED <<router, annotation>>
  <1>1. daemon[n] \in Memory /\ unused \subseteq VxNet
    BY DEF TypeInv, VxNetTypeOK
  <1>2. PICK v \in unused :
          /\ unused' = unused \ {v}
          /\ name' = [name EXCEPT ![v] = n]
          /\ \/ Exit(n)
             \/ daemon' = [daemon EXCEPT ![n].at = "list", ![n].vxnet = v, ![n].fresh = TRUE]
    BY DEF CreateVxNet
  <1>3. faults' \in 0 .. MaxFaults
    BY FaultsType DEF CreateVxNet
  <1>4. /\ unused' \subseteq VxNet
        /\ name' \in [VxNet -> Node \cup {NoNode}]
        /\ UNCHANGED <<router, annotation>>
    BY <1>1, <1>2 DEF TypeInv, VxNetTypeOK, CreateVxNet
  <1>5. CASE Exit(n)
    BY <1>2, <1>3, <1>4, <1>5, ExitEffect DEF TypeInv, VxNetTypeOK, Holding, OthersKeep
  <1>6. CASE daemon' = [daemon EXCEPT ![n].at = "list", ![n].vxnet = v, ![n].fresh = TRUE]
    <2> DEFINE r == [daemon[n] EXCEPT !.at = "list", !.vxnet = v, !.fresh = TRUE]
    <2>1. /\ r \in Memory /\ r.at = "list" /\ r.vxnet = v
          /\ r.subnets = daemon[n].subnets
      BY <1>1, <1>2 DEF Memory, Label
    <2>2. daemon' = [daemon EXCEPT ![n] = r]
      BY <1>6
    <2> HIDE DEF r
    <2>3. daemon' \in [Node -> Memory] /\ daemon'[n] = r /\ OthersKeep(n)
      BY <2>1, <2>2, Update
    <2> QED
      BY <1>1, <1>2, <1>3, <1>4, <2>1, <2>3 DEF TypeInv, VxNetTypeOK, Holding, OthersKeep
  <1> QED
    BY <1>2, <1>5, <1>6

\* An attempt chooses a free subnet, fails, or finds none and goes on.
LEMMA GetVPCVxNetsEffect ==
    ASSUME TypeInv, NEW n \in Node, GetVPCVxNets(n)
    PROVE  /\ TypeInv'
           /\ \/ daemon'[n].at = "down"
              \/ /\ daemon'[n].at = "list"
                 /\ daemon'[n].vxnet = daemon[n].vxnet
                 /\ daemon'[n].subnets = daemon[n].subnets
              \/ /\ daemon'[n].at = "join"
                 /\ daemon'[n].vxnet = daemon[n].vxnet
                 /\ daemon'[n].network # NoSubnet
                 /\ daemon'[n].subnets = daemon[n].subnets
              \/ /\ daemon'[n].at \in {"annotate", "ready"}
                 /\ daemon'[n].vxnet = daemon[n].vxnet
                 /\ Subnet \subseteq VPCSubnets
                 /\ daemon'[n].subnets = daemon[n].subnets \cup {daemon'[n].network}
           /\ OthersKeep(n)
           /\ UNCHANGED <<unused, name, router, annotation>>
  <1> DEFINE s == chooseIPFromVxnet(VPCSubnets)
             left == IF daemon[n].network = NoSubnet THEN NoSubnet ELSE LastSubnet
  <1>1. daemon[n] \in Memory /\ daemon[n].vxnet \in VxNet
    BY DEF TypeInv, VxNetTypeOK, Holding, GetVPCVxNets, At
  <1>2. faults' \in 0 .. MaxFaults
    BY FaultsType DEF GetVPCVxNets
  <1>3. UNCHANGED <<unused, name, router, annotation>>
    BY DEF GetVPCVxNets, cloudVars
  <1>4. s \in Subnet \/ (s = NoSubnet /\ Subnet \subseteq VPCSubnets)
    BY ChoiceCorrect
  <1>5. left \in Subnet \cup {NoSubnet} /\ AfterJoin(n) \in {"annotate", "ready"}
    BY LastSubnetType DEF AfterJoin
  <1> HIDE DEF s, left
  <1>6. CASE /\ s # NoSubnet
             /\ daemon' = [daemon EXCEPT ![n].at = "join", ![n].network = s]
    <2> DEFINE r == [daemon[n] EXCEPT !.at = "join", !.network = s]
    <2>1. /\ r \in Memory /\ r.at = "join" /\ r.vxnet = daemon[n].vxnet
          /\ r.network = s /\ r.subnets = daemon[n].subnets
      BY <1>1, <1>4, <1>6 DEF Memory, Label
    <2>2. daemon' = [daemon EXCEPT ![n] = r]
      BY <1>6
    <2> HIDE DEF r
    <2>3. daemon' \in [Node -> Memory] /\ daemon'[n] = r /\ OthersKeep(n)
      BY <2>1, <2>2, Update
    <2> QED
      BY <1>1, <1>2, <1>3, <1>6, <2>1, <2>3 DEF TypeInv, VxNetTypeOK, Holding, OthersKeep
  <1>7. CASE /\ s = NoSubnet
             /\ daemon' = [daemon EXCEPT ![n].at = AfterJoin(n), ![n].network = left,
                                          ![n].subnets = @ \cup {left}]
    <2> DEFINE r == [daemon[n] EXCEPT !.at = AfterJoin(n), !.network = left,
                                      !.subnets = @ \cup {left}]
    <2>1. /\ r \in Memory /\ r.at \in {"annotate", "ready"} /\ r.vxnet = daemon[n].vxnet
          /\ r.subnets = daemon[n].subnets \cup {r.network}
      BY <1>1, <1>5 DEF Memory, Label
    <2>2. daemon' = [daemon EXCEPT ![n] = r]
      BY <1>7
    <2> HIDE DEF r
    <2>3. daemon' \in [Node -> Memory] /\ daemon'[n] = r /\ OthersKeep(n)
      BY <2>1, <2>2, Update
    <2>4. Subnet \subseteq VPCSubnets
      BY <1>4, <1>7, VxNetAssumption DEF NoSubnet
    <2> QED
      BY <1>1, <1>2, <1>3, <2>1, <2>3, <2>4 DEF TypeInv, VxNetTypeOK, Holding, OthersKeep
  <1>8. CASE JoinError(n)
    BY <1>1, <1>2, <1>3, <1>8, JoinErrorEffect DEF TypeInv, VxNetTypeOK, Holding, OthersKeep
  <1> QED
    BY <1>6, <1>7, <1>8 DEF GetVPCVxNets, s, left

\* The network joins the VPC under the subnet chosen, or does not; the daemon
\* goes on only if it knows that it has.
LEMMA JoinVPCEffect ==
    ASSUME TypeInv, NEW n \in Node, JoinVPC(n)
    PROVE  /\ TypeInv'
           /\ router' = router \/ Joins(n)
           /\ \/ daemon'[n].at = "down"
              \/ /\ daemon'[n].at = "list"
                 /\ daemon'[n].vxnet = daemon[n].vxnet
                 /\ daemon'[n].subnets = daemon[n].subnets
              \/ /\ Joins(n)
                 /\ daemon'[n].at \in {"annotate", "ready"}
                 /\ daemon'[n].vxnet = daemon[n].vxnet
                 /\ daemon'[n].network = daemon[n].network
                 /\ daemon'[n].subnets = daemon[n].subnets \cup {daemon[n].network}
           /\ OthersKeep(n)
           /\ UNCHANGED <<unused, name, annotation>>
  <1>1. daemon[n] \in Memory /\ daemon[n].vxnet \in VxNet
    BY DEF TypeInv, VxNetTypeOK, Holding, JoinVPC, At
  <1>2. faults' \in 0 .. MaxFaults
    BY FaultsType DEF JoinVPC
  <1>3. UNCHANGED <<unused, name, annotation>>
    BY DEF JoinVPC
  <1>4. \/ router' = router
        \/ Admitted(n) /\ Joins(n)
    BY DEF JoinVPC
  <1>5. router' \in [VxNet -> (Subnet \ InUse) \cup {NoSubnet}]
    <2>1. CASE Admitted(n) /\ Joins(n)
      <3>1. daemon[n].network \in (Subnet \ InUse) \cup {NoSubnet}
        BY <1>1, <2>1 DEF Admitted, VPCSubnets, Memory
      <3> QED
        BY <2>1, <3>1 DEF Joins, TypeInv, VxNetTypeOK
    <2> QED
      BY <1>4, <2>1 DEF TypeInv, VxNetTypeOK
  <1>6. CASE JoinError(n)
    BY <1>1, <1>2, <1>3, <1>4, <1>5, <1>6, JoinErrorEffect
    DEF TypeInv, VxNetTypeOK, Holding, OthersKeep
  <1>7. CASE Joins(n) /\ Joined(n)
    <2> DEFINE r == [daemon[n] EXCEPT !.at = AfterJoin(n),
                                      !.subnets = @ \cup {daemon[n].network}]
    <2>1. AfterJoin(n) \in {"annotate", "ready"}
      BY DEF AfterJoin
    <2>2. /\ r \in Memory /\ r.at \in {"annotate", "ready"} /\ r.vxnet = daemon[n].vxnet
          /\ r.network = daemon[n].network
          /\ r.subnets = daemon[n].subnets \cup {daemon[n].network}
      BY <1>1, <2>1 DEF Memory, Label
    <2>3. daemon' = [daemon EXCEPT ![n] = r]
      BY <1>7 DEF Joined
    <2> HIDE DEF r
    <2>4. daemon' \in [Node -> Memory] /\ daemon'[n] = r /\ OthersKeep(n)
      BY <2>2, <2>3, Update
    <2> QED
      BY <1>1, <1>2, <1>3, <1>4, <1>5, <1>7, <2>2, <2>4
      DEF TypeInv, VxNetTypeOK, Holding, OthersKeep
  <1> QED
    BY <1>6, <1>7 DEF JoinVPC

\* The annotation is written, and the daemon ready if it knows.
LEMMA UpdateNodeAnnotationEffect ==
    ASSUME TypeInv, NEW n \in Node, UpdateNodeAnnotation(n)
    PROVE  /\ TypeInv'
           /\ daemon'[n].vxnet = daemon[n].vxnet
           /\ daemon'[n].network = daemon[n].network
           /\ daemon'[n].subnets = daemon[n].subnets
           /\ \/ /\ annotation' = [annotation EXCEPT ![n] = daemon[n].vxnet]
                 /\ \/ daemon'[n].at = "ready"
                    \/ daemon'[n].at = "leave" /\ "apilost" \in Faults
              \/ /\ annotation' = annotation
                 /\ daemon'[n].at = "leave"
           /\ OthersKeep(n)
           /\ UNCHANGED <<unused, name, router>>
  <1>1. daemon[n] \in Memory /\ daemon[n].vxnet \in VxNet
    BY DEF TypeInv, VxNetTypeOK, Holding, UpdateNodeAnnotation, At
  <1>2. faults' \in 0 .. MaxFaults
    BY FaultsType DEF UpdateNodeAnnotation
  <1>3. /\ UNCHANGED <<unused, name, router>>
        /\ annotation' \in [Node -> VxNet \cup {NoVxNet}]
    BY <1>1 DEF UpdateNodeAnnotation, cloudVars, TypeInv, VxNetTypeOK
  <1>4. PICK label \in {"ready", "leave"} :
          /\ Goto(n, label)
          /\ \/ /\ annotation' = [annotation EXCEPT ![n] = daemon[n].vxnet]
                /\ label = "ready" \/ "apilost" \in Faults
             \/ annotation' = annotation /\ label = "leave"
    BY DEF UpdateNodeAnnotation, Wrong
  <1> DEFINE r == [daemon[n] EXCEPT !.at = label]
  <1>5. /\ r \in Memory /\ r.at = label /\ r.vxnet = daemon[n].vxnet
        /\ r.network = daemon[n].network /\ r.subnets = daemon[n].subnets
    BY <1>1 DEF Memory, Label
  <1>6. daemon' = [daemon EXCEPT ![n] = r]
    BY <1>4 DEF Goto
  <1> HIDE DEF r
  <1>7. daemon' \in [Node -> Memory] /\ daemon'[n] = r /\ OthersKeep(n)
    BY <1>5, <1>6, Update
  <1> QED
    BY <1>1, <1>2, <1>3, <1>4, <1>5, <1>7 DEF TypeInv, VxNetTypeOK, Holding, OthersKeep

\* A network that could not be recorded leaves the VPC, if the call succeeds.
LEMMA LeaveVPCEffect ==
    ASSUME TypeInv, NEW n \in Node, LeaveVPC(n)
    PROVE  /\ TypeInv'
           /\ \/ router' = router
              \/ router' = [router EXCEPT ![daemon[n].vxnet] = NoSubnet]
           /\ \/ daemon'[n].at = "down"
              \/ /\ daemon'[n].at = "delete"
                 /\ daemon'[n].vxnet = daemon[n].vxnet
           /\ OthersKeep(n)
           /\ UNCHANGED <<unused, name, annotation>>
  <1>1. daemon[n] \in Memory /\ daemon[n].vxnet \in VxNet
    BY DEF TypeInv, VxNetTypeOK, Holding, LeaveVPC, At
  <1>2. faults' \in 0 .. MaxFaults
    BY FaultsType DEF LeaveVPC
  <1>3. /\ UNCHANGED <<unused, name, annotation>>
        /\ \/ router' = router
           \/ router' = [router EXCEPT ![daemon[n].vxnet] = NoSubnet]
    BY DEF LeaveVPC
  <1>4. router' \in [VxNet -> (Subnet \ InUse) \cup {NoSubnet}]
    BY <1>3 DEF TypeInv, VxNetTypeOK
  <1>5. CASE Exit(n)
    BY <1>2, <1>3, <1>4, <1>5, ExitEffect DEF TypeInv, VxNetTypeOK, Holding, OthersKeep
  <1>6. CASE Goto(n, "delete")
    <2> DEFINE r == [daemon[n] EXCEPT !.at = "delete"]
    <2>1. r \in Memory /\ r.at = "delete" /\ r.vxnet = daemon[n].vxnet
      BY <1>1 DEF Memory, Label
    <2>2. daemon' = [daemon EXCEPT ![n] = r]
      BY <1>6 DEF Goto
    <2> HIDE DEF r
    <2>3. daemon' \in [Node -> Memory] /\ daemon'[n] = r /\ OthersKeep(n)
      BY <2>1, <2>2, Update
    <2> QED
      BY <1>1, <1>2, <1>3, <1>4, <2>1, <2>3 DEF TypeInv, VxNetTypeOK, Holding, OthersKeep
  <1> QED
    BY <1>5, <1>6 DEF LeaveVPC

\* The network is deleted or left, and the daemon ends.
LEMMA DeleteVxNetEffect ==
    ASSUME TypeInv, NEW n \in Node, DeleteVxNet(n)
    PROVE  /\ TypeInv'
           /\ name' = name \/ name' = [name EXCEPT ![daemon[n].vxnet] = NoNode]
           /\ UNCHANGED <<unused, router, annotation>>
           /\ daemon'[n].at = "down"
           /\ OthersKeep(n)
  <1>1. faults' \in 0 .. MaxFaults
    BY FaultsType DEF DeleteVxNet
  <1>2. /\ UNCHANGED <<unused, router, annotation>>
        /\ name' = name \/ name' = [name EXCEPT ![daemon[n].vxnet] = NoNode]
        /\ Exit(n)
    BY DEF DeleteVxNet
  <1>3. name' \in [VxNet -> Node \cup {NoNode}]
    BY <1>2 DEF TypeInv, VxNetTypeOK
  <1> QED
    BY <1>1, <1>2, <1>3, ExitEffect DEF TypeInv, VxNetTypeOK, Holding, OthersKeep

\* A daemon that ends leaves the cloud and the annotations as they are.
LEMMA EndEffect ==
    ASSUME TypeInv, NEW n \in Node, CallFails(n) \/ Crash(n)
    PROVE  /\ TypeInv'
           /\ UNCHANGED <<unused, name, router, annotation>>
           /\ daemon'[n].at = "down"
           /\ OthersKeep(n)
  <1>1. faults' \in 0 .. MaxFaults
    BY FaultsType DEF CallFails, Crash
  <1>2. Exit(n) /\ UNCHANGED <<unused, name, router, annotation>>
    BY DEF CallFails, Crash, cloudVars
  <1> QED
    BY <1>1, <1>2, ExitEffect DEF TypeInv, VxNetTypeOK, Holding, OthersKeep

\* TypeInv holds initially, no daemon having started (Init).
LEMMA TypeInit == Init => TypeInv
  <1> SUFFICES ASSUME Init
               PROVE  TypeInv
    OBVIOUS
  <1>1. daemon \in [Node -> Memory] /\ \A n \in Node : daemon[n].at = "down"
    BY DownType DEF Init, Down
  <1> QED
    BY <1>1, VxNetAssumption DEF Init, TypeInv, VxNetTypeOK, Holding

\* Every step of EnsureVxNet, and every failure, preserves TypeInv.
LEMMA TypeStep == TypeInv /\ [Next]_vars => TypeInv'
  <1> SUFFICES ASSUME TypeInv, [Next]_vars
               PROVE  TypeInv'
    OBVIOUS
  <1>1. CASE Next
    <2>1. PICK n \in Node : Step(n) \/ CallFails(n) \/ Crash(n)
      BY <1>1 DEF Next
    <2> QED
      BY <2>1, GetNodeVPCEffect, GetCurrentNodeEffect, GetVxNetEffect, GetVxNetByNameEffect,
         CreateVxNetEffect, GetVPCVxNetsEffect, JoinVPCEffect, UpdateNodeAnnotationEffect,
         LeaveVPCEffect, DeleteVxNetEffect, EndEffect DEF Step
  <1>2. CASE UNCHANGED vars
    BY <1>2 DEF vars, cloudVars, TypeInv, VxNetTypeOK, Holding
  <1> QED
    BY <1>1, <1>2

\* The state is well formed, the number of attempts to join among it, whatever
\* fails (VxNetTypeOK: EnsureVxNet, joinVPC, createNewVxnet).
THEOREM VxNetTypeCorrect == Spec => []VxNetTypeOK
  <1>1. TypeInv => VxNetTypeOK
    BY DEF TypeInv
  <1> QED
    BY <1>1, TypeInit, TypeStep, PTL DEF Spec

----------------------------------------------------------------------------
(* One network per node *)

\* An identifier the cloud has not given yet names nothing.
UnusedUnnamed == \A v \in unused : name[v] = NoNode

OneInv ==
    /\ TypeInv
    /\ UnusedUnnamed
    /\ OneNetwork
    /\ \A n \in Node : At(n, "create") => Named(n) = {}

\* OneInv holds initially, no network being named.
LEMMA OneInit == Init => OneInv
  BY TypeInit DEF Init, OneInv, UnusedUnnamed, OneNetwork, At, Down

\* A step that renames nothing preserves OneInv if the daemon does not turn to
\* creating a network while its node has one.
LEMMA OneKeep ==
    ASSUME OneInv, TypeInv', NEW n \in Node, OthersKeep(n), UNCHANGED <<unused, name>>,
           daemon'[n].at = "create" => Named(n) = {}
    PROVE  OneInv'
  <1>1. (UnusedUnnamed /\ OneNetwork)'
    BY DEF OneInv, UnusedUnnamed, OneNetwork
  <1>2. \A m \in Node : At(m, "create")' => Named(m)' = {}
    BY DEF OneInv, At, Named, OthersKeep
  <1> QED
    BY <1>1, <1>2 DEF OneInv

\* Every step of EnsureVxNet, and every failure, preserves OneInv.
LEMMA OneStep == OneInv /\ [Next]_vars => OneInv'
  <1> SUFFICES ASSUME OneInv, [Next]_vars
               PROVE  OneInv'
    OBVIOUS
  <1>0. TypeInv /\ TypeInv'
    BY TypeStep DEF OneInv
  <1>1. CASE UNCHANGED vars
    BY <1>0, <1>1 DEF vars, cloudVars, OneInv, UnusedUnnamed, OneNetwork, At, Named
  <1>2. CASE Next
    <2>1. PICK n \in Node : Step(n) \/ CallFails(n) \/ Crash(n)
      BY <1>2 DEF Next
    <2>2. CASE GetNodeVPC(n)
      BY <1>0, <2>2, GetNodeVPCEffect, OneKeep
    <2>3. CASE GetCurrentNode(n)
      BY <1>0, <2>3, GetCurrentNodeEffect, OneKeep
    <2>4. CASE GetVxNet(n)
      BY <1>0, <2>4, GetVxNetEffect, OneKeep
    <2>5. CASE GetVxNetByName(n)
      BY <1>0, <2>5, GetVxNetByNameEffect, OneKeep
    <2>6. CASE CreateVxNet(n)
      <3>1. PICK v \in unused : /\ unused' = unused \ {v}
                                /\ name' = [name EXCEPT ![v] = n]
                                /\ daemon'[n].at \in {"down", "list"}
                                /\ OthersKeep(n)
        BY <1>0, <2>6, CreateVxNetEffect
      <3>2. Named(n) = {} /\ name \in [VxNet -> Node \cup {NoNode}] /\ v \in VxNet
        BY <1>0, <2>6 DEF OneInv, CreateVxNet, TypeInv, VxNetTypeOK
      <3>3. \A w \in VxNet : name'[w] = IF w = v THEN n ELSE name[w]
        BY <3>1, <3>2
      <3>4. UnusedUnnamed'
        BY <1>0, <3>1, <3>3 DEF OneInv, UnusedUnnamed, TypeInv, VxNetTypeOK
      <3>5. OneNetwork'
        BY <3>2, <3>3 DEF OneInv, OneNetwork, Named
      <3>6. \A m \in Node : At(m, "create")' => Named(m)' = {}
        BY <3>1, <3>3 DEF OneInv, At, Named, OthersKeep
      <3> QED
        BY <1>0, <3>4, <3>5, <3>6 DEF OneInv
    <2>7. CASE GetVPCVxNets(n)
      BY <1>0, <2>7, GetVPCVxNetsEffect, OneKeep
    <2>8. CASE JoinVPC(n)
      BY <1>0, <2>8, JoinVPCEffect, OneKeep
    <2>9. CASE UpdateNodeAnnotation(n)
      BY <1>0, <2>9, UpdateNodeAnnotationEffect, OneKeep
    <2>10. CASE LeaveVPC(n)
      BY <1>0, <2>10, LeaveVPCEffect, OneKeep
    <2>11. CASE DeleteVxNet(n)
      <3>1. /\ name' = name \/ name' = [name EXCEPT ![daemon[n].vxnet] = NoNode]
            /\ unused' = unused /\ daemon'[n].at = "down" /\ OthersKeep(n)
        BY <1>0, <2>11, DeleteVxNetEffect
      <3>2. name \in [VxNet -> Node \cup {NoNode}] /\ NoNode \notin Node
        BY <1>0, VxNetAssumption DEF TypeInv, VxNetTypeOK
      <3>3. \A w \in VxNet : name'[w] \in {name[w], NoNode}
        BY <3>1, <3>2
      <3>4. UnusedUnnamed'
        BY <1>0, <3>1, <3>3 DEF OneInv, UnusedUnnamed, TypeInv, VxNetTypeOK
      <3>5. OneNetwork'
        BY <3>3 DEF OneInv, OneNetwork
      <3>6. \A m \in Node : At(m, "create")' => Named(m)' = {}
        BY <3>1, <3>2, <3>3 DEF OneInv, At, Named, OthersKeep
      <3> QED
        BY <1>0, <3>4, <3>5, <3>6 DEF OneInv
    <2>12. CASE CallFails(n) \/ Crash(n)
      BY <1>0, <2>12, EndEffect, OneKeep
    <2> QED
      BY <2>1, <2>2, <2>3, <2>4, <2>5, <2>6, <2>7, <2>8, <2>9, <2>10, <2>11, <2>12 DEF Step
  <1> QED
    BY <1>1, <1>2

\* A node never has two networks, however often its daemon is killed, whatever
\* fails and whatever it then finds (OneNetwork: EnsureVxNet, GetVxNetByName).
THEOREM OneNetworkCorrect == Spec => []OneNetwork
  <1>1. OneInv => OneNetwork
    BY DEF OneInv
  <1> QED
    BY <1>1, OneInit, OneStep, PTL DEF Spec

----------------------------------------------------------------------------
(* The network a daemon relies on is in the VPC *)

\* The VPC has room for another network.
SubnetFree == \E s \in Subnet : s \notin VPCSubnets

\* From the creation or discovery of its network to its exit, a daemon works
\* on a network of its own node, ...
Owning == {"list", "join", "annotate", "leave", "delete", "ready"}

\* ... which no annotation names until the daemon is ready.
Unrecorded == Owning \ {"ready"}

DaemonSound(n) ==
    /\ At(n, "describe") => daemon[n].vxnet = annotation[n]
    /\ daemon[n].at \in Owning => name[daemon[n].vxnet] = n
    /\ daemon[n].at \in Unrecorded => annotation[n] # daemon[n].vxnet
    /\ At(n, "join") => daemon[n].network # NoSubnet
    /\ daemon[n].at \in {"annotate", "ready"} =>
           daemon[n].network # NoSubnet /\ router[daemon[n].vxnet] = daemon[n].network

JoinInv ==
    /\ TypeInv
    /\ UnusedUnnamed
    /\ AnnotationSound
    /\ \A n \in Node : DaemonSound(n)

\* JoinInv holds initially, nothing being named, joined or annotated.
LEMMA JoinInit == Init => JoinInv
  BY TypeInit DEF Init, JoinInv, UnusedUnnamed, AnnotationSound, DaemonSound, At, Owning,
                  Unrecorded, Down

\* A step that leaves the cloud and the annotations alone preserves JoinInv if
\* it leaves the daemon that takes it sound.
LEMMA JoinKeep ==
    ASSUME JoinInv, TypeInv', NEW n \in Node, OthersKeep(n),
           UNCHANGED <<unused, name, router, annotation>>, DaemonSound(n)'
    PROVE  JoinInv'
  <1>1. (UnusedUnnamed /\ AnnotationSound)'
    BY DEF JoinInv, UnusedUnnamed, AnnotationSound
  <1>2. \A m \in Node : DaemonSound(m)'
    BY DEF JoinInv, DaemonSound, At, OthersKeep
  <1> QED
    BY <1>1, <1>2 DEF JoinInv

\* A step that changes the name or the subnet of a network of the node's own,
\* or of none, leaves the other daemons sound.
LEMMA OthersSound ==
    ASSUME JoinInv, NEW n \in Node, OthersKeep(n), NEW v \in VxNet,
           name[v] \in {n, NoNode},
           \A w \in VxNet : w # v => name'[w] = name[w] /\ router'[w] = router[w],
           \A m \in Node : m # n => annotation'[m] = annotation[m]
    PROVE  /\ \A m \in Node : m # n => DaemonSound(m)'
           /\ \A m \in Node : m # n /\ annotation'[m] # NoVxNet =>
                  name'[annotation'[m]] = m /\ router'[annotation'[m]] # NoSubnet
  <1>1. NoNode \notin Node /\ TypeInv
    BY VxNetAssumption DEF JoinInv
  <1>2. ASSUME NEW m \in Node, m # n
        PROVE  DaemonSound(m)'
    <2>1. daemon[m].at \in Owning =>
              /\ daemon[m].vxnet \in VxNet
              /\ name[daemon[m].vxnet] = m
              /\ daemon[m].vxnet # v
      BY <1>1, <1>2 DEF JoinInv, DaemonSound, TypeInv, Holding, Owning
    <2> QED
      BY <1>2, <2>1 DEF JoinInv, DaemonSound, OthersKeep, At, Owning, Unrecorded
  <1>3. ASSUME NEW m \in Node, m # n, annotation'[m] # NoVxNet
        PROVE  name'[annotation'[m]] = m /\ router'[annotation'[m]] # NoSubnet
    <2>1. annotation[m] \in VxNet /\ name[annotation[m]] = m /\ annotation[m] # v
      BY <1>1, <1>3 DEF JoinInv, AnnotationSound, TypeInv, VxNetTypeOK
    <2> QED
      BY <1>3, <2>1 DEF JoinInv, AnnotationSound
  <1> QED
    BY <1>2, <1>3

\* Every step preserves JoinInv while the VPC has room, provided a write of the
\* annotation that is reported to fail has failed.
LEMMA JoinStep ==
    ASSUME "apilost" \notin Faults
    PROVE  JoinInv /\ SubnetFree /\ [Next]_vars => JoinInv'
  <1> SUFFICES ASSUME JoinInv, SubnetFree, [Next]_vars
               PROVE  JoinInv'
    OBVIOUS
  <1>0. TypeInv /\ TypeInv'
    BY TypeStep DEF JoinInv
  <1>1. CASE UNCHANGED vars
    BY <1>0, <1>1 DEF vars, cloudVars, JoinInv, UnusedUnnamed, AnnotationSound, DaemonSound, At
  <1>2. CASE Next
    <2>1. PICK n \in Node : Step(n) \/ CallFails(n) \/ Crash(n)
      BY <1>2 DEF Next
    <2>2. CASE GetNodeVPC(n)
      <3>1. DaemonSound(n)'
        BY <1>0, <2>2, GetNodeVPCEffect DEF DaemonSound, At, Owning, Unrecorded
      <3> QED
        BY <1>0, <2>2, <3>1, GetNodeVPCEffect, JoinKeep
    <2>3. CASE GetCurrentNode(n)
      <3>1. DaemonSound(n)'
        BY <1>0, <2>3, GetCurrentNodeEffect DEF DaemonSound, At, Owning, Unrecorded
      <3> QED
        BY <1>0, <2>3, <3>1, GetCurrentNodeEffect, JoinKeep
    <2>4. CASE GetVxNet(n)
      <3>1. daemon[n].vxnet \in VxNet /\ daemon[n].vxnet = annotation[n]
        BY <2>4 DEF GetVxNet, JoinInv, TypeInv, Holding, DaemonSound, At
      <3>2. name[daemon[n].vxnet] = n /\ router[daemon[n].vxnet] # NoSubnet
        BY <3>1, VxNetAssumption DEF JoinInv, AnnotationSound
      <3>3. DaemonSound(n)'
        BY <1>0, <2>4, <3>2, GetVxNetEffect DEF DaemonSound, At, Owning, Unrecorded
      <3> QED
        BY <1>0, <2>4, <3>3, GetVxNetEffect, JoinKeep
    <2>5. CASE GetVxNetByName(n)
      <3>1. \A v \in Named(n) : v \in VxNet /\ name[v] = n
        BY DEF Named
      <3>2. \A v \in VxNet : router[v] = NoSubnet => annotation[n] # v
        BY VxNetAssumption DEF JoinInv, AnnotationSound
      <3>3. DaemonSound(n)'
        BY <1>0, <2>5, <3>1, <3>2, GetVxNetByNameEffect DEF DaemonSound, At, Owning, Unrecorded
      <3> QED
        BY <1>0, <2>5, <3>3, GetVxNetByNameEffect, JoinKeep
    <2>6. CASE CreateVxNet(n)
      <3>1. PICK v \in unused :
              /\ unused' = unused \ {v}
              /\ name' = [name EXCEPT ![v] = n]
              /\ \/ daemon'[n].at = "down"
                 \/ daemon'[n].at = "list" /\ daemon'[n].vxnet = v
              /\ OthersKeep(n)
              /\ UNCHANGED <<router, annotation>>
        BY <1>0, <2>6, CreateVxNetEffect
      <3>2. v \in VxNet /\ name[v] = NoNode /\ name \in [VxNet -> Node \cup {NoNode}]
            /\ unused \subseteq VxNet /\ NoNode \notin Node /\ NoVxNet \notin VxNet
        BY <1>0, VxNetAssumption DEF JoinInv, UnusedUnnamed, TypeInv, VxNetTypeOK
      <3>3. \A w \in VxNet : name'[w] = IF w = v THEN n ELSE name[w]
        BY <3>1, <3>2
      <3>4. annotation[n] # v
        BY <3>2 DEF JoinInv, AnnotationSound
      <3>5. DaemonSound(n)'
        BY <3>1, <3>2, <3>3, <3>4 DEF DaemonSound, At, Owning, Unrecorded
      <3>6. UnusedUnnamed'
        BY <3>1, <3>2, <3>3 DEF JoinInv, UnusedUnnamed
      <3>7. annotation'[n] # NoVxNet =>
                name'[annotation'[n]] = n /\ router'[annotation'[n]] # NoSubnet
        <4>1. annotation[n] \in VxNet \cup {NoVxNet}
          BY <1>0 DEF TypeInv, VxNetTypeOK
        <4> QED
          BY <3>1, <3>3, <4>1 DEF JoinInv, AnnotationSound
      <3>8. /\ \A m \in Node : m # n => DaemonSound(m)'
            /\ \A m \in Node : m # n /\ annotation'[m] # NoVxNet =>
                   name'[annotation'[m]] = m /\ router'[annotation'[m]] # NoSubnet
        BY <3>1, <3>2, <3>3, OthersSound
      <3> QED
        BY <1>0, <3>5, <3>6, <3>7, <3>8 DEF JoinInv, AnnotationSound
    <2>7. CASE GetVPCVxNets(n)
      <3>1. name[daemon[n].vxnet] = n /\ annotation[n] # daemon[n].vxnet
        BY <2>7 DEF GetVPCVxNets, JoinInv, DaemonSound, At, Owning, Unrecorded
      <3>2. DaemonSound(n)'
        BY <1>0, <2>7, <3>1, GetVPCVxNetsEffect
        DEF DaemonSound, At, Owning, Unrecorded, SubnetFree
      <3> QED
        BY <1>0, <2>7, <3>2, GetVPCVxNetsEffect, JoinKeep
    <2>8. CASE JoinVPC(n)
      <3> DEFINE v == daemon[n].vxnet
      <3>1. /\ v \in VxNet /\ name[v] = n /\ annotation[n] # v /\ daemon[n].network # NoSubnet
            /\ router \in [VxNet -> (Subnet \ InUse) \cup {NoSubnet}]
        BY <2>8 DEF JoinVPC, JoinInv, TypeInv, VxNetTypeOK, Holding, DaemonSound, At, Owning,
                    Unrecorded
      <3>2. /\ UNCHANGED <<unused, name, annotation>>
            /\ OthersKeep(n)
            /\ router' = router \/ router' = [router EXCEPT ![v] = daemon[n].network]
        BY <1>0, <2>8, JoinVPCEffect DEF Joins
      <3>3. DaemonSound(n)'
        BY <1>0, <2>8, <3>1, <3>2, JoinVPCEffect DEF DaemonSound, At, Owning, Unrecorded, Joins
      <3>4. annotation'[n] # NoVxNet =>
                name'[annotation'[n]] = n /\ router'[annotation'[n]] # NoSubnet
        <4>1. annotation[n] \in VxNet \cup {NoVxNet}
          BY <1>0 DEF TypeInv, VxNetTypeOK
        <4> QED
          BY <3>1, <3>2, <4>1 DEF JoinInv, AnnotationSound
      <3>5. /\ \A m \in Node : m # n => DaemonSound(m)'
            /\ \A m \in Node : m # n /\ annotation'[m] # NoVxNet =>
                   name'[annotation'[m]] = m /\ router'[annotation'[m]] # NoSubnet
        BY <3>1, <3>2, OthersSound
      <3>6. UnusedUnnamed'
        BY <3>2 DEF JoinInv, UnusedUnnamed
      <3> QED
        BY <1>0, <3>3, <3>4, <3>5, <3>6 DEF JoinInv, AnnotationSound
    <2>9. CASE UpdateNodeAnnotation(n)
      <3> DEFINE v == daemon[n].vxnet
      <3>1. /\ v \in VxNet /\ name[v] = n /\ annotation[n] # v
            /\ daemon[n].network # NoSubnet /\ router[v] = daemon[n].network
            /\ annotation \in [Node -> VxNet \cup {NoVxNet}]
        BY <2>9 DEF UpdateNodeAnnotation, JoinInv, TypeInv, VxNetTypeOK, Holding, DaemonSound,
                    At, Owning, Unrecorded
      <3>2. /\ UNCHANGED <<unused, name, router>>
            /\ OthersKeep(n)
            /\ daemon'[n].vxnet = v /\ daemon'[n].network = daemon[n].network
            /\ \/ annotation' = [annotation EXCEPT ![n] = v] /\ daemon'[n].at = "ready"
               \/ annotation' = annotation /\ daemon'[n].at = "leave"
        BY <1>0, <2>9, UpdateNodeAnnotationEffect
      <3>3. DaemonSound(n)'
        BY <3>1, <3>2 DEF DaemonSound, At, Owning, Unrecorded
      <3>4. annotation'[n] # NoVxNet =>
                name'[annotation'[n]] = n /\ router'[annotation'[n]] # NoSubnet
        BY <3>1, <3>2 DEF JoinInv, AnnotationSound
      <3>5. /\ \A m \in Node : m # n => DaemonSound(m)'
            /\ \A m \in Node : m # n /\ annotation'[m] # NoVxNet =>
                   name'[annotation'[m]] = m /\ router'[annotation'[m]] # NoSubnet
        BY <3>1, <3>2, OthersSound
      <3>6. UnusedUnnamed'
        BY <3>2 DEF JoinInv, UnusedUnnamed
      <3> QED
        BY <1>0, <3>3, <3>4, <3>5, <3>6 DEF JoinInv, AnnotationSound
    <2>10. CASE LeaveVPC(n)
      <3> DEFINE v == daemon[n].vxnet
      <3>1. /\ v \in VxNet /\ name[v] = n /\ annotation[n] # v
            /\ router \in [VxNet -> (Subnet \ InUse) \cup {NoSubnet}]
        BY <2>10 DEF LeaveVPC, JoinInv, TypeInv, VxNetTypeOK, Holding, DaemonSound, At, Owning,
                     Unrecorded
      <3>2. /\ UNCHANGED <<unused, name, annotation>>
            /\ OthersKeep(n)
            /\ router' = router \/ router' = [router EXCEPT ![v] = NoSubnet]
            /\ \/ daemon'[n].at = "down"
               \/ daemon'[n].at = "delete" /\ daemon'[n].vxnet = v
        BY <1>0, <2>10, LeaveVPCEffect
      <3>3. DaemonSound(n)'
        BY <3>1, <3>2 DEF DaemonSound, At, Owning, Unrecorded
      <3>4. annotation'[n] # NoVxNet =>
                name'[annotation'[n]] = n /\ router'[annotation'[n]] # NoSubnet
        <4>1. annotation[n] \in VxNet \cup {NoVxNet}
          BY <1>0 DEF TypeInv, VxNetTypeOK
        <4> QED
          BY <3>1, <3>2, <4>1 DEF JoinInv, AnnotationSound
      <3>5. /\ \A m \in Node : m # n => DaemonSound(m)'
            /\ \A m \in Node : m # n /\ annotation'[m] # NoVxNet =>
                   name'[annotation'[m]] = m /\ router'[annotation'[m]] # NoSubnet
        BY <3>1, <3>2, OthersSound
      <3>6. UnusedUnnamed'
        BY <3>2 DEF JoinInv, UnusedUnnamed
      <3> QED
        BY <1>0, <3>3, <3>4, <3>5, <3>6 DEF JoinInv, AnnotationSound
    <2>11. CASE DeleteVxNet(n)
      <3> DEFINE v == daemon[n].vxnet
      <3>1. /\ v \in VxNet /\ name[v] = n /\ annotation[n] # v
            /\ name \in [VxNet -> Node \cup {NoNode}] /\ unused \subseteq VxNet
        BY <2>11 DEF DeleteVxNet, JoinInv, TypeInv, VxNetTypeOK, Holding, DaemonSound, At,
                     Owning, Unrecorded
      <3>2. /\ UNCHANGED <<unused, router, annotation>>
            /\ OthersKeep(n)
            /\ name' = name \/ name' = [name EXCEPT ![v] = NoNode]
            /\ daemon'[n].at = "down"
        BY <1>0, <2>11, DeleteVxNetEffect
      <3>3. DaemonSound(n)'
        BY <3>2 DEF DaemonSound, At, Owning, Unrecorded
      <3>4. annotation'[n] # NoVxNet =>
                name'[annotation'[n]] = n /\ router'[annotation'[n]] # NoSubnet
        <4>1. annotation[n] \in VxNet \cup {NoVxNet}
          BY <1>0 DEF TypeInv, VxNetTypeOK
        <4> QED
          BY <3>1, <3>2, <4>1 DEF JoinInv, AnnotationSound
      <3>5. /\ \A m \in Node : m # n => DaemonSound(m)'
            /\ \A m \in Node : m # n /\ annotation'[m] # NoVxNet =>
                   name'[annotation'[m]] = m /\ router'[annotation'[m]] # NoSubnet
        BY <3>1, <3>2, OthersSound
      <3>6. UnusedUnnamed'
        BY <3>1, <3>2 DEF JoinInv, UnusedUnnamed
      <3> QED
        BY <1>0, <3>3, <3>4, <3>5, <3>6 DEF JoinInv, AnnotationSound
    <2>12. CASE CallFails(n) \/ Crash(n)
      <3>1. DaemonSound(n)'
        BY <1>0, <2>12, EndEffect DEF DaemonSound, At, Owning, Unrecorded
      <3> QED
        BY <1>0, <2>12, <3>1, EndEffect, JoinKeep
    <2> QED
      BY <2>1, <2>2, <2>3, <2>4, <2>5, <2>6, <2>7, <2>8, <2>9, <2>10, <2>11, <2>12 DEF Step
  <1> QED
    BY <1>1, <1>2

\* A daemon past EnsureVxNet works on a network of its own node that is in the
\* VPC under the subnet it believes, and every annotation can be trusted, as
\* long as the VPC has room for another network and no write of an annotation
\* takes effect and is reported to fail (ReadyJoined, AnnotationSound:
\* EnsureVxNet, joinVPC, createNewVxnet).
THEOREM ReadyJoinedCorrect ==
    ASSUME "apilost" \notin Faults
    PROVE  Spec /\ []SubnetFree => []ReadyJoined /\ []AnnotationSound
  <1>1. JoinInv => ReadyJoined
    BY DEF JoinInv, ReadyJoined, DaemonSound, At, Owning
  <1>2. JoinInv => AnnotationSound
    BY DEF JoinInv
  <1>3. JoinInv /\ SubnetFree /\ [Next]_vars => JoinInv'
    BY JoinStep
  <1> QED
    BY <1>1, <1>2, <1>3, JoinInit, PTL DEF Spec

\* What an annotation names is a network of its node in the VPC, under the same
\* two conditions: a daemon that trusts it at its start (GetCurrentNode) goes on
\* with a network pods can be reached through.
THEOREM AnnotationSoundCorrect ==
    ASSUME "apilost" \notin Faults
    PROVE  Spec /\ []SubnetFree => []AnnotationSound
  BY ReadyJoinedCorrect, PTL

----------------------------------------------------------------------------
(* A daemon knows the subnet of its own network *)

\* Before a daemon settles on a network it knows the subnet of every network it
\* may settle on without joining it, and an annotation names no other node's.
SubnetSound(n) ==
    /\ daemon[n].at \in Owning => name[daemon[n].vxnet] = n
    /\ annotation[n] # NoVxNet =>
           annotation[n] \notin unused /\ name[annotation[n]] \in {n, NoNode}
    /\ At(n, "describe") => daemon[n].vxnet = annotation[n]
    /\ daemon[n].at \in {"node", "search", "describe"} =>
           \A v \in VxNet : name[v] = n \/ annotation[n] = v =>
               router[v] \in daemon[n].subnets \cup {NoSubnet}
    /\ daemon[n].at \in {"annotate", "ready"} =>
           daemon[n].network \in daemon[n].subnets \cup {NoSubnet}

SubnetInv ==
    /\ TypeInv
    /\ UnusedUnnamed
    /\ \A n \in Node : SubnetSound(n)

\* SubnetInv holds initially, no daemon running and nothing being named.
LEMMA SubnetInit == Init => SubnetInv
  BY TypeInit DEF Init, SubnetInv, UnusedUnnamed, SubnetSound, At, Owning, Down

\* A step that changes nothing but the network v, of the node's own or of none,
\* and the node's annotation leaves the other daemons' subnets sound.
LEMMA OthersSubnetSound ==
    ASSUME SubnetInv, NEW n \in Node, OthersKeep(n), NEW v \in VxNet,
           name[v] = n \/ v \in unused, name'[v] \in {n, NoNode}, unused' \subseteq unused,
           \A w \in VxNet : w # v => name'[w] = name[w] /\ router'[w] = router[w],
           \A m \in Node : m # n => annotation'[m] = annotation[m]
    PROVE  \A m \in Node : m # n => SubnetSound(m)'
  <1>1. NoNode \notin Node /\ TypeInv
    BY VxNetAssumption DEF SubnetInv
  <1>2. SUFFICES ASSUME NEW m \in Node, m # n
                 PROVE  SubnetSound(m)'
    OBVIOUS
  <1>3. daemon'[m] = daemon[m] /\ annotation'[m] = annotation[m]
    BY <1>2 DEF OthersKeep
  <1>4. name[v] # m /\ name'[v] # m
    BY <1>1, <1>2 DEF SubnetInv, UnusedUnnamed
  <1>5. annotation[m] # NoVxNet => annotation[m] \in VxNet /\ annotation[m] # v
    BY <1>1, <1>2, <1>4 DEF SubnetInv, SubnetSound, TypeInv, VxNetTypeOK
  <1>6. daemon[m].at \in Owning => daemon[m].vxnet \in VxNet /\ daemon[m].vxnet # v
    BY <1>1, <1>4 DEF SubnetInv, SubnetSound, TypeInv, Holding, Owning
  <1>7. (daemon[m].at \in Owning => name[daemon[m].vxnet] = m)'
    BY <1>2, <1>3, <1>6 DEF SubnetInv, SubnetSound
  <1>8. (annotation[m] # NoVxNet =>
             annotation[m] \notin unused /\ name[annotation[m]] \in {m, NoNode})'
    BY <1>2, <1>3, <1>5 DEF SubnetInv, SubnetSound
  <1>9. ASSUME daemon[m].at \in {"node", "search", "describe"}, NEW w \in VxNet,
               name'[w] = m \/ annotation'[m] = w
        PROVE  router'[w] \in daemon[m].subnets \cup {NoSubnet}
    <2>1. w # v
      BY <1>1, <1>3, <1>4, <1>5, <1>9, VxNetAssumption
    <2> QED
      BY <1>3, <1>9, <2>1 DEF SubnetInv, SubnetSound
  <1> QED
    BY <1>3, <1>7, <1>8, <1>9 DEF SubnetInv, SubnetSound, At

\* A step that leaves the cloud and the annotations alone preserves SubnetInv
\* if it leaves the daemon that takes it sound.
LEMMA SubnetKeep ==
    ASSUME SubnetInv, TypeInv', NEW n \in Node, OthersKeep(n),
           UNCHANGED <<unused, name, router, annotation>>, SubnetSound(n)'
    PROVE  SubnetInv'
  <1>1. UnusedUnnamed'
    BY DEF SubnetInv, UnusedUnnamed
  <1>2. \A m \in Node : SubnetSound(m)'
    BY DEF SubnetInv, SubnetSound, At, OthersKeep
  <1> QED
    BY <1>1, <1>2 DEF SubnetInv

\* Every step preserves SubnetInv, provided the VPC's networks can be listed
\* when a daemon starts.
LEMMA SubnetStep ==
    ASSUME "list" \notin Faults
    PROVE  SubnetInv /\ [Next]_vars => SubnetInv'
  <1> SUFFICES ASSUME SubnetInv, [Next]_vars
               PROVE  SubnetInv'
    OBVIOUS
  <1>0. TypeInv /\ TypeInv'
    BY TypeStep DEF SubnetInv
  <1>1. CASE UNCHANGED vars
    BY <1>0, <1>1 DEF vars, cloudVars, SubnetInv, UnusedUnnamed, SubnetSound, At
  <1>2. CASE Next
    <2>1. PICK n \in Node : Step(n) \/ CallFails(n) \/ Crash(n)
      BY <1>2 DEF Next
    <2>2. CASE GetNodeVPC(n)
      <3>1. \A v \in VxNet : router[v] \in VPCSubnets \cup {NoSubnet}
        BY DEF VPCSubnets
      <3>2. SubnetSound(n)'
        BY <1>0, <2>2, <3>1, GetNodeVPCEffect DEF SubnetInv, SubnetSound, At, Owning
      <3> QED
        BY <1>0, <2>2, <3>2, GetNodeVPCEffect, SubnetKeep
    <2>3. CASE GetCurrentNode(n)
      <3>1. SubnetSound(n)'
        BY <1>0, <2>3, GetCurrentNodeEffect
        DEF SubnetInv, SubnetSound, At, Owning, GetCurrentNode
      <3> QED
        BY <1>0, <2>3, <3>1, GetCurrentNodeEffect, SubnetKeep
    <2>4. CASE GetVxNet(n)
      <3> DEFINE v == daemon[n].vxnet
      <3>1. /\ v \in VxNet /\ v = annotation[n] /\ v # NoVxNet
            /\ name[v] \in {n, NoNode}
            /\ router[v] \in daemon[n].subnets \cup {NoSubnet}
        BY <2>4, VxNetAssumption
        DEF GetVxNet, SubnetInv, TypeInv, Holding, SubnetSound, At
      <3>2. SubnetSound(n)'
        BY <1>0, <2>4, <3>1, GetVxNetEffect DEF SubnetInv, SubnetSound, At, Owning
      <3> QED
        BY <1>0, <2>4, <3>2, GetVxNetEffect, SubnetKeep
    <2>5. CASE GetVxNetByName(n)
      <3>1. \A v \in Named(n) : /\ v \in VxNet /\ name[v] = n
                                /\ router[v] \in daemon[n].subnets \cup {NoSubnet}
        BY <2>5 DEF Named, SubnetInv, SubnetSound, GetVxNetByName, At
      <3>2. SubnetSound(n)'
        BY <1>0, <2>5, <3>1, GetVxNetByNameEffect DEF SubnetInv, SubnetSound, At, Owning
      <3> QED
        BY <1>0, <2>5, <3>2, GetVxNetByNameEffect, SubnetKeep
    <2>6. CASE CreateVxNet(n)
      <3>1. PICK v \in unused :
              /\ unused' = unused \ {v}
              /\ name' = [name EXCEPT ![v] = n]
              /\ \/ daemon'[n].at = "down"
                 \/ daemon'[n].at = "list" /\ daemon'[n].vxnet = v
              /\ OthersKeep(n)
              /\ UNCHANGED <<router, annotation>>
        BY <1>0, <2>6, CreateVxNetEffect
      <3>2. v \in VxNet /\ name \in [VxNet -> Node \cup {NoNode}] /\ unused \subseteq VxNet
            /\ annotation[n] \in VxNet \cup {NoVxNet}
        BY <1>0 DEF TypeInv, VxNetTypeOK
      <3>3. \A w \in VxNet : name'[w] = IF w = v THEN n ELSE name[w]
        BY <3>1, <3>2
      <3>4. SubnetSound(n)'
        BY <3>1, <3>2, <3>3 DEF SubnetInv, SubnetSound, At, Owning
      <3>5. UnusedUnnamed'
        BY <3>1, <3>2, <3>3 DEF SubnetInv, UnusedUnnamed
      <3>6. \A m \in Node : m # n => SubnetSound(m)'
        BY <3>1, <3>2, <3>3, OthersSubnetSound
      <3> QED
        BY <1>0, <3>4, <3>5, <3>6 DEF SubnetInv
    <2>7. CASE GetVPCVxNets(n)
      <3>1. name[daemon[n].vxnet] = n
        BY <2>7 DEF GetVPCVxNets, SubnetInv, SubnetSound, At, Owning
      <3>2. SubnetSound(n)'
        BY <1>0, <2>7, <3>1, GetVPCVxNetsEffect DEF SubnetInv, SubnetSound, At, Owning
      <3> QED
        BY <1>0, <2>7, <3>2, GetVPCVxNetsEffect, SubnetKeep
    <2>8. CASE JoinVPC(n)
      <3> DEFINE v == daemon[n].vxnet
      <3>1. v \in VxNet /\ name[v] = n /\ router \in [VxNet -> (Subnet \ InUse) \cup {NoSubnet}]
        BY <2>8 DEF JoinVPC, SubnetInv, TypeInv, VxNetTypeOK, Holding, SubnetSound, At, Owning
      <3>2. /\ UNCHANGED <<unused, name, annotation>>
            /\ OthersKeep(n)
            /\ router' = router \/ router' = [router EXCEPT ![v] = daemon[n].network]
        BY <1>0, <2>8, JoinVPCEffect DEF Joins
      <3>3. SubnetSound(n)'
        BY <1>0, <2>8, <3>1, <3>2, JoinVPCEffect DEF SubnetInv, SubnetSound, At, Owning
      <3>4. \A m \in Node : m # n => SubnetSound(m)'
        BY <3>1, <3>2, OthersSubnetSound
      <3>5. UnusedUnnamed'
        BY <3>2 DEF SubnetInv, UnusedUnnamed
      <3> QED
        BY <1>0, <3>3, <3>4, <3>5 DEF SubnetInv
    <2>9. CASE UpdateNodeAnnotation(n)
      <3> DEFINE v == daemon[n].vxnet
      <3>1. /\ v \in VxNet /\ name[v] = n /\ v \notin unused
            /\ daemon[n].network \in daemon[n].subnets \cup {NoSubnet}
            /\ annotation \in [Node -> VxNet \cup {NoVxNet}]
        BY <2>9, VxNetAssumption
        DEF UpdateNodeAnnotation, SubnetInv, UnusedUnnamed, TypeInv, VxNetTypeOK, Holding,
            SubnetSound, At, Owning
      <3>2. /\ UNCHANGED <<unused, name, router>>
            /\ OthersKeep(n)
            /\ daemon'[n].vxnet = v /\ daemon'[n].network = daemon[n].network
            /\ daemon'[n].subnets = daemon[n].subnets
            /\ daemon'[n].at \in {"ready", "leave"}
            /\ annotation' = [annotation EXCEPT ![n] = v] \/ annotation' = annotation
        BY <1>0, <2>9, UpdateNodeAnnotationEffect
      <3>3. SubnetSound(n)'
        BY <3>1, <3>2 DEF SubnetInv, SubnetSound, At, Owning
      <3>4. \A m \in Node : m # n => SubnetSound(m)'
        BY <3>1, <3>2, OthersSubnetSound
      <3>5. UnusedUnnamed'
        BY <3>2 DEF SubnetInv, UnusedUnnamed
      <3> QED
        BY <1>0, <3>3, <3>4, <3>5 DEF SubnetInv
    <2>10. CASE LeaveVPC(n)
      <3> DEFINE v == daemon[n].vxnet
      <3>1. v \in VxNet /\ name[v] = n /\ router \in [VxNet -> (Subnet \ InUse) \cup {NoSubnet}]
        BY <2>10 DEF LeaveVPC, SubnetInv, TypeInv, VxNetTypeOK, Holding, SubnetSound, At, Owning
      <3>2. /\ UNCHANGED <<unused, name, annotation>>
            /\ OthersKeep(n)
            /\ router' = router \/ router' = [router EXCEPT ![v] = NoSubnet]
            /\ \/ daemon'[n].at = "down"
               \/ daemon'[n].at = "delete" /\ daemon'[n].vxnet = v
        BY <1>0, <2>10, LeaveVPCEffect
      <3>3. SubnetSound(n)'
        BY <3>1, <3>2 DEF SubnetInv, SubnetSound, At, Owning
      <3>4. \A m \in Node : m # n => SubnetSound(m)'
        BY <3>1, <3>2, OthersSubnetSound
      <3>5. UnusedUnnamed'
        BY <3>2 DEF SubnetInv, UnusedUnnamed
      <3> QED
        BY <1>0, <3>3, <3>4, <3>5 DEF SubnetInv
    <2>11. CASE DeleteVxNet(n)
      <3> DEFINE v == daemon[n].vxnet
      <3>1. /\ v \in VxNet /\ name[v] = n
            /\ name \in [VxNet -> Node \cup {NoNode}] /\ unused \subseteq VxNet
            /\ annotation[n] \in VxNet \cup {NoVxNet}
        BY <2>11 DEF DeleteVxNet, SubnetInv, TypeInv, VxNetTypeOK, Holding, SubnetSound, At, Owning
      <3>2. /\ UNCHANGED <<unused, router, annotation>>
            /\ OthersKeep(n)
            /\ name' = name \/ name' = [name EXCEPT ![v] = NoNode]
            /\ daemon'[n].at = "down"
        BY <1>0, <2>11, DeleteVxNetEffect
      <3>3. SubnetSound(n)'
        BY <3>1, <3>2 DEF SubnetInv, SubnetSound, At, Owning
      <3>4. \A m \in Node : m # n => SubnetSound(m)'
        BY <3>1, <3>2, OthersSubnetSound
      <3>5. UnusedUnnamed'
        BY <3>1, <3>2 DEF SubnetInv, UnusedUnnamed
      <3> QED
        BY <1>0, <3>3, <3>4, <3>5 DEF SubnetInv
    <2>12. CASE CallFails(n) \/ Crash(n)
      <3>1. SubnetSound(n)'
        BY <1>0, <2>12, EndEffect DEF SubnetInv, SubnetSound, At, Owning
      <3> QED
        BY <1>0, <2>12, <3>1, EndEffect, SubnetKeep
    <2> QED
      BY <2>1, <2>2, <2>3, <2>4, <2>5, <2>6, <2>7, <2>8, <2>9, <2>10, <2>11, <2>12 DEF Step
  <1> QED
    BY <1>1, <1>2

\* A daemon past EnsureVxNet has the subnet of its network, read at start-up,
\* found or just joined, among those it exempts from address translation, if
\* GetNodeVPC could list the VPC's networks (OwnSubnetKnown).
THEOREM OwnSubnetCorrect ==
    ASSUME "list" \notin Faults
    PROVE  Spec => []OwnSubnetKnown
  <1>1. SubnetInv => OwnSubnetKnown
    BY DEF SubnetInv, SubnetSound, OwnSubnetKnown, At
  <1>2. SubnetInv /\ [Next]_vars => SubnetInv'
    BY SubnetStep
  <1> QED
    BY <1>1, <1>2, SubnetInit, PTL DEF Spec

=============================================================================
