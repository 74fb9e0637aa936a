--------------------------- MODULE PodRulesProofs ---------------------------
(***************************************************************************)
(* Proofs about the rules of PodNetwork for every value of its constants:  *)
(* a table belongs to the NICs of one address, and so does every rule that *)
(* leads to it, in the kernel, in the lists that were read from it and in  *)
(* those that have yet to be written.  With what is proved in              *)
(* PodNetworkProofs: the plugin takes back what it has made, and what a    *)
(* running pod sends leaves through its NIC, whatever rules earlier pods   *)
(* have left.                                                              *)
(***************************************************************************)
EXTENDS PodNetworkProofs, SequenceTheorems, WellFoundedInduction, TLAPS

----------------------------------------------------------------------------
(* The invariant *)

\* The numbers the store may have for a NIC.
DeviceNumbers(n) == {IfIndex[n], Sequence[n]} \ {0}

\* The tables of the NICs that have, or had, an address, and the rules that lead
\* to them.
TablesOf(a) == UNION {DeviceNumbers(n) : n \in {m \in NIC : AddrOf[m] = a}}

RuleOf(a) == [dst : Dst \cup {AnyDst}, table : TablesOf(a)]

\* The parts of PodNetworkTypeOK: the NICs,
NICTypeOK ==
    /\ links \subseteq NIC /\ localAddr \subseteq links
    /\ tables \in [Table -> links \cup {None}]
    /\ setting \in [nic : links \cup {None}, at : {"idle", "link", "routeDel", "routeAdd"}]
    /\ todoNICs \subseteq links
    /\ number \in [NIC -> Table \cup {0}] /\ stored \subseteq links
    /\ retired \subseteq NIC \ links

\* Each NIC sets up the table of its own number only, and one whose address can be
\* given has a number.
NumberInv ==
    /\ \A n \in NIC : number[n] \in DeviceNumbers(n) \cup {0}
    /\ \A n \in stored : number[n] # 0
    /\ setting.at # "idle" => setting.nic # None /\ number[setting.nic] # 0
    /\ \A t \in Table : tables[t] # None => t \in DeviceNumbers(tables[t])
    /\ daemon # "nics" => todoNICs = {}

\* the store,
StoreTypeOK ==
    /\ daemon \in {"down", "nics", "pods", "ready"}
    /\ podsIP \in [DOMAIN podsIP -> [addr : Addr, num : Table]]
    /\ DOMAIN podsIP \subseteq Pod \X (Sandbox \cup {NoContainer, AppContainer})
    /\ todoPods \subseteq [key : Pod \X {NoContainer, AppContainer}, addr : Addr]
    /\ externalSNAT \in BOOLEAN

\* what else is on the host, and the bounds.
HostTypeOK ==
    /\ toRules \subseteq Addr
    /\ veth \in [Pod -> Sandbox \cup {None}]
    /\ hostRoute \in [Addr -> Sandbox \cup {None}]
    /\ crashes \in 0 .. MaxCrash /\ failures \in 0 .. MaxFailures
    /\ broken \subseteq Addr

\* Every rule of an address, and every rule the daemon read at its start, leads to
\* a table of that address.
TableRulesOK ==
    /\ fromRules \in [Addr -> Seq(Rule)] /\ listed \in [Addr -> Seq(Rule)]
    /\ \A a \in Addr :
         /\ IsInjective(fromRules[a])
         /\ fromRules[a] \in Seq(RuleOf(a)) /\ listed[a] \in Seq(RuleOf(a))

\* So does what UpdateRuleListBySrc has yet to write,
UpdateOK ==
    /\ update \in [src : Addr \cup {None}, del : Seq(Rule), add : Seq(Rule), rebuild : BOOLEAN]
    /\ update # NoUpdate =>
         /\ update.src \in Addr
         /\ update.del \in Seq(RuleOf(update.src)) /\ update.add \in Seq(RuleOf(update.src))
         /\ update.add # << >>

\* and what a plugin process has yet to write or to delete: addContainerRule has
\* the number the reply named for the address it named.
SandboxOK(s) ==
    /\ step[s] \in SetupSteps \cup TeardownSteps \cup {"up"} => addr[s] # None
    /\ step[s] \in {"veth", "route", "delTo", "addTo"} => table[s] \in TablesOf(addr[s])
    /\ step[s] \in {"addFrom", "tearFrom"} =>
         todo[s] \in Seq(RuleOf(addr[s])) /\ todo[s] # << >>

\* The life of every sandbox.
SandboxesOK ==
    /\ step \in [Sandbox -> SetupSteps \cup TeardownSteps \cup
                   {"none", "up", "cleanup", "failed", "deleting", "gone"}]
    /\ addr \in [Sandbox -> Addr \cup {None}]
    /\ table \in [Sandbox -> Table \cup {0}]
    /\ todo \in [Sandbox -> Seq(Rule)]
    /\ \A s \in Sandbox : SandboxOK(s)

\* The inductive invariant.
RulesInv ==
    /\ NICTypeOK /\ NumberInv /\ StoreTypeOK /\ HostTypeOK /\ TableRulesOK /\ UpdateOK
    /\ SandboxesOK

----------------------------------------------------------------------------
(* Lists of rules *)

\* A NIC's numbers are tables of its address,
LEMMA TablesOfType ==
    \A n \in NIC :
        DeviceNumbers(n) \subseteq Table /\ DeviceNumbers(n) \subseteq TablesOf(AddrOf[n])
  BY PodNetworkAssumption DEF DeviceNumbers, TablesOf, Table

\* and the tables of an address are tables.
LEMMA RuleOfType == \A a \in Addr : TablesOf(a) \subseteq Table /\ RuleOf(a) \subseteq Rule
  BY PodNetworkAssumption DEF DeviceNumbers, TablesOf, Table, RuleOf, Rule

\* A list of rules of an address is a list of rules.
LEMMA RuleOfSeq ==
    ASSUME NEW a \in Addr, NEW q \in Seq(RuleOf(a))
    PROVE  q \in Seq(Rule)
  BY RuleOfType, SeqMonotonic

\* setupNic chooses a number of the NIC.
LEMMA DeviceNumberOK == \A n \in NIC : DeviceNumber(n) \in DeviceNumbers(n)
  BY PodNetworkAssumption DEF DeviceNumber, DeviceNumbers

\* RuleAdd keeps a list free of repetitions,
LEMMA AppendRule ==
    ASSUME NEW S, NEW q \in Seq(S), IsInjective(q), NEW r \in S, r \notin Range(q)
    PROVE  Append(q, r) \in Seq(S) /\ IsInjective(Append(q, r))
  <1>1. \A i \in DOMAIN q : q[i] # r
    BY DEF Range
  <1>2. Len(q) \in Nat /\ DOMAIN q = 1 .. Len(q)
    BY LenProperties
  <1>3. /\ Append(q, r) \in Seq(S)
        /\ DOMAIN Append(q, r) = 1 .. Len(q) + 1
        /\ \A i \in 1 .. Len(q) : Append(q, r)[i] = q[i]
        /\ Append(q, r)[Len(q) + 1] = r
    BY AppendProperties, LenProperties
  <1>4. \A i \in 1 .. Len(q) + 1 : i \in 1 .. Len(q) \/ i = Len(q) + 1
    BY <1>2
  <1> QED
    BY <1>1, <1>2, <1>3, <1>4 DEF IsInjective

\* RuleDel leaves the other rules in their order,
LEMMA RemovedAt ==
    ASSUME NEW S, NEW q \in Seq(S), NEW i \in DOMAIN q
    PROVE  /\ RemoveAt(q, i) \in Seq(S) /\ Len(RemoveAt(q, i)) = Len(q) - 1
           /\ \A j \in 1 .. Len(q) - 1 : RemoveAt(q, i)[j] = q[IF j < i THEN j ELSE j + 1]
  <1>1. Len(q) \in Nat /\ DOMAIN q = 1 .. Len(q) /\ i \in 1 .. Len(q)
        /\ \A j \in 1 .. Len(q) : q[j] \in S
    BY LenProperties
  <1> DEFINE u == SubSeq(q, 1, i - 1)
  <1> DEFINE v == SubSeq(q, i + 1, Len(q))
  <1>2. /\ u \in Seq(S) /\ Len(u) = i - 1
        /\ \A j \in 1 .. i - 1 : u[j] = q[j]
    BY <1>1, SubSeqProperties, i - 1 \in Int, 1 \in Int, \A j \in 1 .. i - 1 : q[j] \in S
  <1>3. /\ v \in Seq(S) /\ Len(v) = Len(q) - i
        /\ \A j \in 1 .. Len(q) - i : v[j] = q[i + j]
    BY <1>1, SubSeqProperties, i + 1 \in Int, Len(q) \in Int, \A j \in i + 1 .. Len(q) : q[j] \in S
  <1> HIDE DEF u, v
  <1>4. /\ u \o v \in Seq(S) /\ Len(u \o v) = Len(q) - 1
        /\ \A j \in 1 .. Len(q) - 1 : (u \o v)[j] = q[IF j < i THEN j ELSE j + 1]
    <2>1. /\ u \o v \in Seq(S) /\ Len(u \o v) = Len(u) + Len(v)
          /\ \A j \in 1 .. Len(u) + Len(v) :
               (u \o v)[j] = IF j <= Len(u) THEN u[j] ELSE v[j - Len(u)]
      BY <1>2, <1>3, ConcatProperties
    <2>2. ASSUME NEW j \in 1 .. Len(q) - 1, j < i
          PROVE  (u \o v)[j] = q[j]
      BY <1>1, <1>2, <1>3, <2>1, <2>2
    <2>3. ASSUME NEW j \in 1 .. Len(q) - 1, ~(j < i)
          PROVE  (u \o v)[j] = q[j + 1]
      <3>1. j - (i - 1) \in 1 .. Len(q) - i /\ i + (j - (i - 1)) = j + 1
        BY <1>1, <2>3
      <3>2. j \in 1 .. Len(u) + Len(v) /\ ~(j <= Len(u)) /\ j - Len(u) = j - (i - 1)
        BY <1>1, <1>2, <1>3, <2>3
      <3>3. (u \o v)[j] = v[j - (i - 1)]
        BY <2>1, <3>2
      <3>4. v[j - (i - 1)] = q[i + (j - (i - 1))]
        BY <1>3, <3>1
      <3> QED
        BY <3>1, <3>3, <3>4
    <2> QED
      BY <1>1, <1>2, <1>3, <2>1, <2>2, <2>3
  <1> QED
    BY <1>4 DEF RemoveAt, u, v

\* and a list free of repetitions so.
LEMMA RemoveRule ==
    ASSUME NEW S, NEW q \in Seq(S), IsInjective(q), NEW i \in DOMAIN q
    PROVE  RemoveAt(q, i) \in Seq(S) /\ IsInjective(RemoveAt(q, i))
  <1> DEFINE p == RemoveAt(q, i)
  <1>1. Len(q) \in Nat /\ DOMAIN q = 1 .. Len(q) /\ i \in 1 .. Len(q)
    BY LenProperties
  <1>2. /\ p \in Seq(S) /\ DOMAIN p = 1 .. Len(q) - 1
        /\ \A j \in 1 .. Len(q) - 1 : p[j] = q[IF j < i THEN j ELSE j + 1]
    BY RemovedAt, LenProperties
  <1> HIDE DEF p
  <1>3. SUFFICES ASSUME NEW j \in 1 .. Len(q) - 1, NEW k \in 1 .. Len(q) - 1, p[j] = p[k]
                 PROVE  j = k
    BY <1>2 DEF IsInjective, p
  <1> DEFINE at(m) == IF m < i THEN m ELSE m + 1
  <1>4. at(j) \in DOMAIN q /\ at(k) \in DOMAIN q /\ (at(j) = at(k) => j = k)
    BY <1>1
  <1>5. q[at(j)] = q[at(k)]
    BY <1>2, <1>3
  <1> QED
    BY <1>4, <1>5 DEF IsInjective

\* What a loop over a list has left.
LEMMA TailRules ==
    ASSUME NEW S, NEW q \in Seq(S), q # << >>
    PROVE  Head(q) \in S /\ Tail(q) \in Seq(S) /\ (Len(q) # 1 => Tail(q) # << >>)
  <1>1. Head(q) \in S /\ Tail(q) \in Seq(S) /\ Len(Tail(q)) = Len(q) - 1
    BY HeadTailProperties
  <1>2. Len(q) \in Nat /\ Len(<< >>) = 0
    BY LenProperties, EmptySeq
  <1> QED
    BY <1>1, <1>2

\* UpdateRuleListBySrc and addContainerRule write at least one rule, to the table
\* they are given.
LEMMA NewRulesOK ==
    ASSUME NEW a \in Addr, NEW t \in TablesOf(a), NEW toFlag
    PROVE  NewRules(t, toFlag) \in Seq(RuleOf(a)) /\ NewRules(t, toFlag) # << >>
  <1> DEFINE dsts == IF toFlag THEN toCIDRs ELSE <<AnyDst>>
  <1>1. dsts \in Seq(Dst \cup {AnyDst}) /\ dsts # << >>
    <2>1. toCIDRs \in Seq(Dst \cup {AnyDst})
      BY PodNetworkAssumption, SeqMonotonic DEF Dst
    <2>2. <<AnyDst>> \in Seq(Dst \cup {AnyDst}) /\ <<AnyDst>> # << >>
      OBVIOUS
    <2> QED
      BY <2>1, <2>2, PodNetworkAssumption
  <1>2. /\ Len(dsts) \in Nat \ {0} /\ DOMAIN dsts = 1 .. Len(dsts)
        /\ dsts \in [1 .. Len(dsts) -> Dst \cup {AnyDst}]
    BY <1>1, LenProperties, EmptySeq
  <1> HIDE DEF dsts
  <1>3. [i \in DOMAIN dsts |-> [dst |-> dsts[i], table |-> t]] \in [1 .. Len(dsts) -> RuleOf(a)]
    BY <1>2 DEF RuleOf
  <1>4. [i \in DOMAIN dsts |-> [dst |-> dsts[i], table |-> t]] \in Seq(RuleOf(a))
    BY <1>2, <1>3, SeqDef
  <1>5. 1 \in DOMAIN [i \in DOMAIN dsts |-> [dst |-> dsts[i], table |-> t]]
    BY <1>2
  <1> QED
    BY <1>4, <1>5 DEF NewRules, dsts

----------------------------------------------------------------------------
(* The initial state, and the parts of a step that write no rule *)

\* There is nothing at the beginning.
LEMMA InitRules == Init => RulesInv
  <1> SUFFICES ASSUME Init PROVE RulesInv
    OBVIOUS
  <1>1. NICTypeOK /\ NumberInv
    BY PodNetworkAssumption DEF Init, NICTypeOK, NumberInv, Idle
  <1>2. StoreTypeOK
    <2>1. DOMAIN podsIP = {}
      BY DEF Init
    <2>2. podsIP \in [DOMAIN podsIP -> [addr : Addr, num : Table]]
      BY <2>1 DEF Init
    <2> QED
      BY <2>1, <2>2 DEF Init, StoreTypeOK
  <1>3. HostTypeOK
    BY PodNetworkAssumption DEF Init, HostTypeOK
  <1>4. TableRulesOK
    BY DEF Init, TableRulesOK, NoRules, IsInjective
  <1>5. UpdateOK
    BY DEF Init, UpdateOK, NoUpdate
  <1>6. SandboxesOK
    BY DEF Init, SandboxesOK, SandboxOK, SetupSteps, TeardownSteps
  <1> QED
    BY <1>1, <1>2, <1>3, <1>4, <1>5, <1>6 DEF RulesInv

\* What setupNic and the pool manager change.
nicVars == <<links, localAddr, tables, setting, todoNICs, number, stored, retired>>

\* Only setupNICNetwork fills a table, the one its NIC is numbered with.
LEMMA NICStep ==
    ASSUME RulesInv, [Next]_vars
    PROVE  NICTypeOK' /\ NumberInv'
  <1> USE DEF RulesInv
  <1>1. CASE UNCHANGED <<nicVars, daemon>>
    BY <1>1 DEF nicVars, NICTypeOK, NumberInv
  <1>2. CASE UNCHANGED nicVars /\ todoNICs = {}
    BY <1>2 DEF nicVars, NICTypeOK, NumberInv
  <1>3. ASSUME Boot PROVE NICTypeOK' /\ NumberInv'
    BY <1>3 DEF Boot, BootUnchanged, NICTypeOK, NumberInv, NoFault, histVars
  <1>4. ASSUME NEW n \in NIC, NextAttachedNIC(n) PROVE NICTypeOK' /\ NumberInv'
    <2>1. /\ n \in links /\ setting' = [nic |-> n, at |-> "link"]
          /\ number' = [number EXCEPT ![n] = DeviceNumber(n)] /\ todoNICs' = todoNICs \ {n}
          /\ DeviceNumber(n) \in DeviceNumbers(n) /\ DeviceNumber(n) \in Table \ {0}
          /\ UNCHANGED <<links, localAddr, tables, stored, retired, daemon>>
      BY <1>4, DeviceNumberOK, TablesOfType
      DEF NextAttachedNIC, AddNIC, Advance, BootUnchanged, NoFault, histVars, NICTypeOK,
          DeviceNumbers
    <2> QED
      BY <2>1, PodNetworkAssumption DEF NICTypeOK, NumberInv
  <1>5. ASSUME NEW n \in NIC, setupNICNetwork(n) PROVE NICTypeOK' /\ NumberInv'
    <2>1. /\ setting.nic = n /\ setting.at # "idle" /\ n # None
          /\ UNCHANGED <<links, todoNICs, number, retired, daemon>>
          /\ localAddr' \subseteq localAddr
      BY <1>5, PodNetworkAssumption
      DEF setupNICNetwork, SetupLink, CleanRoutes, AddRoutes, At, SetupUnchanged, NoFault, histVars
    <2>2. n \in links /\ number[n] \in DeviceNumbers(n) /\ number[n] \in Table
      BY <2>1, TablesOfType DEF NICTypeOK, NumberInv
    <2>3. \/ UNCHANGED tables
          \/ tables' = [tables EXCEPT ![number[n]] = IF @ = n THEN None ELSE @]
          \/ tables' = [tables EXCEPT ![number[n]] = n]
      BY <1>5 DEF setupNICNetwork, SetupLink, CleanRoutes, AddRoutes
    <2>4. /\ tables' \in [Table -> links \cup {None}]
          /\ \A t \in Table : tables'[t] # None => t \in DeviceNumbers(tables'[t])
      BY <2>2, <2>3 DEF NICTypeOK, NumberInv
    <2>5. /\ setting' \in [nic : links \cup {None}, at : {"idle", "link", "routeDel", "routeAdd"}]
          /\ setting'.at # "idle" => setting'.nic = n
          /\ stored' \in {stored, stored \cup {n}}
      BY <1>5, <2>2 DEF setupNICNetwork, SetupLink, CleanRoutes, AddRoutes, Advance, Idle
    <2> QED
      BY <2>1, <2>2, <2>4, <2>5 DEF NICTypeOK, NumberInv
  <1>6. ASSUME DaemonDies, UNCHANGED <<links, localAddr, tables, retired>>
        PROVE  NICTypeOK' /\ NumberInv'
    BY <1>6 DEF DaemonDies, Idle, NICTypeOK, NumberInv
  <1>7. ASSUME NEW n \in NIC, SetupNicFails(n) PROVE NICTypeOK' /\ NumberInv'
    <2>1. CASE daemon = "ready"
      BY <1>7, <2>1 DEF SetupNicFails, Fail, kernelVars, Idle, NICTypeOK, NumberInv
    <2> QED
      BY <1>6, <1>7, <2>1 DEF SetupNicFails, Fail, kernelVars
  <1>8. ASSUME NEW n \in NIC, AttachNIC(n) PROVE NICTypeOK' /\ NumberInv'
    <2>1. /\ n \notin retired /\ setting' = [nic |-> n, at |-> "link"]
          /\ links' = links \cup {n} /\ localAddr' = localAddr \cup {n}
          /\ number' = [number EXCEPT ![n] = DeviceNumber(n)]
          /\ DeviceNumber(n) \in DeviceNumbers(n) /\ DeviceNumber(n) \in Table \ {0}
          /\ UNCHANGED <<tables, todoNICs, stored, retired, daemon>>
      BY <1>8, DeviceNumberOK, TablesOfType
      DEF AttachNIC, AddNIC, Advance, histVars, DeviceNumbers
    <2> QED
      BY <2>1, PodNetworkAssumption DEF NICTypeOK, NumberInv
  <1>9. ASSUME NEW n \in NIC, DetachNIC(n) PROVE NICTypeOK' /\ NumberInv'
    <2>1. /\ setting = Idle /\ daemon = "ready"
          /\ number' = [number EXCEPT ![n] = 0] /\ stored' = stored \ {n}
          /\ links' = links \ {n} /\ localAddr' = localAddr \ {n}
          /\ tables' = [t \in Table |-> IF tables[t] = n THEN None ELSE tables[t]]
          /\ retired' = retired \cup {n}
          /\ UNCHANGED <<setting, todoNICs, daemon>>
      BY <1>9 DEF DetachNIC
    <2>2. /\ tables' \in [Table -> links' \cup {None}]
          /\ \A t \in Table : tables'[t] # None => t \in DeviceNumbers(tables'[t])
      BY <2>1, PodNetworkAssumption DEF NICTypeOK, NumberInv
    <2> QED
      BY <2>1, <2>2, PodNetworkAssumption DEF NICTypeOK, NumberInv, Idle
  <1>10. ASSUME DaemonNext PROVE NICTypeOK' /\ NumberInv'
    <2>1. ASSUME UpdateDel \/ UpdateAdd \/ UpdateFails \/ RecoverPod PROVE NICTypeOK' /\ NumberInv'
      BY <1>1, <2>1
      DEF UpdateDel, UpdateAdd, UpdateFails, RecoverPod, BootUnchanged, Fail, NoFault,
          histVars, nicVars
    <2>2. ASSUME ListPodsAndRules \/ Serve PROVE NICTypeOK' /\ NumberInv'
      <3>1. UNCHANGED nicVars
        BY <2>2 DEF ListPodsAndRules, Serve, BootUnchanged, NoFault, histVars, kernelVars, nicVars
      <3>2. todoNICs = {}
        BY <2>2 DEF ListPodsAndRules, Serve, NumberInv
      <3> QED
        BY <1>2, <3>1, <3>2
    <2> QED
      BY <1>3, <1>4, <1>5, <1>7, <1>10, <2>1, <2>2 DEF DaemonNext
  <1>11. ASSUME Crash PROVE NICTypeOK' /\ NumberInv'
    BY <1>6, <1>11 DEF Crash, kernelVars
  <1>12. ASSUME NEW s \in Sandbox,
                PluginNext(s) \/ AddNetwork(s) \/ KillSandbox(s) \/ DestroyNetns(s)
         PROVE  NICTypeOK' /\ NumberInv'
    <2>1. CASE AddNetwork(s) \/ KillSandbox(s) \/ DestroyNetns(s)
      BY <1>1, <2>1
      DEF AddNetwork, KillSandbox, DestroyNetns, PluginUnchanged, NoFault, histVars, kernelVars,
          daemonVars, nicVars
    <2>2. CASE SetupNS(s) \/ SetupNSFails(s)
      BY <1>1, <2>2
      DEF SetupNS, CreateVeth, ReplaceRoute, DelToRule, AddToRule, AddFromRule, SetupNSFails,
          PluginUnchanged, Fail, kernelVars, daemonVars, nicVars
    <2>3. CASE TearDownNS(s) \/ TearDownNSFails(s)
      BY <1>1, <2>3
      DEF TearDownNS, TearToRule, TearList, TearFromRule, TearRoute, TearDownNSFails,
          PluginUnchanged, Fail, kernelVars, daemonVars, nicVars
    <2>4. CASE Cleanup(s) \/ DelNetwork(s) \/ DelNetworkUnknown(s)
      BY <1>1, <2>4
      DEF Cleanup, DelNetwork, DelNetworkUnknown, ReleaseUnchanged, NoFault, histVars, kernelVars,
          nicVars
    <2> QED
      BY <1>12, <2>1, <2>2, <2>3, <2>4 DEF PluginNext
  <1>13. CASE UNCHANGED vars
    BY <1>1, <1>13 DEF vars, kernelVars, daemonVars, histVars, nicVars
  <1> QED
    BY <1>8, <1>9, <1>10, <1>11, <1>12, <1>13 DEF Next, PoolNext

\* What the store and the recovery of pods change.
storeVars == <<daemon, podsIP, todoPods, externalSNAT>>

\* What the store records for a pod is an address and a table of a NIC.
LEMMA StoreStep ==
    ASSUME RulesInv, [Next]_vars
    PROVE  StoreTypeOK'
  <1> USE DEF RulesInv
  <1>1. CASE UNCHANGED storeVars
    BY <1>1 DEF storeVars, StoreTypeOK
  <1>2. \A n \in stored : n \in NIC /\ AddrOf[n] \in Addr /\ number[n] \in Table
    BY TablesOfType, PodNetworkAssumption DEF NICTypeOK, NumberInv
  <1>3. ASSUME DaemonDies PROVE StoreTypeOK'
    <2>1. DOMAIN podsIP' = {} /\ podsIP' \in [{} -> [addr : Addr, num : Table]]
      BY <1>3 DEF DaemonDies
    <2> QED
      BY <1>3, <2>1 DEF DaemonDies, StoreTypeOK
  <1>4. ASSUME RecoverPod PROVE StoreTypeOK'
    <2>1. PICK r \in todoPods :
            /\ todoPods' = todoPods \ {r}
            /\ \/ UNCHANGED podsIP
               \/ \E n \in stored :
                    podsIP' = [k \in DOMAIN podsIP \cup {r.key} |->
                                 IF k \in DOMAIN podsIP THEN podsIP[k]
                                 ELSE [addr |-> r.addr, num |-> number[n]]]
      BY <1>4 DEF RecoverPod
    <2>2. /\ r.addr \in Addr /\ r.key \in Pod \X (Sandbox \cup {NoContainer, AppContainer})
          /\ UNCHANGED <<daemon, externalSNAT>>
      BY <1>4, <2>1 DEF RecoverPod, StoreTypeOK
    <2>3. CASE UNCHANGED podsIP
      BY <2>1, <2>2, <2>3 DEF StoreTypeOK
    <2>4. ASSUME NEW n \in stored,
                 podsIP' = [k \in DOMAIN podsIP \cup {r.key} |->
                              IF k \in DOMAIN podsIP THEN podsIP[k]
                              ELSE [addr |-> r.addr, num |-> number[n]]]
          PROVE  StoreTypeOK'
      <3>1. DOMAIN podsIP' = DOMAIN podsIP \cup {r.key}
        BY <2>4
      <3>2. podsIP' \in [DOMAIN podsIP' -> [addr : Addr, num : Table]]
        BY <1>2, <2>2, <2>4 DEF StoreTypeOK
      <3> QED
        BY <2>1, <2>2, <3>1, <3>2 DEF StoreTypeOK
    <2> QED
      BY <2>1, <2>3, <2>4
  <1>5. ASSUME ListPodsAndRules PROVE StoreTypeOK'
    <2>1. PICK L \in SUBSET Listable, c \in {NoContainer, AppContainer} :
            todoPods' = {[key |-> <<PodOf[s], c>>, addr |-> addr[s]] : s \in L}
      BY <1>5 DEF ListPodsAndRules
    <2>2. \A s \in L : PodOf[s] \in Pod /\ addr[s] \in Addr
      BY <2>1, PodNetworkAssumption DEF Listable, SandboxesOK
    <2>3. todoPods' \subseteq [key : Pod \X {NoContainer, AppContainer}, addr : Addr]
      BY <2>1, <2>2
    <2> QED
      BY <1>5, <2>3 DEF ListPodsAndRules, StoreTypeOK
  <1>6. ASSUME Boot \/ Serve PROVE StoreTypeOK'
    BY <1>6 DEF Boot, Serve, StoreTypeOK
  <1>7. ASSUME NEW s \in Sandbox, AddNetwork(s) PROVE StoreTypeOK'
    <2>1. PICK n \in stored :
            podsIP' = [k \in DOMAIN podsIP \cup {Key(s)} |->
                         IF k \in DOMAIN podsIP THEN podsIP[k]
                         ELSE [addr |-> AddrOf[n], num |-> number[n]]]
      BY <1>7 DEF AddNetwork
    <2>2. DOMAIN podsIP' = DOMAIN podsIP \cup {Key(s)}
      BY <2>1
    <2>3. podsIP' \in [DOMAIN podsIP' -> [addr : Addr, num : Table]]
      BY <1>2, <2>1 DEF StoreTypeOK
    <2>4. Key(s) \in Pod \X (Sandbox \cup {NoContainer, AppContainer})
      BY PodNetworkAssumption DEF Key
    <2> QED
      BY <1>7, <2>2, <2>3, <2>4 DEF AddNetwork, StoreTypeOK
  <1>8. ASSUME NEW s \in Sandbox, Cleanup(s) \/ DelNetwork(s) \/ DelNetworkUnknown(s)
        PROVE  StoreTypeOK'
    <2>1. UNCHANGED <<daemon, todoPods, externalSNAT>>
      BY <1>8 DEF Cleanup, DelNetwork, DelNetworkUnknown, ReleaseUnchanged
    <2>2. UNCHANGED podsIP \/ \E k \in DOMAIN podsIP : Release(k)
      BY <1>8 DEF Cleanup, DelNetwork, DelNetworkUnknown
    <2>3. DOMAIN podsIP' \subseteq DOMAIN podsIP
          /\ podsIP' \in [DOMAIN podsIP' -> [addr : Addr, num : Table]]
      BY <2>2 DEF Release, StoreTypeOK
    <2> QED
      BY <2>1, <2>3 DEF StoreTypeOK
  <1>9. ASSUME DaemonNext PROVE StoreTypeOK'
    <2>1. CASE UpdateDel \/ UpdateAdd \/ UpdateFails
      BY <1>1, <2>1 DEF UpdateDel, UpdateAdd, UpdateFails, storeVars
    <2>2. ASSUME NEW n \in NIC, NextAttachedNIC(n) \/ setupNICNetwork(n) PROVE StoreTypeOK'
      BY <1>1, <2>2
      DEF NextAttachedNIC, setupNICNetwork, SetupLink, CleanRoutes, AddRoutes, SetupUnchanged,
          storeVars
    <2>3. ASSUME NEW n \in NIC, SetupNicFails(n) PROVE StoreTypeOK'
      <3>1. CASE daemon = "ready"
        BY <1>1, <2>3, <3>1 DEF SetupNicFails, storeVars
      <3> QED
        BY <1>3, <2>3, <3>1 DEF SetupNicFails
    <2> QED
      BY <1>4, <1>5, <1>6, <1>9, <2>1, <2>2, <2>3 DEF DaemonNext
  <1>10. ASSUME PoolNext PROVE StoreTypeOK'
    BY <1>1, <1>10 DEF PoolNext, AttachNIC, DetachNIC, storeVars
  <1>11. ASSUME NEW s \in Sandbox, PluginNext(s) PROVE StoreTypeOK'
    <2>1. CASE SetupNS(s) \/ SetupNSFails(s)
      BY <1>1, <2>1
      DEF SetupNS, CreateVeth, ReplaceRoute, DelToRule, AddToRule, AddFromRule, SetupNSFails,
          PluginUnchanged, daemonVars, storeVars
    <2>2. CASE TearDownNS(s) \/ TearDownNSFails(s)
      BY <1>1, <2>2
      DEF TearDownNS, TearToRule, TearList, TearFromRule, TearRoute, TearDownNSFails,
          PluginUnchanged, daemonVars, storeVars
    <2> QED
      BY <1>8, <1>11, <2>1, <2>2 DEF PluginNext
  <1>12. ASSUME NEW s \in Sandbox, KillSandbox(s) \/ DestroyNetns(s) PROVE StoreTypeOK'
    BY <1>1, <1>12 DEF KillSandbox, DestroyNetns, PluginUnchanged, daemonVars, storeVars
  <1>13. ASSUME Crash PROVE StoreTypeOK'
    BY <1>3, <1>13 DEF Crash
  <1>14. CASE UNCHANGED vars
    BY <1>1, <1>14 DEF vars, daemonVars, storeVars
  <1> QED
    BY <1>7, <1>9, <1>10, <1>11, <1>12, <1>13, <1>14 DEF Next

\* What setupNS and tearDownNS change beside rules.
hostVars == <<toRules, veth, hostRoute, crashes, failures, broken>>

\* A failure is counted.
LEMMA FailStep ==
    ASSUME failures \in 0 .. MaxFailures, NEW kind, Fail(kind)
    PROVE  failures' \in 0 .. MaxFailures /\ UNCHANGED crashes
  BY PodNetworkAssumption DEF Fail

\* Interfaces, routes and "to" rules are made for a sandbox that has an address.
LEMMA HostStep ==
    ASSUME RulesInv, [Next]_vars
    PROVE  HostTypeOK'
  <1> USE DEF RulesInv
  <1>1. CASE UNCHANGED hostVars
    BY <1>1 DEF hostVars, HostTypeOK
  <1>2. CASE /\ UNCHANGED <<toRules, veth, hostRoute, crashes>>
             /\ failures' \in 0 .. MaxFailures /\ broken' \subseteq Addr
    BY <1>2 DEF HostTypeOK
  <1>3. failures \in 0 .. MaxFailures /\ crashes \in 0 .. MaxCrash /\ broken \subseteq Addr
    BY DEF HostTypeOK
  <1>4. ASSUME DaemonNext PROVE HostTypeOK'
    <2>1. CASE Boot \/ ListPodsAndRules \/ RecoverPod \/ UpdateDel \/ Serve
      BY <1>1, <2>1
      DEF Boot, ListPodsAndRules, RecoverPod, UpdateDel, Serve, BootUnchanged, kernelVars, NoFault,
          histVars, hostVars
    <2>2. CASE UpdateAdd
      <3>1. update.src \in Addr
        BY <2>2 DEF UpdateAdd, UpdateOK
      <3> QED
        BY <1>2, <1>3, <2>2, <3>1 DEF UpdateAdd, BootUnchanged
    <2>3. CASE UpdateFails
      <3>1. update.src \in Addr
        BY <2>3 DEF UpdateFails, UpdateOK
      <3> QED
        BY <1>2, <1>3, <2>3, <3>1, FailStep DEF UpdateFails, BootUnchanged
    <2>4. ASSUME NEW n \in NIC, NextAttachedNIC(n) \/ setupNICNetwork(n) PROVE HostTypeOK'
      BY <1>1, <2>4
      DEF NextAttachedNIC, setupNICNetwork, SetupLink, CleanRoutes, AddRoutes, SetupUnchanged,
          BootUnchanged, NoFault, histVars, hostVars
    <2>5. ASSUME NEW n \in NIC, SetupNicFails(n) PROVE HostTypeOK'
      BY <1>2, <1>3, <2>5, FailStep DEF SetupNicFails, kernelVars
    <2> QED
      BY <1>4, <2>1, <2>2, <2>3, <2>4, <2>5 DEF DaemonNext
  <1>5. ASSUME PoolNext PROVE HostTypeOK'
    BY <1>1, <1>5 DEF PoolNext, AttachNIC, DetachNIC, histVars, hostVars
  <1>6. ASSUME NEW s \in Sandbox, SetupNS(s) PROVE HostTypeOK'
    <2>1. addr[s] \in Addr /\ PodOf[s] \in Pod
      BY <1>6, PodNetworkAssumption
      DEF SetupNS, CreateVeth, ReplaceRoute, DelToRule, AddToRule, AddFromRule, SandboxesOK,
          SandboxOK, SetupSteps
    <2>2. CASE CreateVeth(s)
      BY <2>1, <2>2, PodNetworkAssumption DEF CreateVeth, PluginUnchanged, HostTypeOK
    <2>3. CASE ReplaceRoute(s)
      BY <2>1, <2>3 DEF ReplaceRoute, PluginUnchanged, HostTypeOK
    <2>4. CASE DelToRule(s) \/ AddToRule(s)
      BY <2>1, <2>4 DEF DelToRule, AddToRule, PluginUnchanged, HostTypeOK
    <2>5. CASE AddFromRule(s)
      BY <1>2, <1>3, <2>5 DEF AddFromRule, PluginUnchanged
    <2> QED
      BY <1>6, <2>2, <2>3, <2>4, <2>5 DEF SetupNS
  <1>7. ASSUME NEW s \in Sandbox, TearDownNS(s) PROVE HostTypeOK'
    <2>1. addr[s] \in Addr
      BY <1>7
      DEF TearDownNS, TearToRule, TearList, TearFromRule, TearRoute, SandboxesOK, SandboxOK,
          TeardownSteps
    <2>2. CASE TearToRule(s)
      <3>1. toRules' \subseteq Addr /\ failures' \in 0 .. MaxFailures
        BY <1>3, <2>2, FailStep DEF TearToRule, HostTypeOK
      <3> QED
        BY <2>2, <3>1 DEF TearToRule, PluginUnchanged, HostTypeOK
    <2>3. CASE TearList(s) \/ TearFromRule(s)
      BY <1>1, <2>3 DEF TearList, TearFromRule, PluginUnchanged, hostVars
    <2>4. CASE TearRoute(s)
      <3>1. hostRoute' \in [Addr -> Sandbox \cup {None}] /\ failures' \in 0 .. MaxFailures
        BY <1>3, <2>1, <2>4, FailStep DEF TearRoute, HostTypeOK
      <3> QED
        BY <2>4, <3>1 DEF TearRoute, PluginUnchanged, HostTypeOK
    <2> QED
      BY <1>7, <2>2, <2>3, <2>4 DEF TearDownNS
  <1>8. ASSUME NEW s \in Sandbox, PluginNext(s) PROVE HostTypeOK'
    <2>1. CASE SetupNSFails(s)
      <3>1. failures' \in 0 .. MaxFailures /\ UNCHANGED crashes
        BY <1>3, <2>1, FailStep DEF SetupNSFails
      <3> QED
        BY <1>2, <1>3, <2>1, <3>1 DEF SetupNSFails, kernelVars
    <2>2. CASE TearDownNSFails(s)
      BY <1>2, <1>3, <2>2, FailStep DEF TearDownNSFails, kernelVars
    <2>3. CASE Cleanup(s) \/ DelNetwork(s) \/ DelNetworkUnknown(s)
      BY <1>1, <2>3
      DEF Cleanup, DelNetwork, DelNetworkUnknown, ReleaseUnchanged, kernelVars, NoFault, histVars,
          hostVars
    <2> QED
      BY <1>6, <1>7, <1>8, <2>1, <2>2, <2>3 DEF PluginNext
  <1>9. ASSUME NEW s \in Sandbox, AddNetwork(s) \/ KillSandbox(s) PROVE HostTypeOK'
    BY <1>1, <1>9 DEF AddNetwork, KillSandbox, kernelVars, NoFault, histVars, hostVars
  <1>10. ASSUME NEW s \in Sandbox, DestroyNetns(s) PROVE HostTypeOK'
    BY <1>10, PodNetworkAssumption DEF DestroyNetns, PluginUnchanged, HostTypeOK
  <1>11. ASSUME Crash PROVE HostTypeOK'
    BY <1>3, <1>11, PodNetworkAssumption DEF Crash, kernelVars, HostTypeOK
  <1>12. CASE UNCHANGED vars
    BY <1>1, <1>12 DEF vars, kernelVars, histVars, hostVars
  <1> QED
    BY <1>4, <1>5, <1>8, <1>9, <1>10, <1>11, <1>12 DEF Next

----------------------------------------------------------------------------
(* The steps that write rules *)

\* A call that deletes a rule of an address leaves it rules of its own,
LEMMA RuleDelOK ==
    ASSUME TableRulesOK, NEW a \in Addr, NEW r, RuleDel(a, r), UNCHANGED listed
    PROVE  TableRulesOK'
  <1>1. CASE UNCHANGED fromRules
    BY <1>1 DEF TableRulesOK
  <1>2. ASSUME NEW i \in DOMAIN fromRules[a],
               fromRules' = [fromRules EXCEPT ![a] = RemoveAt(@, i)]
        PROVE  TableRulesOK'
    <2>1. fromRules[a] \in Seq(RuleOf(a)) /\ IsInjective(fromRules[a])
      BY DEF TableRulesOK
    <2>2. /\ RemoveAt(fromRules[a], i) \in Seq(RuleOf(a))
          /\ IsInjective(RemoveAt(fromRules[a], i))
      BY <2>1, RemoveRule
    <2>3. RemoveAt(fromRules[a], i) \in Seq(Rule)
      BY <2>2, RuleOfSeq
    <2>4. \A b \in Addr : fromRules'[b] = IF b = a THEN RemoveAt(fromRules[a], i) ELSE fromRules[b]
      BY <1>2 DEF TableRulesOK
    <2>5. fromRules' \in [Addr -> Seq(Rule)]
      BY <1>2, <2>3 DEF TableRulesOK
    <2> QED
      BY <2>2, <2>4, <2>5 DEF TableRulesOK
  <1> QED
    BY <1>1, <1>2 DEF RuleDel

\* and so does one that adds such a rule.
LEMMA RuleAddOK ==
    ASSUME TableRulesOK, NEW a \in Addr, NEW r \in RuleOf(a), RuleAdd(a, r), UNCHANGED listed
    PROVE  TableRulesOK'
  <1> DEFINE new == IF RuleExists(a, r) THEN fromRules[a] ELSE Append(fromRules[a], r)
  <1>1. fromRules[a] \in Seq(RuleOf(a)) /\ IsInjective(fromRules[a])
    BY DEF TableRulesOK
  <1>2. new \in Seq(RuleOf(a)) /\ IsInjective(new)
    BY <1>1, AppendRule DEF RuleExists
  <1>3. new \in Seq(Rule)
    BY <1>2, RuleOfSeq
  <1>4. fromRules' = [fromRules EXCEPT ![a] = new]
    BY DEF RuleAdd
  <1> HIDE DEF new
  <1>5. \A b \in Addr : fromRules'[b] = IF b = a THEN new ELSE fromRules[b]
    BY <1>4 DEF TableRulesOK
  <1>6. fromRules' \in [Addr -> Seq(Rule)]
    BY <1>3, <1>4 DEF TableRulesOK
  <1> QED
    BY <1>2, <1>5, <1>6 DEF TableRulesOK

\* UpdateRuleListBySrc keeps the table of a rule of this address, or takes that
\* of the NIC that has it.
LEMMA StartUpdateOK ==
    ASSUME TableRulesOK, NEW a \in Addr, NEW toFlag, NEW t \in TablesOf(a),
           StartUpdate(a, toFlag, t)
    PROVE  UpdateOK'
  <1> DEFINE old == listed[a]
  <1>1. old \in Seq(RuleOf(a)) /\ old \in Seq(Rule)
    BY RuleOfSeq DEF TableRulesOK
  <1>2. << >> \in Seq(Rule) /\ << >> \in Seq(RuleOf(a))
    OBVIOUS
  <1>3. ASSUME NEW u \in TablesOf(a), NEW f
        PROVE  /\ NewRules(u, f) \in Seq(RuleOf(a)) /\ NewRules(u, f) \in Seq(Rule)
               /\ NewRules(u, f) # << >>
    BY NewRulesOK, RuleOfSeq
  <1>4. ASSUME NEW del \in Seq(Rule), del \in Seq(RuleOf(a)), NEW add \in Seq(Rule),
               add \in Seq(RuleOf(a)), add # << >>, NEW b \in BOOLEAN,
               update' = [src |-> a, del |-> del, add |-> add, rebuild |-> b]
        PROVE  UpdateOK'
    BY <1>4 DEF UpdateOK
  <1>5. CASE old = << >>
    <2>1. update' = [src |-> a, del |-> << >>, add |-> NewRules(t, TRUE), rebuild |-> TRUE]
      BY <1>5 DEF StartUpdate
    <2> QED
      BY <1>2, <1>3, <1>4, <2>1
  <1>6. CASE old # << >>
    <2>1. old[Len(old)] \in RuleOf(a)
      BY <1>1, <1>6, LenProperties, EmptySeq
    <2>2. old[Len(old)].table \in TablesOf(a)
      BY <2>1 DEF RuleOf
    <2>3. update' = [src |-> a, del |-> old, add |-> NewRules(old[Len(old)].table, toFlag),
                     rebuild |-> FALSE]
      BY <1>6 DEF StartUpdate
    <2> QED
      BY <1>1, <1>3, <1>4, <2>2, <2>3
  <1> QED
    BY <1>5, <1>6

\* What the daemon has read and what it writes.
policyVars == <<fromRules, listed, update>>

\* The steps that read or write rules.
LEMMA PolicySteps ==
    ASSUME [Next]_vars
    PROVE  \/ UNCHANGED policyVars
           \/ ListPodsAndRules \/ RecoverPod \/ UpdateDel \/ UpdateAdd \/ UpdateFails \/ Serve
           \/ DaemonDies /\ UNCHANGED fromRules
           \/ \E s \in Sandbox : AddFromRule(s) \/ TearFromRule(s)
  <1>1. CASE DaemonNext
    <2>1. ASSUME Boot \/ \E n \in NIC : NextAttachedNIC(n) \/ setupNICNetwork(n)
          PROVE  UNCHANGED policyVars
      BY <2>1
      DEF Boot, NextAttachedNIC, setupNICNetwork, SetupLink, CleanRoutes, AddRoutes, SetupUnchanged,
          policyVars
    <2>2. ASSUME NEW n \in NIC, SetupNicFails(n)
          PROVE  UNCHANGED policyVars \/ (DaemonDies /\ UNCHANGED fromRules)
      BY <2>2 DEF SetupNicFails, kernelVars, policyVars
    <2> QED
      BY <1>1, <2>1, <2>2 DEF DaemonNext
  <1>2. CASE PoolNext
    BY <1>2 DEF PoolNext, AttachNIC, DetachNIC, policyVars
  <1>3. ASSUME NEW s \in Sandbox, PluginNext(s), ~AddFromRule(s), ~TearFromRule(s)
        PROVE  UNCHANGED policyVars
    <2>1. CASE CreateVeth(s) \/ ReplaceRoute(s) \/ DelToRule(s) \/ AddToRule(s)
      BY <2>1
      DEF CreateVeth, ReplaceRoute, DelToRule, AddToRule, PluginUnchanged, daemonVars, policyVars
    <2>2. CASE TearToRule(s) \/ TearList(s) \/ TearRoute(s)
      BY <2>2
      DEF TearToRule, TearList, TearRoute, PluginUnchanged, daemonVars, policyVars
    <2>3. CASE SetupNSFails(s) \/ TearDownNSFails(s)
      BY <2>3 DEF SetupNSFails, TearDownNSFails, kernelVars, daemonVars, policyVars
    <2>4. CASE Cleanup(s) \/ DelNetwork(s) \/ DelNetworkUnknown(s)
      BY <2>4
      DEF Cleanup, DelNetwork, DelNetworkUnknown, ReleaseUnchanged, kernelVars, policyVars
    <2> QED
      BY <1>3, <2>1, <2>2, <2>3, <2>4 DEF PluginNext, SetupNS, TearDownNS
  <1>4. ASSUME NEW s \in Sandbox, AddNetwork(s) \/ KillSandbox(s) \/ DestroyNetns(s)
        PROVE  UNCHANGED policyVars
    BY <1>4
    DEF AddNetwork, KillSandbox, DestroyNetns, PluginUnchanged, kernelVars, daemonVars, policyVars
  <1>5. CASE Crash
    BY <1>5 DEF Crash, kernelVars
  <1>6. CASE UNCHANGED vars
    BY <1>6 DEF vars, kernelVars, daemonVars, policyVars
  <1> QED
    BY <1>1, <1>2, <1>3, <1>4, <1>5, <1>6 DEF Next

\* No rule is ever written for an address but to a table of a NIC that has, or
\* had, this address.
LEMMA PolicyStep ==
    ASSUME RulesInv, [Next]_vars
    PROVE  TableRulesOK' /\ UpdateOK'
  <1> USE DEF RulesInv
  <1>1. CASE UNCHANGED policyVars
    BY <1>1 DEF policyVars, TableRulesOK, UpdateOK
  <1>2. ASSUME listed' = NoRules, UNCHANGED fromRules PROVE TableRulesOK'
    BY <1>2 DEF NoRules, TableRulesOK
  <1>3. ASSUME update' = NoUpdate PROVE UpdateOK'
    BY <1>3 DEF NoUpdate, UpdateOK
  <1>4. ASSUME UNCHANGED <<fromRules, listed>> PROVE TableRulesOK'
    BY <1>4 DEF TableRulesOK
  <1>5. ASSUME UNCHANGED update PROVE UpdateOK'
    BY <1>5 DEF UpdateOK
  <1>6. CASE ListPodsAndRules
    <2>1. listed' = fromRules /\ UNCHANGED <<fromRules, update>>
      BY <1>6 DEF ListPodsAndRules
    <2> QED
      BY <1>5, <2>1 DEF TableRulesOK
  <1>7. CASE RecoverPod
    <2>1. UNCHANGED <<fromRules, listed>>
      BY <1>7 DEF RecoverPod
    <2>2. UNCHANGED update \/ \E r \in todoPods, n \in stored :
                                AddrOf[n] = r.addr /\ StartUpdate(r.addr, ~externalSNAT, number[n])
      BY <1>7 DEF RecoverPod
    <2>3. ASSUME NEW r \in todoPods, NEW n \in stored, AddrOf[n] = r.addr,
                 StartUpdate(r.addr, ~externalSNAT, number[n])
          PROVE  UpdateOK'
      <3>1. n \in NIC /\ r.addr \in Addr /\ number[n] \in DeviceNumbers(n)
        BY <2>3 DEF NICTypeOK, NumberInv, StoreTypeOK
      <3>2. number[n] \in TablesOf(r.addr)
        BY <2>3, <3>1, TablesOfType
      <3> QED
        BY <2>3, <3>1, <3>2, StartUpdateOK
    <2> QED
      BY <1>4, <1>5, <2>1, <2>2, <2>3
  <1>8. CASE UpdateDel
    <2>1. /\ update # NoUpdate /\ update.src \in Addr /\ update.del # << >>
          /\ update.del \in Seq(RuleOf(update.src)) /\ update.del \in Seq(Rule)
      BY <1>8 DEF UpdateDel, UpdateOK, NoUpdate
    <2>2. Tail(update.del) \in Seq(RuleOf(update.src)) /\ Tail(update.del) \in Seq(Rule)
      BY <2>1, TailRules
    <2>3. update' = [update EXCEPT !.del = Tail(@)]
      BY <1>8 DEF UpdateDel
    <2>4. UpdateOK'
      BY <2>1, <2>2, <2>3 DEF UpdateOK
    <2>5. TableRulesOK'
      BY <1>8, <2>1, RuleDelOK DEF UpdateDel
    <2> QED
      BY <2>4, <2>5
  <1>9. CASE UpdateAdd
    <2>1. /\ update # NoUpdate /\ update.src \in Addr /\ update.add # << >>
          /\ update.add \in Seq(RuleOf(update.src)) /\ update.add \in Seq(Rule)
      BY <1>9 DEF UpdateAdd, UpdateOK
    <2>2. /\ Head(update.add) \in RuleOf(update.src)
          /\ Tail(update.add) \in Seq(RuleOf(update.src)) /\ Tail(update.add) \in Seq(Rule)
          /\ Len(update.add) # 1 => Tail(update.add) # << >>
      BY <2>1, TailRules
    <2>3. TableRulesOK'
      <3>1. RuleAdd(update.src, Head(update.add)) /\ UNCHANGED listed
        BY <1>9 DEF UpdateAdd
      <3> QED
        BY <2>1, <2>2, <3>1, RuleAddOK
    <2>4. \/ update' = NoUpdate
          \/ Len(update.add) # 1 /\ update' = [update EXCEPT !.add = Tail(@)]
      BY <1>9 DEF UpdateAdd
    <2>5. ASSUME Len(update.add) # 1, update' = [update EXCEPT !.add = Tail(@)] PROVE UpdateOK'
      BY <2>1, <2>2, <2>5 DEF UpdateOK
    <2> QED
      BY <1>3, <2>3, <2>4, <2>5
  <1>10. CASE UpdateFails
    BY <1>3, <1>4, <1>10 DEF UpdateFails
  <1>11. CASE Serve
    BY <1>2, <1>5, <1>11 DEF Serve
  <1>12. ASSUME DaemonDies, UNCHANGED fromRules PROVE TableRulesOK' /\ UpdateOK'
    BY <1>2, <1>3, <1>12 DEF DaemonDies
  <1>13. ASSUME NEW s \in Sandbox, AddFromRule(s) PROVE TableRulesOK' /\ UpdateOK'
    <2>1. addr[s] \in Addr /\ todo[s] \in Seq(RuleOf(addr[s])) /\ todo[s] # << >>
      BY <1>13 DEF AddFromRule, SandboxesOK, SandboxOK, SetupSteps
    <2>2. Head(todo[s]) \in RuleOf(addr[s])
      BY <2>1, TailRules
    <2> QED
      BY <1>5, <1>13, <2>1, <2>2, RuleAddOK DEF AddFromRule, PluginUnchanged, daemonVars
  <1>14. ASSUME NEW s \in Sandbox, TearFromRule(s) PROVE TableRulesOK' /\ UpdateOK'
    <2>1. addr[s] \in Addr
      BY <1>14 DEF TearFromRule, SandboxesOK, SandboxOK, TeardownSteps
    <2> QED
      BY <1>5, <1>14, <2>1, RuleDelOK DEF TearFromRule, PluginUnchanged, daemonVars
  <1> QED
    BY <1>1, <1>6, <1>7, <1>8, <1>9, <1>10, <1>11, <1>12, <1>13, <1>14, PolicySteps

----------------------------------------------------------------------------
(* The plugin *)

\* What the plugin keeps of a sandbox.
sandboxVars == <<step, addr, table, todo>>

\* A step of one sandbox,
Moves(s, at, a, t, q) ==
    /\ step' = [step EXCEPT ![s] = at]
    /\ addr' = [addr EXCEPT ![s] = a]
    /\ table' = [table EXCEPT ![s] = t]
    /\ todo' = [todo EXCEPT ![s] = q]

\* and what it has to keep.
LEMMA OneSandbox ==
    ASSUME SandboxesOK, NEW s \in Sandbox,
           NEW at \in SetupSteps \cup TeardownSteps \cup
                        {"none", "up", "cleanup", "failed", "deleting", "gone"},
           NEW a \in Addr \cup {None}, NEW t \in Table \cup {0}, NEW q \in Seq(Rule),
           Moves(s, at, a, t, q),
           at \in SetupSteps \cup TeardownSteps \cup {"up"} => a # None,
           at \in {"veth", "route", "delTo", "addTo"} => t \in TablesOf(a),
           at \in {"addFrom", "tearFrom"} => q \in Seq(RuleOf(a)) /\ q # << >>
    PROVE  SandboxesOK'
  <1>1. /\ step'[s] = at /\ addr'[s] = a /\ table'[s] = t /\ todo'[s] = q
        /\ \A x \in Sandbox \ {s} :
             step'[x] = step[x] /\ addr'[x] = addr[x] /\ table'[x] = table[x] /\ todo'[x] = todo[x]
    BY DEF Moves, SandboxesOK
  <1>2. SandboxOK(s)'
    BY <1>1 DEF SandboxOK
  <1>3. \A x \in Sandbox \ {s} : SandboxOK(x)'
    BY <1>1 DEF SandboxesOK, SandboxOK
  <1>4. /\ step' \in [Sandbox -> SetupSteps \cup TeardownSteps \cup
                      {"none", "up", "cleanup", "failed", "deleting", "gone"}]
        /\ addr' \in [Sandbox -> Addr \cup {None}]
        /\ table' \in [Sandbox -> Table \cup {0}]
        /\ todo' \in [Sandbox -> Seq(Rule)]
    BY DEF Moves, SandboxesOK
  <1> QED
    BY <1>2, <1>3, <1>4 DEF SandboxesOK

\* EXCEPT with the value a function has changes nothing.
LEMMA SandboxSame ==
    ASSUME SandboxesOK, NEW s \in Sandbox
    PROVE  /\ step = [step EXCEPT ![s] = step[s]] /\ addr = [addr EXCEPT ![s] = addr[s]]
           /\ table = [table EXCEPT ![s] = table[s]] /\ todo = [todo EXCEPT ![s] = todo[s]]
           /\ addr[s] \in Addr \cup {None} /\ table[s] \in Table \cup {0} /\ todo[s] \in Seq(Rule)
  BY DEF SandboxesOK

\* The plugin writes what the daemon's reply to add named, and deletes what it has
\* read.
LEMMA SandboxStep ==
    ASSUME RulesInv, [Next]_vars
    PROVE  SandboxesOK'
  <1> USE DEF RulesInv
  <1>1. CASE UNCHANGED sandboxVars
    BY <1>1 DEF sandboxVars, SandboxesOK, SandboxOK
  <1>2. << >> \in Seq(Rule)
    OBVIOUS
  <1>3. ASSUME ListPodsAndRules PROVE SandboxesOK'
    <2>1. /\ UNCHANGED <<step, table, todo>>
          /\ \E L \in SUBSET Listable :
               addr' = [s \in Sandbox |->
                          IF step[s] = "deleting" /\ s \notin L THEN None ELSE addr[s]]
      BY <1>3 DEF ListPodsAndRules
    <2>2. /\ addr' \in [Sandbox -> Addr \cup {None}]
          /\ \A s \in Sandbox : step[s] # "deleting" => addr'[s] = addr[s]
      BY <2>1 DEF SandboxesOK
    <2>3. \A s \in Sandbox : SandboxOK(s)'
      BY <2>1, <2>2 DEF SandboxesOK, SandboxOK, SetupSteps, TeardownSteps
    <2> QED
      BY <2>1, <2>2, <2>3 DEF SandboxesOK
  <1>4. ASSUME DaemonNext PROVE SandboxesOK'
    <2>1. CASE Boot \/ RecoverPod \/ UpdateDel \/ UpdateAdd \/ UpdateFails \/ Serve
      BY <1>1, <2>1
      DEF Boot, RecoverPod, UpdateDel, UpdateAdd, UpdateFails, Serve, BootUnchanged, pluginVars,
          sandboxVars
    <2>2. ASSUME NEW n \in NIC, NextAttachedNIC(n) \/ setupNICNetwork(n) \/ SetupNicFails(n)
          PROVE  SandboxesOK'
      BY <1>1, <2>2
      DEF NextAttachedNIC, setupNICNetwork, SetupLink, CleanRoutes, AddRoutes, SetupNicFails,
          SetupUnchanged, BootUnchanged, pluginVars, sandboxVars
    <2> QED
      BY <1>3, <1>4, <2>1, <2>2 DEF DaemonNext
  <1>5. ASSUME PoolNext PROVE SandboxesOK'
    BY <1>1, <1>5 DEF PoolNext, AttachNIC, DetachNIC, pluginVars, sandboxVars
  <1>6. ASSUME NEW s \in Sandbox, CreateVeth(s) \/ ReplaceRoute(s) \/ DelToRule(s)
        PROVE  SandboxesOK'
    <2>1. /\ step[s] \in {"veth", "route", "delTo"}
          /\ \E at \in {"route", "delTo", "addTo"} : Moves(s, at, addr[s], table[s], todo[s])
      BY <1>6, SandboxSame DEF CreateVeth, ReplaceRoute, DelToRule, Go, Moves
    <2>2. addr[s] # None /\ table[s] \in TablesOf(addr[s])
      BY <2>1 DEF SandboxesOK, SandboxOK, SetupSteps
    <2> QED
      BY <2>1, <2>2, SandboxSame, OneSandbox DEF SetupSteps
  <1>7. ASSUME NEW s \in Sandbox, AddToRule(s) PROVE SandboxesOK'
    <2>1. addr[s] \in Addr /\ table[s] \in TablesOf(addr[s])
      BY <1>7 DEF AddToRule, SandboxesOK, SandboxOK, SetupSteps
    <2>2. /\ NewRules(table[s], TRUE) \in Seq(RuleOf(addr[s])) /\ NewRules(table[s], TRUE) # << >>
          /\ NewRules(table[s], TRUE) \in Seq(Rule)
      BY <2>1, NewRulesOK, RuleOfSeq
    <2>3. Moves(s, "addFrom", addr[s], 0, NewRules(table[s], TRUE))
      BY <1>7, SandboxSame DEF AddToRule, Go, Moves
    <2> QED
      BY <2>1, <2>2, <2>3, PodNetworkAssumption, OneSandbox DEF SetupSteps
  <1>8. ASSUME NEW s \in Sandbox, AddFromRule(s) \/ TearFromRule(s) PROVE SandboxesOK'
    <2>1. /\ step[s] \in {"addFrom", "tearFrom"}
          /\ \E at \in {step[s], "up", "tearRoute"} :
               /\ Moves(s, at, addr[s], table[s], Tail(todo[s]))
               /\ at = step[s] => Len(todo[s]) # 1
      <3>1. /\ step[s] \in {"addFrom", "tearFrom"} /\ UNCHANGED <<addr, table>>
            /\ todo' = [todo EXCEPT ![s] = Tail(todo[s])]
            /\ \/ Len(todo[s]) # 1 /\ UNCHANGED step
               \/ \E at \in {"up", "tearRoute"} : step' = [step EXCEPT ![s] = at]
        BY <1>8 DEF AddFromRule, TearFromRule, Go
      <3> QED
        BY <3>1, SandboxSame DEF Moves
    <2>2. /\ addr[s] \in Addr /\ todo[s] \in Seq(RuleOf(addr[s])) /\ todo[s] # << >>
          /\ todo[s] \in Seq(Rule)
      BY <2>1 DEF SandboxesOK, SandboxOK, SetupSteps, TeardownSteps
    <2>3. /\ Tail(todo[s]) \in Seq(RuleOf(addr[s])) /\ Tail(todo[s]) \in Seq(Rule)
          /\ Len(todo[s]) # 1 => Tail(todo[s]) # << >>
      BY <2>2, TailRules
    <2>4. PICK at \in {step[s], "up", "tearRoute"} :
            /\ Moves(s, at, addr[s], table[s], Tail(todo[s]))
            /\ at = step[s] => Len(todo[s]) # 1
      BY <2>1
    <2>5. /\ at \in SetupSteps \cup TeardownSteps \cup
                    {"none", "up", "cleanup", "failed", "deleting", "gone"}
          /\ at \notin {"veth", "route", "delTo", "addTo"}
          /\ at \in {"addFrom", "tearFrom"} => at = step[s]
      BY <2>1 DEF SetupSteps, TeardownSteps
    <2>6. addr[s] # None /\ table[s] \in Table \cup {0}
      BY <2>2, PodNetworkAssumption, SandboxSame
    <2> QED
      BY <2>2, <2>3, <2>4, <2>5, <2>6, OneSandbox
  <1>9. ASSUME NEW s \in Sandbox, TearToRule(s) \/ TearList(s) PROVE SandboxesOK'
    <2>1. addr[s] \in Addr /\ addr[s] # None
      BY <1>9, PodNetworkAssumption DEF TearToRule, TearList, SandboxesOK, SandboxOK, TeardownSteps
    <2>2. fromRules[addr[s]] \in Seq(RuleOf(addr[s])) /\ fromRules[addr[s]] \in Seq(Rule)
      BY <2>1 DEF TableRulesOK
    <2>3. CASE TearToRule(s)
      <3>1. Moves(s, "tearList", addr[s], table[s], todo[s])
        BY <2>3, SandboxSame DEF TearToRule, Go, Moves
      <3> QED
        BY <2>1, <3>1, SandboxSame, OneSandbox DEF TeardownSteps
    <2>4. CASE TearList(s)
      <3>1. PICK at \in {"tearFrom", "tearRoute"} :
              /\ Moves(s, at, addr[s], table[s], fromRules[addr[s]])
              /\ at = "tearFrom" => fromRules[addr[s]] # << >>
        BY <2>4, SandboxSame DEF TearList, Go, Moves
      <3> QED
        BY <2>1, <2>2, <3>1, SandboxSame, OneSandbox DEF TeardownSteps
    <2> QED
      BY <1>9, <2>3, <2>4
  <1>10. ASSUME NEW s \in Sandbox, NEW at \in {"cleanup", "failed", "deleting", "gone"},
                step' = [step EXCEPT ![s] = at],
                UNCHANGED addr \/ addr' = [addr EXCEPT ![s] = None],
                UNCHANGED table \/ table' = [table EXCEPT ![s] = 0],
                UNCHANGED todo \/ todo' = [todo EXCEPT ![s] = << >>]
         PROVE  SandboxesOK'
    <2>1. PICK a \in {addr[s], None} : addr' = [addr EXCEPT ![s] = a]
      BY <1>10, SandboxSame
    <2>2. PICK t \in {table[s], 0} : table' = [table EXCEPT ![s] = t]
      BY <1>10, SandboxSame
    <2>3. PICK q \in {todo[s], << >>} : todo' = [todo EXCEPT ![s] = q]
      BY <1>10, SandboxSame
    <2>4. Moves(s, at, a, t, q)
      BY <1>10, <2>1, <2>2, <2>3 DEF Moves
    <2>5. a \in Addr \cup {None} /\ t \in Table \cup {0} /\ q \in Seq(Rule)
      BY <1>2, SandboxSame
    <2> QED
      BY <2>4, <2>5, OneSandbox DEF SetupSteps, TeardownSteps
  <1>11. ASSUME NEW s \in Sandbox,
                \/ SetupNSFails(s) \/ Cleanup(s) \/ KillSandbox(s) \/ DelNetworkUnknown(s)
                \/ TearDownNSFails(s) \/ TearRoute(s)
         PROVE  SandboxesOK'
    <2>1. CASE SetupNSFails(s)
      BY <1>10, <2>1 DEF SetupNSFails, Go
    <2>2. CASE Cleanup(s)
      BY <1>10, <2>2 DEF Cleanup, ReleaseUnchanged, Go
    <2>3. CASE KillSandbox(s)
      BY <1>10, <2>3 DEF KillSandbox, Go
    <2>4. CASE DelNetworkUnknown(s)
      BY <1>10, <2>4 DEF DelNetworkUnknown, ReleaseUnchanged, Go
    <2>5. CASE TearDownNSFails(s)
      BY <1>10, <2>5 DEF TearDownNSFails, Go
    <2>6. CASE TearRoute(s)
      BY <1>10, <2>6 DEF TearRoute, Go
    <2> QED
      BY <1>11, <2>1, <2>2, <2>3, <2>4, <2>5, <2>6
  <1>12. ASSUME NEW s \in Sandbox, AddNetwork(s) PROVE SandboxesOK'
    <2>1. PICK n \in stored :
            addr' = [addr EXCEPT ![s] = AddrOf[n]] /\ table' = [table EXCEPT ![s] = number[n]]
      BY <1>12 DEF AddNetwork
    <2>2. n \in NIC /\ AddrOf[n] \in Addr /\ AddrOf[n] # None /\ number[n] \in DeviceNumbers(n)
      BY PodNetworkAssumption DEF NICTypeOK, NumberInv
    <2>3. number[n] \in Table /\ number[n] \in TablesOf(AddrOf[n])
      BY <2>2, TablesOfType
    <2>4. step' = [step EXCEPT ![s] = "veth"] /\ UNCHANGED todo
      BY <1>12 DEF AddNetwork, Go
    <2>5. Moves(s, "veth", AddrOf[n], number[n], todo[s])
      BY <2>1, <2>4, SandboxSame DEF Moves
    <2> QED
      BY <2>2, <2>3, <2>5, SandboxSame, OneSandbox DEF SetupSteps
  <1>13. ASSUME NEW s \in Sandbox, DelNetwork(s) PROVE SandboxesOK'
    <2>1. PICK k \in DOMAIN podsIP : addr' = [addr EXCEPT ![s] = podsIP[k].addr]
      BY <1>13 DEF DelNetwork
    <2>2. podsIP[k].addr \in Addr /\ podsIP[k].addr # None
      BY PodNetworkAssumption DEF StoreTypeOK
    <2>3. step' = [step EXCEPT ![s] = "tearTo"] /\ UNCHANGED <<table, todo>>
      BY <1>13 DEF DelNetwork, ReleaseUnchanged, Go
    <2>4. Moves(s, "tearTo", podsIP[k].addr, table[s], todo[s])
      BY <2>1, <2>3, SandboxSame DEF Moves
    <2> QED
      BY <2>2, <2>4, SandboxSame, OneSandbox DEF TeardownSteps
  <1>14. ASSUME NEW s \in Sandbox, DestroyNetns(s) PROVE SandboxesOK'
    BY <1>1, <1>14 DEF DestroyNetns, pluginVars, sandboxVars
  <1>15. ASSUME NEW s \in Sandbox, PluginNext(s) PROVE SandboxesOK'
    BY <1>6, <1>7, <1>8, <1>9, <1>11, <1>13, <1>15 DEF PluginNext, SetupNS, TearDownNS
  <1>16. CASE Crash
    BY <1>1, <1>16 DEF Crash, pluginVars, sandboxVars
  <1>17. CASE UNCHANGED vars
    BY <1>1, <1>17 DEF vars, pluginVars, sandboxVars
  <1> QED
    BY <1>4, <1>5, <1>11, <1>12, <1>14, <1>15, <1>16, <1>17 DEF Next

----------------------------------------------------------------------------
(* The theorems *)

\* Every step keeps the invariant.
LEMMA StepRules == RulesInv /\ [Next]_vars => RulesInv'
  BY NICStep, StoreStep, HostStep, PolicyStep, SandboxStep DEF RulesInv

\* The state is well typed, the lists of rules hold no rule twice, and the bounds
\* hold (PodNetworkTypeOK).
THEOREM PodNetworkTypeCorrect == Spec => []PodNetworkTypeOK
  <1>1. RulesInv => PodNetworkTypeOK
    BY DEF RulesInv, NICTypeOK, StoreTypeOK, HostTypeOK, TableRulesOK, UpdateOK, SandboxesOK,
       PodNetworkTypeOK
  <1> QED
    BY <1>1, InitRules, StepRules, PTL DEF Spec

\* The numbers of NICs with different addresses differ: no interface index is the
\* sequence number of another NIC.
Numbered == \A m, n \in NIC : AddrOf[m] # AddrOf[n] => DeviceNumbers(m) \cap DeviceNumbers(n) = {}

\* Where a rule decides there is a first one.
LEMMA FirstRule ==
    ASSUME RulesInv, NEW a \in Addr, NEW d, Routing(a, d) # {}
    PROVE  \E i \in Routing(a, d) : Outgoing(a, d) = tables[fromRules[a][i].table]
  <1> DEFINE R == Routing(a, d)
  <1>1. R \subseteq Nat
    <2>1. DOMAIN fromRules[a] \subseteq Nat
      BY LenProperties DEF RulesInv, TableRulesOK
    <2> QED
      BY <2>1 DEF Routing
  <1> DEFINE i == CHOOSE j \in R : \A k \in R : j <= k
  <1>2. i \in R
    <2> DEFINE Less == {p \in Nat \X Nat : p[1] < p[2]}
    <2>1. OpToRel(<, Nat) = Less
      BY SMT DEF OpToRel
    <2>2. \A j, k \in Nat : k < j => <<k, j>> \in Less
      OBVIOUS
    <2> HIDE DEF Less, R
    <2>3. IsWellFoundedOn(Less, Nat)
      BY <2>1, NatLessThanWellFounded
    <2>4. PICK j \in R : \A k \in R : <<k, j>> \notin Less
      BY <1>1, <2>3, WFMin DEF R
    <2>5. \A k \in R : ~(k < j) /\ k \in Nat /\ j \in Nat
      BY <1>1, <2>2, <2>4
    <2>6. \A k \in R : j <= k
      BY <2>5
    <2> QED
      BY <2>4, <2>6
  <1>3. Outgoing(a, d) = tables[fromRules[a][i].table]
    BY DEF Outgoing
  <1> QED
    BY <1>2, <1>3

\* The first rule that decides leads to the table of a NIC that has the address.
LEMMA RulesOwn ==
    ASSUME Numbered, RulesInv
    PROVE  OwnNICOnly
  <1>1. SUFFICES ASSUME NEW s \in Sandbox, NEW d \in Dst, Up(s), Outgoing(addr[s], d) # None
                 PROVE  Owns(Outgoing(addr[s], d), addr[s])
    BY DEF OwnNICOnly
  <1> DEFINE a == addr[s]
  <1>2. a \in Addr
    BY <1>1 DEF RulesInv, SandboxesOK, SandboxOK, Up
  <1>3. fromRules[a] \in Seq(RuleOf(a))
    BY <1>2 DEF RulesInv, TableRulesOK
  <1>4. PICK i \in Routing(a, d) : Outgoing(a, d) = tables[fromRules[a][i].table]
    <2>1. Routing(a, d) # {}
      BY <1>1 DEF Outgoing
    <2> QED
      BY <1>2, <2>1, FirstRule
  <1> DEFINE t == fromRules[a][i].table
  <1>5. fromRules[a][i] \in RuleOf(a)
    <2>1. i \in DOMAIN fromRules[a]
      BY DEF Routing
    <2> QED
      BY <1>3, <2>1, LenProperties
  <1>6. t \in TablesOf(a) /\ t \in Table
    BY <1>2, <1>5, RuleOfType DEF RuleOf
  <1> HIDE DEF t
  <1>7. PICK n \in NIC : AddrOf[n] = a /\ t \in DeviceNumbers(n)
    BY <1>6 DEF TablesOf
  <1>8. /\ tables[t] \in links /\ tables[t] \in NIC
        /\ t \in DeviceNumbers(tables[t])
    BY <1>1, <1>4, <1>6 DEF RulesInv, NICTypeOK, NumberInv, t
  <1>9. AddrOf[tables[t]] = a
    BY <1>7, <1>8 DEF Numbered
  <1> QED
    BY <1>4, <1>8, <1>9 DEF Owns, t

\* If the numbers differ, what a running pod sends never leaves through another
\* address's NIC (OwnNICOnly), whatever fails, crashes or overtakes what: setupNic
\* and prepareLocalPods of pkg/ipam/ipam.go, UpdateRuleListBySrc of
\* pkg/networkutils/networkutil.go, setupNS and tearDownNS of
\* pkg/driver/driver.go.
THEOREM OwnNICOnlyCorrect ==
    ASSUME Numbered
    PROVE  Spec => []OwnNICOnly
  <1>1. RulesInv => OwnNICOnly
    BY RulesOwn
  <1> QED
    BY <1>1, InitRules, StepRules, PTL DEF Spec

----------------------------------------------------------------------------
(* What a sandbox leaves behind: the invariant *)

NoFaults == crashes = 0 /\ failures = 0

\* Where nothing fails no error path is taken, a "to" rule is deleted before it
\* is added, and a daemon that starts finds no pod.
PathInv ==
    /\ \A s \in Sandbox :
         /\ step[s] \notin {"cleanup", "failed"}
         /\ step[s] = "addTo" => addr[s] \notin toRules
         /\ step[s] = "deleting" => addr[s] # None
    /\ daemon # "ready" => \A s \in Sandbox : step[s] = "none"
    /\ update = NoUpdate /\ todoPods = {}

\* del finds the address add was given, and two teardowns work on two
\* addresses.
KeyInv ==
    /\ \A s \in Sandbox :
         Using(s) => Key(s) \in DOMAIN podsIP /\ podsIP[Key(s)].addr = addr[s]
    /\ \A s, t \in Sandbox : s # t /\ Tearing(s) /\ Tearing(t) => addr[s] # addr[t]

\* How far a teardown has come, and the sandboxes of all that is there.
TracesInv ==
    /\ \A s \in Sandbox :
         /\ step[s] \in {"tearList", "tearFrom", "tearRoute"} => addr[s] \notin toRules
         /\ step[s] = "tearFrom" => todo[s] = fromRules[addr[s]]
         /\ step[s] = "tearRoute" => fromRules[addr[s]] = << >>
    /\ \A a \in Addr :
         a \in toRules \/ fromRules[a] # << >> \/ hostRoute[a] # None =>
             \E s \in Sandbox : (Using(s) \/ Tearing(s)) /\ addr[s] = a

CleanInv == NoFaults => PathInv /\ KeyInv /\ TracesInv

BaseInv == PodNetworkInv /\ RulesInv

----------------------------------------------------------------------------
(* Steps that make nothing and take nothing back *)

\* There is nothing at the beginning.
LEMMA InitClean == Init => CleanInv
  <1> SUFFICES ASSUME Init PROVE CleanInv
    OBVIOUS
  <1>1. PathInv
    BY DEF Init, PathInv
  <1>2. KeyInv
    BY DEF Init, KeyInv, Using, Tearing, SetupSteps, TeardownSteps
  <1>3. TracesInv
    BY DEF Init, TracesInv, NoRules
  <1> QED
    BY <1>1, <1>2, <1>3 DEF CleanInv

\* What a sandbox that neither sets up nor tears down depends on.
traceVars == <<toRules, fromRules, hostRoute, update, todoPods, podsIP, step, addr, todo>>

\* Steps of the daemon that touch no pod.
LEMMA SameClean ==
    ASSUME PathInv, KeyInv, TracesInv, UNCHANGED traceVars,
           daemon' = "ready" \/ UNCHANGED daemon \/ daemon # "ready"
    PROVE  (PathInv /\ KeyInv /\ TracesInv)'
  <1>1. PathInv'
    BY DEF PathInv, traceVars
  <1>2. KeyInv'
    BY DEF KeyInv, Using, Tearing, Key, traceVars
  <1>3. TracesInv'
    BY DEF TracesInv, Using, Tearing, traceVars
  <1> QED
    BY <1>1, <1>2, <1>3

\* A failure is not undone.
LEMMA NoFail ==
    ASSUME HostTypeOK, NEW kind, Fail(kind)
    PROVE  ~NoFaults'
  BY DEF HostTypeOK, Fail, NoFaults

\* The loop of DeleteRuleListBySrc deletes the first of the rules that are left.
LEMMA FirstRemoved ==
    ASSUME NEW S, NEW q \in Seq(S), IsInjective(q), q # << >>, NEW i \in DOMAIN q, q[i] = Head(q)
    PROVE  RemoveAt(q, i) = Tail(q)
  <1>1. Len(q) \in Nat \ {0} /\ DOMAIN q = 1 .. Len(q)
    BY LenProperties, EmptySeq
  <1>2. i = 1
    BY <1>1 DEF IsInjective
  <1>3. SubSeq(q, 1, 0) = << >>
    BY SubSeqEmpty
  <1>4. Tail(q) = SubSeq(q, 2, Len(q)) /\ Tail(q) \in Seq(S)
    BY TailIsSubSeq, HeadTailProperties
  <1>5. << >> \o Tail(q) = Tail(q)
    BY <1>4, ConcatEmptySeq
  <1> QED
    BY <1>2, <1>3, <1>4, <1>5 DEF RemoveAt

\* Start-up, where no sandbox is alive.
LEMMA DaemonClean ==
    ASSUME BaseInv, NoFaults, NoFaults', PathInv, KeyInv, TracesInv, DaemonNext
    PROVE  (PathInv /\ KeyInv /\ TracesInv)'
  <1>1. CASE Boot
    BY <1>1, SameClean DEF Boot, BootUnchanged, pluginVars, traceVars
  <1>2. CASE ListPodsAndRules
    <2>1. daemon = "nics" /\ \A s \in Sandbox : step[s] = "none"
      BY <1>2 DEF ListPodsAndRules, PathInv
    <2>2. Listable = {}
      BY <2>1 DEF Listable, TeardownSteps
    <2>3. todoPods' = {} /\ UNCHANGED addr
      <3>1. PICK L \in SUBSET Listable, c \in {NoContainer, AppContainer} :
              /\ todoPods' = {[key |-> <<PodOf[s], c>>, addr |-> addr[s]] : s \in L}
              /\ addr' = [s \in Sandbox |->
                            IF step[s] = "deleting" /\ s \notin L THEN None ELSE addr[s]]
        BY <1>2 DEF ListPodsAndRules
      <3>2. L = {}
        BY <2>2
      <3>3. addr' = [s \in Sandbox |-> addr[s]]
        BY <2>1, <3>1
      <3> QED
        BY <3>1, <3>2, <3>3 DEF BaseInv, RulesInv, SandboxesOK
    <2>4. UNCHANGED traceVars
      BY <1>2, <2>3 DEF ListPodsAndRules, kernelVars, PathInv, traceVars
    <2> QED
      BY <2>1, <2>4, SameClean
  <1>3. CASE Serve
    BY <1>3, SameClean DEF Serve, BootUnchanged, pluginVars, traceVars
  <1>4. ~(RecoverPod \/ UpdateDel \/ UpdateAdd \/ UpdateFails)
    BY DEF PathInv, RecoverPod, UpdateDel, UpdateAdd, UpdateFails, NoUpdate
  <1>5. ASSUME NEW n \in NIC, NextAttachedNIC(n) \/ setupNICNetwork(n)
        PROVE  (PathInv /\ KeyInv /\ TracesInv)'
    BY <1>5, SameClean
    DEF NextAttachedNIC, setupNICNetwork, SetupLink, CleanRoutes, AddRoutes, SetupUnchanged,
        BootUnchanged, pluginVars, traceVars
  <1>6. \A n \in NIC : ~SetupNicFails(n)
    BY NoFail DEF SetupNicFails, BaseInv, RulesInv
  <1> QED
    BY <1>1, <1>2, <1>3, <1>4, <1>5, <1>6 DEF DaemonNext

----------------------------------------------------------------------------
(* SetupNS *)

\* What the steps between add and del share.
LEMMA SetupClean ==
    ASSUME BaseInv, PathInv, KeyInv, TracesInv, NEW s \in Sandbox, Using(s), Using(s)',
           step' = [step EXCEPT ![s] = step'[s]],
           UNCHANGED <<daemon, update, todoPods, podsIP, addr>>,
           \A t \in Sandbox \ {s} : todo'[t] = todo[t],
           step'[s] # "deleting" \/ addr[s] # None,
           step'[s] = "addTo" => addr[s] \notin toRules',
           \A a \in Addr : a # addr[s] =>
               /\ a \in toRules' <=> a \in toRules
               /\ fromRules'[a] = fromRules[a]
               /\ hostRoute'[a] # None => hostRoute[a] # None
    PROVE  (PathInv /\ KeyInv /\ TracesInv)'
  <1>1. /\ step[s] # "none" /\ ~Tearing(s) /\ ~Tearing(s)' /\ addr[s] \in Addr
        /\ step'[s] \notin {"cleanup", "failed"}
    BY DEF BaseInv, PodNetworkInv, StateInv, Using, Tearing, SetupSteps, TeardownSteps
  <1>2. \A t \in Sandbox \ {s} :
          /\ step'[t] = step[t] /\ Using(t)' = Using(t) /\ Tearing(t)' = Tearing(t)
          /\ Using(t) \/ Tearing(t) => addr[t] # addr[s] /\ addr[t] \in Addr
    BY DEF BaseInv, PodNetworkInv, StateInv, Exclusive, Using, Tearing
  <1>3. PathInv'
    <2>1. \A t \in Sandbox \ {s} : step[t] = "addTo" => addr[t] \notin toRules'
      BY <1>2 DEF PathInv, Using, SetupSteps
    <2> QED
      BY <1>1, <1>2, <2>1 DEF PathInv
  <1>4. KeyInv'
    BY <1>1, <1>2 DEF KeyInv, Key
  <1>5. ASSUME NEW t \in Sandbox
        PROVE  /\ step'[t] \in {"tearList", "tearFrom", "tearRoute"} => addr[t] \notin toRules'
               /\ step'[t] = "tearFrom" => todo'[t] = fromRules'[addr[t]]
               /\ step'[t] = "tearRoute" => fromRules'[addr[t]] = << >>
    BY <1>1, <1>2 DEF TracesInv, Tearing, TeardownSteps
  <1>6. ASSUME NEW a \in Addr, a \in toRules' \/ fromRules'[a] # << >> \/ hostRoute'[a] # None
        PROVE  \E t \in Sandbox : (Using(t)' \/ Tearing(t)') /\ addr[t] = a
    <2>1. CASE a = addr[s]
      BY <2>1
    <2>2. CASE a # addr[s]
      <3>1. PICK t \in Sandbox : (Using(t) \/ Tearing(t)) /\ addr[t] = a
        BY <1>6, <2>2 DEF TracesInv
      <3> QED
        BY <1>2, <2>2, <3>1
    <2> QED
      BY <2>1, <2>2
  <1>7. TracesInv'
    BY <1>5, <1>6 DEF TracesInv
  <1> QED
    BY <1>3, <1>4, <1>7

\* Each call of SetupNS, and the kill of a running sandbox.
LEMMA SetupNSClean ==
    ASSUME BaseInv, PathInv, KeyInv, TracesInv, NEW s \in Sandbox, SetupNS(s) \/ KillSandbox(s)
    PROVE  (PathInv /\ KeyInv /\ TracesInv)'
  <1>1. DOMAIN step = Sandbox /\ todo \in [Sandbox -> Seq(Rule)] /\ toRules \subseteq Addr
        /\ hostRoute \in [Addr -> Sandbox \cup {None}] /\ DOMAIN fromRules = Addr
    BY DEF BaseInv, PodNetworkInv, RulesInv, StateInv, SandboxesOK, TableRulesOK
  <1>2. CASE CreateVeth(s)
    BY <1>1, <1>2, SetupClean DEF CreateVeth, Go, PluginUnchanged, daemonVars, Using, SetupSteps
  <1>3. CASE ReplaceRoute(s)
    BY <1>1, <1>3, SetupClean DEF ReplaceRoute, Go, PluginUnchanged, daemonVars, Using, SetupSteps
  <1>4. CASE DelToRule(s)
    BY <1>1, <1>4, SetupClean DEF DelToRule, Go, PluginUnchanged, daemonVars, Using, SetupSteps
  <1>5. CASE AddToRule(s)
    BY <1>1, <1>5, SetupClean DEF AddToRule, Go, PluginUnchanged, daemonVars, Using, SetupSteps
  <1>6. CASE AddFromRule(s)
    <2>1. /\ step[s] = "addFrom" /\ RuleAdd(addr[s], Head(todo[s]))
          /\ todo' = [todo EXCEPT ![s] = Tail(@)]
          /\ UNCHANGED <<toRules, hostRoute, addr, daemon, update, todoPods, podsIP>>
      BY <1>6 DEF AddFromRule, PluginUnchanged, daemonVars
    <2>2. step' = [step EXCEPT ![s] = step'[s]] /\ step'[s] \in {"addFrom", "up"}
      <3>1. \/ step' = [step EXCEPT ![s] = "up"]
            \/ step' = [step EXCEPT ![s] = step[s]]
        BY <1>6, SandboxSame DEF AddFromRule, Go, BaseInv, RulesInv
      <3> QED
        BY <1>1, <2>1, <3>1
    <2>3. Using(s) /\ Using(s)'
      BY <2>1, <2>2 DEF Using, SetupSteps
    <2>4. /\ \A a \in Addr : a # addr[s] => fromRules'[a] = fromRules[a]
          /\ \A t \in Sandbox \ {s} : todo'[t] = todo[t]
      BY <1>1, <2>1 DEF RuleAdd
    <2> QED
      BY <2>1, <2>2, <2>3, <2>4, SetupClean
  <1>7. CASE KillSandbox(s)
    <2>1. step[s] = "up" /\ addr[s] # None
      BY <1>7 DEF KillSandbox, PathInv, BaseInv, PodNetworkInv, StateInv, Using
    <2> QED
      BY <1>1, <1>7, <2>1, SetupClean
      DEF KillSandbox, Go, kernelVars, daemonVars, Using, SetupSteps
  <1> QED
    BY <1>2, <1>3, <1>4, <1>5, <1>6, <1>7 DEF SetupNS

----------------------------------------------------------------------------
(* AddNetwork and DelNetwork *)

\* A new sandbox gets an address nobody has, under a key of its own.
LEMMA AddClean ==
    ASSUME BaseInv, PathInv, KeyInv, TracesInv, "slow" \notin Faults,
           NEW s \in Sandbox, AddNetwork(s)
    PROVE  (PathInv /\ KeyInv /\ TracesInv)'
  <1>1. /\ step[s] = "none" /\ daemon = "ready" /\ step' = [step EXCEPT ![s] = "veth"]
        /\ UNCHANGED <<kernelVars, daemon, update, todoPods, todo>>
    BY DEF AddNetwork, Go
  <1>2. PICK n \in stored :
          /\ Cooled(AddrOf[n])
          /\ podsIP' = [k \in DOMAIN podsIP \cup {Key(s)} |->
                          IF k \in DOMAIN podsIP THEN podsIP[k]
                          ELSE [addr |-> AddrOf[n], num |-> number[n]]]
          /\ addr' = [addr EXCEPT ![s] = AddrOf[n]]
    BY DEF AddNetwork
  <1>3. DOMAIN step = Sandbox /\ addr \in [Sandbox -> Addr \cup {None}]
    BY DEF BaseInv, PodNetworkInv, StateInv
  <1>4. Key(s) \notin DOMAIN podsIP
    BY <1>1 DEF BaseInv, PodNetworkInv, KeysInv
  <1>5. \A t \in Sandbox \ {s} :
          /\ step'[t] = step[t] /\ addr'[t] = addr[t]
          /\ Using(t)' = Using(t) /\ Tearing(t)' = Tearing(t)
    BY <1>1, <1>2, <1>3 DEF Using, Tearing
  <1>6. step'[s] = "veth" /\ addr'[s] = AddrOf[n] /\ ~Tearing(s)' /\ ~Tearing(s) /\ ~Using(s)
    BY <1>1, <1>2, <1>3 DEF Using, Tearing, SetupSteps, TeardownSteps
  <1>7. PathInv'
    BY <1>1, <1>5, <1>6 DEF PathInv, kernelVars
  <1>8. KeyInv'
    <2>1. ASSUME NEW t \in Sandbox, Using(t)'
          PROVE  Key(t) \in DOMAIN podsIP' /\ podsIP'[Key(t)].addr = addr'[t]
      <3>1. CASE t = s
        BY <1>2, <1>4, <1>6, <3>1
      <3>2. CASE t # s
        BY <1>2, <1>5, <2>1, <3>2 DEF KeyInv
      <3> QED
        BY <3>1, <3>2
    <2>2. \A t, u \in Sandbox : t # u /\ Tearing(t)' /\ Tearing(u)' => addr'[t] # addr'[u]
      BY <1>5, <1>6 DEF KeyInv
    <2> QED
      BY <2>1, <2>2 DEF KeyInv, Key
  <1>9. TracesInv'
    BY <1>1, <1>5, <1>6 DEF TracesInv, kernelVars
  <1> QED
    BY <1>7, <1>8, <1>9

\* del finds the sandbox by its own key, and gets back the address it has.
LEMMA DelClean ==
    ASSUME BaseInv, PathInv, KeyInv, TracesInv, NEW s \in Sandbox, DelNetwork(s)
    PROVE  (PathInv /\ KeyInv /\ TracesInv)'
  <1>1. /\ step[s] = "deleting" /\ step' = [step EXCEPT ![s] = "tearTo"] /\ daemon = "ready"
        /\ UNCHANGED <<kernelVars, daemon, update, todoPods, todo>>
    BY DEF DelNetwork, Go, ReleaseUnchanged
  <1>2. DOMAIN step = Sandbox /\ addr \in [Sandbox -> Addr \cup {None}]
    BY DEF BaseInv, PodNetworkInv, StateInv
  <1>3. Using(s) /\ ~Tearing(s)
    BY <1>1 DEF Using, Tearing, PathInv, TeardownSteps
  <1>4. Key(s) \in DOMAIN podsIP /\ podsIP[Key(s)].addr = addr[s]
    BY <1>3 DEF KeyInv
  <1>5. PICK k \in DOMAIN podsIP :
          DelKey(s, k) /\ addr' = [addr EXCEPT ![s] = podsIP[k].addr] /\ Release(k)
    BY DEF DelNetwork
  <1>6. k = Key(s)
    BY <1>4, <1>5 DEF DelKey
  <1>7. addr' = addr
    BY <1>2, <1>4, <1>5, <1>6
  <1>8. podsIP' = [j \in DOMAIN podsIP \ {Key(s)} |-> podsIP[j]]
    BY <1>5, <1>6 DEF Release
  <1>9. /\ \A t \in Sandbox \ {s} :
              step'[t] = step[t] /\ Using(t)' = Using(t) /\ Tearing(t)' = Tearing(t)
        /\ step'[s] = "tearTo" /\ ~Using(s)' /\ Tearing(s)'
    BY <1>1, <1>2, <1>7 DEF Using, Tearing, SetupSteps, TeardownSteps
  <1>10. PathInv'
    BY <1>1, <1>7, <1>9 DEF PathInv, kernelVars
  <1>11. KeyInv'
    <2>1. \A t \in Sandbox \ {s} : Key(t) # Key(s)
      BY DEF Key
    <2>2. ASSUME NEW t \in Sandbox, Using(t)'
          PROVE  Key(t) \in DOMAIN podsIP' /\ podsIP'[Key(t)].addr = addr'[t]
      <3>1. t # s /\ Using(t)
        BY <1>9, <2>2
      <3>2. Key(t) \in DOMAIN podsIP \ {Key(s)} /\ podsIP[Key(t)].addr = addr[t]
        BY <2>1, <3>1 DEF KeyInv
      <3> QED
        BY <1>7, <1>8, <3>2
    <2>3. ASSUME NEW t \in Sandbox, NEW u \in Sandbox, t # u, Tearing(t)', Tearing(u)'
          PROVE  addr'[t] # addr'[u]
      <3>1. \A v \in Sandbox \ {s} : Tearing(v) => addr[v] # addr[s]
        BY <1>3 DEF BaseInv, PodNetworkInv, Exclusive
      <3> QED
        BY <1>7, <1>9, <2>3, <3>1 DEF KeyInv
    <2> QED
      BY <2>2, <2>3 DEF KeyInv, Key
  <1>12. TracesInv'
    BY <1>1, <1>3, <1>7, <1>9 DEF TracesInv, kernelVars
  <1> QED
    BY <1>10, <1>11, <1>12

----------------------------------------------------------------------------
(* TearDownNS *)

\* What the steps of a teardown but the last share.
LEMMA TeardownClean ==
    ASSUME BaseInv, PathInv, KeyInv, TracesInv, NEW s \in Sandbox, Tearing(s), Tearing(s)',
           step' = [step EXCEPT ![s] = step'[s]],
           UNCHANGED <<daemon, update, todoPods, podsIP, addr, hostRoute>>,
           \A t \in Sandbox \ {s} : todo'[t] = todo[t],
           \A a \in Addr \ {addr[s]} :
               (a \in toRules' <=> a \in toRules) /\ fromRules'[a] = fromRules[a],
           step'[s] # "tearTo", addr[s] \notin toRules',
           step'[s] = "tearFrom" => todo'[s] = fromRules'[addr[s]],
           step'[s] = "tearRoute" => fromRules'[addr[s]] = << >>
    PROVE  (PathInv /\ KeyInv /\ TracesInv)'
  <1>1. ~Using(s) /\ ~Using(s)' /\ step'[s] \in TeardownSteps
    BY DEF Using, Tearing, SetupSteps, TeardownSteps
  <1>2. \A t \in Sandbox \ {s} :
          /\ step'[t] = step[t] /\ Using(t)' = Using(t) /\ Tearing(t)' = Tearing(t)
          /\ Using(t) \/ Tearing(t) => addr[t] # addr[s] /\ addr[t] \in Addr
    BY DEF BaseInv, PodNetworkInv, StateInv, Exclusive, KeyInv, Using, Tearing
  <1>3. PathInv'
    <2>1. \A t \in Sandbox \ {s} : step[t] = "addTo" => addr[t] \notin toRules'
      BY <1>2 DEF PathInv, Using, SetupSteps
    <2>2. step[s] # "none" /\ step'[s] \notin {"none", "cleanup", "failed", "addTo", "deleting"}
      BY <1>1 DEF Tearing, TeardownSteps
    <2> QED
      BY <1>2, <2>1, <2>2 DEF PathInv
  <1>4. KeyInv'
    BY <1>1, <1>2 DEF KeyInv, Key
  <1>5. ASSUME NEW t \in Sandbox
        PROVE  /\ step'[t] \in {"tearList", "tearFrom", "tearRoute"} => addr[t] \notin toRules'
               /\ step'[t] = "tearFrom" => todo'[t] = fromRules'[addr[t]]
               /\ step'[t] = "tearRoute" => fromRules'[addr[t]] = << >>
    BY <1>1, <1>2 DEF TracesInv, Tearing, TeardownSteps
  <1>6. ASSUME NEW a \in Addr, a \in toRules' \/ fromRules'[a] # << >> \/ hostRoute'[a] # None
        PROVE  \E t \in Sandbox : (Using(t)' \/ Tearing(t)') /\ addr[t] = a
    <2>1. CASE a = addr[s]
      BY <2>1
    <2>2. CASE a # addr[s]
      <3>1. PICK t \in Sandbox : (Using(t) \/ Tearing(t)) /\ addr[t] = a
        BY <1>6, <2>2 DEF TracesInv
      <3> QED
        BY <1>2, <2>2, <3>1
    <2> QED
      BY <2>1, <2>2
  <1>7. TracesInv'
    BY <1>5, <1>6 DEF TracesInv
  <1> QED
    BY <1>3, <1>4, <1>7

\* The rules of the address are deleted from the first to the last,
LEMMA TearFromRuleClean ==
    ASSUME BaseInv, PathInv, KeyInv, TracesInv, NEW s \in Sandbox, TearFromRule(s)
    PROVE  (PathInv /\ KeyInv /\ TracesInv)'
  <1> DEFINE a == addr[s]
  <1> DEFINE q == fromRules[a]
  <1>1. /\ step[s] = "tearFrom" /\ todo' = [todo EXCEPT ![s] = Tail(todo[s])]
        /\ RuleDel(a, Head(todo[s]))
        /\ UNCHANGED <<toRules, hostRoute, addr, daemon, update, todoPods, podsIP>>
    BY DEF TearFromRule, PluginUnchanged, daemonVars
  <1>2. DOMAIN step = Sandbox /\ DOMAIN todo = Sandbox /\ DOMAIN fromRules = Addr /\ a \in Addr
    BY <1>1 DEF BaseInv, RulesInv, SandboxesOK, SandboxOK, TableRulesOK, TeardownSteps
  <1>3. todo[s] = q /\ q # << >> /\ q \in Seq(Rule) /\ IsInjective(q)
    BY <1>1, <1>2 DEF TracesInv, BaseInv, RulesInv, SandboxesOK, SandboxOK, TableRulesOK
  <1>4. Len(q) \in Nat \ {0} /\ DOMAIN q = 1 .. Len(q) /\ Head(q) = q[1]
    BY <1>3, LenProperties, EmptySeq, HeadTailProperties
  <1>5. RuleExists(a, Head(q))
    BY <1>4 DEF RuleExists, Range
  <1>6. PICK i \in DOMAIN q :
          q[i] = Head(q) /\ fromRules' = [fromRules EXCEPT ![a] = RemoveAt(q, i)]
    BY <1>1, <1>3, <1>5 DEF RuleDel
  <1>7. RemoveAt(q, i) = Tail(q)
    BY <1>3, <1>6, FirstRemoved
  <1>8. fromRules' = [fromRules EXCEPT ![a] = Tail(q)]
    BY <1>6, <1>7
  <1>9. todo'[s] = Tail(q) /\ fromRules'[a] = Tail(q)
    BY <1>1, <1>2, <1>3, <1>8
  <1>10. /\ step' = [step EXCEPT ![s] = step'[s]] /\ step'[s] \in {"tearFrom", "tearRoute"}
         /\ step'[s] = "tearRoute" => Len(q) = 1
    <2>1. \/ step' = [step EXCEPT ![s] = "tearRoute"] /\ Len(todo[s]) = 1
          \/ step' = [step EXCEPT ![s] = step[s]]
      BY SandboxSame DEF TearFromRule, Go, BaseInv, RulesInv
    <2> QED
      BY <1>1, <1>2, <1>3, <2>1
  <1>11. Len(q) = 1 => Tail(q) = << >>
    <2>1. Tail(q) \in Seq(Rule) /\ Len(Tail(q)) = Len(q) - 1
      BY <1>3, HeadTailProperties
    <2>2. Len(q) = 1 => Len(Tail(q)) = 0
      BY <2>1
    <2> HIDE DEF q
    <2>3. Len(Tail(q)) = 0 => Tail(q) = << >>
      BY <2>1, EmptySeq, Zenon
    <2> QED
      BY <2>2, <2>3
  <1>12. /\ \A t \in Sandbox \ {s} : todo'[t] = todo[t]
         /\ \A b \in Addr \ {a} : fromRules'[b] = fromRules[b]
    BY <1>1, <1>2, <1>8
  <1>13. Tearing(s) /\ Tearing(s)' /\ a \notin toRules
    BY <1>1, <1>10 DEF Tearing, TeardownSteps, TracesInv
  <1> QED
    BY <1>1, <1>9, <1>10, <1>11, <1>12, <1>13, TeardownClean

\* then the route goes, and the address has no trace left.
LEMMA TearRouteClean ==
    ASSUME BaseInv, PathInv, KeyInv, TracesInv, NoFaults', NEW s \in Sandbox, TearRoute(s)
    PROVE  (PathInv /\ KeyInv /\ TracesInv)'
  <1>1. /\ step[s] = "tearRoute" /\ step' = [step EXCEPT ![s] = "gone"]
        /\ hostRoute' = [hostRoute EXCEPT ![addr[s]] = None] /\ addr' = [addr EXCEPT ![s] = None]
        /\ UNCHANGED <<toRules, fromRules, todo, daemon, update, todoPods, podsIP>>
    BY NoFail DEF TearRoute, Go, PluginUnchanged, daemonVars, BaseInv, RulesInv
  <1>2. /\ DOMAIN step = Sandbox /\ DOMAIN addr = Sandbox /\ DOMAIN hostRoute = Addr
        /\ addr[s] \in Addr
    BY <1>1 DEF BaseInv, RulesInv, SandboxesOK, SandboxOK, HostTypeOK, TeardownSteps
  <1>3. /\ step'[s] = "gone" /\ ~Using(s)' /\ ~Tearing(s)'
        /\ \A t \in Sandbox \ {s} :
              /\ step'[t] = step[t] /\ addr'[t] = addr[t]
              /\ Using(t)' = Using(t) /\ Tearing(t)' = Tearing(t)
    BY <1>1, <1>2 DEF Using, Tearing, SetupSteps, TeardownSteps
  <1>4. PathInv'
    BY <1>1, <1>3 DEF PathInv
  <1>5. KeyInv'
    BY <1>1, <1>3 DEF KeyInv, Key
  <1>6. addr[s] \notin toRules' /\ fromRules'[addr[s]] = << >> /\ hostRoute'[addr[s]] = None
    BY <1>1, <1>2 DEF TracesInv
  <1>7. TracesInv'
    <2>1. ASSUME NEW a \in Addr, a \in toRules' \/ fromRules'[a] # << >> \/ hostRoute'[a] # None
          PROVE  \E t \in Sandbox : (Using(t)' \/ Tearing(t)') /\ addr'[t] = a
      <3>1. a # addr[s]
        BY <1>6, <2>1
      <3>2. PICK t \in Sandbox : (Using(t) \/ Tearing(t)) /\ addr[t] = a
        BY <1>1, <1>2, <2>1, <3>1 DEF TracesInv
      <3> QED
        BY <1>3, <3>1, <3>2
    <2> QED
      BY <1>1, <1>3, <2>1 DEF TracesInv
  <1> QED
    BY <1>4, <1>5, <1>7

\* Every call of TeardownNS.
LEMMA TearDownNSClean ==
    ASSUME BaseInv, PathInv, KeyInv, TracesInv, NoFaults', NEW s \in Sandbox, TearDownNS(s)
    PROVE  (PathInv /\ KeyInv /\ TracesInv)'
  <1>1. DOMAIN step = Sandbox /\ DOMAIN todo = Sandbox
    BY DEF BaseInv, RulesInv, SandboxesOK
  <1>2. CASE TearToRule(s)
    <2>1. /\ step[s] = "tearTo" /\ step' = [step EXCEPT ![s] = "tearList"]
          /\ toRules' = toRules \ {addr[s]}
          /\ UNCHANGED <<fromRules, hostRoute, addr, todo, daemon, update, todoPods, podsIP>>
      BY <1>2, NoFail DEF TearToRule, Go, PluginUnchanged, daemonVars, BaseInv, RulesInv
    <2> QED
      BY <1>1, <2>1, TeardownClean DEF Tearing, TeardownSteps
  <1>3. CASE TearList(s)
    <2>1. /\ step[s] = "tearList" /\ todo' = [todo EXCEPT ![s] = fromRules[addr[s]]]
          /\ step' = [step EXCEPT ![s] =
                        IF fromRules[addr[s]] = << >> THEN "tearRoute" ELSE "tearFrom"]
          /\ UNCHANGED <<toRules, fromRules, hostRoute, addr, daemon, update, todoPods, podsIP>>
      BY <1>3 DEF TearList, Go, PluginUnchanged, daemonVars
    <2>2. addr[s] \notin toRules
      BY <2>1 DEF TracesInv
    <2> QED
      BY <1>1, <2>1, <2>2, TeardownClean DEF Tearing, TeardownSteps
  <1> QED
    BY <1>2, <1>3, TearFromRuleClean, TearRouteClean DEF TearDownNS

----------------------------------------------------------------------------
(* The theorem *)

\* The namespace takes its interface and its routes with it.
LEMMA DestroyClean ==
    ASSUME BaseInv, PathInv, KeyInv, TracesInv, NEW s \in Sandbox, DestroyNetns(s)
    PROVE  (PathInv /\ KeyInv /\ TracesInv)'
  <1>1. /\ \A a \in Addr : hostRoute'[a] # None => hostRoute[a] # None
        /\ UNCHANGED <<toRules, fromRules, daemon, update, todoPods, podsIP, pluginVars>>
    BY DEF DestroyNetns, PluginUnchanged, daemonVars
  <1>2. PathInv'
    BY <1>1 DEF PathInv, pluginVars
  <1>3. KeyInv'
    BY <1>1 DEF KeyInv, Using, Tearing, Key, pluginVars
  <1>4. TracesInv'
    BY <1>1 DEF TracesInv, Using, Tearing, pluginVars
  <1> QED
    BY <1>2, <1>3, <1>4

\* No error path is taken where nothing fails: a "to" rule is never found where one
\* is added, and del always finds the sandbox.
LEMMA NoErrorPath ==
    ASSUME BaseInv, PathInv, KeyInv, NoFaults', NEW s \in Sandbox
    PROVE  ~(SetupNSFails(s) \/ Cleanup(s) \/ DelNetworkUnknown(s) \/ TearDownNSFails(s))
  <1>1. ~SetupNSFails(s) /\ ~TearDownNSFails(s)
    BY NoFail DEF SetupNSFails, TearDownNSFails, PathInv, BaseInv, RulesInv
  <1>2. ~Cleanup(s)
    BY DEF Cleanup, PathInv
  <1>3. ~DelNetworkUnknown(s)
    BY DEF DelNetworkUnknown, DelKey, PathInv, KeyInv, Using
  <1> QED
    BY <1>1, <1>2, <1>3

\* A failure or a crash is not undone.
LEMMA HistoryStep ==
    ASSUME [Next]_vars
    PROVE  \/ UNCHANGED crashes /\ (UNCHANGED failures \/ failures' = failures + 1)
           \/ crashes' = crashes + 1
  <1>1. CASE DaemonNext
    BY <1>1
    DEF DaemonNext, Boot, ListPodsAndRules, RecoverPod, UpdateDel, UpdateAdd, UpdateFails, Serve,
        NextAttachedNIC, setupNICNetwork, SetupLink, CleanRoutes, AddRoutes, SetupNicFails,
        NoFault, Fail, histVars
  <1>2. CASE PoolNext
    BY <1>2 DEF PoolNext, AttachNIC, DetachNIC, histVars
  <1>3. ASSUME NEW s \in Sandbox, SetupNS(s) \/ TearDownNS(s) \/ DestroyNetns(s)
        PROVE  UNCHANGED crashes /\ (UNCHANGED failures \/ failures' = failures + 1)
    BY <1>3
    DEF SetupNS, CreateVeth, ReplaceRoute, DelToRule, AddToRule, AddFromRule, TearDownNS,
        TearToRule, TearList, TearFromRule, TearRoute, DestroyNetns, PluginUnchanged, Fail
  <1>4. ASSUME NEW s \in Sandbox, \/ SetupNSFails(s) \/ TearDownNSFails(s)
                                 \/ Cleanup(s) \/ DelNetwork(s) \/ DelNetworkUnknown(s)
                                 \/ AddNetwork(s) \/ KillSandbox(s)
        PROVE  UNCHANGED crashes /\ (UNCHANGED failures \/ failures' = failures + 1)
    BY <1>4
    DEF SetupNSFails, TearDownNSFails, Cleanup, DelNetwork, DelNetworkUnknown, AddNetwork,
        KillSandbox, ReleaseUnchanged, NoFault, Fail, histVars
  <1>5. CASE Crash
    BY <1>5 DEF Crash
  <1>6. CASE UNCHANGED vars
    BY <1>6 DEF vars, histVars
  <1> QED
    BY <1>1, <1>2, <1>3, <1>4, <1>5, <1>6 DEF Next, PluginNext

\* Every step keeps the invariant.
LEMMA CleanStep ==
    ASSUME BaseInv, BaseInv', CleanInv, "slow" \notin Faults, [Next]_vars
    PROVE  CleanInv'
  <1>1. SUFFICES ASSUME NoFaults' PROVE (PathInv /\ KeyInv /\ TracesInv)'
    BY DEF CleanInv
  <1>2. NoFaults
    <2>1. crashes \in Nat /\ failures \in Nat
      BY DEF BaseInv, RulesInv, HostTypeOK
    <2>2. \/ UNCHANGED crashes /\ (UNCHANGED failures \/ failures' = failures + 1)
          \/ crashes' = crashes + 1
      BY HistoryStep
    <2> QED
      BY <1>1, <2>1, <2>2 DEF NoFaults
  <1>3. PathInv /\ KeyInv /\ TracesInv
    BY <1>2 DEF CleanInv
  <1>4. CASE DaemonNext
    BY <1>1, <1>2, <1>3, <1>4, DaemonClean
  <1>5. CASE PoolNext
    BY <1>3, <1>5, SameClean DEF PoolNext, AttachNIC, DetachNIC, pluginVars, traceVars
  <1>6. ASSUME NEW s \in Sandbox, PluginNext(s) PROVE (PathInv /\ KeyInv /\ TracesInv)'
    BY <1>1, <1>3, <1>6, SetupNSClean, DelClean, TearDownNSClean, NoErrorPath DEF PluginNext
  <1>7. ASSUME NEW s \in Sandbox, AddNetwork(s) \/ KillSandbox(s) \/ DestroyNetns(s)
        PROVE  (PathInv /\ KeyInv /\ TracesInv)'
    BY <1>3, <1>7, AddClean, SetupNSClean, DestroyClean
  <1>8. ~Crash
    BY <1>1, <1>2 DEF Crash, NoFaults
  <1>9. CASE UNCHANGED vars
    BY <1>3, <1>9, SameClean DEF vars, kernelVars, daemonVars, pluginVars, traceVars
  <1> QED
    BY <1>4, <1>5, <1>6, <1>7, <1>8, <1>9 DEF Next

\* An address with a trace has a sandbox.
LEMMA InvClean == CleanInv => NothingLeftBehind
  BY DEF CleanInv, NoFaults, TracesInv, NothingLeftBehind

\* Where nothing crashes and no call fails, an address no sandbox has is in no rule
\* and no route (NothingLeftBehind): setupNS and tearDownNS of
\* pkg/driver/driver.go, DelNetwork of the daemon's store.
THEOREM NothingLeftBehindCorrect ==
    ASSUME "slow" \notin Faults
    PROVE  Spec => []NothingLeftBehind
  <1>1. Init => BaseInv /\ CleanInv
    BY InitInv, InitRules, InitClean DEF BaseInv
  <1>2. BaseInv /\ CleanInv /\ [Next]_vars => BaseInv' /\ CleanInv'
    <2>1. BaseInv /\ [Next]_vars => BaseInv'
      BY StepInv, StepRules DEF BaseInv
    <2> QED
      BY <2>1, CleanStep
  <1> QED
    BY <1>1, <1>2, InvClean, PTL DEF Spec

----------------------------------------------------------------------------
(* Running pods are routed: the invariant *)

\* No number is used for two NICs.
Distinct == \A m, n \in NIC : m # n => DeviceNumbers(m) \cap DeviceNumbers(n) = {}

\* The tables of the NICs on the host; a rule that leads to another one is stale.
OwnTables == UNION {DeviceNumbers(n) : n \in links}

\* Of a set O of tables, a list q of rules and a set R of rules: in q no rule that
\* leads elsewhere is behind one that leads to O,
StaleFirst(O, q) == \A i, j \in DOMAIN q : i < j /\ q[i].table \in O => q[j].table \in O

\* q names every rule of R that leads elsewhere,
NamesStale(O, q, R) == \A r \in R : r.table \in O \/ r \in Range(q)

\* rules of R lead to O: some if there is one at all, all, one for every network.
NotAllStale(O, R) == R # {} => \E r \in R : r.table \in O

LeadTo(O, R) == \A r \in R : r.table \in O

Covers(O, R) == \A d \in Dst : \E r \in R : r.dst \in {d, AnyDst} /\ r.table \in O

\* The number setupNic gives a NIC at a start.
StartNumber(n) == IF Sequence[n] = 0 THEN IfIndex[n] ELSE Sequence[n]

\* Which NICs are set up, and what their tables hold.
SetUpInv ==
    /\ setting.nic \notin stored \cup todoNICs
    /\ todoNICs \cap stored = {}
    /\ daemon \in {"down", "pods"} => setting.nic = None
    /\ daemon = "down" => stored = {}
    /\ daemon = "nics" /\ setting.nic # None => number[setting.nic] = StartNumber(setting.nic)
    /\ \A n \in stored : tables[number[n]] = n
    /\ daemon = "ready" => \A t \in Table : tables[t] \in stored \cup {None}

\* A table that has a route, or gets it back before the daemon lists pods.
Live(t) ==
    \/ tables[t] # None
    \/ daemon \in {"down", "nics"} /\ \E n \in links \ stored : t = StartNumber(n)

\* A table that belonged to a NIC when rules to it were made, and has a route as
\* long as that NIC is on the host.
Sound(t) ==
    /\ \A n \in NIC : t \in DeviceNumbers(n) => n \in links \cup retired
    /\ t \in OwnTables => Live(t)

SoundTables == {t \in Table : Sound(t)}

\* So do all tables of the rules in the kernel, and in the hands of the daemon or a
\* plugin process.
UsedInv ==
    /\ \A a \in Addr :
         LeadTo(SoundTables, Range(fromRules[a])) /\ LeadTo(SoundTables, Range(listed[a]))
    /\ LeadTo(SoundTables, Range(update.add))
    /\ \A s \in Sandbox :
         table[s] \in SoundTables \cup {0} /\ LeadTo(SoundTables, Range(todo[s]))

\* UpdateRuleListBySrc runs only where prepareLocalPods does, before the daemon has
\* given an address.
RecoveryInv ==
    /\ daemon # "pods" => listed = NoRules /\ update = NoUpdate
    /\ daemon # "ready" => \A s \in Sandbox : Key(s) \notin DOMAIN podsIP

\* Stale rules come first, and where prepareLocalPods finds the rules of a pod they
\* are not all stale.
ListsInv ==
    /\ \A a \in Addr : StaleFirst(OwnTables, fromRules[a]) /\ StaleFirst(OwnTables, listed[a])
    /\ daemon = "pods" => \A a \in Addr : NamesStale(OwnTables, listed[a], Range(fromRules[a]))
    /\ \A r \in todoPods :
         /\ NotAllStale(OwnTables, Range(fromRules[r.addr]))
         /\ NotAllStale(OwnTables, Range(listed[r.addr]))

\* UpdateRuleListBySrc writes no stale rule, and in the end one for each network.
UpdateInv ==
    update # NoUpdate =>
        /\ StaleFirst(OwnTables, update.del)
        /\ NamesStale(OwnTables, update.del, Range(fromRules[update.src]))
        /\ LeadTo(OwnTables, Range(update.add))
        /\ (\E s \in Sandbox : Up(s) /\ addr[s] = update.src) =>
             \/ Covers(OwnTables, Range(update.add))
             \/ /\ update.del = << >>
                /\ Covers(OwnTables, Range(update.add) \cup Range(fromRules[update.src]))

\* A sandbox whose pod may be recovered.
Kept(s) ==
    \/ Up(s) \/ Tearing(s)
    \/ step[s] = "deleting" /\ addr[s] # None

\* An address whose rules are complete, or about to be.
Routed(a) ==
    \/ a \in broken
    \/ Covers(OwnTables, Range(fromRules[a]))
    \/ \E r \in todoPods : r.addr = a
    \/ update # NoUpdate /\ update.src = a

\* How far the rules of a sandbox are made, or taken back.
SandboxRules(s) ==
    /\ step[s] \in {"veth", "route", "delTo", "addTo"} => table[s] \in OwnTables
    /\ step[s] = "addFrom" =>
         /\ LeadTo(OwnTables, Range(todo[s]))
         /\ Covers(OwnTables, Range(todo[s]) \cup Range(fromRules[addr[s]]))
    /\ step[s] = "tearFrom" =>
         /\ StaleFirst(OwnTables, todo[s])
         /\ NamesStale(OwnTables, todo[s], Range(fromRules[addr[s]]))
    /\ Kept(s) => NotAllStale(OwnTables, Range(fromRules[addr[s]]))
    /\ Up(s) /\ daemon \in {"pods", "ready"} => Routed(addr[s])

\* An entry of the store is that of a sandbox being set up, or of an address whose
\* rules are not all stale.
InSetup(s) == step[s] \in SetupSteps \cup {"cleanup"}

EntryInv ==
    /\ \A s \in Sandbox :
         step[s] \in SetupSteps /\ Key(s) \in DOMAIN podsIP => podsIP[Key(s)].addr = addr[s]
    /\ \A k \in DOMAIN podsIP :
         \/ \E s \in Sandbox : k = Key(s) /\ InSetup(s)
         \/ NotAllStale(OwnTables, Range(fromRules[podsIP[k].addr]))

RoutesInv ==
    /\ RecoveryInv /\ ListsInv /\ UpdateInv /\ EntryInv
    /\ \A s \in Sandbox : SandboxRules(s)

\* The inductive invariant, with what is proved before.
RoutedInv == SetUpInv /\ UsedInv /\ RoutesInv

----------------------------------------------------------------------------
(* The NICs and their tables *)

\* There is nothing at the beginning.
LEMMA InitRouted == Init => RoutedInv
  <1> SUFFICES ASSUME Init PROVE RoutedInv
    OBVIOUS
  <1>1. \A a \in Addr : fromRules[a] = << >> /\ listed[a] = << >>
    BY DEF Init, NoRules
  <1>2. Range(<< >>) = {}
    BY DEF Range
  <1>3. SetUpInv
    BY PodNetworkAssumption DEF Init, SetUpInv, Idle
  <1>4. UsedInv
    BY <1>1, <1>2 DEF Init, UsedInv, LeadTo, NoUpdate
  <1>5. RecoveryInv /\ UpdateInv
    BY DEF Init, RecoveryInv, UpdateInv
  <1>6. ListsInv
    BY <1>1 DEF Init, ListsInv, StaleFirst
  <1>7. EntryInv
    BY DEF Init, EntryInv
  <1>8. \A s \in Sandbox : SandboxRules(s)
    BY DEF Init, SandboxRules, Kept, Up, Tearing, TeardownSteps
  <1> QED
    BY <1>3, <1>4, <1>5, <1>6, <1>7, <1>8 DEF RoutedInv, RoutesInv

\* The steps that concern NICs.
LEMMA NICSteps ==
    ASSUME [Next]_vars
    PROVE  \/ UNCHANGED <<nicVars, daemon>>
           \/ Boot \/ ListPodsAndRules \/ Serve \/ Crash
           \/ \E n \in NIC : \/ NextAttachedNIC(n) \/ setupNICNetwork(n) \/ SetupNicFails(n)
                             \/ AttachNIC(n) \/ DetachNIC(n)
  <1>1. ASSUME UpdateDel \/ UpdateAdd \/ UpdateFails \/ RecoverPod
        PROVE  UNCHANGED <<nicVars, daemon>>
    BY <1>1
    DEF UpdateDel, UpdateAdd, UpdateFails, RecoverPod, BootUnchanged, Fail, NoFault, histVars,
        nicVars
  <1>2. ASSUME NEW s \in Sandbox,
               PluginNext(s) \/ AddNetwork(s) \/ KillSandbox(s) \/ DestroyNetns(s)
        PROVE  UNCHANGED <<nicVars, daemon>>
    <2>1. CASE AddNetwork(s) \/ KillSandbox(s) \/ DestroyNetns(s)
      BY <2>1
      DEF AddNetwork, KillSandbox, DestroyNetns, PluginUnchanged, NoFault, histVars, kernelVars,
          daemonVars, nicVars
    <2>2. CASE SetupNS(s) \/ SetupNSFails(s)
      BY <2>2
      DEF SetupNS, CreateVeth, ReplaceRoute, DelToRule, AddToRule, AddFromRule, SetupNSFails,
          PluginUnchanged, Fail, kernelVars, daemonVars, nicVars
    <2>3. CASE TearDownNS(s) \/ TearDownNSFails(s)
      BY <2>3
      DEF TearDownNS, TearToRule, TearList, TearFromRule, TearRoute, TearDownNSFails,
          PluginUnchanged, Fail, kernelVars, daemonVars, nicVars
    <2>4. CASE Cleanup(s) \/ DelNetwork(s) \/ DelNetworkUnknown(s)
      BY <2>4
      DEF Cleanup, DelNetwork, DelNetworkUnknown, ReleaseUnchanged, NoFault, histVars, kernelVars,
          nicVars
    <2> QED
      BY <1>2, <2>1, <2>2, <2>3, <2>4 DEF PluginNext
  <1>3. ASSUME UNCHANGED vars PROVE UNCHANGED <<nicVars, daemon>>
    BY <1>3 DEF vars, kernelVars, daemonVars, histVars, nicVars
  <1> QED
    BY <1>1, <1>2, <1>3 DEF Next, DaemonNext, PoolNext

\* setupNic is at work on one NIC at a time, which then has a table of its own.
LEMMA SetUpStep ==
    ASSUME BaseInv, SetUpInv, Distinct, [Next]_vars
    PROVE  SetUpInv'
  <1>1. /\ links \subseteq NIC /\ stored \subseteq links /\ todoNICs \subseteq links
        /\ tables \in [Table -> links \cup {None}] /\ number \in [NIC -> Table \cup {0}]
        /\ \A n \in NIC : number[n] \in DeviceNumbers(n) \cup {0}
        /\ \A n \in stored : number[n] # 0
        /\ setting.at # "idle" => setting.nic # None /\ number[setting.nic] # 0
        /\ None \notin NIC
    BY PodNetworkAssumption DEF BaseInv, RulesInv, NICTypeOK, NumberInv
  <1>2. CASE UNCHANGED <<nicVars, daemon>>
    BY <1>2 DEF nicVars, SetUpInv
  <1>3. CASE Boot
    BY <1>1, <1>3 DEF Boot, BootUnchanged, SetUpInv
  <1>4. CASE ListPodsAndRules
    BY <1>1, <1>4 DEF ListPodsAndRules, kernelVars, SetUpInv, Idle
  <1>5. CASE Serve
    <2>1. links \subseteq stored
      BY <1>5 DEF Serve, BaseInv, PodNetworkInv, NICInv
    <2> QED
      BY <1>1, <1>5, <2>1 DEF Serve, BootUnchanged, SetUpInv
  <1>6. ASSUME DaemonDies PROVE SetUpInv'
    BY <1>1, <1>6 DEF DaemonDies, Idle, SetUpInv
  <1>7. ASSUME NEW n \in NIC, NextAttachedNIC(n) PROVE SetUpInv'
    <2>1. /\ n \in todoNICs /\ daemon = "nics" /\ todoNICs' = todoNICs \ {n}
          /\ number' = [number EXCEPT ![n] = StartNumber(n)]
          /\ setting' = [nic |-> n, at |-> "link"]
          /\ UNCHANGED <<daemon, stored, tables>>
      BY <1>7
      DEF NextAttachedNIC, AddNIC, Advance, BootUnchanged, DeviceNumber, StartNumber
    <2> QED
      BY <1>1, <2>1 DEF SetUpInv
  <1>8. ASSUME NEW n \in NIC, setupNICNetwork(n) PROVE SetUpInv'
    <2>1. /\ setting.nic = n /\ setting.at # "idle" /\ n # None
          /\ UNCHANGED <<daemon, todoNICs, number>>
      BY <1>1, <1>8
      DEF setupNICNetwork, SetupLink, CleanRoutes, AddRoutes, At, SetupUnchanged
    <2>2. n \notin stored \cup todoNICs /\ number[n] \in Table /\ daemon \notin {"down", "pods"}
      BY <1>1, <2>1 DEF SetUpInv
    <2>3. CASE SetupLink(n)
      BY <2>1, <2>3 DEF SetupLink, Advance, SetUpInv
    <2>4. CASE CleanRoutes(n)
      <3>1. /\ setting' = [nic |-> n, at |-> "routeAdd"] /\ UNCHANGED stored
            /\ tables' = [tables EXCEPT ![number[n]] = IF @ = n THEN None ELSE @]
        BY <2>4 DEF CleanRoutes, Advance
      <3>2. \A t \in Table : tables'[t] \in {tables[t], None} /\ (tables[t] # n => tables'[t] = tables[t])
        BY <1>1, <2>2, <3>1
      <3>3. \A m \in stored : number[m] \in Table /\ tables[number[m]] # n
        BY <1>1, <2>2 DEF SetUpInv
      <3> QED
        BY <2>1, <3>1, <3>2, <3>3 DEF SetUpInv
    <2>5. CASE AddRoutes(n)
      <3>1. /\ setting' = Idle /\ stored' = stored \cup {n}
            /\ tables' = [tables EXCEPT ![number[n]] = n]
        BY <2>5 DEF AddRoutes
      <3>2. \A m \in stored : number[m] # number[n] /\ number[m] \in Table
        BY <1>1, <2>2 DEF Distinct
      <3>3. /\ tables'[number[n]] = n
            /\ \A t \in Table : t # number[n] => tables'[t] = tables[t]
        BY <1>1, <2>2, <3>1
      <3>4. \A m \in stored' : tables'[number[m]] = m
        BY <3>1, <3>2, <3>3 DEF SetUpInv
      <3>5. daemon = "ready" => \A t \in Table : tables'[t] \in stored' \cup {None}
        BY <3>1, <3>3 DEF SetUpInv
      <3> QED
        BY <1>1, <2>1, <2>2, <3>1, <3>4, <3>5 DEF SetUpInv, Idle
    <2> QED
      BY <1>8, <2>3, <2>4, <2>5 DEF setupNICNetwork
  <1>9. ASSUME NEW n \in NIC, SetupNicFails(n) PROVE SetUpInv'
    <2>1. CASE daemon = "ready"
      BY <1>1, <1>9, <2>1 DEF SetupNicFails, kernelVars, Idle, SetUpInv
    <2> QED
      BY <1>6, <1>9, <2>1 DEF SetupNicFails
  <1>10. ASSUME NEW n \in NIC, AttachNIC(n) PROVE SetUpInv'
    <2>1. /\ n \notin links /\ daemon = "ready"
          /\ number' = [number EXCEPT ![n] = DeviceNumber(n)]
          /\ setting' = [nic |-> n, at |-> "link"]
          /\ UNCHANGED <<daemon, stored, tables, todoNICs>>
      BY <1>10 DEF AttachNIC, AddNIC, Advance
    <2> QED
      BY <1>1, <2>1 DEF SetUpInv
  <1>11. ASSUME NEW n \in NIC, DetachNIC(n) PROVE SetUpInv'
    <2>1. /\ number' = [number EXCEPT ![n] = 0] /\ stored' = stored \ {n} /\ daemon = "ready"
          /\ tables' = [t \in Table |-> IF tables[t] = n THEN None ELSE tables[t]]
          /\ setting.nic = None
          /\ UNCHANGED <<setting, todoNICs, daemon>>
      BY <1>11 DEF DetachNIC, Idle
    <2>2. \A m \in stored' : number'[m] = number[m] /\ number[m] \in Table /\ m # n
      BY <1>1, <2>1
    <2>3. \A m \in stored' : tables'[number'[m]] = m
      BY <2>1, <2>2 DEF SetUpInv
    <2>4. \A t \in Table : tables'[t] \in stored' \cup {None}
      BY <2>1 DEF SetUpInv
    <2> QED
      BY <2>1, <2>3, <2>4 DEF SetUpInv
  <1> QED
    BY <1>2, <1>3, <1>4, <1>5, <1>6, <1>7, <1>8, <1>9, <1>10, <1>11, NICSteps DEF Crash

\* A number the store names is one of a NIC on the host whose table has a route.
LEMMA StoredSound ==
    ASSUME BaseInv, SetUpInv, Distinct, NEW n \in stored
    PROVE  number[n] \in OwnTables /\ number[n] \in SoundTables
  <1>1. /\ n \in NIC /\ n \in links /\ number[n] \in DeviceNumbers(n) /\ tables[number[n]] = n
        /\ n # None
    BY PodNetworkAssumption DEF BaseInv, RulesInv, NICTypeOK, NumberInv, SetUpInv
  <1>2. \A m \in NIC : number[n] \in DeviceNumbers(m) => m = n
    BY <1>1 DEF Distinct
  <1> QED
    BY <1>1, <1>2, TablesOfType DEF OwnTables, SoundTables, Sound, Live

\* A table whose NIC comes or goes is no table that is in use, or no own one from
\* then on; a route is only deleted to be made again before the next pod is
\* recovered, or with the NIC.
LEMMA SoundStep ==
    ASSUME BaseInv, SetUpInv, Distinct, [Next]_vars
    PROVE  SoundTables \subseteq SoundTables'
  <1> SUFFICES ASSUME NEW t \in Table, Sound(t) PROVE Sound(t)'
    BY DEF SoundTables
  <1>1. /\ links \subseteq NIC /\ stored \subseteq links /\ todoNICs \subseteq links
        /\ tables \in [Table -> links \cup {None}] /\ number \in [NIC -> Table \cup {0}]
        /\ \A u \in Table : tables[u] # None => u \in DeviceNumbers(tables[u])
        /\ setting.at # "idle" => setting.nic # None /\ number[setting.nic] # 0
        /\ setting.nic \in links \cup {None}
        /\ retired \subseteq NIC \ links
        /\ daemon \in {"down", "nics", "pods", "ready"}
        /\ None \notin NIC
    BY PodNetworkAssumption DEF BaseInv, RulesInv, NICTypeOK, NumberInv, StoreTypeOK
  <1> DEFINE A == \A n \in NIC : t \in DeviceNumbers(n) => n \in links' \cup retired'
  <1> DEFINE B == t \in OwnTables' => Live(t)'
  <1> SUFFICES A /\ B
    BY DEF Sound
  <1>5. ASSUME UNCHANGED <<links, retired, tables>>,
               daemon \in {"down", "nics"} => links \ stored \subseteq links' \ stored',
               daemon \in {"down", "nics"} => daemon' \in {"down", "nics"} \/ links \subseteq stored
        PROVE  A /\ B
    BY <1>5 DEF Sound, OwnTables, Live
  <1>6. CASE UNCHANGED <<nicVars, daemon>>
    BY <1>5, <1>6 DEF nicVars
  <1>7. CASE Boot
    BY <1>5, <1>7 DEF Boot, BootUnchanged, NoFault, histVars
  <1>8. CASE ListPodsAndRules
    <2>1. links \subseteq stored
      BY <1>1, <1>8 DEF ListPodsAndRules, Idle, BaseInv, PodNetworkInv, NICInv
    <2> QED
      BY <1>5, <1>8, <2>1 DEF ListPodsAndRules, kernelVars, NoFault, histVars
  <1>9. CASE Serve
    BY <1>5, <1>9 DEF Serve, BootUnchanged, NoFault, histVars
  <1>10. CASE Crash
    BY <1>5, <1>10 DEF Crash, DaemonDies, kernelVars
  <1>11. ASSUME NEW n \in NIC, NextAttachedNIC(n) PROVE A /\ B
    BY <1>5, <1>11 DEF NextAttachedNIC, BootUnchanged, NoFault, histVars
  <1>12. ASSUME NEW n \in NIC, setupNICNetwork(n) PROVE A /\ B
    <2>1. /\ setting.nic = n /\ setting.at # "idle" /\ n \in links
          /\ UNCHANGED <<daemon, links, retired>>
      BY <1>1, <1>12
      DEF setupNICNetwork, SetupLink, CleanRoutes, AddRoutes, At, SetupUnchanged, NoFault, histVars
    <2>2. n \notin stored /\ number[n] \in Table /\ daemon \in {"nics", "ready"}
      BY <1>1, <2>1 DEF SetUpInv
    <2>3. CASE SetupLink(n)
      BY <1>5, <2>1, <2>3 DEF SetupLink
    <2>4. CASE CleanRoutes(n)
      <3>1. UNCHANGED stored /\ tables' = [tables EXCEPT ![number[n]] = IF @ = n THEN None ELSE @]
        BY <2>4 DEF CleanRoutes
      <3>2. CASE daemon = "ready"
        <4>1. tables[number[n]] # n
          BY <1>1, <2>2, <3>2 DEF SetUpInv
        <4>2. UNCHANGED tables
          BY <1>1, <3>1, <4>1
        <4> QED
          BY <1>5, <2>1, <3>1, <4>2
      <3>3. CASE daemon = "nics"
        <4>1. number[n] = StartNumber(n)
          BY <1>1, <2>1, <3>3 DEF SetUpInv
        <4>2. t = number[n] => Live(t)'
          BY <2>1, <2>2, <3>1, <3>3, <4>1 DEF Live
        <4>3. t # number[n] => tables'[t] = tables[t]
          BY <1>1, <3>1
        <4>4. t # number[n] => Live(t)' = Live(t)
          BY <2>1, <3>1, <4>3 DEF Live
        <4>5. OwnTables' = OwnTables
          BY <2>1 DEF OwnTables
        <4>6. B
          BY <4>2, <4>4, <4>5 DEF Sound
        <4> QED
          BY <2>1, <4>6 DEF Sound
      <3> QED
        BY <2>2, <3>2, <3>3
    <2>5. CASE AddRoutes(n)
      <3>1. /\ stored' = stored \cup {n} /\ tables' = [tables EXCEPT ![number[n]] = n]
        BY <2>5 DEF AddRoutes
      <3>2. tables'[number[n]] # None
        BY <1>1, <2>2, <3>1
      <3>3. t # number[n] => tables'[t] = tables[t]
        BY <1>1, <3>1
      <3>4. daemon = "nics" => number[n] = StartNumber(n)
        BY <1>1, <2>1 DEF SetUpInv
      <3>5. Live(t) => Live(t)'
        BY <2>1, <2>2, <3>1, <3>2, <3>3, <3>4 DEF Live
      <3>6. OwnTables' = OwnTables
        BY <2>1 DEF OwnTables
      <3> QED
        BY <2>1, <3>5, <3>6 DEF Sound
    <2> QED
      BY <1>12, <2>3, <2>4, <2>5 DEF setupNICNetwork
  <1>13. ASSUME NEW n \in NIC, SetupNicFails(n) PROVE A /\ B
    <2>1. UNCHANGED <<links, retired, tables>>
      BY <1>13 DEF SetupNicFails, Fail, kernelVars
    <2>2. CASE daemon = "ready"
      BY <1>5, <1>13, <2>1, <2>2 DEF SetupNicFails
    <2>3. CASE daemon # "ready"
      BY <1>5, <1>13, <2>1, <2>3 DEF SetupNicFails, DaemonDies
    <2> QED
      BY <2>2, <2>3
  <1>14. ASSUME NEW n \in NIC, AttachNIC(n) PROVE A /\ B
    <2>1. /\ n \notin links \cup retired /\ links' = links \cup {n} /\ daemon = "ready"
          /\ UNCHANGED <<daemon, stored, tables, retired>>
      BY <1>14 DEF AttachNIC, histVars
    <2>2. t \notin DeviceNumbers(n)
      BY <2>1 DEF Sound
    <2>3. t \in OwnTables' => t \in OwnTables
      BY <2>1, <2>2 DEF OwnTables
    <2> QED
      BY <2>1, <2>3 DEF Sound, Live
  <1>15. ASSUME NEW n \in NIC, DetachNIC(n) PROVE A /\ B
    <2>1. /\ links' = links \ {n} /\ retired' = retired \cup {n} /\ daemon = "ready"
          /\ tables' = [u \in Table |-> IF tables[u] = n THEN None ELSE tables[u]]
          /\ UNCHANGED daemon
      BY <1>15 DEF DetachNIC
    <2>2. A
      BY <2>1 DEF Sound
    <2>3. ASSUME t \in OwnTables' PROVE tables'[t] # None
      <3>1. PICK m \in links' : t \in DeviceNumbers(m)
        BY <2>3 DEF OwnTables
      <3>2. m \in links /\ m # n /\ m \in NIC
        BY <1>1, <2>1
      <3>3. t \in OwnTables
        BY <3>1, <3>2 DEF OwnTables
      <3>4. tables[t] # None
        BY <2>1, <3>3 DEF Sound, Live
      <3>5. tables[t] \in NIC /\ t \in DeviceNumbers(tables[t])
        BY <1>1, <3>4
      <3>6. tables[t] = m
        BY <3>1, <3>2, <3>5 DEF Distinct
      <3> QED
        BY <2>1, <3>2, <3>4, <3>6
    <2> QED
      BY <2>2, <2>3 DEF Live
  <1> QED
    BY <1>6, <1>7, <1>8, <1>9, <1>10, <1>11, <1>12, <1>13, <1>14, <1>15, NICSteps

----------------------------------------------------------------------------
(* Lists that have stale rules *)

\* A rule that is added comes last.
LEMMA Appended ==
    ASSUME NEW S, NEW q \in Seq(S), NEW r \in S
    PROVE  /\ Range(Append(q, r)) = Range(q) \cup {r}
           /\ \A O : StaleFirst(O, q) /\ r.table \in O => StaleFirst(O, Append(q, r))
  <1>1. Len(q) \in Nat /\ DOMAIN q = 1 .. Len(q)
    BY LenProperties
  <1> DEFINE p == Append(q, r)
  <1>2. /\ DOMAIN p = 1 .. Len(q) + 1
        /\ \A i \in 1 .. Len(q) : p[i] = q[i]
        /\ p[Len(q) + 1] = r
    BY AppendProperties, LenProperties
  <1>3. \A i \in 1 .. Len(q) + 1 : i \in 1 .. Len(q) \/ i = Len(q) + 1
    BY <1>1
  <1>4. 1 .. Len(q) \subseteq 1 .. Len(q) + 1 /\ Len(q) + 1 \in 1 .. Len(q) + 1
    BY <1>1
  <1> HIDE DEF p
  <1>5. Range(p) = Range(q) \cup {r}
    BY <1>1, <1>2, <1>3, <1>4 DEF Range
  <1>6. ASSUME NEW O, StaleFirst(O, q), r.table \in O PROVE StaleFirst(O, p)
    <2>1. SUFFICES ASSUME NEW i \in 1 .. Len(q) + 1, NEW j \in 1 .. Len(q) + 1,
                          i < j, p[i].table \in O
                   PROVE  p[j].table \in O
      BY <1>2 DEF StaleFirst
    <2>2. CASE j = Len(q) + 1
      BY <1>2, <1>6, <2>2
    <2>3. CASE j \in 1 .. Len(q)
      <3>1. i \in 1 .. Len(q)
        BY <1>1, <2>1, <2>3
      <3> QED
        BY <1>1, <1>2, <1>6, <2>1, <2>3, <3>1 DEF StaleFirst
    <2> QED
      BY <1>3, <2>2, <2>3
  <1> QED
    BY <1>5, <1>6 DEF p

\* The rules that are left when one is deleted stay in their order.
LEMMA Removed ==
    ASSUME NEW S, NEW q \in Seq(S), IsInjective(q), NEW i \in DOMAIN q
    PROVE  /\ Range(RemoveAt(q, i)) = Range(q) \ {q[i]}
           /\ \A O : StaleFirst(O, q) => StaleFirst(O, RemoveAt(q, i))
  <1> DEFINE p == RemoveAt(q, i)
  <1> DEFINE at(m) == IF m < i THEN m ELSE m + 1
  <1>1. Len(q) \in Nat /\ DOMAIN q = 1 .. Len(q) /\ i \in 1 .. Len(q)
    BY LenProperties
  <1>2. /\ DOMAIN p = 1 .. Len(q) - 1
        /\ \A j \in 1 .. Len(q) - 1 : p[j] = q[at(j)]
    BY RemovedAt, LenProperties
  <1> HIDE DEF p
  <1>3. \A j \in 1 .. Len(q) - 1 : at(j) \in 1 .. Len(q) /\ at(j) # i
    BY <1>1
  <1>4. \A k \in 1 .. Len(q) : k # i => \E j \in 1 .. Len(q) - 1 : at(j) = k
    <2>1. ASSUME NEW k \in 1 .. Len(q), k < i PROVE k \in 1 .. Len(q) - 1 /\ at(k) = k
      BY <1>1, <2>1
    <2>2. ASSUME NEW k \in 1 .. Len(q), k > i PROVE k - 1 \in 1 .. Len(q) - 1 /\ at(k - 1) = k
      BY <1>1, <2>2
    <2> QED
      BY <1>1, <2>1, <2>2
  <1>5. \A j, k \in 1 .. Len(q) - 1 : j < k => at(j) < at(k)
    BY <1>1
  <1> HIDE DEF at
  <1>6. \A k \in 1 .. Len(q) : k # i => q[k] # q[i]
    BY <1>1 DEF IsInjective
  <1>7. Range(p) = Range(q) \ {q[i]}
    <2>1. ASSUME NEW x \in Range(p) PROVE x \in Range(q) \ {q[i]}
      <3>1. PICK j \in 1 .. Len(q) - 1 : x = q[at(j)]
        BY <1>2, <2>1 DEF Range
      <3> QED
        BY <1>1, <1>3, <1>6, <3>1 DEF Range
    <2>2. ASSUME NEW x \in Range(q) \ {q[i]} PROVE x \in Range(p)
      <3>1. PICK k \in 1 .. Len(q) : x = q[k] /\ k # i
        BY <1>1, <2>2 DEF Range
      <3>2. PICK j \in 1 .. Len(q) - 1 : at(j) = k
        BY <1>4, <3>1
      <3> QED
        BY <1>2, <3>1, <3>2 DEF Range
    <2> QED
      BY <2>1, <2>2
  <1>8. ASSUME NEW O, StaleFirst(O, q) PROVE StaleFirst(O, p)
    BY <1>1, <1>2, <1>3, <1>5, <1>8 DEF StaleFirst
  <1> QED
    BY <1>7, <1>8 DEF p

\* What RuleDel and RuleAdd do to the rules of every address.
LEMMA Deleted ==
    ASSUME TableRulesOK, NEW a \in Addr, NEW r, RuleDel(a, r)
    PROVE  \A b \in Addr :
             /\ Range(fromRules'[b]) = IF b = a THEN Range(fromRules[b]) \ {r} ELSE Range(fromRules[b])
             /\ \A O : StaleFirst(O, fromRules[b]) => StaleFirst(O, fromRules'[b])
  <1>1. CASE ~RuleExists(a, r)
    BY <1>1 DEF RuleDel, RuleExists
  <1>2. CASE RuleExists(a, r)
    <2>1. PICK i \in DOMAIN fromRules[a] :
            fromRules[a][i] = r /\ fromRules' = [fromRules EXCEPT ![a] = RemoveAt(@, i)]
      BY <1>2 DEF RuleDel
    <2>2. fromRules[a] \in Seq(Rule) /\ IsInjective(fromRules[a])
      BY DEF TableRulesOK
    <2>3. /\ Range(RemoveAt(fromRules[a], i)) = Range(fromRules[a]) \ {r}
          /\ \A O : StaleFirst(O, fromRules[a]) => StaleFirst(O, RemoveAt(fromRules[a], i))
      BY <2>1, <2>2, Removed
    <2>4. \A b \in Addr : fromRules'[b] = IF b = a THEN RemoveAt(fromRules[a], i) ELSE fromRules[b]
      BY <2>1 DEF TableRulesOK
    <2> QED
      BY <2>3, <2>4
  <1> QED
    BY <1>1, <1>2

LEMMA Added ==
    ASSUME TableRulesOK, NEW a \in Addr, NEW r \in Rule, RuleAdd(a, r)
    PROVE  \A b \in Addr :
             /\ Range(fromRules'[b]) = IF b = a THEN Range(fromRules[b]) \cup {r} ELSE Range(fromRules[b])
             /\ \A O : StaleFirst(O, fromRules[b]) /\ r.table \in O => StaleFirst(O, fromRules'[b])
  <1>1. fromRules[a] \in Seq(Rule)
    BY DEF TableRulesOK
  <1>2. \A b \in Addr : fromRules'[b] = IF b = a /\ ~RuleExists(a, r) THEN Append(fromRules[a], r)
                                        ELSE fromRules[b]
    BY DEF TableRulesOK, RuleAdd
  <1>3. /\ Range(Append(fromRules[a], r)) = Range(fromRules[a]) \cup {r}
        /\ \A O : StaleFirst(O, fromRules[a]) /\ r.table \in O =>
                    StaleFirst(O, Append(fromRules[a], r))
    BY <1>1, Appended
  <1> QED
    BY <1>2, <1>3 DEF RuleExists

\* The first rule of a list is in it, and the others are its tail.
LEMMA HeadAndTail ==
    ASSUME NEW S, NEW q \in Seq(S), q # << >>
    PROVE  /\ Range(q) = {Head(q)} \cup Range(Tail(q))
           /\ \A O : StaleFirst(O, q) => StaleFirst(O, Tail(q))
           /\ \A O : StaleFirst(O, q) /\ Head(q).table \in O => LeadTo(O, Range(q))
           /\ Len(q) = 1 => Tail(q) = << >>
  <1>1. Len(q) \in Nat \ {0} /\ DOMAIN q = 1 .. Len(q)
    BY LenProperties, EmptySeq
  <1> DEFINE p == Tail(q)
  <1>2. /\ Head(q) = q[1] /\ DOMAIN p = 1 .. Len(q) - 1 /\ p \in Seq(S) /\ Len(p) = Len(q) - 1
        /\ \A i \in 1 .. Len(q) - 1 : p[i] = q[i + 1]
    BY <1>1, HeadTailProperties, LenProperties
  <1> HIDE DEF p
  <1>3. /\ \A i \in 1 .. Len(q) - 1 : i + 1 \in 1 .. Len(q)
        /\ \A i \in 1 .. Len(q) : i = 1 \/ (i - 1 \in 1 .. Len(q) - 1 /\ (i - 1) + 1 = i)
        /\ 1 \in 1 .. Len(q)
        /\ \A i \in 1 .. Len(q) : i = 1 \/ 1 < i
    BY <1>1
  <1>4. \A i, j \in 1 .. Len(q) - 1 : i < j => i + 1 < j + 1
    BY <1>1
  <1>5. Range(q) = {q[1]} \cup Range(p)
    <2>1. ASSUME NEW x \in Range(q) PROVE x = q[1] \/ x \in Range(p)
      <3>1. PICK i \in 1 .. Len(q) : x = q[i]
        BY <1>1, <2>1 DEF Range
      <3>2. CASE i # 1
        <4>1. i - 1 \in 1 .. Len(q) - 1 /\ (i - 1) + 1 = i
          BY <1>3, <3>2
        <4>2. p[i - 1] = x
          BY <1>2, <3>1, <4>1
        <4> QED
          BY <1>2, <4>1, <4>2 DEF Range
      <3> QED
        BY <3>1, <3>2
    <2>2. ASSUME NEW x \in Range(p) PROVE x \in Range(q)
      BY <1>1, <1>2, <1>3, <2>2 DEF Range
    <2>3. q[1] \in Range(q)
      BY <1>1, <1>3 DEF Range
    <2> QED
      BY <2>1, <2>2, <2>3
  <1>6. ASSUME NEW O, StaleFirst(O, q) PROVE StaleFirst(O, p)
    <2>1. SUFFICES ASSUME NEW i \in 1 .. Len(q) - 1, NEW j \in 1 .. Len(q) - 1,
                          i < j, p[i].table \in O
                   PROVE  p[j].table \in O
      BY <1>2 DEF StaleFirst
    <2>2. /\ i + 1 \in DOMAIN q /\ j + 1 \in DOMAIN q /\ i + 1 < j + 1
          /\ p[i] = q[i + 1] /\ p[j] = q[j + 1]
      BY <1>1, <1>2, <1>3, <1>4, <2>1
    <2> QED
      BY <1>6, <2>1, <2>2 DEF StaleFirst
  <1>7. ASSUME NEW O, StaleFirst(O, q), q[1].table \in O PROVE LeadTo(O, Range(q))
    BY <1>1, <1>3, <1>7 DEF StaleFirst, LeadTo, Range
  <1>8. Len(q) = 1 => p = << >>
    BY <1>2, EmptySeq
  <1> QED
    BY <1>2, <1>5, <1>6, <1>7, <1>8 DEF p

\* A loop that deletes what a list names, stale rules first, leaves no list of which
\* all rules are stale.
LEMMA LoopDeletes ==
    ASSUME NEW S, NEW q \in Seq(S), q # << >>, NEW O, NEW R, StaleFirst(O, q), NamesStale(O, q, R)
    PROVE  /\ StaleFirst(O, Tail(q)) /\ NamesStale(O, Tail(q), R \ {Head(q)})
           /\ NotAllStale(O, R) => NotAllStale(O, R \ {Head(q)})
  <1>1. /\ Range(q) = {Head(q)} \cup Range(Tail(q)) /\ StaleFirst(O, Tail(q))
        /\ Head(q).table \in O => LeadTo(O, Range(q))
    BY HeadAndTail
  <1>2. NamesStale(O, Tail(q), R \ {Head(q)})
    BY <1>1 DEF NamesStale
  <1>3. ASSUME NotAllStale(O, R) PROVE NotAllStale(O, R \ {Head(q)})
    <2>1. CASE Head(q).table \in O
      BY <1>1, <2>1 DEF NotAllStale, LeadTo, NamesStale
    <2>2. CASE Head(q).table \notin O
      BY <1>3, <2>2 DEF NotAllStale
    <2> QED
      BY <2>1, <2>2
  <1> QED
    BY <1>1, <1>2, <1>3

\* The last rule, whose table UpdateRuleListBySrc keeps, is not stale.
LEMMA LastOwn ==
    ASSUME NEW S, NEW q \in Seq(S), q # << >>, NEW O, StaleFirst(O, q), NotAllStale(O, Range(q))
    PROVE  q[Len(q)] \in Range(q) /\ q[Len(q)].table \in O
  <1>1. Len(q) \in Nat \ {0} /\ DOMAIN q = 1 .. Len(q)
    BY LenProperties, EmptySeq
  <1>2. Len(q) \in DOMAIN q /\ q[Len(q)] \in Range(q)
    BY <1>1 DEF Range
  <1>3. PICK i \in 1 .. Len(q) : q[i].table \in O
    BY <1>1, <1>2 DEF NotAllStale, Range
  <1>4. i = Len(q) \/ i < Len(q)
    <2>1. \A n \in Nat : \A j \in 1 .. n : j = n \/ j < n
      OBVIOUS
    <2> QED
      BY <1>1, <1>3, <2>1
  <1> QED
    BY <1>1, <1>2, <1>3, <1>4 DEF StaleFirst

\* What UpdateRuleListBySrc and addContainerRule write leads to one table, from every
\* network.
LEMMA NewRulesCover ==
    ASSUME NEW t, NEW toFlag, NEW O, t \in O
    PROVE  LeadTo(O, Range(NewRules(t, toFlag))) /\ Covers(O, Range(NewRules(t, toFlag)))
  <1> DEFINE dsts == IF toFlag THEN toCIDRs ELSE <<AnyDst>>
  <1>1. Range(NewRules(t, toFlag)) = {[dst |-> dsts[i], table |-> t] : i \in DOMAIN dsts}
    BY DEF NewRules, Range
  <1>2. \A d \in Dst : \E i \in DOMAIN dsts : dsts[i] \in {d, AnyDst}
    <2>1. CASE toFlag
      BY <2>1 DEF Dst, Range
    <2>2. CASE ~toFlag
      <3>1. 1 \in DOMAIN <<AnyDst>> /\ <<AnyDst>>[1] = AnyDst
        OBVIOUS
      <3> QED
        BY <2>2, <3>1
    <2> QED
      BY <2>1, <2>2
  <1> HIDE DEF dsts
  <1>3. \A r \in Range(NewRules(t, toFlag)) : r.table = t
    BY <1>1
  <1>4. \A d \in Dst : \E r \in Range(NewRules(t, toFlag)) : r.dst \in {d, AnyDst}
    <2>1. SUFFICES ASSUME NEW d \in Dst
                   PROVE  \E r \in Range(NewRules(t, toFlag)) : r.dst \in {d, AnyDst}
      OBVIOUS
    <2>2. PICK i \in DOMAIN dsts : dsts[i] \in {d, AnyDst}
      BY <1>2
    <2>3. [dst |-> dsts[i], table |-> t] \in Range(NewRules(t, toFlag))
      BY <1>1
    <2> QED
      BY <2>2, <2>3
  <1> QED
    BY <1>3, <1>4 DEF LeadTo, Covers

\* What is true of a list remains so where the tables it names stay, or come and go
\* with O.
LEMMA SameTables ==
    ASSUME NEW O, NEW P, NEW T, \A t \in T : t \in O <=> t \in P
    PROVE  /\ \A q : LeadTo(T, Range(q)) /\ StaleFirst(O, q) => StaleFirst(P, q)
           /\ \A R : LeadTo(T, R) =>
                /\ \A q : NamesStale(O, q, R) => NamesStale(P, q, R)
                /\ NotAllStale(O, R) => NotAllStale(P, R)
                /\ LeadTo(O, R) => LeadTo(P, R)
                /\ Covers(O, R) => Covers(P, R)
  <1>1. ASSUME NEW q, LeadTo(T, Range(q)), StaleFirst(O, q) PROVE StaleFirst(P, q)
    <2>1. \A i \in DOMAIN q : q[i].table \in T
      BY <1>1 DEF LeadTo, Range
    <2> QED
      BY <1>1, <2>1 DEF StaleFirst
  <1>2. ASSUME NEW R, LeadTo(T, R)
        PROVE  /\ \A q : NamesStale(O, q, R) => NamesStale(P, q, R)
               /\ NotAllStale(O, R) => NotAllStale(P, R)
               /\ LeadTo(O, R) => LeadTo(P, R)
               /\ Covers(O, R) => Covers(P, R)
    BY <1>2 DEF LeadTo, NamesStale, NotAllStale, Covers
  <1> QED
    BY <1>1, <1>2

\* A list without rules has no stale one, and of a list that is read all is known.
LEMMA NoStale == \A O : StaleFirst(O, << >>) /\ \A q : NamesStale(O, q, Range(q))
  BY DEF StaleFirst, NamesStale

----------------------------------------------------------------------------
(* The steps of the daemon that write no rule *)

\* The rules of a list lead to tables of its address.
LEMMA SeqTables ==
    ASSUME NEW a, NEW q \in Seq(RuleOf(a))
    PROVE  LeadTo(TablesOf(a), Range(q))
  <1>1. \A i \in DOMAIN q : q[i] \in RuleOf(a)
    BY LenProperties
  <1> QED
    BY <1>1 DEF LeadTo, Range, RuleOf

\* What rules and pods have to do with each other.
routeVars == <<links, fromRules, listed, update, todoPods, podsIP, step, addr, table, todo, broken>>

\* Steps that change none of it.
LEMMA QuietRouted ==
    ASSUME RoutesInv, UNCHANGED routeVars,
           UNCHANGED daemon \/ {daemon, daemon'} \cap {"pods", "ready"} = {}
    PROVE  RoutesInv'
  <1>1. OwnTables' = OwnTables
    BY DEF routeVars, OwnTables
  <1>2. RecoveryInv'
    BY DEF RoutesInv, RecoveryInv, routeVars
  <1>3. ListsInv'
    BY <1>1 DEF RoutesInv, ListsInv, routeVars
  <1>4. UpdateInv'
    BY <1>1 DEF RoutesInv, UpdateInv, Up, routeVars
  <1>5. EntryInv'
    BY <1>1 DEF RoutesInv, EntryInv, InSetup, routeVars
  <1>6. \A s \in Sandbox : SandboxRules(s)'
    BY <1>1 DEF RoutesInv, SandboxRules, Kept, Up, Tearing, Routed, routeVars
  <1> QED
    BY <1>2, <1>3, <1>4, <1>5, <1>6 DEF RoutesInv

\* The end of the process.
LEMMA DeathRouted ==
    ASSUME RoutesInv, DaemonDies, UNCHANGED <<kernelVars, pluginVars, broken>>
    PROVE  RoutesInv'
  <1>1. /\ daemon' = "down" /\ listed' = NoRules /\ update' = NoUpdate /\ todoPods' = {}
        /\ DOMAIN podsIP' = {}
        /\ UNCHANGED <<links, fromRules, step, addr, table, todo>>
    BY DEF DaemonDies, kernelVars, pluginVars
  <1>2. OwnTables' = OwnTables
    BY <1>1 DEF OwnTables
  <1>3. RecoveryInv'
    BY <1>1 DEF RecoveryInv
  <1>4. ListsInv'
    <2>1. \A a \in Addr : listed'[a] = << >>
      BY <1>1 DEF NoRules
    <2> QED
      BY <1>1, <1>2, <2>1, NoStale DEF RoutesInv, ListsInv
  <1>5. UpdateInv' /\ EntryInv'
    <2>1. UpdateInv'
      BY <1>1 DEF UpdateInv
    <2>2. EntryInv'
      BY <1>1 DEF EntryInv
    <2> QED
      BY <2>1, <2>2
  <1>6. \A s \in Sandbox : SandboxRules(s)'
    BY <1>1, <1>2 DEF RoutesInv, SandboxRules, Kept, Up, Tearing
  <1> QED
    BY <1>3, <1>4, <1>5, <1>6 DEF RoutesInv

\* A NIC that comes has no rules yet.
LEMMA AttachRouted ==
    ASSUME BaseInv, UsedInv, RoutesInv, NEW n \in NIC, AttachNIC(n)
    PROVE  RoutesInv'
  <1>1. /\ daemon = "ready" /\ n \notin links \cup retired /\ links' = links \cup {n}
        /\ UNCHANGED <<daemon, fromRules, listed, update, todoPods, podsIP, step, addr, table, todo,
                       broken>>
    BY DEF AttachNIC, pluginVars, histVars
  <1>2. update = NoUpdate /\ listed = NoRules /\ todoPods = {}
    BY <1>1 DEF RoutesInv, RecoveryInv, BaseInv, PodNetworkInv, PhaseInv
  <1>3. \A t \in SoundTables : t \in OwnTables <=> t \in OwnTables'
    BY <1>1 DEF SoundTables, Sound, OwnTables
  <1>4. /\ \A q : LeadTo(SoundTables, Range(q)) /\ StaleFirst(OwnTables, q) =>
                    StaleFirst(OwnTables', q)
        /\ \A R : LeadTo(SoundTables, R) =>
             /\ \A q : NamesStale(OwnTables, q, R) => NamesStale(OwnTables', q, R)
             /\ NotAllStale(OwnTables, R) => NotAllStale(OwnTables', R)
             /\ LeadTo(OwnTables, R) => LeadTo(OwnTables', R)
             /\ Covers(OwnTables, R) => Covers(OwnTables', R)
    BY <1>3, SameTables
  <1>5. OwnTables \subseteq OwnTables'
    BY <1>1 DEF OwnTables
  <1>6. RecoveryInv' /\ UpdateInv'
    BY <1>1, <1>2 DEF RoutesInv, RecoveryInv, UpdateInv
  <1>7. ListsInv'
    <2>1. \A a \in Addr : listed[a] = << >>
      BY <1>2 DEF NoRules
    <2> QED
      BY <1>1, <1>2, <1>4, <2>1, NoStale DEF UsedInv, RoutesInv, ListsInv
  <1>8. EntryInv'
    <2>1. \A k \in DOMAIN podsIP : podsIP[k].addr \in Addr
      BY DEF BaseInv, PodNetworkInv, StateInv
    <2> QED
      BY <1>1, <1>4, <2>1 DEF UsedInv, RoutesInv, EntryInv, InSetup
  <1>9. ASSUME NEW s \in Sandbox PROVE SandboxRules(s)'
    <2>1. addr[s] # None => addr[s] \in Addr
      BY DEF BaseInv, PodNetworkInv, StateInv
    <2>2. LeadTo(SoundTables, Range(todo[s]))
      BY DEF UsedInv
    <2>3. addr[s] # None => LeadTo(SoundTables, Range(fromRules[addr[s]]))
      BY <2>1 DEF UsedInv
    <2>4. addr[s] # None => LeadTo(SoundTables, Range(todo[s]) \cup Range(fromRules[addr[s]]))
      BY <2>2, <2>3 DEF LeadTo
    <2>5. step[s] \in {"addFrom", "tearFrom"} \/ Kept(s) => addr[s] # None
      BY DEF BaseInv, PodNetworkInv, StateInv, Using, Tearing, Kept, Up, SetupSteps, TeardownSteps
    <2>6. SandboxRules(s)
      BY DEF RoutesInv
    <2>7. Kept(s)' <=> Kept(s)
      BY <1>1 DEF Kept, Up, Tearing
    <2>8. Up(s)' <=> Up(s)
      BY <1>1 DEF Up
    <2>9. Up(s) => Routed(addr[s])'
      <3>1. Up(s) => addr[s] \in broken \/ Covers(OwnTables, Range(fromRules[addr[s]]))
        BY <1>1, <1>2, <2>6 DEF SandboxRules, Routed
      <3> QED
        BY <1>1, <1>4, <2>3, <2>5, <3>1 DEF Routed, Kept
    <2> QED
      BY <1>1, <1>4, <1>5, <2>2, <2>3, <2>4, <2>5, <2>6, <2>7, <2>8, <2>9 DEF SandboxRules
  <1> QED
    BY <1>6, <1>7, <1>8, <1>9 DEF RoutesInv

\* The NIC of an address in use does not go, and with a NIC all its rules become
\* stale.
LEMMA DetachRouted ==
    ASSUME BaseInv, RoutesInv, Distinct, "slow" \notin Faults, NEW n \in NIC, DetachNIC(n)
    PROVE  RoutesInv'
  <1>1. /\ daemon = "ready" /\ links' = links \ {n}
        /\ AddrOf[n] \notin Held /\ Cooled(AddrOf[n]) /\ number[n] # 0
        /\ UNCHANGED <<daemon, fromRules, listed, update, todoPods, podsIP, step, addr, table, todo,
                       broken>>
    BY DEF DetachNIC, pluginVars
  <1>2. update = NoUpdate /\ listed = NoRules /\ todoPods = {}
    BY <1>1 DEF RoutesInv, RecoveryInv, BaseInv, PodNetworkInv, PhaseInv
  <1>3. links \subseteq NIC /\ \A m, k \in links : m # k => AddrOf[m] # AddrOf[k]
    BY DEF BaseInv, PodNetworkInv, StateInv, NICInv
  <1>4. ASSUME NEW a \in Addr, a # AddrOf[n]
        PROVE  \A t \in TablesOf(a) : t \in OwnTables <=> t \in OwnTables'
    <2>1. SUFFICES ASSUME NEW t \in TablesOf(a), t \in OwnTables PROVE t \in OwnTables'
      BY <1>1 DEF OwnTables
    <2>2. PICK m \in links : t \in DeviceNumbers(m)
      BY <2>1 DEF OwnTables
    <2>3. PICK k \in NIC : AddrOf[k] = a /\ t \in DeviceNumbers(k)
      BY DEF TablesOf
    <2>4. m = k
      BY <1>3, <2>2, <2>3 DEF Distinct
    <2> QED
      BY <1>1, <1>4, <2>2, <2>3, <2>4 DEF OwnTables
  <1>5. ASSUME NEW a \in Addr, a # AddrOf[n]
        PROVE  /\ \A q : LeadTo(TablesOf(a), Range(q)) /\ StaleFirst(OwnTables, q) =>
                           StaleFirst(OwnTables', q)
               /\ \A R : LeadTo(TablesOf(a), R) =>
                    /\ \A q : NamesStale(OwnTables, q, R) => NamesStale(OwnTables', q, R)
                    /\ NotAllStale(OwnTables, R) => NotAllStale(OwnTables', R)
                    /\ LeadTo(OwnTables, R) => LeadTo(OwnTables', R)
                    /\ Covers(OwnTables, R) => Covers(OwnTables', R)
    BY <1>4, <1>5, SameTables
  <1>6. n \in links => \A t \in TablesOf(AddrOf[n]) : t \notin OwnTables'
    <2>1. SUFFICES ASSUME n \in links, NEW t \in TablesOf(AddrOf[n]), t \in OwnTables' PROVE FALSE
      OBVIOUS
    <2>2. PICK m \in links' : t \in DeviceNumbers(m)
      BY <2>1 DEF OwnTables
    <2>3. PICK k \in NIC : AddrOf[k] = AddrOf[n] /\ t \in DeviceNumbers(k)
      BY DEF TablesOf
    <2>4. m \in links /\ m # n /\ m = k
      BY <1>1, <1>3, <2>2, <2>3 DEF Distinct
    <2> QED
      BY <1>3, <2>1, <2>3, <2>4
  <1>7. \A a \in Addr : LeadTo(TablesOf(a), Range(fromRules[a]))
    BY SeqTables DEF BaseInv, RulesInv, TableRulesOK
  <1>8. RecoveryInv' /\ UpdateInv'
    BY <1>1, <1>2 DEF RoutesInv, RecoveryInv, UpdateInv
  <1>9. ListsInv'
    <2>1. \A a \in Addr : listed[a] = << >>
      BY <1>2 DEF NoRules
    <2>2. ASSUME NEW a \in Addr PROVE StaleFirst(OwnTables', fromRules[a])
      <3>1. StaleFirst(OwnTables, fromRules[a])
        BY DEF RoutesInv, ListsInv
      <3>2. CASE a # AddrOf[n]
        BY <1>5, <1>7, <3>1, <3>2
      <3>3. CASE a = AddrOf[n] /\ n \in links
        BY <1>6, <1>7, <3>3 DEF StaleFirst, LeadTo, Range
      <3>4. CASE n \notin links
        BY <1>1, <3>1, <3>4 DEF OwnTables
      <3> QED
        BY <3>2, <3>3, <3>4
    <2> QED
      BY <1>1, <1>2, <2>1, <2>2, NoStale DEF ListsInv
  <1>10. EntryInv'
    <2>1. \A k \in DOMAIN podsIP : podsIP[k].addr \in Addr /\ podsIP[k].addr # AddrOf[n]
      BY <1>1 DEF BaseInv, PodNetworkInv, StateInv, Held
    <2> QED
      BY <1>1, <1>5, <1>7, <2>1 DEF RoutesInv, EntryInv, InSetup
  <1>11. ASSUME NEW s \in Sandbox PROVE SandboxRules(s)'
    <2>1. Using(s) \/ Tearing(s) => addr[s] \in Addr /\ addr[s] # AddrOf[n]
      <3>1. Using(s) \/ Tearing(s) => addr[s] \in Addr
        BY DEF BaseInv, PodNetworkInv, StateInv
      <3>2. Using(s) => addr[s] \in Held
        BY <1>1 DEF BaseInv, PodNetworkInv, HeldInv, HoldsAddr, Held
      <3> QED
        BY <1>1, <3>1, <3>2 DEF Cooled, Tearing
    <2>2. SandboxRules(s)
      BY DEF RoutesInv
    <2>3. (Kept(s)' <=> Kept(s)) /\ (Up(s)' <=> Up(s))
      BY <1>1 DEF Kept, Up, Tearing
    <2>4. CASE ~(Using(s) \/ Tearing(s))
      BY <1>1, <2>3, <2>4
      DEF SandboxRules, Using, Tearing, Kept, Up, SetupSteps, TeardownSteps
    <2>5. CASE Using(s) \/ Tearing(s)
      <3> DEFINE R == Range(fromRules[addr[s]])
      <3>1. LeadTo(TablesOf(addr[s]), R)
        BY <1>7, <2>1, <2>5
      <3>2. step[s] \in {"addFrom", "tearFrom"} => LeadTo(TablesOf(addr[s]), Range(todo[s]))
        BY SeqTables DEF BaseInv, RulesInv, SandboxesOK, SandboxOK
      <3>3. step[s] \in {"addFrom", "tearFrom"} =>
              LeadTo(TablesOf(addr[s]), Range(todo[s]) \cup R)
        BY <3>1, <3>2 DEF LeadTo
      <3>4. /\ NotAllStale(OwnTables, R) => NotAllStale(OwnTables', R)
            /\ Covers(OwnTables, R) => Covers(OwnTables', R)
            /\ \A q : NamesStale(OwnTables, q, R) => NamesStale(OwnTables', q, R)
        BY <1>5, <2>1, <2>5, <3>1
      <3>5. step[s] \in {"addFrom", "tearFrom"} =>
              /\ LeadTo(OwnTables, Range(todo[s])) => LeadTo(OwnTables', Range(todo[s]))
              /\ StaleFirst(OwnTables, todo[s]) => StaleFirst(OwnTables', todo[s])
              /\ Covers(OwnTables, Range(todo[s]) \cup R) => Covers(OwnTables', Range(todo[s]) \cup R)
        BY <1>5, <2>1, <2>5, <3>2, <3>3
      <3>6. step[s] \in {"veth", "route", "delTo", "addTo"} => table[s] \in OwnTables'
        <4>1. step[s] \in {"veth", "route", "delTo", "addTo"} => table[s] \in TablesOf(addr[s])
          BY DEF BaseInv, RulesInv, SandboxesOK, SandboxOK
        <4> QED
          BY <1>4, <2>1, <2>2, <2>5, <4>1 DEF SandboxRules
      <3>7. Up(s) => Routed(addr[s])'
        <4>1. Up(s) => addr[s] \in broken \/ Covers(OwnTables, R)
          BY <1>1, <1>2, <2>2 DEF SandboxRules, Routed
        <4> QED
          BY <1>1, <3>4, <4>1 DEF Routed
      <3> QED
        BY <1>1, <2>2, <2>3, <3>4, <3>5, <3>6, <3>7 DEF SandboxRules
    <2> QED
      BY <2>4, <2>5
  <1> QED
    BY <1>8, <1>9, <1>10, <1>11 DEF RoutesInv

----------------------------------------------------------------------------
(* The recovery of pods *)

\* prepareLocalPods begins with all running pods and the rules as they are.
LEMMA ListRouted ==
    ASSUME BaseInv, RoutesInv, ListPodsAndRules
    PROVE  RoutesInv'
  <1>1. /\ daemon = "nics" /\ daemon' = "pods" /\ listed' = fromRules
        /\ UNCHANGED <<links, fromRules, step, table, todo, podsIP, update, broken>>
    BY DEF ListPodsAndRules, kernelVars, NoFault, histVars
  <1>2. PICK L \in SUBSET Listable, c \in {NoContainer, AppContainer} :
          /\ {s \in Listable : step[s] = "up"} \subseteq L
          /\ todoPods' = {[key |-> <<PodOf[s], c>>, addr |-> addr[s]] : s \in L}
          /\ addr' = [s \in Sandbox |->
                        IF step[s] = "deleting" /\ s \notin L THEN None ELSE addr[s]]
    BY DEF ListPodsAndRules
  <1>3. /\ update = NoUpdate /\ DOMAIN podsIP = {}
        /\ \A s \in Sandbox : step[s] \notin SetupSteps
        /\ \A s \in Sandbox : Up(s) => addr[s] # None
    BY <1>1 DEF RoutesInv, RecoveryInv, BaseInv, PodNetworkInv, PhaseInv, StateInv, Using, Up
  <1>4. OwnTables' = OwnTables
    BY <1>1 DEF OwnTables
  <1>5. RecoveryInv' /\ UpdateInv' /\ EntryInv'
    <2>1. RecoveryInv'
      BY <1>1, <1>3 DEF RecoveryInv
    <2>2. UpdateInv'
      BY <1>1, <1>3 DEF UpdateInv
    <2>3. EntryInv'
      BY <1>1, <1>3 DEF EntryInv
    <2> QED
      BY <2>1, <2>2, <2>3
  <1>6. ListsInv'
    <2>1. \A s \in L : s \in Sandbox /\ Kept(s)
      BY <1>2 DEF Listable, Kept, Up, Tearing
    <2>2. \A s \in L : NotAllStale(OwnTables, Range(fromRules[addr[s]]))
      BY <2>1 DEF RoutesInv, SandboxRules
    <2>3. \A r \in todoPods' : NotAllStale(OwnTables, Range(fromRules[r.addr]))
      BY <1>2, <2>2
    <2>4. \A a \in Addr : StaleFirst(OwnTables, fromRules[a])
      BY DEF RoutesInv, ListsInv
    <2> QED
      BY <1>1, <1>4, <2>3, <2>4, NoStale DEF ListsInv
  <1>7. ASSUME NEW s \in Sandbox PROVE SandboxRules(s)'
    <2>1. SandboxRules(s)
      BY DEF RoutesInv
    <2>2. step[s] # "deleting" => addr'[s] = addr[s]
      BY <1>2
    <2>3. Kept(s)' => Kept(s) /\ addr'[s] = addr[s]
      BY <1>1, <1>2 DEF Kept, Up, Tearing, TeardownSteps
    <2>4. Up(s)' => \E r \in todoPods' : r.addr = addr'[s]
      <3>1. Up(s) => s \in L
        BY <1>2, <1>3 DEF Up, Listable
      <3>2. s \in L => [key |-> <<PodOf[s], c>>, addr |-> addr[s]] \in todoPods'
        BY <1>2
      <3> QED
        BY <1>1, <2>2, <3>1, <3>2 DEF Up
    <2>5. Up(s)' => Routed(addr[s])'
      BY <2>4 DEF Routed
    <2> QED
      BY <1>1, <1>3, <1>4, <2>1, <2>2, <2>3, <2>5 DEF SandboxRules, SetupSteps
  <1> QED
    BY <1>5, <1>6, <1>7 DEF RoutesInv

\* AssignPodIPv4Address for a pod whose rules are not all stale, and the beginning of
\* UpdateRuleListBySrc with the table of one that is not.
LEMMA RecoverRouted ==
    ASSUME BaseInv, SetUpInv, Distinct, RoutesInv, RecoverPod
    PROVE  RoutesInv'
  <1>1. /\ daemon = "pods" /\ update = NoUpdate
        /\ UNCHANGED <<links, daemon, fromRules, listed, step, addr, table, todo, broken>>
    BY DEF RecoverPod, BootUnchanged, pluginVars, NoFault, histVars
  <1>2. PICK r \in todoPods :
          /\ todoPods' = todoPods \ {r}
          /\ IF \E n \in stored : AddrOf[n] = r.addr
               THEN \E n \in {m \in stored : AddrOf[m] = r.addr} :
                      /\ podsIP' = [k \in DOMAIN podsIP \cup {r.key} |->
                                      IF k \in DOMAIN podsIP THEN podsIP[k]
                                      ELSE [addr |-> r.addr, num |-> number[n]]]
                      /\ StartUpdate(r.addr, ~externalSNAT, number[n])
               ELSE UNCHANGED <<podsIP, update>>
    BY DEF RecoverPod
  <1>3. /\ r.addr \in Addr /\ r.addr # None
        /\ \A s \in Sandbox : r.key # Key(s) /\ Key(s) \notin DOMAIN podsIP
        /\ \A s \in Sandbox : step[s] \notin SetupSteps
    BY <1>1, PodNetworkAssumption
    DEF RoutesInv, RecoveryInv, BaseInv, PodNetworkInv, StateInv, KeysInv, PhaseInv
  <1>4. OwnTables' = OwnTables
    BY <1>1 DEF OwnTables
  <1>5. /\ NotAllStale(OwnTables, Range(fromRules[r.addr]))
        /\ NotAllStale(OwnTables, Range(listed[r.addr]))
        /\ NamesStale(OwnTables, listed[r.addr], Range(fromRules[r.addr]))
        /\ StaleFirst(OwnTables, listed[r.addr])
    BY <1>1, <1>3 DEF RoutesInv, ListsInv
  <1>6. ListsInv'
    BY <1>1, <1>2, <1>4 DEF RoutesInv, ListsInv
  <1>7. CASE ~ \E n \in stored : AddrOf[n] = r.addr
    <2>1. UNCHANGED <<podsIP, update>>
      BY <1>2, <1>7
    <2>2. RecoveryInv' /\ UpdateInv'
      BY <1>1, <2>1 DEF RoutesInv, RecoveryInv, UpdateInv
    <2>3. EntryInv'
      BY <1>1, <1>4, <2>1 DEF RoutesInv, EntryInv, InSetup
    <2>4. ASSUME NEW s \in Sandbox PROVE SandboxRules(s)'
      <3>1. SandboxRules(s) /\ (Kept(s)' <=> Kept(s)) /\ (Up(s)' <=> Up(s))
        BY <1>1 DEF RoutesInv, Kept, Up, Tearing
      <3>2. Up(s) => r.addr # addr[s]
        BY <1>1, <1>7 DEF Up, Using, BaseInv, PodNetworkInv, NICInv
      <3>3. Up(s) => Routed(addr[s])'
        BY <1>1, <1>2, <1>4, <2>1, <3>1, <3>2 DEF SandboxRules, Routed
      <3> QED
        BY <1>1, <1>4, <3>1, <3>3 DEF SandboxRules
    <2> QED
      BY <1>6, <2>2, <2>3, <2>4 DEF RoutesInv
  <1>8. ASSUME NEW n \in stored, AddrOf[n] = r.addr,
               podsIP' = [k \in DOMAIN podsIP \cup {r.key} |->
                            IF k \in DOMAIN podsIP THEN podsIP[k]
                            ELSE [addr |-> r.addr, num |-> number[n]]],
               StartUpdate(r.addr, ~externalSNAT, number[n])
        PROVE  RoutesInv'
    <2>1. RecoveryInv'
      BY <1>1, <1>3, <1>8 DEF RecoveryInv, Key
    <2>2. EntryInv'
      <3>1. \A k \in DOMAIN podsIP :
              \/ \E s \in Sandbox : k = Key(s) /\ InSetup(s)
              \/ NotAllStale(OwnTables, Range(fromRules[podsIP[k].addr]))
        BY DEF RoutesInv, EntryInv
      <3>2. ASSUME NEW k \in DOMAIN podsIP'
            PROVE  NotAllStale(OwnTables, Range(fromRules[podsIP'[k].addr]))
        <4>1. CASE k \in DOMAIN podsIP
          <5>1. podsIP'[k] = podsIP[k]
            BY <1>8, <4>1
          <5> QED
            BY <1>3, <3>1, <4>1, <5>1
        <4>2. CASE k \notin DOMAIN podsIP
          <5>1. podsIP'[k].addr = r.addr
            BY <1>8, <3>2, <4>2
          <5> QED
            BY <1>5, <5>1
        <4> QED
          BY <4>1, <4>2
      <3> QED
        BY <1>1, <1>3, <1>4, <3>2 DEF EntryInv
    <2>3. \E t \in OwnTables, f, b \in BOOLEAN :
            update' = [src |-> r.addr, del |-> listed[r.addr], add |-> NewRules(t, f), rebuild |-> b]
      <3> DEFINE old == listed[r.addr]
      <3>1. CASE old = << >>
        <4>1. update' = [src |-> r.addr, del |-> old, add |-> NewRules(number[n], TRUE),
                         rebuild |-> TRUE]
          BY <1>8, <3>1 DEF StartUpdate
        <4>2. number[n] \in OwnTables
          BY StoredSound
        <4> QED
          BY <4>1, <4>2
      <3>2. CASE old # << >>
        <4>1. update' = [src |-> r.addr, del |-> old,
                         add |-> NewRules(old[Len(old)].table, ~externalSNAT), rebuild |-> FALSE]
          BY <1>8, <3>2 DEF StartUpdate
        <4>2. old \in Seq(Rule)
          BY <1>3 DEF BaseInv, RulesInv, TableRulesOK
        <4>3. old[Len(old)].table \in OwnTables
          BY <1>5, <3>2, <4>2, LastOwn
        <4> QED
          BY <4>1, <4>3
      <3> QED
        BY <3>1, <3>2
    <2>4. /\ update'.src = r.addr /\ update'.del = listed[r.addr]
          /\ \E t \in OwnTables, f \in BOOLEAN : update'.add = NewRules(t, f)
      BY <2>3
    <2>5. LeadTo(OwnTables, Range(update'.add)) /\ Covers(OwnTables, Range(update'.add))
      BY <2>4, NewRulesCover
    <2>6. update' # NoUpdate
      BY <1>3, <2>4 DEF NoUpdate
    <2>7. UpdateInv'
      BY <1>1, <1>4, <1>5, <2>4, <2>5 DEF UpdateInv
    <2>8. ASSUME NEW s \in Sandbox PROVE SandboxRules(s)'
      <3>1. SandboxRules(s) /\ (Kept(s)' <=> Kept(s)) /\ (Up(s)' <=> Up(s))
        BY <1>1 DEF RoutesInv, Kept, Up, Tearing
      <3>2. Up(s) => Routed(addr[s])'
        BY <1>1, <1>2, <1>4, <2>4, <2>6, <3>1 DEF SandboxRules, Routed
      <3> QED
        BY <1>1, <1>4, <3>1, <3>2 DEF SandboxRules
    <2> QED
      BY <1>6, <2>1, <2>2, <2>7, <2>8 DEF RoutesInv
  <1> QED
    BY <1>2, <1>7, <1>8

\* prepareLocalPods ends when all pods are recovered.
LEMMA ServeRouted ==
    ASSUME BaseInv, RoutesInv, Serve
    PROVE  RoutesInv'
  <1>1. /\ daemon = "pods" /\ daemon' = "ready" /\ listed' = NoRules
        /\ update = NoUpdate /\ todoPods = {}
        /\ UNCHANGED <<links, fromRules, step, addr, table, todo, podsIP, update, todoPods, broken>>
    BY DEF Serve, BootUnchanged, pluginVars, NoFault, histVars
  <1>2. OwnTables' = OwnTables
    BY <1>1 DEF OwnTables
  <1>3. RecoveryInv' /\ UpdateInv'
    BY <1>1 DEF RecoveryInv, UpdateInv
  <1>4. ListsInv'
    <2>1. \A a \in Addr : listed'[a] = << >>
      BY <1>1 DEF NoRules
    <2> QED
      BY <1>1, <1>2, <2>1, NoStale DEF RoutesInv, ListsInv
  <1>5. EntryInv'
    BY <1>1, <1>2 DEF RoutesInv, EntryInv, InSetup
  <1>6. \A s \in Sandbox : SandboxRules(s)'
    BY <1>1, <1>2 DEF RoutesInv, SandboxRules, Kept, Up, Tearing, Routed
  <1> QED
    BY <1>3, <1>4, <1>5, <1>6 DEF RoutesInv

----------------------------------------------------------------------------
(* UpdateRuleListBySrc *)

\* Its first loop.
LEMMA UpdateDelRouted ==
    ASSUME BaseInv, RoutesInv, UpdateDel
    PROVE  RoutesInv'
  <1> DEFINE a == update.src
  <1> DEFINE r == Head(update.del)
  <1> DEFINE R(b) == Range(fromRules[b])
  <1>1. /\ update.del # << >> /\ RuleDel(a, r) /\ update' = [update EXCEPT !.del = Tail(@)]
        /\ UNCHANGED <<links, daemon, listed, todoPods, podsIP, step, addr, table, todo, broken>>
    BY DEF UpdateDel, BootUnchanged, pluginVars, NoFault, histVars
  <1>2. update # NoUpdate /\ daemon = "pods"
    BY <1>1 DEF NoUpdate, RoutesInv, RecoveryInv
  <1>3. /\ a \in Addr /\ update.del \in Seq(RuleOf(a)) /\ TableRulesOK
        /\ update \in [src : Addr \cup {None}, del : Seq(Rule), add : Seq(Rule), rebuild : BOOLEAN]
    BY <1>2 DEF BaseInv, RulesInv, UpdateOK
  <1>4. /\ update'.src = a /\ update'.del = Tail(update.del) /\ update'.add = update.add
        /\ update' # NoUpdate
    BY <1>1, <1>3, PodNetworkAssumption DEF NoUpdate
  <1>5. OwnTables' = OwnTables
    BY <1>1 DEF OwnTables
  <1>6. \A b \in Addr :
          /\ Range(fromRules'[b]) = IF b = a THEN R(b) \ {r} ELSE R(b)
          /\ StaleFirst(OwnTables, fromRules[b]) => StaleFirst(OwnTables, fromRules'[b])
    BY <1>1, <1>3, Deleted
  <1>7. /\ StaleFirst(OwnTables, Tail(update.del))
        /\ NamesStale(OwnTables, Tail(update.del), R(a) \ {r})
        /\ NotAllStale(OwnTables, R(a)) => NotAllStale(OwnTables, R(a) \ {r})
    BY <1>1, <1>2, <1>3, LoopDeletes DEF RoutesInv, UpdateInv
  <1>8. \A b \in Addr :
          /\ NotAllStale(OwnTables, R(b)) => NotAllStale(OwnTables, Range(fromRules'[b]))
          /\ \A q : NamesStale(OwnTables, q, R(b)) => NamesStale(OwnTables, q, Range(fromRules'[b]))
          /\ b # a => Range(fromRules'[b]) = R(b)
    BY <1>6, <1>7 DEF NamesStale
  <1>9. RecoveryInv'
    BY <1>1, <1>2 DEF RoutesInv, RecoveryInv
  <1>10. ListsInv'
    <2>1. \A p \in todoPods : p.addr \in Addr
      BY DEF BaseInv, PodNetworkInv, StateInv
    <2> QED
      BY <1>1, <1>5, <1>6, <1>8, <2>1 DEF RoutesInv, ListsInv
  <1>11. UpdateInv'
    <2>1. /\ LeadTo(OwnTables, Range(update.add))
          /\ (\E s \in Sandbox : Up(s) /\ addr[s] = a) => Covers(OwnTables, Range(update.add))
      BY <1>1, <1>2 DEF RoutesInv, UpdateInv
    <2>2. Range(fromRules'[a]) = R(a) \ {r}
      BY <1>3, <1>6
    <2> QED
      BY <1>1, <1>4, <1>5, <1>7, <2>1, <2>2 DEF UpdateInv, Up
  <1>12. EntryInv'
    <2>1. \A k \in DOMAIN podsIP : podsIP[k].addr \in Addr
      BY DEF BaseInv, PodNetworkInv, StateInv
    <2> QED
      BY <1>1, <1>5, <1>8, <2>1 DEF RoutesInv, EntryInv, InSetup
  <1>13. ASSUME NEW s \in Sandbox PROVE SandboxRules(s)'
    <2>1. SandboxRules(s) /\ (Kept(s)' <=> Kept(s)) /\ (Up(s)' <=> Up(s))
      BY <1>1 DEF RoutesInv, Kept, Up, Tearing
    <2>2. step[s] \notin SetupSteps
      BY <1>2 DEF BaseInv, PodNetworkInv, PhaseInv
    <2>3. Kept(s) \/ step[s] = "tearFrom" => addr[s] \in Addr
      BY DEF BaseInv, PodNetworkInv, StateInv, Kept, Up, Tearing, Using, TeardownSteps
    <2>4. Up(s) => Routed(addr[s])'
      <3>1. Up(s) /\ addr[s] # a => Routed(addr[s]) /\ Range(fromRules'[addr[s]]) = R(addr[s])
        BY <1>2, <1>8, <2>1, <2>3 DEF SandboxRules, Kept
      <3> QED
        BY <1>1, <1>4, <1>5, <3>1 DEF Routed
    <2> QED
      BY <1>1, <1>5, <1>8, <2>1, <2>2, <2>3, <2>4 DEF SandboxRules, SetupSteps
  <1> QED
    BY <1>9, <1>10, <1>11, <1>12, <1>13 DEF RoutesInv

\* Its second loop.
LEMMA UpdateAddRouted ==
    ASSUME BaseInv, RoutesInv, UpdateAdd
    PROVE  RoutesInv'
  <1> DEFINE a == update.src
  <1> DEFINE r == Head(update.add)
  <1> DEFINE R(b) == Range(fromRules[b])
  <1>1. /\ update # NoUpdate /\ update.del = << >> /\ RuleAdd(a, r)
        /\ \/ update' = NoUpdate /\ broken' = broken \cup {a}
           \/ update' = NoUpdate /\ broken' = broken \ {a} /\ Len(update.add) = 1
           \/ update' = [update EXCEPT !.add = Tail(@)] /\ UNCHANGED broken
        /\ UNCHANGED <<links, daemon, listed, todoPods, podsIP, step, addr, table, todo>>
    BY DEF UpdateAdd, BootUnchanged, pluginVars
  <1>2. daemon = "pods"
    BY <1>1 DEF RoutesInv, RecoveryInv
  <1>3. /\ a \in Addr /\ update.add \in Seq(RuleOf(a)) /\ update.add # << >> /\ TableRulesOK
        /\ update \in [src : Addr \cup {None}, del : Seq(Rule), add : Seq(Rule), rebuild : BOOLEAN]
    BY <1>1 DEF BaseInv, RulesInv, UpdateOK
  <1>4. /\ r \in Rule /\ Range(update.add) = {r} \cup Range(Tail(update.add))
        /\ Len(update.add) = 1 => Tail(update.add) = << >>
    BY <1>3, HeadAndTail, TailRules
  <1>5. OwnTables' = OwnTables
    BY <1>1 DEF OwnTables
  <1>6. r.table \in OwnTables /\ LeadTo(OwnTables, Range(Tail(update.add)))
    BY <1>1, <1>4 DEF RoutesInv, UpdateInv, LeadTo
  <1>7. \A b \in Addr :
          /\ Range(fromRules'[b]) = IF b = a THEN R(b) \cup {r} ELSE R(b)
          /\ StaleFirst(OwnTables, fromRules[b]) => StaleFirst(OwnTables, fromRules'[b])
    BY <1>1, <1>3, <1>4, <1>6, Added
  <1>8. \A b \in Addr :
          /\ NotAllStale(OwnTables, R(b)) => NotAllStale(OwnTables, Range(fromRules'[b]))
          /\ \A q : NamesStale(OwnTables, q, R(b)) => NamesStale(OwnTables, q, Range(fromRules'[b]))
          /\ Covers(OwnTables, R(b)) => Covers(OwnTables, Range(fromRules'[b]))
    BY <1>6, <1>7 DEF NotAllStale, NamesStale, Covers
  <1>9. update' # NoUpdate => update'.src = a /\ update'.del = << >> /\ update'.add = Tail(update.add)
    BY <1>1, <1>3
  <1>10. (\E s \in Sandbox : Up(s) /\ addr[s] = a) =>
           Covers(OwnTables, Range(Tail(update.add)) \cup Range(fromRules'[a]))
    <2>1. /\ Range(update.add) \subseteq Range(Tail(update.add)) \cup Range(fromRules'[a])
          /\ R(a) \subseteq Range(fromRules'[a])
      BY <1>3, <1>4, <1>7
    <2>2. (\E s \in Sandbox : Up(s) /\ addr[s] = a) =>
            Covers(OwnTables, Range(update.add)) \/ Covers(OwnTables, Range(update.add) \cup R(a))
      BY <1>1 DEF RoutesInv, UpdateInv
    <2> QED
      BY <2>1, <2>2 DEF Covers
  <1>11. RecoveryInv'
    BY <1>1, <1>2 DEF RoutesInv, RecoveryInv
  <1>12. ListsInv'
    <2>1. \A p \in todoPods : p.addr \in Addr
      BY DEF BaseInv, PodNetworkInv, StateInv
    <2> QED
      BY <1>1, <1>5, <1>7, <1>8, <2>1 DEF RoutesInv, ListsInv
  <1>13. UpdateInv'
    <2>1. NamesStale(OwnTables, << >>, Range(fromRules'[a])) /\ StaleFirst(OwnTables, << >>)
      BY <1>1, <1>3, <1>8, NoStale DEF RoutesInv, UpdateInv
    <2> QED
      BY <1>1, <1>5, <1>6, <1>9, <1>10, <2>1 DEF UpdateInv, Up
  <1>14. EntryInv'
    <2>1. \A k \in DOMAIN podsIP : podsIP[k].addr \in Addr
      BY DEF BaseInv, PodNetworkInv, StateInv
    <2> QED
      BY <1>1, <1>5, <1>8, <2>1 DEF RoutesInv, EntryInv, InSetup
  <1>15. ASSUME NEW s \in Sandbox PROVE SandboxRules(s)'
    <2>1. SandboxRules(s) /\ (Kept(s)' <=> Kept(s)) /\ (Up(s)' <=> Up(s))
      BY <1>1 DEF RoutesInv, Kept, Up, Tearing
    <2>2. step[s] \notin SetupSteps
      BY <1>2 DEF BaseInv, PodNetworkInv, PhaseInv
    <2>3. Kept(s) \/ step[s] = "tearFrom" => addr[s] \in Addr
      BY DEF BaseInv, PodNetworkInv, StateInv, Kept, Up, Tearing, Using, TeardownSteps
    <2>4. ASSUME Up(s), addr[s] # a PROVE Routed(addr[s])'
      <3>1. Routed(addr[s]) /\ addr[s] \in Addr
        BY <1>2, <2>1, <2>3, <2>4 DEF SandboxRules, Kept
      <3> QED
        BY <1>1, <1>5, <1>8, <2>4, <3>1 DEF Routed
    <2>5. ASSUME Up(s), addr[s] = a PROVE Routed(addr[s])'
      <3>1. CASE update' = NoUpdate /\ broken' = broken \cup {a}
        BY <1>1, <2>5, <3>1 DEF Routed
      <3>2. CASE Len(update.add) = 1
        <4>1. Range(Tail(update.add)) = {}
          BY <1>4, <3>2 DEF Range
        <4>2. Covers(OwnTables, Range(fromRules'[a]))
          BY <1>10, <2>5, <4>1
        <4> QED
          BY <1>1, <1>5, <2>5, <4>2 DEF Routed
      <3>3. CASE update' = [update EXCEPT !.add = Tail(@)]
        <4>1. update'.src = a /\ update' # NoUpdate
          BY <1>3, <3>3, PodNetworkAssumption DEF NoUpdate
        <4> QED
          BY <1>1, <2>5, <4>1 DEF Routed
      <3> QED
        BY <1>1, <3>1, <3>2, <3>3
    <2> QED
      BY <1>1, <1>5, <1>8, <2>1, <2>2, <2>3, <2>4, <2>5 DEF SandboxRules, SetupSteps
  <1> QED
    BY <1>11, <1>12, <1>13, <1>14, <1>15 DEF RoutesInv

\* The end of a call that failed.
LEMMA UpdateFailsRouted ==
    ASSUME BaseInv, RoutesInv, UpdateFails
    PROVE  RoutesInv'
  <1>1. /\ update # NoUpdate /\ update' = NoUpdate /\ broken' = broken \cup {update.src}
        /\ UNCHANGED <<links, daemon, fromRules, listed, todoPods, podsIP, step, addr, table, todo>>
    BY DEF UpdateFails, BootUnchanged, pluginVars
  <1>2. OwnTables' = OwnTables
    BY <1>1 DEF OwnTables
  <1>3. RecoveryInv' /\ UpdateInv'
    BY <1>1 DEF RoutesInv, RecoveryInv, UpdateInv
  <1>4. ListsInv' /\ EntryInv'
    BY <1>1, <1>2 DEF RoutesInv, ListsInv, EntryInv, InSetup
  <1>5. ASSUME NEW s \in Sandbox PROVE SandboxRules(s)'
    <2>1. SandboxRules(s) /\ (Kept(s)' <=> Kept(s)) /\ (Up(s)' <=> Up(s))
      BY <1>1 DEF RoutesInv, Kept, Up, Tearing
    <2>2. Routed(addr[s]) => Routed(addr[s])'
      BY <1>1, <1>2 DEF Routed
    <2> QED
      BY <1>1, <1>2, <2>1, <2>2 DEF SandboxRules
  <1> QED
    BY <1>3, <1>4, <1>5 DEF RoutesInv

----------------------------------------------------------------------------
(* The steps of the plugin that write no rule *)

\* A step of a sandbox concerns only that sandbox,
LEMMA SandboxRouted ==
    ASSUME RoutesInv, NEW s \in Sandbox,
           UNCHANGED <<links, daemon, fromRules, listed, update, todoPods, broken>>,
           \A t \in Sandbox \ {s} :
             step'[t] = step[t] /\ addr'[t] = addr[t] /\ table'[t] = table[t] /\ todo'[t] = todo[t],
           Up(s)' => Up(s) /\ addr'[s] = addr[s],
           RecoveryInv', EntryInv', SandboxRules(s)'
    PROVE  RoutesInv'
  <1>1. OwnTables' = OwnTables
    BY DEF OwnTables
  <1>2. ListsInv'
    BY <1>1 DEF RoutesInv, ListsInv
  <1>3. UpdateInv'
    <2>1. \A t \in Sandbox : Up(t)' => Up(t) /\ addr'[t] = addr[t]
      BY DEF Up
    <2> QED
      BY <1>1, <2>1 DEF RoutesInv, UpdateInv
  <1>4. ASSUME NEW t \in Sandbox \ {s} PROVE SandboxRules(t)'
    <2>1. SandboxRules(t) /\ (Kept(t)' <=> Kept(t)) /\ (Up(t)' <=> Up(t))
      BY DEF RoutesInv, Kept, Up, Tearing
    <2>2. Routed(addr[t]) => Routed(addr[t])'
      BY <1>1 DEF Routed
    <2> QED
      BY <1>1, <2>1, <2>2 DEF SandboxRules
  <1> QED
    BY <1>2, <1>3, <1>4 DEF RoutesInv

\* and the store only where it assigns an address or releases one.
LEMMA EntryKept ==
    ASSUME RoutesInv, NEW s \in Sandbox, UNCHANGED <<links, daemon, fromRules, podsIP, listed, update>>,
           \A t \in Sandbox \ {s} : step'[t] = step[t] /\ addr'[t] = addr[t],
           InSetup(s) => InSetup(s)' \/ Key(s) \notin DOMAIN podsIP,
           step'[s] \in SetupSteps => step[s] \in SetupSteps /\ addr'[s] = addr[s]
    PROVE  RecoveryInv' /\ EntryInv'
  <1>1. OwnTables' = OwnTables
    BY DEF OwnTables
  <1>2. RecoveryInv'
    BY DEF RoutesInv, RecoveryInv
  <1>3. \A t \in Sandbox \ {s} : InSetup(t)' <=> InSetup(t)
    BY DEF InSetup
  <1>4. \A k \in DOMAIN podsIP :
          (\E t \in Sandbox : k = Key(t) /\ InSetup(t)) => \E t \in Sandbox : k = Key(t) /\ InSetup(t)'
    BY <1>3
  <1>5. EntryInv'
    BY <1>1, <1>4 DEF RoutesInv, EntryInv
  <1> QED
    BY <1>2, <1>5

\* The steps of a sandbox that keep the daemon's entry and the kernel's rules.
LEMMA PluginRouted ==
    ASSUME BaseInv, RoutesInv, NEW s \in Sandbox,
           \/ CreateVeth(s) \/ ReplaceRoute(s) \/ DelToRule(s) \/ AddToRule(s) \/ SetupNSFails(s)
           \/ KillSandbox(s) \/ DelNetworkUnknown(s) \/ TearToRule(s) \/ TearList(s)
           \/ TearDownNSFails(s) \/ TearRoute(s)
    PROVE  RoutesInv'
  <1> DEFINE a == addr[s]
  <1> DEFINE Same ==
        /\ UNCHANGED <<links, daemon, fromRules, podsIP, listed, update, todoPods, broken>>
        /\ \A t \in Sandbox \ {s} :
             step'[t] = step[t] /\ addr'[t] = addr[t] /\ table'[t] = table[t] /\ todo'[t] = todo[t]
  <1>1. SandboxesOK
    BY DEF BaseInv, RulesInv
  <1>2. ASSUME Same, ~Up(s)', ~InSetup(s) \/ InSetup(s)',
               step'[s] \in SetupSteps => step[s] \in SetupSteps /\ addr'[s] = addr[s],
               SandboxRules(s)'
        PROVE  RoutesInv'
    <2>1. RecoveryInv' /\ EntryInv'
      BY <1>2, EntryKept
    <2> QED
      BY <1>2, <2>1, SandboxRouted
  <1>3. OwnTables' = OwnTables /\ SandboxRules(s)
    <2>1. UNCHANGED links
      BY DEF CreateVeth, ReplaceRoute, DelToRule, AddToRule, SetupNSFails, KillSandbox,
          DelNetworkUnknown, TearToRule, TearList, TearDownNSFails, TearRoute, PluginUnchanged,
          ReleaseUnchanged, kernelVars
    <2> QED
      BY <2>1 DEF OwnTables, RoutesInv
  <1>4. CASE CreateVeth(s) \/ ReplaceRoute(s) \/ DelToRule(s)
    <2>1. /\ step[s] \in {"veth", "route", "delTo"} /\ step'[s] \in {"route", "delTo", "addTo"}
          /\ UNCHANGED <<addr, table, todo>> /\ Same
      BY <1>1, <1>4
      DEF CreateVeth, ReplaceRoute, DelToRule, PluginUnchanged, daemonVars, Go, SandboxesOK
    <2>2. SandboxRules(s)'
      BY <1>3, <2>1 DEF SandboxRules, Kept, Up, Tearing, TeardownSteps
    <2> QED
      BY <1>2, <2>1, <2>2 DEF Up, InSetup, SetupSteps
  <1>5. CASE AddToRule(s)
    <2>1. /\ step[s] = "addTo" /\ step'[s] = "addFrom" /\ todo'[s] = NewRules(table[s], TRUE)
          /\ UNCHANGED addr /\ Same
      BY <1>1, <1>5 DEF AddToRule, PluginUnchanged, daemonVars, Go, SandboxesOK
    <2>2. LeadTo(OwnTables, Range(todo'[s])) /\ Covers(OwnTables, Range(todo'[s]))
      BY <1>3, <2>1, NewRulesCover DEF SandboxRules
    <2>3. Covers(OwnTables, Range(todo'[s]) \cup Range(fromRules[a]))
      BY <2>2 DEF Covers
    <2>4. SandboxRules(s)'
      BY <1>3, <2>1, <2>2, <2>3 DEF SandboxRules, Kept, Up, Tearing, TeardownSteps
    <2> QED
      BY <1>2, <2>1, <2>4 DEF Up, InSetup, SetupSteps
  <1>6. CASE SetupNSFails(s)
    <2>1. /\ step[s] \in SetupSteps /\ step'[s] = "cleanup" /\ UNCHANGED addr /\ Same
      BY <1>1, <1>6
      DEF SetupNSFails, Fail, kernelVars, daemonVars, Go, SandboxesOK
    <2>2. SandboxRules(s)'
      BY <2>1 DEF SandboxRules, Kept, Up, Tearing, TeardownSteps
    <2> QED
      BY <1>2, <2>1, <2>2 DEF Up, InSetup, SetupSteps
  <1>7. CASE KillSandbox(s)
    <2>1. /\ step[s] \in {"up", "failed"} /\ step'[s] = "deleting" /\ UNCHANGED addr /\ Same
      BY <1>1, <1>7
      DEF KillSandbox, NoFault, histVars, kernelVars, daemonVars, Go, SandboxesOK
    <2>2. Kept(s)' => Kept(s)
      BY <2>1 DEF Kept, Up, Tearing, TeardownSteps, BaseInv, PodNetworkInv, StateInv
    <2>3. SandboxRules(s)'
      BY <1>3, <2>1, <2>2 DEF SandboxRules, Up
    <2> QED
      BY <1>2, <2>1, <2>3 DEF Up, InSetup, SetupSteps
  <1>8. CASE DelNetworkUnknown(s) \/ TearRoute(s) \/ TearDownNSFails(s)
    <2>1. /\ step[s] \in {"deleting"} \cup TeardownSteps /\ step'[s] \in {"gone", "deleting"}
          /\ addr'[s] = None /\ Same
      BY <1>1, <1>8
      DEF DelNetworkUnknown, ReleaseUnchanged, TearRoute, TearDownNSFails, PluginUnchanged, NoFault,
          histVars, kernelVars, daemonVars, Go, SandboxesOK, TeardownSteps
    <2>2. SandboxRules(s)'
      BY <2>1 DEF SandboxRules, Kept, Up, Tearing, TeardownSteps
    <2> QED
      BY <1>2, <2>1, <2>2 DEF Up, InSetup, SetupSteps, TeardownSteps
  <1>9. CASE TearToRule(s) \/ TearList(s)
    <2>1. /\ step[s] \in {"tearTo", "tearList"} /\ a \in Addr
          /\ step'[s] \in {"tearList", "tearFrom", "tearRoute"}
          /\ step'[s] = "tearFrom" => todo'[s] = fromRules[a]
          /\ UNCHANGED addr /\ Same
      BY <1>1, <1>9, PodNetworkAssumption
      DEF TearToRule, TearList, PluginUnchanged, daemonVars, Go, SandboxesOK, SandboxOK,
          TeardownSteps
    <2>2. /\ StaleFirst(OwnTables, fromRules[a])
          /\ NamesStale(OwnTables, fromRules[a], Range(fromRules[a]))
      BY <2>1, NoStale DEF RoutesInv, ListsInv
    <2>3. Kept(s) /\ ~Up(s)'
      BY <2>1 DEF Kept, Tearing, Up, TeardownSteps
    <2>4. SandboxRules(s)'
      BY <1>3, <2>1, <2>2, <2>3 DEF SandboxRules
    <2> QED
      BY <1>2, <2>1, <2>3, <2>4 DEF InSetup, SetupSteps
  <1> QED
    BY <1>4, <1>5, <1>6, <1>7, <1>8, <1>9

\* A pod is given an address whose NIC has a route.
LEMMA AddNetworkRouted ==
    ASSUME BaseInv, SetUpInv, Distinct, RoutesInv, NEW s \in Sandbox, AddNetwork(s)
    PROVE  RoutesInv'
  <1>1. /\ step[s] = "none" /\ daemon = "ready"
        /\ step' = [step EXCEPT ![s] = "veth"]
        /\ UNCHANGED <<links, daemon, fromRules, listed, update, todoPods, broken, todo>>
    BY DEF AddNetwork, Go, kernelVars, NoFault, histVars
  <1>2. PICK n \in stored :
          /\ podsIP' = [k \in DOMAIN podsIP \cup {Key(s)} |->
                          IF k \in DOMAIN podsIP THEN podsIP[k]
                          ELSE [addr |-> AddrOf[n], num |-> number[n]]]
          /\ addr' = [addr EXCEPT ![s] = AddrOf[n]]
          /\ table' = [table EXCEPT ![s] = number[n]]
    BY DEF AddNetwork
  <1>3. OwnTables' = OwnTables
    BY <1>1 DEF OwnTables
  <1>4. /\ \A t \in Sandbox \ {s} :
             step'[t] = step[t] /\ addr'[t] = addr[t] /\ table'[t] = table[t] /\ todo'[t] = todo[t]
        /\ step'[s] = "veth" /\ addr'[s] = AddrOf[n] /\ table'[s] = number[n]
    BY <1>1, <1>2 DEF BaseInv, RulesInv, SandboxesOK
  <1>5. Key(s) \notin DOMAIN podsIP
    BY <1>1 DEF BaseInv, PodNetworkInv, KeysInv
  <1>6. /\ DOMAIN podsIP' = DOMAIN podsIP \cup {Key(s)}
        /\ podsIP'[Key(s)].addr = AddrOf[n]
        /\ \A k \in DOMAIN podsIP : podsIP'[k] = podsIP[k]
    BY <1>2, <1>5
  <1>7. RecoveryInv'
    BY <1>1 DEF RoutesInv, RecoveryInv
  <1>8. EntryInv'
    <2>1. \A t \in Sandbox \ {s} : Key(t) # Key(s)
      BY DEF Key
    <2>2. ASSUME NEW t \in Sandbox, step'[t] \in SetupSteps, Key(t) \in DOMAIN podsIP'
          PROVE  podsIP'[Key(t)].addr = addr'[t]
      BY <1>4, <1>6, <2>1, <2>2 DEF RoutesInv, EntryInv
    <2>3. InSetup(s)' /\ ~InSetup(s) /\ \A t \in Sandbox \ {s} : InSetup(t)' <=> InSetup(t)
      BY <1>1, <1>4 DEF InSetup, SetupSteps
    <2>4. ASSUME NEW k \in DOMAIN podsIP'
          PROVE  \/ \E t \in Sandbox : k = Key(t) /\ InSetup(t)'
                 \/ NotAllStale(OwnTables, Range(fromRules[podsIP'[k].addr]))
      <3>1. CASE k = Key(s)
        BY <2>3, <3>1
      <3>2. CASE k # Key(s)
        <4>1. k \in DOMAIN podsIP /\ podsIP'[k] = podsIP[k]
          BY <1>6, <2>4, <3>2
        <4> QED
          BY <2>3, <4>1 DEF RoutesInv, EntryInv
      <3> QED
        BY <3>1, <3>2
    <2> QED
      BY <1>1, <1>3, <2>2, <2>4 DEF EntryInv
  <1>9. SandboxRules(s)'
    <2>1. number[n] \in OwnTables
      BY StoredSound
    <2> QED
      BY <1>3, <1>4, <2>1 DEF SandboxRules, Kept, Up, Tearing, TeardownSteps
  <1>10. ~Up(s)'
    BY <1>4 DEF Up
  <1> QED
    BY <1>1, <1>4, <1>7, <1>8, <1>9, <1>10, SandboxRouted

\* An entry that is released is gone; del takes back the rules of its address.
LEMMA ReleaseRouted ==
    ASSUME BaseInv, RoutesInv, NEW s \in Sandbox, Cleanup(s) \/ DelNetwork(s)
    PROVE  RoutesInv'
  <1>1. /\ UNCHANGED <<links, daemon, fromRules, listed, update, todoPods, broken>>
        /\ \A t \in Sandbox \ {s} :
             step'[t] = step[t] /\ addr'[t] = addr[t] /\ table'[t] = table[t] /\ todo'[t] = todo[t]
        /\ step'[s] \in {"failed", "tearTo"}
    BY DEF Cleanup, DelNetwork, ReleaseUnchanged, Go, NoFault, histVars, kernelVars, BaseInv,
        RulesInv, SandboxesOK
  <1>2. OwnTables' = OwnTables
    BY <1>1 DEF OwnTables
  <1>3. \A t \in Sandbox \ {s} : Key(t) # Key(s)
    BY DEF Key
  <1>4. ~Up(s)' /\ ~InSetup(s)'
    BY <1>1 DEF Up, InSetup, SetupSteps
  <1>5. \A t \in Sandbox \ {s} : InSetup(t)' <=> InSetup(t)
    BY <1>1 DEF InSetup
  <1>6. ASSUME NEW k \in DOMAIN podsIP, Release(k), k = Key(s) \/ step[s] = "deleting"
        PROVE  RecoveryInv' /\ EntryInv'
    <2>1. DOMAIN podsIP' = DOMAIN podsIP \ {k} /\ \A j \in DOMAIN podsIP' : podsIP'[j] = podsIP[j]
      BY <1>6 DEF Release
    <2>2. ASSUME NEW j \in DOMAIN podsIP'
          PROVE  \/ \E t \in Sandbox : j = Key(t) /\ InSetup(t)'
                 \/ NotAllStale(OwnTables, Range(fromRules[podsIP'[j].addr]))
      <3>1. j \in DOMAIN podsIP /\ j # k /\ podsIP'[j] = podsIP[j]
        BY <2>1
      <3>2. ~(j = Key(s) /\ InSetup(s))
        BY <1>6, <3>1 DEF InSetup, SetupSteps
      <3> QED
        BY <1>5, <3>1, <3>2 DEF RoutesInv, EntryInv
    <2>3. \A t \in Sandbox : step'[t] \in SetupSteps /\ Key(t) \in DOMAIN podsIP' =>
                               podsIP'[Key(t)].addr = addr'[t]
      BY <1>1, <1>4, <2>1 DEF RoutesInv, EntryInv, InSetup
    <2> QED
      BY <1>1, <1>2, <2>1, <2>2, <2>3 DEF RoutesInv, RecoveryInv, EntryInv
  <1>7. CASE Cleanup(s)
    <2>1. step[s] = "cleanup" /\ step'[s] = "failed"
      BY <1>7 DEF Cleanup, Go, BaseInv, RulesInv, SandboxesOK
    <2>2. SandboxRules(s)'
      BY <2>1 DEF SandboxRules, Kept, Up, Tearing, TeardownSteps
    <2>3. CASE UNCHANGED podsIP /\ Key(s) \notin DOMAIN podsIP
      <3>1. RecoveryInv' /\ EntryInv'
        BY <1>1, <1>4, <2>1, <2>3, EntryKept DEF SetupSteps
      <3> QED
        BY <1>1, <1>4, <2>2, <3>1, SandboxRouted
    <2>4. ASSUME NEW k \in DOMAIN podsIP, DelKey(s, k), Release(k) PROVE RoutesInv'
      <3>1. CASE k = Key(s)
        <4>1. RecoveryInv' /\ EntryInv'
          BY <1>6, <2>4, <3>1
        <4> QED
          BY <1>1, <1>4, <2>2, <4>1, SandboxRouted
      <3>2. CASE Key(s) \notin DOMAIN podsIP
        <4>1. DOMAIN podsIP' = DOMAIN podsIP \ {k} /\ \A j \in DOMAIN podsIP' : podsIP'[j] = podsIP[j]
          BY <2>4 DEF Release
        <4>2. ASSUME NEW j \in DOMAIN podsIP'
              PROVE  \/ \E t \in Sandbox : j = Key(t) /\ InSetup(t)'
                     \/ NotAllStale(OwnTables, Range(fromRules[podsIP'[j].addr]))
          <5>1. j \in DOMAIN podsIP /\ j # Key(s) /\ podsIP'[j] = podsIP[j]
            BY <3>2, <4>1
          <5> QED
            BY <1>5, <5>1 DEF RoutesInv, EntryInv
        <4>3. \A t \in Sandbox : step'[t] \in SetupSteps /\ Key(t) \in DOMAIN podsIP' =>
                                   podsIP'[Key(t)].addr = addr'[t]
          BY <1>1, <1>4, <4>1 DEF RoutesInv, EntryInv, InSetup
        <4>4. RecoveryInv' /\ EntryInv'
          BY <1>1, <1>2, <4>1, <4>2, <4>3 DEF RoutesInv, RecoveryInv, EntryInv
        <4> QED
          BY <1>1, <1>4, <2>2, <4>4, SandboxRouted
      <3> QED
        BY <2>4, <3>1, <3>2 DEF DelKey
    <2>5. \/ UNCHANGED podsIP /\ Key(s) \notin DOMAIN podsIP
          \/ \E k \in DOMAIN podsIP : DelKey(s, k) /\ Release(k)
      BY <1>7 DEF Cleanup, DelKey, RoutesInv, RecoveryInv
    <2> QED
      BY <2>3, <2>4, <2>5
  <1>8. CASE DelNetwork(s)
    <2>1. PICK k \in DOMAIN podsIP :
            DelKey(s, k) /\ addr' = [addr EXCEPT ![s] = podsIP[k].addr] /\ Release(k)
      BY <1>8 DEF DelNetwork
    <2>2. step[s] = "deleting" /\ step'[s] = "tearTo" /\ addr'[s] = podsIP[k].addr
      BY <1>8, <2>1 DEF DelNetwork, Go, BaseInv, RulesInv, SandboxesOK
    <2>3. ~ \E t \in Sandbox : k = Key(t) /\ InSetup(t)
      <3>1. ~InSetup(s)
        BY <2>2 DEF InSetup, SetupSteps
      <3>2. k = Key(s) \/ k = <<PodOf[s], NoContainer>>
        BY <2>1 DEF DelKey
      <3>3. \A t \in Sandbox : Key(t) # <<PodOf[s], NoContainer>>
        BY PodNetworkAssumption DEF Key
      <3> QED
        BY <1>3, <3>1, <3>2, <3>3
    <2>4. NotAllStale(OwnTables, Range(fromRules[podsIP[k].addr]))
      BY <2>3 DEF RoutesInv, EntryInv
    <2>5. SandboxRules(s)'
      BY <1>1, <1>2, <2>2, <2>4 DEF SandboxRules, Up
    <2>6. RecoveryInv' /\ EntryInv'
      BY <1>6, <2>1, <2>2
    <2> QED
      BY <1>1, <1>4, <2>5, <2>6, SandboxRouted
  <1> QED
    BY <1>7, <1>8

----------------------------------------------------------------------------
(* The steps of the plugin that write rules *)

\* The loop of addContainerRule, which ends with the rules of a running pod.
LEMMA AddFromRuleRouted ==
    ASSUME BaseInv, RoutesInv, NEW s \in Sandbox, AddFromRule(s)
    PROVE  RoutesInv'
  <1> DEFINE a == addr[s]
  <1> DEFINE r == Head(todo[s])
  <1> DEFINE R(b) == Range(fromRules[b])
  <1>1. /\ step[s] = "addFrom" /\ RuleAdd(a, r) /\ todo' = [todo EXCEPT ![s] = Tail(@)]
        /\ \/ Len(todo[s]) = 1 /\ step' = [step EXCEPT ![s] = "up"] /\ broken' = broken \ {a}
           \/ UNCHANGED <<step, broken>>
        /\ UNCHANGED <<links, daemon, listed, update, todoPods, podsIP, addr, table>>
    BY DEF AddFromRule, PluginUnchanged, daemonVars, Go
  <1>2. daemon = "ready" /\ update = NoUpdate /\ listed = NoRules /\ todoPods = {}
    <2>1. daemon = "ready"
      BY <1>1 DEF BaseInv, PodNetworkInv, PhaseInv, SetupSteps
    <2> QED
      BY <2>1 DEF RoutesInv, RecoveryInv, BaseInv, PodNetworkInv, PhaseInv
  <1>3. /\ a \in Addr /\ a # None /\ todo[s] \in Seq(RuleOf(a)) /\ todo[s] # << >>
        /\ TableRulesOK /\ SandboxesOK
    BY <1>1, PodNetworkAssumption DEF BaseInv, RulesInv, SandboxesOK, SandboxOK, SetupSteps
  <1>4. /\ r \in Rule /\ Range(todo[s]) = {r} \cup Range(Tail(todo[s]))
        /\ Len(todo[s]) = 1 => Tail(todo[s]) = << >>
    BY <1>3, HeadAndTail, TailRules, RuleOfType
  <1>5. OwnTables' = OwnTables
    BY <1>1 DEF OwnTables
  <1>6. /\ LeadTo(OwnTables, Range(todo[s])) /\ Covers(OwnTables, Range(todo[s]) \cup R(a))
        /\ r.table \in OwnTables /\ LeadTo(OwnTables, Range(Tail(todo[s])))
    <2>1. LeadTo(OwnTables, Range(todo[s])) /\ Covers(OwnTables, Range(todo[s]) \cup R(a))
      BY <1>1 DEF RoutesInv, SandboxRules
    <2> QED
      BY <1>4, <2>1 DEF LeadTo
  <1>7. \A b \in Addr :
          /\ Range(fromRules'[b]) = IF b = a THEN R(b) \cup {r} ELSE R(b)
          /\ StaleFirst(OwnTables, fromRules[b]) => StaleFirst(OwnTables, fromRules'[b])
    BY <1>1, <1>3, <1>4, <1>6, Added
  <1>8. \A b \in Addr :
          /\ NotAllStale(OwnTables, R(b)) => NotAllStale(OwnTables, Range(fromRules'[b]))
          /\ \A q : NamesStale(OwnTables, q, R(b)) => NamesStale(OwnTables, q, Range(fromRules'[b]))
          /\ Covers(OwnTables, R(b)) => Covers(OwnTables, Range(fromRules'[b]))
    BY <1>6, <1>7 DEF NotAllStale, NamesStale, Covers
  <1>9. NotAllStale(OwnTables, Range(fromRules'[a]))
    BY <1>3, <1>6, <1>7 DEF NotAllStale
  <1>10. Covers(OwnTables, Range(Tail(todo[s])) \cup Range(fromRules'[a]))
    <2>1. Range(todo[s]) \cup R(a) \subseteq Range(Tail(todo[s])) \cup Range(fromRules'[a])
      BY <1>3, <1>4, <1>7
    <2> QED
      BY <1>6, <2>1 DEF Covers
  <1>11. /\ step'[s] \in {"addFrom", "up"} /\ todo'[s] = Tail(todo[s])
         /\ \A t \in Sandbox \ {s} : step'[t] = step[t] /\ todo'[t] = todo[t]
    BY <1>1, <1>3 DEF SandboxesOK
  <1>12. Up(s)' => Covers(OwnTables, Range(fromRules'[a]))
    <2>1. Up(s)' => Len(todo[s]) = 1
      BY <1>1 DEF Up
    <2>2. Len(todo[s]) = 1 => Range(Tail(todo[s])) = {}
      BY <1>4 DEF Range
    <2> QED
      BY <1>10, <2>1, <2>2
  <1>13. \A t \in Sandbox \ {s} : Using(t) => addr[t] # a
    BY <1>1 DEF BaseInv, PodNetworkInv, Exclusive, Using, SetupSteps
  <1>14. RecoveryInv' /\ UpdateInv'
    BY <1>1, <1>2 DEF RoutesInv, RecoveryInv, UpdateInv
  <1>15. ListsInv'
    BY <1>1, <1>2, <1>5, <1>7 DEF RoutesInv, ListsInv
  <1>16. EntryInv'
    <2>1. \A k \in DOMAIN podsIP : podsIP[k].addr \in Addr
      BY DEF BaseInv, PodNetworkInv, StateInv
    <2>2. \A t \in Sandbox \ {s} : InSetup(t)' <=> InSetup(t)
      BY <1>11 DEF InSetup
    <2>3. Key(s) \in DOMAIN podsIP => podsIP[Key(s)].addr = a
      BY <1>1 DEF RoutesInv, EntryInv, SetupSteps
    <2>4. ASSUME NEW k \in DOMAIN podsIP
          PROVE  \/ \E t \in Sandbox : k = Key(t) /\ InSetup(t)'
                 \/ NotAllStale(OwnTables, Range(fromRules'[podsIP[k].addr]))
      <3>1. CASE k = Key(s)
        BY <1>9, <2>3, <3>1
      <3>2. CASE k # Key(s)
        BY <1>8, <2>1, <2>2, <2>4, <3>2 DEF RoutesInv, EntryInv
      <3> QED
        BY <3>1, <3>2
    <2>5. \A t \in Sandbox : step'[t] \in SetupSteps => step[t] \in SetupSteps
      BY <1>1, <1>11 DEF SetupSteps
    <2> QED
      BY <1>1, <1>5, <2>4, <2>5 DEF RoutesInv, EntryInv
  <1>17. SandboxRules(s)'
    <2>1. step'[s] = "addFrom" => LeadTo(OwnTables, Range(todo'[s])) /\
                                  Covers(OwnTables, Range(todo'[s]) \cup Range(fromRules'[a]))
      BY <1>6, <1>10, <1>11
    <2>2. Up(s)' => Routed(addr[s])'
      BY <1>1, <1>5, <1>12 DEF Routed
    <2> QED
      BY <1>1, <1>5, <1>9, <1>11, <2>1, <2>2 DEF SandboxRules
  <1>18. ASSUME NEW t \in Sandbox \ {s} PROVE SandboxRules(t)'
    <2>1. SandboxRules(t) /\ (Kept(t)' <=> Kept(t)) /\ (Up(t)' <=> Up(t))
      BY <1>1, <1>11 DEF RoutesInv, Kept, Up, Tearing
    <2>2. step[t] \in {"addFrom", "tearFrom"} \/ Kept(t) => addr[t] \in Addr
      BY DEF BaseInv, PodNetworkInv, StateInv, Kept, Up, Tearing, Using, SetupSteps, TeardownSteps
    <2>3. step[t] = "addFrom" \/ Up(t) => addr[t] # a
      BY <1>13 DEF Using, Up, SetupSteps
    <2>4. step[t] = "addFrom" => Range(fromRules'[addr[t]]) = R(addr[t])
      BY <1>7, <2>2, <2>3
    <2>5. Up(t) => Routed(addr[t])'
      <3>1. Up(t) => addr[t] \in broken \/ Covers(OwnTables, R(addr[t]))
        BY <1>2, <2>1 DEF SandboxRules, Routed
      <3>2. Up(t) => addr[t] \in broken' \/ Covers(OwnTables, Range(fromRules'[addr[t]]))
        BY <1>1, <1>8, <2>2, <2>3, <3>1 DEF Kept
      <3> QED
        BY <1>5, <3>2, <1>1 DEF Routed
    <2> QED
      BY <1>1, <1>5, <1>8, <1>11, <2>1, <2>2, <2>4, <2>5 DEF SandboxRules
  <1> QED
    BY <1>14, <1>15, <1>16, <1>17, <1>18 DEF RoutesInv

\* The loop of DeleteRuleListBySrc, which no running pod's address is in.
LEMMA TearFromRuleRouted ==
    ASSUME BaseInv, RoutesInv, NEW s \in Sandbox, TearFromRule(s)
    PROVE  RoutesInv'
  <1> DEFINE a == addr[s]
  <1> DEFINE r == Head(todo[s])
  <1> DEFINE R(b) == Range(fromRules[b])
  <1>1. /\ step[s] = "tearFrom" /\ RuleDel(a, r) /\ todo' = [todo EXCEPT ![s] = Tail(@)]
        /\ step' = [step EXCEPT ![s] = "tearRoute"] \/ UNCHANGED step
        /\ UNCHANGED <<links, daemon, listed, update, todoPods, podsIP, addr, table, broken>>
    BY DEF TearFromRule, PluginUnchanged, daemonVars, Go
  <1>2. /\ a \in Addr /\ todo[s] \in Seq(RuleOf(a)) /\ todo[s] # << >>
        /\ TableRulesOK /\ SandboxesOK
    BY <1>1 DEF BaseInv, RulesInv, SandboxesOK, SandboxOK, TeardownSteps
  <1>3. OwnTables' = OwnTables
    BY <1>1 DEF OwnTables
  <1>4. \A b \in Addr :
          /\ Range(fromRules'[b]) = IF b = a THEN R(b) \ {r} ELSE R(b)
          /\ StaleFirst(OwnTables, fromRules[b]) => StaleFirst(OwnTables, fromRules'[b])
    BY <1>1, <1>2, Deleted
  <1>5. /\ StaleFirst(OwnTables, Tail(todo[s]))
        /\ NamesStale(OwnTables, Tail(todo[s]), Range(fromRules'[a]))
        /\ NotAllStale(OwnTables, R(a)) => NotAllStale(OwnTables, Range(fromRules'[a]))
    <2>1. StaleFirst(OwnTables, todo[s]) /\ NamesStale(OwnTables, todo[s], R(a))
      BY <1>1 DEF RoutesInv, SandboxRules
    <2>2. Range(fromRules'[a]) = R(a) \ {r}
      BY <1>2, <1>4
    <2>3. /\ StaleFirst(OwnTables, Tail(todo[s]))
          /\ NamesStale(OwnTables, Tail(todo[s]), R(a) \ {r})
          /\ NotAllStale(OwnTables, R(a)) => NotAllStale(OwnTables, R(a) \ {r})
      BY <1>2, <2>1, LoopDeletes
    <2> QED
      BY <2>2, <2>3
  <1>6. \A b \in Addr :
          /\ NotAllStale(OwnTables, R(b)) => NotAllStale(OwnTables, Range(fromRules'[b]))
          /\ \A q : NamesStale(OwnTables, q, R(b)) => NamesStale(OwnTables, q, Range(fromRules'[b]))
    <2>1. \A b \in Addr : Range(fromRules'[b]) \subseteq R(b) /\ (b # a => Range(fromRules'[b]) = R(b))
      BY <1>4
    <2> QED
      BY <1>5, <2>1 DEF NamesStale
  <1>7. /\ step'[s] \in TeardownSteps /\ todo'[s] = Tail(todo[s]) /\ step'[s] # "up"
        /\ \A t \in Sandbox \ {s} : step'[t] = step[t] /\ todo'[t] = todo[t]
    BY <1>1, <1>2 DEF SandboxesOK, TeardownSteps
  <1>8. \A t \in Sandbox : Using(t) => addr[t] # a
    BY <1>1 DEF BaseInv, PodNetworkInv, Exclusive, Using, Tearing, SetupSteps, TeardownSteps
  <1>9. \A t \in Sandbox : (Up(t)' <=> Up(t)) /\ (InSetup(t)' <=> InSetup(t)) /\ (Kept(t)' <=> Kept(t))
    BY <1>1, <1>7 DEF Up, InSetup, Kept, Tearing, SetupSteps, TeardownSteps
  <1>10. \A t \in Sandbox : Up(t) \/ step[t] = "addFrom" =>
           addr[t] # a /\ addr[t] \in Addr /\ Range(fromRules'[addr[t]]) = R(addr[t])
    <2>1. ASSUME NEW t \in Sandbox, Up(t) \/ step[t] = "addFrom" PROVE addr[t] # a /\ addr[t] \in Addr
      BY <1>8, <2>1 DEF BaseInv, PodNetworkInv, StateInv, Using, Up, SetupSteps
    <2> QED
      BY <1>4, <2>1
  <1>11. RecoveryInv'
    BY <1>1 DEF RoutesInv, RecoveryInv
  <1>12. ListsInv'
    <2>1. \A p \in todoPods : p.addr \in Addr
      BY DEF BaseInv, PodNetworkInv, StateInv
    <2> QED
      BY <1>1, <1>3, <1>4, <1>6, <2>1 DEF RoutesInv, ListsInv
  <1>13. UpdateInv'
    <2>1. update # NoUpdate => update.src \in Addr
      BY DEF BaseInv, RulesInv, UpdateOK
    <2>2. (\E t \in Sandbox : Up(t) /\ addr[t] = update.src) => Range(fromRules'[update.src]) = R(update.src)
      BY <1>10
    <2> QED
      BY <1>1, <1>3, <1>6, <1>9, <2>1, <2>2 DEF RoutesInv, UpdateInv
  <1>14. EntryInv'
    <2>1. \A k \in DOMAIN podsIP : podsIP[k].addr \in Addr
      BY DEF BaseInv, PodNetworkInv, StateInv
    <2>2. \A t \in Sandbox : step'[t] \in SetupSteps => step[t] \in SetupSteps
      BY <1>7 DEF SetupSteps, TeardownSteps
    <2> QED
      BY <1>1, <1>3, <1>6, <1>9, <2>1, <2>2 DEF RoutesInv, EntryInv
  <1>15. ASSUME NEW t \in Sandbox PROVE SandboxRules(t)'
    <2>1. SandboxRules(t)
      BY DEF RoutesInv
    <2>2. Kept(t) \/ step[t] = "tearFrom" => addr[t] \in Addr
      BY DEF BaseInv, PodNetworkInv, StateInv, Kept, Up, Tearing, Using, TeardownSteps
    <2>3. step'[t] \in {"veth", "route", "delTo", "addTo"} => step[t] = step'[t]
      BY <1>7 DEF TeardownSteps
    <2>4. step'[t] = "addFrom" => step[t] = "addFrom" /\ todo'[t] = todo[t]
      BY <1>7 DEF TeardownSteps
    <2>5. ASSUME step'[t] = "tearFrom"
          PROVE  /\ StaleFirst(OwnTables, todo'[t])
                 /\ NamesStale(OwnTables, todo'[t], Range(fromRules'[addr[t]]))
      <3>1. CASE t = s
        BY <1>5, <1>7, <3>1
      <3>2. CASE t # s
        BY <1>6, <1>7, <2>1, <2>2, <2>5, <3>2 DEF SandboxRules
      <3> QED
        BY <3>1, <3>2
    <2>6. Up(t) /\ daemon \in {"pods", "ready"} => Routed(addr[t])'
      BY <1>1, <1>3, <1>10, <2>1 DEF SandboxRules, Routed
    <2>7. step'[t] \in {"veth", "route", "delTo", "addTo"} => table'[t] \in OwnTables
      BY <1>1, <2>1, <2>3 DEF SandboxRules
    <2>8. step'[t] = "addFrom" => LeadTo(OwnTables, Range(todo'[t])) /\
                                  Covers(OwnTables, Range(todo'[t]) \cup Range(fromRules'[addr[t]]))
      BY <1>10, <2>1, <2>4 DEF SandboxRules
    <2>9. Kept(t)' => NotAllStale(OwnTables, Range(fromRules'[addr[t]]))
      BY <1>6, <1>9, <2>1, <2>2 DEF SandboxRules
    <2> QED
      BY <1>1, <1>3, <1>9, <2>5, <2>6, <2>7, <2>8, <2>9 DEF SandboxRules
  <1> QED
    BY <1>11, <1>12, <1>13, <1>14, <1>15 DEF RoutesInv

----------------------------------------------------------------------------
(* The tables in use *)

\* Where a plugin process has its table and its rules from.
LEMMA PluginSources ==
    ASSUME RulesInv, [Next]_vars, NEW t \in Sandbox
    PROVE  /\ table'[t] \in {table[t], 0} \/ \E n \in stored : table'[t] = number[n]
           /\ \/ todo'[t] \in {todo[t], << >>}
              \/ todo[t] # << >> /\ todo'[t] = Tail(todo[t])
              \/ table[t] \in Table /\ todo'[t] = NewRules(table[t], TRUE)
              \/ \E a \in Addr : todo'[t] = fromRules[a]
  <1> DEFINE Quiet == table'[t] = table[t] /\ todo'[t] = todo[t]
  <1> DEFINE A == table'[t] \in {table[t], 0} \/ \E n \in stored : table'[t] = number[n]
  <1> DEFINE B ==
        \/ todo'[t] \in {todo[t], << >>}
        \/ todo[t] # << >> /\ todo'[t] = Tail(todo[t])
        \/ table[t] \in Table /\ todo'[t] = NewRules(table[t], TRUE)
        \/ \E a \in Addr : todo'[t] = fromRules[a]
  <1>1. DOMAIN table = Sandbox /\ DOMAIN todo = Sandbox
    BY DEF RulesInv, SandboxesOK
  <1>2. CASE DaemonNext
    <2>1. CASE \/ Boot \/ ListPodsAndRules \/ RecoverPod \/ UpdateDel \/ UpdateAdd \/ UpdateFails
               \/ Serve
      BY <2>1
      DEF Boot, ListPodsAndRules, RecoverPod, UpdateDel, UpdateAdd, UpdateFails, Serve,
          BootUnchanged, pluginVars
    <2>2. ASSUME NEW n \in NIC, NextAttachedNIC(n) \/ setupNICNetwork(n) \/ SetupNicFails(n)
          PROVE  Quiet
      BY <2>2
      DEF NextAttachedNIC, setupNICNetwork, SetupLink, CleanRoutes, AddRoutes, SetupNicFails,
          SetupUnchanged, BootUnchanged, pluginVars
    <2> QED
      BY <1>2, <2>1, <2>2 DEF DaemonNext
  <1>3. CASE PoolNext \/ Crash \/ UNCHANGED vars
    BY <1>3 DEF PoolNext, AttachNIC, DetachNIC, Crash, vars, pluginVars
  <1>4. ASSUME NEW s \in Sandbox, PluginNext(s) \/ AddNetwork(s) \/ KillSandbox(s) \/ DestroyNetns(s)
        PROVE  A /\ B
    <2>1. CASE CreateVeth(s) \/ ReplaceRoute(s) \/ DelToRule(s) \/ KillSandbox(s) \/ DestroyNetns(s)
      BY <2>1 DEF CreateVeth, ReplaceRoute, DelToRule, KillSandbox, DestroyNetns, pluginVars
    <2>2. CASE AddToRule(s)
      <3>1. table[s] \in Table
        BY <2>2, RuleOfType
        DEF AddToRule, RulesInv, SandboxesOK, SandboxOK, SetupSteps
      <3> QED
        BY <1>1, <2>2, <3>1 DEF AddToRule
    <2>3. CASE AddFromRule(s) \/ TearFromRule(s)
      <3>1. todo[s] # << >>
        BY <2>3 DEF AddFromRule, TearFromRule, RulesInv, SandboxesOK, SandboxOK
      <3> QED
        BY <1>1, <2>3, <3>1 DEF AddFromRule, TearFromRule
    <2>4. CASE SetupNSFails(s) \/ TearDownNSFails(s)
      BY <1>1, <2>4 DEF SetupNSFails, TearDownNSFails
    <2>5. CASE Cleanup(s) \/ DelNetwork(s) \/ DelNetworkUnknown(s)
      BY <2>5 DEF Cleanup, DelNetwork, DelNetworkUnknown, ReleaseUnchanged
    <2>6. CASE TearToRule(s) \/ TearRoute(s)
      BY <2>6 DEF TearToRule, TearRoute
    <2>7. CASE TearList(s)
      <3>1. addr[s] \in Addr
        BY <2>7 DEF TearList, RulesInv, SandboxesOK, SandboxOK, TeardownSteps
      <3> QED
        BY <1>1, <2>7, <3>1 DEF TearList
    <2>8. CASE AddNetwork(s)
      BY <1>1, <2>8 DEF AddNetwork
    <2> QED
      BY <1>4, <2>1, <2>2, <2>3, <2>4, <2>5, <2>6, <2>7, <2>8 DEF PluginNext, SetupNS, TearDownNS
  <1> QED
    BY <1>2, <1>3, <1>4 DEF Next

\* Rules are made from a number the store names, or from one of a rule that was
\* there.
LEMMA UsedStep ==
    ASSUME BaseInv, SetUpInv, Distinct, UsedInv, RoutesInv, [Next]_vars
    PROVE  UsedInv'
  <1> DEFINE S == SoundTables
  <1>1. S \subseteq S'
    BY SoundStep
  <1>2. \A R : LeadTo(S, R) => LeadTo(S', R)
    BY <1>1 DEF LeadTo
  <1>3. \A Q, R : Q \subseteq R /\ LeadTo(S, R) => LeadTo(S, Q)
    BY DEF LeadTo
  <1>4. LeadTo(S, Range(<< >>))
    BY DEF LeadTo, Range
  <1>5. \A n \in stored : number[n] \in S
    BY StoredSound
  <1>6. /\ \A a \in Addr : LeadTo(S, Range(fromRules[a])) /\ LeadTo(S, Range(listed[a]))
        /\ LeadTo(S, Range(update.add))
    BY DEF UsedInv
  <1> HIDE DEF S
  <1>7. ASSUME NEW t \in Sandbox
        PROVE  table'[t] \in S' \cup {0} /\ LeadTo(S', Range(todo'[t]))
    <2>1. table[t] \in S \cup {0} /\ LeadTo(S, Range(todo[t]))
      BY DEF UsedInv, S
    <2>2. todo[t] \in Seq(Rule) /\ 0 \notin Table
      BY PodNetworkAssumption DEF BaseInv, RulesInv, SandboxesOK, Table
    <2>3. todo[t] # << >> => LeadTo(S, Range(Tail(todo[t])))
      <3>1. todo[t] # << >> => Range(Tail(todo[t])) \subseteq Range(todo[t])
        BY <2>2, HeadAndTail
      <3> QED
        BY <1>3, <2>1, <3>1
    <2>4. table[t] \in Table => LeadTo(S, Range(NewRules(table[t], TRUE)))
      BY <2>1, <2>2, NewRulesCover
    <2>5. /\ table'[t] \in {table[t], 0} \/ \E n \in stored : table'[t] = number[n]
          /\ \/ todo'[t] \in {todo[t], << >>}
             \/ todo[t] # << >> /\ todo'[t] = Tail(todo[t])
             \/ table[t] \in Table /\ todo'[t] = NewRules(table[t], TRUE)
             \/ \E a \in Addr : todo'[t] = fromRules[a]
      BY PluginSources DEF BaseInv
    <2>6. LeadTo(S, Range(todo'[t]))
      BY <1>4, <1>6, <2>1, <2>3, <2>4, <2>5
    <2> QED
      BY <1>1, <1>2, <1>5, <2>1, <2>5, <2>6
  <1> DEFINE From(q) == \A a \in Addr : LeadTo(S, Range(q[a]))
  <1>8. From(fromRules') /\ From(listed') /\ LeadTo(S, Range(update'.add))
    <2>1. TableRulesOK /\ UpdateOK /\ SandboxesOK
      BY DEF BaseInv, RulesInv
    <2>2. From(fromRules) /\ From(listed) /\ From(NoRules)
      BY <1>4, <1>6 DEF NoRules
    <2>3. LeadTo(S, Range(NoUpdate.add))
      BY <1>4 DEF NoUpdate
    <2>4. ASSUME NEW a \in Addr, NEW r, RuleDel(a, r) PROVE From(fromRules')
      <3>1. \A b \in Addr : Range(fromRules'[b]) \subseteq Range(fromRules[b])
        BY <2>1, <2>4, Deleted
      <3> QED
        BY <1>3, <1>6, <3>1
    <2>5. ASSUME NEW a \in Addr, NEW r \in Rule, RuleAdd(a, r), r.table \in S PROVE From(fromRules')
      <3>1. \A b \in Addr : Range(fromRules'[b]) \subseteq Range(fromRules[b]) \cup {r}
        BY <2>1, <2>5, Added
      <3>2. \A b \in Addr : LeadTo(S, Range(fromRules[b]) \cup {r})
        BY <1>6, <2>5 DEF LeadTo
      <3> QED
        BY <1>3, <3>1, <3>2
    <2>6. ASSUME NEW q \in Seq(Rule), q # << >>, LeadTo(S, Range(q))
          PROVE  Head(q) \in Rule /\ Head(q).table \in S /\ LeadTo(S, Range(Tail(q)))
      <3>1. Range(q) = {Head(q)} \cup Range(Tail(q)) /\ Head(q) \in Rule
        BY <2>6, HeadAndTail, TailRules
      <3> QED
        BY <2>6, <3>1 DEF LeadTo
    <2>7. CASE UNCHANGED policyVars
      BY <1>6, <2>2, <2>7 DEF policyVars
    <2>8. CASE ListPodsAndRules
      BY <1>6, <2>2, <2>8 DEF ListPodsAndRules
    <2>9. CASE RecoverPod
      <3>1. UNCHANGED <<fromRules, listed>>
        BY <2>9 DEF RecoverPod
      <3>2. UNCHANGED update \/ \E r \in todoPods, n \in stored :
                                  r.addr \in Addr /\ StartUpdate(r.addr, ~externalSNAT, number[n])
        BY <2>9 DEF RecoverPod, BaseInv, PodNetworkInv, StateInv
      <3>3. ASSUME NEW a \in Addr, NEW n \in stored, StartUpdate(a, ~externalSNAT, number[n])
            PROVE  LeadTo(S, Range(update'.add))
        <4> DEFINE old == listed[a]
        <4>1. \A u \in S, f \in BOOLEAN : LeadTo(S, Range(NewRules(u, f)))
          BY NewRulesCover
        <4>2. old # << >> => old[Len(old)].table \in S
          <5>1. old \in Seq(Rule)
            BY <2>1 DEF TableRulesOK
          <5>2. old # << >> => Len(old) \in DOMAIN old
            BY <5>1, LenProperties, EmptySeq
          <5> QED
            BY <1>6, <5>2 DEF LeadTo, Range
        <4>3. \E u \in S, f \in BOOLEAN : update'.add = NewRules(u, f)
          <5>1. CASE old = << >>
            BY <1>5, <3>3, <5>1 DEF StartUpdate
          <5>2. CASE old # << >>
            BY <3>3, <4>2, <5>2 DEF StartUpdate
          <5> QED
            BY <5>1, <5>2
        <4> QED
          BY <4>1, <4>3
      <3> QED
        BY <1>6, <2>2, <3>1, <3>2, <3>3
    <2>10. CASE UpdateDel
      <3>1. /\ update.src \in Addr /\ RuleDel(update.src, Head(update.del))
            /\ UNCHANGED listed /\ update'.add = update.add
        BY <2>1, <2>10 DEF UpdateDel, UpdateOK, NoUpdate
      <3> QED
        BY <1>6, <2>2, <2>4, <3>1
    <2>11. CASE UpdateAdd
      <3>1. /\ update.src \in Addr /\ update.add \in Seq(Rule) /\ update.add # << >>
            /\ RuleAdd(update.src, Head(update.add)) /\ UNCHANGED listed
            /\ update' = NoUpdate \/ update'.add = Tail(update.add)
        BY <2>1, <2>11 DEF UpdateAdd, UpdateOK
      <3> QED
        BY <1>6, <2>2, <2>3, <2>5, <2>6, <3>1
    <2>12. CASE UpdateFails
      BY <2>2, <2>3, <2>12 DEF UpdateFails
    <2>13. CASE Serve
      BY <1>6, <2>2, <2>13 DEF Serve, BootUnchanged
    <2>14. CASE DaemonDies /\ UNCHANGED fromRules
      BY <2>2, <2>3, <2>14 DEF DaemonDies
    <2>15. ASSUME NEW s \in Sandbox, AddFromRule(s) \/ TearFromRule(s)
           PROVE  From(fromRules') /\ UNCHANGED <<listed, update>>
      <3>1. /\ addr[s] \in Addr /\ todo[s] \in Seq(Rule) /\ todo[s] # << >>
            /\ LeadTo(S, Range(todo[s])) /\ UNCHANGED <<listed, update>>
        BY <2>1, <2>15
        DEF AddFromRule, TearFromRule, PluginUnchanged, daemonVars, SandboxesOK, SandboxOK,
            SetupSteps, TeardownSteps, UsedInv, S
      <3>2. CASE AddFromRule(s)
        BY <2>5, <2>6, <3>1, <3>2 DEF AddFromRule
      <3>3. CASE TearFromRule(s)
        BY <2>4, <3>1, <3>3 DEF TearFromRule
      <3> QED
        BY <2>15, <3>1, <3>2, <3>3
    <2> QED
      BY <1>6, <2>2, <2>7, <2>8, <2>9, <2>10, <2>11, <2>12, <2>13, <2>14, <2>15, PolicySteps
  <1> QED
    BY <1>2, <1>7, <1>8 DEF UsedInv, S

----------------------------------------------------------------------------
(* Running pods are routed: the theorem *)

\* Every step keeps the rules of the pods,
LEMMA RoutesStep ==
    ASSUME BaseInv, RoutedInv, Distinct, "slow" \notin Faults, [Next]_vars
    PROVE  RoutesInv'
  <1> USE DEF RoutedInv
  <1>1. ASSUME UNCHANGED <<daemon, pluginVars, histVars, fromRules, links, listed, update, todoPods,
                           podsIP>>
        PROVE  RoutesInv'
    BY <1>1, QuietRouted DEF pluginVars, histVars, routeVars
  <1>2. CASE DaemonNext
    <2>1. CASE Boot
      BY <2>1, QuietRouted DEF Boot, BootUnchanged, pluginVars, NoFault, histVars, routeVars
    <2>2. CASE ListPodsAndRules \/ RecoverPod \/ UpdateDel \/ UpdateAdd \/ UpdateFails \/ Serve
      BY <2>2, ListRouted, RecoverRouted, UpdateDelRouted, UpdateAddRouted, UpdateFailsRouted,
         ServeRouted
    <2>3. ASSUME NEW n \in NIC, NextAttachedNIC(n) PROVE RoutesInv'
      BY <1>1, <2>3 DEF NextAttachedNIC, BootUnchanged, NoFault
    <2>4. ASSUME NEW n \in NIC, setupNICNetwork(n) PROVE RoutesInv'
      BY <1>1, <2>4
      DEF setupNICNetwork, SetupLink, CleanRoutes, AddRoutes, SetupUnchanged, NoFault
    <2>5. ASSUME NEW n \in NIC, SetupNicFails(n) PROVE RoutesInv'
      <3>1. CASE daemon = "ready"
        BY <2>5, <3>1, QuietRouted DEF SetupNicFails, kernelVars, pluginVars, routeVars
      <3>2. CASE daemon # "ready"
        BY <2>5, <3>2, DeathRouted DEF SetupNicFails
      <3> QED
        BY <3>1, <3>2
    <2> QED
      BY <1>2, <2>1, <2>2, <2>3, <2>4, <2>5 DEF DaemonNext
  <1>3. CASE PoolNext
    BY <1>3, AttachRouted, DetachRouted DEF PoolNext
  <1>4. ASSUME NEW s \in Sandbox, PluginNext(s) \/ AddNetwork(s) \/ KillSandbox(s)
        PROVE  RoutesInv'
    BY <1>4, PluginRouted, AddNetworkRouted, ReleaseRouted, AddFromRuleRouted, TearFromRuleRouted
    DEF PluginNext, SetupNS, TearDownNS
  <1>5. ASSUME NEW s \in Sandbox, DestroyNetns(s) PROVE RoutesInv'
    BY <1>5, QuietRouted DEF DestroyNetns, PluginUnchanged, daemonVars, pluginVars, routeVars
  <1>6. CASE Crash
    BY <1>6, DeathRouted DEF Crash
  <1>7. CASE UNCHANGED vars
    BY <1>1, <1>7 DEF vars, kernelVars, daemonVars
  <1> QED
    BY <1>2, <1>3, <1>4, <1>5, <1>6, <1>7 DEF Next

\* and the whole invariant.
LEMMA RoutedStep ==
    ASSUME BaseInv, RoutedInv, Distinct, "slow" \notin Faults, [Next]_vars
    PROVE  RoutedInv'
  BY RoutesStep, SetUpStep, UsedStep DEF RoutedInv

\* While the daemon serves every rule to a NIC on the host decides.
LEMMA InvRouted ==
    ASSUME BaseInv, RoutedInv, Distinct
    PROVE  RunningPodsRouted
  <1>1. SUFFICES ASSUME daemon = "ready", NEW s \in Sandbox, NEW d \in Dst, Up(s),
                        addr[s] \notin broken
                 PROVE  Owns(Outgoing(addr[s], d), addr[s])
    BY DEF RunningPodsRouted
  <1> DEFINE a == addr[s]
  <1>2. a \in Addr /\ RulesInv
    BY <1>1 DEF BaseInv, RulesInv, SandboxesOK, SandboxOK, Up
  <1>3. Covers(OwnTables, Range(fromRules[a]))
    <2>1. todoPods = {} /\ update = NoUpdate
      BY <1>1 DEF RoutedInv, RoutesInv, RecoveryInv, BaseInv, PodNetworkInv, PhaseInv
    <2> QED
      BY <1>1, <2>1 DEF RoutedInv, RoutesInv, SandboxRules, Routed
  <1>4. PICK i \in DOMAIN fromRules[a] :
          fromRules[a][i].dst \in {d, AnyDst} /\ fromRules[a][i].table \in OwnTables
    BY <1>3 DEF Covers, Range
  <1>5. fromRules[a][i].table \in SoundTables
    BY <1>2 DEF RoutedInv, UsedInv, LeadTo, Range
  <1>6. Routing(a, d) # {}
    BY <1>1, <1>4, <1>5 DEF SoundTables, Sound, Live, Routing
  <1>7. PICK j \in Routing(a, d) : Outgoing(a, d) = tables[fromRules[a][j].table]
    BY <1>2, <1>6, FirstRule
  <1>8. Outgoing(a, d) # None
    BY <1>7 DEF Routing
  <1>9. Numbered
    BY DEF Distinct, Numbered
  <1> QED
    BY <1>1, <1>2, <1>8, <1>9, RulesOwn DEF OwnNICOnly

\* If the numbers differ and the cooling period outlasts a teardown, what a running
\* pod sends leaves through its own NIC while the daemon serves, unless the last
\* update of its rules failed (RunningPodsRouted): whatever rules earlier pods have
\* left, UpdateRuleListBySrc of pkg/networkutils/networkutil.go keeps the table of the
\* last one, and addContainerRule and prepareLocalPods write rules for every network.
THEOREM RunningPodsRoutedCorrect ==
    ASSUME Distinct, "slow" \notin Faults
    PROVE  Spec => []RunningPodsRouted
  <1>1. Init => BaseInv /\ RoutedInv
    BY InitInv, InitRules, InitRouted DEF BaseInv
  <1>2. BaseInv /\ RoutedInv /\ [Next]_vars => BaseInv' /\ RoutedInv'
    BY StepInv, StepRules, RoutedStep DEF BaseInv
  <1>3. BaseInv /\ RoutedInv => RunningPodsRouted
    BY InvRouted
  <1> QED
    BY <1>1, <1>2, <1>3, PTL DEF Spec

=============================================================================
