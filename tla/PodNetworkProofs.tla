-------------------------- MODULE PodNetworkProofs --------------------------
(***************************************************************************)
(* Proofs about PodNetwork for every value of its constants.  Each address *)
(* in use is followed through the store, the sandboxes and the tables of   *)
(* the kernel, over crashes and recoveries of the daemon.                  *)
(***************************************************************************)
EXTENDS PodNetwork, TLAPS

----------------------------------------------------------------------------
(* The invariant *)

\* A sandbox that has been given an address and not yet released it.
Using(s) ==
    \/ step[s] \in SetupSteps \cup {"up"}
    \/ step[s] = "deleting" /\ addr[s] # None

\* A sandbox whose del has released its address and is taking the policy back.
Tearing(s) == step[s] \in TeardownSteps

\* A sandbox between its add and the end of its del.
Alive(s) == step[s] \notin {"none", "gone"}

\* The types the proof needs.
StateInv ==
    /\ links \subseteq NIC /\ localAddr \subseteq links /\ stored \subseteq links
    /\ setting \in [nic : links \cup {None}, at : {"idle", "link", "routeDel", "routeAdd"}]
    /\ toRules \subseteq Addr
    /\ veth \in [Pod -> Sandbox \cup {None}]
    /\ hostRoute \in [Addr -> Sandbox \cup {None}]
    /\ daemon \in {"down", "nics", "pods", "ready"}
    /\ step \in [Sandbox -> SetupSteps \cup TeardownSteps \cup
                   {"none", "up", "cleanup", "failed", "deleting", "gone"}]
    /\ addr \in [Sandbox -> Addr \cup {None}]
    /\ \A k \in DOMAIN podsIP : podsIP[k].addr \in Addr
    /\ \A r \in todoPods : r.addr \in Addr
    /\ \A s \in Sandbox : Using(s) \/ Tearing(s) => addr[s] # None
    /\ \A s \in Sandbox : step[s] = "failed" => addr[s] = None

\* The kubelet runs one sandbox of a pod at a time.
OnePerPod ==
    \A s, t \in Sandbox : s # t /\ Alive(s) /\ Alive(t) => PodOf[s] # PodOf[t]

\* No address in use is in the hands of another sandbox, one that tears down
\* included.
Exclusive ==
    \A s, t \in Sandbox : s # t /\ Using(s) /\ (Using(t) \/ Tearing(t)) => addr[s] # addr[t]

\* The daemon has the address of a sandbox in its store, or among the pods it
\* has yet to recover.
HoldsAddr(s) == \E k \in DOMAIN podsIP : k[1] = PodOf[s] /\ podsIP[k].addr = addr[s]

ToRecover(s) == \E r \in todoPods : r.key[1] = PodOf[s] /\ r.addr = addr[s]

\* What the daemon knows and what sandboxes use agree: while it serves it holds
\* every address in use, and it never holds one for another pod.
HeldInv ==
    /\ \A s \in Sandbox : Using(s) =>
         /\ daemon = "ready" => HoldsAddr(s)
         /\ daemon = "pods" => HoldsAddr(s) \/ ToRecover(s)
    /\ \A s \in Sandbox, k \in DOMAIN podsIP :
         Using(s) /\ podsIP[k].addr = addr[s] => k[1] = PodOf[s]
    /\ \A s \in Sandbox, r \in todoPods :
         Using(s) /\ r.addr = addr[s] => r.key[1] = PodOf[s]

\* AssignPodIPv4Address never finds an entry for the key it is given, so that the
\* address it is asked for is the one it records.
KeysInv ==
    /\ \A r \in todoPods : r.key \notin DOMAIN podsIP
    /\ \A q, r \in todoPods : q # r => q.key # r.key
    /\ \A r \in todoPods, s \in Sandbox : r.key # Key(s)
    /\ \A s \in Sandbox : Key(s) \in DOMAIN podsIP => step[s] # "none"

\* What is true of each part of a start-up.
PhaseInv ==
    /\ daemon # "ready" => \A s \in Sandbox : step[s] \notin SetupSteps
    /\ daemon \in {"down", "nics"} => DOMAIN podsIP = {}
    /\ daemon # "pods" => todoPods = {}

\* Every address in use is on a NIC that is set up: attached, and no longer
\* configured as an address of the host.
NICInv ==
    /\ \A m, n \in links : m # n => AddrOf[m] # AddrOf[n]
    /\ stored \cap localAddr = {}
    /\ setting.at \in {"routeDel", "routeAdd"} => setting.nic \notin localAddr
    /\ todoNICs \subseteq links /\ (daemon # "nics" => todoNICs = {})
    /\ daemon = "nics" => links \subseteq todoNICs \cup stored \cup {setting.nic}
    /\ daemon = "pods" => links \subseteq stored
    /\ \A s \in Sandbox : Using(s) =>
         /\ \E n \in links : AddrOf[n] = addr[s]
         /\ \A n \in localAddr : AddrOf[n] # addr[s]

\* How far the policy of a sandbox has been built at each step of SetupNS.
WiredInv ==
    /\ \A p \in Pod : veth[p] # None => PodOf[veth[p]] = p
    /\ \A s \in Sandbox :
         /\ step[s] \in {"route", "delTo", "addTo", "addFrom", "up"} => veth[PodOf[s]] = s
         /\ step[s] \in {"delTo", "addTo", "addFrom", "up"} => hostRoute[addr[s]] = s
         /\ step[s] \in {"addFrom", "up"} => addr[s] \in toRules

\* The inductive invariant.
PodNetworkInv ==
    /\ StateInv /\ OnePerPod /\ Exclusive /\ HeldInv /\ KeysInv /\ PhaseInv /\ NICInv
    /\ WiredInv

----------------------------------------------------------------------------
(* The initial state, and the steps that take no address *)

\* Nothing is in use at the beginning.
LEMMA InitInv == Init => PodNetworkInv
  <1> SUFFICES ASSUME Init PROVE PodNetworkInv
    OBVIOUS
  <1>1. DOMAIN podsIP = {}
    BY DEF Init
  <1>2. StateInv
    BY <1>1, PodNetworkAssumption
    DEF Init, StateInv, Idle, Using, Tearing, SetupSteps, TeardownSteps
  <1>3. OnePerPod /\ Exclusive
    BY DEF Init, OnePerPod, Exclusive, Using, Alive, SetupSteps
  <1>4. HeldInv /\ KeysInv /\ PhaseInv
    BY <1>1 DEF Init, HeldInv, KeysInv, PhaseInv, Using, SetupSteps
  <1>5. NICInv
    BY DEF Init, NICInv, Idle, Using, SetupSteps
  <1>6. WiredInv
    BY PodNetworkAssumption DEF Init, WiredInv
  <1> QED
    BY <1>2, <1>3, <1>4, <1>5, <1>6 DEF PodNetworkInv

\* A step that lets go of addresses and takes none.
Narrows ==
    \A s \in Sandbox :
        /\ Using(s)' => Using(s) /\ addr'[s] = addr[s]
        /\ Tearing(s)' => Tearing(s) /\ addr'[s] = addr[s]
        /\ Alive(s)' => Alive(s)
        /\ step'[s] \in SetupSteps => step[s] \in SetupSteps
        /\ step'[s] = "none" => step[s] = "none"

\* Letting go disturbs no agreement about addresses,
LEMMA NarrowHold ==
    ASSUME PodNetworkInv, Narrows, UNCHANGED <<podsIP, todoPods, daemon>>
    PROVE  (OnePerPod /\ Exclusive /\ HeldInv /\ KeysInv /\ PhaseInv)'
  <1>1. OnePerPod'
    BY DEF PodNetworkInv, OnePerPod, Narrows
  <1>2. Exclusive'
    BY DEF PodNetworkInv, Exclusive, Narrows
  <1>3. HeldInv'
    BY DEF PodNetworkInv, HeldInv, Narrows, HoldsAddr, ToRecover
  <1>4. KeysInv'
    BY DEF PodNetworkInv, KeysInv, Narrows, Key
  <1>5. PhaseInv'
    BY DEF PodNetworkInv, PhaseInv, Narrows
  <1> QED
    BY <1>1, <1>2, <1>3, <1>4, <1>5

\* nor their NICs.
LEMMA NarrowNIC ==
    ASSUME PodNetworkInv, Narrows, UNCHANGED <<links, localAddr, stored, setting, todoNICs, daemon>>
    PROVE  NICInv'
  BY DEF PodNetworkInv, NICInv, Narrows

\* What the steps of a plugin process leave alone.
daemonView == <<links, localAddr, setting, todoNICs, stored, daemon, podsIP, todoPods>>

\* Nothing is taken when the plugin does nothing.
LEMMA SameNarrow ==
    ASSUME UNCHANGED <<step, addr>>
    PROVE  Narrows
  BY DEF Narrows, Using, Tearing, Alive

\* The policy of a sandbox lasts while its tables do.
LEMMA SameWired ==
    ASSUME PodNetworkInv, UNCHANGED <<veth, hostRoute, toRules>>,
           \A s \in Sandbox : step'[s] \in {"route", "delTo", "addTo", "addFrom", "up"} =>
               step'[s] = step[s] /\ addr'[s] = addr[s]
    PROVE  WiredInv'
  BY DEF PodNetworkInv, WiredInv

----------------------------------------------------------------------------
(* The daemon *)

\* UpdateRuleListBySrc touches nothing a packet to a pod depends on.
LEMMA QuietInv ==
    ASSUME PodNetworkInv,
           UNCHANGED <<links, localAddr, toRules, veth, hostRoute, daemon, setting, todoNICs,
                       stored, podsIP, todoPods, step, addr>>
    PROVE  PodNetworkInv'
  <1>1. StateInv'
    BY DEF PodNetworkInv, StateInv, Using, Tearing
  <1>2. Narrows
    BY SameNarrow
  <1>3. (OnePerPod /\ Exclusive /\ HeldInv /\ KeysInv /\ PhaseInv)'
    BY <1>2, NarrowHold
  <1>4. NICInv'
    BY <1>2, NarrowNIC
  <1>5. WiredInv'
    BY SameWired
  <1> QED
    BY <1>1, <1>3, <1>4, <1>5 DEF PodNetworkInv

\* setupNICNetwork makes the address of a NIC a pod's before it stores it.
LEMMA NICSetupInv ==
    ASSUME PodNetworkInv, NEW n \in NIC, setupNICNetwork(n)
    PROVE  PodNetworkInv'
  <1>1. /\ UNCHANGED <<links, toRules, veth, hostRoute, daemon, todoNICs, podsIP, todoPods, step,
                       addr>>
        /\ localAddr' \subseteq localAddr
    BY DEF setupNICNetwork, SetupLink, CleanRoutes, AddRoutes, SetupUnchanged, pluginVars
  <1>2. /\ n \in links /\ setting.nic = n
        /\ setting' \in [nic : links \cup {None}, at : {"idle", "link", "routeDel", "routeAdd"}]
    BY PodNetworkAssumption
    DEF PodNetworkInv, StateInv, setupNICNetwork, SetupLink, CleanRoutes, AddRoutes, At, Advance,
        Idle
  <1>3. stored' \subseteq links
    BY <1>2 DEF PodNetworkInv, StateInv, setupNICNetwork, SetupLink, CleanRoutes, AddRoutes
  <1>4. StateInv'
    BY <1>1, <1>2, <1>3 DEF PodNetworkInv, StateInv, Using, Tearing
  <1>5. Narrows
    BY <1>1, SameNarrow
  <1>6. (OnePerPod /\ Exclusive /\ HeldInv /\ KeysInv /\ PhaseInv)'
    BY <1>1, <1>5, NarrowHold
  <1>7. WiredInv'
    BY <1>1, SameWired
  <1>8. NICInv'
    <2>1. stored' \cap localAddr' = {}
      BY <1>1, <1>2
      DEF PodNetworkInv, NICInv, setupNICNetwork, SetupLink, CleanRoutes, AddRoutes, At
    <2>2. setting'.at \in {"routeDel", "routeAdd"} => setting'.nic \notin localAddr'
      BY <1>2
      DEF PodNetworkInv, NICInv, setupNICNetwork, SetupLink, CleanRoutes, AddRoutes, At, Advance,
          Idle
    <2>3. daemon = "nics" => links \subseteq todoNICs \cup stored' \cup {setting'.nic}
      BY <1>2
      DEF PodNetworkInv, NICInv, setupNICNetwork, SetupLink, CleanRoutes, AddRoutes, At, Advance,
          Idle
    <2>4. stored \subseteq stored'
      BY DEF setupNICNetwork, SetupLink, CleanRoutes, AddRoutes
    <2> QED
      BY <1>1, <2>1, <2>2, <2>3, <2>4 DEF PodNetworkInv, NICInv, Using
  <1> QED
    BY <1>4, <1>6, <1>7, <1>8 DEF PodNetworkInv

\* A death of the daemon between setups leaves every running pod connected.
LEMMA DeathInv ==
    ASSUME PodNetworkInv, DaemonDies, UNCHANGED <<kernelVars, pluginVars>>,
           \A s \in Sandbox : step[s] \notin SetupSteps
    PROVE  PodNetworkInv'
  <1>1. /\ UNCHANGED <<links, localAddr, toRules, veth, hostRoute, step, addr>>
        /\ daemon' = "down" /\ setting' = Idle /\ todoNICs' = {} /\ stored' = {} /\ todoPods' = {}
        /\ DOMAIN podsIP' = {}
    BY DEF DaemonDies, kernelVars, pluginVars
  <1>2. StateInv'
    BY <1>1 DEF PodNetworkInv, StateInv, Using, Tearing, Idle
  <1>3. OnePerPod' /\ Exclusive'
    BY <1>1 DEF PodNetworkInv, OnePerPod, Exclusive, Alive, Using, Tearing
  <1>4. HeldInv' /\ KeysInv' /\ PhaseInv'
    BY <1>1 DEF HeldInv, KeysInv, PhaseInv, Using
  <1>5. NICInv'
    BY <1>1 DEF PodNetworkInv, NICInv, Idle, Using
  <1>6. WiredInv'
    BY <1>1 DEF PodNetworkInv, WiredInv
  <1> QED
    BY <1>2, <1>3, <1>4, <1>5, <1>6 DEF PodNetworkInv

\* A failed setupNICNetwork leaves the NIC out of the store.
LEMMA SetupNicFailsInv ==
    ASSUME PodNetworkInv, NEW n \in NIC, SetupNicFails(n)
    PROVE  PodNetworkInv'
  <1>1. CASE daemon = "ready"
    <2>1. /\ UNCHANGED <<links, localAddr, toRules, veth, hostRoute, daemon, todoNICs, stored,
                         podsIP, todoPods, step, addr>>
          /\ setting' = Idle
      BY <1>1 DEF SetupNicFails, kernelVars, pluginVars
    <2>2. StateInv'
      BY <2>1 DEF PodNetworkInv, StateInv, Using, Tearing, Idle
    <2>3. (OnePerPod /\ Exclusive /\ HeldInv /\ KeysInv /\ PhaseInv)'
      BY <2>1, SameNarrow, NarrowHold
    <2>4. NICInv'
      BY <1>1, <2>1 DEF PodNetworkInv, NICInv, Using, Idle
    <2>5. WiredInv'
      BY <2>1, SameWired
    <2> QED
      BY <2>2, <2>3, <2>4, <2>5 DEF PodNetworkInv
  <1>2. CASE daemon # "ready"
    BY <1>2, DeathInv DEF SetupNicFails, PodNetworkInv, PhaseInv
  <1> QED
    BY <1>1, <1>2

\* The daemon is killed.
LEMMA CrashInv ==
    ASSUME PodNetworkInv, Crash
    PROVE  PodNetworkInv'
  BY DeathInv DEF Crash

\* The host configures the address of a new NIC only, which no pod has.
LEMMA AttachNICInv ==
    ASSUME PodNetworkInv, NEW n \in NIC, AttachNIC(n)
    PROVE  PodNetworkInv'
  <1>1. /\ UNCHANGED <<toRules, veth, hostRoute, daemon, todoNICs, stored, podsIP, todoPods, step,
                       addr>>
        /\ daemon = "ready" /\ n \notin links /\ \A m \in links : AddrOf[m] # AddrOf[n]
        /\ links' = links \cup {n} /\ localAddr' = localAddr \cup {n}
        /\ setting' = [nic |-> n, at |-> "link"]
    BY DEF AttachNIC, AddNIC, Advance, pluginVars
  <1>2. StateInv'
    BY <1>1 DEF PodNetworkInv, StateInv, Using, Tearing
  <1>3. (OnePerPod /\ Exclusive /\ HeldInv /\ KeysInv /\ PhaseInv)'
    BY <1>1, SameNarrow, NarrowHold
  <1>4. NICInv'
    BY <1>1 DEF PodNetworkInv, StateInv, NICInv, Using
  <1>5. WiredInv'
    BY <1>1, SameWired
  <1> QED
    BY <1>2, <1>3, <1>4, <1>5 DEF PodNetworkInv

\* A NIC goes only when the store says that no pod has its address.
LEMMA DetachNICInv ==
    ASSUME PodNetworkInv, NEW n \in NIC, DetachNIC(n)
    PROVE  PodNetworkInv'
  <1>1. /\ UNCHANGED <<toRules, veth, hostRoute, daemon, setting, todoNICs, podsIP, todoPods, step,
                       addr>>
        /\ daemon = "ready" /\ setting = Idle /\ AddrOf[n] \notin Held
        /\ links' = links \ {n} /\ localAddr' = localAddr \ {n} /\ stored' = stored \ {n}
    BY DEF DetachNIC, pluginVars
  <1>2. StateInv'
    BY <1>1 DEF PodNetworkInv, StateInv, Using, Tearing, Idle
  <1>3. (OnePerPod /\ Exclusive /\ HeldInv /\ KeysInv /\ PhaseInv)'
    BY <1>1, SameNarrow, NarrowHold
  <1>4. \A s \in Sandbox : Using(s) => addr[s] # AddrOf[n]
    BY <1>1 DEF PodNetworkInv, HeldInv, HoldsAddr, Held
  <1>5. NICInv'
    BY <1>1, <1>4 DEF PodNetworkInv, NICInv, Using, Idle
  <1>6. WiredInv'
    BY <1>1, SameWired
  <1> QED
    BY <1>2, <1>3, <1>5, <1>6 DEF PodNetworkInv

\* At start-up the daemon knows no pod, and serves none.
LEMMA BootInv ==
    ASSUME PodNetworkInv, Boot
    PROVE  PodNetworkInv'
  <1>1. /\ UNCHANGED <<links, localAddr, toRules, veth, hostRoute, setting, stored, podsIP,
                       todoPods, step, addr>>
        /\ daemon = "down" /\ daemon' = "nics" /\ todoNICs' = links
    BY DEF Boot, BootUnchanged, pluginVars
  <1>2. StateInv'
    BY <1>1 DEF PodNetworkInv, StateInv, Using, Tearing
  <1>3. OnePerPod' /\ Exclusive'
    BY <1>1 DEF PodNetworkInv, OnePerPod, Exclusive, Alive, Using, Tearing
  <1>4. HeldInv' /\ KeysInv' /\ PhaseInv'
    BY <1>1 DEF PodNetworkInv, HeldInv, KeysInv, PhaseInv, Using
  <1>5. NICInv'
    BY <1>1 DEF PodNetworkInv, NICInv, Using
  <1>6. WiredInv'
    BY <1>1, SameWired
  <1> QED
    BY <1>2, <1>3, <1>4, <1>5, <1>6 DEF PodNetworkInv

\* The loop over the attached NICs misses none.
LEMMA NextAttachedNICInv ==
    ASSUME PodNetworkInv, NEW n \in NIC, NextAttachedNIC(n)
    PROVE  PodNetworkInv'
  <1>1. /\ UNCHANGED <<links, localAddr, toRules, veth, hostRoute, daemon, stored, podsIP, todoPods,
                       step, addr>>
        /\ daemon = "nics" /\ setting = Idle /\ n \in todoNICs /\ todoNICs' = todoNICs \ {n}
        /\ setting' = [nic |-> n, at |-> "link"]
    BY DEF NextAttachedNIC, AddNIC, Advance, BootUnchanged, pluginVars
  <1>2. n \in links
    BY <1>1 DEF PodNetworkInv, NICInv
  <1>3. StateInv'
    BY <1>1, <1>2 DEF PodNetworkInv, StateInv, Using, Tearing
  <1>4. (OnePerPod /\ Exclusive /\ HeldInv /\ KeysInv /\ PhaseInv)'
    BY <1>1, SameNarrow, NarrowHold
  <1>5. NICInv'
    BY <1>1, PodNetworkAssumption DEF PodNetworkInv, StateInv, NICInv, Using, Idle
  <1>6. WiredInv'
    BY <1>1, SameWired
  <1> QED
    BY <1>3, <1>4, <1>5, <1>6 DEF PodNetworkInv

\* The API server shows every address in use, and each for its pod.
LEMMA ListPodsInv ==
    ASSUME PodNetworkInv, ListPodsAndRules
    PROVE  PodNetworkInv'
  <1>1. /\ UNCHANGED <<links, localAddr, toRules, veth, hostRoute, setting, todoNICs, stored,
                       podsIP, step>>
        /\ daemon = "nics" /\ setting = Idle /\ todoNICs = {} /\ daemon' = "pods"
    BY DEF ListPodsAndRules, kernelVars
  <1>2. PICK L \in SUBSET Listable, c \in {NoContainer, AppContainer} :
          /\ {s \in Listable : step[s] = "up"} \subseteq L
          /\ todoPods' = {[key |-> <<PodOf[s], c>>, addr |-> addr[s]] : s \in L}
          /\ addr' = [s \in Sandbox |->
                        IF step[s] = "deleting" /\ s \notin L THEN None ELSE addr[s]]
    BY DEF ListPodsAndRules
  <1>3. \A t \in L : t \in Sandbox /\ Alive(t) /\ addr[t] \in Addr /\ (Using(t) \/ Tearing(t))
    BY <1>2 DEF Listable, PodNetworkInv, StateInv, Alive, Using, Tearing, TeardownSteps
  <1>4. \A r \in todoPods' : \E t \in L : r = [key |-> <<PodOf[t], c>>, addr |-> addr[t]]
    BY <1>2
  <1>5. Narrows
    BY <1>1, <1>2 DEF Narrows, Using, Tearing, Alive, TeardownSteps, SetupSteps
  <1>6. \A s \in Sandbox : Using(s)' => s \in L
    BY <1>1, <1>2 DEF PodNetworkInv, PhaseInv, StateInv, Using, Listable
  <1>7. StateInv'
    <2>1. \A r \in todoPods' : r.addr \in Addr
      BY <1>3, <1>4
    <2>2. \A s \in Sandbox : (Using(s) \/ Tearing(s) => addr[s] # None)'
      BY <1>5 DEF Narrows, PodNetworkInv, StateInv
    <2> QED
      BY <1>1, <1>2, <2>1, <2>2 DEF PodNetworkInv, StateInv
  <1>8. OnePerPod' /\ Exclusive'
    BY <1>5 DEF Narrows, PodNetworkInv, OnePerPod, Exclusive
  <1>9. HeldInv'
    <2>1. \A s \in Sandbox : Using(s)' => ToRecover(s)'
      <3>1. SUFFICES ASSUME NEW s \in Sandbox, Using(s)' PROVE ToRecover(s)'
        OBVIOUS
      <3>2. [key |-> <<PodOf[s], c>>, addr |-> addr[s]] \in todoPods' /\ addr'[s] = addr[s]
        BY <1>2, <1>5, <1>6, <3>1 DEF Narrows
      <3> QED
        BY <3>2 DEF ToRecover
    <2>2. \A s \in Sandbox, r \in todoPods' : Using(s)' /\ r.addr = addr'[s] => r.key[1] = PodOf[s]
      BY <1>3, <1>4, <1>5 DEF Narrows, PodNetworkInv, Exclusive
    <2>3. DOMAIN podsIP' = {}
      BY <1>1 DEF PodNetworkInv, PhaseInv
    <2> QED
      BY <1>1, <2>1, <2>2, <2>3 DEF HeldInv
  <1>10. KeysInv'
    <2>1. \A q, r \in todoPods' : q # r => q.key # r.key
      BY <1>3, <1>4 DEF PodNetworkInv, OnePerPod
    <2>2. \A r \in todoPods', s \in Sandbox : r.key # Key(s)
      BY <1>4, PodNetworkAssumption DEF Key
    <2> QED
      BY <1>1, <2>1, <2>2 DEF PodNetworkInv, KeysInv, PhaseInv, Key
  <1>11. PhaseInv'
    BY <1>1 DEF PodNetworkInv, PhaseInv
  <1>12. NICInv'
    BY <1>1, <1>5, PodNetworkAssumption DEF PodNetworkInv, StateInv, NICInv, Narrows, Idle
  <1>13. WiredInv'
    BY <1>1, <1>2, SameWired
  <1> QED
    BY <1>7, <1>8, <1>9, <1>10, <1>11, <1>12, <1>13 DEF PodNetworkInv

\* A round of prepareLocalPods records the address the pod has.
LEMMA RecoverPodInv ==
    ASSUME PodNetworkInv, RecoverPod
    PROVE  PodNetworkInv'
  <1>1. /\ UNCHANGED <<links, localAddr, toRules, veth, hostRoute, daemon, setting, todoNICs,
                       stored, step, addr>>
        /\ daemon = "pods"
    BY DEF RecoverPod, BootUnchanged, pluginVars
  <1>2. PICK r \in todoPods :
          /\ todoPods' = todoPods \ {r}
          /\ IF \E n \in stored : AddrOf[n] = r.addr
               THEN \E n \in {m \in stored : AddrOf[m] = r.addr} :
                      podsIP' = [k \in DOMAIN podsIP \cup {r.key} |->
                                   IF k \in DOMAIN podsIP THEN podsIP[k]
                                   ELSE [addr |-> r.addr, num |-> number[n]]]
               ELSE UNCHANGED podsIP
    BY DEF RecoverPod
  <1>3. r.key \notin DOMAIN podsIP /\ r.addr \in Addr
    BY DEF PodNetworkInv, KeysInv, StateInv
  <1>4. Narrows
    BY <1>1, SameNarrow
  <1>5. OnePerPod' /\ Exclusive'
    BY <1>4 DEF Narrows, PodNetworkInv, OnePerPod, Exclusive
  <1>6. NICInv'
    BY <1>1, <1>4, NarrowNIC
  <1>7. WiredInv'
    BY <1>1, SameWired
  <1>8. PhaseInv'
    BY <1>1 DEF PodNetworkInv, PhaseInv
  <1>9. CASE \E n \in stored : AddrOf[n] = r.addr
    <2>1. /\ DOMAIN podsIP' = DOMAIN podsIP \cup {r.key}
          /\ podsIP'[r.key].addr = r.addr
          /\ \A k \in DOMAIN podsIP : podsIP'[k] = podsIP[k]
      BY <1>2, <1>3, <1>9
    <2>2. StateInv'
      BY <1>1, <1>2, <1>3, <2>1 DEF PodNetworkInv, StateInv, Using, Tearing
    <2>3. HeldInv'
      <3>1. \A s \in Sandbox : Using(s)' => (HoldsAddr(s) \/ ToRecover(s))'
        BY <1>1, <1>2, <2>1 DEF PodNetworkInv, HeldInv, HoldsAddr, ToRecover, Using
      <3>2. \A s \in Sandbox, k \in DOMAIN podsIP' :
              Using(s)' /\ podsIP'[k].addr = addr'[s] => k[1] = PodOf[s]
        BY <1>1, <2>1 DEF PodNetworkInv, HeldInv, Using
      <3> QED
        BY <1>1, <1>2, <3>1, <3>2 DEF PodNetworkInv, HeldInv, Using
    <2>4. KeysInv'
      BY <1>1, <1>2, <2>1 DEF PodNetworkInv, KeysInv, Key
    <2> QED
      BY <1>5, <1>6, <1>7, <1>8, <2>2, <2>3, <2>4 DEF PodNetworkInv
  <1>10. CASE ~ \E n \in stored : AddrOf[n] = r.addr
    <2>1. podsIP' = podsIP
      BY <1>2, <1>10
    <2>2. StateInv'
      BY <1>1, <1>2, <2>1 DEF PodNetworkInv, StateInv, Using, Tearing
    <2>3. \A s \in Sandbox : Using(s) => r.addr # addr[s]
      BY <1>1, <1>10 DEF PodNetworkInv, NICInv
    <2>4. HeldInv'
      BY <1>1, <1>2, <2>1, <2>3 DEF PodNetworkInv, HeldInv, HoldsAddr, ToRecover, Using
    <2>5. KeysInv'
      BY <1>1, <1>2, <2>1 DEF PodNetworkInv, KeysInv, Key
    <2> QED
      BY <1>5, <1>6, <1>7, <1>8, <2>2, <2>4, <2>5 DEF PodNetworkInv
  <1> QED
    BY <1>9, <1>10

\* When the daemon begins to serve it holds every address in use.
LEMMA ServeInv ==
    ASSUME PodNetworkInv, Serve
    PROVE  PodNetworkInv'
  <1>1. /\ UNCHANGED <<links, localAddr, toRules, veth, hostRoute, setting, todoNICs, stored,
                       podsIP, todoPods, step, addr>>
        /\ daemon = "pods" /\ todoPods = {} /\ daemon' = "ready"
    BY DEF Serve, BootUnchanged, pluginVars
  <1>2. StateInv'
    BY <1>1 DEF PodNetworkInv, StateInv, Using, Tearing
  <1>3. OnePerPod' /\ Exclusive'
    BY <1>1 DEF PodNetworkInv, OnePerPod, Exclusive, Alive, Using, Tearing
  <1>4. HeldInv'
    BY <1>1 DEF PodNetworkInv, HeldInv, HoldsAddr, ToRecover, Using
  <1>5. KeysInv' /\ PhaseInv'
    BY <1>1 DEF PodNetworkInv, KeysInv, PhaseInv, Key
  <1>6. NICInv'
    BY <1>1 DEF PodNetworkInv, NICInv, Using
  <1>7. WiredInv'
    BY <1>1, SameWired
  <1> QED
    BY <1>2, <1>3, <1>4, <1>5, <1>6, <1>7 DEF PodNetworkInv

----------------------------------------------------------------------------
(* SetupNS and TeardownNS, call by call *)

\* What remains to be shown of a step of the plugin that takes no address.
LEMMA NarrowInv ==
    ASSUME PodNetworkInv, Narrows, UNCHANGED daemonView, StateInv', WiredInv'
    PROVE  PodNetworkInv'
  BY NarrowHold, NarrowNIC DEF PodNetworkInv, daemonView

\* The interface that is deleted is that of an earlier sandbox of this pod, and
\* the routes that go with it are not those of a running one.
LEMMA CreateVethInv ==
    ASSUME PodNetworkInv, NEW s \in Sandbox, CreateVeth(s)
    PROVE  PodNetworkInv'
  <1>1. /\ step[s] = "veth" /\ step' = [step EXCEPT ![s] = "route"]
        /\ veth' = [veth EXCEPT ![PodOf[s]] = s]
        /\ hostRoute' = [a \in Addr |->
                           IF hostRoute[a] = veth[PodOf[s]] THEN None ELSE hostRoute[a]]
        /\ UNCHANGED <<daemonView, addr, toRules>>
    BY DEF CreateVeth, PluginUnchanged, Go, daemonVars, daemonView
  <1>2. Narrows
    BY <1>1 DEF PodNetworkInv, StateInv, Narrows, Using, Tearing, Alive, SetupSteps, TeardownSteps
  <1>3. StateInv'
    <2>1. veth' \in [Pod -> Sandbox \cup {None}]
      BY <1>1, PodNetworkAssumption DEF PodNetworkInv, StateInv
    <2>2. hostRoute' \in [Addr -> Sandbox \cup {None}]
      BY <1>1 DEF PodNetworkInv, StateInv
    <2> QED
      BY <1>1, <1>2, <2>1, <2>2 DEF PodNetworkInv, StateInv, Narrows, daemonView, SetupSteps
  <1>4. WiredInv'
    <2>1. PodOf[s] \in Pod /\ veth \in [Pod -> Sandbox \cup {None}]
      BY PodNetworkAssumption DEF PodNetworkInv, StateInv
    <2>2. \A t \in Sandbox \ {s} : Alive(t) => PodOf[t] # PodOf[s] /\ veth[PodOf[s]] # t
      BY <1>1, <2>1, PodNetworkAssumption DEF PodNetworkInv, WiredInv, OnePerPod, Alive
    <2>3. \A t \in Sandbox \ {s} : step'[t] = step[t] /\ addr'[t] = addr[t]
      BY <1>1 DEF PodNetworkInv, StateInv
    <2>4. veth'[PodOf[s]] = s /\ step'[s] = "route"
      BY <1>1, <2>1 DEF PodNetworkInv, StateInv
    <2>5. ASSUME NEW t \in Sandbox \ {s},
                 step[t] \in {"route", "delTo", "addTo", "addFrom", "up"}
          PROVE  /\ veth'[PodOf[t]] = veth[PodOf[t]]
                 /\ hostRoute[addr[t]] = t => hostRoute'[addr[t]] = t
      <3>1. addr[t] \in Addr /\ Alive(t) /\ PodOf[t] \in Pod
        BY <2>5, PodNetworkAssumption DEF PodNetworkInv, StateInv, Using, Alive, SetupSteps
      <3> QED
        BY <1>1, <2>1, <2>2, <3>1
    <2>6. \A p \in Pod : veth'[p] # None => PodOf[veth'[p]] = p
      BY <1>1, <2>1 DEF PodNetworkInv, WiredInv
    <2> QED
      BY <1>1, <2>3, <2>4, <2>5, <2>6 DEF PodNetworkInv, WiredInv
  <1> QED
    BY <1>1, <1>2, <1>3, <1>4, NarrowInv

\* The route is replaced for an address that only this sandbox uses.
LEMMA ReplaceRouteInv ==
    ASSUME PodNetworkInv, NEW s \in Sandbox, ReplaceRoute(s)
    PROVE  PodNetworkInv'
  <1>1. /\ step[s] = "route" /\ step' = [step EXCEPT ![s] = "delTo"]
        /\ hostRoute' = [hostRoute EXCEPT ![addr[s]] = s]
        /\ UNCHANGED <<daemonView, addr, toRules, veth>>
    BY DEF ReplaceRoute, PluginUnchanged, Go, daemonVars, daemonView
  <1>2. Narrows
    BY <1>1 DEF PodNetworkInv, StateInv, Narrows, Using, Tearing, Alive, SetupSteps, TeardownSteps
  <1>3. StateInv'
    BY <1>1, <1>2, PodNetworkAssumption
    DEF PodNetworkInv, StateInv, Narrows, daemonView, SetupSteps, TeardownSteps
  <1>4. WiredInv'
    BY <1>1, PodNetworkAssumption
    DEF PodNetworkInv, StateInv, WiredInv, OnePerPod, Exclusive, Using, Tearing, Alive, SetupSteps,
        TeardownSteps
  <1> QED
    BY <1>1, <1>2, <1>3, <1>4, NarrowInv

\* The rule that is deleted is for an address that only this sandbox uses.
LEMMA DelToRuleInv ==
    ASSUME PodNetworkInv, NEW s \in Sandbox, DelToRule(s)
    PROVE  PodNetworkInv'
  <1>1. /\ step[s] = "delTo" /\ step' = [step EXCEPT ![s] = "addTo"]
        /\ toRules' = toRules \ {addr[s]}
        /\ UNCHANGED <<daemonView, addr, veth, hostRoute>>
    BY DEF DelToRule, PluginUnchanged, Go, daemonVars, daemonView
  <1>2. Narrows
    BY <1>1 DEF PodNetworkInv, StateInv, Narrows, Using, Tearing, Alive, SetupSteps, TeardownSteps
  <1>3. StateInv'
    BY <1>1, <1>2, PodNetworkAssumption
    DEF PodNetworkInv, StateInv, Narrows, daemonView, SetupSteps, TeardownSteps
  <1>4. WiredInv'
    BY <1>1, PodNetworkAssumption
    DEF PodNetworkInv, StateInv, WiredInv, OnePerPod, Exclusive, Using, Tearing, Alive, SetupSteps,
        TeardownSteps
  <1> QED
    BY <1>1, <1>2, <1>3, <1>4, NarrowInv

\* The rule is there from now on.
LEMMA AddToRuleInv ==
    ASSUME PodNetworkInv, NEW s \in Sandbox, AddToRule(s)
    PROVE  PodNetworkInv'
  <1>1. /\ step[s] = "addTo" /\ step' = [step EXCEPT ![s] = "addFrom"]
        /\ toRules' = toRules \cup {addr[s]}
        /\ UNCHANGED <<daemonView, addr, veth, hostRoute>>
    BY DEF AddToRule, PluginUnchanged, Go, daemonVars, daemonView
  <1>2. Narrows
    BY <1>1 DEF PodNetworkInv, StateInv, Narrows, Using, Tearing, Alive, SetupSteps, TeardownSteps
  <1>3. StateInv'
    <2>1. addr[s] \in Addr
      BY <1>1 DEF PodNetworkInv, StateInv, Using, SetupSteps
    <2> QED
      BY <1>1, <1>2, <2>1 DEF PodNetworkInv, StateInv, Narrows, daemonView, SetupSteps
  <1>4. WiredInv'
    BY <1>1, PodNetworkAssumption
    DEF PodNetworkInv, StateInv, WiredInv, OnePerPod, Exclusive, Using, Tearing, Alive, SetupSteps,
        TeardownSteps
  <1> QED
    BY <1>1, <1>2, <1>3, <1>4, NarrowInv

\* The sandbox is up with all that was made for it.
LEMMA AddFromRuleInv ==
    ASSUME PodNetworkInv, NEW s \in Sandbox, AddFromRule(s)
    PROVE  PodNetworkInv'
  <1>1. /\ step[s] = "addFrom" /\ (step' = step \/ step' = [step EXCEPT ![s] = "up"])
        /\ UNCHANGED <<daemonView, addr, toRules, veth, hostRoute>>
    BY DEF AddFromRule, PluginUnchanged, Go, daemonVars, daemonView
  <1>2. Narrows
    BY <1>1 DEF PodNetworkInv, StateInv, Narrows, Using, Tearing, Alive, SetupSteps, TeardownSteps
  <1>3. StateInv'
    <2>1. step' \in [Sandbox -> SetupSteps \cup TeardownSteps \cup
                       {"none", "up", "cleanup", "failed", "deleting", "gone"}]
      BY <1>1 DEF PodNetworkInv, StateInv
    <2>2. \A t \in Sandbox : step'[t] = "failed" => step[t] = "failed"
      BY <1>1 DEF PodNetworkInv, StateInv
    <2> QED
      BY <1>1, <1>2, <2>1, <2>2 DEF PodNetworkInv, StateInv, Narrows, daemonView
  <1>4. WiredInv'
    BY <1>1 DEF PodNetworkInv, StateInv, WiredInv
  <1> QED
    BY <1>1, <1>2, <1>3, <1>4, NarrowInv

\* A failed SetupNS gives its address up.
LEMMA SetupNSFailsInv ==
    ASSUME PodNetworkInv, NEW s \in Sandbox, SetupNSFails(s)
    PROVE  PodNetworkInv'
  <1>1. /\ step[s] \in SetupSteps /\ step' = [step EXCEPT ![s] = "cleanup"]
        /\ UNCHANGED <<daemonView, addr, toRules, veth, hostRoute>>
    BY DEF SetupNSFails, daemonVars, kernelVars, Go, daemonView
  <1>2. Narrows
    BY <1>1 DEF PodNetworkInv, StateInv, Narrows, Using, Tearing, Alive, SetupSteps, TeardownSteps
  <1>3. StateInv'
    BY <1>1, <1>2, PodNetworkAssumption
    DEF PodNetworkInv, StateInv, Narrows, daemonView, SetupSteps, TeardownSteps
  <1>4. WiredInv'
    BY <1>1, SameWired DEF PodNetworkInv, StateInv, SetupSteps, TeardownSteps
  <1> QED
    BY <1>1, <1>2, <1>3, <1>4, NarrowInv

\* The kubelet calls del.
LEMMA KillSandboxInv ==
    ASSUME PodNetworkInv, NEW s \in Sandbox, KillSandbox(s)
    PROVE  PodNetworkInv'
  <1>1. /\ step[s] \in {"up", "failed"} /\ step' = [step EXCEPT ![s] = "deleting"]
        /\ UNCHANGED <<daemonView, addr, toRules, veth, hostRoute>>
    BY DEF KillSandbox, daemonVars, kernelVars, Go, daemonView
  <1>2. Narrows
    BY <1>1 DEF PodNetworkInv, StateInv, Narrows, Using, Tearing, Alive, SetupSteps, TeardownSteps
  <1>3. StateInv'
    BY <1>1, <1>2, PodNetworkAssumption
    DEF PodNetworkInv, StateInv, Narrows, daemonView, SetupSteps, TeardownSteps
  <1>4. WiredInv'
    BY <1>1, SameWired DEF PodNetworkInv, StateInv, SetupSteps, TeardownSteps
  <1> QED
    BY <1>1, <1>2, <1>3, <1>4, NarrowInv

\* A sandbox the daemon does not know is gone.
LEMMA DelNetworkUnknownInv ==
    ASSUME PodNetworkInv, NEW s \in Sandbox, DelNetworkUnknown(s)
    PROVE  PodNetworkInv'
  <1>1. /\ step[s] = "deleting" /\ step' = [step EXCEPT ![s] = "gone"]
        /\ addr' = [addr EXCEPT ![s] = None]
        /\ UNCHANGED <<daemonView, toRules, veth, hostRoute>>
    BY DEF DelNetworkUnknown, ReleaseUnchanged, Go, kernelVars, daemonView
  <1>2. Narrows
    BY <1>1 DEF PodNetworkInv, StateInv, Narrows, Using, Tearing, Alive, SetupSteps, TeardownSteps
  <1>3. StateInv'
    BY <1>1, <1>2, PodNetworkAssumption
    DEF PodNetworkInv, StateInv, Narrows, daemonView, SetupSteps, TeardownSteps
  <1>4. WiredInv'
    BY <1>1, SameWired DEF PodNetworkInv, StateInv, SetupSteps, TeardownSteps
  <1> QED
    BY <1>1, <1>2, <1>3, <1>4, NarrowInv

\* A teardown takes back only what is no other sandbox's: the "to" rule,
LEMMA TearToRuleInv ==
    ASSUME PodNetworkInv, NEW s \in Sandbox, TearToRule(s)
    PROVE  PodNetworkInv'
  <1>1. /\ step[s] = "tearTo" /\ step' = [step EXCEPT ![s] = "tearList"]
        /\ toRules' \in {toRules, toRules \ {addr[s]}}
        /\ UNCHANGED <<daemonView, addr, veth, hostRoute>>
    BY DEF TearToRule, PluginUnchanged, Go, daemonVars, daemonView
  <1>2. Narrows
    BY <1>1 DEF PodNetworkInv, StateInv, Narrows, Using, Tearing, Alive, SetupSteps, TeardownSteps
  <1>3. StateInv'
    BY <1>1, <1>2, PodNetworkAssumption
    DEF PodNetworkInv, StateInv, Narrows, daemonView, SetupSteps, TeardownSteps
  <1>4. WiredInv'
    BY <1>1, PodNetworkAssumption
    DEF PodNetworkInv, StateInv, WiredInv, OnePerPod, Exclusive, Using, Tearing, Alive, SetupSteps,
        TeardownSteps
  <1> QED
    BY <1>1, <1>2, <1>3, <1>4, NarrowInv

\* the list of its "from" rules,
LEMMA TearListInv ==
    ASSUME PodNetworkInv, NEW s \in Sandbox, TearList(s)
    PROVE  PodNetworkInv'
  <1>1. /\ step[s] = "tearList"
        /\ \E at \in TeardownSteps : step' = [step EXCEPT ![s] = at]
        /\ UNCHANGED <<daemonView, addr, toRules, veth, hostRoute>>
    BY DEF TearList, PluginUnchanged, Go, daemonVars, TeardownSteps, daemonView
  <1>2. Narrows
    BY <1>1 DEF PodNetworkInv, StateInv, Narrows, Using, Tearing, Alive, SetupSteps, TeardownSteps
  <1>3. StateInv'
    BY <1>1, <1>2, PodNetworkAssumption
    DEF PodNetworkInv, StateInv, Narrows, daemonView, SetupSteps, TeardownSteps
  <1>4. WiredInv'
    BY <1>1, SameWired DEF PodNetworkInv, StateInv, SetupSteps, TeardownSteps
  <1> QED
    BY <1>1, <1>2, <1>3, <1>4, NarrowInv

\* those rules,
LEMMA TearFromRuleInv ==
    ASSUME PodNetworkInv, NEW s \in Sandbox, TearFromRule(s)
    PROVE  PodNetworkInv'
  <1>1. /\ step[s] = "tearFrom" /\ (step' = step \/ step' = [step EXCEPT ![s] = "tearRoute"])
        /\ UNCHANGED <<daemonView, addr, toRules, veth, hostRoute>>
    BY DEF TearFromRule, PluginUnchanged, Go, daemonVars, daemonView
  <1>2. Narrows
    BY <1>1 DEF PodNetworkInv, StateInv, Narrows, Using, Tearing, Alive, SetupSteps, TeardownSteps
  <1>3. StateInv'
    BY <1>1, <1>2, PodNetworkAssumption
    DEF PodNetworkInv, StateInv, Narrows, daemonView, SetupSteps, TeardownSteps
  <1>4. WiredInv'
    BY <1>1, SameWired DEF PodNetworkInv, StateInv, SetupSteps, TeardownSteps
  <1> QED
    BY <1>1, <1>2, <1>3, <1>4, NarrowInv

\* nothing if it fails,
LEMMA TearDownNSFailsInv ==
    ASSUME PodNetworkInv, NEW s \in Sandbox, TearDownNSFails(s)
    PROVE  PodNetworkInv'
  <1>1. /\ step[s] \in TeardownSteps /\ step' = [step EXCEPT ![s] = "deleting"]
        /\ addr' = [addr EXCEPT ![s] = None]
        /\ UNCHANGED <<daemonView, toRules, veth, hostRoute>>
    BY DEF TearDownNSFails, daemonVars, kernelVars, Go, TeardownSteps, daemonView
  <1>2. Narrows
    BY <1>1 DEF PodNetworkInv, StateInv, Narrows, Using, Tearing, Alive, SetupSteps, TeardownSteps
  <1>3. StateInv'
    BY <1>1, <1>2, PodNetworkAssumption
    DEF PodNetworkInv, StateInv, Narrows, daemonView, SetupSteps, TeardownSteps
  <1>4. WiredInv'
    BY <1>1, SameWired DEF PodNetworkInv, StateInv, SetupSteps, TeardownSteps
  <1> QED
    BY <1>1, <1>2, <1>3, <1>4, NarrowInv

\* and the route.
LEMMA TearRouteInv ==
    ASSUME PodNetworkInv, NEW s \in Sandbox, TearRoute(s)
    PROVE  PodNetworkInv'
  <1>1. /\ step[s] = "tearRoute" /\ step' = [step EXCEPT ![s] = "gone"]
        /\ addr' = [addr EXCEPT ![s] = None]
        /\ hostRoute' \in {hostRoute, [hostRoute EXCEPT ![addr[s]] = None]}
        /\ UNCHANGED <<daemonView, toRules, veth>>
    BY DEF TearRoute, PluginUnchanged, Go, daemonVars, daemonView
  <1>2. Narrows
    BY <1>1 DEF PodNetworkInv, StateInv, Narrows, Using, Tearing, Alive, SetupSteps, TeardownSteps
  <1>3. StateInv'
    <2>1. addr[s] \in Addr /\ hostRoute' \in [Addr -> Sandbox \cup {None}]
      BY <1>1 DEF PodNetworkInv, StateInv, Tearing, TeardownSteps
    <2> QED
      BY <1>1, <1>2, <2>1 DEF PodNetworkInv, StateInv, Narrows, daemonView, TeardownSteps
  <1>4. WiredInv'
    BY <1>1, PodNetworkAssumption
    DEF PodNetworkInv, StateInv, WiredInv, OnePerPod, Exclusive, Using, Tearing, Alive, SetupSteps,
        TeardownSteps
  <1> QED
    BY <1>1, <1>2, <1>3, <1>4, NarrowInv

\* The interface that vanishes with a sandbox is not a running one's.
LEMMA DestroyNetnsInv ==
    ASSUME PodNetworkInv, NEW s \in Sandbox, DestroyNetns(s)
    PROVE  PodNetworkInv'
  <1>1. /\ step[s] = "gone" /\ veth[PodOf[s]] = s /\ step' = step
        /\ veth' = [veth EXCEPT ![PodOf[s]] = None]
        /\ hostRoute' = [a \in Addr |-> IF hostRoute[a] = s THEN None ELSE hostRoute[a]]
        /\ UNCHANGED <<daemonView, addr, toRules>>
    BY DEF DestroyNetns, PluginUnchanged, pluginVars, daemonVars, daemonView
  <1>2. Narrows
    BY <1>1 DEF PodNetworkInv, StateInv, Narrows, Using, Tearing, Alive, SetupSteps, TeardownSteps
  <1>3. StateInv'
    <2>1. veth' \in [Pod -> Sandbox \cup {None}]
      BY <1>1, PodNetworkAssumption DEF PodNetworkInv, StateInv
    <2>2. hostRoute' \in [Addr -> Sandbox \cup {None}]
      BY <1>1 DEF PodNetworkInv, StateInv
    <2> QED
      BY <1>1, <1>2, <2>1, <2>2 DEF PodNetworkInv, StateInv, Narrows, daemonView, SetupSteps
  <1>4. WiredInv'
    <2>1. PodOf[s] \in Pod /\ veth \in [Pod -> Sandbox \cup {None}]
      BY PodNetworkAssumption DEF PodNetworkInv, StateInv
    <2>2. \A t \in Sandbox : veth[PodOf[t]] = t /\ Alive(t) => PodOf[t] # PodOf[s]
      BY <1>1 DEF Alive
    <2>3. ASSUME NEW t \in Sandbox,
                 step[t] \in {"route", "delTo", "addTo", "addFrom", "up"}
          PROVE  /\ veth'[PodOf[t]] = veth[PodOf[t]]
                 /\ hostRoute[addr[t]] = t => hostRoute'[addr[t]] = t
      <3>1. addr[t] \in Addr /\ Alive(t) /\ PodOf[t] \in Pod /\ t # s
        BY <1>1, <2>3, PodNetworkAssumption DEF PodNetworkInv, StateInv, Using, Alive, SetupSteps
      <3>2. veth[PodOf[t]] = t
        BY <2>3 DEF PodNetworkInv, WiredInv
      <3> QED
        BY <1>1, <2>1, <2>2, <3>1, <3>2
    <2>4. \A p \in Pod : veth'[p] # None => PodOf[veth'[p]] = p
      BY <1>1, <2>1 DEF PodNetworkInv, WiredInv
    <2> QED
      BY <1>1, <2>3, <2>4 DEF PodNetworkInv, WiredInv
  <1> QED
    BY <1>1, <1>2, <1>3, <1>4, NarrowInv

----------------------------------------------------------------------------
(* Addresses taken and released *)

\* The address that is released is that of the pod whose sandbox goes.
LEMMA ReleaseHold ==
    ASSUME PodNetworkInv, Narrows, UNCHANGED <<todoPods, daemon>>, daemon = "ready",
           NEW s \in Sandbox, NEW k \in DOMAIN podsIP, DelKey(s, k), Release(k), Alive(s),
           ~Using(s)
    PROVE  (OnePerPod /\ Exclusive /\ HeldInv /\ KeysInv /\ PhaseInv)'
  <1>1. k[1] = PodOf[s]
    BY DEF DelKey, Key
  <1>2. \A t \in Sandbox : Using(t) => PodOf[t] # PodOf[s]
    BY DEF PodNetworkInv, OnePerPod, Using, Alive, SetupSteps
  <1>3. /\ DOMAIN podsIP' = DOMAIN podsIP \ {k}
        /\ \A j \in DOMAIN podsIP' : podsIP'[j] = podsIP[j]
    BY DEF Release
  <1>4. OnePerPod'
    BY DEF PodNetworkInv, OnePerPod, Narrows
  <1>5. Exclusive'
    BY DEF PodNetworkInv, Exclusive, Narrows
  <1>6. HeldInv'
    BY <1>1, <1>2, <1>3 DEF PodNetworkInv, HeldInv, Narrows, HoldsAddr, ToRecover
  <1>7. KeysInv'
    BY <1>3 DEF PodNetworkInv, KeysInv, Narrows, Key
  <1>8. PhaseInv'
    BY <1>3 DEF PodNetworkInv, PhaseInv, Narrows
  <1> QED
    BY <1>4, <1>5, <1>6, <1>7, <1>8

\* The address of a new sandbox is held by no pod and no teardown is working on
\* it.
LEMMA AddNetworkInv ==
    ASSUME PodNetworkInv, "slow" \notin Faults, NEW s \in Sandbox, AddNetwork(s)
    PROVE  PodNetworkInv'
  <1>1. PICK n \in stored :
          /\ AddrOf[n] \notin Held /\ Cooled(AddrOf[n])
          /\ podsIP' = [k \in DOMAIN podsIP \cup {Key(s)} |->
                          IF k \in DOMAIN podsIP THEN podsIP[k]
                          ELSE [addr |-> AddrOf[n], num |-> number[n]]]
          /\ addr' = [addr EXCEPT ![s] = AddrOf[n]]
    BY DEF AddNetwork
  <1> DEFINE a == AddrOf[n]
  <1>2. /\ step[s] = "none" /\ daemon = "ready" /\ step' = [step EXCEPT ![s] = "veth"]
        /\ \A t \in Sandbox : PodOf[t] = PodOf[s] => ~Alive(t)
        /\ UNCHANGED <<links, localAddr, toRules, veth, hostRoute, daemon, setting, todoNICs,
                       stored, todoPods>>
    BY DEF AddNetwork, Go, Alive, kernelVars
  <1>3. /\ n \in links /\ n \notin localAddr /\ a \in Addr /\ a # None /\ PodOf[s] \in Pod
        /\ \A m \in localAddr : AddrOf[m] # a
    BY PodNetworkAssumption DEF PodNetworkInv, StateInv, NICInv
  <1>4. /\ step'[s] = "veth" /\ addr'[s] = a
        /\ \A t \in Sandbox \ {s} : step'[t] = step[t] /\ addr'[t] = addr[t]
    BY <1>1, <1>2, <1>3 DEF PodNetworkInv, StateInv
  <1>5. /\ Using(s)' /\ ~Tearing(s)' /\ Alive(s)'
        /\ \A t \in Sandbox \ {s} :
             Using(t)' = Using(t) /\ Tearing(t)' = Tearing(t) /\ Alive(t)' = Alive(t)
    BY <1>4 DEF Using, Tearing, Alive, SetupSteps, TeardownSteps
  <1>6. Key(s) \notin DOMAIN podsIP
    BY <1>2 DEF PodNetworkInv, KeysInv
  <1>7. /\ DOMAIN podsIP' = DOMAIN podsIP \cup {Key(s)}
        /\ podsIP'[Key(s)].addr = a
        /\ \A k \in DOMAIN podsIP : podsIP'[k] = podsIP[k] /\ podsIP[k].addr # a
    BY <1>1, <1>6 DEF Held
  <1>8. \A t \in Sandbox : Using(t) \/ Tearing(t) => addr[t] # a
    BY <1>1, <1>2, <1>7 DEF PodNetworkInv, HeldInv, HoldsAddr, Cooled, Tearing
  <1> HIDE DEF a
  <1>9. StateInv'
    BY <1>1, <1>2, <1>3, <1>4, <1>5 DEF PodNetworkInv, StateInv, SetupSteps, a
  <1>10. OnePerPod'
    BY <1>2, <1>5 DEF PodNetworkInv, OnePerPod
  <1>11. Exclusive'
    BY <1>4, <1>5, <1>8 DEF PodNetworkInv, Exclusive
  <1>12. HeldInv'
    <2>1. HoldsAddr(s)'
      BY <1>4, <1>7 DEF HoldsAddr, Key
    <2>2. \A t \in Sandbox \ {s} : Using(t)' => HoldsAddr(t)'
      BY <1>2, <1>4, <1>5, <1>7 DEF PodNetworkInv, HeldInv, HoldsAddr
    <2>3. \A t \in Sandbox, k \in DOMAIN podsIP' :
            Using(t)' /\ podsIP'[k].addr = addr'[t] => k[1] = PodOf[t]
      BY <1>4, <1>5, <1>7, <1>8 DEF PodNetworkInv, HeldInv, Key
    <2> QED
      BY <1>2, <2>1, <2>2, <2>3 DEF HeldInv, PodNetworkInv, PhaseInv
  <1>13. KeysInv' /\ PhaseInv'
    BY <1>2, <1>4, <1>7 DEF PodNetworkInv, KeysInv, PhaseInv, Key
  <1>14. NICInv'
    BY <1>2, <1>3, <1>4, <1>5 DEF PodNetworkInv, NICInv, a
  <1>15. WiredInv'
    BY <1>2, <1>4 DEF PodNetworkInv, WiredInv
  <1> QED
    BY <1>9, <1>10, <1>11, <1>12, <1>13, <1>14, <1>15 DEF PodNetworkInv

\* The cleanup of a failed add releases no other pod's address.
LEMMA CleanupInv ==
    ASSUME PodNetworkInv, NEW s \in Sandbox, Cleanup(s)
    PROVE  PodNetworkInv'
  <1>1. /\ step[s] = "cleanup" /\ step' = [step EXCEPT ![s] = "failed"]
        /\ addr' = [addr EXCEPT ![s] = None]
        /\ UNCHANGED <<links, localAddr, toRules, veth, hostRoute, daemon, setting, todoNICs,
                       stored, todoPods>>
    BY DEF Cleanup, Go, ReleaseUnchanged, kernelVars
  <1>2. Narrows
    BY <1>1 DEF PodNetworkInv, StateInv, Narrows, Using, Tearing, Alive, SetupSteps, TeardownSteps
  <1>3. StateInv'
    <2>1. \A k \in DOMAIN podsIP' : k \in DOMAIN podsIP /\ podsIP'[k] = podsIP[k]
      BY DEF Cleanup, Release
    <2> QED
      BY <1>1, <2>1 DEF PodNetworkInv, StateInv, Using, Tearing, SetupSteps, TeardownSteps
  <1>4. NICInv'
    BY <1>1, <1>2, NarrowNIC
  <1>5. WiredInv'
    BY <1>1, SameWired DEF PodNetworkInv, StateInv
  <1>6. CASE UNCHANGED podsIP
    BY <1>1, <1>2, <1>3, <1>4, <1>5, <1>6, NarrowHold DEF PodNetworkInv
  <1>7. CASE daemon = "ready" /\ \E k \in DOMAIN podsIP : DelKey(s, k) /\ Release(k)
    <2>1. PICK k \in DOMAIN podsIP : DelKey(s, k) /\ Release(k)
      BY <1>7
    <2>2. Alive(s) /\ ~Using(s)
      BY <1>1 DEF Alive, Using, SetupSteps
    <2>3. (OnePerPod /\ Exclusive /\ HeldInv /\ KeysInv /\ PhaseInv)'
      BY <1>1, <1>2, <1>7, <2>1, <2>2, ReleaseHold
    <2> QED
      BY <1>3, <1>4, <1>5, <2>3 DEF PodNetworkInv
  <1> QED
    BY <1>6, <1>7 DEF Cleanup

\* The address del names in its reply is no other running pod's.
LEMMA DelNetworkInv ==
    ASSUME PodNetworkInv, NEW s \in Sandbox, DelNetwork(s)
    PROVE  PodNetworkInv'
  <1>1. PICK k \in DOMAIN podsIP :
          DelKey(s, k) /\ Release(k) /\ addr' = [addr EXCEPT ![s] = podsIP[k].addr]
    BY DEF DelNetwork
  <1>2. /\ step[s] = "deleting" /\ daemon = "ready" /\ step' = [step EXCEPT ![s] = "tearTo"]
        /\ UNCHANGED <<links, localAddr, toRules, veth, hostRoute, daemon, setting, todoNICs,
                       stored, todoPods>>
    BY DEF DelNetwork, Go, ReleaseUnchanged, kernelVars
  <1>3. podsIP[k].addr \in Addr /\ podsIP[k].addr # None
    BY PodNetworkAssumption DEF PodNetworkInv, StateInv
  <1>4. /\ step'[s] = "tearTo" /\ addr'[s] = podsIP[k].addr
        /\ \A t \in Sandbox \ {s} : step'[t] = step[t] /\ addr'[t] = addr[t]
    BY <1>1, <1>2, <1>3 DEF PodNetworkInv, StateInv
  <1>5. /\ ~Using(s)' /\ Tearing(s)' /\ Alive(s)' /\ Alive(s) /\ ~Tearing(s)
        /\ \A t \in Sandbox \ {s} :
             Using(t)' = Using(t) /\ Tearing(t)' = Tearing(t) /\ Alive(t)' = Alive(t)
    BY <1>2, <1>4 DEF Using, Tearing, Alive, SetupSteps, TeardownSteps
  <1>6. k[1] = PodOf[s]
    BY <1>1 DEF DelKey, Key
  <1>7. \A t \in Sandbox \ {s} : Using(t) => PodOf[t] # PodOf[s]
    BY <1>5 DEF PodNetworkInv, OnePerPod, Using, Alive, SetupSteps
  <1>8. StateInv'
    BY <1>1, <1>2, <1>3, <1>4, <1>5 DEF PodNetworkInv, StateInv, Release, TeardownSteps
  <1>9. OnePerPod'
    BY <1>5 DEF PodNetworkInv, OnePerPod
  <1>10. Exclusive'
    BY <1>4, <1>5, <1>6, <1>7 DEF PodNetworkInv, Exclusive, HeldInv
  <1>11. HeldInv'
    BY <1>1, <1>2, <1>4, <1>5, <1>6, <1>7 DEF PodNetworkInv, HeldInv, HoldsAddr, Release, PhaseInv
  <1>12. KeysInv' /\ PhaseInv'
    BY <1>1, <1>2, <1>4 DEF PodNetworkInv, KeysInv, PhaseInv, Key, Release, SetupSteps
  <1>13. NICInv'
    BY <1>2, <1>4, <1>5 DEF PodNetworkInv, NICInv
  <1>14. WiredInv'
    BY <1>2, <1>4 DEF PodNetworkInv, WiredInv
  <1> QED
    BY <1>8, <1>9, <1>10, <1>11, <1>12, <1>13, <1>14 DEF PodNetworkInv

----------------------------------------------------------------------------
(* The theorem *)

\* Every step but that of a teardown that outlives the cooling period keeps
\* the invariant.
LEMMA StepInv ==
    ASSUME "slow" \notin Faults, PodNetworkInv, [Next]_vars
    PROVE  PodNetworkInv'
  <1>1. CASE DaemonNext
    <2>1. CASE Boot
      BY <2>1, BootInv
    <2>2. CASE ListPodsAndRules
      BY <2>2, ListPodsInv
    <2>3. CASE RecoverPod
      BY <2>3, RecoverPodInv
    <2>4. CASE UpdateDel \/ UpdateAdd \/ UpdateFails
      BY <2>4, QuietInv DEF UpdateDel, UpdateAdd, UpdateFails, BootUnchanged, pluginVars
    <2>5. CASE Serve
      BY <2>5, ServeInv
    <2>6. ASSUME NEW n \in NIC, NextAttachedNIC(n) PROVE PodNetworkInv'
      BY <2>6, NextAttachedNICInv
    <2>7. ASSUME NEW n \in NIC, setupNICNetwork(n) PROVE PodNetworkInv'
      BY <2>7, NICSetupInv
    <2>8. ASSUME NEW n \in NIC, SetupNicFails(n) PROVE PodNetworkInv'
      BY <2>8, SetupNicFailsInv
    <2> QED
      BY <1>1, <2>1, <2>2, <2>3, <2>4, <2>5, <2>6, <2>7, <2>8 DEF DaemonNext
  <1>2. CASE PoolNext
    BY <1>2, AttachNICInv, DetachNICInv DEF PoolNext
  <1>3. ASSUME NEW s \in Sandbox, PluginNext(s) PROVE PodNetworkInv'
    <2>1. CASE SetupNS(s)
      BY <2>1, CreateVethInv, ReplaceRouteInv, DelToRuleInv, AddToRuleInv, AddFromRuleInv
      DEF SetupNS
    <2>2. CASE TearDownNS(s)
      BY <2>2, TearToRuleInv, TearListInv, TearFromRuleInv, TearRouteInv DEF TearDownNS
    <2>3. CASE SetupNSFails(s) \/ Cleanup(s) \/ TearDownNSFails(s)
      BY <2>3, SetupNSFailsInv, CleanupInv, TearDownNSFailsInv
    <2>4. CASE DelNetwork(s) \/ DelNetworkUnknown(s)
      BY <2>4, DelNetworkInv, DelNetworkUnknownInv
    <2> QED
      BY <1>3, <2>1, <2>2, <2>3, <2>4 DEF PluginNext
  <1>4. ASSUME NEW s \in Sandbox, AddNetwork(s) \/ KillSandbox(s) \/ DestroyNetns(s)
        PROVE  PodNetworkInv'
    BY <1>4, AddNetworkInv, KillSandboxInv, DestroyNetnsInv
  <1>5. CASE Crash
    BY <1>5, CrashInv
  <1>6. CASE UNCHANGED vars
    BY <1>6, QuietInv DEF vars, kernelVars, daemonVars, pluginVars
  <1> QED
    BY <1>1, <1>2, <1>3, <1>4, <1>5, <1>6 DEF Next

\* The last step of SetupNS has left everything in place.
LEMMA InvReachable == PodNetworkInv => PodReachable
  BY DEF PodNetworkInv, StateInv, WiredInv, NICInv, PodReachable, Up, Owns, Using

\* Unless a teardown outlives the cooling period, packets for a running pod
\* reach its own interface, whatever crashes and whichever calls fail
\* (PodReachable): SetupNS and TeardownNS of pkg/driver/driver.go, setupNic and
\* prepareLocalPods of pkg/ipam/ipam.go.
THEOREM PodReachableCorrect ==
    ASSUME "slow" \notin Faults
    PROVE  Spec => []PodReachable
  <1>1. PodNetworkInv /\ [Next]_vars => PodNetworkInv'
    BY StepInv
  <1> QED
    BY <1>1, InitInv, InvReachable, PTL DEF Spec

=============================================================================
