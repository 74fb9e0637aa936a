------------------------- MODULE HostNetworkProofs -------------------------
(* Proofs about HostNetwork for every value of its constants: any networks,  *)
(* lists of them, environments and marks, and any number of interruptions.   *)
EXTENDS HostNetwork, SequenceTheorems, TLAPS

Phase == {"down", "rpFilter", "ruleDel", "ruleAdd", "chains", "rules", "ready"}

Config == [useExternalSNAT : BOOLEAN, nodePortSupportEnabled : BOOLEAN,
           typeOfSNAT : SNATType, mainNICMark : Mark, vpcCIDRs : Lists \cup {<< >>}]

\* The rules chain i may hold, from this start or an earlier one.
SNATRule(i) ==
    {snatRule(type) : type \in SNATType}
      \cup IF i < MaxNetworks THEN {JumpUnless(c, i + 1) : c \in CIDR} ELSE {}

\* The rules the built-in chains may hold.
BuiltInRule ==
    {JumpUnless(AnyDst, 0), acceptRule("-i nic+"), acceptRule("-o nic+")}
      \cup {connmarkRule(PrimaryIntf, mark) : mark \in Mark}
      \cup {connmarkRule("eth0", mark) : mark \in Mark}
      \cup {restoreRule(mark) : mark \in Mark}

\* Each chain is a list of its own rules without repetition.
TablesType(tables) ==
    /\ BuiltIn \subseteq DOMAIN tables
    /\ DOMAIN tables \subseteq BuiltIn \cup {SNATChain(i) : i \in 0 .. MaxNetworks}
    /\ \A c \in BuiltIn : tables[c] \in Seq(BuiltInRule)
    /\ \A i \in 0 .. MaxNetworks : SNATChain(i) \in DOMAIN tables =>
         tables[SNATChain(i)] \in Seq(SNATRule(i))
    /\ \A c \in DOMAIN tables : IsInjective(tables[c])

\* The types; the process is at a chain or a rule that exists.
TypeInv ==
    /\ phase \in Phase /\ config \in Config
    /\ phase = "chains" => at \in 0 .. LastChain
    /\ phase = "rules" => at \in 1 .. LastChain + 6
    /\ phase \notin {"chains", "rules"} => at = 0
    /\ looseIntf \subseteq {PrimaryIntf} /\ markRules \subseteq Mark
    /\ TablesType(iptables)
    /\ stops \in 0 .. MaxStops /\ always \subseteq CIDR

\* The rule k of iptableRules has been treated by this start.
Past(k) == phase = "ready" \/ (phase = "rules" /\ at > k)

\* The rule this start puts into chain i, and its place in iptableRules.
OwnRule(i) ==
    IF i = LastChain THEN snatRule(config.typeOfSNAT)
                     ELSE JumpUnless(config.vpcCIDRs[i + 1], i + 1)
Turn(i) == IF i = LastChain THEN LastChain + 4 ELSE i + 2

\* The chains of this start are empty once made, and hold their own rule once
\* it was treated.
ChainsInv ==
    /\ phase = "chains" =>
         \A i \in 0 .. at - 1 : SNATChain(i) \in DOMAIN iptables /\ SNATRules(i) = {}
    /\ phase \in {"rules", "ready"} =>
         \A i \in 0 .. LastChain :
            /\ SNATChain(i) \in DOMAIN iptables
            /\ SNATRules(i) = IF Past(Turn(i)) /\ ~config.useExternalSNAT THEN {OwnRule(i)}
                                                                      ELSE {}

\* So do the built-in chains.
BuiltInInv ==
    LET mark == config.mainNICMark
        nodePort == config.nodePortSupportEnabled
    IN  /\ Past(1) => (Has(Chain("POSTROUTING", 0), JumpUnless(AnyDst, 0))
                         <=> ~config.useExternalSNAT)
        /\ Past(LastChain + 5) =>
             (Has(Chain("PREROUTING", 0), connmarkRule(primaryIntf, mark)) <=> nodePort)
        /\ Past(LastChain + 6) => (Has(Chain("PREROUTING", 0), restoreRule(mark)) <=> nodePort)

\* The mark's rule and the interface's filter, as far as this start has come.
MarkInv ==
    /\ phase \in {"ruleDel", "ruleAdd", "chains", "rules", "ready"} =>
         (config.nodePortSupportEnabled => PrimaryIntf \in looseIntf)
    /\ phase = "ruleAdd" => config.nodePortSupportEnabled
    /\ phase \in {"chains", "rules", "ready"} =>
         (config.mainNICMark \in markRules <=> config.nodePortSupportEnabled)

\* A chain without translation that packets to d do not leave, and none before it.
Barrier(d, j) ==
    /\ ~Passes(d, j)
    /\ \A i \in 0 .. j : \A r \in SNATRules(i) : r.target[1] # "SNAT"

\* Every network this start and all before it know has such a chain.
BarrierInv ==
    /\ phase # "down" => always \subseteq Range(config.vpcCIDRs)
    /\ \A d \in always : \E j \in 0 .. MaxNetworks : Barrier(d, j)

HostInv == TypeInv /\ ChainsInv /\ BuiltInInv /\ MarkInv /\ BarrierInv

----------------------------------------------------------------------------
(* Sequences of rules *)

\* Appending a rule that is not there keeps a list free of repetitions,
LEMMA AppendRuleFacts ==
    ASSUME NEW S, NEW q \in Seq(S), IsInjective(q), NEW r \in S, r \notin Range(q)
    PROVE  /\ Append(q, r) \in Seq(S) /\ IsInjective(Append(q, r))
           /\ Range(Append(q, r)) = Range(q) \cup {r}
  <1>1. \A i \in DOMAIN q : q[i] # r
    BY DEF Range
  <1>2. Len(q) \in Nat /\ DOMAIN q = 1 .. Len(q)
    BY LenProperties
  <1>3. /\ Append(q, r) \in Seq(S)
        /\ DOMAIN Append(q, r) = 1 .. Len(q) + 1
        /\ \A i \in 1 .. Len(q) : Append(q, r)[i] = q[i]
        /\ Append(q, r)[Len(q) + 1] = r
    BY AppendProperties, LenProperties
  <1>4. /\ \A i \in 1 .. Len(q) + 1 : i \in 1 .. Len(q) \/ i = Len(q) + 1
        /\ 1 .. Len(q) \subseteq 1 .. Len(q) + 1 /\ Len(q) + 1 \in 1 .. Len(q) + 1
    BY <1>2
  <1>5. IsInjective(Append(q, r))
    BY <1>1, <1>2, <1>3, <1>4 DEF IsInjective
  <1>6. Range(Append(q, r)) = Range(q) \cup {r}
    <2>1. ASSUME NEW x \in Range(Append(q, r)) PROVE x \in Range(q) \cup {r}
      BY <1>2, <1>3, <1>4 DEF Range
    <2>2. ASSUME NEW x \in Range(q) \cup {r} PROVE x \in Range(Append(q, r))
      BY <1>2, <1>3, <1>4 DEF Range
    <2> QED
      BY <2>1, <2>2
  <1> QED
    BY <1>3, <1>5, <1>6

\* and so does deleting the rule at a place.
LEMMA RemoveRuleFacts ==
    ASSUME NEW S, NEW q \in Seq(S), IsInjective(q), NEW i \in DOMAIN q
    PROVE  /\ RemoveAt(q, i) \in Seq(S) /\ IsInjective(RemoveAt(q, i))
           /\ Range(RemoveAt(q, i)) = Range(q) \ {q[i]}
  <1>1. Len(q) \in Nat /\ DOMAIN q = 1 .. Len(q) /\ i \in 1 .. Len(q)
        /\ \A j \in 1 .. Len(q) : q[j] \in S
    BY LenProperties
  <1> DEFINE u == SubSeq(q, 1, i - 1)
  <1> DEFINE v == SubSeq(q, i + 1, Len(q))
  <1> DEFINE w == u \o v
  <1> DEFINE Place(j) == IF j < i THEN j ELSE j + 1
  <1>2. /\ u \in Seq(S) /\ Len(u) = i - 1
        /\ \A j \in 1 .. i - 1 : u[j] = q[j]
    BY <1>1, SubSeqProperties, i - 1 \in Int, 1 \in Int, \A j \in 1 .. i - 1 : q[j] \in S
  <1>3. /\ v \in Seq(S) /\ Len(v) = Len(q) - i
        /\ \A j \in 1 .. Len(q) - i : v[j] = q[i + j]
    BY <1>1, SubSeqProperties, i + 1 \in Int, Len(q) \in Int, \A j \in i + 1 .. Len(q) : q[j] \in S
  <1> HIDE DEF u, v
  <1>4. /\ w \in Seq(S) /\ DOMAIN w = 1 .. Len(q) - 1
        /\ \A j \in 1 .. Len(q) - 1 : w[j] = q[Place(j)]
    <2>1. /\ w \in Seq(S) /\ DOMAIN w = 1 .. Len(u) + Len(v)
          /\ \A j \in 1 .. Len(u) + Len(v) : w[j] = IF j <= Len(u) THEN u[j] ELSE v[j - Len(u)]
      BY <1>2, <1>3, ConcatProperties, LenProperties
    <2>2. ASSUME NEW j \in 1 .. Len(q) - 1, j < i
          PROVE  w[j] = q[j]
      BY <1>1, <1>2, <1>3, <2>1, <2>2
    <2>3. ASSUME NEW j \in 1 .. Len(q) - 1, ~(j < i)
          PROVE  w[j] = q[j + 1]
      <3>1. j - (i - 1) \in 1 .. Len(q) - i /\ i + (j - (i - 1)) = j + 1
        BY <1>1, <2>3
      <3>2. j \in 1 .. Len(u) + Len(v) /\ ~(j <= Len(u)) /\ j - Len(u) = j - (i - 1)
        BY <1>1, <1>2, <1>3, <2>3
      <3>3. w[j] = v[j - (i - 1)]
        BY <2>1, <3>2
      <3>4. v[j - (i - 1)] = q[i + (j - (i - 1))]
        BY <1>3, <3>1
      <3> QED
        BY <3>1, <3>3, <3>4
    <2> QED
      BY <1>1, <1>2, <1>3, <2>1, <2>2, <2>3
  <1> HIDE DEF w
  <1>5. /\ \A j \in 1 .. Len(q) - 1 : Place(j) \in DOMAIN q /\ Place(j) # i
        /\ \A j, k \in 1 .. Len(q) - 1 : Place(j) = Place(k) => j = k
        /\ \A k \in DOMAIN q : k # i => \E j \in 1 .. Len(q) - 1 : Place(j) = k
    <2>1. ASSUME NEW k \in DOMAIN q, k # i
          PROVE  \E j \in 1 .. Len(q) - 1 : Place(j) = k
      <3>1. CASE k < i
        <4>1. k \in 1 .. Len(q) - 1
          BY <1>1, <3>1
        <4> QED
          BY <3>1, <4>1
      <3>2. CASE ~(k < i)
        <4>1. k - 1 \in 1 .. Len(q) - 1 /\ ~(k - 1 < i) /\ k - 1 + 1 = k
          BY <1>1, <2>1, <3>2
        <4> QED
          BY <4>1
      <3> QED
        BY <3>1, <3>2
    <2> QED
      BY <1>1, <2>1
  <1> HIDE DEF Place
  <1>6. IsInjective(w)
    BY <1>4, <1>5 DEF IsInjective
  <1>7. Range(w) = Range(q) \ {q[i]}
    <2>1. ASSUME NEW x \in Range(w) PROVE x \in Range(q) \ {q[i]}
      <3>1. PICK j \in 1 .. Len(q) - 1 : x = q[Place(j)]
        BY <1>4, <2>1 DEF Range
      <3> QED
        BY <1>5, <3>1 DEF Range, IsInjective
    <2>2. ASSUME NEW x \in Range(q) \ {q[i]} PROVE x \in Range(w)
      <3>1. PICK k \in DOMAIN q : x = q[k] /\ k # i
        BY <2>2 DEF Range
      <3>2. PICK j \in 1 .. Len(q) - 1 : Place(j) = k
        BY <1>5, <3>1
      <3> QED
        BY <1>4, <3>1, <3>2 DEF Range
    <2> QED
      BY <2>1, <2>2
  <1> QED
    BY <1>4, <1>6, <1>7 DEF RemoveAt, u, v, w

----------------------------------------------------------------------------
(* Chains and rules *)

\* No two chains have one name.
LEMMA ChainNames ==
    /\ \A i, j : SNATChain(i) = SNATChain(j) => i = j
    /\ \A i : SNATChain(i) \notin BuiltIn
    /\ Chain("POSTROUTING", 0) # Chain("PREROUTING", 0)
    /\ Chain("POSTROUTING", 0) # Chain("FORWARD", 0)
    /\ Chain("PREROUTING", 0) # Chain("FORWARD", 0)
    /\ Chain("POSTROUTING", 0) \in BuiltIn /\ Chain("PREROUTING", 0) \in BuiltIn
    /\ Chain("FORWARD", 0) \in BuiltIn
  BY DEF SNATChain, Chain, BuiltIn

\* A jump is no translation, and marking a connection is not restoring its mark.
LEMMA RuleKinds ==
    /\ \A type : snatRule(type).target = <<"SNAT", SNATFlag(type)>>
    /\ \A c, i : JumpUnless(c, i).target = SNATChain(i) /\ JumpUnless(c, i).match = c
    /\ \A i, t : SNATChain(i) # <<"SNAT", t>> /\ SNATChain(i)[1] # "SNAT"
    /\ \A intf, m, n : connmarkRule(intf, m) # restoreRule(n)
  BY DEF snatRule, JumpUnless, SNATChain, Chain, connmarkRule, restoreRule

\* The networks of a start are no more than MaxNetworks.
LEMMA ListFacts ==
    ASSUME config \in Config
    PROVE  /\ config.vpcCIDRs \in Seq(CIDR) /\ LastChain = Len(config.vpcCIDRs)
           /\ LastChain \in Nat /\ LastChain <= MaxNetworks
           /\ \A i \in 1 .. LastChain : config.vpcCIDRs[i] \in CIDR
  <1>1. /\ config.vpcCIDRs \in Seq(CIDR) /\ Len(config.vpcCIDRs) <= MaxNetworks
    <2>1. CASE config.vpcCIDRs \in Lists
      BY <2>1, HostNetworkAssumption
    <2>2. CASE config.vpcCIDRs = << >>
      BY <2>2, HostNetworkAssumption
    <2> QED
      BY <2>1, <2>2 DEF Config
  <1> QED
    BY <1>1 DEF LastChain

\* What a rule is, of which chain, and whether it should exist.
Item(should, chain, r) == [should |-> should, chain |-> chain, rule |-> r]

\* The rule SetupHostNetwork has come to: the jump to the first chain, the own
\* rule of one of the chains, or one of the other four.
LEMMA ItemCases ==
    ASSUME TypeInv, phase = "rules"
    PROVE  LET e == iptableRules[at]
               snat == ~config.useExternalSNAT
               nodePort == config.nodePortSupportEnabled
               mark == config.mainNICMark
           IN  /\ Len(iptableRules) = LastChain + 6
               /\ \/ /\ at = 1
                     /\ e = Item(snat, Chain("POSTROUTING", 0), JumpUnless(AnyDst, 0))
                  \/ \E i \in 0 .. LastChain :
                        at = Turn(i) /\ e = Item(snat, SNATChain(i), OwnRule(i))
                  \/ /\ at \in {LastChain + 2, LastChain + 3}
                     /\ \E d \in {"-i nic+", "-o nic+"} :
                          e = Item(TRUE, Chain("FORWARD", 0), acceptRule(d))
                  \/ /\ at = LastChain + 5
                     /\ e = Item(nodePort, Chain("PREROUTING", 0), connmarkRule(primaryIntf, mark))
                  \/ /\ at = LastChain + 6
                     /\ e = Item(nodePort, Chain("PREROUTING", 0), restoreRule(mark))
  <1> DEFINE snat == ~config.useExternalSNAT
             nodePort == config.nodePortSupportEnabled
             mark == config.mainNICMark
             cidrs == config.vpcCIDRs
             n == LastChain
             a == Item(snat, Chain("POSTROUTING", 0), JumpUnless(AnyDst, 0))
             q == [i \in DOMAIN cidrs |-> Item(snat, SNATChain(i - 1), JumpUnless(cidrs[i], i))]
             b == Item(TRUE, Chain("FORWARD", 0), acceptRule("-i nic+"))
             c == Item(TRUE, Chain("FORWARD", 0), acceptRule("-o nic+"))
             d == Item(snat, SNATChain(LastChain), snatRule(config.typeOfSNAT))
             e == Item(nodePort, Chain("PREROUTING", 0), connmarkRule(primaryIntf, mark))
             f == Item(nodePort, Chain("PREROUTING", 0), restoreRule(mark))
             T == {a, b, c, d, e, f} \cup Range(q)
  <1>1. n \in Nat /\ DOMAIN cidrs = 1 .. n /\ at \in 1 .. n + 6
    BY ListFacts, LenProperties DEF TypeInv
  <1>2. q \in Seq(T) /\ Len(q) = n
    <2>1. q \in [1 .. n -> T]
      BY <1>1 DEF Range
    <2> HIDE DEF q, T
    <2> QED
      BY <1>1, <2>1, SeqDef, LenProperties
  <1>3. iptableRules = <<a>> \o q \o <<b, c, d, e, f>>
    BY DEF iptableRules, Item
  <1>4. \A i \in 1 .. n : q[i] = Item(snat, SNATChain(i - 1), OwnRule(i - 1))
                          /\ i - 1 \in 0 .. n /\ Turn(i - 1) = i + 1
    BY <1>1 DEF OwnRule, Turn
  <1>5. d = Item(snat, SNATChain(n), OwnRule(n)) /\ Turn(n) = n + 4 /\ n \in 0 .. n
    BY <1>1 DEF OwnRule, Turn
  <1>6. a \in T /\ b \in T /\ c \in T /\ d \in T /\ e \in T /\ f \in T
    OBVIOUS
  <1> HIDE DEF a, b, c, d, e, f, q, T
  <1>7. /\ Len(iptableRules) = n + 6
        /\ iptableRules[1] = a
        /\ \A i \in 1 .. n : iptableRules[i + 1] = q[i]
        /\ iptableRules[n + 2] = b /\ iptableRules[n + 3] = c /\ iptableRules[n + 4] = d
        /\ iptableRules[n + 5] = e /\ iptableRules[n + 6] = f
    <2> DEFINE m == <<a>> \o q
               z == <<b, c, d, e, f>>
    <2>1. m \in Seq(T) /\ Len(m) = Len(q) + 1 /\ m[1] = a
      BY <1>2, <1>6
    <2>2. \A i \in 1 .. Len(q) : m[i + 1] = q[i]
      BY <1>2, <1>6
    <2>3. z \in Seq(T) /\ Len(z) = 5
      BY <1>2, <1>6
    <2>4. z[1] = b /\ z[2] = c /\ z[3] = d /\ z[4] = e /\ z[5] = f
      BY <1>2, <1>6
    <2>5. iptableRules = m \o z
      BY <1>3
    <2> HIDE DEF m, z
    <2>9. /\ m \o z \in Seq(T) /\ Len(m \o z) = Len(q) + 6
          /\ \A i \in 1 .. Len(q) + 6 :
               (m \o z)[i] = IF i <= Len(q) + 1 THEN m[i] ELSE z[i - (Len(q) + 1)]
      <3>1. /\ m \o z \in Seq(T) /\ Len(m \o z) = Len(m) + Len(z)
            /\ \A i \in 1 .. Len(m) + Len(z) :
                 (m \o z)[i] = IF i <= Len(m) THEN m[i] ELSE z[i - Len(m)]
        BY <2>1, <2>3, ConcatProperties
      <3>2. Len(q) \in Nat
        BY LenProperties
      <3>3. Len(m) + Len(z) = Len(q) + 6
        BY <2>1, <2>3, <3>2
      <3> QED
        BY <2>1, <3>1, <3>3
    <2>6. Len(q) \in Nat
      BY LenProperties
    <2>7. /\ iptableRules[1] = a
          /\ \A i \in 1 .. Len(q) : iptableRules[i + 1] = q[i]
      <3>1. 1 \in 1 .. Len(q) + 6 /\ 1 <= Len(q) + 1
        BY <2>6
      <3>2. \A i \in 1 .. Len(q) : i + 1 \in 1 .. Len(q) + 6 /\ i + 1 <= Len(q) + 1
        BY <2>6
      <3> QED
        BY <2>1, <2>2, <2>5, <2>9, <3>1, <3>2
    <2>8. /\ iptableRules[Len(q) + 2] = b /\ iptableRules[Len(q) + 3] = c /\ iptableRules[Len(q) + 4] = d
          /\ iptableRules[Len(q) + 5] = e /\ iptableRules[Len(q) + 6] = f
      <3>1. ASSUME NEW k \in 2 .. 6
            PROVE  iptableRules[Len(q) + k] = z[k - 1]
        <4>1. Len(q) + k \in 1 .. Len(q) + 6 /\ ~(Len(q) + k <= Len(q) + 1)
              /\ (Len(q) + k) - (Len(q) + 1) = k - 1
          BY <2>6
        <4> QED
          BY <2>5, <2>9, <4>1
      <3>2. 2 \in 2 .. 6 /\ 3 \in 2 .. 6 /\ 4 \in 2 .. 6 /\ 5 \in 2 .. 6 /\ 6 \in 2 .. 6
            /\ 2 - 1 = 1 /\ 3 - 1 = 2 /\ 4 - 1 = 3 /\ 5 - 1 = 4 /\ 6 - 1 = 5
        BY <1>2, <1>6
      <3> QED
        BY <2>4, <3>1, <3>2
    <2> QED
      BY <1>2, <2>5, <2>9, <2>7, <2>8
  <1>8. \/ at = 1 \/ at \in {n + 2, n + 3, n + 5, n + 6}
        \/ at = n + 4
        \/ at - 1 \in 1 .. n /\ at = (at - 1) + 1
    BY <1>1
  <1>9. CASE at - 1 \in 1 .. n /\ at = (at - 1) + 1
    <2>1. /\ at = Turn((at - 1) - 1) /\ (at - 1) - 1 \in 0 .. n
          /\ iptableRules[at] = Item(snat, SNATChain((at - 1) - 1), OwnRule((at - 1) - 1))
      BY <1>4, <1>7, <1>9
    <2> QED
      BY <1>7, <2>1
  <1>10. CASE at = n + 4
    BY <1>5, <1>7, <1>10
  <1>11. CASE at = 1 \/ at \in {n + 2, n + 3, n + 5, n + 6}
    BY <1>7, <1>11 DEF a, b, c, e, f
  <1> QED
    BY <1>8, <1>9, <1>10, <1>11

----------------------------------------------------------------------------
(* What a step does to the packet filter *)

\* The types of the rule SetupHostNetwork has come to: its chain exists and may
\* hold it.
LEMMA ItemType ==
    ASSUME TypeInv, ChainsInv, phase = "rules"
    PROVE  LET e == iptableRules[at]
           IN  /\ e.chain \in DOMAIN iptables /\ e.should \in BOOLEAN
               /\ \/ e.chain \in BuiltIn /\ e.rule \in BuiltInRule
                  \/ \E i \in 0 .. LastChain : e.chain = SNATChain(i) /\ e.rule \in SNATRule(i)
  <1> DEFINE e == iptableRules[at]
  <1>1. config \in Config /\ LastChain \in Nat /\ LastChain <= MaxNetworks
    BY ListFacts DEF TypeInv
  <1>2. /\ config.useExternalSNAT \in BOOLEAN /\ config.nodePortSupportEnabled \in BOOLEAN
        /\ config.typeOfSNAT \in SNATType /\ config.mainNICMark \in Mark
        /\ primaryIntf \in {PrimaryIntf, "eth0"}
    BY <1>1 DEF Config, primaryIntf
  <1>3. ASSUME NEW i \in 0 .. LastChain
        PROVE  OwnRule(i) \in SNATRule(i) /\ SNATChain(i) \in DOMAIN iptables
    <2>1. CASE i = LastChain
      BY <1>2, <2>1 DEF OwnRule, SNATRule, ChainsInv
    <2>2. CASE i # LastChain
      <3>1. i < MaxNetworks /\ i + 1 \in 1 .. LastChain
        BY <1>1, <2>2, HostNetworkAssumption
      <3>2. config.vpcCIDRs[i + 1] \in CIDR
        BY <1>1, <3>1, ListFacts
      <3> QED
        BY <2>2, <3>1, <3>2 DEF OwnRule, SNATRule, ChainsInv
    <2> QED
      BY <2>1, <2>2
  <1> DEFINE Placed(should, chain, r) ==
               /\ should \in BOOLEAN /\ chain \in DOMAIN iptables
               /\ \/ chain \in BuiltIn /\ r \in BuiltInRule
                  \/ \E i \in 0 .. LastChain : chain = SNATChain(i) /\ r \in SNATRule(i)
  <1>4. ASSUME NEW should, NEW chain, NEW r, Placed(should, chain, r),
               e = Item(should, chain, r)
        PROVE  Placed(e.should, e.chain, e.rule)
    BY <1>4 DEF Item
  <1> DEFINE snat == ~config.useExternalSNAT
  <1>5. snat \in BOOLEAN
    OBVIOUS
  <1>6. ASSUME NEW should \in BOOLEAN, NEW chain \in BuiltIn, NEW r \in BuiltInRule
        PROVE  Placed(should, chain, r)
    BY DEF TypeInv, TablesType
  <1>7. \A i \in 0 .. LastChain : Placed(snat, SNATChain(i), OwnRule(i))
    BY <1>3, <1>5
  <1>8. /\ JumpUnless(AnyDst, 0) \in BuiltInRule
        /\ \A d \in {"-i nic+", "-o nic+"} : acceptRule(d) \in BuiltInRule
        /\ connmarkRule(primaryIntf, config.mainNICMark) \in BuiltInRule
        /\ restoreRule(config.mainNICMark) \in BuiltInRule
    BY <1>2 DEF BuiltInRule
  <1> HIDE DEF Placed, e, snat
  <1>9. Placed(e.should, e.chain, e.rule)
    <2>1. CASE e = Item(snat, Chain("POSTROUTING", 0), JumpUnless(AnyDst, 0))
      BY <1>4, <1>5, <1>6, <1>8, <2>1, ChainNames
    <2>2. CASE \E i \in 0 .. LastChain : e = Item(snat, SNATChain(i), OwnRule(i))
      BY <1>4, <1>7, <2>2
    <2>3. CASE \E d \in {"-i nic+", "-o nic+"} :
                 e = Item(TRUE, Chain("FORWARD", 0), acceptRule(d))
      <3>1. PICK d \in {"-i nic+", "-o nic+"} : e = Item(TRUE, Chain("FORWARD", 0), acceptRule(d))
        BY <2>3
      <3>2. TRUE \in BOOLEAN /\ acceptRule(d) \in BuiltInRule
        BY <1>8
      <3>3. Placed(TRUE, Chain("FORWARD", 0), acceptRule(d))
        BY <1>6, <3>2, ChainNames, Zenon
      <3> QED
        BY <1>4, <3>1, <3>3, Zenon
    <2>4. CASE \/ e = Item(config.nodePortSupportEnabled, Chain("PREROUTING", 0),
                          connmarkRule(primaryIntf, config.mainNICMark))
               \/ e = Item(config.nodePortSupportEnabled, Chain("PREROUTING", 0),
                          restoreRule(config.mainNICMark))
      <3>1. ASSUME NEW r \in BuiltInRule,
                   e = Item(config.nodePortSupportEnabled, Chain("PREROUTING", 0), r)
            PROVE  Placed(e.should, e.chain, e.rule)
        <4>1. Placed(config.nodePortSupportEnabled, Chain("PREROUTING", 0), r)
          BY <1>2, <1>6, ChainNames, Zenon
        <4> QED
          BY <1>4, <3>1, <4>1, Zenon
      <3> QED
        BY <1>8, <2>4, <3>1, Zenon
    <2>5. \/ e = Item(snat, Chain("POSTROUTING", 0), JumpUnless(AnyDst, 0))
          \/ \E i \in 0 .. LastChain : e = Item(snat, SNATChain(i), OwnRule(i))
          \/ \E d \in {"-i nic+", "-o nic+"} :
                e = Item(TRUE, Chain("FORWARD", 0), acceptRule(d))
          \/ e = Item(config.nodePortSupportEnabled, Chain("PREROUTING", 0),
                     connmarkRule(primaryIntf, config.mainNICMark))
          \/ e = Item(config.nodePortSupportEnabled, Chain("PREROUTING", 0),
                     restoreRule(config.mainNICMark))
      BY ItemCases, Zenon DEF e, snat
    <2> QED
      BY <2>1, <2>2, <2>3, <2>4, <2>5, Zenon
  <1> QED
    BY <1>9 DEF Placed, e

\* EnsureRule adds its rule or takes it out, and changes nothing else.
LEMMA EnsureEffect ==
    ASSUME TypeInv, ChainsInv, EnsureRule
    PROVE  LET e == iptableRules[at]
           IN  /\ DOMAIN iptables' = DOMAIN iptables
               /\ \A c \in DOMAIN iptables :
                    /\ c # e.chain => iptables'[c] = iptables[c]
                    /\ IsInjective(iptables'[c])
                    /\ \A S : iptables[c] \in Seq(S) /\ (c = e.chain => e.rule \in S)
                              => iptables'[c] \in Seq(S)
               /\ Range(iptables'[e.chain]) = IF e.should THEN Range(iptables[e.chain]) \cup {e.rule}
                                                         ELSE Range(iptables[e.chain]) \ {e.rule}
  <1> DEFINE e == iptableRules[at]
             q == iptables[e.chain]
  <1>1. /\ phase = "rules" /\ e.chain \in DOMAIN iptables /\ e.should \in BOOLEAN
        /\ \A c \in DOMAIN iptables : IsInjective(iptables[c])
    BY ItemType DEF EnsureRule, TypeInv, TablesType
  <1>2. Has(e.chain, e.rule) <=> e.rule \in Range(q)
    BY <1>1 DEF Has
  <1>3. PICK U : q \in Seq(U) /\ e.rule \in U
    <2>1. CASE e.chain \in BuiltIn /\ e.rule \in BuiltInRule
      BY <2>1 DEF TypeInv, TablesType
    <2>2. ASSUME NEW i \in 0 .. LastChain, e.chain = SNATChain(i), e.rule \in SNATRule(i)
          PROVE  q \in Seq(SNATRule(i))
      <3>1. i \in 0 .. MaxNetworks
        BY ListFacts, HostNetworkAssumption DEF TypeInv
      <3> QED
        BY <1>1, <2>2, <3>1 DEF TypeInv, TablesType
    <2> QED
      BY <1>1, <2>1, <2>2, ItemType
  <1>4. \/ (Has(e.chain, e.rule) <=> e.should) /\ iptables' = iptables
        \/ /\ ~Has(e.chain, e.rule) /\ e.should
           /\ iptables' = [iptables EXCEPT ![e.chain] = Append(q, e.rule)]
        \/ /\ Has(e.chain, e.rule) /\ ~e.should
           /\ \E i \in DOMAIN q : /\ q[i] = e.rule
                                /\ iptables' = [iptables EXCEPT ![e.chain] = RemoveAt(q, i)]
    BY <1>1 DEF EnsureRule
  <1> HIDE DEF e, q
  <1>5. CASE (Has(e.chain, e.rule) <=> e.should) /\ iptables' = iptables
    BY <1>1, <1>2, <1>5 DEF e, q
  <1>6. CASE /\ ~Has(e.chain, e.rule) /\ e.should
             /\ iptables' = [iptables EXCEPT ![e.chain] = Append(q, e.rule)]
    <2>1. IsInjective(q) /\ e.rule \notin Range(q)
      BY <1>1, <1>2, <1>6 DEF q
    <2>2. /\ IsInjective(Append(q, e.rule))
          /\ Range(Append(q, e.rule)) = Range(q) \cup {e.rule}
          /\ \A S : q \in Seq(S) /\ e.rule \in S => Append(q, e.rule) \in Seq(S)
      BY <1>3, <2>1, AppendRuleFacts
    <2> QED
      BY <1>1, <1>6, <2>2 DEF e, q
  <1>7. CASE /\ Has(e.chain, e.rule) /\ ~e.should
             /\ \E i \in DOMAIN q : /\ q[i] = e.rule
                                  /\ iptables' = [iptables EXCEPT ![e.chain] = RemoveAt(q, i)]
    <2>1. PICK i \in DOMAIN q : /\ q[i] = e.rule
                               /\ iptables' = [iptables EXCEPT ![e.chain] = RemoveAt(q, i)]
      BY <1>7
    <2>2. IsInjective(q)
      BY <1>1 DEF q
    <2>3. /\ IsInjective(RemoveAt(q, i))
          /\ Range(RemoveAt(q, i)) = Range(q) \ {e.rule}
          /\ \A S : q \in Seq(S) => RemoveAt(q, i) \in Seq(S)
      BY <1>3, <2>1, <2>2, RemoveRuleFacts
    <2> QED
      BY <1>1, <1>7, <2>1, <2>3 DEF e, q
  <1> QED
    BY <1>4, <1>5, <1>6, <1>7

\* NewChain empties the chain it has come to, and changes no other.
LEMMA NewChainEffect ==
    ASSUME NewChain
    PROVE  /\ phase = "chains"
           /\ DOMAIN iptables' = DOMAIN iptables \cup {SNATChain(at)}
           /\ iptables'[SNATChain(at)] = << >>
           /\ \A c \in DOMAIN iptables : c # SNATChain(at) => iptables'[c] = iptables[c]
           /\ \A i : SNATRules(i)' = IF i = at THEN {} ELSE SNATRules(i)
  <1>1. /\ phase = "chains"
        /\ DOMAIN iptables' = DOMAIN iptables \cup {SNATChain(at)}
        /\ iptables'[SNATChain(at)] = << >>
        /\ \A c \in DOMAIN iptables : c # SNATChain(at) => iptables'[c] = iptables[c]
    BY DEF NewChain
  <1>2. Range(<< >>) = {}
    BY DEF Range
  <1>3. ASSUME NEW i
        PROVE  SNATRules(i)' = IF i = at THEN {} ELSE SNATRules(i)
    <2>1. CASE i = at
      BY <1>1, <1>2, <2>1 DEF SNATRules
    <2>2. CASE i # at
      <3>1. SNATChain(i) # SNATChain(at)
        BY <2>2, ChainNames
      <3> QED
        BY <1>1, <2>2, <3>1 DEF SNATRules
    <2> QED
      BY <2>1, <2>2
  <1> QED
    BY <1>1, <1>3

\* The other steps leave the packet filter alone, or empty it (Reboot).
LEMMA OtherSteps ==
    ASSUME [Next]_vars
    PROVE  \/ NewChain
           \/ EnsureRule
           \/ iptables' = EmptyTables /\ phase' = "down" /\ UNCHANGED always
           \/ iptables' = iptables /\ phase \notin {"chains", "rules"}
           \/ iptables' = iptables /\ phase' = "down" /\ UNCHANGED always
           \/ UNCHANGED vars
  BY DEF Next, SetupHostNetwork, Start, SetRPFilter, DelMainNICRule, AddMainNICRule, Stop,
         Reboot, kernelVars

----------------------------------------------------------------------------
(* Type correctness *)

\* The settings of a start have their types, whatever the environment holds.
LEMMA NetworkType ==
    ASSUME NEW env, NEW cidrs \in Lists \cup {<< >>}
    PROVE  NewNetwork(env, cidrs) \in Config
  <1>1. ASSUME NEW value, NEW default \in BOOLEAN
        PROVE  getBoolEnvVar(value, default) \in BOOLEAN
    BY DEF getBoolEnvVar
  <1>2. typeOfSNAT(env.randomizeSNAT) \in SNATType
    BY DEF typeOfSNAT, SNATType
  <1>3. getConnmark(env.connmark) \in Mark
    BY HostNetworkAssumption DEF getConnmark
  <1> QED
    BY <1>1, <1>2, <1>3 DEF NewNetwork, Config

\* The filter of a host that has just booted has the types.
LEMMA EmptyTablesType == TablesType(EmptyTables)
  <1>1. << >> \in Seq(BuiltInRule) /\ IsInjective(<< >>)
    BY EmptySeq DEF IsInjective
  <1> QED
    BY <1>1, ChainNames DEF TablesType, EmptyTables

\* The chains keep their types.
LEMMA TablesStep ==
    ASSUME TypeInv, ChainsInv, [Next]_vars
    PROVE  TablesType(iptables')
  <1>0. TablesType(iptables)
    BY DEF TypeInv
  <1>1. CASE NewChain
    <2>1. << >> \in Seq(SNATRule(at)) /\ IsInjective(<< >>)
      BY EmptySeq DEF IsInjective
    <2>2. at \in 0 .. MaxNetworks
      BY <1>1, ListFacts, HostNetworkAssumption DEF NewChain, TypeInv
    <2>3. \A c \in BuiltIn : c # SNATChain(at)
      BY ChainNames
    <2>4. /\ BuiltIn \subseteq DOMAIN iptables'
          /\ DOMAIN iptables' \subseteq BuiltIn \cup {SNATChain(i) : i \in 0 .. MaxNetworks}
          /\ \A c \in BuiltIn : iptables'[c] \in Seq(BuiltInRule)
          /\ \A c \in DOMAIN iptables' : IsInjective(iptables'[c])
      BY <1>0, <1>1, <2>1, <2>2, <2>3, NewChainEffect DEF TablesType
    <2>5. ASSUME NEW i \in 0 .. MaxNetworks, SNATChain(i) \in DOMAIN iptables'
          PROVE  iptables'[SNATChain(i)] \in Seq(SNATRule(i))
      <3>1. CASE i = at
        BY <1>1, <2>1, <3>1, NewChainEffect
      <3>2. CASE i # at
        BY <1>0, <1>1, <2>5, <3>2, ChainNames, NewChainEffect DEF TablesType
      <3> QED
        BY <3>1, <3>2
    <2> QED
      BY <2>4, <2>5 DEF TablesType
  <1>2. CASE EnsureRule
    <2> DEFINE e == iptableRules[at]
    <2>1. phase = "rules"
      BY <1>2 DEF EnsureRule
    <2>2. \/ e.chain \in BuiltIn /\ e.rule \in BuiltInRule
          \/ \E j \in 0 .. LastChain : e.chain = SNATChain(j) /\ e.rule \in SNATRule(j)
      BY <2>1, ItemType
    <2>3. /\ DOMAIN iptables' = DOMAIN iptables
          /\ \A c \in DOMAIN iptables : IsInjective(iptables'[c])
          /\ \A c \in DOMAIN iptables : \A S :
               iptables[c] \in Seq(S) /\ (c = e.chain => e.rule \in S) => iptables'[c] \in Seq(S)
      BY <1>2, EnsureEffect
    <2> HIDE DEF e
    <2>4. ASSUME NEW c \in BuiltIn
          PROVE  iptables'[c] \in Seq(BuiltInRule)
      <3>1. c = e.chain => e.rule \in BuiltInRule
        BY <2>2, ChainNames
      <3> QED
        BY <1>0, <2>3, <3>1 DEF TablesType
    <2>5. ASSUME NEW i \in 0 .. MaxNetworks, SNATChain(i) \in DOMAIN iptables
          PROVE  iptables'[SNATChain(i)] \in Seq(SNATRule(i))
      <3>1. SNATChain(i) = e.chain => e.rule \in SNATRule(i)
        BY <2>2, ChainNames
      <3> QED
        BY <1>0, <2>3, <2>5, <3>1 DEF TablesType
    <2> QED
      BY <1>0, <2>3, <2>4, <2>5 DEF TablesType
  <1>3. CASE iptables' = EmptyTables
    BY <1>3, EmptyTablesType
  <1>4. CASE iptables' = iptables
    BY <1>0, <1>4 DEF TablesType
  <1> QED
    BY <1>1, <1>2, <1>3, <1>4, OtherSteps DEF vars, kernelVars

\* So do the variables of the process, and those of the kernel around the filter.
LEMMA TypeStep ==
    ASSUME TypeInv, ChainsInv, [Next]_vars
    PROVE  TypeInv'
  <1>0. /\ TablesType(iptables') /\ config \in Config /\ LastChain \in Nat
        /\ MaxNetworks \in Nat /\ MaxStops \in Nat
    BY TablesStep, ListFacts, HostNetworkAssumption DEF TypeInv
  <1> DEFINE Numbers ==
        /\ phase' \in Phase /\ config' \in Config
        /\ phase' = "chains" => at' \in 0 .. LastChain'
        /\ phase' = "rules" => at' \in 1 .. LastChain' + 6
        /\ phase' \notin {"chains", "rules"} => at' = 0
        /\ looseIntf' \subseteq {PrimaryIntf} /\ markRules' \subseteq Mark
        /\ stops' \in 0 .. MaxStops /\ always' \subseteq CIDR
  <1> USE DEF TypeInv, Phase
  <1>1. CASE Start
    <2>1. PICK env \in Environment, cidrs \in Lists : config' = NewNetwork(env, cidrs)
      BY <1>1 DEF Start
    <2>2. config' \in Config
      BY <2>1, NetworkType
    <2> QED
      BY <1>0, <1>1, <2>2 DEF Start, kernelVars
  <1>2. CASE SetRPFilter
    BY <1>0, <1>2 DEF SetRPFilter, primaryIntf
  <1>3. CASE DelMainNICRule \/ AddMainNICRule
    <2>1. config.mainNICMark \in Mark
      BY <1>0 DEF Config
    <2> QED
      BY <1>0, <1>3, <2>1 DEF DelMainNICRule, AddMainNICRule, LastChain
  <1>4. CASE NewChain
    <2>1. /\ UNCHANGED <<config, looseIntf, markRules, stops, always>> /\ phase = "chains"
          /\ \/ at = LastChain /\ phase' = "rules" /\ at' = 1
             \/ at # LastChain /\ at' = at + 1 /\ phase' = "chains"
          /\ LastChain' = LastChain
      BY <1>4 DEF NewChain, AfterChain, LastChain
    <2> QED
      BY <1>0, <2>1
  <1>5. CASE EnsureRule
    <2>1. /\ UNCHANGED <<config, looseIntf, markRules, stops, always>> /\ phase = "rules"
          /\ \/ at = LastChain + 6 /\ phase' = "ready" /\ at' = 0
             \/ at # LastChain + 6 /\ at' = at + 1 /\ phase' = "rules"
          /\ LastChain' = LastChain
      BY <1>5, ItemCases DEF EnsureRule, AfterRule, LastChain
    <2> QED
      BY <1>0, <2>1
  <1>6. CASE Stop \/ Reboot
    <2>1. NoConfig \in Config
      BY NetworkType DEF NoConfig
    <2> QED
      BY <1>0, <1>6, <2>1 DEF Stop, Reboot, kernelVars
  <1>7. CASE UNCHANGED vars
    BY <1>0, <1>7 DEF vars, daemonVars, kernelVars, LastChain
  <1> QED
    BY <1>1, <1>2, <1>3, <1>4, <1>5, <1>6, <1>7 DEF Next, SetupHostNetwork

----------------------------------------------------------------------------
(* The rules a start has treated *)

\* The places of the chains' own rules differ from each other and from those of
\* the other rules.
LEMMA Turns ==
    ASSUME LastChain \in Nat
    PROVE  /\ \A i \in 0 .. LastChain :
                /\ Turn(i) \in 2 .. LastChain + 4
                /\ Turn(i) \notin {LastChain + 2, LastChain + 3}
           /\ \A i, j \in 0 .. LastChain : Turn(i) = Turn(j) => i = j
           /\ \A k \in 1 .. LastChain + 6 :
                \/ k \in {1, LastChain + 2, LastChain + 3, LastChain + 5, LastChain + 6}
                \/ \E i \in 0 .. LastChain : k = Turn(i)
  <1>1. ASSUME NEW k \in 1 .. LastChain + 6,
               k \notin {1, LastChain + 2, LastChain + 3, LastChain + 5, LastChain + 6}
        PROVE  \E i \in 0 .. LastChain : k = Turn(i)
    <2>1. CASE k = LastChain + 4
      BY <2>1 DEF Turn
    <2>2. CASE k # LastChain + 4
      <3>1. k - 2 \in 0 .. LastChain /\ k - 2 # LastChain /\ (k - 2) + 2 = k
        BY <1>1, <2>2
      <3> QED
        BY <3>1 DEF Turn
    <2> QED
      BY <2>1, <2>2
  <1> QED
    BY <1>1 DEF Turn

\* The rule SetupHostNetwork has come to, by its place.
LEMMA ItemAt ==
    ASSUME TypeInv, phase = "rules"
    PROVE  LET e == iptableRules[at]
               mark == config.mainNICMark
           IN  /\ at = 1 => /\ e.chain = Chain("POSTROUTING", 0)
                            /\ e.rule = JumpUnless(AnyDst, 0)
                            /\ (e.should <=> ~config.useExternalSNAT)
               /\ \A i \in 0 .. LastChain : at = Turn(i) =>
                    /\ e.chain = SNATChain(i) /\ e.rule = OwnRule(i)
                    /\ (e.should <=> ~config.useExternalSNAT)
               /\ at \in {LastChain + 2, LastChain + 3} => e.chain = Chain("FORWARD", 0)
               /\ at = LastChain + 5 => /\ e.chain = Chain("PREROUTING", 0)
                                        /\ e.rule = connmarkRule(primaryIntf, mark)
                                        /\ (e.should <=> config.nodePortSupportEnabled)
               /\ at = LastChain + 6 => /\ e.chain = Chain("PREROUTING", 0)
                                        /\ e.rule = restoreRule(mark)
                                        /\ (e.should <=> config.nodePortSupportEnabled)
               /\ \/ e.chain \in BuiltIn
                  \/ \E i \in 0 .. LastChain : at = Turn(i)
  <1> DEFINE e == iptableRules[at]
             mark == config.mainNICMark
             snat == ~config.useExternalSNAT
             nodePort == config.nodePortSupportEnabled
  <1>0. LastChain \in Nat
    BY ListFacts DEF TypeInv
  <1>1. \A should, chain, r : /\ Item(should, chain, r).should = should
                             /\ Item(should, chain, r).chain = chain
                             /\ Item(should, chain, r).rule = r
    BY DEF Item
  <1>2. \/ at = 1 /\ e = Item(snat, Chain("POSTROUTING", 0), JumpUnless(AnyDst, 0))
        \/ \E i \in 0 .. LastChain : at = Turn(i) /\ e = Item(snat, SNATChain(i), OwnRule(i))
        \/ /\ at \in {LastChain + 2, LastChain + 3}
           /\ \E d \in {"-i nic+", "-o nic+"} : e = Item(TRUE, Chain("FORWARD", 0), acceptRule(d))
        \/ /\ at = LastChain + 5
           /\ e = Item(nodePort, Chain("PREROUTING", 0), connmarkRule(primaryIntf, mark))
        \/ at = LastChain + 6 /\ e = Item(nodePort, Chain("PREROUTING", 0), restoreRule(mark))
    BY ItemCases
  <1> DEFINE Goal ==
        /\ at = 1 => /\ e.chain = Chain("POSTROUTING", 0) /\ e.rule = JumpUnless(AnyDst, 0)
                      /\ e.should = snat
        /\ \A i \in 0 .. LastChain : at = Turn(i) =>
             e.chain = SNATChain(i) /\ e.rule = OwnRule(i) /\ e.should = snat
        /\ at \in {LastChain + 2, LastChain + 3} => e.chain = Chain("FORWARD", 0)
        /\ at = LastChain + 5 => /\ e.chain = Chain("PREROUTING", 0)
                                  /\ e.rule = connmarkRule(primaryIntf, mark)
                                  /\ e.should = nodePort
        /\ at = LastChain + 6 => /\ e.chain = Chain("PREROUTING", 0) /\ e.rule = restoreRule(mark)
                                  /\ e.should = nodePort
        /\ \/ e.chain \in BuiltIn
           \/ \E i \in 0 .. LastChain : at = Turn(i)
  <1> HIDE DEF e, snat, nodePort
  <1>3. ASSUME at = 1, e = Item(snat, Chain("POSTROUTING", 0), JumpUnless(AnyDst, 0))
        PROVE  Goal
    BY <1>0, <1>1, <1>3, ChainNames, Turns
  <1>4. ASSUME NEW i \in 0 .. LastChain, at = Turn(i), e = Item(snat, SNATChain(i), OwnRule(i))
        PROVE  Goal
    <2>1. e.chain = SNATChain(i) /\ e.rule = OwnRule(i) /\ e.should = snat
      BY <1>1, <1>4
    <2>2. \A j \in 0 .. LastChain : at = Turn(j) => i = j
      BY <1>0, <1>4, Turns
    <2>3. at \notin {1, LastChain + 2, LastChain + 3, LastChain + 5, LastChain + 6}
      BY <1>0, <1>4, Turns
    <2> QED
      BY <1>4, <2>1, <2>2, <2>3
  <1>5. ASSUME at \in {LastChain + 2, LastChain + 3}, NEW d,
               e = Item(TRUE, Chain("FORWARD", 0), acceptRule(d))
        PROVE  Goal
    <2>1. e.chain = Chain("FORWARD", 0)
      BY <1>1, <1>5, Zenon
    <2>2. at \notin {1, LastChain + 5, LastChain + 6} /\ \A i \in 0 .. LastChain : at # Turn(i)
      BY <1>0, <1>5, Turns
    <2> QED
      BY <1>5, <2>1, <2>2, ChainNames
  <1>6. ASSUME at = LastChain + 5,
               e = Item(nodePort, Chain("PREROUTING", 0), connmarkRule(primaryIntf, mark))
        PROVE  Goal
    BY <1>0, <1>1, <1>6, ChainNames, Turns
  <1>7. ASSUME at = LastChain + 6, e = Item(nodePort, Chain("PREROUTING", 0), restoreRule(mark))
        PROVE  Goal
    BY <1>0, <1>1, <1>7, ChainNames, Turns
  <1>8. Goal
    <2> HIDE DEF Goal
    <2> QED
      BY <1>2, <1>3, <1>4, <1>5, <1>6, <1>7, Zenon
  <1> QED
    BY <1>8 DEF e, snat, nodePort

\* A step of EnsureRule treats the rule it has come to.
LEMMA EnsurePast ==
    ASSUME TypeInv, EnsureRule
    PROVE  /\ phase = "rules" /\ phase' \in {"rules", "ready"} /\ UNCHANGED <<config, always>>
           /\ at \in 1 .. LastChain + 6
           /\ LastChain' = LastChain /\ LastChain \in Nat /\ LastChain <= MaxNetworks
           /\ \A k \in 1 .. LastChain + 6 : (Past(k) <=> k < at) /\ (Past(k)' <=> k <= at)
  <1>1. LastChain \in Nat /\ LastChain <= MaxNetworks
    BY ListFacts DEF TypeInv
  <1>2. /\ phase = "rules" /\ UNCHANGED <<config, always>> /\ at \in 1 .. LastChain + 6
        /\ \/ at = LastChain + 6 /\ phase' = "ready"
           \/ at # LastChain + 6 /\ at' = at + 1 /\ phase' = "rules"
        /\ LastChain' = LastChain
    BY ItemCases DEF EnsureRule, AfterRule, LastChain, TypeInv
  <1> QED
    BY <1>1, <1>2 DEF Past

\* What is there afterwards of each rule.
LEMMA EnsureHas ==
    ASSUME TypeInv, ChainsInv, EnsureRule, NEW c \in DOMAIN iptables, NEW r
    PROVE  LET e == iptableRules[at]
           IN  Has(c, r)' <=> IF c = e.chain /\ r = e.rule THEN e.should ELSE Has(c, r)
  <1> DEFINE e == iptableRules[at]
  <1>1. phase = "rules"
    BY DEF EnsureRule
  <1>2. e.chain \in DOMAIN iptables /\ e.should \in BOOLEAN
    BY <1>1, ItemType
  <1>3. /\ DOMAIN iptables' = DOMAIN iptables
        /\ c # e.chain => iptables'[c] = iptables[c]
        /\ Range(iptables'[e.chain]) = IF e.should THEN Range(iptables[e.chain]) \cup {e.rule}
                                                  ELSE Range(iptables[e.chain]) \ {e.rule}
    BY EnsureEffect
  <1> HIDE DEF e
  <1>4. Has(c, r)' <=> IF c = e.chain /\ r = e.rule THEN e.should ELSE Has(c, r)
    BY <1>2, <1>3 DEF Has
  <1> QED
    BY <1>4 DEF e

\* Only NewChain and EnsureRule lead into the treatment of the rules.
LEMMA OtherPhases ==
    ASSUME TypeInv, [Next]_vars
    PROVE  \/ NewChain
           \/ EnsureRule
           \/ phase' \notin {"rules", "ready"} /\ (phase' = "chains" => at' = 0)
           \/ UNCHANGED vars
  BY DEF TypeInv, Next, SetupHostNetwork, Start, SetRPFilter, DelMainNICRule, AddMainNICRule,
         Stop, Reboot

\* The chains of a start hold their own rules, once these have been treated.
LEMMA ChainsStep ==
    ASSUME TypeInv, ChainsInv, [Next]_vars
    PROVE  ChainsInv'
  <1>0. LastChain \in Nat
    BY ListFacts DEF TypeInv
  <1>1. CASE NewChain
    <2>1. /\ phase = "chains" /\ at \in 0 .. LastChain /\ UNCHANGED config
          /\ \/ at = LastChain /\ phase' = "rules" /\ at' = 1
             \/ at # LastChain /\ at' = at + 1 /\ phase' = "chains"
          /\ LastChain' = LastChain
      BY <1>1 DEF NewChain, AfterChain, LastChain, TypeInv
    <2>2. \A i \in 0 .. at : SNATChain(i) \in DOMAIN iptables' /\ SNATRules(i)' = {}
      <3>1. ASSUME NEW i \in 0 .. at - 1
            PROVE  SNATChain(i) \in DOMAIN iptables /\ SNATRules(i) = {}
        BY <2>1, <3>1 DEF ChainsInv
      <3>2. \A i \in 0 .. at : i = at \/ i \in 0 .. at - 1
        BY <2>1
      <3> QED
        BY <1>1, <3>1, <3>2, NewChainEffect
    <2>3. CASE at = LastChain /\ phase' = "rules" /\ at' = 1
      <3>1. ASSUME NEW i \in 0 .. LastChain
            PROVE  ~Past(Turn(i))'
        <4>1. Turn(i) \in 2 .. LastChain + 4 /\ Turn(i)' = Turn(i)
          BY <1>0, <2>1, Turns DEF Turn
        <4> QED
          BY <1>0, <2>3, <4>1 DEF Past
      <3> QED
        BY <2>1, <2>2, <2>3, <3>1 DEF ChainsInv
    <2>4. CASE at # LastChain /\ at' = at + 1 /\ phase' = "chains"
      BY <1>0, <2>1, <2>2, <2>4 DEF ChainsInv
    <2> QED
      BY <2>1, <2>3, <2>4
  <1>2. CASE EnsureRule
    <2> DEFINE e == iptableRules[at]
               snat == ~config.useExternalSNAT
    <2>1. /\ phase = "rules" /\ phase' \in {"rules", "ready"} /\ config' = config
          /\ LastChain' = LastChain
          /\ \A k \in 1 .. LastChain + 6 : (Past(k) <=> k < at) /\ (Past(k)' <=> k <= at)
      BY <1>2, EnsurePast
    <2>2. DOMAIN iptables' = DOMAIN iptables
      BY <1>2, EnsureEffect
    <2>3. ASSUME NEW i \in 0 .. LastChain
          PROVE  /\ SNATChain(i) \in DOMAIN iptables'
                 /\ SNATRules(i)' = IF Past(Turn(i))' /\ ~config.useExternalSNAT THEN {OwnRule(i)}
                                                                             ELSE {}
      <3>1. /\ SNATChain(i) \in DOMAIN iptables
            /\ SNATRules(i) = IF Past(Turn(i)) /\ ~config.useExternalSNAT THEN {OwnRule(i)} ELSE {}
        BY <2>1 DEF ChainsInv
      <3>2. Turn(i) \in 1 .. LastChain + 6 /\ Turn(i) \in 2 .. LastChain + 4
            /\ Turn(i) \notin {LastChain + 2, LastChain + 3}
        BY <1>0, Turns
      <3>3. Turn(i)' = Turn(i)
        BY <2>1 DEF Turn
      <3>4. (Past(Turn(i)) <=> Turn(i) < at) /\ (Past(Turn(i))' <=> Turn(i) <= at)
        <4> HIDE DEF e
        <4>1. \A k : k = Turn(i) => (Past(k)' <=> Past(Turn(i))')
          BY <3>3 DEF Past
        <4> QED
          BY <2>1, <3>2, <4>1
      <3>5. CASE at = Turn(i)
        <4>1. /\ e.chain = SNATChain(i) /\ e.rule = OwnRule(i)
              /\ (e.should <=> ~config.useExternalSNAT)
          BY <2>1, <3>5, ItemAt
        <4>2. Range(iptables'[SNATChain(i)]) = IF e.should THEN SNATRules(i) \cup {e.rule}
                                                         ELSE SNATRules(i) \ {e.rule}
          BY <1>2, <3>1, <4>1, EnsureEffect DEF SNATRules
        <4> HIDE DEF e
        <4>3. SNATRules(i) = {}
          BY <1>0, <3>1, <3>2, <3>4, <3>5
        <4>4. SNATRules(i)' = Range(iptables'[SNATChain(i)])
          BY <2>2, <3>1 DEF SNATRules
        <4>5. Past(Turn(i))'
          BY <1>0, <3>2, <3>4, <3>5
        <4> QED
          BY <2>2, <3>1, <4>1, <4>2, <4>3, <4>4, <4>5
      <3>6. CASE at # Turn(i)
        <4>1. e.chain # SNATChain(i)
          <5>1. \/ e.chain \in BuiltIn
                \/ \E j \in 0 .. LastChain : at = Turn(j) /\ e.chain = SNATChain(j)
            BY <2>1, ItemAt
          <5> QED
            BY <3>6, <5>1, ChainNames
        <4>2. SNATRules(i)' = SNATRules(i)
          BY <1>2, <2>2, <3>1, <4>1, EnsureEffect DEF SNATRules
        <4>3. Past(Turn(i))' <=> Past(Turn(i))
          BY <1>0, <1>2, <3>2, <3>4, <3>6, EnsurePast
        <4> QED
          BY <2>2, <3>1, <4>2, <4>3
      <3> QED
        BY <3>5, <3>6
    <2>4. \A i : OwnRule(i)' = OwnRule(i)
      BY <2>1 DEF OwnRule
    <2> QED
      BY <2>1, <2>3, <2>4 DEF ChainsInv
  <1>3. CASE phase' \notin {"rules", "ready"} /\ (phase' = "chains" => at' = 0)
    BY <1>3 DEF ChainsInv
  <1>4. CASE UNCHANGED vars
    BY <1>4 DEF ChainsInv, SNATRules, Past, Turn, OwnRule, LastChain, vars, daemonVars, kernelVars
  <1> QED
    BY <1>1, <1>2, <1>3, <1>4, OtherPhases

\* So do the built-in chains.
LEMMA BuiltInStep ==
    ASSUME TypeInv, ChainsInv, BuiltInInv, [Next]_vars
    PROVE  BuiltInInv'
  <1>0. LastChain \in Nat
    BY ListFacts DEF TypeInv
  <1>1. CASE NewChain
    <2>1. LastChain' = LastChain /\ (phase' = "rules" => at' = 1) /\ phase' # "ready"
      BY <1>1 DEF NewChain, AfterChain, LastChain, TypeInv
    <2>2. ~Past(1)' /\ ~Past(LastChain + 5)' /\ ~Past(LastChain + 6)'
      BY <1>0, <2>1 DEF Past
    <2> QED
      BY <2>1, <2>2 DEF BuiltInInv, Past
  <1>2. CASE EnsureRule
    <2> DEFINE e == iptableRules[at]
               mark == config.mainNICMark
               Post == Chain("POSTROUTING", 0)
               Pre == Chain("PREROUTING", 0)
               first == JumpUnless(AnyDst, 0)
               connmark == connmarkRule(primaryIntf, mark)
               restore == restoreRule(mark)
    <2>1. /\ phase = "rules" /\ config' = config /\ LastChain' = LastChain
          /\ at \in 1 .. LastChain + 6
          /\ \A k \in 1 .. LastChain + 6 : (Past(k) <=> k < at) /\ (Past(k)' <=> k <= at)
      BY <1>2, EnsurePast
    <2>2. Post \in DOMAIN iptables /\ Pre \in DOMAIN iptables
      BY ChainNames DEF TypeInv, TablesType
    <2>3. /\ Has(Post, first)' <=> IF Post = e.chain /\ first = e.rule THEN e.should
                                                                   ELSE Has(Post, first)
          /\ Has(Pre, connmark)' <=> IF Pre = e.chain /\ connmark = e.rule THEN e.should
                                                                      ELSE Has(Pre, connmark)
          /\ Has(Pre, restore)' <=> IF Pre = e.chain /\ restore = e.rule THEN e.should
                                                                     ELSE Has(Pre, restore)
      <3> HIDE DEF Post, Pre, first, connmark, restore
      <3>1. /\ \A c, r : c = Post /\ r = first => (Has(c, r)' <=> Has(Post, first)')
            /\ \A c, r : c = Pre /\ r = connmark => (Has(c, r)' <=> Has(Pre, connmark)')
            /\ \A c, r : c = Pre /\ r = restore => (Has(c, r)' <=> Has(Pre, restore)')
        BY <2>1 DEF Has, Post, Pre, first, connmark, restore, primaryIntf
      <3> QED
        BY <1>2, <2>2, <3>1, EnsureHas
    <2>4. /\ at = 1 => e.chain = Post /\ e.rule = first /\ (e.should <=> ~config.useExternalSNAT)
          /\ at = LastChain + 5 => /\ e.chain = Pre /\ e.rule = connmark
                                   /\ (e.should <=> config.nodePortSupportEnabled)
          /\ at = LastChain + 6 => /\ e.chain = Pre /\ e.rule = restore
                                   /\ (e.should <=> config.nodePortSupportEnabled)
      <3>1. phase = "rules"
        BY <2>1
      <3> QED
        BY <3>1, ItemAt, Zenon
    <2>5a. at # 1 => e.chain # Post
      <3>1. CASE \E i \in 0 .. LastChain : at = Turn(i)
        BY <2>1, <3>1, ItemAt, ChainNames
      <3>2. CASE at \in {LastChain + 2, LastChain + 3}
        BY <2>1, <3>2, ItemAt, ChainNames
      <3>3. CASE at \in {LastChain + 5, LastChain + 6}
        BY <2>4, <3>3, ChainNames
      <3> QED
        BY <1>0, <2>1, <3>1, <3>2, <3>3, Turns
    <2>5. connmark # restore
      BY RuleKinds
    <2>6. /\ Past(1) => (Has(Post, first) <=> ~config.useExternalSNAT)
          /\ Past(LastChain + 5) => (Has(Pre, connmark) <=> config.nodePortSupportEnabled)
          /\ Past(LastChain + 6) => (Has(Pre, restore) <=> config.nodePortSupportEnabled)
      BY DEF BuiltInInv
    <2> HIDE DEF e, Post, Pre, first, connmark, restore
    <2>7. /\ 1 \in 1 .. LastChain + 6 /\ LastChain + 5 \in 1 .. LastChain + 6
          /\ LastChain + 6 \in 1 .. LastChain + 6
      BY <1>0
    <2>8. Past(1)' => (Has(Post, first)' <=> ~config.useExternalSNAT)
      BY <2>1, <2>3, <2>4, <2>5a, <2>6, <2>7
    <2>9. Past(LastChain + 5)' => (Has(Pre, connmark)' <=> config.nodePortSupportEnabled)
      BY <1>0, <2>1, <2>3, <2>4, <2>5, <2>6, <2>7
    <2>10. Past(LastChain + 6)' => (Has(Pre, restore)' <=> config.nodePortSupportEnabled)
      BY <1>0, <2>1, <2>3, <2>4, <2>6, <2>7
    <2> QED
      BY <2>1, <2>8, <2>9, <2>10 DEF BuiltInInv, Post, Pre, first, connmark, restore
  <1>3. CASE phase' \notin {"rules", "ready"}
    BY <1>3 DEF BuiltInInv, Past
  <1>4. CASE UNCHANGED vars
    BY <1>4 DEF BuiltInInv, Past, Has, LastChain, primaryIntf, vars, daemonVars, kernelVars
  <1> QED
    BY <1>1, <1>2, <1>3, <1>4, OtherPhases

\* The mark's rule and the interface's filter are as far as the start has come.
LEMMA MarkStep ==
    ASSUME TypeInv, MarkInv, [Next]_vars
    PROVE  MarkInv'
  <1> USE DEF MarkInv
  <1>1. CASE Start
    BY <1>1 DEF Start
  <1>2. CASE SetRPFilter
    BY <1>2 DEF SetRPFilter, primaryIntf
  <1>3. CASE DelMainNICRule
    BY <1>3 DEF DelMainNICRule
  <1>4. CASE AddMainNICRule
    BY <1>4 DEF AddMainNICRule
  <1>5. CASE NewChain
    BY <1>5 DEF NewChain, AfterChain
  <1>6. CASE EnsureRule
    <2>1. phase = "rules" /\ phase' \in {"rules", "ready"} /\ config' = config
      BY <1>6, EnsurePast
    <2> QED
      BY <1>6, <2>1 DEF EnsureRule
  <1>7. CASE Stop \/ Reboot
    BY <1>7 DEF Stop, Reboot
  <1>8. CASE UNCHANGED vars
    BY <1>8 DEF vars, daemonVars, kernelVars
  <1> QED
    BY <1>1, <1>2, <1>3, <1>4, <1>5, <1>6, <1>7, <1>8 DEF Next, SetupHostNetwork

----------------------------------------------------------------------------
(* Networks of the VPC *)

\* A rule the filter does not lose keeps a barrier only if it is not there; so
\* a barrier stands while its chain, and those before it, gain no rule.
LEMMA BarrierStands ==
    ASSUME NEW d, NEW j \in Nat, Barrier(d, j),
           \A i \in 0 .. j : SNATRules(i)' \subseteq SNATRules(i)
    PROVE  Barrier(d, j)'
  BY DEF Barrier, Passes

\* A chain that is empty, with jumps only before it, is one.
LEMMA EmptyBarrier ==
    ASSUME NEW d, NEW j \in Nat, SNATRules(j)' = {},
           \A i \in 0 .. j - 1 : \A r \in SNATRules(i)' : r.target[1] # "SNAT"
    PROVE  Barrier(d, j)'
  <1>1. \A i \in 0 .. j : i = j \/ i \in 0 .. j - 1
    OBVIOUS
  <1> QED
    BY <1>1 DEF Barrier, Passes

\* What a start puts into the chains before the last are jumps.
LEMMA OwnJumps ==
    ASSUME TypeInv, NEW i \in 0 .. LastChain, i # LastChain
    PROVE  /\ OwnRule(i) = JumpUnless(config.vpcCIDRs[i + 1], i + 1)
           /\ OwnRule(i).target[1] # "SNAT"
  BY RuleKinds DEF OwnRule

\* EnsureRule leaves a barrier for every network of the VPC: it fills the chains
\* from the first to the last, which gets the translation in the end.
LEMMA EnsureBarrier ==
    ASSUME TypeInv, ChainsInv, BarrierInv, EnsureRule, NEW d \in always
    PROVE  \E j \in 0 .. MaxNetworks : Barrier(d, j)'
  <1> DEFINE e == iptableRules[at]
  <1>1. /\ phase = "rules" /\ phase' \in {"rules", "ready"} /\ config' = config
        /\ LastChain' = LastChain /\ LastChain \in Nat /\ LastChain <= MaxNetworks
        /\ MaxNetworks \in Nat /\ at \in 1 .. LastChain + 6
        /\ \A k \in 1 .. LastChain + 6 : Past(k)' <=> k <= at
    BY EnsurePast, HostNetworkAssumption
  <1>2. PICK b \in 0 .. MaxNetworks : Barrier(d, b)
    BY DEF BarrierInv
  <1>3. /\ DOMAIN iptables' = DOMAIN iptables /\ e.chain \in DOMAIN iptables
        /\ \A c \in DOMAIN iptables : c # e.chain => iptables'[c] = iptables[c]
        /\ Range(iptables'[e.chain]) = IF e.should THEN Range(iptables[e.chain]) \cup {e.rule}
                                                  ELSE Range(iptables[e.chain]) \ {e.rule}
    BY <1>1, EnsureEffect, ItemType
  <1>4. \A i : SNATChain(i) # e.chain => SNATRules(i)' = SNATRules(i)
    <2> HIDE DEF e
    <2> QED
      BY <1>3 DEF SNATRules
  <1>5. ASSUME \A i : SNATRules(i)' \subseteq SNATRules(i)
        PROVE  Barrier(d, b)'
    BY <1>2, <1>5, BarrierStands
  <1>6. ASSUME NEW k \in 0 .. LastChain
        PROVE  SNATRules(k)' = IF Turn(k) <= at /\ ~config.useExternalSNAT THEN {OwnRule(k)} ELSE {}
    <2>1. SNATRules(k)' = IF Past(Turn(k))' /\ ~config.useExternalSNAT THEN {OwnRule(k)} ELSE {}
      <3>1. ChainsInv'
        BY <1>1, ChainsStep DEF Next, SetupHostNetwork
      <3>2. k \in 0 .. LastChain' /\ OwnRule(k)' = OwnRule(k)
        BY <1>1 DEF OwnRule
      <3> QED
        BY <1>1, <3>1, <3>2 DEF ChainsInv
    <2>2. Turn(k) \in 1 .. LastChain + 6 /\ Turn(k)' = Turn(k)
      BY <1>1, Turns DEF Turn
    <2>3. Past(Turn(k))' <=> Turn(k) <= at
      <3>1. \A m : m = Turn(k) => (Past(m)' <=> Past(Turn(k))')
        BY <2>2 DEF Past
      <3> QED
        BY <1>1, <2>2, <3>1
    <2> QED
      BY <2>1, <2>3
  <1>7. CASE e.chain \in BuiltIn
    <2>1. \A i : SNATRules(i)' = SNATRules(i)
      BY <1>4, <1>7, ChainNames
    <2> QED
      BY <1>5, <2>1
  <1>8. ASSUME NEW i \in 0 .. LastChain, at = Turn(i)
        PROVE  \E j \in 0 .. MaxNetworks : Barrier(d, j)'
    <2>1. e.chain = SNATChain(i) /\ e.rule = OwnRule(i) /\ (e.should <=> ~config.useExternalSNAT)
      BY <1>1, <1>8, ItemAt
    <2>2. CASE config.useExternalSNAT
      <3>1. SNATRules(i)' \subseteq SNATRules(i)
        BY <1>3, <2>1, <2>2 DEF SNATRules
      <3>2. \A k : SNATRules(k)' \subseteq SNATRules(k)
        BY <1>4, <2>1, <3>1, ChainNames
      <3> QED
        BY <1>5, <3>2
    <2>3. CASE i # LastChain
      <3>1. i + 1 \in 0 .. LastChain /\ i + 1 \in 0 .. MaxNetworks /\ i + 1 \in Nat
        BY <1>1, <2>3
      <3>2. ~(Turn(i + 1) <= at)
        BY <1>1, <1>8, <2>3, <3>1 DEF Turn
      <3>3. SNATRules(i + 1)' = {}
        BY <1>6, <3>1, <3>2
      <3>4. ASSUME NEW k \in 0 .. (i + 1) - 1, NEW r \in SNATRules(k)'
            PROVE  r.target[1] # "SNAT"
        <4>1. k \in 0 .. LastChain /\ k # LastChain
          BY <1>1, <2>3
        <4>2. r = OwnRule(k)
          BY <1>6, <3>4, <4>1
        <4> QED
          BY <4>1, <4>2, OwnJumps
      <3>5. Barrier(d, i + 1)'
        BY <3>1, <3>3, <3>4, EmptyBarrier
      <3> QED
        BY <3>1, <3>5
    <2>4. CASE i = LastChain
      <3>1. PICK m \in 1 .. LastChain : config.vpcCIDRs[m] = d
        <4>1. d \in Range(config.vpcCIDRs)
          BY <1>1 DEF BarrierInv
        <4>2. DOMAIN config.vpcCIDRs = 1 .. LastChain
          BY ListFacts, LenProperties DEF TypeInv
        <4> QED
          BY <4>1, <4>2 DEF Range
      <3> DEFINE j == m - 1
      <3>2. /\ j \in 0 .. LastChain /\ j # LastChain /\ j \in 0 .. MaxNetworks /\ j + 1 = m
            /\ \A k \in 0 .. j : k \in 0 .. LastChain /\ k # LastChain
        BY <1>1
      <3> HIDE DEF j
      <3>3. ASSUME NEW k \in 0 .. j, NEW r \in SNATRules(k)'
            PROVE  r = OwnRule(k) /\ r.target[1] # "SNAT"
        <4>1. k \in 0 .. LastChain /\ k # LastChain
          BY <3>2
        <4>2. r = OwnRule(k)
          BY <1>6, <3>3, <4>1
        <4> QED
          BY <4>1, <4>2, OwnJumps
      <3>4. ASSUME NEW r \in SNATRules(j)'
            PROVE  r.match = d
        <4>1. j \in 0 .. j
          BY <3>2
        <4>2. r = OwnRule(j)
          BY <3>3, <4>1
        <4>3. OwnRule(j) = JumpUnless(d, m)
          BY <3>1, <3>2, OwnJumps
        <4> QED
          BY <4>2, <4>3, RuleKinds
      <3>5. Barrier(d, j)'
        BY <3>3, <3>4 DEF Barrier, Passes
      <3> QED
        BY <3>2, <3>5
    <2> QED
      BY <2>3, <2>4
  <1> QED
    BY <1>1, <1>7, <1>8, ItemAt

\* What is treated by this start is known to be a network of the VPC, and there
\* is a barrier for what every start has known.
LEMMA BarrierStep ==
    ASSUME TypeInv, ChainsInv, BarrierInv, [Next]_vars
    PROVE  BarrierInv'
  <1>0. MaxNetworks \in Nat
    BY HostNetworkAssumption
  <1>1. /\ always' \subseteq always
        /\ phase' # "down" => always' \subseteq Range(config'.vpcCIDRs)
    <2>1. CASE Start
      <3>1. PICK env \in Environment, cidrs \in Lists :
              config' = NewNetwork(env, cidrs) /\ always' = always \cap Range(cidrs)
        BY <2>1 DEF Start
      <3>2. config'.vpcCIDRs = cidrs
        BY <3>1 DEF NewNetwork
      <3> QED
        BY <3>1, <3>2
    <2>2. CASE SetupHostNetwork
      <3>1. phase # "down" /\ UNCHANGED <<config, always>>
        BY <2>2 DEF SetupHostNetwork, SetRPFilter, DelMainNICRule, AddMainNICRule, NewChain,
                    EnsureRule
      <3> QED
        BY <3>1 DEF BarrierInv
    <2>3. CASE Stop \/ Reboot
      BY <2>3 DEF Stop, Reboot
    <2>4. CASE UNCHANGED vars
      BY <2>4 DEF BarrierInv, vars, daemonVars
    <2> QED
      BY <2>1, <2>2, <2>3, <2>4 DEF Next
  <1>2. ASSUME NEW d \in always'
        PROVE  \E j \in 0 .. MaxNetworks : Barrier(d, j)'
    <2>0. d \in always
      BY <1>1
    <2>1. PICK b \in 0 .. MaxNetworks : Barrier(d, b)
      BY <2>0 DEF BarrierInv
    <2>2. CASE NewChain
      <3>1. \A i : SNATRules(i)' = IF i = at THEN {} ELSE SNATRules(i)
        BY <2>2, NewChainEffect
      <3>2. \A i : SNATRules(i)' \subseteq SNATRules(i)
        BY <3>1
      <3> QED
        BY <2>1, <3>2, BarrierStands
    <2>3. CASE EnsureRule
      BY <2>0, <2>3, EnsureBarrier
    <2>4. CASE iptables' = EmptyTables
      <3>1. \A i : SNATRules(i)' = {}
        BY <2>4, ChainNames DEF SNATRules, EmptyTables
      <3>2. 0 \in 0 .. MaxNetworks
        BY <1>0
      <3> QED
        BY <3>1, <3>2, EmptyBarrier
    <2>5. CASE iptables' = iptables
      <3>1. \A i : SNATRules(i)' = SNATRules(i)
        BY <2>5 DEF SNATRules
      <3> QED
        BY <2>1, <3>1, BarrierStands
    <2> QED
      BY <2>2, <2>3, <2>4, <2>5, OtherSteps DEF vars, kernelVars
  <1> QED
    BY <1>1, <1>2 DEF BarrierInv

----------------------------------------------------------------------------
(* The inductive invariant *)

\* HostInv holds at first,
LEMMA HostInit == Init => HostInv
  <1> SUFFICES ASSUME Init PROVE HostInv
    OBVIOUS
  <1>1. MaxNetworks \in Nat /\ MaxStops \in Nat
    BY HostNetworkAssumption
  <1>2. TypeInv
    <2>1. NoConfig \in Config
      BY NetworkType DEF NoConfig
    <2> QED
      BY <1>1, <2>1, EmptyTablesType DEF Init, TypeInv, Phase
  <1>3. ChainsInv /\ BuiltInInv /\ MarkInv
    BY DEF Init, ChainsInv, BuiltInInv, MarkInv, Past
  <1>4. BarrierInv
    <2>1. \A i : SNATRules(i) = {}
      BY ChainNames DEF Init, SNATRules, EmptyTables
    <2>2. 0 \in 0 .. MaxNetworks
      BY <1>1
    <2>3. \A d : Barrier(d, 0)
      BY <2>1 DEF Barrier, Passes
    <2> QED
      BY <2>2, <2>3 DEF BarrierInv, Init
  <1> QED
    BY <1>2, <1>3, <1>4 DEF HostInv

\* and in every state of the specification.
LEMMA HostInvariant == Spec => []HostInv
  <1>1. HostInv /\ [Next]_vars => HostInv'
    BY TypeStep, ChainsStep, BuiltInStep, MarkStep, BarrierStep DEF HostInv
  <1> QED
    BY <1>1, HostInit, PTL DEF Spec

----------------------------------------------------------------------------
(* Results *)

\* The state has its types: whatever earlier starts have left, a chain of this
\* program (ChainsToUpdate of SetupHostNetwork) holds jumps to the next chain and
\* translations only, and EnsureRule never puts a rule there twice.
THEOREM HostTypeCorrect == Spec => []HostTypeOK
  <1>1. HostInv => HostTypeOK
    <2> SUFFICES ASSUME HostInv PROVE HostTypeOK
      OBVIOUS
    <2>1. TypeInv /\ ChainsInv /\ LastChain \in Nat /\ TablesType(iptables)
      BY ListFacts DEF HostInv, TypeInv
    <2>2. at \in 0 .. LastChain + 6
      BY <2>1 DEF TypeInv, Phase
    <2>3. ASSUME phase = "rules", NEW i \in 0 .. LastChain
          PROVE  SNATChain(i) \in DOMAIN iptables
      BY <2>1, <2>3 DEF ChainsInv
    <2>4. ASSUME NEW i \in 0 .. MaxNetworks, SNATChain(i) \in DOMAIN iptables,
                 NEW r \in Range(iptables[SNATChain(i)])
          PROVE  \/ \E type \in SNATType : r = snatRule(type)
                 \/ i < MaxNetworks /\ \E c \in CIDR : r = JumpUnless(c, i + 1)
      <3>1. iptables[SNATChain(i)] \in Seq(SNATRule(i))
        BY <2>1, <2>4 DEF TablesType
      <3>2. r \in SNATRule(i)
        BY <2>4, <3>1, LenProperties DEF Range
      <3> QED
        BY <3>2 DEF SNATRule
    <2> QED
      BY <2>1, <2>2, <2>3, <2>4 DEF HostTypeOK, TypeInv, TablesType, Phase, Config
  <1> QED
    BY <1>1, HostInvariant, PTL

\* Once SetupHostNetwork is done, the primary interface marks the connections of
\* node ports and their replies come back to it; without node ports nothing of an
\* earlier start acts on the mark.
THEOREM NodePortRepliesCorrect == Spec => []NodePortReplies
  <1>1. HostInv => NodePortReplies
    <2> SUFFICES ASSUME HostInv, phase = "ready" PROVE NodePortReplies
      BY DEF NodePortReplies
    <2> DEFINE mark == config.mainNICMark
    <2>1. Past(LastChain + 5) /\ Past(LastChain + 6)
      BY DEF Past
    <2>2. /\ Has(Chain("PREROUTING", 0), connmarkRule(primaryIntf, mark))
               <=> config.nodePortSupportEnabled
          /\ Has(Chain("PREROUTING", 0), restoreRule(mark)) <=> config.nodePortSupportEnabled
      BY <2>1 DEF HostInv, BuiltInInv
    <2>3. /\ mark \in markRules <=> config.nodePortSupportEnabled
          /\ config.nodePortSupportEnabled => PrimaryIntf \in looseIntf
      BY DEF HostInv, MarkInv
    <2>4. config.nodePortSupportEnabled => primaryIntf = PrimaryIntf
      BY DEF primaryIntf
    <2> QED
      BY <2>2, <2>3, <2>4 DEF NodePortReplies
  <1> QED
    BY <1>1, HostInvariant, PTL

\* No packet comes past a barrier, and none meets a translation before it.
LEMMA BarrierStops ==
    ASSUME NEW d, NEW j \in 0 .. MaxNetworks, Barrier(d, j)
    PROVE  Translations(d) = {}
  <1>1. MaxNetworks \in Nat
    BY HostNetworkAssumption
  <1>2. \A i \in Reached(d) : i \in 0 .. j
    <2>1. ASSUME NEW i \in 0 .. MaxNetworks, ~(i \in 0 .. j)
          PROVE  i \notin Reached(d)
      <3>1. j \in 0 .. i - 1
        BY <1>1, <2>1
      <3> QED
        BY <3>1 DEF Reached, Barrier
    <2> QED
      BY <2>1 DEF Reached
  <1>3. ASSUME NEW i \in 0 .. j, NEW r \in SNATRules(i), NEW t
        PROVE  r.target # <<"SNAT", t>>
    BY DEF Barrier
  <1> QED
    BY <1>2, <1>3 DEF Translations

\* What pods send to a network that every start has read of the VPC is never
\* translated: neither when NewChain has emptied only some of the chains nor when
\* EnsureRule has filled only some.
THEOREM NeverTranslatedCorrect == Spec => []NeverTranslatedInVPC
  <1>1. HostInv => NeverTranslatedInVPC
    <2> SUFFICES ASSUME HostInv, NEW d \in always PROVE Translations(d) = {}
      BY DEF NeverTranslatedInVPC
    <2>1. PICK j \in 0 .. MaxNetworks : Barrier(d, j)
      BY DEF HostInv, BarrierInv
    <2> QED
      BY <2>1, BarrierStops
  <1> QED
    BY <1>1, HostInvariant, PTL

\* Once SetupHostNetwork is done, what leaves the VPC is translated the way this
\* start was asked to, and nothing else is; with an external gateway nothing is.
THEOREM TranslatedOutsideCorrect == Spec => []TranslatedOutsideVPC
  <1>1. HostInv => TranslatedOutsideVPC
    <2> SUFFICES ASSUME HostInv, phase = "ready", NEW d \in Destination
                 PROVE  Translations(d) =
                          IF config.useExternalSNAT \/ d \in Range(config.vpcCIDRs)
                            THEN {} ELSE {SNATFlag(config.typeOfSNAT)}
      BY DEF TranslatedOutsideVPC
    <2> DEFINE cidrs == config.vpcCIDRs
               type == config.typeOfSNAT
               first == Has(Chain("POSTROUTING", 0), JumpUnless(AnyDst, 0))
    <2>1. /\ TypeInv /\ config \in Config /\ LastChain \in Nat /\ LastChain <= MaxNetworks
          /\ MaxNetworks \in Nat /\ DOMAIN cidrs = 1 .. LastChain
      BY ListFacts, LenProperties, HostNetworkAssumption DEF HostInv, TypeInv
    <2>2. first <=> ~config.useExternalSNAT
      BY DEF HostInv, BuiltInInv, Past
    <2>3. ASSUME ~config.useExternalSNAT, NEW i \in 0 .. LastChain
          PROVE  SNATRules(i) = {OwnRule(i)}
      <3>1. Past(Turn(i))
        BY DEF Past
      <3> QED
        BY <2>3, <3>1 DEF HostInv, ChainsInv
    <2> HIDE DEF first
    <2>4. CASE config.useExternalSNAT
      BY <2>2, <2>4 DEF Translations, first
    <2>5. CASE ~config.useExternalSNAT /\ d \in Range(cidrs)
      <3>1. PICK m \in 1 .. LastChain : cidrs[m] = d
        BY <2>1, <2>5 DEF Range
      <3> DEFINE j == m - 1
      <3>2. /\ j \in 0 .. LastChain /\ j # LastChain /\ j \in 0 .. MaxNetworks /\ j + 1 = m
            /\ \A k \in 0 .. j : k \in 0 .. LastChain /\ k # LastChain
        BY <2>1
      <3> HIDE DEF j
      <3>3. ASSUME NEW k \in 0 .. j, NEW r \in SNATRules(k)
            PROVE  r = OwnRule(k) /\ r.target[1] # "SNAT"
        <4>1. k \in 0 .. LastChain /\ k # LastChain
          BY <3>2
        <4>2. r = OwnRule(k)
          BY <2>3, <2>5, <3>3, <4>1
        <4> QED
          BY <2>1, <4>1, <4>2, OwnJumps
      <3>4. ASSUME NEW r \in SNATRules(j)
            PROVE  r.match = d
        <4>1. j \in 0 .. j
          BY <3>2
        <4>2. r = OwnRule(j)
          BY <3>3, <4>1
        <4>3. OwnRule(j) = JumpUnless(d, m)
          BY <2>1, <3>1, <3>2, OwnJumps
        <4> QED
          BY <4>2, <4>3, RuleKinds
      <3>5. Barrier(d, j)
        BY <3>3, <3>4 DEF Barrier, Passes
      <3> QED
        BY <2>5, <3>2, <3>5, BarrierStops
    <2>6. CASE ~config.useExternalSNAT /\ d \notin Range(cidrs)
      <3>1. ASSUME NEW j \in 0 .. LastChain, j # LastChain
            PROVE  Passes(d, j)
        <4>1. OwnRule(j) \in SNATRules(j) /\ OwnRule(j) = JumpUnless(cidrs[j + 1], j + 1)
          BY <2>1, <2>3, <2>6, <3>1, OwnJumps
        <4>2. cidrs[j + 1] # d
          <5>1. j + 1 \in 1 .. LastChain
            BY <2>1, <3>1
          <5> QED
            BY <2>1, <2>6, <5>1 DEF Range
        <4> QED
          BY <4>1, <4>2, RuleKinds DEF Passes
      <3>2. SNATRules(LastChain) = {snatRule(type)}
        BY <2>1, <2>3, <2>6 DEF OwnRule
      <3>3. ~Passes(d, LastChain)
        BY <3>2, RuleKinds DEF Passes
      <3>4. LastChain \in Reached(d)
        BY <2>1, <3>1 DEF Reached
      <3>5. ASSUME NEW i \in Reached(d)
            PROVE  i \in 0 .. LastChain
        <4>1. i \in 0 .. MaxNetworks /\ ~(LastChain \in 0 .. i - 1)
          BY <3>3 DEF Reached
        <4> QED
          BY <2>1, <4>1
      <3>6. ASSUME NEW i \in Reached(d), NEW r \in SNATRules(i), NEW t,
                   r.target = <<"SNAT", t>>
            PROVE  r = snatRule(type)
        <4>1. i \in 0 .. LastChain /\ r = OwnRule(i)
          BY <2>3, <2>6, <3>5, <3>6
        <4>2. CASE i = LastChain
          BY <3>2, <3>6, <4>2
        <4>3. CASE i # LastChain
          BY <2>1, <3>6, <4>1, <4>3, OwnJumps
        <4> QED
          BY <4>2, <4>3
      <3>7. /\ type \in SNATType
            /\ snatRule(type).target = <<"SNAT", SNATFlag(type)>>
        BY <2>1, RuleKinds DEF Config
      <3>8. \A t : t \in Translations(d) => t = SNATFlag(type)
        <4>1. \A s, t : <<"SNAT", s>> = <<"SNAT", t>> => s = t
          OBVIOUS
        <4>2. ASSUME NEW t \in Translations(d)
              PROVE  t = SNATFlag(type)
          <5>1. PICK i \in Reached(d) : \E r \in SNATRules(i) : r.target = <<"SNAT", t>>
            BY DEF Translations
          <5>2. PICK r \in SNATRules(i) : r.target = <<"SNAT", t>>
            BY <5>1
          <5>3. r = snatRule(type)
            BY <3>6, <5>2
          <5> QED
            BY <3>7, <4>1, <5>2, <5>3
        <4> QED
          BY <4>2
      <3>9. SNATFlag(type) \in Translations(d)
        BY <2>2, <2>6, <3>2, <3>4, <3>7 DEF Translations, first
      <3> QED
        BY <2>6, <3>8, <3>9
    <2> QED
      BY <2>4, <2>5, <2>6
  <1> QED
    BY <1>1, HostInvariant, PTL

=============================================================================
