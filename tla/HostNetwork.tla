---------------------------- MODULE HostNetwork ----------------------------
(***************************************************************************)
(* The packet filter, routing rule and kernel parameter of the whole host: *)
(* SetupHostNetwork of pkg/networkutils/networkutil.go, which the daemon   *)
(* calls at each start (setup of pkg/ipam/ipam.go).                        *)
(*                                                                         *)
(* Each call of iptables or netlink is one action.  The process may end    *)
(* between any two of them, by an error the call returns or by a crash,    *)
(* and it is started again with another environment and other networks of  *)
(* the VPC.  The kernel keeps what was done until the host reboots.        *)
(***************************************************************************)
EXTENDS Integers, Sequences, Functions, SequencesExt

CONSTANTS
    CIDR,        \* networks the VPC may have
    Elsewhere,   \* an address in none of them
    AnyDst,      \* a rule without a destination
    Lists,       \* sequences of networks a start may read of the VPC
    MaxNetworks, \* a bound on their lengths
    Environment, \* values of the environment variables of a start
    Mark,        \* numbers a connection mark may have
    defaultConnmark,
    HasRandomFully, \* what iptables can do
    PrimaryIntf, \* the interface findPrimaryInterfaceName finds
    None,
    MaxStops     \* ends of the process, and reboots

ASSUME HostNetworkAssumption ==
    /\ Lists # {} /\ \A l \in Lists : l \in Seq(CIDR) /\ Len(l) <= MaxNetworks
    /\ Environment # {} /\ defaultConnmark \in Mark
    /\ Elsewhere \notin CIDR /\ AnyDst \notin CIDR \cup {Elsewhere}
    /\ MaxNetworks \in Nat /\ MaxStops \in Nat

VARIABLES
    \* the daemon
    phase,      \* the part of SetupHostNetwork it is in
    config,     \* the fields of linuxNetwork, with the list of networks
    at,         \* the next chain to make, or the next rule to treat
    \* the kernel
    looseIntf,  \* interfaces whose reverse path filter is loose
    markRules,  \* marks with a rule "lookup main"
    iptables,   \* chain |-> its rules of this program, in order
    \* history
    stops,
    always      \* networks every start has read

daemonVars == <<phase, config, at>>
kernelVars == <<looseIntf, markRules, iptables>>
vars == <<daemonVars, kernelVars, stops, always>>

----------------------------------------------------------------------------
(* The environment: a variable that is not set, or cannot be parsed, has its *)
(* default value.                                                            *)

getBoolEnvVar(value, default) ==
    IF value \in {"true", "false"} THEN value = "true" ELSE default

typeOfSNAT(value) == IF value \in {"prng", "none"} THEN value ELSE "hashrandom"

getConnmark(value) == IF value \in Mark THEN value ELSE defaultConnmark

NewNetwork(env, cidrs) ==
    [useExternalSNAT |-> getBoolEnvVar(env.externalSNAT, FALSE),
     nodePortSupportEnabled |-> getBoolEnvVar(env.nodePort, TRUE),
     typeOfSNAT |-> typeOfSNAT(env.randomizeSNAT),
     mainNICMark |-> getConnmark(env.connmark),
     vpcCIDRs |-> cidrs]

NoConfig == NewNetwork([externalSNAT |-> None, nodePort |-> None, randomizeSNAT |-> None,
                        connmark |-> None], << >>)

----------------------------------------------------------------------------
(* The rules of the packet filter *)

Chain(name, i) == <<name, i>>
SNATChain(i) == Chain("QINGCLOUD-SNAT-CHAIN", i)
BuiltIn == {Chain("POSTROUTING", 0), Chain("FORWARD", 0), Chain("PREROUTING", 0)}

\* "-j" another chain, for packets whose destination is not in cidr.
JumpUnless(cidr, i) == [match |-> cidr, target |-> SNATChain(i)]

\* The flag the SNAT rule carries; old versions of iptables lack "--random-fully".
SNATFlag(type) ==
    CASE type = "none" -> "sequential"
      [] type = "hashrandom" -> "--random"
      [] type = "prng" -> IF HasRandomFully THEN "--random-fully" ELSE "--random"

snatRule(type) == [match |-> AnyDst, target |-> <<"SNAT", SNATFlag(type)>>]
acceptRule(direction) == [match |-> direction, target |-> <<"ACCEPT", 0>>]
connmarkRule(intf, mark) == [match |-> intf, target |-> <<"CONNMARK", mark>>]
restoreRule(mark) == [match |-> "nic+", target |-> <<"RESTORE", mark>>]

primaryIntf == IF config.nodePortSupportEnabled THEN PrimaryIntf ELSE "eth0"

LastChain == Len(config.vpcCIDRs)

\* iptableRules: what should or should not exist, in the order of the code.
iptableRules ==
    LET rule(should, chain, r) == [should |-> should, chain |-> chain, rule |-> r]
        snat == ~config.useExternalSNAT
        nodePort == config.nodePortSupportEnabled
        mark == config.mainNICMark
        cidrs == config.vpcCIDRs
    IN  <<rule(snat, Chain("POSTROUTING", 0), JumpUnless(AnyDst, 0))>>
        \o [i \in DOMAIN cidrs |-> rule(snat, SNATChain(i - 1), JumpUnless(cidrs[i], i))]
        \o <<rule(TRUE, Chain("FORWARD", 0), acceptRule("-i nic+")),
             rule(TRUE, Chain("FORWARD", 0), acceptRule("-o nic+")),
             rule(snat, SNATChain(LastChain), snatRule(config.typeOfSNAT)),
             rule(nodePort, Chain("PREROUTING", 0), connmarkRule(primaryIntf, mark)),
             rule(nodePort, Chain("PREROUTING", 0), restoreRule(mark))>>

Has(chain, r) == chain \in DOMAIN iptables /\ r \in Range(iptables[chain])

----------------------------------------------------------------------------
EmptyTables == [c \in BuiltIn |-> << >>]

Init ==
    /\ phase = "down" /\ config = NoConfig /\ at = 0
    /\ looseIntf = {} /\ markRules = {} /\ iptables = EmptyTables
    /\ stops = 0
    /\ always = CIDR

\* New, and the networks of GetNodeVPC.
Start ==
    /\ phase = "down"
    /\ \E env \in Environment, cidrs \in Lists :
         /\ config' = NewNetwork(env, cidrs)
         /\ always' = always \cap Range(cidrs)
    /\ phase' = "rpFilter"
    /\ UNCHANGED <<at, kernelVars, stops>>

\* setProcSys on the primary interface, only for node ports.
SetRPFilter ==
    /\ phase = "rpFilter"
    /\ looseIntf' = IF config.nodePortSupportEnabled THEN looseIntf \cup {primaryIntf}
                                                     ELSE looseIntf
    /\ phase' = "ruleDel"
    /\ UNCHANGED <<config, at, markRules, iptables, stops, always>>

\* A rule that does not exist is no error.
DelMainNICRule ==
    /\ phase = "ruleDel"
    /\ markRules' = markRules \ {config.mainNICMark}
    /\ phase' = IF config.nodePortSupportEnabled THEN "ruleAdd" ELSE "chains"
    /\ UNCHANGED <<config, at, looseIntf, iptables, stops, always>>

AddMainNICRule ==
    /\ phase = "ruleAdd"
    /\ markRules' = markRules \cup {config.mainNICMark}
    /\ phase' = "chains"
    /\ UNCHANGED <<config, at, looseIntf, iptables, stops, always>>

AfterChain ==
    IF at = LastChain THEN phase' = "rules" /\ at' = 1
                      ELSE at' = at + 1 /\ UNCHANGED phase

\* Faulty variants of NewChain: a chain that exists is left as it is; each chain
\* gets its rule as soon as it is empty; a chain that exists ends the process.
NewChainOnly ==
    /\ phase = "chains"
    /\ iptables' = [c \in DOMAIN iptables \cup {SNATChain(at)} |->
                      IF c \in DOMAIN iptables THEN iptables[c] ELSE << >>]
    /\ AfterChain
    /\ UNCHANGED <<config, looseIntf, markRules, stops, always>>

NewChainWithRule ==
    /\ phase = "chains"
    /\ iptables' = [c \in DOMAIN iptables \cup {SNATChain(at)} |->
                      IF c # SNATChain(at) THEN iptables[c]
                      ELSE IF at = LastChain \/ config.useExternalSNAT THEN << >>
                      ELSE <<JumpUnless(config.vpcCIDRs[at + 1], at + 1)>>]
    /\ AfterChain
    /\ UNCHANGED <<config, looseIntf, markRules, stops, always>>

NewChainOrExit ==
    /\ phase = "chains"
    /\ IF SNATChain(at) \in DOMAIN iptables
         THEN phase' = "down" /\ at' = 0 /\ UNCHANGED iptables
         ELSE /\ iptables' = [c \in DOMAIN iptables \cup {SNATChain(at)} |->
                                IF c = SNATChain(at) THEN << >> ELSE iptables[c]]
              /\ AfterChain
    /\ UNCHANGED <<config, looseIntf, markRules, stops, always>>

\* NewChain, and ClearChain if the chain exists.
NewChain ==
    /\ phase = "chains"
    /\ iptables' = [c \in DOMAIN iptables \cup {SNATChain(at)} |->
                      IF c = SNATChain(at) THEN << >> ELSE iptables[c]]
    /\ AfterChain
    /\ UNCHANGED <<config, looseIntf, markRules, stops, always>>

AfterRule ==
    IF at = Len(iptableRules) THEN phase' = "ready" /\ at' = 0
                              ELSE at' = at + 1 /\ UNCHANGED phase

\* Faulty variants of EnsureRule: rules are added without a look at what exists;
\* nothing is ever taken out.
AppendAgain ==
    /\ phase = "rules"
    /\ LET r == iptableRules[at]
       IN  iptables' = IF r.should THEN [iptables EXCEPT ![r.chain] = Append(@, r.rule)]
                                   ELSE iptables
    /\ AfterRule
    /\ UNCHANGED <<config, looseIntf, markRules, stops, always>>

AppendRule ==
    /\ phase = "rules"
    /\ LET r == iptableRules[at]
       IN  iptables' = IF r.should /\ ~Has(r.chain, r.rule)
                         THEN [iptables EXCEPT ![r.chain] = Append(@, r.rule)]
                         ELSE iptables
    /\ AfterRule
    /\ UNCHANGED <<config, looseIntf, markRules, stops, always>>

\* Exists, then Append or Delete where the rule is not as it should be.
EnsureRule ==
    /\ phase = "rules"
    /\ LET r == iptableRules[at]
       IN  IF Has(r.chain, r.rule) <=> r.should THEN UNCHANGED iptables
           ELSE IF r.should
             THEN iptables' = [iptables EXCEPT ![r.chain] = Append(@, r.rule)]
           ELSE \E i \in DOMAIN iptables[r.chain] :
                  /\ iptables[r.chain][i] = r.rule
                  /\ iptables' = [iptables EXCEPT ![r.chain] = RemoveAt(@, i)]
    /\ AfterRule
    /\ UNCHANGED <<config, looseIntf, markRules, stops, always>>

\* An error of any call ends the process; so may a crash, or a new version.
Stop ==
    /\ phase # "down"
    /\ stops < MaxStops
    /\ stops' = stops + 1
    /\ phase' = "down" /\ config' = NoConfig /\ at' = 0
    /\ UNCHANGED <<kernelVars, always>>

Reboot ==
    /\ stops < MaxStops
    /\ stops' = stops + 1
    /\ phase' = "down" /\ config' = NoConfig /\ at' = 0
    /\ looseIntf' = {} /\ markRules' = {} /\ iptables' = EmptyTables
    /\ UNCHANGED always

SetupHostNetwork ==
    SetRPFilter \/ DelMainNICRule \/ AddMainNICRule \/ NewChain \/ EnsureRule

Next == Start \/ SetupHostNetwork \/ Stop \/ Reboot

Spec == Init /\ [][Next]_vars

\* The kubelet starts the daemon again, and the daemon goes on.
FairSpec == Spec /\ WF_vars(Start) /\ WF_vars(SetupHostNetwork)

----------------------------------------------------------------------------
(* Properties *)

SNATType == {"hashrandom", "prng", "none"}

Destination == CIDR \cup {Elsewhere}

\* The state is well typed: chains of this program hold jumps to the next chain
\* and translations only, and no rule is there twice.
HostTypeOK ==
    /\ phase \in {"down", "rpFilter", "ruleDel", "ruleAdd", "chains", "rules", "ready"}
    /\ config \in [useExternalSNAT : BOOLEAN, nodePortSupportEnabled : BOOLEAN,
                   typeOfSNAT : SNATType, mainNICMark : Mark,
                   vpcCIDRs : Lists \cup {<< >>}]
    /\ at \in 0 .. LastChain + 6
    /\ phase = "rules" => \A i \in 0 .. LastChain : SNATChain(i) \in DOMAIN iptables
    /\ looseIntf \subseteq {PrimaryIntf} /\ markRules \subseteq Mark
    /\ BuiltIn \subseteq DOMAIN iptables
    /\ DOMAIN iptables \subseteq BuiltIn \cup {SNATChain(i) : i \in 0 .. MaxNetworks}
    /\ \A c \in DOMAIN iptables : IsInjective(iptables[c])
    /\ \A i \in 0 .. MaxNetworks : SNATChain(i) \in DOMAIN iptables =>
         \A r \in Range(iptables[SNATChain(i)]) :
             \/ \E type \in SNATType : r = snatRule(type)
             \/ i < MaxNetworks /\ \E c \in CIDR : r = JumpUnless(c, i + 1)
    /\ stops \in 0 .. MaxStops /\ always \subseteq CIDR

\* The rules of a chain of this program.
SNATRules(i) == IF SNATChain(i) \in DOMAIN iptables THEN Range(iptables[SNATChain(i)]) ELSE {}

\* A packet to d may go from a chain to the next.
Passes(d, i) == \E r \in SNATRules(i) : r.target = SNATChain(i + 1) /\ r.match # d

\* The chains a packet to d may come to, and the translations it may meet there,
\* in whatever order the rules of a chain are.
Reached(d) == {i \in 0 .. MaxNetworks : \A j \in 0 .. i - 1 : Passes(d, j)}

Translations(d) ==
    {t \in {SNATFlag(type) : type \in SNATType} :
       /\ Has(Chain("POSTROUTING", 0), JumpUnless(AnyDst, 0))
       /\ \E i \in Reached(d) : \E r \in SNATRules(i) : r.target = <<"SNAT", t>>}

\* Once set up, what a pod sends is translated, as this start was asked to,
\* exactly when it leaves the VPC and no external gateway does it
\* (docs/proposal.md:76), whatever earlier starts have left behind.
TranslatedOutsideVPC ==
    phase = "ready" =>
        \A d \in Destination :
            Translations(d) =
              IF config.useExternalSNAT \/ d \in Range(config.vpcCIDRs)
                THEN {} ELSE {SNATFlag(config.typeOfSNAT)}

\* A network that every start has known as one of the VPC is never translated,
\* neither while the chains are made anew nor when this stops half-way: pods talk
\* to each other with their own addresses throughout.
NeverTranslatedInVPC ==
    \A d \in always : Translations(d) = {}

\* Once set up, replies of node ports find their way: the primary interface marks
\* connections, the mark is restored, has its rule and passes the filter; and
\* without node ports nothing acts on this start's mark.
NodePortReplies ==
    phase = "ready" =>
        LET mark == config.mainNICMark
            restored == Has(Chain("PREROUTING", 0), restoreRule(mark))
        IN  IF config.nodePortSupportEnabled
              THEN /\ Has(Chain("PREROUTING", 0), connmarkRule(PrimaryIntf, mark))
                   /\ restored /\ mark \in markRules
                   /\ PrimaryIntf \in looseIntf
              ELSE ~restored /\ mark \notin markRules

\* Whatever an interrupted set-up has left behind, a later one completes.
HostReady == <>[](phase = "ready")

=============================================================================
