---------------------------- MODULE MCPodNetwork ----------------------------
(* A small instance of PodNetwork for TLC: two addresses, and three NICs of *)
(* which the third brings the first one's address back.                    *)
EXTENDS PodNetwork, TLC

CONSTANTS n1, n2, n3, a1, a2, p1, p2, s1, s2, vpc, vpn

NICAddr == (n1 :> a1) @@ (n2 :> a2) @@ (n3 :> a1)

\* The kernel numbers interfaces, the loopback and the primary one first; the
\* cloud counts the NICs of an instance.  The two ranges are kept apart here.
FarIfIndex == (n1 :> 13) @@ (n2 :> 14) @@ (n3 :> 15)
NICSequence == (n1 :> 1) @@ (n2 :> 2) @@ (n3 :> 3)

VPCThenVPN == <<vpc, vpn>>

PodOfTwo == (s1 :> p1) @@ (s2 :> p2)

\* A pod and its sandbox are only compared with others, so the two pairs may be
\* exchanged.
PodNetworkSymmetry == {(p1 :> p2) @@ (p2 :> p1) @@ (s1 :> s2) @@ (s2 :> s1)}

\* So may n1 and n3, with their numbers, which are only compared as well.
FirstBeforeThird == n3 \in links => n1 \in retired

=============================================================================
