------------------------------- MODULE MCNode -------------------------------
(* Small instances of Node for TLC. *)
EXTENDS Node, TLC

CONSTANTS n1, n2, i1, i2, p1, p2, s1, s2, s3

\* One sandbox for each of two pods; one and two sandboxes of one pod.
TwoPods == (s1 :> p1) @@ (s3 :> p2)
OneSandbox == s1 :> p1
TwoSandboxes == (s1 :> p1) @@ (s2 :> p1)

\* The kernel numbers interfaces from 1, the loopback and the primary one first; the
\* cloud counts the NICs of an instance from 0, the primary one first.
OneNICAddr == n1 :> i1
OneNICIfIndex == n1 :> 3
OneNICSequence == n1 :> 1
TwoNICsAddr == (n1 :> i1) @@ (n2 :> i2)
TwoNICsIfIndex == (n1 :> 3) @@ (n2 :> 4)
TwoNICsSequence == (n1 :> 1) @@ (n2 :> 2)

\* Device numbers are handed on and never compared.  Where no property speaks
\* of them one stands for all, and exchanging the NICs with their addresses, or
\* the pods of TwoPods with their sandboxes, makes no difference.
OneDevice == [n \in NIC |-> 1]
ExchangeNICs == (n1 :> n2) @@ (n2 :> n1) @@ (i1 :> i2) @@ (i2 :> i1)
ExchangePods == (p1 :> p2) @@ (p2 :> p1) @@ (s1 :> s3) @@ (s3 :> s1)
Unchanged == Permutations({p1})
NodeSymmetry == {ExchangeNICs, ExchangePods} \cup Unchanged
PodSymmetry == {ExchangePods} \cup Unchanged
NICSymmetry == {ExchangeNICs} \cup Unchanged

=============================================================================
