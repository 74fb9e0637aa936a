--------------------------- MODULE MCHostNetwork ---------------------------
(* A small instance of HostNetwork for TLC. *)
EXTENDS HostNetwork

CONSTANTS c1, c2, c3, mark1, mark2

\* The list grows, shrinks and changes its order.
SomeLists == {<<c1>>, <<c1, c2>>, <<c2, c3, c1>>}

Env(external, nodePort, randomize, mark) ==
    [externalSNAT |-> external, nodePort |-> nodePort, randomizeSNAT |-> randomize,
     connmark |-> mark]

\* Every value of each variable; the others are not set or not valid.
SomeEnvironments ==
    {Env("", "", "", ""), Env("true", "junk", "junk", mark2),
     Env("false", "false", "none", "junk"), Env("junk", "true", "prng", mark2),
     Env("true", "false", "hashrandom", mark2)}

=============================================================================
