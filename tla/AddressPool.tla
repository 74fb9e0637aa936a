---------------------------- MODULE AddressPool ----------------------------
(***************************************************************************)
(* What the address store promises those who use it, without NICs, marks,  *)
(* counters and times.  Before the pool opens, holders from before are put *)
(* back in their places.  Then a holder is given an address of the pool    *)
(* that nobody has and that has rested since it was last released, and an  *)
(* address leaves the pool only when nobody has it and it has rested.      *)
(***************************************************************************)
CONSTANTS Holder, Address

VARIABLES
    open,
    pool,     \* addresses that can be given
    resting,  \* those of them that were released a short time ago
    holds     \* pairs of a holder and the address it has

poolVars == <<open, pool, resting, holds>>

Held == {h[2] : h \in holds}

HasNone(k) == \A h \in holds : h[1] # k

PoolInit == open = FALSE /\ pool = {} /\ resting = {} /\ holds = {}

Supply(i) ==
    /\ i \notin pool
    /\ pool' = pool \cup {i}
    /\ UNCHANGED <<open, resting, holds>>

Recover(k, i) ==
    /\ ~open
    /\ HasNone(k)
    /\ i \in pool /\ i \notin Held
    /\ holds' = holds \cup {<<k, i>>}
    /\ UNCHANGED <<open, pool, resting>>

Open ==
    /\ open' = TRUE
    /\ UNCHANGED <<pool, resting, holds>>

Give(k, i) ==
    /\ open
    /\ HasNone(k)
    /\ i \in pool /\ i \notin Held /\ i \notin resting
    /\ holds' = holds \cup {<<k, i>>}
    /\ UNCHANGED <<open, pool, resting>>

Release(k, i) ==
    /\ open
    /\ <<k, i>> \in holds
    /\ holds' = holds \ {<<k, i>>}
    /\ resting' = resting \cup {i}
    /\ UNCHANGED <<open, pool>>

Withdraw(S) ==
    /\ open
    /\ S \subseteq pool
    /\ S \cap Held = {} /\ S \cap resting = {}
    /\ pool' = pool \ S
    /\ UNCHANGED <<open, resting, holds>>

\* Some of the addresses have rested long enough.
Rest(S) ==
    /\ resting' = resting \ S
    /\ UNCHANGED <<open, pool, holds>>

PoolNext ==
    \/ \E i \in Address : Supply(i)
    \/ \E k \in Holder, i \in Address : Recover(k, i) \/ Give(k, i) \/ Release(k, i)
    \/ Open
    \/ \E S \in SUBSET Address : Withdraw(S) \/ Rest(S)

PoolSpec == PoolInit /\ [][PoolNext]_poolVars

=============================================================================
