-------------------------------- MODULE Leases --------------------------------
(***************************************************************************)
(* What the executor's locks promise, without its handlers, its queue or   *)
(* its database: a run works under a lease of every claim of its plan,     *)
(* leases that collide never stand together, a lease is granted whole and  *)
(* returned whole, and none is returned under a run that works.            *)
(***************************************************************************)
CONSTANTS
    Runs,           \* who leases
    ClaimsOf,       \* what each run leases, all of it or none
    Disjoint(_, _)  \* whether two sets of claims may be held side by side

VARIABLES
    held,           \* the claims each run holds
    working         \* the runs some execution works for

leaseVars == <<held, working>>

Free(S, h) == \A q, r \in Runs : q # r /\ r \in S => Disjoint(h[q], ClaimsOf[r])

Init ==
    /\ held = [r \in Runs |-> {}]
    /\ working = {}

\* Some runs are granted what they ask for, in one step, where nobody stands in their way.
Grant(S) ==
    /\ held' = [r \in Runs |-> IF r \in S THEN ClaimsOf[r] ELSE held[r]]
    /\ Free(S, held')
    /\ UNCHANGED working

\* Leases of runs nobody works for are returned.
Return(S) ==
    /\ S \cap working = {}
    /\ held' = [r \in Runs |-> IF r \in S THEN {} ELSE held[r]]
    /\ UNCHANGED working

Begin(r) ==
    /\ r \notin working /\ held[r] = ClaimsOf[r]
    /\ working' = working \cup {r}
    /\ UNCHANGED held

End(r) ==
    /\ working' = working \ {r}
    /\ UNCHANGED held

\* The process dies: nobody works, and what is leased stays leased for the next one.
Stop ==
    /\ working' = {}
    /\ UNCHANGED held

\* It dies between the grant and the first thing done under it.
GrantAndStop(r) ==
    /\ held' = [held EXCEPT ![r] = ClaimsOf[r]]
    /\ Free({r}, held')
    /\ working' = {}

Next ==
    \/ \E S \in SUBSET Runs : Grant(S) \/ Return(S)
    \/ \E r \in Runs : Begin(r) \/ End(r) \/ GrantAndStop(r)
    \/ Stop

Spec == Init /\ [][Next]_leaseVars

=============================================================================
