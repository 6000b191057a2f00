------------------------------ MODULE RunLocks ------------------------------
(***************************************************************************)
(* The lock table and the line of queued runs as pure operators: what      *)
(* src/server/executor/locks.ts and queue.ts compute, over values their    *)
(* caller hands in.  The lock table is a function `held' from runs to the  *)
(* claims they hold; releasing a row marks it deleted in the code, and is  *)
(* its removal here.  A claim (resource, key) is one value; the two global *)
(* claims, manager:self and all:*, are the members of GlobalClaims.        *)
(***************************************************************************)
EXTENDS Naturals

CONSTANTS
    Runs,          \* the run ids, naturals: the line breaks ties by id
    Claims,        \* the (resource, key) pairs a plan may name
    GlobalClaims,  \* those that collide with every other claim
    ClaimsOf       \* the deduplicated claims of each run's plan

ASSUME RunsAssumption == Runs \subseteq Nat \ {0}
ASSUME ClaimsAssumption ==
    /\ GlobalClaims \subseteq Claims
    /\ ClaimsOf \in [Runs -> SUBSET Claims]

-----------------------------------------------------------------------------
\* locks.ts: conflicts, acquire, release, reconcile.

isGlobalClaim(c) == c \in GlobalClaims

\* Mutant: a global claim that is taken blocks nobody.
MutantNoGlobalTaken(taken, claims) ==
    IF claims = {} THEN {}
    ELSE IF \E c \in claims : isGlobalClaim(c) THEN taken
    ELSE taken \cap claims

\* Every taken claim that `claims' collides with; a global claim collides in both directions.
lockConflicts(taken, claims) ==
    LET global == {t \in taken : isGlobalClaim(t)} IN
    IF claims = {} THEN {}
    ELSE IF global # {} THEN global
    ELSE IF \E c \in claims : isGlobalClaim(c) THEN taken
    ELSE taken \cap claims

HeldBy(held, S) == UNION {held[r] : r \in S}

\* acquireLocks refuses (RESOURCE_BUSY) on any conflict of the claims the run does not hold yet.
CanAcquire(held, r) ==
    lockConflicts(HeldBy(held, Runs \ {r}), ClaimsOf[r] \ held[r]) = {}

acquireLocks(held, r) == [held EXCEPT ![r] = @ \cup ClaimsOf[r]]

releaseLocks(held, r) == [held EXCEPT ![r] = {}]

\* Mutant: a run in flight is not among those that may hold locks.
MutantHolderStatuses == {"approved", "failed", "cancelled"}

HolderStatuses == {"approved", "running", "failed", "cancelled"}

\* The boot's self-check locks.rebuilt: only a run that may hold locks keeps them.
reconcileLocks(held, status) ==
    [r \in Runs |-> IF status[r] \in HolderStatuses THEN held[r] ELSE {}]

-----------------------------------------------------------------------------
\* queue.ts: the line is the queued rows ordered by approved_at, then by id.

Ahead(approvedAt, q, r) ==
    \/ approvedAt[q] < approvedAt[r]
    \/ approvedAt[q] = approvedAt[r] /\ q < r

\* What is taken when the walk reaches r: the held locks and the claims of every run ahead of r
\* that reserves its own.
TakenBefore(held, approvedAt, reserving, r) ==
    HeldBy(held, Runs)
        \cup UNION {ClaimsOf[q] : q \in {p \in reserving : Ahead(approvedAt, p, r)}}

\* The runs one walk of the line starts: they reserve, and wait for nothing.
Startable(held, approvedAt, reserving) ==
    {r \in reserving : lockConflicts(TakenBefore(held, approvedAt, reserving, r), ClaimsOf[r]) = {}}

conflictsAtEndOfQueue(held, reserving, claims) ==
    lockConflicts(HeldBy(held, Runs) \cup UNION {ClaimsOf[q] : q \in reserving}, claims)

-----------------------------------------------------------------------------
\* The reference: what the lock table is for.

Collide(c, d) == c = d \/ isGlobalClaim(c) \/ isGlobalClaim(d)

Disjoint(S, T) == \A c \in S, d \in T : ~Collide(c, d)

=============================================================================
