------------------------------ MODULE RunChain ------------------------------
(***************************************************************************)
(* What the executor does around the steps of a run definition, as the     *)
(* step definitions see it: the plan is frozen, the run takes its locks    *)
(* and walks its steps in order, a step that throws leaves the run failed  *)
(* with its locks HELD, and the operator retries it from that step, aborts *)
(* it into the cleanups it registered, or deletes it. RunExecutor models   *)
(* the executor itself; the modules that EXTEND this one give the steps.   *)
(* A retry, and the boot after a crash, call def.steps(params) anew, so    *)
(* what the steps kept in a closure (mem) is gone. Skipping a step is left *)
(* out here: the operator who skips answers for what the step was to do.   *)
(***************************************************************************)
EXTENDS Naturals, Sequences

CONSTANTS Runs,        \* the runs that exist at a time
          MaxPlans,    \* bound: the runs planned, over a whole behaviour
          MaxFails     \* bound: the steps that fail, over a whole behaviour

ASSUME RunChainAssumption == MaxPlans \in Nat /\ MaxFails \in Nat

VARIABLES run,         \* the runs: each idle, or its frozen plan and where it stands in it
          used         \* how much of the two bounds is used up

\* A slot no run uses.
Idle == [st |-> "idle"]

NoRuns == run = [r \in Runs |-> Idle] /\ used = [plans |-> 0, fails |-> 0]

\* A frozen plan: its parameters, the resources its locks name, and its steps, each [s, g].
Frozen(p, claims, steps) ==
    [st |-> "planned", p |-> p, claims |-> claims, todo |-> steps, armed |-> <<>>, mem |-> {},
     undo |-> FALSE]

Holding(r) == run[r].st \in {"running", "failed"}

Param(r) == run[r].p

\* The plan becomes a run that waits for its approval; nothing is locked yet.
Plans(r, p, claims, steps) ==
    /\ run[r].st = "idle" /\ used.plans < MaxPlans
    /\ run' = [run EXCEPT ![r] = Frozen(p, claims, steps)]
    /\ used' = [used EXCEPT !.plans = @ + 1]

\* Approved, and every claim was free: a failed run holds its claims too.
Start(r) ==
    /\ run[r].st = "planned"
    /\ \A q \in Runs \ {r} : Holding(q) => run[q].claims \cap run[r].claims = {}
    /\ run' = [run EXCEPT ![r].st = "running"]
    /\ UNCHANGED used

\* The run stands at its step named s.
At(r, s) == run[r].st = "running" /\ run[r].todo # <<>> /\ Head(run[r].todo).s = s

\* The thing the step at hand is about: steps shared by several definitions name their target.
On(r) == Head(run[r].todo).g

\* The flavour of a shared step ("own" where a definition has it to itself).
By(r) == Head(run[r].todo).by

Fails(r, rec) ==
    /\ used.fails < MaxFails
    /\ used' = [used EXCEPT !.fails = @ + 1]
    /\ run' = [run EXCEPT ![r] = [rec EXCEPT !.st = "failed", !.mem = {}]]

\* The step's effect stands. Its row ends ok, or the step threw after it (or the process died):
\* then a retry runs the whole step again.
Settles(r, rec) ==
    \/ run' = [run EXCEPT ![r] = [rec EXCEPT !.todo = Tail(@)]] /\ UNCHANGED used
    \/ Fails(r, rec)

Done(r) == Settles(r, run[r])

\* ctx.registerCleanup: the cleanups a later abort schedules, in the order they would run.
DoneArmed(r, cleanups) == Settles(r, [run[r] EXCEPT !.armed = cleanups])

\* The step leaves something in the memory of this pass.
DoneRemembering(r, what) == Settles(r, [run[r] EXCEPT !.mem = @ \cup {what}])

\* What a step of this pass left in memory.
Remembers(r, what) == what \in run[r].mem

\* The step throws before it did anything: a refusal, a timeout, a cancel.
Throws(r) ==
    /\ run[r].st = "running" /\ run[r].todo # <<>>
    /\ Fails(r, run[r])

Retry(r) ==
    /\ run[r].st = "failed"
    /\ run' = [run EXCEPT ![r].st = "running"]
    /\ UNCHANGED used

\* abortWithCleanup: what the steps registered becomes the rest of the run.
Aborts(r) ==
    /\ run[r].st = "failed"
    /\ run' = [run EXCEPT ![r].st = "running", ![r].todo = run[r].armed, ![r].undo = TRUE]
    /\ UNCHANGED used

\* The last step is ok: the run ends and gives its locks back.
Finish(r) ==
    /\ run[r].st = "running"
    /\ run[r].todo = <<>>
    /\ run' = [run EXCEPT ![r] = Idle]
    /\ UNCHANGED used

\* A plan or a failed run is deleted: its locks go, what it did stays.
Delete(r) ==
    /\ run[r].st \in {"planned", "failed"}
    /\ run' = [run EXCEPT ![r] = Idle]
    /\ UNCHANGED used

\* What the operator and the executor do with a run between two steps.
Managed(r) == Start(r) \/ Throws(r) \/ Retry(r) \/ Finish(r) \/ Delete(r)

=============================================================================
