----------------------------- MODULE RunExecutor -----------------------------
(***************************************************************************)
(* The executor of src/server/executor: planning, the approve queue, the   *)
(* step loop, cancel, retry, skip, abort-with-cleanup, soft delete, the    *)
(* shutdown drain, a crash at any database statement and the recovery on   *)
(* boot.                                                                   *)
(*                                                                         *)
(* The Manager is one Node process: a handler runs alone up to its next    *)
(* await.  `todo' is what the running handler still has to do, one entry   *)
(* per database transaction or hook call; while it is not empty no other   *)
(* handler runs, and only a crash can cut it short.  What the handler does *)
(* in memory between two entries is done with the entry before, since      *)
(* nothing but a crash, which loses memory anyway, could tell.  `waiting'  *)
(* holds the handlers suspended in an await, `execs' the executions        *)
(* suspended in a step's run().                                            *)
(*                                                                         *)
(* A step row is named by a natural: a plan step by its ordinal, a cleanup *)
(* row by its cleanup's name.  Messages, audit lines and the event log are *)
(* left out (EventLog models the log).                                     *)
(***************************************************************************)
EXTENDS RunLocks, Sequences, FiniteSets

CONSTANTS
    PlanSteps,       \* the ordinals a plan may use, 1 the precondition of a mutating run
    PlanOf,          \* the plan steps of each run
    Cleanups,        \* the names of the cleanups
    ArmedBy,         \* the plan step whose code registers a cleanup
    Mutating,        \* the runs whose definition is mutating
    Streamed,        \* the runs planned by a streaming planner (onboard)
    RequiresSecrets, \* the runs whose plan requires typed secrets
    OnlyIfFree,      \* the runs approved with onlyIfFree (the night's backup)
    ApproveChecked,  \* the runs whose approve another request may overtake at its await of assertApprovable
    AbortChecked,    \* the runs whose definition awaits in assertAbortable
    NamedRetry,      \* whether a retry may name its step (POST /retry with stepName)
    LateDiscard,     \* whether a discard may arrive once its run has started
    MayChange,       \* the runs whose definition a new release of the Manager may change
    MaxExecs,        \* bound: executions of one run at a time
    MaxWaiting,      \* bound: requests suspended at a time
    MaxRestarts,     \* bound: process ends
    MaxFaults        \* bound: statements the database refuses

Rows == PlanSteps \cup Cleanups

ASSUME StepsAssumption ==
    /\ PlanSteps \subseteq Nat \ {0}
    /\ Cleanups \subseteq Nat \ {0}
    /\ PlanSteps \cap Cleanups = {}
    /\ IsFiniteSet(Cleanups)
    /\ PlanOf \in [Runs -> SUBSET PlanSteps]
    /\ ArmedBy \in [Cleanups -> PlanSteps]
ASSUME KindsAssumption ==
    /\ Mutating \subseteq Runs
    /\ \A r \in Mutating : 1 \in PlanOf[r]  \* assertGuardsArmed
    /\ Streamed \subseteq Runs
    /\ RequiresSecrets \subseteq Runs
    /\ OnlyIfFree \subseteq Runs
    /\ ApproveChecked \subseteq Runs
    /\ AbortChecked \subseteq Runs
    /\ MayChange \subseteq Runs
    /\ NamedRetry \in BOOLEAN /\ LateDiscard \in BOOLEAN
ASSUME BoundsAssumption ==
    MaxExecs \in Nat /\ MaxWaiting \in Nat /\ MaxRestarts \in Nat /\ MaxFaults \in Nat

VARIABLES
    \* the database
    status,      \* runs.status, "none" before the row exists
    deleted,     \* the runs whose row is marked deleted
    started,     \* the runs whose started_at is set
    approvedAt,  \* runs.approved_at, 0 for NULL
    step,        \* steps.status by run and row, "none" where there is no row
    ordinal,     \* steps.ordinal by run and row
    armed,       \* the cleanups each run registered (checkpoint.__cleanups)
    held,        \* run_locks not released
    \* outside the Manager
    residue,     \* the armed mutations that stand in the world, not yet undone
    told,        \* the last outcome the definition's onTerminal hook was told
    changed,     \* the runs whose definition the running release changed, and how
    \* the process
    up, stopping,
    active,      \* the AbortController registered for a run: its execution's number, 0 for none
    planner,     \* the streaming planner of a run: "idle", "live" or "aborted"
    secrets,     \* the runs with an entry in runSecrets
    execs, waiting, todo,
    \* the bounds' counters
    restarts, faults

db == <<status, deleted, started, approvedAt, step, ordinal, armed, held>>
world == <<residue, told, changed>>
memory == <<stopping, active, planner, secrets, execs, waiting>>
vars == <<db, world, up, memory, todo, restarts, faults>>

RunStatus == {"planning", "planned", "queued", "approved", "running",
              "succeeded", "failed", "cancelled"}
StepStatus == {"pending", "running", "ok", "failed", "skipped"}
Outcome == {"succeeded", "failed", "cancelled"}

Exec == [run : Runs, id : 1..MaxExecs, at : Rows \cup {0}, left : SUBSET Rows,
         torn : SUBSET Rows, cleanup : BOOLEAN, aborted : BOOLEAN]
Request == [op : {"approve", "retype", "abort"}, run : Runs, id : 1..MaxWaiting,
            rows : SUBSET Cleanups, names : SUBSET Cleanups, top : Nat]
Job == [op : {"hook", "release", "erase", "dispatch", "execute", "walk", "failAll", "resume"},
        runs : SUBSET Runs, outcome : Outcome \cup {"none"}, id : 0..MaxExecs]

DbTypes ==
    /\ status \in [Runs -> RunStatus \cup {"none"}]
    /\ deleted \subseteq Runs /\ started \subseteq Runs
    /\ approvedAt \in [Runs -> Nat]
    /\ step \in [Runs -> [Rows -> StepStatus \cup {"none"}]]
    /\ ordinal \in [Runs -> [Rows -> Nat]]
    /\ armed \in [Runs -> SUBSET Cleanups]
    /\ held \in [Runs -> SUBSET Claims]

WorldTypes ==
    /\ residue \in [Runs -> SUBSET Cleanups]
    /\ told \in [Runs -> Outcome \cup {"none"}]
    /\ changed \in [Runs -> {"same", "steps", "cleanups"}]

MemoryTypes ==
    /\ stopping \in BOOLEAN
    /\ active \in [Runs -> 0..MaxExecs]
    /\ planner \in [Runs -> {"idle", "live", "aborted"}]
    /\ secrets \subseteq Runs
    /\ execs \subseteq Exec
    /\ waiting \subseteq Request

ControlTypes ==
    /\ up \in BOOLEAN
    /\ todo \in Seq(Job)
    /\ restarts \in Nat
    /\ faults \in Nat

\* Every variable keeps its type.
TypeOK == DbTypes /\ WorldTypes /\ MemoryTypes /\ ControlTypes

-----------------------------------------------------------------------------
\* What the running handler still has to do.

Hook(r, outcome) == [op |-> "hook", runs |-> {r}, outcome |-> outcome, id |-> 0]
Release(r) == [op |-> "release", runs |-> {r}, outcome |-> "none", id |-> 0]
Erase(r) == [op |-> "erase", runs |-> {r}, outcome |-> "none", id |-> 0]
Dispatch == [op |-> "dispatch", runs |-> {}, outcome |-> "none", id |-> 0]
Execute(S) == [op |-> "execute", runs |-> S, outcome |-> "none", id |-> 0]
Walk(r, id) == [op |-> "walk", runs |-> {r}, outcome |-> "none", id |-> id]
FailAll(S) == [op |-> "failAll", runs |-> S, outcome |-> "none", id |-> 0]
Resume == [op |-> "resume", runs |-> {}, outcome |-> "none", id |-> 0]

\* A request may be handled: the process serves, and no other handler is between two awaits.
Serving == up /\ todo = <<>>

\* The least number not in use.
NextFree(id, used) == id \notin used /\ 1..(id - 1) \subseteq used

\* The next thing the running handler does.
Doing(op) == up /\ todo # <<>> /\ Head(todo).op = op

-----------------------------------------------------------------------------
\* The rows of a run.

HasRow(r, x) == step[r][x] # "none"

\* x is the first of the rows S in ordinal order.
First(r, S, x) == x \in S /\ \A y \in S : ordinal[r][x] <= ordinal[r][y]

\* x is the last of the rows S in ordinal order.
Last(r, S, x) == x \in S /\ \A y \in S : ordinal[r][y] <= ordinal[r][x]

RowsOf(r) == {x \in Rows : HasRow(r, x)}

Unfinished(r) == {x \in Rows : step[r][x] \notin {"none", "ok", "skipped"}}

\* The order registered cleanups run in: a later step's before an earlier one's, those of one step
\* as it registered them.
RunsBefore(c, d) == ArmedBy[c] > ArmedBy[d] \/ (ArmedBy[c] = ArmedBy[d] /\ c < d)

abandonUnfinished(rows) ==
    [x \in Rows |-> IF rows[x] \in {"none", "ok"} THEN rows[x] ELSE "skipped"]

\* An insert at each name the snapshot `seen' has no row for, the others back to pending.
scheduleCleanupSteps(rows, names) ==
    [x \in Rows |-> IF x \in names THEN "pending" ELSE abandonUnfinished(rows)[x]]

\* Mutant: the cleanups in the order of their steps.
MutantForwardOrdinals(ords, seen, names, top) ==
    [x \in Rows |-> IF x \in names \ seen
                    THEN top + 1 + Cardinality({d \in names : RunsBefore(x, d)})
                    ELSE ords[x]]

CleanupOrdinals(ords, seen, names, top) ==
    [x \in Rows |-> IF x \in names \ seen
                    THEN top + 1 + Cardinality({d \in names : RunsBefore(d, x)})
                    ELSE ords[x]]

needsSecrets(r) == r \in RequiresSecrets /\ r \notin secrets

\* The queued runs the walk lets reserve their claims: not deleted, their secrets at hand.
Reserving == {r \in Runs : status[r] = "queued" /\ r \notin deleted /\ ~needsSecrets(r)}

isDeletableRun(s) == s \in {"planned", "failed", "cancelled", "succeeded"}

\* Failed, or cancelled after it started.
Recoverable(r) ==
    /\ r \notin deleted
    /\ status[r] = "failed" \/ (status[r] = "cancelled" /\ r \in started)

\* Mutant: no step is a precondition.
MutantNoPrecondition(r, x) == FALSE

isMutatingPrecondition(r, x) == r \in Mutating /\ x = 1

-----------------------------------------------------------------------------
Init ==
    /\ status = [r \in Runs |-> "none"]
    /\ deleted = {} /\ started = {}
    /\ approvedAt = [r \in Runs |-> 0]
    /\ step = [r \in Runs |-> [x \in Rows |-> "none"]]
    /\ ordinal = [r \in Runs |-> [x \in Rows |-> 0]]
    /\ armed = [r \in Runs |-> {}]
    /\ held = [r \in Runs |-> {}]
    /\ residue = [r \in Runs |-> {}]
    /\ told = [r \in Runs |-> "none"]
    /\ changed = [r \in Runs |-> "same"]
    /\ up = TRUE /\ stopping = FALSE
    /\ active = [r \in Runs |-> 0]
    /\ planner = [r \in Runs |-> "idle"]
    /\ secrets = {} /\ execs = {} /\ waiting = {} /\ todo = <<>>
    /\ restarts = 0 /\ faults = 0

-----------------------------------------------------------------------------
\* Planning.

\* The pending rows of r's plan.
PlanRows(r) ==
    /\ step' = [step EXCEPT ![r] = [x \in Rows |-> IF x \in PlanOf[r] THEN "pending" ELSE @[x]]]
    /\ ordinal' = [ordinal EXCEPT ![r] = [x \in Rows |-> IF x \in PlanOf[r] THEN x ELSE @[x]]]

\* Executor.plan: the run and its steps in one transaction.
Plan(r) ==
    /\ Serving
    /\ r \notin Streamed
    /\ status[r] = "none"
    /\ status' = [status EXCEPT ![r] = "planned"]
    /\ PlanRows(r)
    /\ UNCHANGED <<deleted, started, approvedAt, armed, held, world, up, memory, todo, restarts, faults>>

\* beginStreamingPlan: the row stands in `planning', the planner runs on with its controller.
BeginStreamingPlan(r) ==
    /\ Serving
    /\ r \in Streamed
    /\ status[r] = "none"
    /\ status' = [status EXCEPT ![r] = "planning"]
    /\ planner' = [planner EXCEPT ![r] = "live"]
    /\ UNCHANGED <<deleted, started, approvedAt, step, ordinal, armed, held, world, up,
                   stopping, active, secrets, execs, waiting, todo, restarts, faults>>

\* runStreamingPlan's end: the plan is frozen, whatever the row reads by now.
PlannerPlans(r) ==
    /\ Serving
    /\ planner[r] # "idle"
    /\ status' = [status EXCEPT ![r] = "planned"]
    /\ PlanRows(r)
    /\ planner' = [planner EXCEPT ![r] = "idle"]
    /\ UNCHANGED <<deleted, started, approvedAt, armed, held, world, up,
                   stopping, active, secrets, execs, waiting, todo, restarts, faults>>

\* The validation rejects (failed) or throws (cancelled when its controller or an AbortError says
\* so); the recording is itself allowed to fail.
PlannerEndsBadly(r) ==
    /\ Serving
    /\ planner[r] # "idle"
    /\ \/ /\ \E outcome \in {"failed", "cancelled"} : status' = [status EXCEPT ![r] = outcome]
          /\ UNCHANGED faults
       \/ /\ faults < MaxFaults
          /\ faults' = faults + 1
          /\ UNCHANGED status
    /\ planner' = [planner EXCEPT ![r] = "idle"]
    /\ UNCHANGED <<deleted, started, approvedAt, step, ordinal, armed, held, world, up,
                   stopping, active, secrets, execs, waiting, todo, restarts>>

-----------------------------------------------------------------------------
\* Approving.

Suspend(op, r, rows, names, top) ==
    \E id \in 1..MaxWaiting :
        /\ NextFree(id, {w.id : w \in {v \in waiting : v.op = op /\ v.run = r}})
        /\ waiting' = waiting \cup
             {[op |-> op, run |-> r, id |-> id, rows |-> rows, names |-> names, top |-> top]}

\* The end of approve, from the onlyIfFree question on: the UPDATE names status planned and nothing
\* else, and the run joins the line behind every run approved before it (or in the same millisecond).
JoinQueue(r) ==
    /\ status[r] = "planned"
    /\ r \in OnlyIfFree => conflictsAtEndOfQueue(held, Reserving, ClaimsOf[r]) = {}
    /\ status' = [status EXCEPT ![r] = "queued"]
    /\ \E q \in Runs, k \in {0, 1} :
           /\ \A p \in Runs : approvedAt[p] <= approvedAt[q] + k
           /\ approvedAt[q] + k > 0
           /\ approvedAt' = [approvedAt EXCEPT ![r] = approvedAt[q] + k]
    /\ secrets' = secrets \cup {r}
    /\ todo' = <<Dispatch>>

\* Executor.approve of a run whose definition has nothing to await.
Approve(r) ==
    /\ Serving
    /\ r \notin deleted \cup ApproveChecked
    /\ JoinQueue(r)
    /\ UNCHANGED <<deleted, started, step, ordinal, armed, held, world, up,
                   stopping, active, planner, execs, waiting, restarts, faults>>

\* The same up to the await of assertApprovable.
ApproveAsks(r) ==
    /\ Serving
    /\ r \in ApproveChecked \ deleted
    /\ status[r] = "planned"
    /\ Suspend("approve", r, {}, {}, 0)
    /\ UNCHANGED <<db, world, up, stopping, active, planner, secrets, execs, todo, restarts, faults>>

\* retypeQueuedSecrets up to its await.
RetypeAsks(r) ==
    /\ Serving
    /\ r \in ApproveChecked \ deleted
    /\ status[r] = "queued" /\ needsSecrets(r)
    /\ Suspend("retype", r, {}, {}, 0)
    /\ UNCHANGED <<db, world, up, stopping, active, planner, secrets, execs, todo, restarts, faults>>

\* retypeQueuedSecrets of a run whose definition has nothing to await.
Retype(r) ==
    /\ Serving
    /\ r \notin deleted \cup ApproveChecked
    /\ status[r] = "queued" /\ needsSecrets(r)
    /\ secrets' = secrets \cup {r}
    /\ todo' = <<Dispatch>>
    /\ UNCHANGED <<db, world, up, stopping, active, planner, execs, waiting, restarts, faults>>

ApproveAnswered(w) ==
    /\ Serving
    /\ w.op = "approve"
    /\ waiting' = waiting \ {w}
    /\ JoinQueue(w.run)
    /\ UNCHANGED <<deleted, started, step, ordinal, armed, held, world, up,
                   stopping, active, planner, execs, restarts, faults>>

\* Mutant: the secrets go in and nobody dispatches.
MutantRetypeSleeps(w) ==
    /\ Serving
    /\ w.op = "retype"
    /\ waiting' = waiting \ {w}
    /\ secrets' = secrets \cup {w.run}
    /\ UNCHANGED <<db, world, up, stopping, active, planner, execs, todo, restarts, faults>>

\* Nothing is asked again after the await: the secrets go in whatever the run reads by now.
RetypeAnswered(w) ==
    /\ Serving
    /\ w.op = "retype"
    /\ waiting' = waiting \ {w}
    /\ secrets' = secrets \cup {w.run}
    /\ todo' = <<Dispatch>>
    /\ UNCHANGED <<db, world, up, stopping, active, planner, execs, restarts, faults>>

\* The definition refuses, the UPDATE moves no row, or a lock an abort needs is busy.
RequestRefused(w) ==
    /\ Serving
    /\ waiting' = waiting \ {w}
    /\ UNCHANGED <<db, world, up, stopping, active, planner, secrets, execs, todo, restarts, faults>>

-----------------------------------------------------------------------------
\* Discard, cancel, delete.

\* The transition table lets a running run go to cancelled too.
Discardable == {"planning", "planned", "queued"} \cup (IF LateDiscard THEN {"running"} ELSE {})

\* Executor.discard: the row, the hook, the secrets and the line; an execution under way goes on.
Discard(r) ==
    /\ Serving
    /\ r \notin deleted
    /\ status[r] \in Discardable
    /\ status' = [status EXCEPT ![r] = "cancelled"]
    /\ secrets' = secrets \ {r}
    /\ todo' = <<Hook(r, "cancelled")>> \o (IF status[r] = "queued" THEN <<Dispatch>> ELSE <<>>)
    /\ UNCHANGED <<deleted, started, approvedAt, step, ordinal, armed, held, world, up,
                   stopping, active, planner, execs, waiting, restarts, faults>>

\* Executor.cancel of a run in flight: its controller aborts, the loop or the planner reads it later.
Cancel(r) ==
    /\ Serving
    /\ status[r] # "queued"
    /\ \/ /\ planner[r] = "live"
          /\ planner' = [planner EXCEPT ![r] = "aborted"]
          /\ UNCHANGED execs
       \/ /\ active[r] # 0
          /\ \E e \in execs :
                /\ e.run = r /\ e.id = active[r]
                /\ execs' = (execs \ {e}) \cup {[e EXCEPT !.aborted = TRUE]}
          /\ UNCHANGED planner
    /\ UNCHANGED <<db, world, up, stopping, active, secrets, waiting, todo, restarts, faults>>

\* Executor.cancelPaused: a run the drain paused has no controller, and ends here.
CancelPaused(r) ==
    /\ Serving
    /\ stopping
    /\ active[r] = 0 /\ planner[r] = "idle"
    /\ status[r] = "running"
    /\ status' = [status EXCEPT ![r] = "cancelled"]
    /\ todo' = <<Hook(r, "cancelled")>>
    /\ UNCHANGED <<deleted, started, approvedAt, step, ordinal, armed, held, world, up, memory,
                   restarts, faults>>

\* Executor.deleteRun: a planned run's hook is told first; the rows stay, marked.
DeleteRun(r) ==
    /\ Serving
    /\ r \notin deleted
    /\ isDeletableRun(status[r])
    /\ todo' = (IF status[r] = "planned" THEN <<Hook(r, "cancelled")>> ELSE <<>>)
                   \o <<Erase(r), Dispatch>>
    /\ UNCHANGED <<db, world, up, memory, restarts, faults>>

-----------------------------------------------------------------------------
\* What a handler does between two awaits, one database transaction at a time.

\* The in-memory bookkeeping a run's end lets go of (finishRun, failRun, the drain's pause).
Forget(r) ==
    /\ active' = [active EXCEPT ![r] = 0]
    /\ secrets' = secrets \ {r}

\* Mutant: the hook is told what the row reads.
MutantHookReadsRow ==
    /\ Doing("hook")
    /\ \E r \in Head(todo).runs : told' = [told EXCEPT ![r] = status[r]]
    /\ todo' = Tail(todo)
    /\ UNCHANGED <<db, residue, changed, up, memory, restarts, faults>>

\* callOnTerminal: the definition's hook, which never fails the run.
TellHook ==
    /\ Doing("hook")
    /\ \E r \in Head(todo).runs : told' = [told EXCEPT ![r] = Head(todo).outcome]
    /\ todo' = Tail(todo)
    /\ UNCHANGED <<db, residue, changed, up, memory, restarts, faults>>

ReleaseLocks ==
    /\ Doing("release")
    /\ \E r \in Head(todo).runs : held' = releaseLocks(held, r)
    /\ todo' = Tail(todo)
    /\ UNCHANGED <<status, deleted, started, approvedAt, step, ordinal, armed, world, up, memory,
                   restarts, faults>>

\* deleteRun's transaction: the locks and the mark together.
EraseRun ==
    /\ Doing("erase")
    /\ \E r \in Head(todo).runs :
           /\ held' = releaseLocks(held, r)
           /\ deleted' = deleted \cup {r}
           /\ secrets' = secrets \ {r}
    /\ todo' = Tail(todo)
    /\ UNCHANGED <<status, started, approvedAt, step, ordinal, armed, world, up,
                   stopping, active, planner, execs, waiting, restarts, faults>>

\* QueueDispatcher.dispatch: one transaction moves every startable run to approved with its locks,
\* then each is executed.  Nothing starts while the process drains.
DispatchQueue ==
    /\ Doing("dispatch")
    /\ ~stopping
    /\ LET S == Startable(held, approvedAt, Reserving) IN
           /\ status' = [r \in Runs |-> IF r \in S THEN "approved" ELSE status[r]]
           /\ held' = [r \in Runs |-> IF r \in S THEN held[r] \cup ClaimsOf[r] ELSE held[r]]
           /\ todo' = <<Execute(S)>> \o Tail(todo)
    /\ UNCHANGED <<deleted, started, approvedAt, step, ordinal, armed, world, up, memory,
                   restarts, faults>>

\* The drain, or a database that refuses the transaction: everything stays queued.
DispatchNothing ==
    /\ Doing("dispatch")
    /\ \/ stopping /\ UNCHANGED faults
       \/ faults < MaxFaults /\ faults' = faults + 1
    /\ todo' = Tail(todo)
    /\ UNCHANGED <<db, world, up, memory, restarts>>

\* failRun: the failure is recorded, or the database refuses the recording; both let go of memory.
RecordsFailure(r, rest) ==
    /\ status' = [status EXCEPT ![r] = "failed"]
    /\ todo' = <<Hook(r, "failed"), Dispatch>> \o rest

CannotRecord(rest) ==
    /\ todo' = <<Dispatch>> \o rest
    /\ UNCHANGED status

FailRun(r, rest) ==
    /\ Forget(r)
    /\ \/ RecordsFailure(r, rest) /\ UNCHANGED faults
       \/ CannotRecord(rest) /\ faults < MaxFaults /\ faults' = faults + 1

\* execute's catch-all, on a statement the database refused: failRun, whose recording it may refuse too.
FaultFails(r, rest) ==
    /\ Forget(r)
    /\ faults < MaxFaults /\ faults' = faults + 1
    /\ RecordsFailure(r, rest) \/ CannotRecord(rest)

\* What is left of an execute entry once r's execution is under way.
RestOf(r) ==
    (IF Head(todo).runs = {r} THEN <<>> ELSE <<[Head(todo) EXCEPT !.runs = @ \ {r}]>>) \o Tail(todo)

ExecuteNone ==
    /\ Doing("execute")
    /\ Head(todo).runs = {}
    /\ todo' = Tail(todo)
    /\ UNCHANGED <<db, world, up, memory, restarts, faults>>

\* execute of a run that is deleted, or whose step list diverged from its approved plan.
ExecuteRefused ==
    /\ Doing("execute")
    /\ \E r \in Head(todo).runs :
           /\ r \in deleted \/ changed[r] = "steps"
           /\ FailRun(r, RestOf(r))
    /\ UNCHANGED <<deleted, started, approvedAt, step, ordinal, armed, held, world, up,
                   stopping, planner, execs, waiting, restarts>>

\* The database refuses a statement before the loop.
ExecuteFaults ==
    /\ Doing("execute")
    /\ \E r \in Head(todo).runs : FaultFails(r, RestOf(r))
    /\ UNCHANGED <<deleted, started, approvedAt, step, ordinal, armed, held, world, up,
                   stopping, planner, execs, waiting, restarts>>

\* execute up to the loop: the controller registered, the run running, the rows read once.
ExecuteRun ==
    /\ Doing("execute")
    /\ \E r \in Head(todo).runs, id \in 1..MaxExecs :
           /\ r \notin deleted /\ changed[r] # "steps"
           /\ NextFree(id, {e.id : e \in {f \in execs : f.run = r}})
           /\ execs' = execs \cup {[run |-> r, id |-> id, at |-> 0, left |-> Unfinished(r),
                                    torn |-> {x \in Rows : step[r][x] = "running"},
                                    cleanup |-> \E c \in Cleanups : HasRow(r, c), aborted |-> FALSE]}
           /\ active' = [active EXCEPT ![r] = id]
           /\ status' = [status EXCEPT ![r] = "running"]
           /\ started' = started \cup {r}
           /\ todo' = <<Walk(r, id)>> \o RestOf(r)
    /\ UNCHANGED <<deleted, approvedAt, step, ordinal, armed, held, world, up,
                   stopping, planner, secrets, waiting, restarts, faults>>

\* The execution the loop entry at the head of `todo' belongs to.
Walking(e) == Doing("walk") /\ e.run \in Head(todo).runs /\ e.id = Head(todo).id

\* An execution ends with the run's outcome committed: the hook, finishRun's release where the run
\* finished, its bookkeeping, and the next start of the queue.
Ends(e, outcome, release, rest) ==
    /\ status' = [status EXCEPT ![e.run] = outcome]
    /\ execs' = execs \ {e}
    /\ Forget(e.run)
    /\ todo' = <<Hook(e.run, outcome)>> \o release \o <<Dispatch>> \o rest

\* No row is left: succeeded, or cancelled where a cleanup row says this was a cleanup.
WalkCompletes(e) ==
    /\ Walking(e)
    /\ e.left = {}
    /\ Ends(e, IF e.cleanup THEN "cancelled" ELSE "succeeded", <<Release(e.run)>>, Tail(todo))
    /\ UNCHANGED <<deleted, started, approvedAt, step, ordinal, armed, held, world, up,
                   stopping, planner, waiting, restarts, faults>>

\* The gap before a step: a cancel has its say and the run keeps its locks.
WalkCancelled(e) ==
    /\ Walking(e)
    /\ e.left # {}
    /\ e.aborted
    /\ Ends(e, "cancelled", <<>>, Tail(todo))
    /\ UNCHANGED <<deleted, started, approvedAt, step, ordinal, armed, held, world, up,
                   stopping, planner, waiting, restarts, faults>>

\* ... then the drain: the run stays running with its locks, for the next Manager.
WalkPauses(e) ==
    /\ Walking(e)
    /\ e.left # {}
    /\ ~e.aborted
    /\ stopping
    /\ execs' = execs \ {e}
    /\ Forget(e.run)
    /\ todo' = Tail(todo)
    /\ UNCHANGED <<db, world, up, stopping, planner, waiting, restarts, faults>>

\* The next row has no implementation in this release: a cleanup its definition no longer supplies.
WalkFindsNoStep(e) ==
    /\ Walking(e)
    /\ ~e.aborted /\ ~stopping
    /\ \E x \in Cleanups :
           /\ First(e.run, e.left, x)
           /\ changed[e.run] = "cleanups"
           /\ step' = [step EXCEPT ![e.run][x] = "failed"]
    /\ Ends(e, "failed", <<>>, Tail(todo))
    /\ UNCHANGED <<deleted, started, approvedAt, ordinal, armed, held, world, up,
                   stopping, planner, waiting, restarts, faults>>

\* The next row starts, and the execution suspends in its run().
WalkStartsStep(e) ==
    /\ Walking(e)
    /\ ~e.aborted /\ ~stopping
    /\ \E x \in Rows :
           /\ First(e.run, e.left, x)
           /\ x \notin e.torn
           /\ ~(x \in Cleanups /\ changed[e.run] = "cleanups")
           /\ step' = [step EXCEPT ![e.run][x] = "running"]
           /\ execs' = (execs \ {e}) \cup {[e EXCEPT !.at = x, !.left = @ \ {x}]}
    /\ todo' = Tail(todo)
    /\ UNCHANGED <<status, deleted, started, approvedAt, ordinal, armed, held, world, up,
                   stopping, active, planner, secrets, waiting, restarts, faults>>

\* The next row was read running, which a failure that could not be recorded leaves behind: the step
\* table refuses running -> running, and execute's catch-all fails the run.
WalkFindsTornStep(e) ==
    /\ Walking(e)
    /\ ~e.aborted /\ ~stopping
    /\ \E x \in e.torn :
           /\ First(e.run, e.left, x)
           /\ ~(x \in Cleanups /\ changed[e.run] = "cleanups")
    /\ execs' = execs \ {e}
    /\ FailRun(e.run, Tail(todo))
    /\ UNCHANGED <<deleted, started, approvedAt, step, ordinal, armed, held, world, up,
                   stopping, planner, waiting, restarts>>

\* The database refuses a statement of the loop, or of the run's end: a committed outcome becomes
\* failed.
WalkFaults(e) ==
    /\ Walking(e)
    /\ execs' = execs \ {e}
    /\ FaultFails(e.run, Tail(todo))
    /\ UNCHANGED <<deleted, started, approvedAt, step, ordinal, armed, held, world, up,
                   stopping, planner, waiting, restarts>>

-----------------------------------------------------------------------------
\* A step's run(), suspended somewhere in its own awaits.

Running(e) == Serving /\ e.at # 0

\* A plan step registers a cleanup and then makes the mutation the cleanup undoes.
StepRegistersCleanup(e, c) ==
    /\ Running(e)
    /\ e.at = ArmedBy[c]
    /\ c \notin residue[e.run]
    /\ \A d \in Cleanups : ArmedBy[d] = e.at /\ d < c => d \in residue[e.run]
    /\ armed' = [armed EXCEPT ![e.run] = @ \cup {c}]
    /\ residue' = [residue EXCEPT ![e.run] = @ \cup {c}]
    /\ UNCHANGED <<status, deleted, started, approvedAt, step, ordinal, held, told, changed, up,
                   memory, todo, restarts, faults>>

\* run() resolves: ok, and back into the loop; a cleanup has undone its mutation.
StepOk(e) ==
    /\ Running(e)
    /\ step' = [step EXCEPT ![e.run][e.at] = "ok"]
    /\ residue' = [residue EXCEPT ![e.run] = @ \ {e.at}]
    /\ execs' = (execs \ {e}) \cup {[e EXCEPT !.at = 0]}
    /\ todo' = <<Walk(e.run, e.id)>>
    /\ UNCHANGED <<status, deleted, started, approvedAt, ordinal, armed, held, told, changed, up,
                   stopping, active, planner, secrets, waiting, restarts, faults>>

\* run() rejects: cancelled after a cancel or on an AbortError of the step's own, else failed.
StepThrows(e, isAbortError) ==
    /\ Running(e)
    /\ step' = [step EXCEPT ![e.run][e.at] = "failed"]
    /\ Ends(e, IF e.aborted \/ isAbortError THEN "cancelled" ELSE "failed", <<>>, <<>>)
    /\ UNCHANGED <<deleted, started, approvedAt, ordinal, armed, held, world, up,
                   stopping, planner, waiting, restarts, faults>>

\* The database refuses what records a step's end: the row stays running, or reads failed already.
StepFaults(e) ==
    /\ Running(e)
    /\ \E s \in {step[e.run][e.at], "failed"} : step' = [step EXCEPT ![e.run][e.at] = s]
    /\ execs' = execs \ {e}
    /\ FaultFails(e.run, <<>>)
    /\ UNCHANGED <<deleted, started, approvedAt, ordinal, armed, held, world, up,
                   stopping, planner, waiting, restarts>>

-----------------------------------------------------------------------------
\* Recovery by an operator: retry, skip, abort with cleanup.

\* stepToResume: a failed run's first failed row, a cancelled run's first failed or pending one.
StepToResume(r, x) ==
    LET wanted == IF status[r] = "cancelled" THEN {"failed", "pending"} ELSE {"failed"} IN
    First(r, {y \in Rows : step[r][y] \in wanted}, x)

\* retryFromStep: every row from x on that is not ok is pending again.
Retry(r, x) ==
    /\ Serving
    /\ Recoverable(r)
    /\ StepToResume(r, x) \/ (NamedRetry /\ step[r][x] \in {"failed", "skipped", "pending"})
    /\ CanAcquire(held, r)
    /\ held' = acquireLocks(held, r)
    /\ step' = [step EXCEPT ![r] = [y \in Rows |->
                   IF @[y] \notin {"none", "ok"} /\ ordinal[r][y] >= ordinal[r][x]
                   THEN "pending" ELSE @[y]]]
    /\ status' = [status EXCEPT ![r] = "running"]
    /\ secrets' = secrets \cup {r}
    /\ todo' = <<Execute({r})>>
    /\ UNCHANGED <<deleted, started, approvedAt, ordinal, armed, world, up,
                   stopping, active, planner, execs, waiting, restarts, faults>>

\* skipStep: the failed row, unless it is a mutating run's precondition; the operator answers for
\* what a skipped cleanup leaves behind.
Skip(r, x) ==
    /\ Serving
    /\ Recoverable(r)
    /\ step[r][x] = "failed"
    /\ ~isMutatingPrecondition(r, x)
    /\ CanAcquire(held, r)
    /\ held' = acquireLocks(held, r)
    /\ step' = [step EXCEPT ![r][x] = "skipped"]
    /\ residue' = [residue EXCEPT ![r] = @ \ {x}]
    /\ status' = [status EXCEPT ![r] = "running"]
    /\ todo' = <<Execute({r})>>
    /\ UNCHANGED <<deleted, started, approvedAt, ordinal, armed, told, changed, up, memory,
                   restarts, faults>>

\* Mutant: a run in flight may be aborted too.
MutantAbortInFlight(r) == r \notin deleted /\ status[r] \in {"failed", "cancelled", "running"}

Abortable(r) == r \notin deleted /\ status[r] \in {"failed", "cancelled"}

\* Mutant: every abort settles at once.
MutantAbortLeavesResidue(r) ==
    /\ Serving
    /\ Abortable(r)
    /\ step' = [step EXCEPT ![r] = abandonUnfinished(@)]
    /\ status' = [status EXCEPT ![r] = "cancelled"]
    /\ todo' = <<Release(r), Dispatch>>
    /\ UNCHANGED <<deleted, started, approvedAt, ordinal, armed, held, world, up, memory,
                   restarts, faults>>

\* abortWithCleanup where nothing was registered: settled cancelled at once, then released.
AbortSettles(r) ==
    /\ Serving
    /\ Abortable(r)
    /\ armed[r] = {}
    /\ step' = [step EXCEPT ![r] = abandonUnfinished(@)]
    /\ status' = [status EXCEPT ![r] = "cancelled"]
    /\ todo' = <<Release(r), Dispatch>>
    /\ UNCHANGED <<deleted, started, approvedAt, ordinal, armed, held, world, up, memory,
                   restarts, faults>>

\* abortWithCleanup from acquireLocks on, with the rows and names read before the await: the names
\* become pending rows and the run runs again.
AbortSchedules(r, seen, names, top) ==
    /\ CanAcquire(held, r)
    /\ held' = acquireLocks(held, r)
    /\ names \cap {c \in Cleanups : HasRow(r, c)} \subseteq seen
    /\ step' = [step EXCEPT ![r] = scheduleCleanupSteps(@, names)]
    /\ ordinal' = [ordinal EXCEPT ![r] = CleanupOrdinals(@, seen, names, top)]
    /\ status' = [status EXCEPT ![r] = "running"]
    /\ \E typed \in BOOLEAN : secrets' = IF typed THEN secrets \cup {r} ELSE secrets
    /\ todo' = <<Execute({r})>>

\* The abort of a run whose definition has nothing to await.
Abort(r) ==
    /\ Serving
    /\ Abortable(r)
    /\ armed[r] # {}
    /\ r \notin AbortChecked
    /\ \E x \in Rows :
           /\ Last(r, RowsOf(r), x)
           /\ AbortSchedules(r, {c \in Cleanups : HasRow(r, c)}, armed[r], ordinal[r][x])
    /\ UNCHANGED <<deleted, started, approvedAt, armed, world, up,
                   stopping, active, planner, execs, waiting, restarts, faults>>

\* The abort up to the await of assertAbortable.
AbortAsks(r) ==
    /\ Serving
    /\ Abortable(r)
    /\ armed[r] # {}
    /\ r \in AbortChecked
    /\ \E x \in Rows :
           /\ Last(r, RowsOf(r), x)
           /\ Suspend("abort", r, {c \in Cleanups : HasRow(r, c)}, armed[r], ordinal[r][x])
    /\ UNCHANGED <<db, world, up, stopping, active, planner, secrets, execs, todo, restarts, faults>>

\* Neither the status nor the mark is read again after the await.
AbortAnswered(w) ==
    /\ Serving
    /\ w.op = "abort"
    /\ waiting' = waiting \ {w}
    /\ AbortSchedules(w.run, w.rows, w.names, w.top)
    /\ UNCHANGED <<deleted, started, approvedAt, armed, world, up,
                   stopping, active, planner, execs, restarts, faults>>

\* A row another abort wrote meanwhile: the insert violates steps_run_name_uq after the locks were
\* taken in a transaction of their own.
AbortCollides(w) ==
    /\ Serving
    /\ w.op = "abort"
    /\ waiting' = waiting \ {w}
    /\ CanAcquire(held, w.run)
    /\ ~(w.names \cap {c \in Cleanups : HasRow(w.run, c)} \subseteq w.rows)
    /\ held' = acquireLocks(held, w.run)
    /\ UNCHANGED <<status, deleted, started, approvedAt, step, ordinal, armed, world, up,
                   stopping, active, planner, secrets, execs, todo, restarts, faults>>

\* A retry, skip or abort takes the locks in a transaction of their own, and the database refuses the
\* transaction after it.
RecoveryFaults(r) ==
    /\ Serving
    /\ Recoverable(r)
    /\ RowsOf(r) # {}
    /\ CanAcquire(held, r)
    /\ held' = acquireLocks(held, r)
    /\ faults < MaxFaults /\ faults' = faults + 1
    /\ UNCHANGED <<status, deleted, started, approvedAt, step, ordinal, armed, world, up, memory,
                   todo, restarts>>

-----------------------------------------------------------------------------
\* The process: drain, end, boot.

\* Executor.shutdown on SIGTERM.
Shutdown ==
    /\ Serving
    /\ ~stopping
    /\ restarts < MaxRestarts
    /\ stopping' = TRUE
    /\ UNCHANGED <<db, world, up, active, planner, secrets, execs, waiting, todo, restarts, faults>>

\* The process is gone and its memory with it.
Dies ==
    /\ up' = FALSE /\ stopping' = FALSE
    /\ active' = [r \in Runs |-> 0]
    /\ planner' = [r \in Runs |-> "idle"]
    /\ secrets' = {} /\ execs' = {} /\ waiting' = {} /\ todo' = <<>>
    /\ restarts' = restarts + 1

\* The drain ended, by the last execution or by its deadline.
Exit ==
    /\ Serving
    /\ stopping
    /\ Dies
    /\ UNCHANGED <<db, world, faults>>

\* The process is killed, between any two statements of a handler too.
Crash ==
    /\ up
    /\ ~stopping
    /\ restarts < MaxRestarts
    /\ Dies
    /\ UNCHANGED <<db, world, faults>>

\* Killed between acquireLocks and the transaction after it (retry, skip, abort).
CrashAfterAcquire(r) ==
    /\ Serving
    /\ ~stopping
    /\ restarts < MaxRestarts
    /\ Recoverable(r)
    /\ RowsOf(r) # {}
    /\ CanAcquire(held, r)
    /\ held' = acquireLocks(held, r)
    /\ Dies
    /\ UNCHANGED <<status, deleted, started, approvedAt, step, ordinal, armed, world, faults>>

\* Mutant: the boot resumes what was in flight and leaves the line alone.
MutantBootSleeps ==
    /\ ~up
    /\ up' = TRUE
    /\ held' = reconcileLocks(held, status)
    /\ todo' = <<FailAll({r \in Runs : status[r] = "planning"}), Resume>>
    /\ UNCHANGED <<status, deleted, started, approvedAt, step, ordinal, armed, world,
                   memory, restarts, faults>>

\* Boot: the self-check reconciles the locks, then resumeOnBoot runs to its first await.  The release
\* that boots may have changed definitions.
Boot ==
    /\ ~up
    /\ up' = TRUE
    /\ held' = reconcileLocks(held, status)
    /\ \E S \in SUBSET {r \in MayChange : status[r] # "none"}, how \in {"steps", "cleanups"} :
           changed' = [r \in Runs |-> IF r \in S THEN how ELSE changed[r]]
    /\ \/ /\ todo' = <<FailAll({r \in Runs : status[r] = "planning"}), Resume, Dispatch>>
          /\ UNCHANGED faults
       \/ /\ faults < MaxFaults
          /\ faults' = faults + 1
          /\ todo' = <<>>
    /\ UNCHANGED <<status, deleted, started, approvedAt, step, ordinal, armed, residue, told,
                   memory, restarts>>

\* resumeOnBoot fails the validations the old process took with it, one failRun each.
FailOrphanedPlanning ==
    /\ Doing("failAll")
    /\ \/ /\ Head(todo).runs = {}
          /\ todo' = Tail(todo)
          /\ UNCHANGED <<status, active, secrets, faults>>
       \/ \E r \in Head(todo).runs : FailRun(r, RestOf(r))
    /\ UNCHANGED <<deleted, started, approvedAt, step, ordinal, armed, held, world, up,
                   stopping, planner, execs, waiting, restarts>>

\* Mutant: only the runs that read running are resumed.
MutantResumeRunning ==
    /\ Doing("resume")
    /\ LET pending == {r \in Runs : status[r] = "running"} IN
           /\ step' = [r \in Runs |-> [x \in Rows |->
                          IF r \in pending /\ step[r][x] = "running" THEN "pending" ELSE step[r][x]]]
           /\ todo' = <<Execute(pending)>> \o Tail(todo)
    /\ UNCHANGED <<status, deleted, started, approvedAt, ordinal, armed, held, world, up, memory,
                   restarts, faults>>

\* Then every run that reads running or approved: its running rows pending, and executed.
ResumePending ==
    /\ Doing("resume")
    /\ LET pending == {r \in Runs : status[r] \in {"running", "approved"}} IN
           /\ step' = [r \in Runs |-> [x \in Rows |->
                          IF r \in pending /\ step[r][x] = "running" THEN "pending" ELSE step[r][x]]]
           /\ todo' = <<Execute(pending)>> \o Tail(todo)
    /\ UNCHANGED <<status, deleted, started, approvedAt, ordinal, armed, held, world, up, memory,
                   restarts, faults>>

\* The database refuses one of them: nothing is resumed, and no queued run started, on this boot.
ResumeGivesUp ==
    /\ Doing("resume")
    /\ faults < MaxFaults /\ faults' = faults + 1
    /\ \E S \in SUBSET {r \in Runs : status[r] \in {"running", "approved"}} :
           step' = [r \in Runs |-> [x \in Rows |->
                       IF r \in S /\ step[r][x] = "running" THEN "pending" ELSE step[r][x]]]
    /\ todo' = <<>>
    /\ UNCHANGED <<status, deleted, started, approvedAt, ordinal, armed, held, world, up, memory,
                   restarts>>

-----------------------------------------------------------------------------
Handler ==
    \/ TellHook \/ ReleaseLocks \/ EraseRun \/ DispatchQueue \/ DispatchNothing
    \/ ExecuteNone \/ ExecuteRefused \/ ExecuteFaults \/ ExecuteRun
    \/ \E e \in execs : \/ WalkCompletes(e) \/ WalkCancelled(e) \/ WalkPauses(e)
                        \/ WalkFindsNoStep(e) \/ WalkFindsTornStep(e) \/ WalkStartsStep(e)
                        \/ WalkFaults(e)
    \/ FailOrphanedPlanning \/ ResumePending \/ ResumeGivesUp

Step(e) == StepOk(e) \/ (\E b \in BOOLEAN : StepThrows(e, b)) \/ StepFaults(e)

Answer(w) == ApproveAnswered(w) \/ RetypeAnswered(w) \/ AbortAnswered(w) \/ AbortCollides(w)
                 \/ RequestRefused(w)

Planner(r) == PlannerPlans(r) \/ PlannerEndsBadly(r)

Operator(r) ==
    \/ Plan(r) \/ BeginStreamingPlan(r)
    \/ Approve(r) \/ ApproveAsks(r) \/ RetypeAsks(r) \/ Retype(r)
    \/ Discard(r) \/ Cancel(r) \/ CancelPaused(r) \/ DeleteRun(r)
    \/ \E x \in Rows : Retry(r, x) \/ Skip(r, x)
    \/ AbortSettles(r) \/ Abort(r) \/ AbortAsks(r) \/ RecoveryFaults(r)

Next ==
    \/ Handler
    \/ \E e \in execs : Step(e) \/ \E c \in Cleanups : StepRegistersCleanup(e, c)
    \/ \E w \in waiting : Answer(w)
    \/ \E r \in Runs : Planner(r) \/ Operator(r) \/ CrashAfterAcquire(r)
    \/ Shutdown \/ Exit \/ Crash \/ Boot

Spec == Init /\ [][Next]_vars

-----------------------------------------------------------------------------
\* Correctness.

\* Two runs never hold colliding claims, the global ones included, whatever handlers interleave and
\* wherever the process dies (locks.ts, queue.ts).
LocksExclusive == \A q, r \in Runs : q # r => Disjoint(held[q], held[r])

\* A run in the step loop holds every claim of its plan: a retry, skip, abort or boot that brings a
\* run back takes again what it had let go (step-recovery.ts, resumeOnBoot).
ExecutingHoldsClaims == \A e \in execs : ClaimsOf[e.run] \subseteq held[e.run]

Lease == INSTANCE Leases WITH working <- {e.run : e \in execs}

\* The executor implements Leases for as long as each run is executed once at a time: every execution
\* works under the whole of its plan's claims, taken in one step, and no handler, crash or boot lets a
\* claim go under it (locks.ts, step-recovery.ts, resumeOnBoot). Once a run is executed twice it does
\* not hold, the first execution that ends returns the lease of both: so a run that checks this has
\* MaxExecs = 1, which ends a behaviour where the second would begin. Three steps lead there, an abort
\* whose run was retried during its await (step-recovery.ts:155) among them.
ImplementsLeases == Lease!Spec

\* No run is executed twice at the same time (startQueuedRuns: "a run is never started twice").
OneExecution == \A e, f \in execs : e.run = f.run => e = f

\* No wake-up is lost: when no handler is at work, every queued run that could start has started.
\* Each place that frees a claim or shortens the line must dispatch (queue-dispatch.ts).
NoStartableRunLeftQueued ==
    Serving /\ ~stopping /\ faults = 0 => Startable(held, approvedAt, Reserving) = {}

\* A run that reads approved or running is being executed: neither a crash nor a paused drain leaves
\* a run nobody works on once the next Manager serves (resumeOnBoot).
NoGhostRun ==
    Serving /\ ~stopping /\ faults = 0 =>
        \A r \in Runs : status[r] \in {"approved", "running"} => \E e \in execs : e.run = r

\* The rows that read running are the ones executions are suspended in, and their runs read running.
StepsInFlight ==
    Serving /\ faults = 0 =>
        \A r \in Runs, x \in Rows :
            step[r][x] = "running" <=> \E e \in execs : e.run = r /\ e.at = x /\ status[r] = "running"

\* No step of a mutating run starts or ends ok unless the run's precondition, its first step,
\* answered ok (step-recovery.ts skipStep, guards.ts).
PreconditionAnswered ==
    \A r \in Mutating, x \in PlanSteps \ {1} :
        step[r][x] \in {"running", "ok"} => step[r][1] = "ok"

\* A cancelled run that let its locks go has undone every mutation it registered a cleanup for, or an
\* operator skipped that cleanup (cleanup.ts, execute's cleanup end).
CleanupLeavesNothing ==
    \A r \in Runs : Serving /\ status[r] = "cancelled" /\ r \notin deleted /\ held[r] = {}
                        /\ ClaimsOf[r] # {} => residue[r] = {}

\* A cleanup starts only when no mutation of a later step, or registered before it by its own step,
\* still stands (cleanup.ts, RUN ORDER).
CleanupOrder ==
    [][\A r \in Runs, c \in Cleanups :
          step[r][c] # "running" /\ step'[r][c] = "running" =>
              \A d \in residue[r] : ~RunsBefore(d, c)]_vars

\* A queued run never starts past a run ahead of it in line that waits for a colliding claim
\* (walkQueue: "a later run never overtakes it on a shared lock").
NoOvertaking ==
    [][\A q, r \in Runs :
          /\ status[r] = "queued" /\ status'[r] = "approved"
          /\ q \in Reserving /\ q # r /\ Ahead(approvedAt, q, r)
          => Disjoint(ClaimsOf[q], ClaimsOf[r])]_vars

\* Nothing a deleted run does can bring it back to life or give it a lock: deleteRun's "a soft-deleted
\* run can never pin a resource".
DeletedHoldsNothing == \A r \in deleted : held[r] = {}

-----------------------------------------------------------------------------
\* Fairness: the event loop goes on with the handler it began and, between two handlers, serves
\* every callback that is ready in its turn (strong fairness: requests of operators keep coming in
\* between).  A step's run() ends, its adapters carrying timeouts; a drain has a deadline; the
\* supervisor restarts the process.  Nothing is assumed of operators.
Fairness ==
    /\ WF_vars(Handler)
    /\ WF_vars(Boot)
    /\ SF_vars(Exit)
    /\ \A r \in Runs : SF_vars(\E e \in execs : e.run = r /\ Step(e))

FairSpec == Spec /\ Fairness

\* A run that ended in the middle and keeps its locks until somebody retries, aborts or deletes it.
FailedHolder == \E h \in Runs : status[h] \in {"failed", "cancelled"} /\ held[h] # {}

\* A queued run leaves the line, unless it waits for its secrets to be typed again or a run that
\* ended in the middle holds a lock, over any crash or drain (queue-dispatch.ts, resumeOnBoot).
QueuedRunLeaves ==
    \A r \in Runs :
        status[r] = "queued" /\ r \notin deleted ~>
            status[r] # "queued" \/ needsSecrets(r) \/ FailedHolder \/ faults > 0

\* A run that started reaches an outcome, over any cancel, crash or drain (execute, resumeOnBoot).
StartedRunEnds ==
    \A r \in Runs :
        status[r] \in {"approved", "running"} ~> status[r] \in Outcome \/ faults > 0

\* A run that reads approved or running when a process ends is taken up by the next boot whatever a
\* refused statement had left behind, a row still running or a failure nobody could record, and reaches
\* an outcome, unless a statement is refused again (resumeOnBoot: "the next boot takes them again").
NextBootTakesIt ==
    \A r \in Runs :
        ~up /\ status[r] \in {"approved", "running"} /\ faults = MaxFaults ~> status[r] \in Outcome

=============================================================================
