-------------------------- MODULE RunExecutorProofs --------------------------
(***************************************************************************)
(* Theorems of RunExecutor, for every set of runs, claims and step rows    *)
(* and every value of the bounds.                                          *)
(***************************************************************************)
EXTENDS RunExecutor, TLAPS, FiniteSetTheorems, SequenceTheorems

-----------------------------------------------------------------------------
\* Lemmas about the operators.

\* lockConflicts finds every collision, global claims in both directions.
LEMMA NoConflictMeansDisjoint ==
    ASSUME NEW taken, NEW claims, lockConflicts(taken, claims) = {}
    PROVE  Disjoint(taken, claims)
BY DEF lockConflicts, Disjoint, Collide, isGlobalClaim

\* The entries of a handler's work list have their type.
LEMMA JobTypes ==
    /\ Dispatch \in Job /\ Resume \in Job
    /\ \A r \in Runs : Release(r) \in Job /\ Erase(r) \in Job
    /\ \A r \in Runs, o \in Outcome : Hook(r, o) \in Job
    /\ \A S \in SUBSET Runs : Execute(S) \in Job /\ FailAll(S) \in Job
    /\ \A r \in Runs, id \in 0..MaxExecs : Walk(r, id) \in Job
BY BoundsAssumption DEF Hook, Release, Erase, Dispatch, Execute, Walk, FailAll, Resume, Job, Outcome

\* What a handler prepends to the rest of its work list has the list's type.
LEMMA PushTypes ==
    ASSUME NEW todo1 \in Seq(Job), NEW a \in Job, NEW b \in Job, NEW c \in Job
    PROVE  /\ <<a>> \o todo1 \in Seq(Job)
           /\ <<a, b>> \o todo1 \in Seq(Job)
           /\ <<a>> \o <<b>> \o <<c>> \o todo1 \in Seq(Job)
           /\ <<a>> \o <<>> \o <<c>> \o todo1 \in Seq(Job)
           /\ <<a>> \in Seq(Job) /\ <<a, b>> \in Seq(Job) /\ <<a, b, c>> \in Seq(Job)
OBVIOUS

\* An execution that begins has its type.
LEMMA ExecTypes ==
    ASSUME NEW r \in Runs, NEW id \in 1..MaxExecs, NEW left \in SUBSET Rows,
           NEW torn \in SUBSET Rows, NEW b \in BOOLEAN
    PROVE  [run |-> r, id |-> id, at |-> 0, left |-> left, torn |-> torn, cleanup |-> b,
            aborted |-> FALSE] \in Exec
BY DEF Exec

\* So has what is left of a work list once one of the head's runs is taken off it.
LEMMA RestTypes ==
    ASSUME TypeOK, todo # <<>>
    PROVE  /\ Head(todo) \in Job /\ Tail(todo) \in Seq(Job)
           /\ \A r \in Head(todo).runs : r \in Runs /\ RestOf(r) \in Seq(Job)
<1>1. Head(todo) \in Job /\ Tail(todo) \in Seq(Job)
  BY DEF TypeOK, ControlTypes
<1>2. ASSUME NEW r \in Head(todo).runs PROVE r \in Runs /\ RestOf(r) \in Seq(Job)
  <2>1. r \in Runs
    BY <1>1 DEF Job
  <2>2. [Head(todo) EXCEPT !.runs = @ \ {r}] \in Job
    BY <1>1 DEF Job
  <2> QED
    BY <1>1, <2>1, <2>2 DEF RestOf
<1> QED
  BY <1>1, <1>2

-----------------------------------------------------------------------------
\* Type correctness.

LEMMA TypeInit == Init => TypeOK
<1> SUFFICES ASSUME Init PROVE TypeOK
  OBVIOUS
<1>1. DbTypes
  BY DEF Init, DbTypes
<1>2. WorldTypes
  BY DEF Init, WorldTypes
<1>3. MemoryTypes
  <2>1. active \in [Runs -> 0..MaxExecs]
    BY BoundsAssumption DEF Init
  <2>2. execs \subseteq Exec /\ waiting \subseteq Request /\ secrets \subseteq Runs
    BY DEF Init
  <2>3. stopping \in BOOLEAN /\ planner \in [Runs -> {"idle", "live", "aborted"}]
    BY DEF Init
  <2> QED
    BY <2>1, <2>2, <2>3 DEF MemoryTypes
<1>4. ControlTypes
  BY DEF Init, ControlTypes
<1> QED
  BY <1>1, <1>2, <1>3, <1>4 DEF TypeOK

LEMMA TypePlanning ==
    ASSUME TypeOK, NEW r \in Runs
    PROVE  Plan(r) \/ BeginStreamingPlan(r) \/ Planner(r) => TypeOK'
<1>0. DbTypes /\ WorldTypes /\ MemoryTypes /\ ControlTypes
  BY DEF TypeOK
<1> USE <1>0
<1>1. CASE Plan(r)
  <2>1. DbTypes'
    BY <1>1, StepsAssumption DEF DbTypes, db, Plan, PlanRows, Rows, RunStatus, StepStatus
  <2>2. WorldTypes'
    BY <1>1 DEF WorldTypes, world, Plan
  <2>3. MemoryTypes'
    BY <1>1 DEF MemoryTypes, memory, Plan
  <2>4. ControlTypes'
    BY <1>1 DEF ControlTypes, Plan
  <2> QED
    BY <2>1, <2>2, <2>3, <2>4 DEF TypeOK
<1>2. CASE BeginStreamingPlan(r)
  <2>1. DbTypes'
    BY <1>2 DEF DbTypes, db, BeginStreamingPlan, RunStatus
  <2>2. WorldTypes'
    BY <1>2 DEF WorldTypes, world, BeginStreamingPlan
  <2>3. MemoryTypes'
    BY <1>2 DEF MemoryTypes, memory, BeginStreamingPlan
  <2>4. ControlTypes'
    BY <1>2 DEF ControlTypes, BeginStreamingPlan
  <2> QED
    BY <2>1, <2>2, <2>3, <2>4 DEF TypeOK
<1>3. CASE PlannerPlans(r)
  <2>1. DbTypes'
    BY <1>3, StepsAssumption DEF DbTypes, db, PlannerPlans, PlanRows, Rows, RunStatus, StepStatus
  <2>2. WorldTypes'
    BY <1>3 DEF WorldTypes, world, PlannerPlans
  <2>3. MemoryTypes'
    BY <1>3 DEF MemoryTypes, memory, PlannerPlans
  <2>4. ControlTypes'
    BY <1>3 DEF ControlTypes, PlannerPlans
  <2> QED
    BY <2>1, <2>2, <2>3, <2>4 DEF TypeOK
<1>4. CASE PlannerEndsBadly(r)
  <2>1. DbTypes'
    BY <1>4 DEF DbTypes, db, PlannerEndsBadly, RunStatus
  <2>2. WorldTypes'
    BY <1>4 DEF WorldTypes, world, PlannerEndsBadly
  <2>3. MemoryTypes'
    BY <1>4 DEF MemoryTypes, memory, PlannerEndsBadly
  <2>4. ControlTypes'
    BY <1>4 DEF ControlTypes, PlannerEndsBadly
  <2> QED
    BY <2>1, <2>2, <2>3, <2>4 DEF TypeOK
<1> QED
  BY <1>1, <1>2, <1>3, <1>4 DEF Planner

LEMMA SuspendTypes ==
    ASSUME TypeOK, NEW op \in {"approve", "retype", "abort"}, NEW r \in Runs,
           NEW rows \in SUBSET Cleanups, NEW names \in SUBSET Cleanups, NEW top \in Nat,
           Suspend(op, r, rows, names, top)
    PROVE  waiting' \subseteq Request
BY DEF TypeOK, MemoryTypes, Suspend, Request

LEMMA TypeApproving ==
    ASSUME TypeOK, NEW r \in Runs
    PROVE  Approve(r) \/ ApproveAsks(r) \/ RetypeAsks(r) \/ Retype(r) => TypeOK'
<1>0. DbTypes /\ WorldTypes /\ MemoryTypes /\ ControlTypes
  BY DEF TypeOK
<1> USE <1>0
<1>a. <<Dispatch>> \in Seq(Job)
  BY JobTypes DEF Outcome
<1>1. CASE Approve(r)
  <2>1. DbTypes'
    BY <1>1 DEF DbTypes, db, Approve, JoinQueue, RunStatus
  <2>2. WorldTypes'
    BY <1>1 DEF WorldTypes, world, Approve
  <2>3. MemoryTypes'
    BY <1>1 DEF MemoryTypes, memory, Approve, JoinQueue
  <2>4. ControlTypes'
    BY <1>1, <1>a DEF ControlTypes, Approve, JoinQueue
  <2> QED
    BY <2>1, <2>2, <2>3, <2>4 DEF TypeOK
<1>2. CASE ApproveAsks(r)
  <2>1. DbTypes'
    BY <1>2 DEF DbTypes, db, ApproveAsks
  <2>2. WorldTypes'
    BY <1>2 DEF WorldTypes, world, ApproveAsks
  <2>3. MemoryTypes'
    BY <1>2, SuspendTypes DEF MemoryTypes, memory, ApproveAsks
  <2>4. ControlTypes'
    BY <1>2 DEF ControlTypes, ApproveAsks
  <2> QED
    BY <2>1, <2>2, <2>3, <2>4 DEF TypeOK
<1>3. CASE RetypeAsks(r)
  <2>1. DbTypes'
    BY <1>3 DEF DbTypes, db, RetypeAsks
  <2>2. WorldTypes'
    BY <1>3 DEF WorldTypes, world, RetypeAsks
  <2>3. MemoryTypes'
    BY <1>3, SuspendTypes DEF MemoryTypes, memory, RetypeAsks
  <2>4. ControlTypes'
    BY <1>3 DEF ControlTypes, RetypeAsks
  <2> QED
    BY <2>1, <2>2, <2>3, <2>4 DEF TypeOK
<1>4. CASE Retype(r)
  <2>1. DbTypes'
    BY <1>4 DEF DbTypes, db, Retype
  <2>2. WorldTypes'
    BY <1>4 DEF WorldTypes, world, Retype
  <2>3. MemoryTypes'
    BY <1>4 DEF MemoryTypes, memory, Retype
  <2>4. ControlTypes'
    BY <1>4, <1>a DEF ControlTypes, Retype
  <2> QED
    BY <2>1, <2>2, <2>3, <2>4 DEF TypeOK
<1> QED
  BY <1>1, <1>2, <1>3, <1>4

LEMMA TypeEnding ==
    ASSUME TypeOK, NEW r \in Runs
    PROVE  Discard(r) \/ Cancel(r) \/ CancelPaused(r) \/ DeleteRun(r) => TypeOK'
<1>0. DbTypes /\ WorldTypes /\ MemoryTypes /\ ControlTypes
  BY DEF TypeOK
<1> USE <1>0
<1>a. /\ <<Hook(r, "cancelled")>> \in Seq(Job)
      /\ <<Dispatch>> \in Seq(Job) /\ <<Erase(r), Dispatch>> \in Seq(Job)
  BY JobTypes DEF Outcome
<1>1. CASE Discard(r)
  <2>1. DbTypes'
    BY <1>1 DEF DbTypes, db, Discard, RunStatus
  <2>2. WorldTypes'
    BY <1>1 DEF WorldTypes, world, Discard
  <2>3. MemoryTypes'
    BY <1>1 DEF MemoryTypes, memory, Discard
  <2>4. ControlTypes'
    BY <1>1, <1>a DEF ControlTypes, Discard
  <2> QED
    BY <2>1, <2>2, <2>3, <2>4 DEF TypeOK
<1>2. CASE Cancel(r)
  <2>1. DbTypes'
    BY <1>2 DEF DbTypes, db, Cancel
  <2>2. WorldTypes'
    BY <1>2 DEF WorldTypes, world, Cancel
  <2>3. MemoryTypes'
    BY <1>2 DEF MemoryTypes, memory, Cancel, Exec
  <2>4. ControlTypes'
    BY <1>2 DEF ControlTypes, Cancel
  <2> QED
    BY <2>1, <2>2, <2>3, <2>4 DEF TypeOK
<1>3. CASE CancelPaused(r)
  <2>1. DbTypes'
    BY <1>3 DEF DbTypes, db, CancelPaused, RunStatus
  <2>2. WorldTypes'
    BY <1>3 DEF WorldTypes, world, CancelPaused
  <2>3. MemoryTypes'
    BY <1>3 DEF MemoryTypes, memory, CancelPaused
  <2>4. ControlTypes'
    BY <1>3, <1>a DEF ControlTypes, CancelPaused
  <2> QED
    BY <2>1, <2>2, <2>3, <2>4 DEF TypeOK
<1>4. CASE DeleteRun(r)
  <2>1. DbTypes'
    BY <1>4 DEF DbTypes, db, DeleteRun
  <2>2. WorldTypes'
    BY <1>4 DEF WorldTypes, world, DeleteRun
  <2>3. MemoryTypes'
    BY <1>4 DEF MemoryTypes, memory, DeleteRun
  <2>4. ControlTypes'
    BY <1>4, <1>a DEF ControlTypes, DeleteRun
  <2> QED
    BY <2>1, <2>2, <2>3, <2>4 DEF TypeOK
<1> QED
  BY <1>1, <1>2, <1>3, <1>4

LEMMA TypeHandler ==
    ASSUME TypeOK
    PROVE  TellHook \/ ReleaseLocks \/ EraseRun \/ DispatchQueue \/ DispatchNothing => TypeOK'
<1>0. DbTypes /\ WorldTypes /\ MemoryTypes /\ ControlTypes
  BY DEF TypeOK
<1> USE <1>0
<1>a. todo # <<>> => /\ Head(todo) \in Job /\ Tail(todo) \in Seq(Job)
                     /\ \A r \in Head(todo).runs : r \in Runs /\ RestOf(r) \in Seq(Job)
  BY RestTypes
<1>b. todo # <<>> => Head(todo).runs \subseteq Runs /\ Head(todo).outcome \in Outcome \cup {"none"}
  BY <1>a DEF Job
<1>1. CASE TellHook
  <2>1. DbTypes'
    BY <1>1 DEF DbTypes, db, TellHook, Doing
  <2>2. WorldTypes'
    BY <1>1, <1>b DEF WorldTypes, world, TellHook, Doing
  <2>3. MemoryTypes'
    BY <1>1 DEF MemoryTypes, memory, TellHook, Doing
  <2>4. ControlTypes'
    BY <1>1, <1>a DEF ControlTypes, TellHook, Doing
  <2> QED
    BY <2>1, <2>2, <2>3, <2>4 DEF TypeOK
<1>2. CASE ReleaseLocks
  <2>1. DbTypes'
    BY <1>2, <1>b DEF DbTypes, db, ReleaseLocks, Doing, releaseLocks
  <2>2. WorldTypes'
    BY <1>2 DEF WorldTypes, world, ReleaseLocks, Doing
  <2>3. MemoryTypes'
    BY <1>2 DEF MemoryTypes, memory, ReleaseLocks, Doing
  <2>4. ControlTypes'
    BY <1>2, <1>a DEF ControlTypes, ReleaseLocks, Doing
  <2> QED
    BY <2>1, <2>2, <2>3, <2>4 DEF TypeOK
<1>3. CASE EraseRun
  <2>1. DbTypes'
    BY <1>3, <1>b DEF DbTypes, db, EraseRun, Doing, releaseLocks
  <2>2. WorldTypes'
    BY <1>3 DEF WorldTypes, world, EraseRun, Doing
  <2>3. MemoryTypes'
    BY <1>3, <1>b DEF MemoryTypes, memory, EraseRun, Doing
  <2>4. ControlTypes'
    BY <1>3, <1>a DEF ControlTypes, EraseRun, Doing
  <2> QED
    BY <2>1, <2>2, <2>3, <2>4 DEF TypeOK
<1>4. CASE DispatchQueue
  <2>1. DbTypes'
    BY <1>4, ClaimsAssumption DEF DbTypes, db, DispatchQueue, Doing, RunStatus
  <2>2. WorldTypes'
    BY <1>4 DEF WorldTypes, world, DispatchQueue, Doing
  <2>3. MemoryTypes'
    BY <1>4 DEF MemoryTypes, memory, DispatchQueue, Doing
  <2>4. ControlTypes'
    BY <1>4, <1>a, JobTypes DEF ControlTypes, DispatchQueue, Doing, Startable, Reserving
  <2> QED
    BY <2>1, <2>2, <2>3, <2>4 DEF TypeOK
<1>5. CASE DispatchNothing
  <2>1. DbTypes'
    BY <1>5 DEF DbTypes, db, DispatchNothing, Doing
  <2>2. WorldTypes'
    BY <1>5 DEF WorldTypes, world, DispatchNothing, Doing
  <2>3. MemoryTypes'
    BY <1>5 DEF MemoryTypes, memory, DispatchNothing, Doing
  <2>4. ControlTypes'
    BY <1>5, <1>a DEF ControlTypes, DispatchNothing, Doing
  <2> QED
    BY <2>1, <2>2, <2>3, <2>4 DEF TypeOK
<1> QED
  BY <1>1, <1>2, <1>3, <1>4, <1>5

\* failRun, whether its recording lands or not.
LEMMA FailTypes ==
    ASSUME TypeOK, NEW r \in Runs, NEW rest \in Seq(Job), FailRun(r, rest) \/ FaultFails(r, rest)
    PROVE  /\ status' \in [Runs -> RunStatus \cup {"none"}]
           /\ active' \in [Runs -> 0..MaxExecs] /\ secrets' \subseteq Runs
           /\ todo' \in Seq(Job) /\ faults' \in Nat
<1>0. DbTypes /\ MemoryTypes /\ ControlTypes
  BY DEF TypeOK
<1>1. status' \in [Runs -> RunStatus \cup {"none"}]
  BY <1>0 DEF FailRun, FaultFails, RecordsFailure, CannotRecord, DbTypes, RunStatus
<1>2. secrets' \subseteq Runs
  BY <1>0 DEF FailRun, FaultFails, Forget, MemoryTypes
<1>3. active' \in [Runs -> 0..MaxExecs]
  <2>1. active' = [active EXCEPT ![r] = 0] /\ active \in [Runs -> 0..MaxExecs]
    BY <1>0 DEF FailRun, FaultFails, Forget, MemoryTypes
  <2>2. 0 \in 0..MaxExecs
    BY BoundsAssumption
  <2> QED
    BY <2>1, <2>2
<1>4. todo' \in Seq(Job)
  <2>1. <<Hook(r, "failed"), Dispatch>> \o rest \in Seq(Job) /\ <<Dispatch>> \o rest \in Seq(Job)
    BY JobTypes, PushTypes DEF Outcome
  <2> QED
    BY <2>1 DEF FailRun, FaultFails, RecordsFailure, CannotRecord
<1>5. faults' \in Nat
  BY <1>0 DEF FailRun, FaultFails, ControlTypes
<1> QED
  BY <1>1, <1>2, <1>3, <1>4, <1>5

LEMMA TypeExecute ==
    ASSUME TypeOK
    PROVE  ExecuteNone \/ ExecuteRefused \/ ExecuteFaults \/ ExecuteRun \/ FailOrphanedPlanning
           \/ ResumePending \/ ResumeGivesUp => TypeOK'
<1>0. DbTypes /\ WorldTypes /\ MemoryTypes /\ ControlTypes
  BY DEF TypeOK
<1> USE <1>0
<1>a. todo # <<>> => /\ Head(todo) \in Job /\ Tail(todo) \in Seq(Job)
                     /\ \A r \in Head(todo).runs : r \in Runs /\ RestOf(r) \in Seq(Job)
  BY RestTypes
<1>b. todo # <<>> => Head(todo).runs \subseteq Runs /\ Head(todo).outcome \in Outcome \cup {"none"}
  BY <1>a DEF Job
<1>c. ASSUME todo # <<>>, NEW r \in Head(todo).runs,
             FailRun(r, RestOf(r)) \/ FaultFails(r, RestOf(r))
      PROVE  /\ status' \in [Runs -> RunStatus \cup {"none"}]
             /\ active' \in [Runs -> 0..MaxExecs] /\ secrets' \subseteq Runs
             /\ todo' \in Seq(Job) /\ faults' \in Nat
  BY <1>a, <1>c, FailTypes
<1>1. CASE ExecuteNone
  <2>1. DbTypes'
    BY <1>1 DEF DbTypes, db, ExecuteNone, Doing
  <2>2. WorldTypes'
    BY <1>1 DEF WorldTypes, world, ExecuteNone, Doing
  <2>3. MemoryTypes'
    BY <1>1 DEF MemoryTypes, memory, ExecuteNone, Doing
  <2>4. ControlTypes'
    BY <1>1, <1>a DEF ControlTypes, ExecuteNone, Doing
  <2> QED
    BY <2>1, <2>2, <2>3, <2>4 DEF TypeOK
<1>2. CASE ExecuteRefused \/ ExecuteFaults
  <2>0. /\ status' \in [Runs -> RunStatus \cup {"none"}]
        /\ active' \in [Runs -> 0..MaxExecs] /\ secrets' \subseteq Runs
        /\ todo' \in Seq(Job) /\ faults' \in Nat
    BY <1>2, <1>c DEF ExecuteRefused, ExecuteFaults, Doing
  <2>1. DbTypes'
    BY <1>2, <2>0 DEF DbTypes, ExecuteRefused, ExecuteFaults
  <2>2. WorldTypes'
    BY <1>2 DEF WorldTypes, world, ExecuteRefused, ExecuteFaults
  <2>3. MemoryTypes'
    BY <1>2, <2>0 DEF MemoryTypes, ExecuteRefused, ExecuteFaults
  <2>4. ControlTypes'
    BY <1>2, <2>0 DEF ControlTypes, ExecuteRefused, ExecuteFaults
  <2> QED
    BY <2>1, <2>2, <2>3, <2>4 DEF TypeOK
<1>3. CASE ExecuteRun
  <2>1. DbTypes'
    BY <1>3, <1>b DEF DbTypes, db, ExecuteRun, Doing, RunStatus
  <2>2. WorldTypes'
    BY <1>3 DEF WorldTypes, world, ExecuteRun, Doing
  <2>3. MemoryTypes'
    <3>1. PICK r \in Head(todo).runs, id \in 1..MaxExecs :
              /\ execs' = execs \cup {[run |-> r, id |-> id, at |-> 0, left |-> Unfinished(r),
                                       torn |-> {x \in Rows : step[r][x] = "running"},
                                       cleanup |-> \E c \in Cleanups : HasRow(r, c),
                                       aborted |-> FALSE]}
              /\ active' = [active EXCEPT ![r] = id]
      BY <1>3 DEF ExecuteRun
    <3>2. r \in Runs
      BY <1>3, <1>b DEF ExecuteRun, Doing
    <3>3. (\E c \in Cleanups : HasRow(r, c)) \in BOOLEAN /\ Unfinished(r) \in SUBSET Rows
          /\ {x \in Rows : step[r][x] = "running"} \in SUBSET Rows
      BY DEF Unfinished
    <3>4. execs' \subseteq Exec
      <4>1. [run |-> r, id |-> id, at |-> 0, left |-> Unfinished(r),
             torn |-> {x \in Rows : step[r][x] = "running"},
             cleanup |-> \E c \in Cleanups : HasRow(r, c), aborted |-> FALSE] \in Exec
        BY <3>2, <3>3, ExecTypes
      <4> QED
        BY <3>1, <4>1 DEF MemoryTypes
    <3>5. active' \in [Runs -> 0..MaxExecs]
      BY <3>1, <3>2, BoundsAssumption DEF MemoryTypes
    <3> QED
      BY <1>3, <3>4, <3>5 DEF MemoryTypes, ExecuteRun
  <2>4. ControlTypes'
    BY <1>3, <1>a, JobTypes, PushTypes DEF ControlTypes, ExecuteRun, Doing
  <2> QED
    BY <2>1, <2>2, <2>3, <2>4 DEF TypeOK
<1>4. CASE FailOrphanedPlanning
  <2>0. /\ status' \in [Runs -> RunStatus \cup {"none"}]
        /\ active' \in [Runs -> 0..MaxExecs] /\ secrets' \subseteq Runs
        /\ todo' \in Seq(Job) /\ faults' \in Nat
    <3>1. CASE \E r \in Head(todo).runs : FailRun(r, RestOf(r))
      BY <1>4, <1>c, <3>1 DEF FailOrphanedPlanning, Doing
    <3>2. CASE todo' = Tail(todo) /\ UNCHANGED <<status, active, secrets, faults>>
      BY <1>4, <1>a, <3>2 DEF FailOrphanedPlanning, Doing, DbTypes, MemoryTypes, ControlTypes
    <3> QED
      BY <1>4, <3>1, <3>2 DEF FailOrphanedPlanning
  <2>1. DbTypes'
    BY <1>4, <2>0 DEF DbTypes, FailOrphanedPlanning
  <2>2. WorldTypes'
    BY <1>4 DEF WorldTypes, world, FailOrphanedPlanning
  <2>3. MemoryTypes'
    BY <1>4, <2>0 DEF MemoryTypes, FailOrphanedPlanning
  <2>4. ControlTypes'
    BY <1>4, <2>0 DEF ControlTypes, FailOrphanedPlanning
  <2> QED
    BY <2>1, <2>2, <2>3, <2>4 DEF TypeOK
<1>5. CASE ResumePending
  <2>1. DbTypes'
    BY <1>5 DEF DbTypes, db, ResumePending, Doing, StepStatus
  <2>2. WorldTypes'
    BY <1>5 DEF WorldTypes, world, ResumePending, Doing
  <2>3. MemoryTypes'
    BY <1>5 DEF MemoryTypes, memory, ResumePending, Doing
  <2>4. ControlTypes'
    BY <1>5, <1>a, JobTypes, PushTypes DEF ControlTypes, ResumePending, Doing
  <2> QED
    BY <2>1, <2>2, <2>3, <2>4 DEF TypeOK
<1>6. CASE ResumeGivesUp
  <2>1. DbTypes'
    BY <1>6 DEF DbTypes, db, ResumeGivesUp, Doing, StepStatus
  <2>2. WorldTypes'
    BY <1>6 DEF WorldTypes, world, ResumeGivesUp
  <2>3. MemoryTypes'
    BY <1>6 DEF MemoryTypes, memory, ResumeGivesUp
  <2>4. ControlTypes'
    BY <1>6 DEF ControlTypes, ResumeGivesUp
  <2> QED
    BY <2>1, <2>2, <2>3, <2>4 DEF TypeOK
<1> QED
  BY <1>1, <1>2, <1>3, <1>4, <1>5, <1>6

LEMMA EndsTypes ==
    ASSUME TypeOK, NEW e \in execs, NEW outcome \in Outcome,
           NEW release \in {<<>>, <<Release(e.run)>>}, NEW rest \in Seq(Job),
           Ends(e, outcome, release, rest)
    PROVE  /\ status' \in [Runs -> RunStatus \cup {"none"}]
           /\ execs' \subseteq Exec /\ active' \in [Runs -> 0..MaxExecs] /\ secrets' \subseteq Runs
           /\ todo' \in Seq(Job)
<1>0. DbTypes /\ MemoryTypes
  BY DEF TypeOK
<1>1. e.run \in Runs
  BY <1>0 DEF MemoryTypes, Exec
<1>2. status' \in [Runs -> RunStatus \cup {"none"}]
  BY <1>0, <1>1 DEF Ends, DbTypes, Outcome, RunStatus
<1>3. execs' \subseteq Exec /\ active' \in [Runs -> 0..MaxExecs] /\ secrets' \subseteq Runs
  <2>1. execs' \subseteq Exec /\ secrets' \subseteq Runs
    BY <1>0 DEF Ends, Forget, MemoryTypes
  <2>2. active' = [active EXCEPT ![e.run] = 0] /\ active \in [Runs -> 0..MaxExecs]
    BY <1>0 DEF Ends, Forget, MemoryTypes
  <2>3. 0 \in 0..MaxExecs
    BY BoundsAssumption
  <2>4. active' \in [Runs -> 0..MaxExecs]
    BY <1>1, <2>2, <2>3
  <2> QED
    BY <2>1, <2>4
<1>4. todo' \in Seq(Job)
  <2>1. Hook(e.run, outcome) \in Job /\ Release(e.run) \in Job /\ Dispatch \in Job
    BY <1>1, JobTypes
  <2> QED
    BY <2>1, PushTypes DEF Ends
<1> QED
  BY <1>2, <1>3, <1>4

LEMMA TypeWalkEnds ==
    ASSUME TypeOK, NEW e \in execs
    PROVE  WalkCompletes(e) \/ WalkCancelled(e) \/ WalkFindsNoStep(e) \/ WalkFindsTornStep(e)
           \/ WalkFaults(e) => TypeOK'
<1>0. DbTypes /\ WorldTypes /\ MemoryTypes /\ ControlTypes
  BY DEF TypeOK
<1> USE <1>0
<1>a. e \in Exec /\ e.run \in Runs /\ e.at \in Rows \cup {0} /\ e.left \subseteq Rows /\ e.id \in 0..MaxExecs
  BY BoundsAssumption DEF MemoryTypes, Exec
<1>b. todo # <<>> => Tail(todo) \in Seq(Job)
  BY RestTypes
<1>c. \A outcome \in Outcome, release \in {<<>>, <<Release(e.run)>>} :
          Doing("walk") /\ Ends(e, outcome, release, Tail(todo)) =>
              /\ status' \in [Runs -> RunStatus \cup {"none"}]
              /\ execs' \subseteq Exec /\ active' \in [Runs -> 0..MaxExecs] /\ secrets' \subseteq Runs
              /\ todo' \in Seq(Job)
  BY <1>b, EndsTypes DEF Doing
<1>d. "succeeded" \in Outcome /\ "failed" \in Outcome /\ "cancelled" \in Outcome
  BY DEF Outcome
<1>1. CASE WalkCompletes(e)
  <2>1. DbTypes'
    BY <1>1, <1>c, <1>d DEF DbTypes, db, WalkCompletes, Walking
  <2>2. WorldTypes'
    BY <1>1 DEF WorldTypes, world, WalkCompletes
  <2>3. MemoryTypes'
    BY <1>1, <1>c, <1>d DEF MemoryTypes, memory, WalkCompletes, Walking
  <2>4. ControlTypes'
    BY <1>1, <1>c, <1>d DEF ControlTypes, WalkCompletes, Walking
  <2> QED
    BY <2>1, <2>2, <2>3, <2>4 DEF TypeOK
<1>2. CASE WalkCancelled(e)
  <2>1. DbTypes'
    BY <1>2, <1>c, <1>d DEF DbTypes, db, WalkCancelled, Walking
  <2>2. WorldTypes'
    BY <1>2 DEF WorldTypes, world, WalkCancelled
  <2>3. MemoryTypes'
    BY <1>2, <1>c, <1>d DEF MemoryTypes, memory, WalkCancelled, Walking
  <2>4. ControlTypes'
    BY <1>2, <1>c, <1>d DEF ControlTypes, WalkCancelled, Walking
  <2> QED
    BY <2>1, <2>2, <2>3, <2>4 DEF TypeOK
<1>3. CASE WalkFindsNoStep(e)
  <2>1. DbTypes'
    <3>1. status' \in [Runs -> RunStatus \cup {"none"}]
      BY <1>3, <1>c, <1>d DEF WalkFindsNoStep, Walking
    <3>2. PICK x \in Cleanups : step' = [step EXCEPT ![e.run][x] = "failed"]
      BY <1>3 DEF WalkFindsNoStep
    <3>3. step' \in [Runs -> [Rows -> StepStatus \cup {"none"}]]
      BY <1>a, <3>2 DEF DbTypes, Rows, StepStatus
    <3> QED
      BY <1>3, <3>1, <3>3 DEF DbTypes, WalkFindsNoStep
  <2>2. WorldTypes'
    BY <1>3 DEF WorldTypes, world, WalkFindsNoStep
  <2>3. MemoryTypes'
    BY <1>3, <1>c, <1>d DEF MemoryTypes, memory, WalkFindsNoStep, Walking
  <2>4. ControlTypes'
    BY <1>3, <1>c, <1>d DEF ControlTypes, WalkFindsNoStep, Walking
  <2> QED
    BY <2>1, <2>2, <2>3, <2>4 DEF TypeOK
<1>4. CASE WalkFindsTornStep(e) \/ WalkFaults(e)
  <2>0. /\ status' \in [Runs -> RunStatus \cup {"none"}]
        /\ active' \in [Runs -> 0..MaxExecs] /\ secrets' \subseteq Runs
        /\ todo' \in Seq(Job) /\ faults' \in Nat
    BY <1>4, <1>a, <1>b, FailTypes DEF WalkFindsTornStep, WalkFaults, Walking, Doing
  <2>1. DbTypes'
    BY <1>4, <2>0 DEF DbTypes, WalkFindsTornStep, WalkFaults
  <2>2. WorldTypes'
    BY <1>4 DEF WorldTypes, world, WalkFindsTornStep, WalkFaults
  <2>3. MemoryTypes'
    BY <1>4, <2>0 DEF MemoryTypes, WalkFindsTornStep, WalkFaults
  <2>4. ControlTypes'
    BY <1>4, <2>0 DEF ControlTypes, WalkFindsTornStep, WalkFaults
  <2> QED
    BY <2>1, <2>2, <2>3, <2>4 DEF TypeOK
<1> QED
  BY <1>1, <1>2, <1>3, <1>4

LEMMA TypeSteps ==
    ASSUME TypeOK, NEW e \in execs
    PROVE  \/ WalkPauses(e) \/ WalkStartsStep(e) \/ Step(e)
           \/ \E c \in Cleanups : StepRegistersCleanup(e, c)
           => TypeOK'
<1>0. DbTypes /\ WorldTypes /\ MemoryTypes /\ ControlTypes
  BY DEF TypeOK
<1> USE <1>0
<1>a. e \in Exec /\ e.run \in Runs /\ e.at \in Rows \cup {0} /\ e.left \subseteq Rows /\ e.id \in 0..MaxExecs
  BY BoundsAssumption DEF MemoryTypes, Exec
<1>b. todo # <<>> => Tail(todo) \in Seq(Job)
  BY RestTypes
<1>c. <<Walk(e.run, e.id)>> \in Seq(Job)
  BY <1>a, JobTypes
<1>d. ASSUME NEW b \in BOOLEAN, StepThrows(e, b)
      PROVE  /\ status' \in [Runs -> RunStatus \cup {"none"}]
             /\ execs' \subseteq Exec /\ active' \in [Runs -> 0..MaxExecs] /\ secrets' \subseteq Runs
             /\ todo' \in Seq(Job)
  <2>1. PICK outcome \in Outcome : Ends(e, outcome, <<>>, <<>>)
    BY <1>d DEF StepThrows, Outcome
  <2>2. <<>> \in Seq(Job)
    OBVIOUS
  <2> QED
    BY <2>1, <2>2, EndsTypes
<1>1. CASE WalkPauses(e)
  <2>1. DbTypes'
    BY <1>1 DEF DbTypes, db, WalkPauses, Walking, Doing
  <2>2. WorldTypes'
    BY <1>1 DEF WorldTypes, world, WalkPauses, Walking, Doing
  <2>3. MemoryTypes'
    BY <1>1, <1>a, BoundsAssumption DEF MemoryTypes, memory, WalkPauses, Walking, Doing, Forget
  <2>4. ControlTypes'
    BY <1>1, <1>b DEF ControlTypes, WalkPauses, Walking, Doing
  <2> QED
    BY <2>1, <2>2, <2>3, <2>4 DEF TypeOK
<1>2. CASE WalkStartsStep(e)
  <2>1. DbTypes'
    BY <1>2, <1>a DEF DbTypes, db, WalkStartsStep, Walking, Doing, StepStatus
  <2>2. WorldTypes'
    BY <1>2 DEF WorldTypes, world, WalkStartsStep, Walking, Doing
  <2>3. MemoryTypes'
    <3>1. PICK x \in Rows : execs' = (execs \ {e}) \cup {[e EXCEPT !.at = x, !.left = @ \ {x}]}
      BY <1>2 DEF WalkStartsStep
    <3>2. [e EXCEPT !.at = x, !.left = @ \ {x}] \in Exec
      BY <1>a DEF Exec
    <3> QED
      BY <1>2, <3>1, <3>2 DEF MemoryTypes, WalkStartsStep
  <2>4. ControlTypes'
    BY <1>2, <1>b DEF ControlTypes, WalkStartsStep, Walking, Doing
  <2> QED
    BY <2>1, <2>2, <2>3, <2>4 DEF TypeOK
<1>3. CASE \E c \in Cleanups : StepRegistersCleanup(e, c)
  <2>1. DbTypes'
    BY <1>3, <1>a DEF DbTypes, db, StepRegistersCleanup
  <2>2. WorldTypes'
    BY <1>3, <1>a DEF WorldTypes, world, StepRegistersCleanup
  <2>3. MemoryTypes'
    BY <1>3 DEF MemoryTypes, memory, StepRegistersCleanup
  <2>4. ControlTypes'
    BY <1>3 DEF ControlTypes, StepRegistersCleanup
  <2> QED
    BY <2>1, <2>2, <2>3, <2>4 DEF TypeOK
<1>4. CASE StepOk(e)
  <2>1. DbTypes'
    BY <1>4, <1>a DEF DbTypes, db, StepOk, Running, StepStatus
  <2>2. WorldTypes'
    BY <1>4, <1>a DEF WorldTypes, world, StepOk
  <2>3. MemoryTypes'
    BY <1>4, <1>a DEF MemoryTypes, memory, StepOk, Exec
  <2>4. ControlTypes'
    BY <1>4, <1>c DEF ControlTypes, StepOk
  <2> QED
    BY <2>1, <2>2, <2>3, <2>4 DEF TypeOK
<1>5. CASE \E b \in BOOLEAN : StepThrows(e, b)
  <2>1. DbTypes'
    BY <1>5, <1>a, <1>d DEF DbTypes, db, StepThrows, Running, StepStatus
  <2>2. WorldTypes'
    BY <1>5 DEF WorldTypes, world, StepThrows
  <2>3. MemoryTypes'
    BY <1>5, <1>d DEF MemoryTypes, memory, StepThrows
  <2>4. ControlTypes'
    BY <1>5, <1>d DEF ControlTypes, StepThrows
  <2> QED
    BY <2>1, <2>2, <2>3, <2>4 DEF TypeOK
<1>6. CASE StepFaults(e)
  <2>0. /\ status' \in [Runs -> RunStatus \cup {"none"}]
        /\ active' \in [Runs -> 0..MaxExecs] /\ secrets' \subseteq Runs
        /\ todo' \in Seq(Job) /\ faults' \in Nat
    <3>1. <<>> \in Seq(Job) /\ FaultFails(e.run, <<>>)
      BY <1>6 DEF StepFaults
    <3> QED
      BY <1>a, <3>1, FailTypes
  <2>1. DbTypes'
    <3>1. e.at \in Rows
      BY <1>6, <1>a DEF StepFaults, Running
    <3>2. PICK s \in {step[e.run][e.at], "failed"} : step' = [step EXCEPT ![e.run][e.at] = s]
      BY <1>6 DEF StepFaults
    <3>3. s \in StepStatus \cup {"none"}
      BY <1>a, <3>1, <3>2 DEF DbTypes, StepStatus
    <3>4. step' \in [Runs -> [Rows -> StepStatus \cup {"none"}]]
      BY <1>a, <3>1, <3>2, <3>3 DEF DbTypes
    <3> QED
      BY <1>6, <2>0, <3>4 DEF DbTypes, StepFaults
  <2>2. WorldTypes'
    BY <1>6 DEF WorldTypes, world, StepFaults
  <2>3. MemoryTypes'
    BY <1>6, <2>0 DEF MemoryTypes, StepFaults
  <2>4. ControlTypes'
    BY <1>6, <2>0 DEF ControlTypes, StepFaults
  <2> QED
    BY <2>1, <2>2, <2>3, <2>4 DEF TypeOK
<1> QED
  BY <1>1, <1>2, <1>3, <1>4, <1>5, <1>6 DEF Step

LEMMA TypeRecovering ==
    ASSUME TypeOK, NEW r \in Runs
    PROVE  (\E x \in Rows : Retry(r, x) \/ Skip(r, x)) \/ AbortSettles(r) \/ RecoveryFaults(r)
           => TypeOK'
<1>0. DbTypes /\ WorldTypes /\ MemoryTypes /\ ControlTypes
  BY DEF TypeOK
<1> USE <1>0
<1>a. <<Execute({r})>> \in Seq(Job) /\ <<Release(r), Dispatch>> \in Seq(Job)
  BY JobTypes
<1>b. acquireLocks(held, r) \in [Runs -> SUBSET Claims]
  BY ClaimsAssumption DEF DbTypes, acquireLocks
<1>1. CASE \E x \in Rows : Retry(r, x)
  <2>1. DbTypes'
    <3>1. PICK x \in Rows : Retry(r, x)
      BY <1>1
    <3>2. step' \in [Runs -> [Rows -> StepStatus \cup {"none"}]]
      BY <3>1 DEF Retry, DbTypes, StepStatus
    <3> QED
      BY <1>b, <3>1, <3>2 DEF DbTypes, Retry, RunStatus
  <2>2. WorldTypes'
    BY <1>1 DEF WorldTypes, world, Retry
  <2>3. MemoryTypes'
    BY <1>1 DEF MemoryTypes, memory, Retry
  <2>4. ControlTypes'
    BY <1>1, <1>a DEF ControlTypes, Retry
  <2> QED
    BY <2>1, <2>2, <2>3, <2>4 DEF TypeOK
<1>2. CASE \E x \in Rows : Skip(r, x)
  <2>1. DbTypes'
    <3>1. PICK x \in Rows : Skip(r, x)
      BY <1>2
    <3>2. step' \in [Runs -> [Rows -> StepStatus \cup {"none"}]]
      BY <3>1 DEF Skip, DbTypes, StepStatus
    <3> QED
      BY <1>b, <3>1, <3>2 DEF DbTypes, Skip, RunStatus
  <2>2. WorldTypes'
    BY <1>2 DEF WorldTypes, world, Skip
  <2>3. MemoryTypes'
    BY <1>2 DEF MemoryTypes, memory, Skip
  <2>4. ControlTypes'
    BY <1>2, <1>a DEF ControlTypes, Skip
  <2> QED
    BY <2>1, <2>2, <2>3, <2>4 DEF TypeOK
<1>3. CASE AbortSettles(r)
  <2>1. DbTypes'
    BY <1>3 DEF DbTypes, db, AbortSettles, abandonUnfinished, StepStatus, RunStatus
  <2>2. WorldTypes'
    BY <1>3 DEF WorldTypes, world, AbortSettles
  <2>3. MemoryTypes'
    BY <1>3 DEF MemoryTypes, memory, AbortSettles
  <2>4. ControlTypes'
    BY <1>3, <1>a DEF ControlTypes, AbortSettles
  <2> QED
    BY <2>1, <2>2, <2>3, <2>4 DEF TypeOK
<1>4. CASE RecoveryFaults(r)
  <2>1. DbTypes'
    BY <1>4, <1>b DEF DbTypes, RecoveryFaults
  <2>2. WorldTypes'
    BY <1>4 DEF WorldTypes, world, RecoveryFaults
  <2>3. MemoryTypes'
    BY <1>4 DEF MemoryTypes, memory, RecoveryFaults
  <2>4. ControlTypes'
    BY <1>4 DEF ControlTypes, RecoveryFaults
  <2> QED
    BY <2>1, <2>2, <2>3, <2>4 DEF TypeOK
<1> QED
  BY <1>1, <1>2, <1>3, <1>4

LEMMA AbortTypes ==
    ASSUME TypeOK, NEW r \in Runs, NEW seen \in SUBSET Cleanups, NEW names \in SUBSET Cleanups,
           NEW top \in Nat, AbortSchedules(r, seen, names, top)
    PROVE  /\ status' \in [Runs -> RunStatus \cup {"none"}]
           /\ step' \in [Runs -> [Rows -> StepStatus \cup {"none"}]]
           /\ ordinal' \in [Runs -> [Rows -> Nat]]
           /\ held' \in [Runs -> SUBSET Claims]
           /\ secrets' \subseteq Runs
           /\ todo' \in Seq(Job)
<1>0. DbTypes /\ MemoryTypes
  BY DEF TypeOK
<1>1. status' \in [Runs -> RunStatus \cup {"none"}]
  BY <1>0 DEF AbortSchedules, DbTypes, RunStatus
<1>2. step' \in [Runs -> [Rows -> StepStatus \cup {"none"}]]
  BY <1>0 DEF AbortSchedules, DbTypes, scheduleCleanupSteps, abandonUnfinished, StepStatus
<1>3. ordinal' \in [Runs -> [Rows -> Nat]]
  <2>1. ASSUME NEW x PROVE top + 1 + Cardinality({d \in names : RunsBefore(d, x)}) \in Nat
    <3>1. IsFiniteSet({d \in names : RunsBefore(d, x)})
      BY StepsAssumption, FS_Subset
    <3> QED
      BY <3>1, FS_CardinalityType
  <2>2. ordinal[r] \in [Rows -> Nat]
    BY <1>0 DEF DbTypes
  <2>3. CleanupOrdinals(ordinal[r], seen, names, top) \in [Rows -> Nat]
    BY <2>1, <2>2 DEF CleanupOrdinals
  <2>4. ordinal' = [ordinal EXCEPT ![r] = CleanupOrdinals(ordinal[r], seen, names, top)]
    BY DEF AbortSchedules
  <2> QED
    BY <1>0, <2>3, <2>4 DEF DbTypes
<1>4. held' \in [Runs -> SUBSET Claims]
  BY <1>0, ClaimsAssumption DEF AbortSchedules, acquireLocks, DbTypes
<1>5. secrets' \subseteq Runs
  BY <1>0 DEF AbortSchedules, MemoryTypes
<1>6. todo' \in Seq(Job)
  BY JobTypes DEF AbortSchedules
<1> QED
  BY <1>1, <1>2, <1>3, <1>4, <1>5, <1>6

LEMMA TypeAborting ==
    ASSUME TypeOK, NEW r \in Runs
    PROVE  Abort(r) \/ AbortAsks(r) => TypeOK'
<1>0. DbTypes /\ WorldTypes /\ MemoryTypes /\ ControlTypes
  BY DEF TypeOK
<1> USE <1>0
<1>a. {c \in Cleanups : HasRow(r, c)} \in SUBSET Cleanups /\ armed[r] \in SUBSET Cleanups
  BY DEF DbTypes
<1>b. \A x \in Rows : ordinal[r][x] \in Nat
  BY DEF DbTypes
<1>c. Abort(r) => /\ status' \in [Runs -> RunStatus \cup {"none"}]
                  /\ step' \in [Runs -> [Rows -> StepStatus \cup {"none"}]]
                  /\ ordinal' \in [Runs -> [Rows -> Nat]]
                  /\ held' \in [Runs -> SUBSET Claims]
                  /\ secrets' \subseteq Runs
                  /\ todo' \in Seq(Job)
  BY <1>a, <1>b, AbortTypes DEF Abort
<1>d. AbortAsks(r) => waiting' \subseteq Request
  BY <1>a, <1>b, SuspendTypes DEF AbortAsks
<1>1. CASE Abort(r)
  <2>1. DbTypes'
    BY <1>1, <1>c DEF DbTypes, db, Abort
  <2>2. WorldTypes'
    BY <1>1 DEF WorldTypes, world, Abort
  <2>3. MemoryTypes'
    BY <1>1, <1>c DEF MemoryTypes, memory, Abort
  <2>4. ControlTypes'
    BY <1>1, <1>c DEF ControlTypes, Abort
  <2> QED
    BY <2>1, <2>2, <2>3, <2>4 DEF TypeOK
<1>2. CASE AbortAsks(r)
  <2>1. DbTypes'
    BY <1>2 DEF DbTypes, db, AbortAsks
  <2>2. WorldTypes'
    BY <1>2 DEF WorldTypes, world, AbortAsks
  <2>3. MemoryTypes'
    BY <1>2, <1>d DEF MemoryTypes, memory, AbortAsks
  <2>4. ControlTypes'
    BY <1>2 DEF ControlTypes, AbortAsks
  <2> QED
    BY <2>1, <2>2, <2>3, <2>4 DEF TypeOK
<1> QED
  BY <1>1, <1>2

LEMMA TypeAnswers ==
    ASSUME TypeOK, NEW w \in waiting
    PROVE  Answer(w) => TypeOK'
<1>0. DbTypes /\ WorldTypes /\ MemoryTypes /\ ControlTypes
  BY DEF TypeOK
<1> USE <1>0
<1>a. w \in Request /\ w.run \in Runs /\ w.rows \in SUBSET Cleanups /\ w.names \in SUBSET Cleanups
      /\ w.top \in Nat
  BY DEF MemoryTypes, Request
<1>b. <<Dispatch>> \in Seq(Job)
  BY JobTypes
<1>c. AbortAnswered(w) => /\ status' \in [Runs -> RunStatus \cup {"none"}]
                          /\ step' \in [Runs -> [Rows -> StepStatus \cup {"none"}]]
                          /\ ordinal' \in [Runs -> [Rows -> Nat]]
                          /\ held' \in [Runs -> SUBSET Claims]
                          /\ secrets' \subseteq Runs
                          /\ todo' \in Seq(Job)
  BY <1>a, AbortTypes DEF AbortAnswered
<1>d. acquireLocks(held, w.run) \in [Runs -> SUBSET Claims]
  BY <1>a, ClaimsAssumption DEF DbTypes, acquireLocks
<1>1. CASE ApproveAnswered(w)
  <2>1. DbTypes'
    BY <1>1, <1>a DEF DbTypes, db, ApproveAnswered, JoinQueue, RunStatus
  <2>2. WorldTypes'
    BY <1>1 DEF WorldTypes, world, ApproveAnswered, JoinQueue
  <2>3. MemoryTypes'
    BY <1>1, <1>a DEF MemoryTypes, memory, ApproveAnswered, JoinQueue
  <2>4. ControlTypes'
    BY <1>1, <1>b DEF ControlTypes, ApproveAnswered, JoinQueue
  <2> QED
    BY <2>1, <2>2, <2>3, <2>4 DEF TypeOK
<1>2. CASE RetypeAnswered(w)
  <2>1. DbTypes'
    BY <1>2 DEF DbTypes, db, RetypeAnswered
  <2>2. WorldTypes'
    BY <1>2 DEF WorldTypes, world, RetypeAnswered
  <2>3. MemoryTypes'
    BY <1>2, <1>a DEF MemoryTypes, memory, RetypeAnswered
  <2>4. ControlTypes'
    BY <1>2, <1>b DEF ControlTypes, RetypeAnswered
  <2> QED
    BY <2>1, <2>2, <2>3, <2>4 DEF TypeOK
<1>3. CASE AbortAnswered(w)
  <2>1. DbTypes'
    BY <1>3, <1>c DEF DbTypes, db, AbortAnswered
  <2>2. WorldTypes'
    BY <1>3 DEF WorldTypes, world, AbortAnswered
  <2>3. MemoryTypes'
    BY <1>3, <1>c DEF MemoryTypes, memory, AbortAnswered
  <2>4. ControlTypes'
    BY <1>3, <1>c DEF ControlTypes, AbortAnswered
  <2> QED
    BY <2>1, <2>2, <2>3, <2>4 DEF TypeOK
<1>4. CASE AbortCollides(w)
  <2>1. DbTypes'
    BY <1>4, <1>d DEF DbTypes, db, AbortCollides
  <2>2. WorldTypes'
    BY <1>4 DEF WorldTypes, world, AbortCollides
  <2>3. MemoryTypes'
    BY <1>4 DEF MemoryTypes, memory, AbortCollides
  <2>4. ControlTypes'
    BY <1>4 DEF ControlTypes, AbortCollides
  <2> QED
    BY <2>1, <2>2, <2>3, <2>4 DEF TypeOK
<1>5. CASE RequestRefused(w)
  <2>1. DbTypes'
    BY <1>5 DEF DbTypes, db, RequestRefused
  <2>2. WorldTypes'
    BY <1>5 DEF WorldTypes, world, RequestRefused
  <2>3. MemoryTypes'
    BY <1>5 DEF MemoryTypes, memory, RequestRefused
  <2>4. ControlTypes'
    BY <1>5 DEF ControlTypes, RequestRefused
  <2> QED
    BY <2>1, <2>2, <2>3, <2>4 DEF TypeOK
<1> QED
  BY <1>1, <1>2, <1>3, <1>4, <1>5 DEF Answer

LEMMA TypeProcess ==
    ASSUME TypeOK
    PROVE  \/ Shutdown \/ Exit \/ Crash \/ Boot
           \/ \E r \in Runs : CrashAfterAcquire(r)
           => TypeOK'
<1>0. DbTypes /\ WorldTypes /\ MemoryTypes /\ ControlTypes
  BY DEF TypeOK
<1> USE <1>0
<1>a. /\ \A S \in SUBSET Runs : <<FailAll(S), Resume, Dispatch>> \in Seq(Job)
      /\ <<>> \in Seq(Job)
  BY JobTypes
<1>b. Dies => up' \in BOOLEAN /\ todo' \in Seq(Job) /\ restarts' \in Nat
  <2>1. Dies => up' \in BOOLEAN /\ todo' \in Seq(Job)
    BY <1>a DEF Dies
  <2>2. Dies => restarts' \in Nat
    BY DEF Dies, ControlTypes
  <2> QED
    BY <2>1, <2>2
<1>c. Dies => MemoryTypes'
  <2>1. 0 \in 0..MaxExecs
    BY BoundsAssumption
  <2> QED
    BY <2>1 DEF Dies, MemoryTypes
<1>1. CASE Shutdown
  <2>1. DbTypes'
    BY <1>1 DEF DbTypes, db, Shutdown
  <2>2. WorldTypes'
    BY <1>1 DEF WorldTypes, world, Shutdown
  <2>3. MemoryTypes'
    BY <1>1 DEF MemoryTypes, memory, Shutdown
  <2>4. ControlTypes'
    BY <1>1 DEF ControlTypes, Shutdown
  <2> QED
    BY <2>1, <2>2, <2>3, <2>4 DEF TypeOK
<1>2. CASE Exit
  <2>1. DbTypes'
    BY <1>2 DEF DbTypes, db, Exit
  <2>2. WorldTypes'
    BY <1>2 DEF WorldTypes, world, Exit
  <2>3. MemoryTypes'
    BY <1>2, <1>c DEF MemoryTypes, memory, Exit
  <2>4. ControlTypes'
    BY <1>2, <1>b DEF ControlTypes, Exit
  <2> QED
    BY <2>1, <2>2, <2>3, <2>4 DEF TypeOK
<1>3. CASE Crash
  <2>1. DbTypes'
    BY <1>3 DEF DbTypes, db, Crash
  <2>2. WorldTypes'
    BY <1>3 DEF WorldTypes, world, Crash
  <2>3. MemoryTypes'
    BY <1>3, <1>c DEF MemoryTypes, memory, Crash
  <2>4. ControlTypes'
    BY <1>3, <1>b DEF ControlTypes, Crash
  <2> QED
    BY <2>1, <2>2, <2>3, <2>4 DEF TypeOK
<1>4. CASE \E r \in Runs : CrashAfterAcquire(r)
  <2>1. DbTypes'
    BY <1>4, ClaimsAssumption DEF DbTypes, db, CrashAfterAcquire, acquireLocks
  <2>2. WorldTypes'
    BY <1>4 DEF WorldTypes, world, CrashAfterAcquire
  <2>3. MemoryTypes'
    BY <1>4, <1>c DEF MemoryTypes, memory, CrashAfterAcquire
  <2>4. ControlTypes'
    BY <1>4, <1>b DEF ControlTypes, CrashAfterAcquire
  <2> QED
    BY <2>1, <2>2, <2>3, <2>4 DEF TypeOK
<1>5. CASE Boot
  <2>1. DbTypes'
    BY <1>5 DEF DbTypes, db, Boot, reconcileLocks
  <2>2. WorldTypes'
    BY <1>5 DEF WorldTypes, world, Boot
  <2>3. MemoryTypes'
    BY <1>5 DEF MemoryTypes, memory, Boot
  <2>4. ControlTypes'
    <3>1. todo' \in Seq(Job)
      BY <1>5, <1>a DEF Boot
    <3>2. faults' \in Nat
      BY <1>5 DEF Boot, ControlTypes
    <3> QED
      BY <1>5, <3>1, <3>2 DEF ControlTypes, Boot
  <2> QED
    BY <2>1, <2>2, <2>3, <2>4 DEF TypeOK
<1> QED
  BY <1>1, <1>2, <1>3, <1>4, <1>5

LEMMA TypeStutter ==
    ASSUME TypeOK, UNCHANGED vars
    PROVE  TypeOK'
<1>0. DbTypes /\ WorldTypes /\ MemoryTypes /\ ControlTypes
  BY DEF TypeOK
<1>1. DbTypes'
  BY <1>0 DEF DbTypes, vars, db
<1>2. WorldTypes'
  BY <1>0 DEF WorldTypes, vars, world
<1>3. MemoryTypes'
  BY <1>0 DEF MemoryTypes, vars, memory
<1>4. ControlTypes'
  BY <1>0 DEF ControlTypes, vars
<1> QED
  BY <1>1, <1>2, <1>3, <1>4 DEF TypeOK

\* One step of the specification preserves the types.
LEMMA TypeNext ==
    ASSUME TypeOK, [Next]_vars
    PROVE  TypeOK'
<1>1. CASE Handler
  BY <1>1, TypeHandler, TypeExecute, TypeWalkEnds, TypeSteps DEF Handler
<1>2. CASE \E e \in execs : Step(e) \/ \E c \in Cleanups : StepRegistersCleanup(e, c)
  BY <1>2, TypeSteps
<1>3. CASE \E w \in waiting : Answer(w)
  BY <1>3, TypeAnswers
<1>4. CASE \E r \in Runs : Planner(r) \/ Operator(r) \/ CrashAfterAcquire(r)
  BY <1>4, TypePlanning, TypeApproving, TypeEnding, TypeRecovering, TypeAborting, TypeProcess
     DEF Operator
<1>5. CASE Shutdown \/ Exit \/ Crash \/ Boot
  BY <1>5, TypeProcess
<1>6. CASE UNCHANGED vars
  BY <1>6, TypeStutter
<1> QED
  BY <1>1, <1>2, <1>3, <1>4, <1>5, <1>6 DEF Next

\* Every variable of the executor keeps its type: no handler, answer, crash or boot writes a status
\* the tables do not know, a claim outside the plan's, or work for a run that does not exist.
THEOREM TypeCorrect == Spec => []TypeOK
<1>1. Init => TypeOK
  BY TypeInit
<1>2. TypeOK /\ [Next]_vars => TypeOK'
  BY TypeNext
<1> QED
  BY <1>1, <1>2, PTL DEF Spec

-----------------------------------------------------------------------------
\* Exclusion: the lock table never holds two colliding claims of two runs.

\* Giving locks back keeps the table exclusive.
LEMMA LessStaysExclusive ==
    ASSUME LocksExclusive, \A q \in Runs : held'[q] \subseteq held[q]
    PROVE  LocksExclusive'
BY DEF LocksExclusive, Disjoint

\* So does an acquireLocks that found no conflict, whatever the run held already.
LEMMA AcquireStaysExclusive ==
    ASSUME TypeOK, LocksExclusive, NEW r \in Runs,
           CanAcquire(held, r), held' = acquireLocks(held, r)
    PROVE  LocksExclusive'
<1>1. held \in [Runs -> SUBSET Claims]
  BY DEF TypeOK, DbTypes
<1>2. held'[r] = held[r] \cup ClaimsOf[r] /\ \A q \in Runs : q # r => held'[q] = held[q]
  BY <1>1 DEF acquireLocks
<1>3. Disjoint(HeldBy(held, Runs \ {r}), ClaimsOf[r] \ held[r])
  BY NoConflictMeansDisjoint DEF CanAcquire
<1>4. ASSUME NEW q \in Runs, q # r PROVE Disjoint(held[q], held'[r]) /\ Disjoint(held'[r], held[q])
  <2>1. held[q] \subseteq HeldBy(held, Runs \ {r})
    BY <1>4 DEF HeldBy
  <2>2. Disjoint(held[q], ClaimsOf[r] \ held[r])
    BY <1>3, <2>1 DEF Disjoint
  <2>3. Disjoint(held[q], held[r])
    BY <1>4 DEF LocksExclusive
  <2>4. held'[r] = held[r] \cup (ClaimsOf[r] \ held[r])
    BY <1>2
  <2> QED
    BY <2>2, <2>3, <2>4 DEF Disjoint, Collide
<1> QED
  BY <1>2, <1>4 DEF LocksExclusive

\* Of two runs in the line one is ahead of the other.
LEMMA LineIsTotal ==
    ASSUME TypeOK, NEW q \in Runs, NEW r \in Runs, q # r
    PROVE  Ahead(approvedAt, q, r) \/ Ahead(approvedAt, r, q)
<1>1. q \in Nat /\ r \in Nat
  BY RunsAssumption
<1>2. approvedAt[q] \in Nat /\ approvedAt[r] \in Nat
  BY DEF TypeOK, DbTypes
<1> QED
  BY <1>1, <1>2 DEF Ahead

\* What one walk of the line starts collides with nothing held and with nothing reserved ahead of it.
LEMMA StartableIsFree ==
    ASSUME NEW r \in Startable(held, approvedAt, Reserving)
    PROVE  /\ \A q \in Runs : Disjoint(held[q], ClaimsOf[r])
           /\ \A q \in Reserving : Ahead(approvedAt, q, r) => Disjoint(ClaimsOf[q], ClaimsOf[r])
<1>1. Disjoint(TakenBefore(held, approvedAt, Reserving, r), ClaimsOf[r])
  BY NoConflictMeansDisjoint DEF Startable
<1>2. ASSUME NEW q \in Runs PROVE held[q] \subseteq TakenBefore(held, approvedAt, Reserving, r)
  BY DEF TakenBefore, HeldBy
<1>3. ASSUME NEW q \in Reserving, Ahead(approvedAt, q, r)
      PROVE  ClaimsOf[q] \subseteq TakenBefore(held, approvedAt, Reserving, r)
  BY <1>3 DEF TakenBefore
<1> QED
  BY <1>1, <1>2, <1>3 DEF Disjoint

\* One dispatch starts several runs at once, and still no two of them collide.
LEMMA DispatchStaysExclusive ==
    ASSUME TypeOK, LocksExclusive, DispatchQueue
    PROVE  LocksExclusive'
<1> DEFINE S == Startable(held, approvedAt, Reserving)
<1>1. \A r \in Runs : held'[r] = IF r \in S THEN held[r] \cup ClaimsOf[r] ELSE held[r]
  BY DEF DispatchQueue
<1>2. S \subseteq Reserving
  BY DEF Startable
<1>3. ASSUME NEW q \in Runs, NEW r \in Runs, q # r PROVE Disjoint(held'[q], held'[r])
  <2>1. Disjoint(held[q], held[r])
    BY <1>3 DEF LocksExclusive
  <2>2. r \in S => Disjoint(held[q], ClaimsOf[r])
    BY StartableIsFree
  <2>3. q \in S => Disjoint(ClaimsOf[q], held[r])
    BY StartableIsFree DEF Disjoint, Collide
  <2>4. q \in S /\ r \in S => Disjoint(ClaimsOf[q], ClaimsOf[r])
    <3>1. CASE Ahead(approvedAt, q, r)
      BY <1>2, <3>1, StartableIsFree
    <3>2. CASE Ahead(approvedAt, r, q)
      BY <1>2, <3>2, StartableIsFree DEF Disjoint, Collide
    <3> QED
      BY <1>3, <3>1, <3>2, LineIsTotal
  <2> HIDE DEF S
  <2> QED
    BY <1>1, <2>1, <2>2, <2>3, <2>4 DEF Disjoint
<1> QED
  BY <1>3 DEF LocksExclusive

\* Every other step leaves the lock table alone, gives locks back, or acquires after asking.
LEMMA ExclusiveNext ==
    ASSUME TypeOK, LocksExclusive, [Next]_vars
    PROVE  LocksExclusive'
<1>a. held \in [Runs -> SUBSET Claims]
  BY DEF TypeOK, DbTypes
<1>b. ASSUME held' = held PROVE LocksExclusive'
  BY <1>b, LessStaysExclusive
<1>1. CASE Handler
  <2>1. CASE DispatchQueue
    BY <2>1, DispatchStaysExclusive
  <2>2. CASE ReleaseLocks \/ EraseRun
    <3>1. \A q \in Runs : held'[q] \subseteq held[q]
      BY <1>a, <2>2 DEF ReleaseLocks, EraseRun, releaseLocks
    <3> QED
      BY <3>1, LessStaysExclusive
  <2>3. CASE TellHook \/ DispatchNothing \/ ExecuteNone \/ ExecuteRefused \/ ExecuteFaults
             \/ ExecuteRun \/ FailOrphanedPlanning \/ ResumePending \/ ResumeGivesUp
    BY <1>b, <2>3 DEF TellHook, DispatchNothing, ExecuteNone, ExecuteRefused, ExecuteFaults,
                      ExecuteRun, FailOrphanedPlanning, ResumePending, ResumeGivesUp, db
  <2>4. CASE \E e \in execs : \/ WalkCompletes(e) \/ WalkCancelled(e) \/ WalkPauses(e)
                              \/ WalkFindsNoStep(e) \/ WalkFindsTornStep(e) \/ WalkStartsStep(e)
                              \/ WalkFaults(e)
    BY <1>b, <2>4 DEF WalkCompletes, WalkCancelled, WalkPauses, WalkFindsNoStep, WalkFindsTornStep,
                      WalkStartsStep, WalkFaults, db
  <2> QED
    BY <1>1, <2>1, <2>2, <2>3, <2>4 DEF Handler
<1>2. CASE \E e \in execs : Step(e) \/ \E c \in Cleanups : StepRegistersCleanup(e, c)
  BY <1>b, <1>2 DEF Step, StepOk, StepThrows, StepFaults, StepRegistersCleanup
<1>3. CASE \E w \in waiting : Answer(w)
  <2>1. PICK w \in waiting : Answer(w)
    BY <1>3
  <2>2. w.run \in Runs
    BY DEF TypeOK, MemoryTypes, Request
  <2>3. CASE AbortAnswered(w) \/ AbortCollides(w)
    BY <2>2, <2>3, AcquireStaysExclusive DEF AbortAnswered, AbortCollides, AbortSchedules
  <2>4. CASE ApproveAnswered(w) \/ RetypeAnswered(w) \/ RequestRefused(w)
    BY <1>b, <2>4 DEF ApproveAnswered, RetypeAnswered, RequestRefused, db
  <2> QED
    BY <2>1, <2>3, <2>4 DEF Answer
<1>4. CASE \E r \in Runs : Planner(r) \/ Operator(r) \/ CrashAfterAcquire(r)
  <2>1. PICK r \in Runs : Planner(r) \/ Operator(r) \/ CrashAfterAcquire(r)
    BY <1>4
  <2>2. CASE Planner(r)
    BY <1>b, <2>2 DEF Planner, PlannerPlans, PlannerEndsBadly
  <2>3. CASE (\E x \in Rows : Retry(r, x) \/ Skip(r, x)) \/ Abort(r) \/ CrashAfterAcquire(r)
             \/ RecoveryFaults(r)
    BY <2>3, AcquireStaysExclusive
       DEF Retry, Skip, Abort, AbortSchedules, CrashAfterAcquire, RecoveryFaults
  <2>4. CASE Plan(r) \/ BeginStreamingPlan(r) \/ Approve(r) \/ ApproveAsks(r) \/ RetypeAsks(r)
             \/ Retype(r)
    BY <1>b, <2>4 DEF Plan, BeginStreamingPlan, Approve, ApproveAsks, RetypeAsks, Retype, db
  <2>5. CASE Discard(r) \/ Cancel(r) \/ CancelPaused(r) \/ DeleteRun(r) \/ AbortSettles(r)
             \/ AbortAsks(r)
    BY <1>b, <2>5 DEF Discard, Cancel, CancelPaused, DeleteRun, AbortSettles, AbortAsks, db
  <2> QED
    BY <2>1, <2>2, <2>3, <2>4, <2>5 DEF Operator
<1>5. CASE Shutdown \/ Exit \/ Crash
  BY <1>b, <1>5 DEF Shutdown, Exit, Crash, db
<1>6. CASE Boot
  <2>1. \A q \in Runs : held'[q] \subseteq held[q]
    BY <1>6 DEF Boot, reconcileLocks
  <2> QED
    BY <2>1, LessStaysExclusive
<1>7. CASE UNCHANGED vars
  BY <1>b, <1>7 DEF vars, db
<1> QED
  BY <1>1, <1>2, <1>3, <1>4, <1>5, <1>6, <1>7 DEF Next

\* No two runs ever hold colliding claims, for any number of runs and claims and any interleaving,
\* crash or boot: the exclusion acquireLocks, walkQueue and reconcileLocks are there for.
THEOREM Exclusion == Spec => []LocksExclusive
<1>1. Init => LocksExclusive
  BY DEF Init, LocksExclusive, Disjoint
<1>2. TypeOK /\ LocksExclusive /\ [Next]_vars => LocksExclusive'
  BY ExclusiveNext
<1> QED
  BY <1>1, <1>2, TypeCorrect, PTL DEF Spec

-----------------------------------------------------------------------------
\* Order: the line is served in the order of approval where claims collide.

\* One step keeps the order: only a dispatch starts a queued run, and it asks the line ahead.
LEMMA OvertakingNext ==
    ASSUME TypeOK, [Next]_vars, NEW q \in Runs, NEW r \in Runs,
           status[r] = "queued", status'[r] = "approved",
           q \in Reserving, q # r, Ahead(approvedAt, q, r)
    PROVE  Disjoint(ClaimsOf[q], ClaimsOf[r])
<1>a. status \in [Runs -> RunStatus \cup {"none"}]
  BY DEF TypeOK, DbTypes
<1>1. CASE Handler
  <2>1. CASE DispatchQueue
    <3>1. r \in Startable(held, approvedAt, Reserving)
      BY <2>1 DEF DispatchQueue
    <3> QED
      BY <3>1, StartableIsFree
  <2>2. CASE TellHook \/ ReleaseLocks \/ EraseRun \/ DispatchNothing \/ ExecuteNone \/ ResumePending
             \/ ResumeGivesUp
    BY <2>2 DEF TellHook, ReleaseLocks, EraseRun, DispatchNothing, ExecuteNone, ResumePending,
                ResumeGivesUp, db
  <2>3. CASE ExecuteRefused \/ ExecuteFaults \/ ExecuteRun \/ FailOrphanedPlanning
    BY <1>a, <2>3 DEF ExecuteRefused, ExecuteFaults, ExecuteRun, FailOrphanedPlanning, FailRun,
                      FaultFails, RecordsFailure, CannotRecord
  <2>4. CASE \E e \in execs : \/ WalkCompletes(e) \/ WalkCancelled(e)
                              \/ WalkFindsNoStep(e) \/ WalkFindsTornStep(e) \/ WalkFaults(e)
    BY <1>a, <2>4 DEF WalkCompletes, WalkCancelled, WalkFindsNoStep, WalkFindsTornStep, WalkFaults,
                      Ends, FailRun, FaultFails, RecordsFailure, CannotRecord
  <2>5. CASE \E e \in execs : WalkPauses(e) \/ WalkStartsStep(e)
    BY <2>5 DEF WalkPauses, WalkStartsStep, db
  <2> QED
    BY <1>1, <2>1, <2>2, <2>3, <2>4, <2>5 DEF Handler
<1>2. CASE \E e \in execs : Step(e) \/ \E c \in Cleanups : StepRegistersCleanup(e, c)
  BY <1>a, <1>2 DEF Step, StepOk, StepThrows, StepFaults, StepRegistersCleanup, Ends, FaultFails,
                    RecordsFailure, CannotRecord
<1>3. CASE \E w \in waiting : Answer(w)
  BY <1>a, <1>3 DEF Answer, ApproveAnswered, JoinQueue, RetypeAnswered, AbortAnswered, AbortSchedules,
                    AbortCollides, RequestRefused, db
<1>4. CASE \E p \in Runs : Planner(p) \/ Operator(p) \/ CrashAfterAcquire(p)
  <2>1. PICK p \in Runs : Planner(p) \/ Operator(p) \/ CrashAfterAcquire(p)
    BY <1>4
  <2>2. CASE Planner(p) \/ CrashAfterAcquire(p) \/ RecoveryFaults(p)
    BY <1>a, <2>2 DEF Planner, PlannerPlans, PlannerEndsBadly, CrashAfterAcquire, RecoveryFaults
  <2>3. CASE (\E x \in Rows : Retry(p, x) \/ Skip(p, x)) \/ Abort(p) \/ AbortSettles(p)
    BY <1>a, <2>3 DEF Retry, Skip, Abort, AbortSchedules, AbortSettles
  <2>4. CASE Plan(p) \/ BeginStreamingPlan(p) \/ Approve(p) \/ Discard(p) \/ CancelPaused(p)
    BY <1>a, <2>4 DEF Plan, BeginStreamingPlan, Approve, JoinQueue, Discard, CancelPaused
  <2>5. CASE ApproveAsks(p) \/ RetypeAsks(p) \/ Retype(p) \/ Cancel(p) \/ DeleteRun(p) \/ AbortAsks(p)
    BY <2>5 DEF ApproveAsks, RetypeAsks, Retype, Cancel, DeleteRun, AbortAsks, db
  <2> QED
    BY <2>1, <2>2, <2>3, <2>4, <2>5 DEF Operator
<1>5. CASE Shutdown \/ Exit \/ Crash \/ Boot
  BY <1>5 DEF Shutdown, Exit, Crash, Boot, db
<1>6. CASE UNCHANGED vars
  BY <1>6 DEF vars, db
<1> QED
  BY <1>1, <1>2, <1>3, <1>4, <1>5, <1>6 DEF Next

\* No queued run starts past one ahead of it in line that waits for a colliding claim, for any number
\* of runs and any order of approvals, ties included (walkQueue).
THEOREM LineOrder == Spec => NoOvertaking
<1>1. TypeOK /\ [Next]_vars =>
        [\A q, r \in Runs :
            /\ status[r] = "queued" /\ status'[r] = "approved"
            /\ q \in Reserving /\ q # r /\ Ahead(approvedAt, q, r)
            => Disjoint(ClaimsOf[q], ClaimsOf[r])]_vars
  BY OvertakingNext
<1> QED
  BY <1>1, TypeCorrect, PTL DEF Spec, NoOvertaking

-----------------------------------------------------------------------------
\* No wake-up is lost (NoStartableRunLeftQueued): the inductive invariant.

\* What the running handler still has to do, as a set.
Jobs(q) == {q[i] : i \in 1..Len(q)}

\* The run is past its plan and its place in line, for good: only a streaming planner that is still at
\* work or the approval of a planned run makes a run planned or queued.
Began(r) ==
    /\ planner[r] = "idle"
    /\ status[r] \in {"approved", "running", "succeeded", "failed", "cancelled"}

\* While a validation is at work its run reads planning, or cancelled by a discard.
PlannersAtWork == \A r \in Runs : planner[r] # "idle" => status[r] \in {"planning", "cancelled"}

\* Whatever works for a run that is past its plan.
OnlyForBegun ==
    /\ \A e \in execs : Began(e.run)
    /\ \A w \in waiting : w.op = "abort" => Began(w.run)
    /\ \A r \in Runs : armed[r] # {} \/ r \in started => Began(r)
    /\ \A j \in Jobs(todo) : j.op \in {"execute", "walk"} => \A r \in j.runs : Began(r)

\* A boot finds no planner at work, and a process that is gone has no memory.
BootIsFresh ==
    /\ \A j \in Jobs(todo) : j.op \in {"failAll", "resume"} => \A r \in Runs : planner[r] = "idle"
    /\ ~up => todo = <<>> /\ execs = {} /\ waiting = {} /\ \A r \in Runs : planner[r] = "idle"

LifeInv == PlannersAtWork /\ OnlyForBegun /\ BootIsFresh

\* A handler that is about to let claims go dispatches afterwards.
Covered(q) ==
    \A i \in 1..Len(q) : q[i].op \in {"release", "erase"} => \E j \in i + 1..Len(q) : q[j].op = "dispatch"

\* Where a run could start, the running handler is about to dispatch.
Woken ==
    up /\ ~stopping /\ faults = 0 /\ Startable(held, approvedAt, Reserving) # {}
        => \E j \in Jobs(todo) : j.op = "dispatch"

QueueInv == TypeOK /\ LifeInv /\ Covered(todo) /\ Woken

-----------------------------------------------------------------------------
\* Lemmas about the work list.

LEMMA JobsEmpty == Jobs(<<>>) = {}
BY DEF Jobs

LEMMA JobsTyped ==
    ASSUME NEW q \in Seq(Job)
    PROVE  \A j \in Jobs(q) : j \in Job /\ j.runs \subseteq Runs
<1>1. \A i \in 1..Len(q) : q[i] \in Job
  BY ElementOfSeq
<1>2. \A j \in Job : j.runs \subseteq Runs
  BY DEF Job
<1> QED
  BY <1>1, <1>2 DEF Jobs

LEMMA JobsPushed ==
    ASSUME NEW a, NEW q \in Seq(Job)
    PROVE  Jobs(<<a>> \o q) = {a} \cup Jobs(q)
<1> DEFINE p == <<a>> \o q
<1>1. Len(p) = Len(q) + 1 /\ p[1] = a /\ \A i \in 1..Len(q) : p[i + 1] = q[i]
  OBVIOUS
<1>2. \A i \in 1..Len(p) : i = 1 \/ (i - 1 \in 1..Len(q) /\ p[i] = q[i - 1])
  BY <1>1
<1>3. \A i \in 1..Len(q) : i + 1 \in 1..Len(p)
  BY <1>1
<1> HIDE DEF p
<1>4. Jobs(p) = {a} \cup Jobs(q)
  BY <1>1, <1>2, <1>3 DEF Jobs
<1> QED
  BY <1>4 DEF p

\* The work lists handlers begin with.
LEMMA JobsListed ==
    /\ \A a : Jobs(<<a>>) = {a}
    /\ \A a, b : Jobs(<<a, b>>) = {a, b}
    /\ \A a, b, c : Jobs(<<a, b, c>>) = {a, b, c}
BY DEF Jobs

LEMMA JobsTail ==
    ASSUME NEW q \in Seq(Job), q # <<>>
    PROVE  Jobs(q) = {Head(q)} \cup Jobs(Tail(q))
<1>1. q = <<Head(q)>> \o Tail(q) /\ Tail(q) \in Seq(Job)
  OBVIOUS
<1> QED
  BY <1>1, JobsPushed

LEMMA JobsConcat ==
    ASSUME NEW p \in Seq(Job), NEW q \in Seq(Job)
    PROVE  Jobs(p \o q) = Jobs(p) \cup Jobs(q)
<1> DEFINE s == p \o q
<1>1. /\ Len(s) = Len(p) + Len(q) /\ Len(p) \in Nat /\ Len(q) \in Nat
      /\ \A i \in 1..Len(p) : s[i] = p[i]
      /\ \A i \in 1..Len(q) : s[Len(p) + i] = q[i]
  BY ConcatProperties
<1>2. \A i \in 1..Len(s) : i \in 1..Len(p) \/ (i - Len(p) \in 1..Len(q) /\ s[i] = q[i - Len(p)])
  <2> SUFFICES ASSUME NEW i \in 1..Len(s), i \notin 1..Len(p)
               PROVE  i - Len(p) \in 1..Len(q) /\ s[i] = q[i - Len(p)]
    OBVIOUS
  <2>1. i - Len(p) \in 1..Len(q) /\ Len(p) + (i - Len(p)) = i
    BY <1>1
  <2> QED
    BY <1>1, <2>1
<1>3. \A i \in 1..Len(q) : Len(p) + i \in 1..Len(s)
  BY <1>1
<1>4. \A i \in 1..Len(p) : i \in 1..Len(s)
  BY <1>1
<1> HIDE DEF s
<1>5. Jobs(s) \subseteq Jobs(p) \cup Jobs(q)
  BY <1>1, <1>2 DEF Jobs
<1>6. Jobs(p) \subseteq Jobs(s)
  BY <1>1, <1>4 DEF Jobs
<1>7. Jobs(q) \subseteq Jobs(s)
  BY <1>1, <1>3 DEF Jobs
<1> QED
  BY <1>5, <1>6, <1>7 DEF s

LEMMA JobsJoined ==
    ASSUME NEW a \in Job, NEW b \in Job
    PROVE  Jobs(<<a>> \o <<b>>) = {a, b} /\ Jobs(<<a>> \o <<>>) = {a}
<1>1. <<a>> \in Seq(Job) /\ <<b>> \in Seq(Job)
  OBVIOUS
<1>2. <<a>> \o <<>> = <<a>>
  BY <1>1, ConcatEmptySeq
<1>3. Jobs(<<a>> \o <<b>>) = Jobs(<<a>>) \cup Jobs(<<b>>)
  BY <1>1, JobsConcat
<1>4. Jobs(<<a>>) = {a} /\ Jobs(<<b>>) = {b}
  BY JobsListed
<1> QED
  BY <1>2, <1>3, <1>4

\* The work lists a run's end leaves.
LEMMA EndJobs ==
    ASSUME NEW r \in Runs, NEW outcome \in Outcome, NEW rest \in Seq(Job)
    PROVE  /\ Jobs(<<Hook(r, outcome)>> \o <<Release(r)>> \o <<Dispatch>> \o rest)
                  = {Hook(r, outcome), Release(r), Dispatch} \cup Jobs(rest)
           /\ Jobs(<<Hook(r, outcome)>> \o <<>> \o <<Dispatch>> \o rest)
                  = {Hook(r, outcome), Dispatch} \cup Jobs(rest)
           /\ Jobs(<<Hook(r, outcome), Dispatch>> \o rest) = {Hook(r, outcome), Dispatch} \cup Jobs(rest)
           /\ Jobs(<<Dispatch>> \o rest) = {Dispatch} \cup Jobs(rest)
<1>1. /\ Hook(r, outcome) \in Job /\ Dispatch \in Job /\ Release(r) \in Job
  BY JobTypes
<1> DEFINE h == Hook(r, outcome)
           l == Release(r)
           d == Dispatch
<1> HIDE DEF h, l, d
<1>2. /\ <<h>> \in Seq(Job) /\ <<l>> \in Seq(Job) /\ <<d>> \in Seq(Job) /\ <<h, d>> \in Seq(Job)
      /\ <<h>> \o <<l>> \in Seq(Job) /\ <<h>> \o <<>> = <<h>> /\ <<h>> \o <<d>> \in Seq(Job)
      /\ <<h>> \o <<l>> \o <<d>> \in Seq(Job)
  BY <1>1, PushTypes, ConcatEmptySeq DEF h, l, d
<1>3. Jobs(<<h>>) = {h} /\ Jobs(<<l>>) = {l} /\ Jobs(<<d>>) = {d} /\ Jobs(<<h, d>>) = {h, d}
  BY JobsListed
<1>4. /\ Jobs(<<h>> \o <<l>>) = Jobs(<<h>>) \cup Jobs(<<l>>)
      /\ Jobs(<<h>> \o <<d>>) = Jobs(<<h>>) \cup Jobs(<<d>>)
  BY <1>2, JobsConcat
<1>5. /\ Jobs(<<h>> \o <<l>> \o <<d>>) = Jobs(<<h>> \o <<l>>) \cup Jobs(<<d>>)
  BY <1>2, JobsConcat
<1>6. /\ Jobs(<<h>> \o <<l>> \o <<d>> \o rest) = Jobs(<<h>> \o <<l>> \o <<d>>) \cup Jobs(rest)
      /\ Jobs(<<h>> \o <<d>> \o rest) = Jobs(<<h>> \o <<d>>) \cup Jobs(rest)
      /\ Jobs(<<h, d>> \o rest) = Jobs(<<h, d>>) \cup Jobs(rest)
      /\ Jobs(<<d>> \o rest) = Jobs(<<d>>) \cup Jobs(rest)
  BY <1>2, JobsConcat
<1>7. /\ Jobs(<<h>> \o <<l>> \o <<d>> \o rest) = {h, l, d} \cup Jobs(rest)
      /\ Jobs(<<h>> \o <<>> \o <<d>> \o rest) = {h, d} \cup Jobs(rest)
      /\ Jobs(<<h, d>> \o rest) = {h, d} \cup Jobs(rest)
      /\ Jobs(<<d>> \o rest) = {d} \cup Jobs(rest)
  BY <1>2, <1>3, <1>4, <1>5, <1>6
<1> QED
  BY <1>7 DEF h, l, d

\* What is left of the work list once one run of its head is taken off.
LEMMA RestJobs ==
    ASSUME TypeOK, todo # <<>>, NEW r \in Head(todo).runs
    PROVE  /\ r \in Runs /\ RestOf(r) \in Seq(Job)
           /\ Head(todo) \in Jobs(todo)
           /\ Jobs(Tail(todo)) \subseteq Jobs(RestOf(r))
           /\ \A j \in Jobs(RestOf(r)) :
                  \/ j \in Jobs(Tail(todo))
                  \/ j.op = Head(todo).op /\ j.runs = Head(todo).runs \ {r}
           /\ Jobs(Tail(todo)) \subseteq Jobs(todo)
<1> DEFINE h == [Head(todo) EXCEPT !.runs = @ \ {r}]
<1>1. todo \in Seq(Job) /\ Head(todo) \in Job /\ Tail(todo) \in Seq(Job) /\ r \in Runs /\ RestOf(r) \in Seq(Job)
  BY RestTypes DEF TypeOK, ControlTypes
<1>2. h.op = Head(todo).op /\ h.runs = Head(todo).runs \ {r}
  BY <1>1 DEF Job
<1>3. Jobs(todo) = {Head(todo)} \cup Jobs(Tail(todo))
  BY <1>1, JobsTail
<1>4. Jobs(<<h>> \o Tail(todo)) = {h} \cup Jobs(Tail(todo))
  BY <1>1, JobsPushed
<1>5. RestOf(r) = Tail(todo) \/ RestOf(r) = <<h>> \o Tail(todo)
  BY <1>1 DEF RestOf
<1> HIDE DEF h
<1> QED
  BY <1>1, <1>2, <1>3, <1>4, <1>5

LEMMA CoveredTail ==
    ASSUME NEW q \in Seq(Job), q # <<>>, Covered(q)
    PROVE  Covered(Tail(q))
<1>1. Len(Tail(q)) = Len(q) - 1 /\ \A i \in 1..Len(Tail(q)) : Tail(q)[i] = q[i + 1]
  OBVIOUS
<1>2. SUFFICES ASSUME NEW i \in 1..Len(Tail(q)), Tail(q)[i].op \in {"release", "erase"}
               PROVE  \E j \in i + 1..Len(Tail(q)) : Tail(q)[j].op = "dispatch"
  BY DEF Covered
<1>3. PICK k \in i + 2..Len(q) : q[k].op = "dispatch"
  BY <1>1, <1>2 DEF Covered
<1>4. k - 1 \in i + 1..Len(Tail(q)) /\ Tail(q)[k - 1] = q[k]
  BY <1>1, <1>3
<1> QED
  BY <1>3, <1>4

LEMMA CoveredPushed ==
    ASSUME NEW a, NEW q \in Seq(Job), Covered(q),
           a.op \in {"release", "erase"} => \E j \in Jobs(q) : j.op = "dispatch"
    PROVE  Covered(<<a>> \o q)
<1> DEFINE p == <<a>> \o q
<1>1. Len(p) = Len(q) + 1 /\ p[1] = a /\ \A i \in 1..Len(q) : p[i + 1] = q[i]
  OBVIOUS
<1> HIDE DEF p
<1>2. SUFFICES ASSUME NEW i \in 1..Len(p), p[i].op \in {"release", "erase"}
               PROVE  \E j \in i + 1..Len(p) : p[j].op = "dispatch"
  BY DEF Covered, p
<1>3. CASE i = 1
  <2>1. PICK k \in 1..Len(q) : q[k].op = "dispatch"
    BY <1>1, <1>2, <1>3 DEF Jobs
  <2> QED
    BY <1>1, <1>3, <2>1
<1>4. CASE i # 1
  <2>1. i - 1 \in 1..Len(q) /\ q[i - 1].op \in {"release", "erase"}
    BY <1>1, <1>2, <1>4
  <2>2. PICK k \in i..Len(q) : q[k].op = "dispatch"
    BY <2>1 DEF Covered
  <2>3. k \in 1..Len(q) /\ k + 1 \in i + 1..Len(p) /\ p[k + 1] = q[k]
    BY <1>1, <2>2
  <2> QED
    BY <2>2, <2>3
<1> QED
  BY <1>3, <1>4

-----------------------------------------------------------------------------
\* Lemmas about the line.

\* A conflict is a collision, and the other way round.
LEMMA ConflictsAreCollisions ==
    ASSUME NEW taken, NEW claims
    PROVE  lockConflicts(taken, claims) = {} <=> Disjoint(taken, claims)
BY DEF lockConflicts, Disjoint, Collide, isGlobalClaim

LEMMA LessTaken ==
    ASSUME NEW S, NEW T, NEW C, S \subseteq T, lockConflicts(T, C) = {}
    PROVE  lockConflicts(S, C) = {}
<1>1. Disjoint(T, C)
  BY ConflictsAreCollisions
<1>2. Disjoint(S, C)
  BY <1>1 DEF Disjoint
<1> QED
  BY <1>2, ConflictsAreCollisions

\* What cannot start cannot start when more is taken.
LEMMA MoreTakenStartsLess ==
    ASSUME NEW h, NEW h2, NEW at, NEW R, \A r \in Runs : h[r] \subseteq h2[r]
    PROVE  Startable(h2, at, R) \subseteq Startable(h, at, R)
<1>1. ASSUME NEW r \in R
      PROVE  TakenBefore(h, at, R, r) \subseteq TakenBefore(h2, at, R, r)
  BY DEF TakenBefore, HeldBy
<1> QED
  BY <1>1, LessTaken DEF Startable

\* One walk leaves nothing startable behind: what waited waits for what was started or still waits.
LEMMA WalkIsExhaustive ==
    ASSUME NEW h, NEW at, NEW R \in SUBSET Runs, NEW h2,
           \A r \in Runs : h2[r] = IF r \in Startable(h, at, R) THEN h[r] \cup ClaimsOf[r] ELSE h[r]
    PROVE  Startable(h2, at, R \ Startable(h, at, R)) = {}
<1> DEFINE S == Startable(h, at, R)
<1>0. S \subseteq R
  BY DEF Startable
<1>1. SUFFICES ASSUME NEW r \in R \ S,
                      lockConflicts(TakenBefore(h2, at, R \ S, r), ClaimsOf[r]) = {}
               PROVE  FALSE
  BY DEF Startable
<1>2. TakenBefore(h, at, R, r) \subseteq TakenBefore(h2, at, R \ S, r)
  <2> SUFFICES ASSUME NEW c \in TakenBefore(h, at, R, r) PROVE c \in TakenBefore(h2, at, R \ S, r)
    OBVIOUS
  <2>1. CASE c \in HeldBy(h, Runs)
    BY <2>1 DEF TakenBefore, HeldBy
  <2>2. CASE \E q \in R : Ahead(at, q, r) /\ c \in ClaimsOf[q]
    <3>1. PICK q \in R : Ahead(at, q, r) /\ c \in ClaimsOf[q]
      BY <2>2
    <3>2. CASE q \in S
      <4>1. c \in h2[q] /\ q \in Runs
        BY <3>1, <3>2
      <4> QED
        BY <4>1 DEF TakenBefore, HeldBy
    <3>3. CASE q \notin S
      BY <3>1, <3>3 DEF TakenBefore
    <3> QED
      BY <3>2, <3>3
  <2> QED
    BY <2>1, <2>2 DEF TakenBefore
<1>3. lockConflicts(TakenBefore(h, at, R, r), ClaimsOf[r]) = {}
  BY <1>1, <1>2, LessTaken
<1> QED
  BY <1>1, <1>3 DEF Startable

-----------------------------------------------------------------------------
\* Every step keeps LifeInv.

LEMMA LifeInit == Init => LifeInv
BY JobsEmpty DEF Init, LifeInv, PlannersAtWork, OnlyForBegun, BootIsFresh

\* The work list holds nothing that begins work for a run before its time.
Timely(q) ==
    /\ \A j \in Jobs(q) : j.op \in {"execute", "walk"} => \A r \in j.runs : Began(r)
    /\ \A j \in Jobs(q) : j.op \in {"failAll", "resume"} => \A r \in Runs : planner[r] = "idle"

\* What a step of a run that is past its plan leaves alone.
LEMMA LifeKept ==
    ASSUME TypeOK, LifeInv, up, up', planner' = planner, waiting' \subseteq waiting,
           \A r \in Runs : status'[r] # status[r] =>
               Began(r) /\ status'[r] \in {"approved", "running", "succeeded", "failed", "cancelled"},
           \A e \in execs' : e.run \in Runs /\ Began(e.run),
           \A r \in Runs : armed'[r] # {} \/ r \in started' => Began(r),
           Timely(todo'), todo' \in Seq(Job)
    PROVE  LifeInv'
<1>1. \A r \in Runs : Began(r) => Began(r)'
  BY DEF Began
<1>2. PlannersAtWork'
  BY DEF LifeInv, PlannersAtWork, Began
<1>3. \A j \in Jobs(todo') : j.runs \subseteq Runs
  BY JobsTyped
<1>4. \A w \in waiting : w.run \in Runs
  BY DEF TypeOK, MemoryTypes, Request
<1>a. \A e \in execs' : Began(e.run)'
  BY <1>1
<1>b. \A w \in waiting' : w.op = "abort" => Began(w.run)'
  BY <1>1, <1>4 DEF LifeInv, OnlyForBegun
<1>c. \A r \in Runs : armed'[r] # {} \/ r \in started' => Began(r)'
  BY <1>1
<1>d. \A j \in Jobs(todo') : j.op \in {"execute", "walk"} => \A r \in j.runs : Began(r)'
  BY <1>1, <1>3 DEF Timely
<1>5. OnlyForBegun'
  BY <1>a, <1>b, <1>c, <1>d DEF OnlyForBegun
<1>6. BootIsFresh'
  BY DEF Timely, BootIsFresh
<1> QED
  BY <1>2, <1>5, <1>6 DEF LifeInv

\* The state that goes with LifeInv, for a step that changes none of it but the work list.
LEMMA LifeSame ==
    ASSUME TypeOK, LifeInv, up, up' = up, UNCHANGED <<status, planner, execs, armed, started>>,
           waiting' \subseteq waiting, Timely(todo'), todo' \in Seq(Job)
    PROVE  LifeInv'
<1>1. \A e \in execs' : e.run \in Runs /\ Began(e.run)
  BY DEF TypeOK, MemoryTypes, Exec, LifeInv, OnlyForBegun
<1>2. \A r \in Runs : armed'[r] # {} \/ r \in started' => Began(r)
  BY DEF LifeInv, OnlyForBegun
<1> QED
  BY <1>1, <1>2, LifeKept

LEMMA TimelyTodo == LifeInv => Timely(todo)
BY DEF LifeInv, OnlyForBegun, BootIsFresh, Timely

LEMMA TimelyTail ==
    ASSUME TypeOK, LifeInv, todo # <<>>
    PROVE  Tail(todo) \in Seq(Job) /\ Timely(Tail(todo)) /\ Head(todo) \in Job /\ Head(todo) \in Jobs(todo)
<1>1. todo \in Seq(Job) /\ Tail(todo) \in Seq(Job) /\ Head(todo) \in Job
  BY DEF TypeOK, ControlTypes
<1>2. Jobs(todo) = {Head(todo)} \cup Jobs(Tail(todo))
  BY <1>1, JobsTail
<1> QED
  BY <1>1, <1>2, TimelyTodo DEF Timely

LEMMA TimelyRest ==
    ASSUME TypeOK, LifeInv, todo # <<>>, NEW r \in Head(todo).runs
    PROVE  RestOf(r) \in Seq(Job) /\ Timely(RestOf(r))
<1>1. Timely(todo) /\ Timely(Tail(todo))
  BY TimelyTodo, TimelyTail
<1>2. ASSUME NEW j \in Jobs(RestOf(r)), j \notin Jobs(Tail(todo))
      PROVE  j.op = Head(todo).op /\ j.runs \subseteq Head(todo).runs /\ Head(todo) \in Jobs(todo)
  BY <1>2, RestJobs
<1> QED
  BY <1>1, <1>2, RestJobs DEF Timely

\* Short work lists.
LEMMA TimelyEmpty == <<>> \in Seq(Job) /\ Timely(<<>>)
BY JobsEmpty DEF Timely

LEMMA TimelyPushed ==
    ASSUME NEW a \in Job, NEW q \in Seq(Job), Timely(q), a.op \notin {"execute", "walk", "failAll", "resume"}
    PROVE  <<a>> \o q \in Seq(Job) /\ Timely(<<a>> \o q)
BY JobsPushed DEF Timely

LEMMA TimelyEnd ==
    ASSUME NEW r \in Runs, NEW outcome \in Outcome, NEW rest \in Seq(Job), Timely(rest)
    PROVE  /\ Timely(<<Hook(r, outcome)>> \o <<Release(r)>> \o <<Dispatch>> \o rest)
           /\ Timely(<<Hook(r, outcome)>> \o <<>> \o <<Dispatch>> \o rest)
           /\ Timely(<<Hook(r, outcome), Dispatch>> \o rest)
           /\ Timely(<<Dispatch>> \o rest)
<1>1. Hook(r, outcome).op = "hook" /\ Dispatch.op = "dispatch" /\ Release(r).op = "release"
  BY DEF Hook, Dispatch, Release
<1>2. ASSUME NEW q, \A j \in Jobs(q) : j \in Jobs(rest) \/ j.op \in {"hook", "dispatch", "release"}
      PROVE  Timely(q)
  BY <1>2 DEF Timely
<1>3. \A j \in {Hook(r, outcome), Release(r), Dispatch} : j.op \in {"hook", "dispatch", "release"}
  BY <1>1
<1> QED
  BY <1>2, <1>3, EndJobs

LEMMA TimelyListed ==
    ASSUME NEW r \in Runs, NEW outcome \in Outcome
    PROVE  /\ Timely(<<Dispatch>>) /\ Timely(<<Hook(r, outcome)>>)
           /\ Timely(<<Release(r), Dispatch>>) /\ Timely(<<Erase(r), Dispatch>>)
           /\ Timely(<<Hook(r, outcome)>> \o <<Dispatch>>) /\ Timely(<<Hook(r, outcome)>> \o <<>>)
           /\ Timely(<<Hook(r, outcome)>> \o <<Erase(r), Dispatch>>) /\ Timely(<<>> \o <<Erase(r), Dispatch>>)
<1>1. Hook(r, outcome).op = "hook" /\ Dispatch.op = "dispatch" /\ Release(r).op = "release" /\ Erase(r).op = "erase"
  BY DEF Hook, Dispatch, Release, Erase
<1>2. Hook(r, outcome) \in Job /\ Dispatch \in Job /\ Release(r) \in Job /\ Erase(r) \in Job
  BY JobTypes
<1>3. \A a, b : a.op \notin {"execute", "walk", "failAll", "resume"} /\ b.op \notin {"execute", "walk", "failAll", "resume"}
          => Timely(<<a>>) /\ Timely(<<a, b>>)
  BY JobsListed DEF Timely
<1>4. Timely(<<Dispatch>>) /\ Timely(<<Hook(r, outcome)>>)
           /\ Timely(<<Release(r), Dispatch>>) /\ Timely(<<Erase(r), Dispatch>>)
  BY <1>1, <1>3
<1>5. <<Dispatch>> \in Seq(Job) /\ <<Erase(r), Dispatch>> \in Seq(Job)
  BY <1>2
<1>6. <<>> \o <<Erase(r), Dispatch>> = <<Erase(r), Dispatch>>
  BY <1>5, ConcatEmptySeq
<1> QED
  BY <1>1, <1>2, <1>4, <1>5, <1>6, TimelyPushed, TimelyEmpty

LEMMA LifePlanning ==
    ASSUME TypeOK, LifeInv, NEW r \in Runs
    PROVE  Plan(r) \/ BeginStreamingPlan(r) \/ PlannerPlans(r) \/ PlannerEndsBadly(r) => LifeInv'
<1> USE DEF LifeInv, PlannersAtWork, OnlyForBegun, BootIsFresh, Began
<1>1. CASE Plan(r)
  BY <1>1 DEF TypeOK, DbTypes, MemoryTypes, ControlTypes, Plan, Serving, memory
<1>2. CASE BeginStreamingPlan(r)
  BY <1>2, JobsEmpty DEF TypeOK, DbTypes, MemoryTypes, ControlTypes, BeginStreamingPlan, Serving
<1>3. CASE PlannerPlans(r)
  BY <1>3 DEF TypeOK, DbTypes, MemoryTypes, ControlTypes, PlannerPlans, Serving
<1>4. CASE PlannerEndsBadly(r)
  <2>1. PICK outcome \in RunStatus \cup {"none"} :
            outcome \in {status[r], "failed", "cancelled"} /\ status' = [status EXCEPT ![r] = outcome]
    BY <1>4 DEF PlannerEndsBadly, TypeOK, DbTypes, RunStatus
  <2>2. PlannersAtWork' /\ BootIsFresh'
    BY <1>4, <2>1, JobsEmpty DEF TypeOK, DbTypes, MemoryTypes, PlannerEndsBadly, Serving
  <2>3. \A q \in Runs : Began(q) => Began(q)'
    BY <1>4, <2>1 DEF TypeOK, DbTypes, MemoryTypes, PlannerEndsBadly
  <2>4. OnlyForBegun'
    BY <1>4, <2>3, JobsEmpty DEF TypeOK, DbTypes, MemoryTypes, Exec, Request, PlannerEndsBadly, Serving
  <2> QED
    BY <2>2, <2>4
<1> QED
  BY <1>1, <1>2, <1>3, <1>4

LEMMA LifeApproving ==
    ASSUME TypeOK, LifeInv, NEW r \in Runs
    PROVE  Approve(r) \/ ApproveAsks(r) \/ RetypeAsks(r) \/ Retype(r) => LifeInv'
<1> USE DEF LifeInv, PlannersAtWork, OnlyForBegun, BootIsFresh, Began
<1>1. CASE Approve(r)
  BY <1>1, JobsListed DEF TypeOK, DbTypes, MemoryTypes, ControlTypes, Approve, JoinQueue, Serving, Dispatch
<1>2. CASE ApproveAsks(r)
  BY <1>2 DEF TypeOK, DbTypes, MemoryTypes, ControlTypes, ApproveAsks, Suspend, Serving, db
<1>3. CASE RetypeAsks(r)
  BY <1>3 DEF TypeOK, DbTypes, MemoryTypes, ControlTypes, RetypeAsks, Suspend, Serving, db
<1>4. CASE Retype(r)
  BY <1>4, JobsListed DEF TypeOK, DbTypes, MemoryTypes, ControlTypes, Retype, Serving, Dispatch, db
<1> QED
  BY <1>1, <1>2, <1>3, <1>4

LEMMA LifeEnding ==
    ASSUME TypeOK, TypeOK', LifeInv, NEW r \in Runs
    PROVE  Discard(r) \/ Cancel(r) \/ CancelPaused(r) \/ DeleteRun(r) => LifeInv'
<1>t. todo' \in Seq(Job)
  BY DEF TypeOK, ControlTypes
<1>1. CASE Discard(r)
  <2>1. Timely(todo')
    BY <1>1, TimelyListed DEF Discard, Outcome
  <2>2. \A j \in Jobs(todo') : j.op \in {"hook", "dispatch"}
    <3>1. Hook(r, "cancelled") \in Job /\ Dispatch \in Job
      BY JobTypes DEF Outcome
    <3>2. Hook(r, "cancelled").op = "hook" /\ Dispatch.op = "dispatch"
      BY DEF Hook, Dispatch
    <3>3. todo' = <<Hook(r, "cancelled")>> \o <<Dispatch>> \/ todo' = <<Hook(r, "cancelled")>> \o <<>>
      BY <1>1 DEF Discard
    <3>4. Jobs(todo') \subseteq {Hook(r, "cancelled"), Dispatch}
      BY <3>1, <3>3, JobsJoined
    <3> QED
      BY <3>2, <3>4
  <2>3. \A q \in Runs : Began(q) => Began(q)'
    BY <1>1 DEF Discard, Began, TypeOK, DbTypes
  <2>4. PlannersAtWork'
    BY <1>1 DEF Discard, PlannersAtWork, LifeInv, TypeOK, DbTypes
  <2>5. OnlyForBegun'
    BY <1>1, <2>2, <2>3 DEF Discard, LifeInv, OnlyForBegun, TypeOK, DbTypes, MemoryTypes, Exec, Request
  <2>6. BootIsFresh'
    BY <1>1, <2>2 DEF Discard, Serving, LifeInv, BootIsFresh
  <2> QED
    BY <2>4, <2>5, <2>6 DEF LifeInv
<1>2. CASE Cancel(r)
  <2>1. \A q \in Runs : Began(q) => Began(q)'
    BY <1>2 DEF Cancel, Began, db, TypeOK, MemoryTypes
  <2>2. PlannersAtWork'
    BY <1>2 DEF Cancel, PlannersAtWork, LifeInv, TypeOK, MemoryTypes, db
  <2>3. \A e \in execs' : e.run \in Runs /\ Began(e.run)
    BY <1>2 DEF Cancel, LifeInv, OnlyForBegun, TypeOK, MemoryTypes, Exec
  <2>4. OnlyForBegun'
    BY <1>2, <2>1, <2>3, JobsEmpty DEF Cancel, Serving, LifeInv, OnlyForBegun, TypeOK, DbTypes, MemoryTypes, Request, db
  <2>5. BootIsFresh'
    BY <1>2, JobsEmpty DEF Cancel, Serving, BootIsFresh
  <2> QED
    BY <2>2, <2>4, <2>5 DEF LifeInv
<1>3. CASE CancelPaused(r)
  <2>1. Timely(todo')
    BY <1>3, TimelyListed DEF CancelPaused, Outcome
  <2>2. Began(r) /\ \A q \in Runs : status'[q] # status[q] => q = r /\ status'[q] = "cancelled"
    BY <1>3 DEF CancelPaused, Began, TypeOK, DbTypes
  <2>3. \A e \in execs' : e.run \in Runs /\ Began(e.run)
    BY <1>3 DEF CancelPaused, LifeInv, OnlyForBegun, TypeOK, MemoryTypes, Exec, memory
  <2>4. \A q \in Runs : armed'[q] # {} \/ q \in started' => Began(q)
    BY <1>3 DEF CancelPaused, LifeInv, OnlyForBegun
  <2> QED
    BY <1>3, <1>t, <2>1, <2>2, <2>3, <2>4, LifeKept DEF CancelPaused, Serving, memory
<1>4. CASE DeleteRun(r)
  <2>1. Timely(todo')
    BY <1>4, TimelyListed DEF DeleteRun, Outcome
  <2> QED
    BY <1>4, <1>t, <2>1, LifeSame DEF DeleteRun, Serving, db, memory
<1> QED
  BY <1>1, <1>2, <1>3, <1>4

LEMMA LifeHandler ==
    ASSUME TypeOK, TypeOK', LifeInv
    PROVE  TellHook \/ ReleaseLocks \/ EraseRun \/ DispatchQueue \/ DispatchNothing \/ ExecuteNone => LifeInv'
<1>t. todo' \in Seq(Job)
  BY DEF TypeOK, ControlTypes
<1>1. CASE TellHook
  BY <1>1, <1>t, TimelyTail, LifeSame DEF TellHook, Doing, db, memory
<1>2. CASE ReleaseLocks
  BY <1>2, <1>t, TimelyTail, LifeSame DEF ReleaseLocks, Doing, memory
<1>3. CASE EraseRun
  BY <1>3, <1>t, TimelyTail, LifeSame DEF EraseRun, Doing
<1>4. CASE DispatchQueue
  <2> DEFINE S == Startable(held, approvedAt, Reserving)
  <2>1. S \subseteq {r \in Runs : status[r] = "queued"}
    BY DEF Startable, Reserving
  <2>t. Tail(todo) \in Seq(Job) /\ Timely(Tail(todo))
    BY <1>4, TimelyTail DEF DispatchQueue, Doing
  <2>2. Jobs(todo') = {Execute(S)} \cup Jobs(Tail(todo))
    BY <1>4, <2>t, JobsPushed DEF DispatchQueue
  <2>3. \A r \in Runs : status'[r] = IF r \in S THEN "approved" ELSE status[r]
    BY <1>4 DEF DispatchQueue
  <2> HIDE DEF S
  <2>4. PlannersAtWork'
    BY <1>4, <2>1, <2>3 DEF LifeInv, PlannersAtWork, DispatchQueue, memory
  <2>5. \A r \in Runs : Began(r) => Began(r)'
    BY <1>4, <2>1, <2>3 DEF DispatchQueue, memory, Began
  <2>6. \A r \in S : Began(r)'
    BY <1>4, <2>1, <2>3 DEF DispatchQueue, memory, Began, LifeInv, PlannersAtWork
  <2>7. OnlyForBegun'
    <3>1. ASSUME NEW j \in Jobs(Tail(todo)), j.op \in {"execute", "walk"}, NEW r \in j.runs PROVE Began(r)'
      <4>1. r \in Runs /\ Began(r)
        BY <2>t, <3>1, JobsTyped DEF Timely
      <4> QED
        BY <4>1, <2>5
    <3>2. Execute(S).runs = S
      BY DEF Execute
    <3>3. \A j \in Jobs(todo') : j.op \in {"execute", "walk"} => \A r \in j.runs : Began(r)'
      BY <2>2, <2>6, <3>1, <3>2
    <3> QED
      BY <1>4, <2>5, <3>3 DEF LifeInv, OnlyForBegun, TypeOK, DbTypes, MemoryTypes, Exec, Request, DispatchQueue, memory
  <2>8. BootIsFresh'
    <3>1. Execute(S).op = "execute"
      BY DEF Execute
    <3> QED
      BY <1>4, <2>2, <2>t, <3>1 DEF DispatchQueue, Doing, memory, BootIsFresh, LifeInv, Timely
  <2> QED
    BY <2>4, <2>7, <2>8 DEF LifeInv
<1>5. CASE DispatchNothing
  BY <1>5, <1>t, TimelyTail, LifeSame DEF DispatchNothing, Doing, db, memory
<1>6. CASE ExecuteNone
  BY <1>6, <1>t, TimelyTail, LifeSame DEF ExecuteNone, Doing, db, memory
<1> QED
  BY <1>1, <1>2, <1>3, <1>4, <1>5, <1>6

\* A run's execution or its planning recorded as failed, or not recorded at all.
LEMMA TimelyFail ==
    ASSUME NEW r \in Runs, NEW rest \in Seq(Job), Timely(rest), RecordsFailure(r, rest) \/ CannotRecord(rest)
    PROVE  Timely(todo')
<1>1. todo' = <<Hook(r, "failed"), Dispatch>> \o rest \/ todo' = <<Dispatch>> \o rest
  BY DEF RecordsFailure, CannotRecord
<1>2. "failed" \in Outcome
  BY DEF Outcome
<1> QED
  BY <1>1, <1>2, TimelyEnd

LEMMA FailStatus ==
    ASSUME TypeOK, NEW r \in Runs, NEW rest, RecordsFailure(r, rest) \/ CannotRecord(rest)
    PROVE  \A q \in Runs : status'[q] # status[q] => q = r /\ status'[q] = "failed"
BY DEF RecordsFailure, CannotRecord, TypeOK, DbTypes

LEMMA LifeExecute ==
    ASSUME TypeOK, TypeOK', LifeInv
    PROVE  ExecuteRefused \/ ExecuteFaults \/ ExecuteRun => LifeInv'
<1>t. todo' \in Seq(Job)
  BY DEF TypeOK, ControlTypes
<1>e. \A e \in execs : e.run \in Runs /\ Began(e.run)
  BY DEF LifeInv, OnlyForBegun, TypeOK, MemoryTypes, Exec
<1>a. \A q \in Runs : armed[q] # {} \/ q \in started => Began(q)
  BY DEF LifeInv, OnlyForBegun
<1>b. ASSUME Doing("execute"), NEW r \in Head(todo).runs
      PROVE  /\ up /\ r \in Runs /\ Began(r) /\ RestOf(r) \in Seq(Job) /\ Timely(RestOf(r))
  BY <1>b, RestTypes, TimelyTail, TimelyTodo, TimelyRest DEF Doing, Timely
<1>1. CASE ExecuteRefused \/ ExecuteFaults
  <2>1. PICK r \in Head(todo).runs : RecordsFailure(r, RestOf(r)) \/ CannotRecord(RestOf(r))
    BY <1>1 DEF ExecuteRefused, ExecuteFaults, FailRun, FaultFails
  <2>2. up /\ r \in Runs /\ Began(r) /\ RestOf(r) \in Seq(Job) /\ Timely(RestOf(r))
    BY <1>1, <1>b DEF ExecuteRefused, ExecuteFaults
  <2>3. Timely(todo') /\ \A q \in Runs : status'[q] # status[q] => q = r /\ status'[q] = "failed"
    BY <2>1, <2>2, TimelyFail, FailStatus
  <2>4. UNCHANGED <<up, planner, execs, waiting, armed, started>>
    BY <1>1 DEF ExecuteRefused, ExecuteFaults
  <2> QED
    BY <1>t, <1>e, <1>a, <2>2, <2>3, <2>4, LifeKept
<1>2. CASE ExecuteRun
  <2>1. PICK r \in Head(todo).runs, id \in 1..MaxExecs :
            /\ execs' = execs \cup {[run |-> r, id |-> id, at |-> 0, left |-> Unfinished(r),
                                     torn |-> {x \in Rows : step[r][x] = "running"},
                                     cleanup |-> \E c \in Cleanups : HasRow(r, c), aborted |-> FALSE]}
            /\ status' = [status EXCEPT ![r] = "running"]
            /\ started' = started \cup {r}
            /\ todo' = <<Walk(r, id)>> \o RestOf(r)
    BY <1>2, Zenon DEF ExecuteRun
  <2>2. up /\ r \in Runs /\ Began(r) /\ RestOf(r) \in Seq(Job) /\ Timely(RestOf(r))
    BY <1>2, <1>b DEF ExecuteRun
  <2>3. Timely(todo')
    <3>1. Walk(r, id).op = "walk" /\ Walk(r, id).runs = {r}
      BY DEF Walk
    <3>2. Jobs(todo') = {Walk(r, id)} \cup Jobs(RestOf(r))
      BY <2>1, <2>2, JobsPushed
    <3> QED
      BY <2>2, <3>1, <3>2 DEF Timely
  <2>4. \A q \in Runs : status'[q] # status[q] => q = r /\ status'[q] = "running"
    BY <2>1 DEF TypeOK, DbTypes
  <2>5. \A e \in execs' : e.run \in Runs /\ Began(e.run)
    BY <1>e, <2>1, <2>2
  <2>6. \A q \in Runs : armed'[q] # {} \/ q \in started' => Began(q)
    BY <1>a, <1>2, <2>1, <2>2 DEF ExecuteRun
  <2>7. UNCHANGED <<up, planner, waiting>>
    BY <1>2 DEF ExecuteRun
  <2> QED
    BY <1>t, <2>2, <2>3, <2>4, <2>5, <2>6, <2>7, LifeKept
<1> QED
  BY <1>1, <1>2

\* An execution that ends with an outcome.
LEMMA TimelyEnds ==
    ASSUME NEW e \in Exec, NEW outcome \in Outcome, NEW release \in {<<>>, <<Release(e.run)>>},
           NEW rest \in Seq(Job), Timely(rest), Ends(e, outcome, release, rest)
    PROVE  Timely(todo')
<1>1. e.run \in Runs
  BY DEF Exec
<1>2. CASE release = <<>>
  BY <1>1, <1>2, TimelyEnd DEF Ends
<1>3. CASE release = <<Release(e.run)>>
  BY <1>1, <1>3, TimelyEnd DEF Ends
<1> QED
  BY <1>2, <1>3

LEMMA EndsStatus ==
    ASSUME TypeOK, NEW e \in execs, NEW outcome, NEW release, NEW rest, Ends(e, outcome, release, rest)
    PROVE  execs' \subseteq execs /\ \A q \in Runs : status'[q] # status[q] => q = e.run /\ status'[q] = outcome
BY DEF Ends, TypeOK, DbTypes

LEMMA LifeWalk ==
    ASSUME TypeOK, TypeOK', LifeInv, NEW e \in execs
    PROVE  WalkCompletes(e) \/ WalkCancelled(e) \/ WalkPauses(e) \/ WalkFindsNoStep(e) \/ WalkStartsStep(e)
              \/ WalkFindsTornStep(e) \/ WalkFaults(e) => LifeInv'
<1>t. todo' \in Seq(Job)
  BY DEF TypeOK, ControlTypes
<1>e. \A f \in execs : f.run \in Runs /\ Began(f.run) /\ f \in Exec
  BY DEF LifeInv, OnlyForBegun, TypeOK, MemoryTypes, Exec
<1>a. \A q \in Runs : armed[q] # {} \/ q \in started => Began(q)
  BY DEF LifeInv, OnlyForBegun
<1>b. Walking(e) => up /\ Tail(todo) \in Seq(Job) /\ Timely(Tail(todo))
  BY TimelyTail DEF Walking, Doing
<1>k. ASSUME Walking(e), UNCHANGED <<up, planner, waiting, armed, started>>, execs' \subseteq execs,
             \A q \in Runs : status'[q] # status[q] => q = e.run /\ status'[q] \in Outcome, Timely(todo')
      PROVE  LifeInv'
  BY <1>t, <1>e, <1>a, <1>b, <1>k, LifeKept DEF Outcome
<1>1. CASE WalkCompletes(e) \/ WalkCancelled(e) \/ WalkFindsNoStep(e)
  <2>1. PICK outcome \in Outcome, release \in {<<>>, <<Release(e.run)>>} : Ends(e, outcome, release, Tail(todo))
    BY <1>1 DEF WalkCompletes, WalkCancelled, WalkFindsNoStep, Outcome
  <2>2. Walking(e) /\ UNCHANGED <<up, planner, waiting, armed, started>>
    BY <1>1 DEF WalkCompletes, WalkCancelled, WalkFindsNoStep
  <2>3. Timely(todo')
    BY <1>e, <1>b, <2>1, <2>2, TimelyEnds
  <2> QED
    BY <1>k, <2>1, <2>2, <2>3, EndsStatus
<1>2. CASE WalkPauses(e)
  BY <1>2, <1>b, <1>k DEF WalkPauses, db
<1>3. CASE WalkStartsStep(e)
  <2>1. \A f \in execs' : f.run \in Runs /\ Began(f.run)
    BY <1>3, <1>e DEF WalkStartsStep, Exec
  <2> QED
    BY <1>3, <1>t, <1>a, <1>b, <2>1, LifeKept DEF WalkStartsStep
<1>4. CASE WalkFindsTornStep(e) \/ WalkFaults(e)
  <2>1. RecordsFailure(e.run, Tail(todo)) \/ CannotRecord(Tail(todo))
    BY <1>4 DEF WalkFindsTornStep, WalkFaults, FailRun, FaultFails
  <2>2. Walking(e) /\ UNCHANGED <<up, planner, waiting, armed, started>> /\ execs' \subseteq execs
    BY <1>4 DEF WalkFindsTornStep, WalkFaults
  <2>3. Timely(todo') /\ \A q \in Runs : status'[q] # status[q] => q = e.run /\ status'[q] = "failed"
    BY <1>e, <1>b, <2>1, <2>2, TimelyFail, FailStatus
  <2> QED
    BY <1>k, <2>2, <2>3 DEF Outcome
<1> QED
  BY <1>1, <1>2, <1>3, <1>4

LEMMA LifeSteps ==
    ASSUME TypeOK, TypeOK', LifeInv, NEW e \in execs
    PROVE  (\E c \in Cleanups : StepRegistersCleanup(e, c)) \/ StepOk(e) \/ (\E b \in BOOLEAN : StepThrows(e, b))
              \/ StepFaults(e) => LifeInv'
<1>t. todo' \in Seq(Job)
  BY DEF TypeOK, ControlTypes
<1>e. \A f \in execs : f.run \in Runs /\ Began(f.run) /\ f \in Exec
  BY DEF LifeInv, OnlyForBegun, TypeOK, MemoryTypes, Exec
<1>a. \A q \in Runs : armed[q] # {} \/ q \in started => Began(q)
  BY DEF LifeInv, OnlyForBegun
<1>k. ASSUME Running(e), UNCHANGED <<up, planner, waiting, armed, started>>, execs' \subseteq execs,
             \A q \in Runs : status'[q] # status[q] => q = e.run /\ status'[q] \in Outcome, Timely(todo')
      PROVE  LifeInv'
  BY <1>t, <1>e, <1>a, <1>k, LifeKept DEF Running, Serving, Outcome
<1>1. CASE \E c \in Cleanups : StepRegistersCleanup(e, c)
  <2>1. PICK c \in Cleanups : StepRegistersCleanup(e, c)
    BY <1>1
  <2>2. \A q \in Runs : armed'[q] # {} \/ q \in started' => Began(q)
    BY <1>e, <1>a, <2>1 DEF StepRegistersCleanup, TypeOK, DbTypes
  <2> QED
    BY <1>t, <1>e, <2>1, <2>2, LifeKept, TimelyTodo DEF StepRegistersCleanup, Running, Serving, memory
<1>2. CASE StepOk(e)
  <2>1. \A f \in execs' : f.run \in Runs /\ Began(f.run)
    BY <1>2, <1>e DEF StepOk, Exec
  <2>2. Timely(todo')
    <3>1. Walk(e.run, e.id).op = "walk" /\ Walk(e.run, e.id).runs = {e.run}
      BY DEF Walk
    <3>2. Jobs(todo') = {Walk(e.run, e.id)}
      BY <1>2, JobsListed DEF StepOk
    <3> QED
      BY <1>e, <3>1, <3>2 DEF Timely
  <2> QED
    BY <1>2, <1>t, <1>a, <2>1, <2>2, LifeKept DEF StepOk, Running, Serving
<1>3. CASE \E b \in BOOLEAN : StepThrows(e, b)
  <2>1. PICK outcome \in Outcome : Ends(e, outcome, <<>>, <<>>)
    BY <1>3 DEF StepThrows, Outcome
  <2>2. Running(e) /\ UNCHANGED <<up, planner, waiting, armed, started>>
    BY <1>3 DEF StepThrows
  <2>3. Timely(todo')
    BY <1>e, <2>1, TimelyEnds, TimelyEmpty
  <2> QED
    BY <1>k, <2>1, <2>2, <2>3, EndsStatus
<1>4. CASE StepFaults(e)
  <2>1. RecordsFailure(e.run, <<>>) \/ CannotRecord(<<>>)
    BY <1>4 DEF StepFaults, FaultFails
  <2>2. Running(e) /\ UNCHANGED <<up, planner, waiting, armed, started>> /\ execs' \subseteq execs
    BY <1>4 DEF StepFaults
  <2>3. Timely(todo') /\ \A q \in Runs : status'[q] # status[q] => q = e.run /\ status'[q] = "failed"
    BY <1>e, <2>1, TimelyFail, TimelyEmpty, FailStatus
  <2> QED
    BY <1>k, <2>2, <2>3 DEF Outcome
<1> QED
  BY <1>1, <1>2, <1>3, <1>4

LEMMA LifeRecovering ==
    ASSUME TypeOK, TypeOK', LifeInv, NEW r \in Runs
    PROVE  (\E x \in Rows : Retry(r, x) \/ Skip(r, x)) \/ AbortSettles(r) \/ Abort(r) \/ AbortAsks(r)
              \/ RecoveryFaults(r) => LifeInv'
<1>t. todo' \in Seq(Job)
  BY DEF TypeOK, ControlTypes
<1>e. \A f \in execs : f.run \in Runs /\ Began(f.run)
  BY DEF LifeInv, OnlyForBegun, TypeOK, MemoryTypes, Exec
<1>a. \A q \in Runs : armed[q] # {} \/ q \in started => Began(q)
  BY DEF LifeInv, OnlyForBegun
<1>x. Timely(<<Execute({r})>>) <=> Began(r)
  <2>1. Execute({r}).op = "execute" /\ Execute({r}).runs = {r}
    BY DEF Execute
  <2> QED
    BY <2>1, JobsListed DEF Timely
<1>k. ASSUME Serving, UNCHANGED <<up, planner, execs, waiting, armed, started>>, Began(r), todo' = <<Execute({r})>>,
             status' = [status EXCEPT ![r] = "running"]
      PROVE  LifeInv'
  <2>1. \A q \in Runs : status'[q] # status[q] => q = r /\ status'[q] = "running"
    BY <1>k DEF TypeOK, DbTypes
  <2> QED
    BY <1>t, <1>e, <1>a, <1>x, <1>k, <2>1, LifeKept DEF Serving
<1>1. CASE \E x \in Rows : Retry(r, x) \/ Skip(r, x)
  <2>1. Recoverable(r) /\ Serving /\ UNCHANGED <<up, planner, execs, waiting, armed, started>>
          /\ todo' = <<Execute({r})>> /\ status' = [status EXCEPT ![r] = "running"]
    BY <1>1 DEF Retry, Skip, memory
  <2>2. Began(r)
    BY <1>a, <2>1 DEF Recoverable, Began, LifeInv, PlannersAtWork
  <2> QED
    BY <1>k, <2>1, <2>2
<1>2. CASE AbortSettles(r)
  <2>1. /\ PlannersAtWork' /\ \A q \in Runs : Began(q) => Began(q)'
    BY <1>2 DEF AbortSettles, Abortable, LifeInv, PlannersAtWork, Began, memory, TypeOK, DbTypes
  <2>2. \A j \in Jobs(todo') : j.op \in {"release", "dispatch"}
    <3>1. Release(r).op = "release" /\ Dispatch.op = "dispatch"
      BY DEF Release, Dispatch
    <3> QED
      BY <1>2, <3>1, JobsListed DEF AbortSettles
  <2>3. OnlyForBegun'
    BY <1>2, <1>e, <1>a, <2>1, <2>2 DEF AbortSettles, LifeInv, OnlyForBegun, memory, TypeOK, MemoryTypes, Request
  <2>4. BootIsFresh'
    BY <1>2, <2>2 DEF AbortSettles, Serving, BootIsFresh
  <2> QED
    BY <2>1, <2>3, <2>4 DEF LifeInv
<1>3. CASE Abort(r)
  <2>1. Began(r)
    BY <1>3, <1>a DEF Abort
  <2> QED
    BY <1>3, <1>k, <2>1 DEF Abort, AbortSchedules
<1>4. CASE AbortAsks(r)
  <2>1. Began(r) /\ \A w \in waiting' : w \in waiting \/ w.run = r
    BY <1>4, <1>a DEF AbortAsks, Suspend
  <2>2. UNCHANGED <<status, up, planner, execs, armed, started, todo>> /\ up
    BY <1>4 DEF AbortAsks, Serving, db
  <2> QED
    BY <2>1, <2>2 DEF LifeInv, PlannersAtWork, OnlyForBegun, BootIsFresh, Began
<1>5. CASE RecoveryFaults(r)
  BY <1>5, <1>t, LifeSame, TimelyTodo DEF RecoveryFaults, Serving, memory
<1> QED
  BY <1>1, <1>2, <1>3, <1>4, <1>5

LEMMA LifeAnswers ==
    ASSUME TypeOK, TypeOK', LifeInv, NEW w \in waiting
    PROVE  Answer(w) => LifeInv'
<1>t. todo' \in Seq(Job) /\ w.run \in Runs
  BY DEF TypeOK, ControlTypes, MemoryTypes, Request
<1>e. \A f \in execs : f.run \in Runs /\ Began(f.run)
  BY DEF LifeInv, OnlyForBegun, TypeOK, MemoryTypes, Exec
<1>a. \A q \in Runs : armed[q] # {} \/ q \in started => Began(q)
  BY DEF LifeInv, OnlyForBegun
<1>1. CASE ApproveAnswered(w)
  <2>1. \A q \in Runs : Began(q) => Began(q)'
    BY <1>1, <1>t DEF ApproveAnswered, JoinQueue, Began, TypeOK, DbTypes
  <2>2. PlannersAtWork'
    BY <1>1, <1>t DEF ApproveAnswered, JoinQueue, LifeInv, PlannersAtWork, TypeOK, DbTypes
  <2>3. \A j \in Jobs(todo') : j.op = "dispatch"
    BY <1>1, JobsListed DEF ApproveAnswered, JoinQueue, Dispatch
  <2>4. OnlyForBegun'
    BY <1>1, <1>e, <1>a, <2>1, <2>3 DEF ApproveAnswered, LifeInv, OnlyForBegun, TypeOK, MemoryTypes, Request
  <2>5. BootIsFresh'
    BY <1>1, <2>3 DEF ApproveAnswered, Serving, BootIsFresh
  <2> QED
    BY <2>2, <2>4, <2>5 DEF LifeInv
<1>2. CASE RetypeAnswered(w)
  <2>1. Timely(todo')
    BY <1>2, <1>t, TimelyListed DEF RetypeAnswered, Outcome
  <2> QED
    BY <1>2, <1>t, <2>1, LifeSame DEF RetypeAnswered, Serving, db
<1>3. CASE AbortAnswered(w)
  <2>1. Began(w.run)
    BY <1>3 DEF AbortAnswered, LifeInv, OnlyForBegun
  <2>2. Timely(todo')
    <3>1. Execute({w.run}).op = "execute" /\ Execute({w.run}).runs = {w.run}
      BY DEF Execute
    <3>2. Jobs(todo') = {Execute({w.run})}
      BY <1>3, JobsListed DEF AbortAnswered, AbortSchedules
    <3> QED
      BY <2>1, <3>1, <3>2 DEF Timely
  <2>3. \A q \in Runs : status'[q] # status[q] => q = w.run /\ status'[q] = "running"
    BY <1>3 DEF TypeOK, DbTypes, AbortAnswered, AbortSchedules
  <2> QED
    BY <1>3, <1>t, <1>e, <1>a, <2>1, <2>2, <2>3, LifeKept DEF AbortAnswered, Serving
<1>4. CASE AbortCollides(w)
  BY <1>4, <1>t, LifeSame, TimelyTodo DEF AbortCollides, Serving
<1>5. CASE RequestRefused(w)
  BY <1>5, <1>t, LifeSame, TimelyTodo DEF RequestRefused, Serving, db
<1> QED
  BY <1>1, <1>2, <1>3, <1>4, <1>5 DEF Answer

LEMMA LifeProcess ==
    ASSUME TypeOK, TypeOK', LifeInv
    PROVE  Shutdown \/ Exit \/ Crash \/ (\E r \in Runs : CrashAfterAcquire(r)) \/ Boot
              \/ FailOrphanedPlanning \/ ResumePending \/ ResumeGivesUp => LifeInv'
<1>t. todo' \in Seq(Job)
  BY DEF TypeOK, ControlTypes
<1>e. \A f \in execs : f.run \in Runs /\ Began(f.run)
  BY DEF LifeInv, OnlyForBegun, TypeOK, MemoryTypes, Exec
<1>a. \A q \in Runs : armed[q] # {} \/ q \in started => Began(q)
  BY DEF LifeInv, OnlyForBegun
<1>1. CASE Shutdown
  BY <1>1, <1>t, LifeSame, TimelyTodo DEF Shutdown, Serving, db
<1>2. CASE Exit \/ Crash \/ \E r \in Runs : CrashAfterAcquire(r)
  <2>1. Dies /\ UNCHANGED <<status, armed, started>>
    BY <1>2 DEF Exit, Crash, CrashAfterAcquire, db
  <2>2. \A r \in Runs : planner'[r] = "idle"
    BY <2>1 DEF Dies
  <2>3. \A q \in Runs : armed'[q] # {} \/ q \in started' => Began(q)'
    BY <1>a, <2>1, <2>2 DEF Began
  <2> QED
    BY <2>1, <2>2, <2>3, JobsEmpty DEF Dies, LifeInv, PlannersAtWork, OnlyForBegun, BootIsFresh
<1>3. CASE Boot
  <2>1. ~up /\ up' /\ UNCHANGED <<status, planner, execs, waiting, armed, started>>
    BY <1>3 DEF Boot, memory
  <2>2. \A r \in Runs : planner[r] = "idle"
    BY <2>1 DEF LifeInv, BootIsFresh
  <2>3. \A j \in Jobs(todo') : j.op \in {"failAll", "resume", "dispatch"}
    <3> DEFINE f == FailAll({r \in Runs : status[r] = "planning"})
    <3>1. f.op = "failAll" /\ Resume.op = "resume" /\ Dispatch.op = "dispatch"
      BY DEF FailAll, Resume, Dispatch
    <3>2. todo' = <<f, Resume, Dispatch>> \/ todo' = <<>>
      BY <1>3 DEF Boot
    <3> HIDE DEF f
    <3> QED
      BY <3>1, <3>2, JobsListed, JobsEmpty
  <2> QED
    BY <2>1, <2>2, <2>3 DEF LifeInv, PlannersAtWork, OnlyForBegun, BootIsFresh, Began
<1>4. CASE FailOrphanedPlanning
  <2>1. CASE todo' = Tail(todo) /\ UNCHANGED status
    BY <1>4, <1>t, <2>1, TimelyTail, LifeSame DEF FailOrphanedPlanning, Doing
  <2>2. CASE \E r \in Head(todo).runs : FailRun(r, RestOf(r))
    <3>1. PICK r \in Head(todo).runs : RecordsFailure(r, RestOf(r)) \/ CannotRecord(RestOf(r))
      BY <2>2 DEF FailRun
    <3>2. up /\ todo # <<>> /\ UNCHANGED <<up, planner, execs, waiting, armed, started>>
      BY <1>4 DEF FailOrphanedPlanning, Doing
    <3>3. r \in Runs /\ RestOf(r) \in Seq(Job) /\ Timely(RestOf(r))
      BY <3>2, RestTypes, TimelyRest
    <3>4. \A q \in Runs : planner[q] = "idle"
      BY <1>4, <3>2, TimelyTail, TimelyTodo DEF FailOrphanedPlanning, Doing, Timely
    <3>5. Timely(todo') /\ \A q \in Runs : status'[q] # status[q] => q = r /\ status'[q] = "failed"
      BY <3>1, <3>3, TimelyFail, FailStatus
    <3>6. \A q \in Runs : Began(q) => Began(q)'
      BY <3>2, <3>5 DEF Began
    <3>7. PlannersAtWork'
      BY <3>2, <3>4 DEF PlannersAtWork
    <3>8. OnlyForBegun'
      <4>1. \A j \in Jobs(todo') : j.op \in {"execute", "walk"} => \A q \in j.runs : Began(q)'
        BY <1>t, <3>5, <3>6, JobsTyped DEF Timely
      <4>2. \A v \in waiting' : v.op = "abort" => Began(v.run)'
        BY <3>2, <3>6 DEF LifeInv, OnlyForBegun, TypeOK, MemoryTypes, Request
      <4> QED
        BY <1>e, <1>a, <3>2, <3>6, <4>1, <4>2 DEF OnlyForBegun
    <3>9. BootIsFresh'
      BY <3>2, <3>4 DEF BootIsFresh
    <3> QED
      BY <3>7, <3>8, <3>9 DEF LifeInv
  <2> QED
    BY <1>4, <2>1, <2>2 DEF FailOrphanedPlanning
<1>5. CASE ResumePending
  <2> DEFINE P == {r \in Runs : status[r] \in {"running", "approved"}}
  <2>1. todo' = <<Execute(P)>> \o Tail(todo) /\ up /\ todo # <<>> /\ Head(todo).op = "resume"
    BY <1>5 DEF ResumePending, Doing
  <2>2. Execute(P).op = "execute" /\ Execute(P).runs = P
    BY DEF Execute
  <2>3. \A r \in P : Began(r)
    BY DEF LifeInv, PlannersAtWork, Began
  <2> HIDE DEF P
  <2>4. Tail(todo) \in Seq(Job) /\ Timely(Tail(todo))
    BY <2>1, TimelyTail
  <2>5. Jobs(todo') = {Execute(P)} \cup Jobs(Tail(todo))
    BY <2>1, <2>4, JobsPushed
  <2>6. Timely(todo')
    BY <2>2, <2>3, <2>4, <2>5 DEF Timely
  <2> QED
    BY <1>5, <1>t, <2>1, <2>6, LifeSame DEF ResumePending, memory
<1>6. CASE ResumeGivesUp
  BY <1>6, <1>t, TimelyEmpty, LifeSame DEF ResumeGivesUp, Doing, memory
<1> QED
  BY <1>1, <1>2, <1>3, <1>4, <1>5, <1>6

LEMMA LifeNext ==
    ASSUME TypeOK, TypeOK', LifeInv, [Next]_vars
    PROVE  LifeInv'
<1>1. CASE UNCHANGED vars
  BY <1>1 DEF vars, db, memory, LifeInv, PlannersAtWork, OnlyForBegun, BootIsFresh, Began
<1>2. CASE Handler
  BY <1>2, LifeHandler, LifeExecute, LifeWalk, LifeProcess DEF Handler
<1>3. CASE \E e \in execs : Step(e) \/ \E c \in Cleanups : StepRegistersCleanup(e, c)
  BY <1>3, LifeSteps DEF Step
<1>4. CASE \E w \in waiting : Answer(w)
  BY <1>4, LifeAnswers
<1>5. CASE \E r \in Runs : Planner(r) \/ Operator(r) \/ CrashAfterAcquire(r)
  BY <1>5, LifePlanning, LifeApproving, LifeEnding, LifeRecovering, LifeProcess DEF Planner, Operator
<1>6. CASE Shutdown \/ Exit \/ Crash \/ Boot
  BY <1>6, LifeProcess
<1> QED
  BY <1>1, <1>2, <1>3, <1>4, <1>5, <1>6 DEF Next

-----------------------------------------------------------------------------
\* Every step keeps Covered and Woken.

Waking(q) == \E j \in Jobs(q) : j.op = "dispatch"

LEMMA WakeComing == Waking(todo') => Woken'
BY DEF Waking, Woken

\* A step that leaves the line as it was and lets no claim go.
LEMMA WakeKept ==
    ASSUME Woken, approvedAt' = approvedAt, \A r \in Runs : held[r] \subseteq held'[r],
           up' => up, ~stopping' => ~stopping, faults' = 0 => faults = 0, Waking(todo) => Waking(todo'),
           \A r \in Runs : \/ status[r] # "queued" /\ status'[r] # "queued"
                           \/ /\ status'[r] = status[r] /\ (r \in deleted' <=> r \in deleted)
                              /\ (r \in secrets' <=> r \in secrets)
    PROVE  Woken'
<1>1. Reserving' = Reserving
  BY DEF Reserving, needsSecrets
<1>2. Startable(held', approvedAt', Reserving') \subseteq Startable(held, approvedAt, Reserving)
  BY <1>1, MoreTakenStartsLess
<1> QED
  BY <1>2 DEF Woken, Waking

LEMMA CoveredShort ==
    /\ Covered(<<>>)
    /\ \A a : a.op \notin {"release", "erase"} => Covered(<<a>>)
    /\ \A a, b : b.op = "dispatch" => Covered(<<a, b>>)
    /\ \A a, b, c : c.op = "dispatch" => Covered(<<a, b, c>>)
<1>1. Covered(<<>>)
  BY DEF Covered
<1>2. \A a : a.op \notin {"release", "erase"} => Covered(<<a>>)
  BY DEF Covered
<1>3. ASSUME NEW a, NEW b, b.op = "dispatch" PROVE Covered(<<a, b>>)
  <2> DEFINE q == <<a, b>>
  <2>1. Len(q) = 2 /\ q[2] = b
    OBVIOUS
  <2> HIDE DEF q
  <2>2. Covered(q)
    BY <1>3, <2>1 DEF Covered
  <2> QED
    BY <2>2 DEF q
<1>4. ASSUME NEW a, NEW b, NEW c, c.op = "dispatch" PROVE Covered(<<a, b, c>>)
  <2> DEFINE q == <<a, b, c>>
  <2>1. Len(q) = 3 /\ q[3] = c
    OBVIOUS
  <2> HIDE DEF q
  <2>2. Covered(q)
    BY <1>4, <2>1 DEF Covered
  <2> QED
    BY <2>2 DEF q
<1> QED
  BY <1>1, <1>2, <1>3, <1>4

LEMMA CoveredConcat ==
    ASSUME NEW p \in Seq(Job), NEW q \in Seq(Job), Covered(q), Waking(q)
    PROVE  Covered(p \o q)
<1> DEFINE s == p \o q
<1>1. /\ Len(s) = Len(p) + Len(q) /\ Len(p) \in Nat /\ Len(q) \in Nat
      /\ \A i \in 1..Len(q) : s[Len(p) + i] = q[i]
  BY ConcatProperties
<1> HIDE DEF s
<1>2. SUFFICES ASSUME NEW i \in 1..Len(s), s[i].op \in {"release", "erase"}
               PROVE  \E j \in i + 1..Len(s) : s[j].op = "dispatch"
  BY DEF Covered, s
<1>3. CASE i <= Len(p)
  <2>1. PICK k \in 1..Len(q) : q[k].op = "dispatch"
    BY DEF Waking, Jobs
  <2>2. Len(p) + k \in i + 1..Len(s) /\ s[Len(p) + k] = q[k]
    BY <1>1, <1>3, <2>1
  <2> QED
    BY <2>1, <2>2
<1>4. CASE i > Len(p)
  <2> DEFINE k == i - Len(p)
  <2>1. k \in 1..Len(q) /\ i = Len(p) + k
    BY <1>1, <1>4
  <2>2. s[i] = q[k]
    BY <1>1, <2>1
  <2>3. PICK m \in k + 1..Len(q) : q[m].op = "dispatch"
    BY <1>2, <2>1, <2>2 DEF Covered
  <2>4. m \in 1..Len(q) /\ Len(p) + m \in i + 1..Len(s)
    BY <1>1, <2>1, <2>3
  <2> QED
    BY <1>1, <2>3, <2>4
<1> QED
  BY <1>1, <1>3, <1>4

\* What a run's end puts before the rest of the work list.
LEMMA CoveredEnd ==
    ASSUME NEW r \in Runs, NEW outcome \in Outcome, NEW rest \in Seq(Job), Covered(rest),
           NEW q \in {<<Hook(r, outcome)>> \o <<Release(r)>> \o <<Dispatch>> \o rest,
                      <<Hook(r, outcome)>> \o <<>> \o <<Dispatch>> \o rest,
                      <<Hook(r, outcome), Dispatch>> \o rest,
                      <<Dispatch>> \o rest}
    PROVE  Covered(q) /\ Waking(q)
<1> DEFINE h == Hook(r, outcome)
           l == Release(r)
           d == Dispatch
           t == <<Dispatch>> \o rest
<1>1. h \in Job /\ l \in Job /\ d \in Job /\ d.op = "dispatch"
  BY JobTypes DEF Dispatch
<1>2. Waking(t) /\ d \in Jobs(q)
  <2>1. /\ d \in Jobs(<<Hook(r, outcome)>> \o <<Release(r)>> \o <<Dispatch>> \o rest)
        /\ d \in Jobs(<<Hook(r, outcome)>> \o <<>> \o <<Dispatch>> \o rest)
        /\ d \in Jobs(<<Hook(r, outcome), Dispatch>> \o rest)
        /\ d \in Jobs(<<Dispatch>> \o rest)
    BY EndJobs
  <2>2. d \in Jobs(q)
    BY <2>1
  <2> QED
    BY <1>1, <2>1, <2>2 DEF Waking
<1>3. t \in Seq(Job) /\ Covered(t)
  BY <1>1, CoveredPushed, PushTypes
<1> HIDE DEF h, l, d
<1>4. /\ <<h>> \in Seq(Job) /\ <<l>> \in Seq(Job) /\ <<d>> \in Seq(Job) /\ <<h>> \o <<l>> \in Seq(Job)
      /\ <<h>> \o <<>> = <<h>> /\ <<h, d>> = <<h>> \o <<d>>
  BY <1>1, PushTypes, ConcatEmptySeq
<1>5. /\ <<h>> \o <<l>> \o <<d>> \o rest = (<<h>> \o <<l>>) \o (<<d>> \o rest)
      /\ <<h>> \o <<d>> \o rest = <<h>> \o (<<d>> \o rest)
  BY <1>4, ConcatAssociative
<1>6. q \in {(<<h>> \o <<l>>) \o t, <<h>> \o t, t}
  BY <1>4, <1>5 DEF h, l, d
<1>7. Covered(q)
  BY <1>2, <1>3, <1>4, <1>6, CoveredConcat
<1> QED
  BY <1>1, <1>2, <1>7 DEF Waking

LEMMA TailWakes ==
    ASSUME TypeOK, todo # <<>>, Covered(todo)
    PROVE  /\ Tail(todo) \in Seq(Job) /\ Covered(Tail(todo))
           /\ Waking(todo) /\ Head(todo).op # "dispatch" => Waking(Tail(todo))
           /\ Head(todo).op \in {"release", "erase"} => Waking(Tail(todo))
<1>1. todo \in Seq(Job) /\ Tail(todo) \in Seq(Job) /\ Covered(Tail(todo))
  BY CoveredTail DEF TypeOK, ControlTypes
<1>2. Jobs(todo) = {Head(todo)} \cup Jobs(Tail(todo))
  BY <1>1, JobsTail
<1>3. ASSUME Head(todo).op \in {"release", "erase"} PROVE Waking(Tail(todo))
  <2>1. todo[1] = Head(todo) /\ 1 \in 1..Len(todo) /\ Len(Tail(todo)) = Len(todo) - 1
          /\ \A i \in 1..Len(Tail(todo)) : Tail(todo)[i] = todo[i + 1]
    BY <1>1
  <2>2. PICK k \in 1 + 1..Len(todo) : todo[k].op = "dispatch"
    BY <1>3, <2>1 DEF Covered
  <2>3. k - 1 \in 1..Len(Tail(todo)) /\ Tail(todo)[k - 1] = todo[k]
    BY <1>1, <2>1, <2>2
  <2> QED
    BY <2>2, <2>3 DEF Waking, Jobs
<1> QED
  BY <1>1, <1>2, <1>3 DEF Waking

LEMMA RestWakes ==
    ASSUME TypeOK, todo # <<>>, Covered(todo), NEW r \in Head(todo).runs,
           Head(todo).op \notin {"release", "erase", "dispatch"}
    PROVE  RestOf(r) \in Seq(Job) /\ Covered(RestOf(r)) /\ (Waking(todo) => Waking(RestOf(r)))
<1> DEFINE h == [Head(todo) EXCEPT !.runs = @ \ {r}]
<1>1. Tail(todo) \in Seq(Job) /\ Covered(Tail(todo)) /\ (Waking(todo) => Waking(Tail(todo))) /\ Head(todo) \in Job
  BY TailWakes, RestTypes
<1>2. h.op = Head(todo).op
  BY <1>1 DEF Job
<1>3. RestOf(r) = Tail(todo) \/ RestOf(r) = <<h>> \o Tail(todo)
  BY <1>1 DEF RestOf
<1> HIDE DEF h
<1>4. Covered(<<h>> \o Tail(todo))
  BY <1>1, <1>2, CoveredPushed
<1> QED
  BY <1>1, <1>3, <1>4, RestJobs DEF Waking

\* What planning and asking leave alone.
LEMMA WakePlanning ==
    ASSUME TypeOK, LifeInv, Covered(todo), Woken, NEW r \in Runs
    PROVE  Plan(r) \/ BeginStreamingPlan(r) \/ PlannerPlans(r) \/ PlannerEndsBadly(r) => Covered(todo') /\ Woken'
<1>1. ASSUME Plan(r) \/ BeginStreamingPlan(r) \/ PlannerPlans(r) \/ PlannerEndsBadly(r)
      PROVE  /\ UNCHANGED <<todo, approvedAt, held, up, stopping, deleted, secrets>>
             /\ faults' = 0 => faults = 0
             /\ status[r] # "queued"
             /\ \E s \in RunStatus \cup {"none"} : s # "queued" /\ status' = [status EXCEPT ![r] = s]
  <2>1. UNCHANGED <<todo, approvedAt, held, up, stopping, deleted, secrets>>
    BY <1>1 DEF Plan, BeginStreamingPlan, PlannerPlans, PlannerEndsBadly, memory
  <2>2. status[r] # "queued"
    BY <1>1 DEF Plan, BeginStreamingPlan, PlannerPlans, PlannerEndsBadly, LifeInv, PlannersAtWork
  <2>3. faults' = 0 => faults = 0
    BY <1>1 DEF Plan, BeginStreamingPlan, PlannerPlans, PlannerEndsBadly, TypeOK, ControlTypes
  <2>4. CASE Plan(r) \/ BeginStreamingPlan(r) \/ PlannerPlans(r)
    BY <2>1, <2>2, <2>3, <2>4 DEF Plan, BeginStreamingPlan, PlannerPlans, RunStatus
  <2>5. CASE PlannerEndsBadly(r)
    <3>1. status' = [status EXCEPT ![r] = "failed"] \/ status' = [status EXCEPT ![r] = "cancelled"]
            \/ status' = [status EXCEPT ![r] = status[r]]
      BY <2>5 DEF PlannerEndsBadly, TypeOK, DbTypes
    <3>2. status[r] \in RunStatus \cup {"none"}
      BY DEF TypeOK, DbTypes
    <3> QED
      BY <2>1, <2>2, <2>3, <3>1, <3>2 DEF RunStatus
  <2> QED
    BY <1>1, <2>4, <2>5
<1>2. ASSUME Plan(r) \/ BeginStreamingPlan(r) \/ PlannerPlans(r) \/ PlannerEndsBadly(r)
      PROVE  Woken'
  <2>1. \A q \in Runs : (status[q] # "queued" /\ status'[q] # "queued") \/ status'[q] = status[q]
    BY <1>1, <1>2 DEF TypeOK, DbTypes
  <2> QED
    BY <1>1, <1>2, <2>1, WakeKept
<1> QED
  BY <1>1, <1>2

LEMMA WakeAsking ==
    ASSUME TypeOK, LifeInv, Covered(todo), Woken, NEW r \in Runs
    PROVE  ApproveAsks(r) \/ RetypeAsks(r) \/ Cancel(r) \/ AbortAsks(r) \/ RecoveryFaults(r)
              => Covered(todo') /\ Woken'
<1>1. ASSUME ApproveAsks(r) \/ RetypeAsks(r) \/ Cancel(r) \/ AbortAsks(r) \/ RecoveryFaults(r)
      PROVE  /\ UNCHANGED <<todo, approvedAt, status, up, stopping, deleted, secrets>>
             /\ faults' = 0 => faults = 0
             /\ \A q \in Runs : held[q] \subseteq held'[q]
  <2>1. CASE ApproveAsks(r) \/ RetypeAsks(r) \/ Cancel(r) \/ AbortAsks(r)
    BY <2>1 DEF ApproveAsks, RetypeAsks, Cancel, AbortAsks, db
  <2>2. CASE RecoveryFaults(r)
    <3>1. \A q \in Runs : held[q] \subseteq held'[q]
      BY <2>2 DEF RecoveryFaults, acquireLocks, TypeOK, DbTypes
    <3>2. faults' # 0
      BY <2>2 DEF RecoveryFaults, TypeOK, ControlTypes
    <3> QED
      BY <2>2, <3>1, <3>2 DEF RecoveryFaults, memory
  <2> QED
    BY <1>1, <2>1, <2>2
<1> QED
  BY <1>1, WakeKept

\* The requests that dispatch.
LEMMA WakeApproving ==
    ASSUME TypeOK, NEW r \in Runs
    PROVE  Approve(r) \/ Retype(r) \/ AbortSettles(r) \/ DeleteRun(r) => Covered(todo') /\ Woken'
<1>d. Dispatch.op = "dispatch" /\ Dispatch \in Job /\ Erase(r) \in Job /\ Hook(r, "cancelled") \in Job
  BY JobTypes DEF Dispatch, Outcome
<1>1. CASE Approve(r) \/ Retype(r)
  <2>1. todo' = <<Dispatch>>
    BY <1>1 DEF Approve, JoinQueue, Retype
  <2> QED
    BY <1>d, <2>1, CoveredShort, JobsListed, WakeComing DEF Waking
<1>2. CASE AbortSettles(r)
  <2>1. todo' = <<Release(r), Dispatch>>
    BY <1>2 DEF AbortSettles
  <2>2. Covered(todo')
    BY <1>d, <2>1, CoveredShort
  <2>3. Dispatch \in Jobs(todo')
    BY <2>1, JobsListed
  <2> QED
    BY <1>d, <2>2, <2>3, WakeComing DEF Waking
<1>3. CASE DeleteRun(r)
  <2> DEFINE t == <<Erase(r), Dispatch>>
  <2>1. t \in Seq(Job) /\ <<Hook(r, "cancelled")>> \in Seq(Job)
    BY <1>d
  <2>2. Covered(t) /\ Waking(t)
    <3>1. Covered(t)
      BY <1>d, CoveredShort
    <3>2. Dispatch \in Jobs(t)
      BY JobsListed
    <3> QED
      BY <1>d, <3>1, <3>2 DEF Waking
  <2>3. todo' = <<Hook(r, "cancelled")>> \o t \/ todo' = <<>> \o t
    BY <1>3 DEF DeleteRun
  <2> HIDE DEF t
  <2>4. <<>> \o t = t
    BY <2>1, ConcatEmptySeq
  <2>5. Covered(todo')
    BY <2>1, <2>2, <2>3, <2>4, CoveredConcat
  <2>6. Waking(todo')
    BY <2>1, <2>2, <2>3, <2>4, JobsConcat DEF Waking
  <2> QED
    BY <2>5, <2>6, WakeComing
<1> QED
  BY <1>1, <1>2, <1>3

LEMMA WakeEnding ==
    ASSUME TypeOK, LifeInv, Covered(todo), Woken, NEW r \in Runs
    PROVE  Discard(r) \/ CancelPaused(r) => Covered(todo') /\ Woken'
<1>d. /\ Dispatch.op = "dispatch" /\ Dispatch \in Job /\ Hook(r, "cancelled") \in Job
      /\ Hook(r, "cancelled").op = "hook" /\ <<Hook(r, "cancelled")>> \in Seq(Job)
  <2>1. Dispatch \in Job /\ Hook(r, "cancelled") \in Job
    BY JobTypes DEF Outcome
  <2>2. Dispatch.op = "dispatch" /\ Hook(r, "cancelled").op = "hook"
    BY DEF Dispatch, Hook
  <2> QED
    BY <2>1, <2>2
<1>1. CASE Discard(r)
  <2>1. CASE status[r] = "queued"
    <3>1. todo' = <<Hook(r, "cancelled")>> \o <<Dispatch>>
      BY <1>1, <2>1 DEF Discard
    <3>2. <<Dispatch>> \in Seq(Job) /\ Covered(<<Dispatch>>) /\ Waking(<<Dispatch>>)
      BY <1>d, CoveredShort, JobsListed DEF Waking
    <3>3. Covered(todo')
      BY <1>d, <3>1, <3>2, CoveredConcat
    <3>4. Dispatch \in Jobs(todo')
      BY <1>d, <3>1, JobsJoined
    <3> QED
      BY <1>d, <3>3, <3>4, WakeComing DEF Waking
  <2>2. CASE status[r] # "queued"
    <3>1. todo' = <<Hook(r, "cancelled")>> \o <<>> /\ todo = <<>>
      BY <1>1, <2>2 DEF Discard, Serving
    <3>2. Covered(todo')
      BY <1>d, <3>1, CoveredShort, ConcatEmptySeq
    <3>3. ~Waking(todo)
      BY <3>1, JobsEmpty DEF Waking
    <3>4. \A q \in Runs : \/ status[q] # "queued" /\ status'[q] # "queued"
                          \/ /\ status'[q] = status[q] /\ (q \in deleted' <=> q \in deleted)
                             /\ (q \in secrets' <=> q \in secrets)
      BY <1>1, <2>2 DEF Discard, TypeOK, DbTypes
    <3> QED
      BY <1>1, <3>2, <3>3, <3>4, WakeKept DEF Discard
  <2> QED
    BY <2>1, <2>2
<1>2. CASE CancelPaused(r)
  <2>1. todo' = <<Hook(r, "cancelled")>> /\ stopping'
    BY <1>2 DEF CancelPaused, memory
  <2> QED
    BY <1>d, <2>1, CoveredShort DEF Woken
<1> QED
  BY <1>1, <1>2

LEMMA WakeHandler ==
    ASSUME TypeOK, LifeInv, Covered(todo), Woken
    PROVE  TellHook \/ ReleaseLocks \/ EraseRun \/ DispatchQueue \/ DispatchNothing \/ ExecuteNone
              => Covered(todo') /\ Woken'
<1>t. todo # <<>> =>
        /\ Tail(todo) \in Seq(Job) /\ Covered(Tail(todo))
        /\ Waking(todo) /\ Head(todo).op # "dispatch" => Waking(Tail(todo))
        /\ Head(todo).op \in {"release", "erase"} => Waking(Tail(todo))
  BY TailWakes
<1>1. CASE TellHook \/ ExecuteNone
  <2>1. todo' = Tail(todo) /\ todo # <<>> /\ Head(todo).op # "dispatch"
          /\ UNCHANGED <<approvedAt, held, status, deleted, secrets, up, stopping, faults>>
    BY <1>1 DEF TellHook, ExecuteNone, Doing, db, memory
  <2> QED
    BY <1>t, <2>1, WakeKept
<1>2. CASE ReleaseLocks \/ EraseRun
  <2>1. todo' = Tail(todo) /\ todo # <<>> /\ Head(todo).op \in {"release", "erase"}
    BY <1>2 DEF ReleaseLocks, EraseRun, Doing
  <2> QED
    BY <1>t, <2>1, WakeComing
<1>3. CASE DispatchQueue
  <2> DEFINE S == Startable(held, approvedAt, Reserving)
  <2>1. todo' = <<Execute(S)>> \o Tail(todo) /\ todo # <<>>
    BY <1>3 DEF DispatchQueue, Doing
  <2>2. Covered(todo')
    <3>1. Execute(S).op = "execute"
      BY DEF Execute
    <3> QED
      BY <1>t, <2>1, <3>1, CoveredPushed
  <2>3. S \subseteq Reserving /\ Reserving \subseteq Runs
    BY DEF Startable, Reserving
  <2>4. \A r \in Runs : status'[r] = IF r \in S THEN "approved" ELSE status[r]
    BY <1>3 DEF DispatchQueue
  <2>5. \A r \in Runs : held'[r] = IF r \in S THEN held[r] \cup ClaimsOf[r] ELSE held[r]
    BY <1>3 DEF DispatchQueue
  <2>6. UNCHANGED <<approvedAt, deleted, secrets>>
    BY <1>3 DEF DispatchQueue, memory
  <2>7. Reserving' = Reserving \ S
    <3> HIDE DEF S
    <3> QED
      BY <2>3, <2>4, <2>6 DEF Reserving, needsSecrets
  <2>8. Startable(held', approvedAt, Reserving \ S) = {}
    BY <2>3, <2>5, WalkIsExhaustive
  <2>9. Startable(held', approvedAt', Reserving') = {}
    BY <2>6, <2>7, <2>8
  <2> QED
    BY <2>2, <2>9 DEF Woken
<1>4. CASE DispatchNothing
  <2>1. todo' = Tail(todo) /\ todo # <<>> /\ (stopping' \/ faults' > 0)
    BY <1>4 DEF DispatchNothing, Doing, memory, TypeOK, ControlTypes
  <2> QED
    BY <1>t, <2>1 DEF Woken
<1> QED
  BY <1>1, <1>2, <1>3, <1>4

\* A run's failure, recorded or not, dispatches.
LEMMA WakeFail ==
    ASSUME NEW r \in Runs, NEW rest \in Seq(Job), Covered(rest), RecordsFailure(r, rest) \/ CannotRecord(rest)
    PROVE  Covered(todo') /\ Woken'
<1>1. todo' = <<Hook(r, "failed"), Dispatch>> \o rest \/ todo' = <<Dispatch>> \o rest
  BY DEF RecordsFailure, CannotRecord
<1>2. "failed" \in Outcome
  BY DEF Outcome
<1>3. Covered(todo') /\ Waking(todo')
  BY <1>1, <1>2, CoveredEnd
<1> QED
  BY <1>3, WakeComing

LEMMA WakeEnds ==
    ASSUME NEW e \in Exec, NEW outcome \in Outcome, NEW release \in {<<>>, <<Release(e.run)>>},
           NEW rest \in Seq(Job), Covered(rest), Ends(e, outcome, release, rest)
    PROVE  Covered(todo') /\ Woken'
<1>1. e.run \in Runs
  BY DEF Exec
<1>2. \/ todo' = <<Hook(e.run, outcome)>> \o <<>> \o <<Dispatch>> \o rest
      \/ todo' = <<Hook(e.run, outcome)>> \o <<Release(e.run)>> \o <<Dispatch>> \o rest
  BY DEF Ends
<1>3. Covered(todo') /\ Waking(todo')
  BY <1>1, <1>2, CoveredEnd
<1> QED
  BY <1>3, WakeComing

LEMMA WakeExecute ==
    ASSUME TypeOK, LifeInv, Covered(todo), Woken
    PROVE  ExecuteRefused \/ ExecuteFaults \/ ExecuteRun => Covered(todo') /\ Woken'
<1>b. ASSUME Doing("execute"), NEW r \in Head(todo).runs
      PROVE  /\ r \in Runs /\ Began(r) /\ RestOf(r) \in Seq(Job) /\ Covered(RestOf(r))
             /\ Waking(todo) => Waking(RestOf(r))
  BY <1>b, RestTypes, TimelyTail, TimelyTodo, RestWakes DEF Doing, Timely
<1>1. CASE ExecuteRefused \/ ExecuteFaults
  <2>1. PICK r \in Head(todo).runs : RecordsFailure(r, RestOf(r)) \/ CannotRecord(RestOf(r))
    BY <1>1 DEF ExecuteRefused, ExecuteFaults, FailRun, FaultFails
  <2>2. Doing("execute")
    BY <1>1 DEF ExecuteRefused, ExecuteFaults
  <2> QED
    BY <1>b, <2>1, <2>2, WakeFail
<1>2. CASE ExecuteRun
  <2>1. PICK r \in Head(todo).runs, id \in 1..MaxExecs :
            /\ status' = [status EXCEPT ![r] = "running"]
            /\ todo' = <<Walk(r, id)>> \o RestOf(r)
    BY <1>2, Zenon DEF ExecuteRun
  <2>2. r \in Runs /\ Began(r) /\ RestOf(r) \in Seq(Job) /\ Covered(RestOf(r)) /\ (Waking(todo) => Waking(RestOf(r)))
    BY <1>2, <1>b DEF ExecuteRun
  <2>3. Walk(r, id).op = "walk"
    BY DEF Walk
  <2>4. Covered(todo')
    BY <2>1, <2>2, <2>3, CoveredPushed
  <2>5. Waking(todo) => Waking(todo')
    BY <2>1, <2>2, JobsPushed DEF Waking
  <2>6. \A q \in Runs : (status[q] # "queued" /\ status'[q] # "queued") \/ status'[q] = status[q]
    BY <2>1, <2>2 DEF Began, TypeOK, DbTypes
  <2>7. UNCHANGED <<approvedAt, held, deleted, secrets, up, stopping, faults>>
    BY <1>2 DEF ExecuteRun
  <2>8. Woken'
    BY <2>5, <2>6, <2>7, WakeKept
  <2> QED
    BY <2>4, <2>8
<1> QED
  BY <1>1, <1>2

LEMMA WakeWalk ==
    ASSUME TypeOK, LifeInv, Covered(todo), Woken, NEW e \in execs
    PROVE  WalkCompletes(e) \/ WalkCancelled(e) \/ WalkPauses(e) \/ WalkFindsNoStep(e) \/ WalkStartsStep(e)
              \/ WalkFindsTornStep(e) \/ WalkFaults(e) => Covered(todo') /\ Woken'
<1>e. e \in Exec /\ e.run \in Runs
  BY DEF TypeOK, MemoryTypes, Exec
<1>b. Walking(e) => Tail(todo) \in Seq(Job) /\ Covered(Tail(todo)) /\ (Waking(todo) => Waking(Tail(todo)))
  BY TailWakes DEF Walking, Doing
<1>1. CASE WalkCompletes(e) \/ WalkCancelled(e) \/ WalkFindsNoStep(e)
  <2>1. PICK outcome \in Outcome, release \in {<<>>, <<Release(e.run)>>} : Ends(e, outcome, release, Tail(todo))
    BY <1>1 DEF WalkCompletes, WalkCancelled, WalkFindsNoStep, Outcome
  <2>2. Walking(e)
    BY <1>1 DEF WalkCompletes, WalkCancelled, WalkFindsNoStep
  <2> QED
    BY <1>e, <1>b, <2>1, <2>2, WakeEnds
<1>2. CASE WalkPauses(e)
  BY <1>2, <1>b DEF WalkPauses, Woken
<1>3. CASE WalkStartsStep(e)
  <2>1. todo' = Tail(todo) /\ Walking(e)
          /\ UNCHANGED <<approvedAt, held, status, deleted, secrets, up, stopping, faults>>
    BY <1>3 DEF WalkStartsStep
  <2> QED
    BY <1>b, <2>1, WakeKept
<1>4. CASE WalkFindsTornStep(e) \/ WalkFaults(e)
  <2>1. RecordsFailure(e.run, Tail(todo)) \/ CannotRecord(Tail(todo))
    BY <1>4 DEF WalkFindsTornStep, WalkFaults, FailRun, FaultFails
  <2>2. Walking(e)
    BY <1>4 DEF WalkFindsTornStep, WalkFaults
  <2> QED
    BY <1>e, <1>b, <2>1, <2>2, WakeFail
<1> QED
  BY <1>1, <1>2, <1>3, <1>4

LEMMA WakeSteps ==
    ASSUME TypeOK, LifeInv, Covered(todo), Woken, NEW e \in execs
    PROVE  (\E c \in Cleanups : StepRegistersCleanup(e, c)) \/ StepOk(e) \/ (\E b \in BOOLEAN : StepThrows(e, b))
              \/ StepFaults(e) => Covered(todo') /\ Woken'
<1>e. e \in Exec /\ e.run \in Runs /\ <<>> \in Seq(Job) /\ Covered(<<>>)
  BY CoveredShort DEF TypeOK, MemoryTypes, Exec
<1>1. CASE \E c \in Cleanups : StepRegistersCleanup(e, c)
  <2>1. UNCHANGED <<todo, approvedAt, held, status, deleted, secrets, up, stopping, faults>>
    BY <1>1 DEF StepRegistersCleanup, memory
  <2> QED
    BY <2>1, WakeKept
<1>2. CASE StepOk(e)
  <2>1. /\ UNCHANGED <<approvedAt, held, status, deleted, secrets, up, stopping, faults>>
        /\ todo = <<>> /\ todo' = <<Walk(e.run, e.id)>>
    BY <1>2 DEF StepOk, Running, Serving
  <2>2. Walk(e.run, e.id).op = "walk"
    BY DEF Walk
  <2>3. ~Waking(todo) /\ Covered(todo')
    BY <2>1, <2>2, JobsEmpty, CoveredShort DEF Waking
  <2> QED
    BY <2>1, <2>3, WakeKept
<1>3. CASE \E b \in BOOLEAN : StepThrows(e, b)
  <2>1. PICK outcome \in Outcome : Ends(e, outcome, <<>>, <<>>)
    BY <1>3 DEF StepThrows, Outcome
  <2> QED
    BY <1>e, <2>1, WakeEnds
<1>4. CASE StepFaults(e)
  <2>1. RecordsFailure(e.run, <<>>) \/ CannotRecord(<<>>)
    BY <1>4 DEF StepFaults, FaultFails
  <2> QED
    BY <1>e, <2>1, WakeFail
<1> QED
  BY <1>1, <1>2, <1>3, <1>4

\* A run that is taken up again was not in line.
LEMMA WakeTakenUp ==
    ASSUME TypeOK, Woken, NEW r \in Runs, Began(r), todo = <<>>, todo' = <<Execute({r})>>,
           held' = acquireLocks(held, r), status' = [status EXCEPT ![r] = "running"],
           UNCHANGED <<approvedAt, deleted, up, stopping, faults>>, secrets' \in {secrets, secrets \cup {r}}
    PROVE  Covered(todo') /\ Woken'
<1>1. Execute({r}).op = "execute"
  BY DEF Execute
<1>2. Covered(todo') /\ ~Waking(todo)
  BY <1>1, CoveredShort, JobsEmpty DEF Waking
<1>3. \A q \in Runs : held[q] \subseteq held'[q]
  BY DEF acquireLocks, TypeOK, DbTypes
<1>4. \A q \in Runs : \/ status[q] # "queued" /\ status'[q] # "queued"
                      \/ /\ status'[q] = status[q] /\ (q \in deleted' <=> q \in deleted)
                         /\ (q \in secrets' <=> q \in secrets)
  BY DEF Began, TypeOK, DbTypes
<1> QED
  BY <1>2, <1>3, <1>4, WakeKept

LEMMA WakeRecovering ==
    ASSUME TypeOK, LifeInv, Covered(todo), Woken, NEW r \in Runs
    PROVE  (\E x \in Rows : Retry(r, x) \/ Skip(r, x)) \/ Abort(r) => Covered(todo') /\ Woken'
<1>a. \A q \in Runs : armed[q] # {} \/ q \in started => Began(q)
  BY DEF LifeInv, OnlyForBegun
<1>1. CASE \E x \in Rows : Retry(r, x) \/ Skip(r, x)
  <2>1. /\ Recoverable(r) /\ todo = <<>> /\ todo' = <<Execute({r})>> /\ held' = acquireLocks(held, r)
        /\ status' = [status EXCEPT ![r] = "running"]
        /\ UNCHANGED <<approvedAt, deleted, up, stopping, faults>> /\ secrets' \in {secrets, secrets \cup {r}}
    BY <1>1 DEF Retry, Skip, Serving, memory
  <2>2. Began(r)
    BY <1>a, <2>1 DEF Recoverable, Began, LifeInv, PlannersAtWork
  <2> QED
    BY <2>1, <2>2, WakeTakenUp
<1>2. CASE Abort(r)
  <2>1. /\ todo = <<>> /\ todo' = <<Execute({r})>> /\ held' = acquireLocks(held, r)
        /\ status' = [status EXCEPT ![r] = "running"]
        /\ UNCHANGED <<approvedAt, deleted, up, stopping, faults>> /\ secrets' \in {secrets, secrets \cup {r}}
    BY <1>2 DEF Abort, AbortSchedules, Serving
  <2>2. Began(r)
    BY <1>2, <1>a DEF Abort
  <2> QED
    BY <2>1, <2>2, WakeTakenUp
<1> QED
  BY <1>1, <1>2

LEMMA WakeAnswers ==
    ASSUME TypeOK, LifeInv, Covered(todo), Woken, NEW w \in waiting
    PROVE  Answer(w) => Covered(todo') /\ Woken'
<1>w. w.run \in Runs
  BY DEF TypeOK, MemoryTypes, Request
<1>1. CASE ApproveAnswered(w) \/ RetypeAnswered(w)
  <2>1. todo' = <<Dispatch>> /\ Dispatch.op = "dispatch"
    BY <1>1 DEF ApproveAnswered, JoinQueue, RetypeAnswered, Dispatch
  <2> QED
    BY <2>1, CoveredShort, JobsListed, WakeComing DEF Waking
<1>2. CASE AbortAnswered(w)
  <2>1. /\ todo = <<>> /\ todo' = <<Execute({w.run})>> /\ held' = acquireLocks(held, w.run)
        /\ status' = [status EXCEPT ![w.run] = "running"]
        /\ UNCHANGED <<approvedAt, deleted, up, stopping, faults>> /\ secrets' \in {secrets, secrets \cup {w.run}}
    BY <1>2 DEF AbortAnswered, AbortSchedules, Serving
  <2>2. Began(w.run)
    BY <1>2 DEF AbortAnswered, LifeInv, OnlyForBegun
  <2> QED
    BY <1>w, <2>1, <2>2, WakeTakenUp
<1>3. CASE AbortCollides(w)
  <2>1. \A q \in Runs : held[q] \subseteq held'[q]
    BY <1>3 DEF AbortCollides, acquireLocks, TypeOK, DbTypes
  <2> QED
    BY <1>3, <2>1, WakeKept DEF AbortCollides
<1>4. CASE RequestRefused(w)
  <2>1. UNCHANGED <<todo, approvedAt, held, status, deleted, secrets, up, stopping, faults>>
    BY <1>4 DEF RequestRefused, db
  <2> QED
    BY <2>1, WakeKept
<1> QED
  BY <1>1, <1>2, <1>3, <1>4 DEF Answer

LEMMA WakeProcess ==
    ASSUME TypeOK, LifeInv, Covered(todo), Woken
    PROVE  Shutdown \/ Exit \/ Crash \/ (\E r \in Runs : CrashAfterAcquire(r)) \/ Boot
              \/ FailOrphanedPlanning \/ ResumePending \/ ResumeGivesUp => Covered(todo') /\ Woken'
<1>t. todo # <<>> =>
        /\ Tail(todo) \in Seq(Job) /\ Covered(Tail(todo))
        /\ Waking(todo) /\ Head(todo).op # "dispatch" => Waking(Tail(todo))
  BY TailWakes
<1>1. CASE Shutdown
  BY <1>1 DEF Shutdown, Woken
<1>2. CASE Exit \/ Crash \/ \E r \in Runs : CrashAfterAcquire(r)
  BY <1>2, CoveredShort DEF Exit, Crash, CrashAfterAcquire, Dies, Woken
<1>3. CASE Boot
  <2> DEFINE f == FailAll({r \in Runs : status[r] = "planning"})
  <2>1. \/ todo' = <<f, Resume, Dispatch>>
        \/ todo' = <<>> /\ faults' > 0
    BY <1>3 DEF Boot, TypeOK, ControlTypes
  <2>2. Dispatch.op = "dispatch"
    BY DEF Dispatch
  <2> HIDE DEF f
  <2>3. CASE todo' = <<f, Resume, Dispatch>>
    <3>1. Dispatch \in Jobs(todo')
      BY <2>3, JobsListed
    <3>2. Covered(todo')
      BY <2>2, <2>3, CoveredShort
    <3> QED
      BY <2>2, <3>1, <3>2, WakeComing DEF Waking
  <2>4. CASE todo' = <<>> /\ faults' > 0
    BY <2>4, CoveredShort DEF Woken
  <2> QED
    BY <2>1, <2>3, <2>4
<1>4. CASE FailOrphanedPlanning
  <2>0. todo # <<>> /\ Head(todo).op = "failAll"
    BY <1>4 DEF FailOrphanedPlanning, Doing
  <2>1. CASE todo' = Tail(todo) /\ UNCHANGED <<status, secrets, faults>>
    <3>1. UNCHANGED <<approvedAt, held, deleted, up, stopping>>
      BY <1>4 DEF FailOrphanedPlanning
    <3> QED
      BY <1>t, <2>0, <2>1, <3>1, WakeKept
  <2>2. CASE \E r \in Head(todo).runs : FailRun(r, RestOf(r))
    <3>1. PICK r \in Head(todo).runs : RecordsFailure(r, RestOf(r)) \/ CannotRecord(RestOf(r))
      BY <2>2 DEF FailRun
    <3>2. r \in Runs /\ RestOf(r) \in Seq(Job) /\ Covered(RestOf(r))
      BY <2>0, RestTypes, RestWakes
    <3> QED
      BY <3>1, <3>2, WakeFail
  <2> QED
    BY <1>4, <2>1, <2>2 DEF FailOrphanedPlanning
<1>5. CASE ResumePending
  <2> DEFINE P == {r \in Runs : status[r] \in {"running", "approved"}}
  <2>1. todo' = <<Execute(P)>> \o Tail(todo) /\ todo # <<>> /\ Head(todo).op = "resume"
    BY <1>5 DEF ResumePending, Doing
  <2>2. Execute(P).op = "execute"
    BY DEF Execute
  <2> HIDE DEF P
  <2>3. Covered(todo')
    BY <1>t, <2>1, <2>2, CoveredPushed
  <2>4. Waking(todo) => Waking(todo')
    BY <1>t, <2>1, JobsPushed DEF Waking
  <2>5. UNCHANGED <<approvedAt, held, status, deleted, secrets, up, stopping, faults>>
    BY <1>5 DEF ResumePending, memory
  <2> QED
    BY <2>3, <2>4, <2>5, WakeKept
<1>6. CASE ResumeGivesUp
  <2>1. todo' = <<>> /\ faults' > 0
    BY <1>6 DEF ResumeGivesUp, TypeOK, ControlTypes
  <2> QED
    BY <2>1, CoveredShort DEF Woken
<1> QED
  BY <1>1, <1>2, <1>3, <1>4, <1>5, <1>6

LEMMA WakeNext ==
    ASSUME TypeOK, LifeInv, Covered(todo), Woken, [Next]_vars
    PROVE  Covered(todo') /\ Woken'
<1>1. CASE UNCHANGED vars
  BY <1>1, WakeKept DEF vars, db, memory
<1>2. CASE Handler
  BY <1>2, WakeHandler, WakeExecute, WakeWalk, WakeProcess DEF Handler
<1>3. CASE \E e \in execs : Step(e) \/ \E c \in Cleanups : StepRegistersCleanup(e, c)
  BY <1>3, WakeSteps DEF Step
<1>4. CASE \E w \in waiting : Answer(w)
  BY <1>4, WakeAnswers
<1>5. CASE \E r \in Runs : Planner(r) \/ Operator(r) \/ CrashAfterAcquire(r)
  BY <1>5, WakePlanning, WakeAsking, WakeApproving, WakeEnding, WakeRecovering, WakeProcess DEF Planner, Operator
<1>6. CASE Shutdown \/ Exit \/ Crash \/ Boot
  BY <1>6, WakeProcess
<1> QED
  BY <1>1, <1>2, <1>3, <1>4, <1>5, <1>6 DEF Next

LEMMA QueueInit == Init => QueueInv
<1> SUFFICES ASSUME Init PROVE QueueInv
  OBVIOUS
<1>1. TypeOK /\ LifeInv
  BY TypeInit, LifeInit
<1>2. Covered(todo) /\ Startable(held, approvedAt, Reserving) = {}
  BY CoveredShort DEF Init, Startable, Reserving
<1> QED
  BY <1>1, <1>2 DEF QueueInv, Woken

\* Whatever operators, planners, executions, crashes and boots do and in whatever order, when no
\* handler is at work every queued run that could start has started, as long as the process is not
\* draining and the database has refused no statement: approve, retype, discard, delete, a run's end
\* and the boot each dispatch after what they free, and one walk of the line leaves nothing behind
\* (queue-dispatch.ts, queue.ts).
THEOREM NoLostWakeUp == Spec => []NoStartableRunLeftQueued
<1>1. Init => QueueInv
  BY QueueInit
<1>2. QueueInv /\ [Next]_vars => QueueInv'
  <2> SUFFICES ASSUME QueueInv, [Next]_vars PROVE QueueInv'
    OBVIOUS
  <2>1. TypeOK /\ LifeInv /\ Covered(todo) /\ Woken
    BY DEF QueueInv
  <2>2. TypeOK'
    BY <2>1, TypeNext
  <2>3. LifeInv'
    BY <2>1, <2>2, LifeNext
  <2>4. Covered(todo') /\ Woken'
    BY <2>1, WakeNext
  <2> QED
    BY <2>2, <2>3, <2>4 DEF QueueInv
<1>3. QueueInv => NoStartableRunLeftQueued
  BY JobsEmpty DEF QueueInv, Woken, NoStartableRunLeftQueued, Serving
<1> QED
  BY <1>1, <1>2, <1>3, PTL DEF Spec

=============================================================================
