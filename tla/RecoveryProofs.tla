--------------------------- MODULE RecoveryProofs ---------------------------
(***************************************************************************)
(* What a chain of retries, skips and aborts may not do to a run's rows:   *)
(* walk past the precondition, start a cleanup too early, or let the run's *)
(* locks go while one of its mutations stands.                             *)
(***************************************************************************)
EXTENDS LeasesProofs

-----------------------------------------------------------------------------
\* The inductive invariant, of the rows.

RowStatus == StepStatus \cup {"none"}
Finished == {"none", "ok", "skipped"}

\* A run has the rows of its whole plan or none of them, each at its own ordinal.
PlanFits(r, s, o) ==
    /\ \A x \in PlanSteps : s[x] # "none" => o[x] = x /\ \A y \in PlanOf[r] : s[y] # "none"
    /\ \A x \in PlanSteps \ PlanOf[r] : s[x] = "none"

\* Cleanup rows stand behind a plan that is over.
Behind(s, o) ==
    \A c \in Cleanups : s[c] # "none" =>
        \A x \in PlanSteps : s[x] \in Finished /\ (s[x] # "none" => o[x] < o[c])

\* The precondition of a mutating run answered ok, or nothing after it was started; it reads skipped
\* only where an abort gave the whole plan up.
Answers(r, s) ==
    r \in Mutating =>
        /\ s[1] # "ok" => \A x \in PlanSteps \ {1} : s[x] \notin {"running", "ok"}
        /\ s[1] = "skipped" => \A x \in PlanSteps : s[x] \in {"none", "skipped"}

RowsFit(r, s, o) == PlanFits(r, s, o) /\ Behind(s, o) /\ Answers(r, s)

\* Only a registered cleanup has a row.
RowsArmed(s, a) == \A c \in Cleanups : s[c] # "none" => c \in a

Fits == \A r \in Runs : RowsFit(r, step[r], ordinal[r]) /\ RowsArmed(step[r], armed[r])

\* An execution has before it every row of its run that is not over, and reads running at its own.
Follows(s, at, left) ==
    /\ {x \in Rows : s[x] \notin Finished} = left \cup ({at} \ {0})
    /\ at \notin left
    /\ at # 0 => s[at] = "running"
Follow == \A e \in execs : Follows(step[e.run], e.at, e.left)

\* The loop goes on with one execution at a time, which is between two steps.
WalkFree(q) == \A j \in Jobs(q) : j.op # "walk"
Walks ==
    /\ todo # <<>> => WalkFree(Tail(todo))
    /\ \A j \in Jobs(todo) : j.op = "walk" => \A e \in execs : e.run \in j.runs => e.at = 0

\* What a suspended abort read still bounds the run's rows.
Waits(w, s, o, a) ==
    /\ w.names \subseteq a
    /\ \A c \in w.rows : s[c] # "none"
    /\ \A x \in PlanSteps : s[x] # "none" => o[x] <= w.top
Wait == \A w \in waiting : w.op = "abort" => Waits(w, step[w.run], ordinal[w.run], armed[w.run])

-----------------------------------------------------------------------------
\* Lemmas about rows.

LEMMA RowNames ==
    /\ Rows = PlanSteps \cup Cleanups /\ PlanSteps \cap Cleanups = {} /\ Rows \subseteq Nat \ {0}
    /\ \A r \in Runs : PlanOf[r] \subseteq PlanSteps
    /\ \A r \in Mutating : r \in Runs /\ 1 \in PlanOf[r] /\ 1 \in PlanSteps
BY StepsAssumption, KindsAssumption DEF Rows

\* One row that is not over moves on.
LEMMA FitsMoved ==
    ASSUME NEW r \in Runs, NEW s \in [Rows -> RowStatus], NEW o \in [Rows -> Nat], RowsFit(r, s, o),
           NEW x \in Rows, s[x] \notin Finished, NEW v \in StepStatus,
           r \in Mutating /\ x \in PlanSteps \ {1} /\ v \in {"running", "ok"} => s[1] = "ok",
           r \in Mutating /\ x = 1 => v # "skipped"
    PROVE  RowsFit(r, [s EXCEPT ![x] = v], o)
<1> DEFINE t == [s EXCEPT ![x] = v]
<1>1. \A y \in Rows : t[y] = IF y = x THEN v ELSE s[y]
  OBVIOUS
<1>2. v # "none" /\ s[x] # "none" /\ s[x] # "ok" /\ s[x] # "skipped"
  BY DEF StepStatus, Finished
<1> HIDE DEF t
<1>3. PlanFits(r, t, o)
  BY <1>1, <1>2, RowNames DEF RowsFit, PlanFits
<1>4. Behind(t, o)
  BY <1>1, <1>2, RowNames DEF RowsFit, Behind, Finished
<1>5. Answers(r, t)
  <2> SUFFICES ASSUME r \in Mutating
               PROVE  /\ t[1] # "ok" => \A y \in PlanSteps \ {1} : t[y] \notin {"running", "ok"}
                      /\ t[1] = "skipped" => \A y \in PlanSteps : t[y] \in {"none", "skipped"}
    BY DEF Answers
  <2>1. /\ s[1] # "ok" => \A y \in PlanSteps \ {1} : s[y] \notin {"running", "ok"}
        /\ s[1] = "skipped" => \A y \in PlanSteps : s[y] \in {"none", "skipped"}
    BY DEF RowsFit, Answers
  <2> QED
    BY <1>1, <1>2, <2>1, RowNames
<1> QED
  BY <1>3, <1>4, <1>5 DEF RowsFit, t

\* A boot sets running rows back, and an operator's retry the rows from one that is not over on.
LEMMA FitsPending ==
    ASSUME NEW r \in Runs, NEW s \in [Rows -> RowStatus], NEW o \in [Rows -> Nat], RowsFit(r, s, o),
           NEW t \in [Rows -> RowStatus],
           \A x \in Rows : t[x] = s[x] \/ (s[x] \notin {"none", "ok"} /\ t[x] = "pending"),
           \A y \in Rows : s[y] = "skipped" /\ t[y] = "pending" =>
               \E x \in Rows : s[x] \notin Finished /\ o[x] <= o[y]
    PROVE  RowsFit(r, t, o)
<1>1. PlanFits(r, t, o)
  BY RowNames DEF RowsFit, PlanFits
<1>2. Behind(t, o)
  <2> SUFFICES ASSUME NEW c \in Cleanups, t[c] # "none", NEW y \in PlanSteps
               PROVE  t[y] \in Finished /\ (t[y] # "none" => o[y] < o[c])
    BY DEF Behind
  <2>1. s[c] # "none" /\ s[y] \in Finished /\ (s[y] # "none" => o[y] < o[c])
    BY RowNames DEF RowsFit, Behind
  <2>2. CASE t[y] = s[y]
    BY <2>1, <2>2
  <2>3. CASE t[y] # s[y]
    <3>1. y \in Rows /\ s[y] = "skipped" /\ t[y] = "pending"
      BY <2>1, <2>3, RowNames DEF Finished
    <3>2. PICK x \in Rows : s[x] \notin Finished /\ o[x] <= o[y]
      BY <3>1
    <3>3. x \in Cleanups /\ s[x] # "none"
      BY <2>1, <3>2, RowNames DEF RowsFit, Behind, Finished
    <3>4. o[y] < o[x]
      BY <3>1, <3>3 DEF RowsFit, Behind
    <3> QED
      BY <3>1, <3>2, <3>4
  <2> QED
    BY <2>2, <2>3
<1>3. Answers(r, t)
  <2> SUFFICES ASSUME r \in Mutating
               PROVE  /\ t[1] # "ok" => \A y \in PlanSteps \ {1} : t[y] \notin {"running", "ok"}
                      /\ t[1] = "skipped" => \A y \in PlanSteps : t[y] \in {"none", "skipped"}
    BY DEF Answers
  <2>1. /\ s[1] # "ok" => \A y \in PlanSteps \ {1} : s[y] \notin {"running", "ok"}
        /\ s[1] = "skipped" => \A y \in PlanSteps : s[y] \in {"none", "skipped"}
    BY DEF RowsFit, Answers
  <2>2. t[1] # "ok" => \A y \in PlanSteps \ {1} : t[y] \notin {"running", "ok"}
    BY <2>1, RowNames
  <2>3. ASSUME t[1] = "skipped", NEW y \in PlanSteps PROVE t[y] \in {"none", "skipped"}
    <3>1. s[1] = "skipped" /\ \A x \in PlanSteps : s[x] \in {"none", "skipped"}
      BY <2>1, <2>3, RowNames
    <3>2. CASE t[y] # s[y]
      <4>1. y \in Rows /\ s[y] = "skipped" /\ t[y] = "pending"
        BY <3>1, <3>2, RowNames
      <4>2. PICK x \in Rows : s[x] \notin Finished /\ o[x] <= o[y]
        BY <4>1
      <4>3. x \in Cleanups /\ s[x] # "none"
        BY <3>1, <4>2, RowNames DEF Finished
      <4>4. o[y] < o[x]
        BY <4>1, <4>3 DEF RowsFit, Behind
      <4> QED
        BY <4>1, <4>2, <4>4
    <3> QED
      BY <3>1, <3>2
  <2> QED
    BY <2>2, <2>3
<1> QED
  BY <1>1, <1>2, <1>3 DEF RowsFit

LEMMA FitsPlanned ==
    ASSUME NEW r \in Runs, NEW s \in [Rows -> RowStatus], NEW o \in [Rows -> Nat], RowsFit(r, s, o),
           \A c \in Cleanups : s[c] = "none"
    PROVE  RowsFit(r, [x \in Rows |-> IF x \in PlanOf[r] THEN "pending" ELSE s[x]],
                      [x \in Rows |-> IF x \in PlanOf[r] THEN x ELSE o[x]])
<1> DEFINE t == [x \in Rows |-> IF x \in PlanOf[r] THEN "pending" ELSE s[x]]
           p == [x \in Rows |-> IF x \in PlanOf[r] THEN x ELSE o[x]]
<1>1. \A x \in Rows : t[x] = (IF x \in PlanOf[r] THEN "pending" ELSE s[x]) /\ p[x] = (IF x \in PlanOf[r] THEN x ELSE o[x])
  OBVIOUS
<1> HIDE DEF t, p
<1>2. \A x \in PlanSteps : IF x \in PlanOf[r] THEN t[x] = "pending" /\ p[x] = x ELSE t[x] = "none"
  BY <1>1, RowNames DEF RowsFit, PlanFits
<1>3. \A c \in Cleanups : t[c] = "none"
  BY <1>1, RowNames
<1>4. PlanFits(r, t, p) /\ Behind(t, p)
  BY <1>2, <1>3, RowNames DEF PlanFits, Behind
<1>5. Answers(r, t)
  BY <1>2, RowNames DEF Answers
<1> QED
  BY <1>4, <1>5 DEF RowsFit, t, p

LEMMA FitsAbandoned ==
    ASSUME NEW r \in Runs, NEW s \in [Rows -> RowStatus], NEW o \in [Rows -> Nat], RowsFit(r, s, o)
    PROVE  /\ RowsFit(r, abandonUnfinished(s), o) /\ abandonUnfinished(s) \in [Rows -> RowStatus]
           /\ \A x \in Rows : /\ abandonUnfinished(s)[x] \in Finished
                              /\ abandonUnfinished(s)[x] = "none" <=> s[x] = "none"
<1> DEFINE t == abandonUnfinished(s)
<1>1. t \in [Rows -> RowStatus] /\ \A x \in Rows : t[x] = IF s[x] \in {"none", "ok"} THEN s[x] ELSE "skipped"
  BY DEF abandonUnfinished, RowStatus, StepStatus
<1> HIDE DEF t
<1>2. \A x \in Rows : t[x] \in Finished /\ (t[x] = "none" <=> s[x] = "none")
  BY <1>1 DEF Finished
<1>3. PlanFits(r, t, o)
  BY <1>2, RowNames DEF RowsFit, PlanFits
<1>4. Behind(t, o)
  BY <1>2, RowNames DEF RowsFit, Behind
<1>5. Answers(r, t)
  BY <1>1, RowNames DEF RowsFit, Answers
<1> QED
  BY <1>1, <1>2, <1>3, <1>4, <1>5 DEF RowsFit, t

\* An abort gives the plan up and appends its cleanups behind the last ordinal it read.
LEMMA FitsScheduled ==
    ASSUME NEW r \in Runs, NEW s \in [Rows -> RowStatus], NEW o \in [Rows -> Nat], RowsFit(r, s, o),
           NEW names \in SUBSET Cleanups, NEW seen \in SUBSET Cleanups, NEW top \in Nat,
           \A c \in seen : s[c] # "none", \A x \in PlanSteps : s[x] # "none" => o[x] <= top
    PROVE  /\ RowsFit(r, scheduleCleanupSteps(s, names), CleanupOrdinals(o, seen, names, top))
           /\ \A x \in Rows : x \notin names => (scheduleCleanupSteps(s, names)[x] = "none" <=> s[x] = "none")
<1> DEFINE t == scheduleCleanupSteps(s, names)
           p == CleanupOrdinals(o, seen, names, top)
           b == abandonUnfinished(s)
           n(x) == Cardinality({d \in names : RunsBefore(d, x)})
<1>1. /\ \A x \in Rows : t[x] = IF x \in names THEN "pending" ELSE b[x]
      /\ \A x \in Rows : p[x] = IF x \in names \ seen THEN top + 1 + n(x) ELSE o[x]
  BY DEF scheduleCleanupSteps, CleanupOrdinals
<1>2. RowsFit(r, b, o) /\ \A x \in Rows : b[x] \in Finished /\ (b[x] = "none" <=> s[x] = "none")
  BY FitsAbandoned
<1>3. \A x \in Rows : n(x) \in Nat
  <2>1. \A x \in Rows : IsFiniteSet({d \in names : RunsBefore(d, x)})
    BY FS_Subset, StepsAssumption
  <2> QED
    BY <2>1, FS_CardinalityType
<1> HIDE DEF t, p, b, n
<1>4. \A x \in PlanSteps : x \in Rows /\ x \notin names /\ t[x] = b[x] /\ p[x] = o[x]
  BY <1>1, RowNames
<1>5. PlanFits(r, t, p)
  BY <1>2, <1>4, RowNames DEF RowsFit, PlanFits
<1>6. Behind(t, p)
  <2> SUFFICES ASSUME NEW c \in Cleanups, t[c] # "none", NEW x \in PlanSteps
               PROVE  t[x] \in Finished /\ (t[x] # "none" => p[x] < p[c])
    BY DEF Behind
  <2>0. c \in Rows /\ x \in Rows /\ t[x] \in Finished
    BY <1>2, <1>4, RowNames
  <2>1. ASSUME t[x] # "none" PROVE p[x] < p[c]
    <3>1. s[x] # "none" /\ p[x] = o[x] /\ o[x] <= top
      BY <1>2, <1>4, <2>1
    <3>2. CASE c \in names \ seen
      <4>1. p[c] = top + 1 + n(c) /\ n(c) \in Nat /\ o[x] \in Nat
        BY <1>1, <1>3, <2>0, <3>2
      <4> QED
        BY <3>1, <4>1
    <3>3. CASE c \notin names \ seen
      <4>1. s[c] # "none" /\ p[c] = o[c]
        BY <1>1, <1>2, <2>0, <3>3
      <4> QED
        BY <3>1, <4>1 DEF RowsFit, Behind
    <3> QED
      BY <3>2, <3>3
  <2> QED
    BY <2>0, <2>1
<1>7. Answers(r, t)
  BY <1>2, <1>4, RowNames DEF RowsFit, Answers
<1>8. \A x \in Rows : x \notin names => (t[x] = "none" <=> s[x] = "none")
  BY <1>1, <1>2
<1> QED
  BY <1>5, <1>6, <1>7, <1>8 DEF RowsFit, t, p

-----------------------------------------------------------------------------
\* What a step adds to the work list.

\* The entries the running handler keeps.
Left == IF todo = <<>> THEN {} ELSE Jobs(Tail(todo))

Plain(q) == \A j \in Jobs(q) : j \in Left \/ j.op \notin {"walk", "release"}

NewWalk(j) == j.op = "walk" /\ (ExecuteRun \/ \E e \in execs : StepOk(e))

NewRelease(j) ==
    /\ j.op = "release"
    /\ \/ \E e \in execs : WalkCompletes(e) /\ j.runs = {e.run}
       \/ \E r \in Runs : AbortSettles(r) /\ j.runs = {r}

LEMMA JobOps ==
    /\ Dispatch.op = "dispatch" /\ Resume.op = "resume"
    /\ \A r, o : Hook(r, o).op = "hook"
    /\ \A r : Erase(r).op = "erase" /\ Release(r).op = "release" /\ Release(r).runs = {r}
    /\ \A S : Execute(S).op = "execute" /\ FailAll(S).op = "failAll"
    /\ \A r, id : Walk(r, id).op = "walk" /\ Walk(r, id).runs = {r} /\ Walk(r, id).id = id
BY DEF Dispatch, Resume, Hook, Erase, Release, Execute, FailAll, Walk

LEMMA PlainLists ==
    ASSUME TypeOK
    PROVE  /\ Plain(<<>>) /\ Plain(<<Dispatch>>)
           /\ todo # <<>> => Tail(todo) \in Seq(Job) /\ Plain(Tail(todo))
           /\ \A a, q : q \in Seq(Job) /\ Plain(q) /\ a.op \notin {"walk", "release"} => Plain(<<a>> \o q)
           /\ \A a, b : a.op \notin {"walk", "release"} /\ b.op \notin {"walk", "release"} => Plain(<<a>>) /\ Plain(<<a, b>>)
           /\ \A a, b, c : a.op \notin {"walk", "release"} /\ b.op \notin {"walk", "release"} /\ c.op \notin {"walk", "release"}
                 => Plain(<<a, b, c>>)
<1>1. Plain(<<>>) /\ Plain(<<Dispatch>>)
  BY JobsEmpty, JobsListed, JobOps DEF Plain
<1>2. todo # <<>> => Tail(todo) \in Seq(Job) /\ Plain(Tail(todo))
  BY DEF Plain, Left, TypeOK, ControlTypes
<1>3. ASSUME NEW a, NEW q \in Seq(Job), Plain(q), a.op \notin {"walk", "release"} PROVE Plain(<<a>> \o q)
  BY <1>3, JobsPushed DEF Plain
<1>4. /\ \A a, b : a.op \notin {"walk", "release"} /\ b.op \notin {"walk", "release"} => Plain(<<a>>) /\ Plain(<<a, b>>)
      /\ \A a, b, c : a.op \notin {"walk", "release"} /\ b.op \notin {"walk", "release"} /\ c.op \notin {"walk", "release"}
                 => Plain(<<a, b, c>>)
  BY JobsListed DEF Plain
<1> QED
  BY <1>1, <1>2, <1>3, <1>4

LEMMA PlainEnd ==
    ASSUME NEW r \in Runs, NEW outcome \in Outcome, NEW rest \in Seq(Job), Plain(rest),
           \/ todo' = <<Hook(r, outcome)>> \o <<>> \o <<Dispatch>> \o rest
           \/ RecordsFailure(r, rest) \/ CannotRecord(rest)
    PROVE  Plain(todo')
<1>1. /\ Jobs(<<Hook(r, outcome)>> \o <<Release(r)>> \o <<Dispatch>> \o rest)
             = {Hook(r, outcome), Release(r), Dispatch} \cup Jobs(rest)
      /\ Jobs(<<Hook(r, outcome)>> \o <<>> \o <<Dispatch>> \o rest)
             = {Hook(r, outcome), Dispatch} \cup Jobs(rest)
      /\ Jobs(<<Hook(r, outcome), Dispatch>> \o rest) = {Hook(r, outcome), Dispatch} \cup Jobs(rest)
      /\ Jobs(<<Dispatch>> \o rest) = {Dispatch} \cup Jobs(rest)
  BY EndJobs
<1>2. Jobs(<<Hook(r, "failed"), Dispatch>> \o rest) = {Hook(r, "failed"), Dispatch} \cup Jobs(rest)
  BY EndJobs DEF Outcome
<1>3. Hook(r, outcome).op = "hook" /\ Hook(r, "failed").op = "hook" /\ Dispatch.op = "dispatch"
  BY JobOps
<1>4. ASSUME NEW q, Jobs(q) \subseteq {Hook(r, outcome), Hook(r, "failed"), Dispatch} \cup Jobs(rest) PROVE Plain(q)
  BY <1>3, <1>4 DEF Plain
<1>5. CASE todo' = <<Hook(r, outcome)>> \o <<>> \o <<Dispatch>> \o rest
  <2>1. Jobs(todo') = {Hook(r, outcome), Dispatch} \cup Jobs(rest)
    BY <1>1, <1>5, Zenon
  <2> QED
    BY <1>4, <2>1
<1>6. CASE RecordsFailure(r, rest) \/ CannotRecord(rest)
  <2>1. todo' = <<Hook(r, "failed"), Dispatch>> \o rest \/ todo' = <<Dispatch>> \o rest
    BY <1>6 DEF RecordsFailure, CannotRecord
  <2>2. Jobs(todo') \subseteq {Hook(r, "failed"), Dispatch} \cup Jobs(rest)
    BY <1>1, <1>2, <2>1
  <2> QED
    BY <1>4, <2>2
<1> QED
  BY <1>5, <1>6

LEMMA PlainRest ==
    ASSUME TypeOK, todo # <<>>, Head(todo).op \in {"execute", "failAll"}, NEW r \in Head(todo).runs
    PROVE  r \in Runs /\ RestOf(r) \in Seq(Job) /\ Plain(RestOf(r))
BY RestJobs DEF Plain, Left

LEMMA HandlerPlain ==
    ASSUME TypeOK, Handler
    PROVE  \A j \in Jobs(todo') : j \in Left \/ j.op \notin {"walk", "release"} \/ NewWalk(j) \/ NewRelease(j)
<1>o. "failed" \in Outcome /\ "cancelled" \in Outcome /\ "succeeded" \in Outcome
  BY DEF Outcome
<1>e. \A e \in execs : e.run \in Runs
  BY DEF TypeOK, MemoryTypes, Exec
<1>d. up /\ todo # <<>> /\ Tail(todo) \in Seq(Job) /\ Plain(Tail(todo))
  BY PlainLists DEF Handler, TellHook, ReleaseLocks, EraseRun, DispatchQueue, DispatchNothing, ExecuteNone, ExecuteRefused,
     ExecuteFaults, ExecuteRun, WalkCompletes, WalkCancelled, WalkPauses, WalkFindsNoStep, WalkFindsTornStep,
     WalkStartsStep, WalkFaults, Walking, FailOrphanedPlanning, ResumePending, ResumeGivesUp, Doing
<1>q. SUFFICES ASSUME ~Plain(todo')
               PROVE  \A j \in Jobs(todo') : j \in Left \/ j.op \notin {"walk", "release"} \/ NewWalk(j) \/ NewRelease(j)
  BY DEF Plain
<1>1. CASE TellHook \/ ReleaseLocks \/ EraseRun \/ DispatchNothing \/ ExecuteNone
  BY <1>1, <1>d, <1>q DEF TellHook, ReleaseLocks, EraseRun, DispatchNothing, ExecuteNone
<1>2. CASE DispatchQueue \/ ResumePending \/ ResumeGivesUp
  <2>1. todo' = <<>> \/ \E S : todo' = <<Execute(S)>> \o Tail(todo)
    BY <1>2 DEF DispatchQueue, ResumePending, ResumeGivesUp
  <2>2. CASE todo' = <<>>
    BY <1>q, <2>2, PlainLists
  <2>3. CASE \E S : todo' = <<Execute(S)>> \o Tail(todo)
    <3>1. PICK S : todo' = <<Execute(S)>> \o Tail(todo)
      BY <2>3
    <3>2. Execute(S).op \notin {"walk", "release"}
      BY JobOps
    <3>3. Plain(<<Execute(S)>> \o Tail(todo))
      BY <1>d, <3>2, PlainLists, Zenon
    <3> QED
      BY <1>q, <3>1, <3>3
  <2> QED
    BY <2>1, <2>2, <2>3
<1>3. CASE ExecuteRefused \/ ExecuteFaults
  <2>1. PICK r \in Head(todo).runs : RecordsFailure(r, RestOf(r)) \/ CannotRecord(RestOf(r))
    BY <1>3 DEF ExecuteRefused, ExecuteFaults, FailRun, FaultFails
  <2>2. Head(todo).op = "execute"
    BY <1>3 DEF ExecuteRefused, ExecuteFaults, Doing
  <2> QED
    BY <1>d, <1>o, <1>q, <2>1, <2>2, PlainRest, PlainEnd
<1>4. CASE FailOrphanedPlanning
  <2>1. CASE todo' = Tail(todo)
    BY <1>d, <1>q, <2>1
  <2>2. CASE todo' # Tail(todo)
    <3>1. PICK r \in Head(todo).runs : RecordsFailure(r, RestOf(r)) \/ CannotRecord(RestOf(r))
      BY <1>4, <2>2 DEF FailOrphanedPlanning, FailRun
    <3>2. Head(todo).op = "failAll"
      BY <1>4 DEF FailOrphanedPlanning, Doing
    <3> QED
      BY <1>d, <1>o, <1>q, <3>1, <3>2, PlainRest, PlainEnd
  <2> QED
    BY <2>1, <2>2
<1>5. CASE ExecuteRun
  <2>1. PICK r \in Head(todo).runs, id \in 1..MaxExecs : todo' = <<Walk(r, id)>> \o RestOf(r)
    BY <1>5 DEF ExecuteRun
  <2>2. Head(todo).op = "execute"
    BY <1>5 DEF ExecuteRun, Doing
  <2>3. RestOf(r) \in Seq(Job) /\ Plain(RestOf(r))
    BY <1>d, <2>2, PlainRest
  <2>4. Jobs(todo') = {Walk(r, id)} \cup Jobs(RestOf(r))
    BY <2>1, <2>3, JobsPushed
  <2> QED
    BY <1>5, <2>3, <2>4, JobOps DEF Plain, NewWalk
<1>6. ASSUME NEW e \in execs, WalkCompletes(e)
      PROVE  \A j \in Jobs(todo') : j \in Left \/ j.op \notin {"walk", "release"} \/ NewWalk(j) \/ NewRelease(j)
  <2>1. PICK outcome \in Outcome : todo' = <<Hook(e.run, outcome)>> \o <<Release(e.run)>> \o <<Dispatch>> \o Tail(todo)
    BY <1>6, <1>o DEF WalkCompletes, Ends
  <2>2. Jobs(todo') = {Hook(e.run, outcome), Release(e.run), Dispatch} \cup Jobs(Tail(todo))
    <3>1. PICK r \in Runs, rest \in Seq(Job) : r = e.run /\ rest = Tail(todo)
      BY <1>d, <1>e
    <3>2. /\ Jobs(<<Hook(r, outcome)>> \o <<Release(r)>> \o <<Dispatch>> \o rest)
               = {Hook(r, outcome), Release(r), Dispatch} \cup Jobs(rest)
          /\ Jobs(<<Hook(r, outcome), Dispatch>> \o rest) = {Hook(r, outcome), Dispatch} \cup Jobs(rest)
          /\ Jobs(<<Dispatch>> \o rest) = {Dispatch} \cup Jobs(rest)
      BY EndJobs
    <3> QED
      BY <2>1, <3>1, <3>2
  <2> QED
    BY <1>6, <1>d, <2>2, JobOps DEF Plain, NewRelease
<1>7. ASSUME NEW e \in execs, WalkCancelled(e) \/ WalkFindsNoStep(e) PROVE FALSE
  <2>1. \E outcome \in Outcome : todo' = <<Hook(e.run, outcome)>> \o <<>> \o <<Dispatch>> \o Tail(todo)
    BY <1>7, <1>o DEF WalkCancelled, WalkFindsNoStep, Ends
  <2> QED
    BY <1>d, <1>e, <1>q, <2>1, PlainEnd
<1>8. ASSUME NEW e \in execs, WalkFindsTornStep(e) \/ WalkFaults(e) PROVE FALSE
  <2>1. RecordsFailure(e.run, Tail(todo)) \/ CannotRecord(Tail(todo))
    BY <1>8 DEF WalkFindsTornStep, WalkFaults, FailRun, FaultFails
  <2> QED
    BY <1>d, <1>e, <1>o, <1>q, <2>1, PlainEnd
<1>9. ASSUME NEW e \in execs, WalkPauses(e) \/ WalkStartsStep(e) PROVE FALSE
  BY <1>9, <1>d, <1>q DEF WalkPauses, WalkStartsStep
<1> QED
  BY <1>1, <1>2, <1>3, <1>4, <1>5, <1>6, <1>7, <1>8, <1>9 DEF Handler

LEMMA NextPlain ==
    ASSUME TypeOK, Next
    PROVE  \A j \in Jobs(todo') : j \in Left \/ j.op \notin {"walk", "release"} \/ NewWalk(j) \/ NewRelease(j)
<1>o. "failed" \in Outcome /\ "cancelled" \in Outcome /\ "succeeded" \in Outcome /\ <<>> \in Seq(Job)
  BY DEF Outcome
<1>e. (\A e \in execs : e.run \in Runs) /\ \A w \in waiting : w.run \in Runs
  BY DEF TypeOK, MemoryTypes, Exec, Request
<1>l. Plain(<<>>) /\ Plain(<<Dispatch>>)
  BY PlainLists
<1>q. SUFFICES ASSUME ~Plain(todo')
               PROVE  \A j \in Jobs(todo') : j \in Left \/ j.op \notin {"walk", "release"} \/ NewWalk(j) \/ NewRelease(j)
  BY DEF Plain
<1>1. CASE Handler
  BY <1>1, HandlerPlain
<1>2. ASSUME NEW e \in execs, Step(e) \/ \E c \in Cleanups : StepRegistersCleanup(e, c)
      PROVE  \A j \in Jobs(todo') : j \in Left \/ j.op \notin {"walk", "release"} \/ NewWalk(j) \/ NewRelease(j)
  <2>1. CASE StepOk(e)
    <3>1. Jobs(todo') = {Walk(e.run, e.id)}
      BY <2>1, JobsListed DEF StepOk
    <3> QED
      BY <2>1, <3>1, JobOps DEF NewWalk
  <2>2. CASE \E b \in BOOLEAN : StepThrows(e, b)
    <3>1. \E outcome \in Outcome : todo' = <<Hook(e.run, outcome)>> \o <<>> \o <<Dispatch>> \o <<>>
      BY <2>2, <1>o DEF StepThrows, Ends
    <3> QED
      BY <1>e, <1>l, <1>o, <1>q, <3>1, PlainEnd
  <2>3. CASE StepFaults(e)
    <3>1. RecordsFailure(e.run, <<>>) \/ CannotRecord(<<>>)
      BY <2>3 DEF StepFaults, FaultFails
    <3> QED
      BY <1>e, <1>l, <1>o, <1>q, <3>1, PlainEnd
  <2>4. CASE \E c \in Cleanups : StepRegistersCleanup(e, c)
    BY <2>4, <1>l, <1>q DEF StepRegistersCleanup, Running, Serving
  <2> QED
    BY <1>2, <2>1, <2>2, <2>3, <2>4 DEF Step
<1>3. ASSUME NEW w \in waiting, Answer(w) PROVE FALSE
  <2>1. todo' \in {<<>>, <<Dispatch>>, <<Execute({w.run})>>}
    BY <1>3 DEF Answer, ApproveAnswered, JoinQueue, RetypeAnswered, AbortAnswered, AbortSchedules, AbortCollides,
       RequestRefused, Serving
  <2> QED
    BY <1>l, <1>q, <2>1, PlainLists, JobOps
<1>4. ASSUME NEW r \in Runs, Planner(r) \/ Operator(r) \/ CrashAfterAcquire(r)
      PROVE  \A j \in Jobs(todo') : j \in Left \/ j.op \notin {"walk", "release"} \/ NewWalk(j) \/ NewRelease(j)
  <2>1. CASE AbortSettles(r)
    <3>1. Jobs(todo') = {Release(r), Dispatch}
      BY <2>1, JobsListed DEF AbortSettles
    <3> QED
      BY <2>1, <3>1, JobOps DEF NewRelease
  <2>2. CASE Discard(r)
    <3>1. todo' = <<Hook(r, "cancelled")>> \o <<Dispatch>> \/ todo' = <<Hook(r, "cancelled")>> \o <<>>
      BY <2>2 DEF Discard
    <3>2. <<>> \in Seq(Job) /\ <<Dispatch>> \in Seq(Job)
      BY JobTypes
    <3>3. Hook(r, "cancelled").op \notin {"walk", "release"}
      BY JobOps
    <3>4. Plain(<<Hook(r, "cancelled")>> \o <<Dispatch>>) /\ Plain(<<Hook(r, "cancelled")>> \o <<>>)
      BY <1>l, <3>2, <3>3, PlainLists, Zenon
    <3> QED
      BY <1>q, <3>1, <3>4
  <2>3. CASE DeleteRun(r)
    <3> DEFINE t == <<Erase(r), Dispatch>>
    <3>1. todo' = <<Hook(r, "cancelled")>> \o t \/ todo' = <<>> \o t
      BY <2>3 DEF DeleteRun
    <3>2. t \in Seq(Job) /\ Plain(t)
      BY QuietLists, PlainLists, JobOps
    <3> HIDE DEF t
    <3>3. <<>> \o t = t /\ Plain(<<Hook(r, "cancelled")>> \o t)
      BY <3>2, ConcatEmptySeq, PlainLists, JobOps
    <3> QED
      BY <1>q, <3>1, <3>2, <3>3
  <2>4. CASE (\E x \in Rows : Retry(r, x) \/ Skip(r, x)) \/ Abort(r)
    <3>1. todo' = <<Execute({r})>>
      BY <2>4, RecoveryTakesUp DEF TakesUp
    <3> QED
      BY <1>q, <3>1, PlainLists, JobOps
  <2>5. CASE CancelPaused(r)
    BY <2>5, <1>q, PlainLists, JobOps DEF CancelPaused
  <2>6. CASE Planner(r) \/ Plan(r) \/ BeginStreamingPlan(r) \/ Approve(r) \/ ApproveAsks(r) \/ RetypeAsks(r) \/ Retype(r)
               \/ Cancel(r) \/ AbortAsks(r) \/ RecoveryFaults(r) \/ CrashAfterAcquire(r)
    <3>1. todo' \in {<<>>, <<Dispatch>>}
      BY <2>6 DEF Planner, PlannerPlans, PlannerEndsBadly, Plan, BeginStreamingPlan, Approve, JoinQueue, ApproveAsks,
         RetypeAsks, Retype, Cancel, AbortAsks, RecoveryFaults, CrashAfterAcquire, Dies, Serving
    <3> QED
      BY <1>l, <1>q, <3>1
  <2> QED
    BY <1>4, <2>1, <2>2, <2>3, <2>4, <2>5, <2>6 DEF Operator
<1>5. CASE Shutdown \/ Exit \/ Crash \/ Boot
  <2>1. todo' = <<>> \/ \E S : todo' = <<FailAll(S), Resume, Dispatch>>
    BY <1>5 DEF Shutdown, Exit, Crash, Boot, Dies, Serving
  <2> QED
    BY <1>l, <1>q, <2>1, PlainLists, JobOps
<1> QED
  BY <1>1, <1>2, <1>3, <1>4, <1>5 DEF Next

-----------------------------------------------------------------------------
\* Every step that is not excluded keeps the loop's place.

LEMMA WalksNext ==
    ASSUME TypeOK, TypeOK', Alone, Alone', Walks, [Next]_vars
    PROVE  Walks'
<1>1. CASE UNCHANGED vars
  BY <1>1 DEF vars, memory, Walks, WalkFree
<1>s. SUFFICES ASSUME Next PROVE Walks'
  BY <1>1
<1>t. todo' \in Seq(Job) /\ (todo' # <<>> => Jobs(Tail(todo')) \subseteq Jobs(todo'))
  BY JobsTail DEF TypeOK, ControlTypes
<1>l. \A j \in Left : j.op # "walk"
  BY DEF Left, Walks, WalkFree
<1>2. CASE WalkFree(todo')
  BY <1>2, <1>t DEF Walks, WalkFree
<1>3. CASE ExecuteRun
  <2>1. PICK r \in Head(todo).runs, id \in 1..MaxExecs :
           /\ execs' = execs \cup {[run |-> r, id |-> id, at |-> 0, left |-> Unfinished(r),
                                    torn |-> {x \in Rows : step[r][x] = "running"},
                                    cleanup |-> \E c \in Cleanups : HasRow(r, c), aborted |-> FALSE]}
           /\ todo' = <<Walk(r, id)>> \o RestOf(r)
    BY <1>3 DEF ExecuteRun
  <2>2. todo # <<>> /\ Head(todo).op = "execute" /\ Head(todo) \in Jobs(todo)
    BY <1>3, JobsTail DEF ExecuteRun, Doing, TypeOK, ControlTypes
  <2>3. RestOf(r) \in Seq(Job) /\ WalkFree(RestOf(r))
    BY <2>2, <1>l, RestJobs DEF Left, WalkFree
  <2>4. \A e \in execs : e.run # r
    BY <2>2 DEF Alone, ExecutesIdle
  <2>5. \A e \in execs' : e.run = r => e.at = 0
    BY <2>1, <2>4
  <2>6. Walk(r, id).runs = {r}
    BY JobOps
  <2>7. todo' # <<>> /\ Tail(todo') = RestOf(r) /\ Jobs(todo') = {Walk(r, id)} \cup Jobs(RestOf(r))
    BY <2>1, <2>3, JobsPushed
  <2> QED
    BY <2>3, <2>5, <2>6, <2>7 DEF Walks, WalkFree
<1>4. ASSUME NEW e \in execs, StepOk(e) PROVE Walks'
  <2>1. todo' = <<Walk(e.run, e.id)>> /\ execs' = (execs \ {e}) \cup {[e EXCEPT !.at = 0]}
    BY <1>4 DEF StepOk
  <2>2. e \in Exec /\ [e EXCEPT !.at = 0].at = 0
    BY DEF TypeOK, MemoryTypes, Exec
  <2>3. \A f \in execs' : f.run = e.run => f.at = 0
    BY <2>1, <2>2 DEF Alone, OneExecution
  <2>4. Jobs(todo') = {Walk(e.run, e.id)} /\ Tail(todo') = <<>> /\ Walk(e.run, e.id).runs = {e.run}
    BY <2>1, JobsListed, JobOps
  <2> QED
    BY <2>3, <2>4, JobsEmpty DEF Walks, WalkFree
<1>5. CASE ~WalkFree(todo')
  <2>1. PICK j \in Jobs(todo') : j.op = "walk"
    BY <1>5 DEF WalkFree
  <2>2. NewWalk(j)
    BY <1>s, <1>l, <2>1, NextPlain DEF NewRelease
  <2> QED
    BY <1>3, <1>4, <2>2 DEF NewWalk
<1> QED
  BY <1>2, <1>5

-----------------------------------------------------------------------------
\* What a step keeps of the rows.

LEMMA RowTypes ==
    ASSUME TypeOK
    PROVE  /\ \A r \in Runs : /\ step[r] \in [Rows -> RowStatus] /\ ordinal[r] \in [Rows -> Nat]
                              /\ armed[r] \subseteq Cleanups /\ residue[r] \subseteq Cleanups
           /\ \A e \in execs : e \in Exec /\ e.run \in Runs /\ e.at \in Rows \cup {0} /\ e.left \subseteq Rows
           /\ \A w \in waiting : w \in Request /\ w.run \in Runs /\ w.names \subseteq Cleanups /\ w.rows \subseteq Cleanups
                                    /\ w.top \in Nat
BY DEF TypeOK, DbTypes, WorldTypes, MemoryTypes, Exec, Request, RowStatus

RowsInv == Fits /\ Follow /\ Wait

\* The rows stay, and so does every execution's place.
LEMMA RowsQuiet ==
    ASSUME TypeOK, TypeOK', RowsInv, UNCHANGED <<step, ordinal, armed>>,
           \A f \in execs' : \E e \in execs : e.run = f.run /\ e.at = f.at /\ e.left = f.left,
           \A w \in waiting' : w.op = "abort" => w \in waiting \/ Waits(w, step[w.run], ordinal[w.run], armed[w.run])
    PROVE  RowsInv'
<1>1. Fits'
  BY DEF RowsInv, Fits
<1>2. Follow'
  BY DEF RowsInv, Follow
<1>3. Wait'
  BY DEF RowsInv, Wait
<1> QED
  BY <1>1, <1>2, <1>3 DEF RowsInv

\* One run's rows change.
LEMMA RowsKept ==
    ASSUME TypeOK, TypeOK', RowsInv, NEW r \in Runs,
           \A q \in Runs : q # r => step'[q] = step[q] /\ ordinal'[q] = ordinal[q] /\ armed'[q] = armed[q],
           RowsFit(r, step'[r], ordinal'[r]), RowsArmed(step'[r], armed'[r]),
           \A f \in execs' : IF f.run = r THEN Follows(step'[r], f.at, f.left)
                             ELSE \E e \in execs : e.run = f.run /\ e.at = f.at /\ e.left = f.left,
           waiting' \subseteq waiting,
           \A w \in waiting : w.op = "abort" /\ w.run = r =>
               /\ armed[r] \subseteq armed'[r]
               /\ \A c \in Cleanups : step[r][c] # "none" => step'[r][c] # "none"
               /\ \A x \in PlanSteps : step'[r][x] # "none" => step[r][x] # "none" /\ ordinal'[r][x] = ordinal[r][x]
    PROVE  RowsInv'
<1>1. Fits'
  BY DEF RowsInv, Fits
<1>2. Follow'
  <2> SUFFICES ASSUME NEW f \in execs' PROVE Follows(step'[f.run], f.at, f.left)
    BY DEF Follow
  <2>1. CASE f.run = r
    BY <2>1
  <2>2. CASE f.run # r
    BY <2>2, RowTypes DEF RowsInv, Follow
  <2> QED
    BY <2>1, <2>2
<1>3. Wait'
  <2> SUFFICES ASSUME NEW w \in waiting, w.op = "abort"
               PROVE  Waits(w, step'[w.run], ordinal'[w.run], armed'[w.run])
    BY DEF Wait
  <2>1. Waits(w, step[w.run], ordinal[w.run], armed[w.run])
    BY DEF RowsInv, Wait
  <2>2. w.run \in Runs /\ w.names \subseteq Cleanups /\ w.rows \subseteq Cleanups
    BY RowTypes
  <2>3. CASE w.run = r
    BY <2>1, <2>2, <2>3 DEF Waits
  <2>4. CASE w.run # r
    BY <2>1, <2>2, <2>4
  <2> QED
    BY <2>3, <2>4
<1> QED
  BY <1>1, <1>2, <1>3 DEF RowsInv

\* A run in none of its handlers' hands: not begun, or over.
LEMMA NobodyWorks ==
    ASSUME TypeOK, LifeInv, Alone, NEW r \in Runs
    PROVE  /\ ~Began(r) => /\ \A e \in execs : e.run # r
                           /\ \A w \in waiting : w.op = "abort" => w.run # r
                           /\ armed[r] = {}
           /\ status[r] # "running" => \A e \in execs : e.run # r
BY DEF LifeInv, OnlyForBegun, Alone, ExecutionsKnown

LEMMA RowsPlanning ==
    ASSUME TypeOK, TypeOK', LifeInv, Alone, RowsInv, NEW r \in Runs, Plan(r) \/ PlannerPlans(r)
    PROVE  RowsInv'
<1>1. ~Began(r) /\ PlanRows(r) /\ UNCHANGED <<armed, execs, waiting>>
  BY DEF Plan, PlannerPlans, Began, memory
<1>2. armed[r] = {} /\ (\A e \in execs : e.run # r) /\ \A w \in waiting : w.op = "abort" => w.run # r
  BY <1>1, NobodyWorks
<1>3. step[r] \in [Rows -> RowStatus] /\ ordinal[r] \in [Rows -> Nat]
  BY RowTypes
<1>4. RowsFit(r, step[r], ordinal[r]) /\ \A c \in Cleanups : step[r][c] = "none"
  BY <1>2 DEF RowsInv, Fits, RowsArmed
<1> DEFINE t == [x \in Rows |-> IF x \in PlanOf[r] THEN "pending" ELSE step[r][x]]
           p == [x \in Rows |-> IF x \in PlanOf[r] THEN x ELSE ordinal[r][x]]
<1>5. step' = [step EXCEPT ![r] = t] /\ ordinal' = [ordinal EXCEPT ![r] = p]
  BY <1>1 DEF PlanRows
<1>6. RowsFit(r, t, p)
  BY <1>3, <1>4, FitsPlanned
<1>7. \A c \in Cleanups : t[c] = "none"
  BY <1>4, RowNames
<1> HIDE DEF t, p
<1>8. step'[r] = t /\ ordinal'[r] = p /\ \A q \in Runs : q # r => step'[q] = step[q] /\ ordinal'[q] = ordinal[q] /\ armed'[q] = armed[q]
  BY <1>1, <1>5 DEF TypeOK, DbTypes
<1>9. RowsArmed(step'[r], armed'[r])
  BY <1>7, <1>8 DEF RowsArmed
<1> QED
  BY <1>1, <1>2, <1>6, <1>8, <1>9, RowsKept

\* One row of an executed run moves on.
LEMMA RowsMoved ==
    ASSUME TypeOK, TypeOK', RowsInv, NEW r \in Runs, NEW x \in Rows, NEW v \in StepStatus,
           step[r][x] \notin Finished,
           r \in Mutating /\ x \in PlanSteps \ {1} /\ v \in {"running", "ok"} => step[r][1] = "ok",
           r \in Mutating /\ x = 1 => v # "skipped",
           step' = [step EXCEPT ![r][x] = v], UNCHANGED <<ordinal, armed>>, waiting' \subseteq waiting,
           \A f \in execs' : IF f.run = r THEN Follows(step'[r], f.at, f.left)
                             ELSE \E e \in execs : e.run = f.run /\ e.at = f.at /\ e.left = f.left
    PROVE  RowsInv'
<1>1. step[r] \in [Rows -> RowStatus] /\ ordinal[r] \in [Rows -> Nat]
  BY RowTypes
<1>2. RowsFit(r, step[r], ordinal[r]) /\ RowsArmed(step[r], armed[r])
  BY DEF RowsInv, Fits
<1>3. step'[r] = [step[r] EXCEPT ![x] = v] /\ \A q \in Runs : q # r => step'[q] = step[q]
  BY <1>1 DEF TypeOK, DbTypes
<1>4. RowsFit(r, step'[r], ordinal'[r])
  BY <1>1, <1>2, <1>3, FitsMoved
<1>5. v # "none" /\ step[r][x] # "none"
  BY DEF StepStatus, Finished
<1>6. \A y \in Rows : step'[r][y] = "none" <=> step[r][y] = "none"
  BY <1>1, <1>3, <1>5
<1>7. RowsArmed(step'[r], armed'[r])
  BY <1>2, <1>6, RowNames DEF RowsArmed
<1>8. /\ \A c \in Cleanups : step[r][c] # "none" => step'[r][c] # "none"
      /\ \A y \in PlanSteps : step'[r][y] # "none" => step[r][y] # "none"
  BY <1>6, RowNames
<1> QED
  BY <1>3, <1>4, <1>7, <1>8, RowsKept

\* The execution the loop goes on with is between two steps, and the only one of its run.
LEMMA WalksBetween ==
    ASSUME TypeOK, Alone, RowsInv, Walks, NEW e \in execs, Walking(e)
    PROVE  /\ e.at = 0 /\ {x \in Rows : step[e.run][x] \notin Finished} = e.left
           /\ \A f \in execs \ {e} : f.run # e.run
           /\ todo # <<>> /\ Head(todo).op = "walk"
<1>1. Head(todo) \in Jobs(todo) /\ todo # <<>> /\ Head(todo).op = "walk" /\ e.run \in Head(todo).runs
  BY JobsTail DEF Walking, Doing, TypeOK, ControlTypes
<1>2. e.at = 0
  BY <1>1 DEF Walks
<1>3. Follows(step[e.run], e.at, e.left)
  BY DEF RowsInv, Follow
<1>4. {x \in Rows : step[e.run][x] \notin Finished} = e.left
  BY <1>2, <1>3 DEF Follows
<1>5. \A f \in execs \ {e} : f.run # e.run
  BY DEF Alone, OneExecution
<1> QED
  BY <1>1, <1>2, <1>4, <1>5

LEMMA RowsWalk ==
    ASSUME TypeOK, TypeOK', Alone, RowsInv, Walks, NEW e \in execs, WalkStartsStep(e) \/ WalkFindsNoStep(e)
    PROVE  RowsInv'
<1>w. Walking(e)
  BY DEF WalkStartsStep, WalkFindsNoStep
<1>e. e \in Exec /\ e.run \in Runs /\ step[e.run] \in [Rows -> RowStatus] /\ ordinal[e.run] \in [Rows -> Nat]
  BY RowTypes
<1>b. /\ e.at = 0 /\ {x \in Rows : step[e.run][x] \notin Finished} = e.left
      /\ \A f \in execs \ {e} : f.run # e.run
  BY <1>w, WalksBetween
<1>f. RowsFit(e.run, step[e.run], ordinal[e.run])
  BY <1>e DEF RowsInv, Fits
<1>1. CASE WalkFindsNoStep(e)
  <2>1. PICK x \in Cleanups : x \in e.left /\ step' = [step EXCEPT ![e.run][x] = "failed"]
    BY <1>1 DEF WalkFindsNoStep, First
  <2>2. x \in Rows /\ step[e.run][x] \notin Finished /\ "failed" \in StepStatus
    BY <1>b, <2>1 DEF StepStatus
  <2>3. execs' = execs \ {e} /\ UNCHANGED <<ordinal, armed, waiting>>
    BY <1>1 DEF WalkFindsNoStep, Ends
  <2>4. \A f \in execs' : f.run # e.run /\ f \in execs
    BY <1>b, <2>3
  <2> QED
    BY <1>e, <2>1, <2>2, <2>3, <2>4, RowsMoved
<1>2. CASE WalkStartsStep(e)
  <2>1. PICK x \in Rows : /\ First(e.run, e.left, x) /\ step' = [step EXCEPT ![e.run][x] = "running"]
                          /\ execs' = (execs \ {e}) \cup {[e EXCEPT !.at = x, !.left = @ \ {x}]}
    BY <1>2 DEF WalkStartsStep
  <2>2. UNCHANGED <<ordinal, armed, waiting>>
    BY <1>2 DEF WalkStartsStep
  <2> DEFINE g == [e EXCEPT !.at = x, !.left = @ \ {x}]
  <2>3. g.run = e.run /\ g.at = x /\ g.left = e.left \ {x}
    BY <1>e DEF Exec
  <2>4. execs' = (execs \ {e}) \cup {g}
    BY <2>1
  <2> HIDE DEF g
  <2>5. x \in e.left /\ step[e.run][x] \notin Finished /\ "running" \in StepStatus /\ x # 0
    BY <1>b, <2>1, RowNames DEF StepStatus, First
  <2>6. ASSUME e.run \in Mutating, x \in PlanSteps \ {1} PROVE step[e.run][1] = "ok"
    <3>1. step[e.run][x] # "none" /\ step[e.run][x] # "skipped"
      BY <2>5 DEF Finished
    <3>2. step[e.run][1] # "none" /\ ordinal[e.run][1] = 1 /\ ordinal[e.run][x] = x
      BY <1>f, <2>6, <3>1, RowNames DEF RowsFit, PlanFits
    <3>3. step[e.run][1] # "skipped"
      BY <1>f, <2>6, <3>1 DEF RowsFit, Answers
    <3>4. 1 \notin e.left
      <4>1. x \in Nat /\ x # 0 /\ x # 1
        BY <2>6, <2>5, RowNames
      <4> QED
        BY <2>1, <3>2, <4>1 DEF First
    <3> QED
      BY <1>b, <2>6, <3>2, <3>3, <3>4, RowNames DEF Finished
  <2>7. \A y \in Rows : step'[e.run][y] = IF y = x THEN "running" ELSE step[e.run][y]
    BY <1>e, <2>1 DEF TypeOK, DbTypes
  <2>8. Follows(step'[e.run], g.at, g.left)
    <3>1. {y \in Rows : step'[e.run][y] \notin Finished} = {y \in Rows : step[e.run][y] \notin Finished}
      BY <2>5, <2>7 DEF Finished
    <3>2. {y \in Rows : step'[e.run][y] \notin Finished} = g.left \cup ({g.at} \ {0})
      BY <1>b, <2>3, <2>5, <3>1
    <3> QED
      BY <2>3, <2>7, <3>2 DEF Follows
  <2>9. \A f \in execs' : IF f.run = e.run THEN Follows(step'[e.run], f.at, f.left)
                          ELSE \E h \in execs : h.run = f.run /\ h.at = f.at /\ h.left = f.left
    BY <1>b, <2>3, <2>4, <2>8
  <2> QED
    BY <1>e, <2>1, <2>2, <2>5, <2>6, <2>9, RowsMoved
<1> QED
  BY <1>1, <1>2

LEMMA RowsStep ==
    ASSUME TypeOK, TypeOK', Alone, RowsInv, NEW e \in execs, StepOk(e) \/ (\E b \in BOOLEAN : StepThrows(e, b)) \/ StepFaults(e)
    PROVE  RowsInv'
<1>e. e \in Exec /\ e.run \in Runs /\ step[e.run] \in [Rows -> RowStatus] /\ e.at \in Rows /\ e.at # 0
  BY RowTypes DEF StepOk, StepThrows, StepFaults, Running
<1>s. /\ {x \in Rows : step[e.run][x] \notin Finished} = e.left \cup {e.at}
      /\ e.at \notin e.left /\ step[e.run][e.at] = "running"
  BY <1>e DEF RowsInv, Follow, Follows
<1>o. \A f \in execs \ {e} : f.run # e.run
  BY DEF Alone, OneExecution
<1>u. step[e.run][e.at] \notin Finished /\ "ok" \in StepStatus /\ "failed" \in StepStatus /\ "running" \in StepStatus
  BY <1>s DEF Finished, StepStatus
<1>p. e.run \in Mutating /\ e.at \in PlanSteps \ {1} => step[e.run][1] = "ok"
  BY <1>e, <1>s DEF RowsInv, Fits, RowsFit, Answers
<1>1. CASE StepOk(e)
  <2> DEFINE g == [e EXCEPT !.at = 0]
  <2>1. step' = [step EXCEPT ![e.run][e.at] = "ok"] /\ execs' = (execs \ {e}) \cup {g} /\ UNCHANGED <<ordinal, armed, waiting>>
    BY <1>1 DEF StepOk
  <2>2. g.run = e.run /\ g.at = 0 /\ g.left = e.left
    BY <1>e DEF Exec
  <2> HIDE DEF g
  <2>3. \A y \in Rows : step'[e.run][y] = IF y = e.at THEN "ok" ELSE step[e.run][y]
    BY <1>e, <2>1 DEF TypeOK, DbTypes
  <2>4. {y \in Rows : step'[e.run][y] \notin Finished} = e.left
    BY <1>s, <2>3 DEF Finished
  <2>5. Follows(step'[e.run], g.at, g.left)
    BY <2>2, <2>4, RowNames, RowTypes DEF Follows
  <2>6. \A f \in execs' : IF f.run = e.run THEN Follows(step'[e.run], f.at, f.left)
                          ELSE \E h \in execs : h.run = f.run /\ h.at = f.at /\ h.left = f.left
    BY <1>o, <2>1, <2>2, <2>5
  <2> QED
    BY <1>e, <1>u, <1>p, <2>1, <2>6, RowsMoved
<1>2. CASE (\E b \in BOOLEAN : StepThrows(e, b)) \/ StepFaults(e)
  <2>1. PICK v \in {"running", "failed"} : step' = [step EXCEPT ![e.run][e.at] = v]
    BY <1>2, <1>s DEF StepThrows, StepFaults
  <2>2. execs' = execs \ {e} /\ UNCHANGED <<ordinal, armed, waiting>>
    BY <1>2 DEF StepThrows, StepFaults, Ends
  <2>3. \A f \in execs' : f.run # e.run /\ f \in execs
    BY <1>o, <2>2
  <2>4. v \in StepStatus /\ v # "skipped"
    BY DEF StepStatus
  <2> QED
    BY <1>e, <1>u, <1>p, <2>1, <2>2, <2>3, <2>4, RowsMoved
<1> QED
  BY <1>1, <1>2

LEMMA RowsRegister ==
    ASSUME TypeOK, TypeOK', RowsInv, NEW e \in execs, NEW c \in Cleanups, StepRegistersCleanup(e, c)
    PROVE  RowsInv'
<1>1. e.run \in Runs /\ armed' = [armed EXCEPT ![e.run] = @ \cup {c}] /\ UNCHANGED <<step, ordinal, execs, waiting>>
  BY RowTypes DEF StepRegistersCleanup, memory
<1>2. armed'[e.run] = armed[e.run] \cup {c} /\ \A q \in Runs : q # e.run => armed'[q] = armed[q]
  BY <1>1 DEF TypeOK, DbTypes
<1>3. RowsFit(e.run, step'[e.run], ordinal'[e.run]) /\ RowsArmed(step'[e.run], armed'[e.run])
  BY <1>1, <1>2 DEF RowsInv, Fits, RowsArmed
<1>4. \A f \in execs' : IF f.run = e.run THEN Follows(step'[e.run], f.at, f.left)
                        ELSE \E h \in execs : h.run = f.run /\ h.at = f.at /\ h.left = f.left
  BY <1>1 DEF RowsInv, Follow
<1> QED
  BY <1>1, <1>2, <1>3, <1>4, RowsKept

LEMMA RowsExecute ==
    ASSUME TypeOK, TypeOK', Alone, RowsInv, ExecuteRun
    PROVE  RowsInv'
<1>1. PICK r \in Head(todo).runs, id \in 1..MaxExecs :
         execs' = execs \cup {[run |-> r, id |-> id, at |-> 0, left |-> Unfinished(r),
                               torn |-> {x \in Rows : step[r][x] = "running"},
                               cleanup |-> \E c \in Cleanups : HasRow(r, c), aborted |-> FALSE]}
  BY DEF ExecuteRun
<1>2. UNCHANGED <<step, ordinal, armed, waiting>> /\ r \in Runs
  BY RestTypes DEF ExecuteRun, Doing
<1>3. \A e \in execs : e.run # r
  BY JobsTail DEF ExecuteRun, Doing, TypeOK, ControlTypes, Alone, ExecutesIdle
<1>4. Follows(step[r], 0, Unfinished(r))
  BY <1>2, RowNames DEF Follows, Unfinished, Finished
<1>5. \A f \in execs' : IF f.run = r THEN Follows(step'[r], f.at, f.left)
                        ELSE \E h \in execs : h.run = f.run /\ h.at = f.at /\ h.left = f.left
  BY <1>1, <1>2, <1>3, <1>4
<1>6. RowsFit(r, step'[r], ordinal'[r]) /\ RowsArmed(step'[r], armed'[r])
  BY <1>2 DEF RowsInv, Fits
<1> QED
  BY <1>2, <1>5, <1>6, RowsKept

\* The boot's turn: nobody executes.
LEMMA RowsResume ==
    ASSUME TypeOK, TypeOK', Alone, RowsInv, ResumePending \/ ResumeGivesUp
    PROVE  RowsInv'
<1>1. execs = {} /\ UNCHANGED <<execs, waiting, ordinal, armed>>
  <2>1. BootJob(Head(todo)) /\ Head(todo) \in Jobs(todo)
    BY JobsTail DEF ResumePending, ResumeGivesUp, Doing, BootJob, TypeOK, ControlTypes
  <2> QED
    BY <2>1 DEF Alone, BootsAlone, ResumePending, ResumeGivesUp, memory
<1>2. \A r \in Runs, x \in Rows : step'[r][x] = step[r][x] \/ (step[r][x] = "running" /\ step'[r][x] = "pending")
  BY DEF ResumePending, ResumeGivesUp
<1>3. \A r \in Runs, x \in Rows : step'[r][x] = "none" <=> step[r][x] = "none"
  BY <1>2
<1>4. ASSUME NEW r \in Runs PROVE RowsFit(r, step'[r], ordinal'[r]) /\ RowsArmed(step'[r], armed'[r])
  <2>1. step[r] \in [Rows -> RowStatus] /\ ordinal[r] \in [Rows -> Nat] /\ step'[r] \in [Rows -> RowStatus]
    BY RowTypes DEF TypeOK, DbTypes, RowStatus
  <2>2. RowsFit(r, step[r], ordinal[r]) /\ RowsArmed(step[r], armed[r])
    BY DEF RowsInv, Fits
  <2>3. \A x \in Rows : step'[r][x] = step[r][x] \/ (step[r][x] \notin {"none", "ok"} /\ step'[r][x] = "pending")
    BY <1>2
  <2>4. \A x \in Rows : step[r][x] = "skipped" => step'[r][x] # "pending"
    BY <1>2
  <2>5. RowsFit(r, step'[r], ordinal[r])
    BY <2>1, <2>2, <2>3, <2>4, FitsPending
  <2> QED
    BY <1>1, <1>3, <2>2, <2>5, RowNames DEF RowsArmed
<1>5. Fits' /\ Follow'
  BY <1>1, <1>4 DEF Fits, Follow
<1>6. Wait'
  BY <1>1, <1>3, RowTypes, RowNames DEF RowsInv, Wait, Waits
<1> QED
  BY <1>5, <1>6 DEF RowsInv

\* A run that is over changes its rows by an operator's hand.
LEMMA RowsRecovered ==
    ASSUME TypeOK, TypeOK', LifeInv, Alone, RowsInv, NEW r \in Runs, status[r] \in {"failed", "cancelled"},
           UNCHANGED <<armed, execs>>, waiting' \subseteq waiting,
           \A q \in Runs : q # r => step'[q] = step[q] /\ ordinal'[q] = ordinal[q],
           RowsFit(r, step'[r], ordinal'[r]), \A c \in Cleanups : step'[r][c] # "none" => c \in armed[r],
           \A x \in Rows : step[r][x] # "none" => step'[r][x] # "none",
           \A x \in PlanSteps : step'[r][x] # "none" => step[r][x] # "none" /\ ordinal'[r][x] = ordinal[r][x]
    PROVE  RowsInv'
<1>1. \A e \in execs : e.run # r
  BY NobodyWorks
<1>2. RowsArmed(step'[r], armed'[r])
  BY DEF RowsArmed
<1>3. \A c \in Cleanups : step[r][c] # "none" => step'[r][c] # "none"
  BY RowNames
<1> QED
  BY <1>1, <1>2, <1>3, RowsKept

LEMMA RowsRetry ==
    ASSUME TypeOK, TypeOK', LifeInv, Alone, RowsInv, ~NamedRetry, NEW r \in Runs, NEW x \in Rows, Retry(r, x)
    PROVE  RowsInv'
<1> DEFINE t == [y \in Rows |-> IF step[r][y] \notin {"none", "ok"} /\ ordinal[r][y] >= ordinal[r][x]
                                THEN "pending" ELSE step[r][y]]
<1>1. step[r] \in [Rows -> RowStatus] /\ ordinal[r] \in [Rows -> Nat]
  BY RowTypes
<1>2. RowsFit(r, step[r], ordinal[r]) /\ RowsArmed(step[r], armed[r])
  BY DEF RowsInv, Fits
<1>3. /\ status[r] \in {"failed", "cancelled"} /\ step' = [step EXCEPT ![r] = t]
      /\ UNCHANGED <<armed, execs, waiting, ordinal>>
  BY DEF Retry, Recoverable
<1>4. step[r][x] \notin Finished
  BY DEF Retry, StepToResume, First, Finished
<1>5. t \in [Rows -> RowStatus]
  BY <1>1 DEF RowStatus, StepStatus
<1>6. \A y \in Rows : t[y] = IF step[r][y] \notin {"none", "ok"} /\ ordinal[r][y] >= ordinal[r][x]
                             THEN "pending" ELSE step[r][y]
  OBVIOUS
<1> HIDE DEF t
<1>7. \A y \in Rows : t[y] = step[r][y] \/ (step[r][y] \notin {"none", "ok"} /\ t[y] = "pending")
  BY <1>6
<1>8. \A y \in Rows : step[r][y] = "skipped" /\ t[y] = "pending" => \E z \in Rows : step[r][z] \notin Finished /\ ordinal[r][z] <= ordinal[r][y]
  BY <1>1, <1>4, <1>6
<1>9. RowsFit(r, t, ordinal[r])
  BY <1>1, <1>2, <1>5, <1>7, <1>8, FitsPending
<1>10. \A y \in Rows : t[y] # "none" <=> step[r][y] # "none"
  BY <1>7
<1>11. \A c \in Cleanups : t[c] # "none" => c \in armed[r]
  BY <1>2, <1>10, RowNames DEF RowsArmed
<1>12. \A y \in PlanSteps : t[y] # "none" => step[r][y] # "none"
  BY <1>10, RowNames
<1>13. step'[r] = t /\ \A q \in Runs : q # r => step'[q] = step[q]
  BY <1>3 DEF TypeOK, DbTypes
<1> QED
  BY <1>3, <1>9, <1>10, <1>11, <1>12, <1>13, RowsRecovered

LEMMA RowsSkip ==
    ASSUME TypeOK, TypeOK', LifeInv, Alone, RowsInv, NEW r \in Runs, NEW x \in Rows, Skip(r, x)
    PROVE  RowsInv'
<1>1. /\ status[r] \in {"failed", "cancelled"} /\ step' = [step EXCEPT ![r][x] = "skipped"]
      /\ UNCHANGED <<armed, execs, waiting, ordinal>>
  BY DEF Skip, Recoverable, memory
<1>2. step[r][x] \notin Finished /\ "skipped" \in StepStatus /\ (r \in Mutating => x # 1)
  BY DEF Skip, Finished, StepStatus, isMutatingPrecondition
<1>3. \A e \in execs : e.run # r
  BY <1>1, NobodyWorks
<1> QED
  BY <1>1, <1>2, <1>3, RowsMoved

LEMMA RowsAbandon ==
    ASSUME TypeOK, TypeOK', LifeInv, Alone, RowsInv, NEW r \in Runs, AbortSettles(r)
    PROVE  RowsInv'
<1> DEFINE t == abandonUnfinished(step[r])
<1>1. step[r] \in [Rows -> RowStatus] /\ ordinal[r] \in [Rows -> Nat]
  BY RowTypes
<1>2. RowsFit(r, step[r], ordinal[r]) /\ RowsArmed(step[r], armed[r])
  BY DEF RowsInv, Fits
<1>3. /\ status[r] \in {"failed", "cancelled"} /\ step' = [step EXCEPT ![r] = t]
      /\ UNCHANGED <<armed, execs, waiting, ordinal>>
  BY DEF AbortSettles, Abortable, memory
<1>4. RowsFit(r, t, ordinal[r]) /\ \A x \in Rows : t[x] = "none" <=> step[r][x] = "none"
  BY <1>1, <1>2, FitsAbandoned
<1> HIDE DEF t
<1>5. \A c \in Cleanups : t[c] # "none" => c \in armed[r]
  BY <1>2, <1>4, RowNames DEF RowsArmed
<1>6. \A x \in PlanSteps : t[x] # "none" => step[r][x] # "none"
  BY <1>4, RowNames
<1>7. step'[r] = t /\ \A q \in Runs : q # r => step'[q] = step[q]
  BY <1>3 DEF TypeOK, DbTypes
<1> QED
  BY <1>3, <1>4, <1>5, <1>6, <1>7, RowsRecovered

\* An abort with what it read of the run, now or before its await.
LEMMA RowsSchedule ==
    ASSUME TypeOK, TypeOK', LifeInv, Alone, RowsInv, NEW r \in Runs, status[r] \in {"failed", "cancelled"},
           NEW seen \in SUBSET Cleanups, NEW names \in SUBSET Cleanups, NEW top \in Nat, AbortSchedules(r, seen, names, top),
           UNCHANGED <<armed, execs>>, waiting' \subseteq waiting,
           names \subseteq armed[r], \A c \in seen : step[r][c] # "none",
           \A x \in PlanSteps : step[r][x] # "none" => ordinal[r][x] <= top
    PROVE  RowsInv'
<1> DEFINE t == scheduleCleanupSteps(step[r], names)
           p == CleanupOrdinals(ordinal[r], seen, names, top)
<1>1. step[r] \in [Rows -> RowStatus] /\ ordinal[r] \in [Rows -> Nat]
  BY RowTypes
<1>2. RowsFit(r, step[r], ordinal[r]) /\ RowsArmed(step[r], armed[r])
  BY DEF RowsInv, Fits
<1>3. step' = [step EXCEPT ![r] = t] /\ ordinal' = [ordinal EXCEPT ![r] = p]
  BY DEF AbortSchedules
<1>4. RowsFit(r, t, p) /\ \A x \in Rows : x \notin names => (t[x] = "none" <=> step[r][x] = "none")
  BY <1>1, <1>2, FitsScheduled
<1>5. (\A x \in names : t[x] = "pending") /\ \A x \in Rows \ names : p[x] = ordinal[r][x]
  BY RowNames DEF scheduleCleanupSteps, CleanupOrdinals
<1> HIDE DEF t, p
<1>6. \A c \in Cleanups : t[c] # "none" => c \in armed[r]
  BY <1>2, <1>4, RowNames DEF RowsArmed
<1>7. \A x \in Rows : step[r][x] # "none" => t[x] # "none"
  BY <1>4, <1>5
<1>8. \A x \in PlanSteps : t[x] # "none" => step[r][x] # "none" /\ p[x] = ordinal[r][x]
  BY <1>4, <1>5, RowNames
<1>9. step'[r] = t /\ ordinal'[r] = p /\ \A q \in Runs : q # r => step'[q] = step[q] /\ ordinal'[q] = ordinal[q]
  BY <1>3 DEF TypeOK, DbTypes
<1> QED
  BY <1>4, <1>6, <1>7, <1>8, <1>9, RowsRecovered

\* What an abort reads of a run bounds its rows.
LEMMA AbortReads ==
    ASSUME TypeOK, NEW r \in Runs, NEW x \in Rows, Last(r, RowsOf(r), x)
    PROVE  /\ ordinal[r][x] \in Nat
           /\ \A c \in {d \in Cleanups : HasRow(r, d)} : step[r][c] # "none"
           /\ \A y \in PlanSteps : step[r][y] # "none" => ordinal[r][y] <= ordinal[r][x]
<1>1. ordinal[r] \in [Rows -> Nat]
  BY RowTypes
<1> QED
  BY <1>1, RowNames DEF Last, RowsOf, HasRow

LEMMA RowsAbort ==
    ASSUME TypeOK, TypeOK', LifeInv, Alone, RowsInv
    PROVE  /\ \A r \in Runs : Abort(r) => RowsInv'
           /\ Untouched => \A w \in waiting : AbortAnswered(w) => RowsInv'
<1>1. ASSUME NEW r \in Runs, Abort(r) PROVE RowsInv'
  <2> DEFINE seen == {c \in Cleanups : HasRow(r, c)}
  <2>1. PICK x \in Rows : Last(r, RowsOf(r), x) /\ AbortSchedules(r, seen, armed[r], ordinal[r][x])
    BY <1>1 DEF Abort
  <2>2. status[r] \in {"failed", "cancelled"} /\ UNCHANGED <<armed, execs, waiting>>
    BY <1>1 DEF Abort, Abortable
  <2>3. /\ ordinal[r][x] \in Nat /\ \A c \in seen : step[r][c] # "none"
        /\ \A y \in PlanSteps : step[r][y] # "none" => ordinal[r][y] <= ordinal[r][x]
    BY <2>1, AbortReads
  <2>4. armed[r] \in SUBSET Cleanups /\ seen \in SUBSET Cleanups
    BY RowTypes
  <2> HIDE DEF seen
  <2> QED
    BY <2>1, <2>2, <2>3, <2>4, RowsSchedule
<1>2. ASSUME Untouched, NEW w \in waiting, AbortAnswered(w) PROVE RowsInv'
  <2>1. /\ w.run \in Runs /\ w.names \in SUBSET Cleanups /\ w.rows \in SUBSET Cleanups /\ w.top \in Nat
        /\ w.op = "abort" /\ AbortSchedules(w.run, w.rows, w.names, w.top)
        /\ UNCHANGED <<armed, execs>> /\ waiting' \subseteq waiting
    BY <1>2, RowTypes DEF AbortAnswered
  <2>2. status[w.run] \in {"failed", "cancelled"}
    BY <1>2 DEF Untouched
  <2>3. Waits(w, step[w.run], ordinal[w.run], armed[w.run])
    BY <2>1 DEF RowsInv, Wait
  <2> QED
    BY <2>1, <2>2, <2>3, RowsSchedule DEF Waits
<1> QED
  BY <1>1, <1>2

\* A request that suspends.
LEMMA RowsAsk ==
    ASSUME TypeOK, TypeOK', RowsInv, NEW r \in Runs, ApproveAsks(r) \/ RetypeAsks(r) \/ AbortAsks(r)
    PROVE  RowsInv'
<1>1. UNCHANGED <<step, ordinal, armed, execs>>
  BY DEF ApproveAsks, RetypeAsks, AbortAsks, db
<1>2. CASE ApproveAsks(r) \/ RetypeAsks(r)
  <2>1. PICK op \in {"approve", "retype"} : Suspend(op, r, {}, {}, 0)
    BY <1>2 DEF ApproveAsks, RetypeAsks
  <2>2. PICK id \in 1..MaxWaiting :
            waiting' = waiting \cup {[op |-> op, run |-> r, id |-> id, rows |-> {}, names |-> {}, top |-> 0]}
    BY <2>1 DEF Suspend
  <2>3. \A w \in waiting' : w.op = "abort" => w \in waiting
    BY <2>2
  <2> QED
    BY <1>1, <2>3, RowsQuiet
<1>3. CASE AbortAsks(r)
  <2> DEFINE seen == {c \in Cleanups : HasRow(r, c)}
  <2>1. PICK x \in Rows : Last(r, RowsOf(r), x) /\ Suspend("abort", r, seen, armed[r], ordinal[r][x])
    BY <1>3 DEF AbortAsks
  <2>2. /\ \A c \in seen : step[r][c] # "none"
        /\ \A y \in PlanSteps : step[r][y] # "none" => ordinal[r][y] <= ordinal[r][x]
    BY <2>1, AbortReads
  <2> HIDE DEF seen
  <2>3. PICK id \in 1..MaxWaiting :
            waiting' = waiting \cup {[op |-> "abort", run |-> r, id |-> id, rows |-> seen, names |-> armed[r], top |-> ordinal[r][x]]}
    BY <2>1 DEF Suspend
  <2>4. \A w \in waiting' : w \in waiting \/ (w.run = r /\ w.rows = seen /\ w.names = armed[r] /\ w.top = ordinal[r][x])
    BY <2>3
  <2>5. \A w \in waiting' : w \in waiting \/ Waits(w, step[w.run], ordinal[w.run], armed[w.run])
    BY <2>2, <2>4 DEF Waits
  <2> QED
    BY <1>1, <2>5, RowsQuiet
<1> QED
  BY <1>2, <1>3

LEMMA RowsUntouched ==
    ASSUME TypeOK, TypeOK', RowsInv
    PROVE  /\ TellHook \/ ReleaseLocks \/ EraseRun \/ DispatchQueue \/ DispatchNothing \/ ExecuteNone \/ ExecuteRefused
                 \/ ExecuteFaults \/ FailOrphanedPlanning => RowsInv'
           /\ \A e \in execs : WalkCompletes(e) \/ WalkCancelled(e) \/ WalkPauses(e) \/ WalkFindsTornStep(e) \/ WalkFaults(e)
                 => RowsInv'
           /\ \A w \in waiting : ApproveAnswered(w) \/ RetypeAnswered(w) \/ AbortCollides(w) \/ RequestRefused(w) => RowsInv'
           /\ \A r \in Runs : BeginStreamingPlan(r) \/ PlannerEndsBadly(r) \/ Approve(r) \/ Retype(r) \/ Discard(r)
                 \/ Cancel(r) \/ CancelPaused(r) \/ DeleteRun(r) \/ RecoveryFaults(r) \/ CrashAfterAcquire(r) => RowsInv'
           /\ Shutdown \/ Exit \/ Crash \/ Boot => RowsInv'
<1>q. ASSUME UNCHANGED <<step, ordinal, armed>>, execs' \subseteq execs, waiting' \subseteq waiting PROVE RowsInv'
  BY <1>q, RowsQuiet
<1>1. ASSUME TellHook \/ ReleaseLocks \/ EraseRun \/ DispatchQueue \/ DispatchNothing \/ ExecuteNone PROVE RowsInv'
  BY <1>1, <1>q DEF TellHook, ReleaseLocks, EraseRun, DispatchQueue, DispatchNothing, ExecuteNone, db, memory
<1>2. ASSUME ExecuteRefused \/ ExecuteFaults \/ FailOrphanedPlanning PROVE RowsInv'
  BY <1>2, <1>q DEF ExecuteRefused, ExecuteFaults, FailOrphanedPlanning
<1>3. ASSUME NEW e \in execs, WalkCompletes(e) \/ WalkCancelled(e) \/ WalkPauses(e) \/ WalkFindsTornStep(e) \/ WalkFaults(e)
      PROVE  RowsInv'
  BY <1>3, <1>q DEF WalkCompletes, WalkCancelled, WalkPauses, WalkFindsTornStep, WalkFaults, Ends, db
<1>4. ASSUME NEW w \in waiting, ApproveAnswered(w) \/ RetypeAnswered(w) \/ AbortCollides(w) \/ RequestRefused(w)
      PROVE  RowsInv'
  BY <1>4, <1>q DEF ApproveAnswered, RetypeAnswered, AbortCollides, RequestRefused, db
<1>5. ASSUME NEW r \in Runs, BeginStreamingPlan(r) \/ PlannerEndsBadly(r) \/ Approve(r) \/ Retype(r) \/ Discard(r)
                 \/ CancelPaused(r) \/ DeleteRun(r) \/ RecoveryFaults(r) \/ CrashAfterAcquire(r)
      PROVE  RowsInv'
  BY <1>5, <1>q DEF BeginStreamingPlan, PlannerEndsBadly, Approve, Retype, Discard, CancelPaused, DeleteRun, RecoveryFaults,
     CrashAfterAcquire, Dies, db, memory
<1>6. ASSUME NEW r \in Runs, Cancel(r) PROVE RowsInv'
  <2>1. UNCHANGED <<step, ordinal, armed, waiting>>
    BY <1>6 DEF Cancel, db
  <2>2. CASE UNCHANGED execs
    BY <1>q, <2>1, <2>2
  <2>3. CASE \E e \in execs : execs' = (execs \ {e}) \cup {[e EXCEPT !.aborted = TRUE]}
    <3>1. PICK e \in execs : execs' = (execs \ {e}) \cup {[e EXCEPT !.aborted = TRUE]}
      BY <2>3
    <3> DEFINE g == [e EXCEPT !.aborted = TRUE]
    <3>2. g.run = e.run /\ g.at = e.at /\ g.left = e.left
      BY RowTypes DEF Exec
    <3>3. execs' = (execs \ {e}) \cup {g}
      BY <3>1
    <3> HIDE DEF g
    <3>4. \A f \in execs' : \E h \in execs : h.run = f.run /\ h.at = f.at /\ h.left = f.left
      BY <3>2, <3>3
    <3> QED
      BY <2>1, <3>4, RowsQuiet
  <2> QED
    BY <1>6, <2>2, <2>3 DEF Cancel
<1>7. ASSUME Shutdown \/ Exit \/ Crash \/ Boot PROVE RowsInv'
  BY <1>7, <1>q DEF Shutdown, Exit, Crash, Boot, Dies, db, memory
<1> QED
  BY <1>1, <1>2, <1>3, <1>4, <1>5, <1>6, <1>7

LEMMA RowsNext ==
    ASSUME TypeOK, TypeOK', LifeInv, Alone, Walks, RowsInv, ~NamedRetry, [Next]_vars, [Untouched]_vars
    PROVE  RowsInv'
<1>1. CASE UNCHANGED vars
  BY <1>1 DEF vars, db, memory, RowsInv, Fits, Follow, Wait
<1> SUFFICES ASSUME Untouched, Next PROVE RowsInv'
  BY <1>1
<1>2. CASE Handler
  BY <1>2, RowsUntouched, RowsExecute, RowsWalk, RowsResume DEF Handler
<1>3. CASE \E e \in execs : Step(e) \/ \E c \in Cleanups : StepRegistersCleanup(e, c)
  BY <1>3, RowsStep, RowsRegister DEF Step
<1>4. CASE \E w \in waiting : Answer(w)
  BY <1>4, RowsUntouched, RowsAbort DEF Answer
<1>5. CASE \E r \in Runs : Planner(r) \/ Operator(r) \/ CrashAfterAcquire(r)
  <2>1. PICK r \in Runs : Planner(r) \/ Operator(r) \/ CrashAfterAcquire(r)
    BY <1>5
  <2>2. CASE Planner(r) \/ Plan(r)
    BY <2>2, RowsPlanning, RowsUntouched DEF Planner
  <2>3. CASE (\E x \in Rows : Retry(r, x) \/ Skip(r, x)) \/ AbortSettles(r) \/ Abort(r)
    BY <2>3, RowsRetry, RowsSkip, RowsAbandon, RowsAbort
  <2>4. CASE ~(Planner(r) \/ Plan(r) \/ (\E x \in Rows : Retry(r, x) \/ Skip(r, x)) \/ AbortSettles(r) \/ Abort(r))
    BY <2>1, <2>4, RowsAsk, RowsUntouched DEF Operator
  <2> QED
    BY <2>2, <2>3, <2>4
<1>6. CASE Shutdown \/ Exit \/ Crash \/ Boot
  BY <1>6, RowsUntouched
<1> QED
  BY <1>2, <1>3, <1>4, <1>5, <1>6 DEF Next

AnsweredInv == AloneInv /\ Walks /\ RowsInv

LEMMA AnsweredInit == Init => AnsweredInv
<1> SUFFICES ASSUME Init PROVE AnsweredInv
  OBVIOUS
<1>1. Walks /\ Follow /\ Wait
  BY JobsEmpty DEF Init, Walks, WalkFree, Follow, Wait
<1>2. \A r \in Runs, x \in Rows : step[r][x] = "none"
  BY DEF Init
<1>3. \A r \in Runs : PlanFits(r, step[r], ordinal[r])
  BY <1>2, RowNames DEF PlanFits
<1>4. \A r \in Runs : Behind(step[r], ordinal[r]) /\ RowsArmed(step[r], armed[r])
  BY <1>2, RowNames DEF Behind, RowsArmed
<1>5. \A r \in Runs : Answers(r, step[r])
  BY <1>2, RowNames DEF Answers
<1> QED
  BY <1>1, <1>3, <1>4, <1>5, AloneInvInit DEF AnsweredInv, RowsInv, Fits, RowsFit

LEMMA AnsweredNext ==
    ASSUME AnsweredInv, ~NamedRetry, [Next]_vars, [Untouched]_vars
    PROVE  AnsweredInv'
<1>1. TypeOK /\ LifeInv /\ Alone /\ Walks /\ RowsInv
  BY DEF AnsweredInv, AloneInv
<1>2. AloneInv'
  BY AloneInvNext DEF AnsweredInv
<1>3. TypeOK' /\ Alone'
  BY <1>2 DEF AloneInv
<1>4. Walks'
  BY <1>1, <1>3, WalksNext
<1>5. RowsInv'
  BY <1>1, <1>3, RowsNext
<1> QED
  BY <1>2, <1>4, <1>5 DEF AnsweredInv

\* No chain of retries, skips, aborts, crashes and boots walks past the precondition of a mutating run:
\* for any number of runs and steps, a step of the plan starts or ends ok only where the precondition
\* answered ok, when no retry names its step, no discard reaches a run already started, no abort
\* outlives its await while its run is taken up, and no boot finds an interrupted validation
\* (step-recovery.ts retryFromStep, skipStep and abortWithCleanup, guards.ts).
THEOREM PreconditionAsked == ~NamedRetry => (Spec /\ [][Untouched]_vars => []PreconditionAnswered)
<1> SUFFICES ASSUME ~NamedRetry PROVE Spec /\ [][Untouched]_vars => []PreconditionAnswered
  OBVIOUS
<1>1. AnsweredInv => PreconditionAnswered
  <2> SUFFICES ASSUME AnsweredInv, NEW r \in Mutating, NEW x \in PlanSteps \ {1}, step[r][x] \in {"running", "ok"}
               PROVE  step[r][1] = "ok"
    BY DEF PreconditionAnswered
  <2> QED
    BY RowNames DEF AnsweredInv, RowsInv, Fits, RowsFit, Answers
<1>2. AnsweredInv /\ [Next]_vars /\ [Untouched]_vars => AnsweredInv'
  BY AnsweredNext
<1> QED
  BY <1>1, <1>2, AnsweredInit, PTL DEF Spec

-----------------------------------------------------------------------------
\* The cleanups.

\* One more step excluded: an abort that goes on after its await with other cleanups than its run has
\* registered by now (step-recovery.ts:155).
UpToDate == Untouched /\ \A w \in waiting : AbortAnswered(w) => w.names = armed[w.run]

HasCleanup(s) == \E c \in Cleanups : s[c] # "none"

\* Only a registered cleanup has a mutation to undo.  Once a cleanup has a row, every registered one has,
\* in the order they are to run in, and the row of one whose mutation stands is not over.
Undoes(s, o, a, d) ==
    /\ d \subseteq a
    /\ HasCleanup(s) =>
          /\ \A c \in Cleanups : s[c] # "none" <=> c \in a
          /\ \A c \in d : s[c] \notin Finished
          /\ \A c, e \in a : RunsBefore(c, e) => o[c] < o[e]

Undo == \A r \in Runs : Undoes(step[r], ordinal[r], armed[r], residue[r])

\* An execution knows whether it is a cleanup.
Flagged == \A e \in execs : e.cleanup <=> HasCleanup(step[e.run])

UndoInv == Undo /\ Flagged

\* A cancelled run with a mutation that stands keeps a lock, until it is deleted.
Kept ==
    \A r \in Runs : status[r] = "cancelled" /\ r \notin deleted /\ residue[r] # {} /\ ClaimsOf[r] # {} => held[r] # {}

\* The handler lets the locks of a cancelled run go only where it left nothing behind.
Releases == \A j \in Jobs(todo) : j.op = "release" => \A r \in j.runs : status[r] = "cancelled" => residue[r] = {}

-----------------------------------------------------------------------------
\* Lemmas about cleanup rows.

LEMMA UndoesMoved ==
    ASSUME NEW s \in [Rows -> RowStatus], NEW o, NEW a, NEW d \in SUBSET Cleanups, Undoes(s, o, a, d),
           NEW x \in Rows, s[x] \notin Finished, NEW v \in StepStatus,
           NEW f \in SUBSET d, x \notin f \/ v \notin Finished
    PROVE  /\ Undoes([s EXCEPT ![x] = v], o, a, f)
           /\ HasCleanup([s EXCEPT ![x] = v]) <=> HasCleanup(s)
<1> DEFINE t == [s EXCEPT ![x] = v]
<1>1. \A y \in Rows : t[y] = IF y = x THEN v ELSE s[y]
  OBVIOUS
<1> HIDE DEF t
<1>2. v # "none" /\ s[x] # "none"
  BY DEF StepStatus, Finished
<1>3. \A y \in Rows : t[y] = "none" <=> s[y] = "none"
  BY <1>1, <1>2
<1>4. HasCleanup(t) <=> HasCleanup(s)
  BY <1>3, RowNames DEF HasCleanup
<1>5. Undoes(t, o, a, f)
  <2>1. f \subseteq a
    BY DEF Undoes
  <2>2. ASSUME HasCleanup(t)
        PROVE  /\ \A c \in Cleanups : t[c] # "none" <=> c \in a
               /\ \A c \in f : t[c] \notin Finished
               /\ \A c, e \in a : RunsBefore(c, e) => o[c] < o[e]
    <3>1. /\ \A c \in Cleanups : s[c] # "none" <=> c \in a
          /\ \A c \in d : s[c] \notin Finished
          /\ \A c, e \in a : RunsBefore(c, e) => o[c] < o[e]
      BY <1>4, <2>2 DEF Undoes
    <3>2. \A c \in f : t[c] \notin Finished
      BY <1>1, <3>1, RowNames
    <3>3. \A c \in Cleanups : t[c] # "none" <=> c \in a
      BY <1>3, <3>1, RowNames
    <3> QED
      BY <3>1, <3>2, <3>3
  <2> QED
    BY <2>1, <2>2 DEF Undoes
<1> QED
  BY <1>4, <1>5 DEF t

LEMMA UndoesPending ==
    ASSUME NEW s, NEW t, NEW o, NEW a, NEW d \in SUBSET Cleanups, Undoes(s, o, a, d),
           \A x \in Rows : t[x] = s[x] \/ (s[x] \notin {"none", "ok"} /\ t[x] = "pending")
    PROVE  Undoes(t, o, a, d)
<1>1. \A x \in Cleanups : t[x] = s[x] \/ (s[x] \notin {"none", "ok"} /\ t[x] = "pending")
  BY RowNames
<1>2. HasCleanup(t) => HasCleanup(s)
  BY <1>1 DEF HasCleanup
<1>3. \A x \in Cleanups : (t[x] # "none" <=> s[x] # "none") /\ (s[x] \notin Finished => t[x] \notin Finished)
  BY <1>1 DEF Finished
<1> QED
  BY <1>2, <1>3 DEF Undoes

\* The ranks the names of an abort get are in the order they are to run in.
LEMMA RanksInOrder ==
    ASSUME NEW names \in SUBSET Cleanups, NEW c \in names, NEW e \in names, RunsBefore(c, e)
    PROVE  /\ Cardinality({d \in names : RunsBefore(d, c)}) \in Nat
           /\ Cardinality({d \in names : RunsBefore(d, e)}) \in Nat
           /\ Cardinality({d \in names : RunsBefore(d, c)}) < Cardinality({d \in names : RunsBefore(d, e)})
<1> DEFINE S == {d \in names : RunsBefore(d, c)}
           T == {d \in names : RunsBefore(d, e)}
<1>1. \A d \in Cleanups : d \in Nat /\ ArmedBy[d] \in Nat
  BY StepsAssumption
<1>2. S \subseteq T
  <2> SUFFICES ASSUME NEW d \in names, RunsBefore(d, c) PROVE RunsBefore(d, e)
    OBVIOUS
  <2>1. d \in Nat /\ c \in Nat /\ e \in Nat /\ ArmedBy[d] \in Nat /\ ArmedBy[c] \in Nat /\ ArmedBy[e] \in Nat
    BY <1>1
  <2> QED
    BY <2>1 DEF RunsBefore
<1>3. c \in T /\ c \notin S
  BY <1>1 DEF RunsBefore
<1>4. IsFiniteSet(T)
  BY FS_Subset, StepsAssumption
<1> HIDE DEF S, T
<1>5. IsFiniteSet(S) /\ Cardinality(S) <= Cardinality(T) /\ (Cardinality(S) = Cardinality(T) => S = T)
  BY <1>2, <1>4, FS_Subset
<1>6. Cardinality(S) \in Nat /\ Cardinality(T) \in Nat
  BY <1>4, <1>5, FS_CardinalityType
<1>7. Cardinality(S) < Cardinality(T)
  BY <1>3, <1>5, <1>6
<1> QED
  BY <1>6, <1>7 DEF S, T

LEMMA UndoesScheduled ==
    ASSUME NEW s \in [Rows -> RowStatus], NEW o \in [Rows -> Nat], NEW a \in SUBSET Cleanups, NEW d \in SUBSET Cleanups,
           Undoes(s, o, a, d), RowsArmed(s, a), NEW seen \in SUBSET Cleanups, NEW top \in Nat,
           \A c \in seen : s[c] # "none", \A c \in a : s[c] # "none" => c \in seen
    PROVE  Undoes(scheduleCleanupSteps(s, a), CleanupOrdinals(o, seen, a, top), a, d)
<1> DEFINE t == scheduleCleanupSteps(s, a)
           p == CleanupOrdinals(o, seen, a, top)
           n(x) == Cardinality({e \in a : RunsBefore(e, x)})
<1>1. /\ \A x \in Cleanups : t[x] = IF x \in a THEN "pending" ELSE IF s[x] \in {"none", "ok"} THEN s[x] ELSE "skipped"
      /\ \A x \in Cleanups : p[x] = IF x \in a \ seen THEN top + 1 + n(x) ELSE o[x]
  BY DEF scheduleCleanupSteps, CleanupOrdinals, abandonUnfinished, Rows
<1>2. \A c, e \in a : RunsBefore(c, e) => n(c) \in Nat /\ n(e) \in Nat /\ n(c) < n(e)
  BY RanksInOrder
<1> HIDE DEF t, p, n
<1>3. \A c \in Cleanups : t[c] # "none" <=> c \in a
  BY <1>1 DEF RowsArmed
<1>4. \A c \in d : t[c] \notin Finished
  BY <1>1 DEF Undoes, Finished
<1>5. ASSUME NEW c \in a, NEW e \in a, RunsBefore(c, e) PROVE p[c] < p[e]
  <2>1. CASE HasCleanup(s)
    <3>1. c \in seen /\ e \in seen /\ o[c] < o[e]
      BY <1>5, <2>1 DEF Undoes
    <3> QED
      BY <1>1, <3>1
  <2>2. CASE ~HasCleanup(s)
    <3>1. c \notin seen /\ e \notin seen
      BY <2>2 DEF HasCleanup
    <3>2. p[c] = top + 1 + n(c) /\ p[e] = top + 1 + n(e)
      BY <1>1, <3>1
    <3>3. n(c) \in Nat /\ n(e) \in Nat /\ n(c) < n(e)
      BY <1>2, <1>5
    <3> QED
      BY <3>2, <3>3
  <2> QED
    BY <2>1, <2>2
<1>6. d \subseteq a
  BY DEF Undoes
<1> QED
  BY <1>3, <1>4, <1>5, <1>6 DEF Undoes, t, p

-----------------------------------------------------------------------------
\* What a step keeps of the cleanups.

\* The rows and the mutations stay.
LEMMA UndoQuiet ==
    ASSUME TypeOK, UndoInv, UNCHANGED <<step, ordinal, armed, residue>>,
           \A f \in execs' : \E e \in execs : e.run = f.run /\ e.cleanup = f.cleanup
    PROVE  UndoInv'
<1>1. Undo'
  BY DEF UndoInv, Undo
<1>2. Flagged'
  BY DEF UndoInv, Flagged
<1> QED
  BY <1>1, <1>2 DEF UndoInv

\* One run changes.
LEMMA UndoKept ==
    ASSUME TypeOK, TypeOK', UndoInv, NEW r \in Runs,
           \A q \in Runs : q # r => /\ step'[q] = step[q] /\ ordinal'[q] = ordinal[q]
                                    /\ armed'[q] = armed[q] /\ residue'[q] = residue[q],
           Undoes(step'[r], ordinal'[r], armed'[r], residue'[r]),
           \A f \in execs' : IF f.run = r THEN f.cleanup <=> HasCleanup(step'[r])
                             ELSE \E e \in execs : e.run = f.run /\ e.cleanup = f.cleanup
    PROVE  UndoInv'
<1>1. Undo'
  BY DEF UndoInv, Undo
<1>2. Flagged'
  <2> SUFFICES ASSUME NEW f \in execs' PROVE f.cleanup <=> HasCleanup(step'[f.run])
    BY DEF Flagged
  <2>1. CASE f.run = r
    BY <2>1
  <2>2. CASE f.run # r
    <3>1. f.run \in Runs
      BY DEF TypeOK, MemoryTypes, Exec
    <3> QED
      BY <2>2, <3>1 DEF UndoInv, Flagged
  <2> QED
    BY <2>1, <2>2
<1> QED
  BY <1>1, <1>2 DEF UndoInv

\* A run that has registered nothing has nothing to undo.
LEMMA NothingArmed ==
    ASSUME TypeOK, RowsInv, UndoInv, NEW r \in Runs, armed[r] = {}
    PROVE  residue[r] = {} /\ ~HasCleanup(step[r])
BY DEF RowsInv, Fits, RowsArmed, UndoInv, Undo, Undoes, HasCleanup

LEMMA UndoPlanning ==
    ASSUME TypeOK, TypeOK', LifeInv, Alone, RowsInv, UndoInv, NEW r \in Runs, Plan(r) \/ PlannerPlans(r)
    PROVE  UndoInv'
<1>1. ~Began(r) /\ PlanRows(r) /\ UNCHANGED <<armed, residue, execs>>
  BY DEF Plan, PlannerPlans, Began, memory, world
<1>2. armed[r] = {} /\ \A e \in execs : e.run # r
  BY <1>1, NobodyWorks
<1>3. residue[r] = {} /\ ~HasCleanup(step[r])
  BY <1>2, NothingArmed
<1>4. \A q \in Runs : q # r => step'[q] = step[q] /\ ordinal'[q] = ordinal[q] /\ armed'[q] = armed[q] /\ residue'[q] = residue[q]
  BY <1>1 DEF PlanRows, TypeOK, DbTypes
<1>5. \A c \in Cleanups : step'[r][c] = step[r][c]
  <2>1. PlanOf[r] \cap Cleanups = {}
    BY StepsAssumption
  <2>2. step'[r] = [x \in Rows |-> IF x \in PlanOf[r] THEN "pending" ELSE step[r][x]]
    BY <1>1 DEF PlanRows, TypeOK, DbTypes
  <2> QED
    BY <2>1, <2>2, RowNames
<1>6. ~HasCleanup(step'[r])
  BY <1>3, <1>5 DEF HasCleanup
<1>7. Undoes(step'[r], ordinal'[r], armed'[r], residue'[r])
  BY <1>1, <1>3, <1>6 DEF Undoes
<1> QED
  BY <1>1, <1>2, <1>4, <1>7, UndoKept

\* One row of a run moves on, and what stood may be undone.
LEMMA UndoMoved ==
    ASSUME TypeOK, TypeOK', UndoInv, NEW r \in Runs, NEW x \in Rows, NEW v \in StepStatus,
           step[r][x] \notin Finished, step' = [step EXCEPT ![r][x] = v], UNCHANGED <<ordinal, armed>>,
           \A q \in Runs : q # r => residue'[q] = residue[q],
           residue'[r] \subseteq residue[r], x \notin residue'[r] \/ v \notin Finished,
           \A f \in execs' : \E e \in execs : e.run = f.run /\ e.cleanup = f.cleanup
    PROVE  UndoInv'
<1>1. /\ step[r] \in [Rows -> RowStatus] /\ residue[r] \in SUBSET Cleanups /\ residue'[r] \in SUBSET residue[r]
      /\ Undoes(step[r], ordinal[r], armed[r], residue[r])
  BY RowTypes DEF UndoInv, Undo
<1>2. step'[r] = [step[r] EXCEPT ![x] = v] /\ \A q \in Runs : q # r => step'[q] = step[q]
  BY <1>1 DEF TypeOK, DbTypes
<1>3. Undoes(step'[r], ordinal[r], armed[r], residue'[r]) /\ (HasCleanup(step'[r]) <=> HasCleanup(step[r]))
  BY <1>1, <1>2, UndoesMoved
<1>4. \A f \in execs' : IF f.run = r THEN f.cleanup <=> HasCleanup(step'[r])
                        ELSE \E e \in execs : e.run = f.run /\ e.cleanup = f.cleanup
  BY <1>3 DEF UndoInv, Flagged
<1> QED
  BY <1>2, <1>3, <1>4, UndoKept

LEMMA UndoWalk ==
    ASSUME TypeOK, TypeOK', Alone, RowsInv, Walks, UndoInv, NEW e \in execs, WalkStartsStep(e) \/ WalkFindsNoStep(e)
    PROVE  UndoInv'
<1>e. e \in Exec /\ e.run \in Runs /\ {x \in Rows : step[e.run][x] \notin Finished} = e.left
  BY RowTypes, WalksBetween DEF WalkStartsStep, WalkFindsNoStep
<1>1. PICK x \in Rows, v \in {"running", "failed"} : x \in e.left /\ step' = [step EXCEPT ![e.run][x] = v]
  BY RowNames DEF WalkStartsStep, WalkFindsNoStep, First, Rows
<1>2. UNCHANGED <<ordinal, armed, residue>>
  BY DEF WalkStartsStep, WalkFindsNoStep, world
<1>3. step[e.run][x] \notin Finished /\ v \in StepStatus /\ v \notin Finished
  BY <1>e, <1>1 DEF Finished, StepStatus
<1>4. \A f \in execs' : \E h \in execs : h.run = f.run /\ h.cleanup = f.cleanup
  <2>1. CASE WalkFindsNoStep(e)
    BY <2>1 DEF WalkFindsNoStep, Ends
  <2>2. CASE WalkStartsStep(e)
    <3>1. PICK y \in Rows : execs' = (execs \ {e}) \cup {[e EXCEPT !.at = y, !.left = @ \ {y}]}
      BY <2>2 DEF WalkStartsStep
    <3> DEFINE g == [e EXCEPT !.at = y, !.left = @ \ {y}]
    <3>2. g.run = e.run /\ g.cleanup = e.cleanup
      BY <1>e DEF Exec
    <3>3. execs' = (execs \ {e}) \cup {g}
      BY <3>1
    <3> HIDE DEF g
    <3> QED
      BY <3>2, <3>3
  <2> QED
    BY <2>1, <2>2
<1> QED
  BY <1>e, <1>1, <1>2, <1>3, <1>4, UndoMoved

LEMMA UndoStep ==
    ASSUME TypeOK, TypeOK', RowsInv, UndoInv, NEW e \in execs, StepOk(e) \/ (\E b \in BOOLEAN : StepThrows(e, b)) \/ StepFaults(e)
    PROVE  UndoInv'
<1>e. e \in Exec /\ e.run \in Runs /\ e.at \in Rows /\ e.at # 0
  BY RowTypes DEF StepOk, StepThrows, StepFaults, Running
<1>s. step[e.run][e.at] = "running"
  BY <1>e DEF RowsInv, Follow, Follows
<1>u. step[e.run][e.at] \notin Finished /\ "ok" \in StepStatus
  BY <1>s DEF Finished, StepStatus
<1>1. CASE StepOk(e)
  <2> DEFINE g == [e EXCEPT !.at = 0]
  <2>1. /\ step' = [step EXCEPT ![e.run][e.at] = "ok"] /\ execs' = (execs \ {e}) \cup {g} /\ UNCHANGED <<ordinal, armed>>
        /\ residue' = [residue EXCEPT ![e.run] = @ \ {e.at}]
    BY <1>1 DEF StepOk
  <2>2. g.run = e.run /\ g.cleanup = e.cleanup
    BY <1>e DEF Exec
  <2> HIDE DEF g
  <2>3. \A f \in execs' : \E h \in execs : h.run = f.run /\ h.cleanup = f.cleanup
    BY <2>1, <2>2
  <2>4. residue'[e.run] = residue[e.run] \ {e.at} /\ \A q \in Runs : q # e.run => residue'[q] = residue[q]
    BY <1>e, <2>1 DEF TypeOK, WorldTypes
  <2> QED
    BY <1>e, <1>u, <2>1, <2>3, <2>4, UndoMoved
<1>2. CASE (\E b \in BOOLEAN : StepThrows(e, b)) \/ StepFaults(e)
  <2>1. PICK v \in {"running", "failed"} : step' = [step EXCEPT ![e.run][e.at] = v]
    BY <1>2, <1>s DEF StepThrows, StepFaults
  <2>2. execs' = execs \ {e} /\ UNCHANGED <<ordinal, armed, residue>>
    BY <1>2 DEF StepThrows, StepFaults, Ends, world
  <2>3. v \in StepStatus /\ v \notin Finished
    BY DEF StepStatus, Finished
  <2> QED
    BY <1>e, <1>u, <2>1, <2>2, <2>3, UndoMoved
<1> QED
  BY <1>1, <1>2

\* A step of the plan is at work: there is no cleanup row yet.
LEMMA UndoRegister ==
    ASSUME TypeOK, TypeOK', RowsInv, UndoInv, NEW e \in execs, NEW c \in Cleanups, StepRegistersCleanup(e, c)
    PROVE  UndoInv'
<1>1. /\ e.run \in Runs /\ UNCHANGED <<step, ordinal, execs>>
      /\ armed' = [armed EXCEPT ![e.run] = @ \cup {c}] /\ residue' = [residue EXCEPT ![e.run] = @ \cup {c}]
  BY RowTypes DEF StepRegistersCleanup, memory
<1>2. /\ armed'[e.run] = armed[e.run] \cup {c} /\ residue'[e.run] = residue[e.run] \cup {c}
      /\ \A q \in Runs : q # e.run => armed'[q] = armed[q] /\ residue'[q] = residue[q]
  BY <1>1 DEF TypeOK, DbTypes, WorldTypes
<1>3. e.at \in PlanSteps /\ e.at # 0
  BY StepsAssumption DEF StepRegistersCleanup, Running
<1>4. step[e.run][e.at] = "running"
  BY <1>3 DEF RowsInv, Follow, Follows
<1>5. ~HasCleanup(step[e.run])
  BY <1>1, <1>3, <1>4 DEF HasCleanup, RowsInv, Fits, RowsFit, Behind, Finished
<1>6. Undoes(step'[e.run], ordinal'[e.run], armed'[e.run], residue'[e.run])
  BY <1>1, <1>2, <1>5 DEF UndoInv, Undo, Undoes
<1>7. \A f \in execs' : IF f.run = e.run THEN f.cleanup <=> HasCleanup(step'[e.run])
                        ELSE \E h \in execs : h.run = f.run /\ h.cleanup = f.cleanup
  BY <1>1 DEF UndoInv, Flagged
<1> QED
  BY <1>1, <1>2, <1>6, <1>7, UndoKept

LEMMA UndoExecute ==
    ASSUME TypeOK, TypeOK', UndoInv, ExecuteRun
    PROVE  UndoInv'
<1>1. PICK r \in Head(todo).runs, id \in 1..MaxExecs :
         execs' = execs \cup {[run |-> r, id |-> id, at |-> 0, left |-> Unfinished(r),
                               torn |-> {x \in Rows : step[r][x] = "running"},
                               cleanup |-> \E c \in Cleanups : HasRow(r, c), aborted |-> FALSE]}
  BY DEF ExecuteRun
<1>2. UNCHANGED <<step, ordinal, armed, residue>> /\ r \in Runs
  BY RestTypes DEF ExecuteRun, Doing, world
<1>3. (\E c \in Cleanups : HasRow(r, c)) <=> HasCleanup(step[r])
  BY DEF HasRow, HasCleanup
<1>4. \A f \in execs' : IF f.run = r THEN f.cleanup <=> HasCleanup(step'[r])
                        ELSE \E h \in execs : h.run = f.run /\ h.cleanup = f.cleanup
  BY <1>1, <1>2, <1>3 DEF UndoInv, Flagged
<1>5. Undoes(step'[r], ordinal'[r], armed'[r], residue'[r])
  BY <1>2 DEF UndoInv, Undo
<1> QED
  BY <1>2, <1>4, <1>5, UndoKept

\* Rows of runs nobody executes are pending again.
LEMMA UndoResume ==
    ASSUME TypeOK, TypeOK', Alone, UndoInv, ResumePending \/ ResumeGivesUp
    PROVE  UndoInv'
<1>1. execs = {} /\ UNCHANGED <<execs, ordinal, armed, residue>>
  <2>1. BootJob(Head(todo)) /\ Head(todo) \in Jobs(todo)
    BY JobsTail DEF ResumePending, ResumeGivesUp, Doing, BootJob, TypeOK, ControlTypes
  <2> QED
    BY <2>1 DEF Alone, BootsAlone, ResumePending, ResumeGivesUp, memory, world
<1>2. \A r \in Runs, x \in Rows : step'[r][x] = step[r][x] \/ (step[r][x] \notin {"none", "ok"} /\ step'[r][x] = "pending")
  BY DEF ResumePending, ResumeGivesUp
<1>3. ASSUME NEW r \in Runs PROVE Undoes(step'[r], ordinal'[r], armed'[r], residue'[r])
  <2>1. Undoes(step[r], ordinal[r], armed[r], residue[r]) /\ residue[r] \in SUBSET Cleanups
    BY RowTypes DEF UndoInv, Undo
  <2>2. Undoes(step'[r], ordinal[r], armed[r], residue[r])
    BY <1>2, <2>1, UndoesPending
  <2> QED
    BY <1>1, <2>2
<1> QED
  BY <1>1, <1>3 DEF UndoInv, Undo, Flagged

\* A run that is over changes its rows by an operator's hand, and nothing is undone by it.
LEMMA UndoRecovered ==
    ASSUME TypeOK, TypeOK', LifeInv, Alone, UndoInv, NEW r \in Runs, status[r] \in {"failed", "cancelled"},
           UNCHANGED <<armed, residue, execs>>,
           \A q \in Runs : q # r => step'[q] = step[q] /\ ordinal'[q] = ordinal[q],
           Undoes(step'[r], ordinal'[r], armed[r], residue[r])
    PROVE  UndoInv'
<1>1. \A e \in execs : e.run # r
  BY NobodyWorks
<1> QED
  BY <1>1, UndoKept

LEMMA UndoRetry ==
    ASSUME TypeOK, TypeOK', LifeInv, Alone, UndoInv, NEW r \in Runs, NEW x \in Rows, Retry(r, x)
    PROVE  UndoInv'
<1>1. status[r] \in {"failed", "cancelled"} /\ UNCHANGED <<armed, residue, execs, ordinal>>
  BY DEF Retry, Recoverable, world
<1>2. /\ step'[r] = [y \in Rows |-> IF step[r][y] \notin {"none", "ok"} /\ ordinal[r][y] >= ordinal[r][x]
                                    THEN "pending" ELSE step[r][y]]
      /\ \A q \in Runs : q # r => step'[q] = step[q]
  BY DEF Retry, TypeOK, DbTypes
<1>3. \A y \in Rows : step'[r][y] = step[r][y] \/ (step[r][y] \notin {"none", "ok"} /\ step'[r][y] = "pending")
  BY <1>2
<1>4. Undoes(step[r], ordinal[r], armed[r], residue[r]) /\ residue[r] \in SUBSET Cleanups
  BY RowTypes DEF UndoInv, Undo
<1>5. Undoes(step'[r], ordinal[r], armed[r], residue[r])
  BY <1>3, <1>4, UndoesPending
<1> QED
  BY <1>1, <1>2, <1>5, UndoRecovered

LEMMA UndoSkip ==
    ASSUME TypeOK, TypeOK', UndoInv, NEW r \in Runs, NEW x \in Rows, Skip(r, x)
    PROVE  UndoInv'
<1>1. /\ step' = [step EXCEPT ![r][x] = "skipped"] /\ residue' = [residue EXCEPT ![r] = @ \ {x}]
      /\ UNCHANGED <<armed, execs, ordinal>>
  BY DEF Skip, memory
<1>2. step[r][x] \notin Finished /\ "skipped" \in StepStatus
  BY DEF Skip, Finished, StepStatus
<1>3. residue'[r] = residue[r] \ {x} /\ \A q \in Runs : q # r => residue'[q] = residue[q]
  BY <1>1 DEF TypeOK, WorldTypes
<1> QED
  BY <1>1, <1>2, <1>3, UndoMoved

\* An abort that finds nothing registered.
LEMMA UndoAbandon ==
    ASSUME TypeOK, TypeOK', LifeInv, Alone, RowsInv, UndoInv, NEW r \in Runs, AbortSettles(r)
    PROVE  UndoInv'
<1>1. status[r] \in {"failed", "cancelled"} /\ armed[r] = {} /\ UNCHANGED <<armed, residue, execs, ordinal>>
  BY DEF AbortSettles, Abortable, memory, world
<1>2. residue[r] = {} /\ ~HasCleanup(step[r])
  BY <1>1, NothingArmed
<1>3. step'[r] = abandonUnfinished(step[r]) /\ \A q \in Runs : q # r => step'[q] = step[q]
  BY DEF AbortSettles, TypeOK, DbTypes
<1>4. ~HasCleanup(step'[r])
  BY <1>2, <1>3, RowNames DEF HasCleanup, abandonUnfinished
<1>5. Undoes(step'[r], ordinal'[r], armed[r], residue[r])
  BY <1>1, <1>2, <1>4 DEF Undoes
<1> QED
  BY <1>1, <1>3, <1>5, UndoRecovered

\* An abort that schedules every cleanup registered by now.
LEMMA UndoSchedule ==
    ASSUME TypeOK, TypeOK', LifeInv, Alone, RowsInv, UndoInv, NEW r \in Runs, status[r] \in {"failed", "cancelled"},
           NEW seen \in SUBSET Cleanups, NEW top \in Nat, AbortSchedules(r, seen, armed[r], top),
           UNCHANGED <<armed, residue, execs>>, \A c \in seen : step[r][c] # "none"
    PROVE  UndoInv'
<1>1. /\ step[r] \in [Rows -> RowStatus] /\ ordinal[r] \in [Rows -> Nat]
      /\ armed[r] \in SUBSET Cleanups /\ residue[r] \in SUBSET Cleanups
  BY RowTypes
<1>2. Undoes(step[r], ordinal[r], armed[r], residue[r]) /\ RowsArmed(step[r], armed[r])
  BY DEF RowsInv, Fits, UndoInv, Undo
<1>3. \A c \in armed[r] : step[r][c] # "none" => c \in seen
  BY <1>1 DEF AbortSchedules, HasRow
<1>4. Undoes(scheduleCleanupSteps(step[r], armed[r]), CleanupOrdinals(ordinal[r], seen, armed[r], top), armed[r], residue[r])
  BY <1>1, <1>2, <1>3, UndoesScheduled
<1>5. /\ step'[r] = scheduleCleanupSteps(step[r], armed[r])
      /\ ordinal'[r] = CleanupOrdinals(ordinal[r], seen, armed[r], top)
      /\ \A q \in Runs : q # r => step'[q] = step[q] /\ ordinal'[q] = ordinal[q]
  BY DEF AbortSchedules, TypeOK, DbTypes
<1>6. Undoes(step'[r], ordinal'[r], armed[r], residue[r])
  BY <1>4, <1>5
<1> QED
  BY <1>5, <1>6, UndoRecovered

LEMMA UndoAbort ==
    ASSUME TypeOK, TypeOK', LifeInv, Alone, RowsInv, UndoInv
    PROVE  /\ \A r \in Runs : Abort(r) => UndoInv'
           /\ UpToDate => \A w \in waiting : AbortAnswered(w) => UndoInv'
<1>1. ASSUME NEW r \in Runs, Abort(r) PROVE UndoInv'
  <2> DEFINE seen == {c \in Cleanups : HasRow(r, c)}
  <2>1. PICK x \in Rows : Last(r, RowsOf(r), x) /\ AbortSchedules(r, seen, armed[r], ordinal[r][x])
    BY <1>1 DEF Abort
  <2>2. status[r] \in {"failed", "cancelled"} /\ UNCHANGED <<armed, residue, execs>>
    BY <1>1 DEF Abort, Abortable, world
  <2>3. ordinal[r][x] \in Nat /\ seen \in SUBSET Cleanups /\ \A c \in seen : step[r][c] # "none"
    BY <2>1, AbortReads
  <2> HIDE DEF seen
  <2> QED
    BY <2>1, <2>2, <2>3, UndoSchedule
<1>2. ASSUME UpToDate, NEW w \in waiting, AbortAnswered(w) PROVE UndoInv'
  <2>1. /\ w.run \in Runs /\ w.rows \in SUBSET Cleanups /\ w.top \in Nat
        /\ w.op = "abort" /\ AbortSchedules(w.run, w.rows, w.names, w.top)
        /\ UNCHANGED <<armed, residue, execs>>
    BY <1>2, RowTypes DEF AbortAnswered, world
  <2>2. status[w.run] \in {"failed", "cancelled"} /\ w.names = armed[w.run]
    BY <1>2 DEF UpToDate, Untouched
  <2>3. \A c \in w.rows : step[w.run][c] # "none"
    BY <2>1 DEF RowsInv, Wait, Waits
  <2> QED
    BY <2>1, <2>2, <2>3, UndoSchedule
<1> QED
  BY <1>1, <1>2

LEMMA UndoUntouched ==
    ASSUME TypeOK, TypeOK', UndoInv
    PROVE  /\ TellHook \/ ReleaseLocks \/ EraseRun \/ DispatchQueue \/ DispatchNothing \/ ExecuteNone \/ ExecuteRefused
                 \/ ExecuteFaults \/ FailOrphanedPlanning => UndoInv'
           /\ \A e \in execs : WalkCompletes(e) \/ WalkCancelled(e) \/ WalkPauses(e) \/ WalkFindsTornStep(e) \/ WalkFaults(e)
                 => UndoInv'
           /\ \A w \in waiting : ApproveAnswered(w) \/ RetypeAnswered(w) \/ AbortCollides(w) \/ RequestRefused(w) => UndoInv'
           /\ \A r \in Runs : BeginStreamingPlan(r) \/ PlannerEndsBadly(r) \/ Approve(r) \/ Retype(r) \/ Discard(r)
                 \/ Cancel(r) \/ CancelPaused(r) \/ DeleteRun(r) \/ RecoveryFaults(r) \/ CrashAfterAcquire(r)
                 \/ ApproveAsks(r) \/ RetypeAsks(r) \/ AbortAsks(r) => UndoInv'
           /\ Shutdown \/ Exit \/ Crash \/ Boot => UndoInv'
<1>q. ASSUME UNCHANGED <<step, ordinal, armed, residue>>, execs' \subseteq execs PROVE UndoInv'
  BY <1>q, UndoQuiet
<1>1. ASSUME TellHook \/ ReleaseLocks \/ EraseRun \/ DispatchQueue \/ DispatchNothing \/ ExecuteNone PROVE UndoInv'
  BY <1>1, <1>q DEF TellHook, ReleaseLocks, EraseRun, DispatchQueue, DispatchNothing, ExecuteNone, db, memory, world
<1>2. ASSUME ExecuteRefused \/ ExecuteFaults \/ FailOrphanedPlanning PROVE UndoInv'
  BY <1>2, <1>q DEF ExecuteRefused, ExecuteFaults, FailOrphanedPlanning, world
<1>3. ASSUME NEW e \in execs, WalkCompletes(e) \/ WalkCancelled(e) \/ WalkPauses(e) \/ WalkFindsTornStep(e) \/ WalkFaults(e)
      PROVE  UndoInv'
  BY <1>3, <1>q DEF WalkCompletes, WalkCancelled, WalkPauses, WalkFindsTornStep, WalkFaults, Ends, db, world
<1>4. ASSUME NEW w \in waiting, ApproveAnswered(w) \/ RetypeAnswered(w) \/ AbortCollides(w) \/ RequestRefused(w)
      PROVE  UndoInv'
  BY <1>4, <1>q DEF ApproveAnswered, RetypeAnswered, AbortCollides, RequestRefused, db, world
<1>5. ASSUME NEW r \in Runs, BeginStreamingPlan(r) \/ PlannerEndsBadly(r) \/ Approve(r) \/ Retype(r) \/ Discard(r)
                 \/ CancelPaused(r) \/ DeleteRun(r) \/ RecoveryFaults(r) \/ CrashAfterAcquire(r)
                 \/ ApproveAsks(r) \/ RetypeAsks(r) \/ AbortAsks(r)
      PROVE  UndoInv'
  BY <1>5, <1>q DEF BeginStreamingPlan, PlannerEndsBadly, Approve, Retype, Discard, CancelPaused, DeleteRun, RecoveryFaults,
     CrashAfterAcquire, Dies, ApproveAsks, RetypeAsks, AbortAsks, db, memory, world
<1>6. ASSUME NEW r \in Runs, Cancel(r) PROVE UndoInv'
  <2>1. UNCHANGED <<step, ordinal, armed, residue>>
    BY <1>6 DEF Cancel, db, world
  <2>2. CASE UNCHANGED execs
    BY <1>q, <2>1, <2>2
  <2>3. CASE \E e \in execs : execs' = (execs \ {e}) \cup {[e EXCEPT !.aborted = TRUE]}
    <3>1. PICK e \in execs : execs' = (execs \ {e}) \cup {[e EXCEPT !.aborted = TRUE]}
      BY <2>3
    <3> DEFINE g == [e EXCEPT !.aborted = TRUE]
    <3>2. g.run = e.run /\ g.cleanup = e.cleanup
      BY RowTypes DEF Exec
    <3>3. execs' = (execs \ {e}) \cup {g}
      BY <3>1
    <3> HIDE DEF g
    <3> QED
      BY <2>1, <3>2, <3>3, UndoQuiet
  <2> QED
    BY <1>6, <2>2, <2>3 DEF Cancel
<1>7. ASSUME Shutdown \/ Exit \/ Crash \/ Boot PROVE UndoInv'
  BY <1>7, <1>q DEF Shutdown, Exit, Crash, Boot, Dies, db, memory, world
<1> QED
  BY <1>1, <1>2, <1>3, <1>4, <1>5, <1>6, <1>7

LEMMA UndoNext ==
    ASSUME TypeOK, TypeOK', LifeInv, Alone, Walks, RowsInv, UndoInv, UpToDate, Next
    PROVE  UndoInv'
<1>2. CASE Handler
  BY <1>2, UndoUntouched, UndoExecute, UndoWalk, UndoResume DEF Handler
<1>3. CASE \E e \in execs : Step(e) \/ \E c \in Cleanups : StepRegistersCleanup(e, c)
  BY <1>3, UndoStep, UndoRegister DEF Step
<1>4. CASE \E w \in waiting : Answer(w)
  BY <1>4, UndoUntouched, UndoAbort DEF Answer
<1>5. CASE \E r \in Runs : Planner(r) \/ Operator(r) \/ CrashAfterAcquire(r)
  <2>1. PICK r \in Runs : Planner(r) \/ Operator(r) \/ CrashAfterAcquire(r)
    BY <1>5
  <2>2. CASE Planner(r) \/ Plan(r)
    BY <2>2, UndoPlanning, UndoUntouched DEF Planner
  <2>3. CASE (\E x \in Rows : Retry(r, x) \/ Skip(r, x)) \/ AbortSettles(r) \/ Abort(r)
    BY <2>3, UndoRetry, UndoSkip, UndoAbandon, UndoAbort
  <2>4. CASE ~(Planner(r) \/ Plan(r) \/ (\E x \in Rows : Retry(r, x) \/ Skip(r, x)) \/ AbortSettles(r) \/ Abort(r))
    BY <2>1, <2>4, UndoUntouched DEF Operator
  <2> QED
    BY <2>2, <2>3, <2>4
<1>6. CASE Shutdown \/ Exit \/ Crash \/ Boot
  BY <1>6, UndoUntouched
<1> QED
  BY <1>2, <1>3, <1>4, <1>5, <1>6 DEF Next

-----------------------------------------------------------------------------
\* What a step keeps of the locks.

\* A run that is cancelled was running, or it was cancelled before, or it left nothing behind.
Settles(r) ==
    status'[r] = "cancelled" =>
        residue'[r] = {} \/ status[r] = "running" \/ (status[r] = "cancelled" /\ residue'[r] \subseteq residue[r])

LEMMA SettlesQuiet ==
    ASSUME UNCHANGED residue,
           \A r \in Runs : status'[r] # "cancelled" \/ status'[r] = status[r] \/ status[r] = "running" \/ residue[r] = {}
    PROVE  \A r \in Runs : Settles(r)
BY DEF Settles

\* One run's status changes.
LEMMA SettlesOne ==
    ASSUME TypeOK, UNCHANGED residue, NEW r \in Runs, NEW v, status' = [status EXCEPT ![r] = v],
           v # "cancelled" \/ status[r] = "running" \/ residue[r] = {}
    PROVE  \A q \in Runs : Settles(q)
<1>1. \A q \in Runs : status'[q] = IF q = r THEN v ELSE status[q]
  BY DEF TypeOK, DbTypes
<1> QED
  BY <1>1, SettlesQuiet

LEMMA SettlesHandler ==
    ASSUME TypeOK, Alone, Handler
    PROVE  \A r \in Runs : Settles(r)
<1>e. \A e \in execs : e.run \in Runs /\ status[e.run] = "running"
  BY RowTypes DEF Alone, ExecutionsKnown
<1>q. ASSUME UNCHANGED <<status, residue>> PROVE \A r \in Runs : Settles(r)
  BY <1>q, SettlesQuiet
<1>1. CASE TellHook \/ ReleaseLocks \/ EraseRun \/ DispatchNothing \/ ExecuteNone \/ ResumePending \/ ResumeGivesUp
  BY <1>1, <1>q DEF TellHook, ReleaseLocks, EraseRun, DispatchNothing, ExecuteNone, ResumePending, ResumeGivesUp, db, world
<1>2. CASE DispatchQueue
  <2>1. UNCHANGED residue /\ \A r \in Runs : status'[r] = "approved" \/ status'[r] = status[r]
    BY <1>2 DEF DispatchQueue, world
  <2> QED
    BY <2>1, SettlesQuiet
<1>3. CASE ExecuteRefused \/ ExecuteFaults \/ FailOrphanedPlanning
  <2>1. UNCHANGED residue /\ (UNCHANGED status \/ \E r \in Head(todo).runs : status' = [status EXCEPT ![r] = "failed"])
    BY <1>3 DEF ExecuteRefused, ExecuteFaults, FailOrphanedPlanning, FailRun, FaultFails, RecordsFailure, CannotRecord, world
  <2>2. Head(todo).runs \subseteq Runs
    BY <1>3, RestTypes DEF ExecuteRefused, ExecuteFaults, FailOrphanedPlanning, Doing
  <2> QED
    BY <1>q, <2>1, <2>2, SettlesOne
<1>4. CASE ExecuteRun
  <2>1. UNCHANGED residue /\ \E r \in Head(todo).runs : status' = [status EXCEPT ![r] = "running"]
    BY <1>4 DEF ExecuteRun, world
  <2>2. Head(todo).runs \subseteq Runs
    BY <1>4, RestTypes DEF ExecuteRun, Doing
  <2> QED
    BY <2>1, <2>2, SettlesOne
<1>5. ASSUME NEW e \in execs, WalkCompletes(e) \/ WalkCancelled(e) \/ WalkPauses(e) \/ WalkFindsNoStep(e)
                 \/ WalkFindsTornStep(e) \/ WalkStartsStep(e) \/ WalkFaults(e)
      PROVE  \A r \in Runs : Settles(r)
  <2>1. UNCHANGED residue /\ (UNCHANGED status \/ \E v \in Outcome : status' = [status EXCEPT ![e.run] = v])
    BY <1>5 DEF WalkCompletes, WalkCancelled, WalkPauses, WalkFindsNoStep, WalkFindsTornStep, WalkStartsStep, WalkFaults,
       Ends, FailRun, FaultFails, RecordsFailure, CannotRecord, world, db, Outcome
  <2> QED
    BY <1>e, <1>q, <2>1, SettlesOne
<1> QED
  BY <1>1, <1>2, <1>3, <1>4, <1>5 DEF Handler

LEMMA SettlesNext ==
    ASSUME TypeOK, LifeInv, Alone, RowsInv, UndoInv, Untouched, Next
    PROVE  \A r \in Runs : Settles(r)
<1>e. \A e \in execs : e.run \in Runs /\ status[e.run] = "running"
  BY RowTypes DEF Alone, ExecutionsKnown
<1>b. \A r \in Runs : ~Began(r) => residue[r] = {}
  BY NobodyWorks, NothingArmed
<1>q. ASSUME UNCHANGED <<status, residue>> PROVE \A r \in Runs : Settles(r)
  BY <1>q, SettlesQuiet
<1>1. CASE Handler
  BY <1>1, SettlesHandler
<1>2. ASSUME NEW e \in execs, Step(e) \/ \E c \in Cleanups : StepRegistersCleanup(e, c) PROVE \A r \in Runs : Settles(r)
  <2>1. CASE StepOk(e) \/ \E c \in Cleanups : StepRegistersCleanup(e, c)
    <3>1. UNCHANGED status /\ \E S : residue' = [residue EXCEPT ![e.run] = S]
      BY <2>1 DEF StepOk, StepRegistersCleanup
    <3>2. \A q \in Runs : q # e.run => residue'[q] = residue[q]
      BY <3>1 DEF TypeOK, WorldTypes
    <3> QED
      BY <1>e, <3>1, <3>2 DEF Settles
  <2>2. CASE (\E b \in BOOLEAN : StepThrows(e, b)) \/ StepFaults(e)
    <3>1. UNCHANGED residue /\ (UNCHANGED status \/ \E v \in Outcome : status' = [status EXCEPT ![e.run] = v])
      BY <2>2 DEF StepThrows, StepFaults, Ends, FaultFails, RecordsFailure, CannotRecord, world, Outcome
    <3> QED
      BY <1>e, <1>q, <3>1, SettlesOne
  <2> QED
    BY <1>2, <2>1, <2>2 DEF Step
<1>3. ASSUME NEW w \in waiting, Answer(w) PROVE \A r \in Runs : Settles(r)
  <2>1. /\ w.run \in Runs /\ UNCHANGED residue
        /\ UNCHANGED status \/ \E v \in {"queued", "running"} : status' = [status EXCEPT ![w.run] = v]
    BY <1>3, RowTypes DEF Answer, ApproveAnswered, JoinQueue, RetypeAnswered, AbortAnswered, AbortSchedules, AbortCollides,
       RequestRefused, db, world
  <2> QED
    BY <1>q, <2>1, SettlesOne
<1>4. ASSUME NEW r \in Runs, Planner(r) \/ Operator(r) \/ CrashAfterAcquire(r) PROVE \A q \in Runs : Settles(q)
  <2>1. CASE Plan(r) \/ BeginStreamingPlan(r) \/ PlannerPlans(r) \/ Approve(r) \/ (\E x \in Rows : Retry(r, x)) \/ Abort(r)
    <3>1. UNCHANGED residue /\ \E v \in {"planned", "planning", "queued", "running"} : status' = [status EXCEPT ![r] = v]
      BY <2>1 DEF Plan, BeginStreamingPlan, PlannerPlans, Approve, JoinQueue, Retry, Abort, AbortSchedules, world
    <3> QED
      BY <3>1, SettlesOne
  <2>2. CASE \E x \in Rows : Skip(r, x)
    <3>1. status' = [status EXCEPT ![r] = "running"] /\ \E S : residue' = [residue EXCEPT ![r] = S]
      BY <2>2 DEF Skip
    <3>2. status'[r] = "running" /\ \A q \in Runs : q # r => residue'[q] = residue[q] /\ status'[q] = status[q]
      BY <3>1 DEF TypeOK, DbTypes, WorldTypes
    <3> QED
      BY <3>2 DEF Settles
  <2>3. CASE PlannerEndsBadly(r)
    <3>1. ~Began(r) /\ UNCHANGED residue /\ (UNCHANGED status \/ \E v \in Outcome : status' = [status EXCEPT ![r] = v])
      BY <2>3 DEF PlannerEndsBadly, Began, world, Outcome
    <3> QED
      BY <1>b, <1>q, <3>1, SettlesOne
  <2>4. CASE Discard(r)
    <3>1. status[r] # "running"
      BY <2>4 DEF Untouched
    <3>2. ~Began(r) /\ UNCHANGED residue /\ status' = [status EXCEPT ![r] = "cancelled"]
      BY <2>4, <3>1 DEF Discard, Discardable, Began, world
    <3> QED
      BY <1>b, <3>2, SettlesOne
  <2>5. CASE CancelPaused(r)
    <3>1. status[r] = "running" /\ UNCHANGED residue /\ status' = [status EXCEPT ![r] = "cancelled"]
      BY <2>5 DEF CancelPaused, world
    <3> QED
      BY <3>1, SettlesOne
  <2>6. CASE AbortSettles(r)
    <3>1. armed[r] = {} /\ UNCHANGED residue /\ status' = [status EXCEPT ![r] = "cancelled"]
      BY <2>6 DEF AbortSettles, world
    <3> QED
      BY <3>1, NothingArmed, SettlesOne
  <2>7. CASE ApproveAsks(r) \/ RetypeAsks(r) \/ Retype(r) \/ Cancel(r) \/ DeleteRun(r) \/ AbortAsks(r) \/ RecoveryFaults(r)
               \/ CrashAfterAcquire(r)
    BY <1>q, <2>7 DEF ApproveAsks, RetypeAsks, Retype, Cancel, DeleteRun, AbortAsks, RecoveryFaults, CrashAfterAcquire, db, world
  <2> QED
    BY <1>4, <2>1, <2>2, <2>3, <2>4, <2>5, <2>6, <2>7 DEF Planner, Operator
<1>5. CASE Shutdown \/ Exit \/ Crash \/ Boot
  BY <1>5, <1>q DEF Shutdown, Exit, Crash, Boot, db, world
<1> QED
  BY <1>1, <1>2, <1>3, <1>4, <1>5 DEF Next

\* A cancelled run loses a lock only to a delete or to the release at the head of the work list.
LEMMA HeldNext ==
    ASSUME TypeOK, Next
    PROVE  /\ deleted \subseteq deleted'
           /\ \A r \in Runs : status'[r] = "cancelled" =>
                  \/ held[r] \subseteq held'[r] \/ r \in deleted'
                  \/ Doing("release") /\ r \in Head(todo).runs /\ UNCHANGED <<status, residue>>
<1>q. ASSUME UNCHANGED deleted, \A r \in Runs : held[r] \subseteq held'[r]
      PROVE  /\ deleted \subseteq deleted'
             /\ \A r \in Runs : status'[r] = "cancelled" =>
                  \/ held[r] \subseteq held'[r] \/ r \in deleted'
                  \/ Doing("release") /\ r \in Head(todo).runs /\ UNCHANGED <<status, residue>>
  BY <1>q
<1>a. ASSUME NEW r \in Runs, held' = acquireLocks(held, r) PROVE \A q \in Runs : held[q] \subseteq held'[q]
  BY <1>a DEF acquireLocks, TypeOK, DbTypes
<1>1. CASE ReleaseLocks
  <2>1. PICK r \in Head(todo).runs : held' = releaseLocks(held, r)
    BY <1>1 DEF ReleaseLocks
  <2>2. \A q \in Runs : q # r => held'[q] = held[q]
    BY <2>1 DEF releaseLocks, TypeOK, DbTypes
  <2> QED
    BY <1>1, <2>2 DEF ReleaseLocks, world
<1>2. CASE EraseRun
  <2>1. PICK r \in Head(todo).runs : held' = releaseLocks(held, r) /\ deleted' = deleted \cup {r}
    BY <1>2 DEF EraseRun
  <2>2. \A q \in Runs : q # r => held'[q] = held[q]
    BY <2>1 DEF releaseLocks, TypeOK, DbTypes
  <2> QED
    BY <2>1, <2>2
<1>3. CASE Boot
  <2>1. UNCHANGED <<status, deleted>> /\ held' = reconcileLocks(held, status)
    BY <1>3 DEF Boot
  <2>2. \A r \in Runs : status[r] = "cancelled" => held'[r] = held[r]
    BY <2>1 DEF reconcileLocks, HolderStatuses
  <2> QED
    BY <2>1, <2>2
<1>4. CASE DispatchQueue
  <2>1. UNCHANGED deleted /\ \A r \in Runs : held[r] \subseteq held'[r]
    BY <1>4 DEF DispatchQueue
  <2> QED
    BY <1>q, <2>1
<1>5. CASE Handler /\ ~ReleaseLocks /\ ~EraseRun /\ ~DispatchQueue
  <2>1. UNCHANGED <<deleted, held>>
    BY <1>5 DEF Handler, TellHook, DispatchNothing, ExecuteNone, ExecuteRefused, ExecuteFaults, ExecuteRun, WalkCompletes,
       WalkCancelled, WalkPauses, WalkFindsNoStep, WalkFindsTornStep, WalkStartsStep, WalkFaults, FailOrphanedPlanning,
       ResumePending, ResumeGivesUp, db
  <2> QED
    BY <1>q, <2>1
<1>6. CASE \E e \in execs : Step(e) \/ \E c \in Cleanups : StepRegistersCleanup(e, c)
  <2>1. UNCHANGED <<deleted, held>>
    BY <1>6 DEF Step, StepOk, StepThrows, StepFaults, StepRegistersCleanup
  <2> QED
    BY <1>q, <2>1
<1>7. ASSUME NEW w \in waiting, Answer(w)
      PROVE  UNCHANGED deleted /\ \A r \in Runs : held[r] \subseteq held'[r]
  <2>1. w.run \in Runs /\ UNCHANGED deleted /\ (UNCHANGED held \/ held' = acquireLocks(held, w.run))
    BY <1>7, RowTypes DEF Answer, ApproveAnswered, RetypeAnswered, AbortAnswered, AbortSchedules, AbortCollides,
       RequestRefused, db
  <2> QED
    BY <1>a, <2>1
<1>8. ASSUME NEW r \in Runs, Planner(r) \/ Operator(r) \/ CrashAfterAcquire(r)
      PROVE  UNCHANGED deleted /\ \A q \in Runs : held[q] \subseteq held'[q]
  <2>1. UNCHANGED deleted /\ (UNCHANGED held \/ held' = acquireLocks(held, r))
    BY <1>8 DEF Planner, PlannerPlans, PlannerEndsBadly, Operator, Plan, BeginStreamingPlan, Approve, ApproveAsks, RetypeAsks,
       Retype, Discard, Cancel, CancelPaused, DeleteRun, Retry, Skip, AbortSettles, Abort, AbortSchedules, AbortAsks,
       RecoveryFaults, CrashAfterAcquire, db
  <2> QED
    BY <1>a, <2>1
<1>9. CASE Shutdown \/ Exit \/ Crash
  BY <1>9, <1>q DEF Shutdown, Exit, Crash, db
<1> QED
  BY <1>q, <1>1, <1>2, <1>3, <1>4, <1>5, <1>6, <1>7, <1>8, <1>9 DEF Next

\* A cleanup that completes has undone everything.
LEMMA CompletesClean ==
    ASSUME TypeOK, Alone, RowsInv, Walks, UndoInv, NEW e \in execs, WalkCompletes(e), status'[e.run] = "cancelled"
    PROVE  residue'[e.run] = {}
<1>1. e.run \in Runs /\ UNCHANGED residue /\ e.left = {} /\ {x \in Rows : step[e.run][x] \notin Finished} = e.left
  BY RowTypes, WalksBetween DEF WalkCompletes, world
<1>2. e.cleanup
  BY <1>1 DEF WalkCompletes, Ends, TypeOK, DbTypes
<1>3. HasCleanup(step[e.run]) /\ Undoes(step[e.run], ordinal[e.run], armed[e.run], residue[e.run])
  BY <1>1, <1>2 DEF UndoInv, Flagged, Undo
<1>4. \A c \in residue[e.run] : c \in Rows /\ step[e.run][c] \notin Finished
  BY <1>1, <1>3, RowTypes, RowNames DEF Undoes
<1> QED
  BY <1>1, <1>4

LEMMA ReleasesNext ==
    ASSUME TypeOK, LifeInv, Alone, RowsInv, Walks, UndoInv, Releases, Untouched, Next
    PROVE  Releases'
<1> SUFFICES ASSUME NEW j \in Jobs(todo'), j.op = "release", NEW r \in j.runs, status'[r] = "cancelled"
             PROVE  residue'[r] = {}
  BY DEF Releases
<1>1. CASE j \in Left
  <2>1. j \in Jobs(todo)
    BY <1>1, JobsTail DEF Left, TypeOK, ControlTypes
  <2>2. r \in Runs
    <3>1. PICK i \in 1..Len(todo) : j = todo[i]
      BY <2>1 DEF Jobs
    <3>2. j \in Job
      BY <3>1 DEF TypeOK, ControlTypes
    <3> QED
      BY <3>2 DEF Job
  <2>3. status[r] # "running"
    BY <2>1 DEF Alone, ReleasesSettled, InFlight
  <2>4. status[r] = "cancelled" => residue[r] = {}
    BY <2>1 DEF Releases
  <2> QED
    BY <2>2, <2>3, <2>4, SettlesNext DEF Settles
<1>2. CASE NewRelease(j)
  <2>1. ASSUME NEW e \in execs, WalkCompletes(e), j.runs = {e.run} PROVE residue'[r] = {}
    BY <2>1, CompletesClean
  <2>2. ASSUME NEW q \in Runs, AbortSettles(q), j.runs = {q} PROVE residue'[r] = {}
    BY <2>2, NothingArmed DEF AbortSettles, world
  <2> QED
    BY <1>2, <2>1, <2>2 DEF NewRelease
<1> QED
  BY <1>1, <1>2, NextPlain DEF NewWalk

LEMMA KeptNext ==
    ASSUME TypeOK, LifeInv, Alone, RowsInv, UndoInv, Kept, Releases, Untouched, Next
    PROVE  Kept'
<1> SUFFICES ASSUME NEW r \in Runs, status'[r] = "cancelled", r \notin deleted', residue'[r] # {}, ClaimsOf[r] # {}
             PROVE  held'[r] # {}
  BY DEF Kept
<1>1. r \notin deleted
  BY HeldNext
<1>2. status[r] = "running" \/ (status[r] = "cancelled" /\ residue[r] # {})
  BY SettlesNext DEF Settles
<1>3. held[r] # {}
  BY <1>1, <1>2 DEF Kept, Alone, Leased, InFlight
<1>4. CASE held[r] \subseteq held'[r]
  BY <1>3, <1>4
<1>5. CASE Doing("release") /\ r \in Head(todo).runs /\ UNCHANGED <<status, residue>>
  <2>1. Head(todo) \in Jobs(todo) /\ Head(todo).op = "release"
    BY <1>5, JobsTail DEF Doing, TypeOK, ControlTypes
  <2> QED
    BY <1>5, <2>1 DEF Releases
<1> QED
  BY <1>4, <1>5, HeldNext

-----------------------------------------------------------------------------
\* The theorems.

CleanInv == AnsweredInv /\ UndoInv /\ Kept /\ Releases

LEMMA CleanInit == Init => CleanInv
<1> SUFFICES ASSUME Init PROVE CleanInv
  OBVIOUS
<1>1. Kept /\ Releases /\ Flagged
  BY JobsEmpty DEF Init, Kept, Releases, Flagged
<1>2. \A r \in Runs : ~HasCleanup(step[r]) /\ residue[r] = {}
  BY RowNames DEF Init, HasCleanup
<1>3. Undo
  BY <1>2 DEF Undo, Undoes
<1> QED
  BY <1>1, <1>3, AnsweredInit DEF CleanInv, UndoInv

LEMMA CleanNext ==
    ASSUME CleanInv, ~NamedRetry, [Next]_vars, [UpToDate]_vars
    PROVE  CleanInv'
<1>1. TypeOK /\ LifeInv /\ Alone /\ Walks /\ RowsInv /\ UndoInv /\ Kept /\ Releases /\ AnsweredInv
  BY DEF CleanInv, AnsweredInv, AloneInv
<1>2. [Untouched]_vars
  BY DEF UpToDate
<1>3. AnsweredInv' /\ TypeOK'
  BY <1>1, <1>2, AnsweredNext DEF AnsweredInv, AloneInv
<1>4. CASE UNCHANGED vars
  <2>1. UndoInv' /\ Kept' /\ Releases'
    BY <1>1, <1>4 DEF vars, db, world, memory, UndoInv, Undo, Flagged, Kept, Releases
  <2> QED
    BY <1>3, <2>1 DEF CleanInv
<1>5. CASE Next /\ UpToDate
  <2>1. UndoInv'
    BY <1>1, <1>3, <1>5, UndoNext
  <2>2. Kept' /\ Releases'
    BY <1>1, <1>5, KeptNext, ReleasesNext DEF UpToDate
  <2> QED
    BY <1>3, <2>1, <2>2 DEF CleanInv
<1> QED
  BY <1>4, <1>5

\* A cancelled run that holds no lock has undone every mutation it registered a cleanup for, or an
\* operator skipped that cleanup: for any number of runs, steps and cleanups, whatever retries, skips,
\* aborts, cancels, crashes and boots come in between, when besides the steps PreconditionAsked excludes no
\* abort outlives its await while its run registers another cleanup (step-recovery.ts abortWithCleanup,
\* cleanup.ts, execute's cleanup end, locks.ts reconcileLocks).
THEOREM CleanedUp == ~NamedRetry => (Spec /\ [][UpToDate]_vars => []CleanupLeavesNothing)
<1> SUFFICES ASSUME ~NamedRetry PROVE Spec /\ [][UpToDate]_vars => []CleanupLeavesNothing
  OBVIOUS
<1>1. CleanInv => CleanupLeavesNothing
  BY DEF CleanInv, Kept, CleanupLeavesNothing
<1>2. CleanInv /\ [Next]_vars /\ [UpToDate]_vars => CleanInv'
  BY CleanNext
<1> QED
  BY <1>1, <1>2, CleanInit, PTL DEF Spec

\* Only the loop starts a row: the first of the rows it has before it.
LEMMA OnlyTheLoopStarts ==
    ASSUME TypeOK, RowsInv, Next, NEW r \in Runs, NEW c \in Cleanups, step[r][c] # "running", step'[r][c] = "running"
    PROVE  \E e \in execs : Walking(e) /\ e.run = r /\ First(r, e.left, c) /\ WalkStartsStep(e)
<1>s. step[r] \in [Rows -> RowStatus] /\ c \in Rows
  BY RowTypes, RowNames
<1>f. ASSUME NEW q \in Runs, NEW x \in Rows, NEW v, step' = [step EXCEPT ![q][x] = v], v # "running" PROVE FALSE
  <2>1. step'[r][c] = step[r][c] \/ step'[r][c] = v
    BY <1>f, <1>s DEF TypeOK, DbTypes
  <2> QED
    BY <1>f, <2>1
<1>g. ASSUME NEW q \in Runs, NEW t, step' = [step EXCEPT ![q] = t], t[c] \in {step[q][c], "pending", "skipped"} PROVE FALSE
  <2>1. step'[r] = IF q = r THEN t ELSE step[r]
    BY <1>g DEF TypeOK, DbTypes
  <2> QED
    BY <1>g, <2>1
<1>a. \A q \in Runs : abandonUnfinished(step[q])[c] \in {step[q][c], "skipped"}
  BY <1>s DEF abandonUnfinished
<1>b. \A q \in Runs : \A names : scheduleCleanupSteps(step[q], names)[c] \in {step[q][c], "pending", "skipped"}
  BY <1>s, <1>a DEF scheduleCleanupSteps
<1>u. step' # step
  OBVIOUS
<1>1. ASSUME NEW e \in execs, WalkStartsStep(e) PROVE Walking(e) /\ e.run = r /\ First(r, e.left, c)
  <2>1. PICK x \in Rows : First(e.run, e.left, x) /\ step' = [step EXCEPT ![e.run][x] = "running"]
    BY <1>1 DEF WalkStartsStep
  <2>2. e.run \in Runs
    BY RowTypes
  <2>3. e.run = r /\ x = c
    BY <1>s, <2>1, <2>2 DEF TypeOK, DbTypes
  <2> QED
    BY <1>1, <2>1, <2>3 DEF WalkStartsStep
<1>2. CASE Handler /\ \A e \in execs : ~WalkStartsStep(e)
  <2>1. CASE \E e \in execs : WalkFindsNoStep(e)
    <3>1. \E e \in execs, x \in Cleanups : step' = [step EXCEPT ![e.run][x] = "failed"]
      BY <2>1 DEF WalkFindsNoStep
    <3> QED
      BY <1>f, <3>1, RowTypes, RowNames
  <2>2. CASE ResumePending \/ ResumeGivesUp
    <3>1. step'[r][c] \in {step[r][c], "pending"}
      BY <1>s, <2>2 DEF ResumePending, ResumeGivesUp
    <3> QED
      BY <3>1
  <2>3. CASE Handler /\ ~ResumePending /\ ~ResumeGivesUp /\ \A e \in execs : ~WalkStartsStep(e) /\ ~WalkFindsNoStep(e)
    BY <1>u, <2>3 DEF Handler, TellHook, ReleaseLocks, EraseRun, DispatchQueue, DispatchNothing, ExecuteNone, ExecuteRefused,
       ExecuteFaults, ExecuteRun, WalkCompletes, WalkCancelled, WalkPauses, WalkFindsTornStep, WalkFaults,
       FailOrphanedPlanning, db
  <2> QED
    BY <1>2, <2>1, <2>2, <2>3
<1>3. ASSUME NEW e \in execs, Step(e) \/ \E d \in Cleanups : StepRegistersCleanup(e, d) PROVE FALSE
  <2>1. CASE \E d \in Cleanups : StepRegistersCleanup(e, d)
    BY <1>u, <2>1 DEF StepRegistersCleanup
  <2>2. CASE Step(e)
    <3>1. e.run \in Runs /\ e.at \in Rows
      BY <2>2, RowTypes DEF Step, StepOk, StepThrows, StepFaults, Running
    <3>2. \E v \in {"ok", "failed", step[e.run][e.at]} : step' = [step EXCEPT ![e.run][e.at] = v]
      BY <2>2 DEF Step, StepOk, StepThrows, StepFaults
    <3>3. CASE step' = [step EXCEPT ![e.run][e.at] = step[e.run][e.at]]
      <4>1. step'[r][c] = step[r][c]
        BY <1>s, <3>1, <3>3 DEF TypeOK, DbTypes
      <4> QED
        BY <4>1
    <3> QED
      BY <1>f, <3>1, <3>2, <3>3
  <2> QED
    BY <1>3, <2>1, <2>2
<1>4. ASSUME NEW w \in waiting, Answer(w) PROVE FALSE
  <2>1. w.run \in Runs /\ (UNCHANGED step \/ step' = [step EXCEPT ![w.run] = scheduleCleanupSteps(step[w.run], w.names)])
    BY <1>4, RowTypes DEF Answer, ApproveAnswered, RetypeAnswered, AbortAnswered, AbortSchedules, AbortCollides,
       RequestRefused, db
  <2> QED
    BY <1>b, <1>g, <1>u, <2>1
<1>5. ASSUME NEW q \in Runs, Planner(q) \/ Operator(q) \/ CrashAfterAcquire(q) PROVE FALSE
  <2>1. CASE Plan(q) \/ PlannerPlans(q)
    <3>1. step' = [step EXCEPT ![q] = [x \in Rows |-> IF x \in PlanOf[q] THEN "pending" ELSE step[q][x]]]
      BY <2>1 DEF Plan, PlannerPlans, PlanRows
    <3> QED
      BY <1>g, <1>s, <3>1
  <2>2. CASE \E x \in Rows : Retry(q, x)
    <3>1. \E x \in Rows : step' = [step EXCEPT ![q] = [y \in Rows |->
                   IF step[q][y] \notin {"none", "ok"} /\ ordinal[q][y] >= ordinal[q][x] THEN "pending" ELSE step[q][y]]]
      BY <2>2 DEF Retry
    <3> QED
      BY <1>g, <1>s, <3>1
  <2>3. CASE \E x \in Rows : Skip(q, x)
    BY <1>f, <2>3 DEF Skip
  <2>4. CASE AbortSettles(q)
    BY <1>a, <1>g, <2>4 DEF AbortSettles
  <2>5. CASE Abort(q)
    <3>1. step' = [step EXCEPT ![q] = scheduleCleanupSteps(step[q], armed[q])]
      BY <2>5 DEF Abort, AbortSchedules
    <3> QED
      BY <1>b, <1>g, <3>1
  <2>6. CASE ~(Plan(q) \/ PlannerPlans(q) \/ (\E x \in Rows : Retry(q, x) \/ Skip(q, x)) \/ AbortSettles(q) \/ Abort(q))
    BY <1>5, <1>u, <2>6 DEF Planner, PlannerEndsBadly, Operator, BeginStreamingPlan, Approve, ApproveAsks, RetypeAsks, Retype,
       Discard, Cancel, CancelPaused, DeleteRun, AbortAsks, RecoveryFaults, CrashAfterAcquire, db
  <2> QED
    BY <2>1, <2>2, <2>3, <2>4, <2>5, <2>6
<1>6. CASE Shutdown \/ Exit \/ Crash \/ Boot
  BY <1>u, <1>6 DEF Shutdown, Exit, Crash, Boot, db
<1> QED
  BY <1>1, <1>2, <1>3, <1>4, <1>5, <1>6 DEF Next

\* A cleanup starts only when no mutation of a later step, or registered before it by its own step, still
\* stands: the rows an abort wrote are in that order, a second abort after a failed cleanup keeps it, and
\* the loop takes them in it, for any number of runs, steps and cleanups, under the same assumptions
\* (cleanup.ts, step-recovery.ts abortWithCleanup, execute's loop).
THEOREM CleanupsInOrder == ~NamedRetry => (Spec /\ [][UpToDate]_vars => CleanupOrder)
<1> SUFFICES ASSUME ~NamedRetry PROVE Spec /\ [][UpToDate]_vars => CleanupOrder
  OBVIOUS
<1>1. CleanInv /\ [Next]_vars
        => [\A r \in Runs, c \in Cleanups :
              step[r][c] # "running" /\ step'[r][c] = "running" => \A d \in residue[r] : ~RunsBefore(d, c)]_vars
  <2> SUFFICES ASSUME CleanInv, Next, NEW r \in Runs, NEW c \in Cleanups, step[r][c] # "running", step'[r][c] = "running",
                      NEW d \in residue[r]
               PROVE  ~RunsBefore(d, c)
    OBVIOUS
  <2>1. TypeOK /\ Alone /\ RowsInv /\ Walks /\ UndoInv
    BY DEF CleanInv, AnsweredInv, AloneInv
  <2>2. PICK e \in execs : Walking(e) /\ e.run = r /\ First(r, e.left, c)
    BY <2>1, OnlyTheLoopStarts
  <2>3. {x \in Rows : step[r][x] \notin Finished} = e.left
    BY <2>1, <2>2, WalksBetween
  <2>4. c \in e.left /\ \A y \in e.left : ordinal[r][c] <= ordinal[r][y]
    BY <2>2 DEF First
  <2>5. step[r][c] # "none"
    BY <2>3, <2>4 DEF Finished
  <2>6. Undoes(step[r], ordinal[r], armed[r], residue[r]) /\ HasCleanup(step[r])
    BY <2>1, <2>5 DEF UndoInv, Undo, HasCleanup
  <2>7. /\ c \in armed[r] /\ d \in armed[r] /\ step[r][d] \notin Finished
        /\ RunsBefore(d, c) => ordinal[r][d] < ordinal[r][c]
    BY <2>5, <2>6 DEF Undoes
  <2>8. d \in Rows /\ ordinal[r] \in [Rows -> Nat]
    BY <2>1, RowTypes, RowNames
  <2>9. ordinal[r][c] <= ordinal[r][d] /\ ordinal[r][c] \in Nat /\ ordinal[r][d] \in Nat
    BY <2>3, <2>4, <2>7, <2>8, RowNames
  <2> QED
    BY <2>7, <2>9
<1>2. CleanInv /\ [Next]_vars /\ [UpToDate]_vars => CleanInv'
  BY CleanNext
<1> QED
  BY <1>1, <1>2, CleanInit, PTL DEF Spec, CleanupOrder

=============================================================================
