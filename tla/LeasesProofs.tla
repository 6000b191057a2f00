---------------------------- MODULE LeasesProofs ----------------------------
(***************************************************************************)
(* A run is executed once at a time and only under a lease of all its      *)
(* claims, and the executor implements Leases: for every value of the      *)
(* constants, on every behaviour that takes none of the three steps by     *)
(* which the code is known to break this promise.                          *)
(***************************************************************************)
EXTENDS RunExecutorProofs

-----------------------------------------------------------------------------
\* What the theorems assume of a behaviour.

\* The three steps excluded: a discard that reaches a run already started (executor.ts:166), an abort
\* that goes on after its await although its run was taken up meanwhile (step-recovery.ts:155), and a
\* boot that finds a validation the old process left under way (executor.ts:281).
Untouched ==
    /\ \A r \in Runs : Discard(r) => status[r] # "running"
    /\ \A w \in waiting : AbortAnswered(w) => status[w.run] \in {"failed", "cancelled"}
    /\ ~up /\ up' => \A r \in Runs : status[r] # "planning"

-----------------------------------------------------------------------------
\* The inductive invariant.

InFlight == {"approved", "running"}

\* The runs some execution works for.
Working == {e.run : e \in execs}

\* An execution's run reads running and has the execution's own controller registered.
ExecutionsKnown == \A e \in execs : status[e.run] = "running" /\ active[e.run] = e.id

\* The handler is about to execute runs in flight that nobody executes yet.
ExecutesIdle ==
    \A j \in Jobs(todo) : j.op = "execute" =>
        \A r \in j.runs : status[r] \in InFlight /\ \A e \in execs : e.run # r

\* It is about to let go of the claims of runs that are neither in flight nor in line.
ReleasesSettled ==
    \A j \in Jobs(todo) : j.op \in {"release", "erase"} => \A r \in j.runs : status[r] \notin InFlight \cup {"queued"}

\* No run is to be executed twice.
Spread(q) ==
    \A i, k \in 1..Len(q) : i < k /\ q[i].op = "execute" /\ q[k].op = "execute" => q[i].runs \cap q[k].runs = {}

\* A run holds claims of its own plan only, and all of them while it is in flight.
Leased ==
    \A r \in Runs : held[r] \subseteq ClaimsOf[r] /\ (status[r] \in InFlight => ClaimsOf[r] \subseteq held[r])

\* Until a boot has resumed what was in flight, nothing is executed and nothing else is to be done.
BootJob(j) == j.op \in {"failAll", "resume"}
BootsAlone ==
    (\E j \in Jobs(todo) : BootJob(j)) =>
        execs = {} /\ todo \in {<<FailAll({}), Resume, Dispatch>>, <<Resume, Dispatch>>}

Alone ==
    /\ OneExecution /\ ExecutionsKnown /\ ExecutesIdle /\ ReleasesSettled
    /\ Spread(todo) /\ Leased /\ BootsAlone

-----------------------------------------------------------------------------
\* Lemmas about the work list.

LEMMA SpreadPushed ==
    ASSUME NEW a, NEW q \in Seq(Job), Spread(q),
           a.op = "execute" => \A j \in Jobs(q) : j.op = "execute" => a.runs \cap j.runs = {}
    PROVE  Spread(<<a>> \o q)
<1> DEFINE p == <<a>> \o q
<1>1. Len(p) = Len(q) + 1 /\ Len(q) \in Nat /\ p[1] = a /\ \A i \in 1..Len(q) : p[i + 1] = q[i]
  OBVIOUS
<1> HIDE DEF p
<1>2. \A i \in 2..Len(p) : i - 1 \in 1..Len(q) /\ p[i] = q[i - 1]
  BY <1>1
<1>3. SUFFICES ASSUME NEW i \in 1..Len(p), NEW k \in 1..Len(p), i < k, p[i].op = "execute", p[k].op = "execute"
               PROVE  p[i].runs \cap p[k].runs = {}
  BY DEF Spread, p
<1>4. k \in 2..Len(p) /\ k - 1 \in 1..Len(q) /\ p[k] = q[k - 1] /\ q[k - 1] \in Jobs(q)
  BY <1>1, <1>2, <1>3 DEF Jobs
<1>5. CASE i = 1
  BY <1>1, <1>3, <1>4, <1>5
<1>6. CASE i # 1
  <2>1. i \in 2..Len(p) /\ i - 1 \in 1..Len(q) /\ p[i] = q[i - 1] /\ i - 1 < k - 1
    BY <1>1, <1>2, <1>3, <1>4, <1>6
  <2> QED
    BY <1>3, <1>4, <2>1 DEF Spread
<1> QED
  BY <1>5, <1>6

LEMMA SpreadTail ==
    ASSUME NEW q \in Seq(Job), q # <<>>, Spread(q)
    PROVE  /\ Spread(Tail(q))
           /\ Head(q).op = "execute" => \A j \in Jobs(Tail(q)) : j.op = "execute" => Head(q).runs \cap j.runs = {}
<1>1. /\ Len(Tail(q)) = Len(q) - 1 /\ Len(q) \in Nat /\ q[1] = Head(q) /\ 1 \in 1..Len(q)
      /\ \A i \in 1..Len(Tail(q)) : Tail(q)[i] = q[i + 1]
  OBVIOUS
<1>2. \A i \in 1..Len(Tail(q)) : i + 1 \in 1..Len(q) /\ 1 < i + 1
  BY <1>1
<1>3. Spread(Tail(q))
  <2> SUFFICES ASSUME NEW i \in 1..Len(Tail(q)), NEW k \in 1..Len(Tail(q)), i < k,
                      Tail(q)[i].op = "execute", Tail(q)[k].op = "execute"
               PROVE  Tail(q)[i].runs \cap Tail(q)[k].runs = {}
    BY DEF Spread
  <2>1. i + 1 < k + 1 /\ i + 1 \in 1..Len(q) /\ k + 1 \in 1..Len(q)
    BY <1>1, <1>2
  <2> QED
    BY <1>1, <2>1 DEF Spread
<1>4. ASSUME Head(q).op = "execute", NEW i \in 1..Len(Tail(q)), Tail(q)[i].op = "execute"
      PROVE  Head(q).runs \cap Tail(q)[i].runs = {}
  BY <1>1, <1>2, <1>4 DEF Spread
<1> QED
  BY <1>3, <1>4 DEF Jobs

LEMMA SpreadConcat ==
    ASSUME NEW p \in Seq(Job), NEW q \in Seq(Job), Spread(q), \A j \in Jobs(p) : j.op # "execute"
    PROVE  Spread(p \o q)
<1> DEFINE s == p \o q
<1>1. /\ Len(s) = Len(p) + Len(q) /\ Len(p) \in Nat /\ Len(q) \in Nat
      /\ \A i \in 1..Len(p) : s[i] = p[i]
      /\ \A i \in 1..Len(q) : s[Len(p) + i] = q[i]
  BY ConcatProperties
<1> HIDE DEF s
<1>2. ASSUME NEW i \in 1..Len(s), s[i].op = "execute"
      PROVE  i - Len(p) \in 1..Len(q) /\ s[i] = q[i - Len(p)]
  <2>1. i \notin 1..Len(p)
    BY <1>1, <1>2 DEF Jobs
  <2>2. i - Len(p) \in 1..Len(q) /\ Len(p) + (i - Len(p)) = i
    BY <1>1, <2>1
  <2> QED
    BY <1>1, <2>2
<1>3. SUFFICES ASSUME NEW i \in 1..Len(s), NEW k \in 1..Len(s), i < k, s[i].op = "execute", s[k].op = "execute"
               PROVE  s[i].runs \cap s[k].runs = {}
  BY DEF Spread, s
<1>4. i - Len(p) \in 1..Len(q) /\ s[i] = q[i - Len(p)] /\ k - Len(p) \in 1..Len(q) /\ s[k] = q[k - Len(p)]
        /\ i - Len(p) < k - Len(p)
  BY <1>1, <1>2, <1>3
<1> QED
  BY <1>3, <1>4 DEF Spread

LEMMA SpreadFew == Spread(<<>>) /\ \A q : (\A j \in Jobs(q) : j.op # "execute") => Spread(q)
BY DEF Spread, Jobs

LEMMA SpreadOne == \A a : Spread(<<a>>)
<1> TAKE a
<1> DEFINE q == <<a>>
<1>1. Len(q) = 1
  OBVIOUS
<1> HIDE DEF q
<1>2. Spread(q)
  BY <1>1 DEF Spread
<1> QED
  BY <1>2 DEF q

\* The work lists a run's end leaves.
EndLists(r, outcome, rest) ==
    {<<Hook(r, outcome)>> \o <<Release(r)>> \o <<Dispatch>> \o rest,
     <<Hook(r, outcome)>> \o <<>> \o <<Dispatch>> \o rest}
FailLists(r, rest) == {<<Hook(r, "failed"), Dispatch>> \o rest, <<Dispatch>> \o rest}

LEMMA SpreadEnd ==
    ASSUME NEW r \in Runs, NEW outcome \in Outcome, NEW rest \in Seq(Job), Spread(rest),
           NEW q \in EndLists(r, outcome, rest) \cup FailLists(r, rest)
    PROVE  Spread(q) /\ \A j \in Jobs(q) : j \in Jobs(rest) \/ j.op \in {"hook", "dispatch"} \/ j = Release(r)
<1> DEFINE h == Hook(r, outcome)
           f == Hook(r, "failed")
           l == Release(r)
           d == Dispatch
<1>1. h \in Job /\ f \in Job /\ l \in Job /\ d \in Job
  BY JobTypes DEF Outcome
<1>2. h.op = "hook" /\ f.op = "hook" /\ l.op = "release" /\ d.op = "dispatch"
  BY DEF Hook, Release, Dispatch
<1> HIDE DEF h, f, l, d
<1>3. /\ <<h>> \in Seq(Job) /\ <<l>> \in Seq(Job) /\ <<d>> \in Seq(Job) /\ <<f, d>> \in Seq(Job)
      /\ <<h>> \o <<l>> \in Seq(Job) /\ <<h>> \o <<>> = <<h>> /\ <<h>> \o <<d>> \in Seq(Job)
      /\ <<h>> \o <<l>> \o <<d>> \in Seq(Job)
  BY <1>1, PushTypes, ConcatEmptySeq
<1>4. Jobs(<<h>>) = {h} /\ Jobs(<<l>>) = {l} /\ Jobs(<<d>>) = {d} /\ Jobs(<<f, d>>) = {f, d}
  BY JobsListed
<1>5. /\ Jobs(<<h>> \o <<l>>) = Jobs(<<h>>) \cup Jobs(<<l>>)
      /\ Jobs(<<h>> \o <<d>>) = Jobs(<<h>>) \cup Jobs(<<d>>)
  BY <1>3, JobsConcat
<1>6. Jobs(<<h>> \o <<l>> \o <<d>>) = Jobs(<<h>> \o <<l>>) \cup Jobs(<<d>>)
  BY <1>3, JobsConcat
<1>7. PICK p \in {<<h>> \o <<l>> \o <<d>>, <<h>> \o <<d>>, <<f, d>>, <<d>>} : q = p \o rest
  <2>1. q \in {<<h>> \o <<l>> \o <<d>> \o rest, <<h>> \o <<>> \o <<d>> \o rest, <<f, d>> \o rest, <<d>> \o rest}
    BY DEF EndLists, FailLists, h, f, l, d
  <2>2. q \in {<<h>> \o <<l>> \o <<d>> \o rest, <<h>> \o <<d>> \o rest, <<f, d>> \o rest, <<d>> \o rest}
    BY <1>3, <2>1
  <2> QED
    BY <2>2
<1>8. p \in Seq(Job) /\ Jobs(p) \subseteq {h, f, l, d}
  <2>1. Jobs(<<h>> \o <<l>> \o <<d>>) = {h, l, d} /\ Jobs(<<h>> \o <<d>>) = {h, d}
    BY <1>4, <1>5, <1>6
  <2>2. /\ Jobs(<<h>> \o <<l>> \o <<d>>) \subseteq {h, f, l, d} /\ Jobs(<<h>> \o <<d>>) \subseteq {h, f, l, d}
        /\ Jobs(<<f, d>>) \subseteq {h, f, l, d} /\ Jobs(<<d>>) \subseteq {h, f, l, d}
    BY <1>4, <2>1
  <2>3. p = <<h>> \o <<l>> \o <<d>> \/ p = <<h>> \o <<d>> \/ p = <<f, d>> \/ p = <<d>>
    BY <1>7
  <2>4. p \in Seq(Job)
    BY <1>3, <2>3
  <2>5. Jobs(p) \subseteq {h, f, l, d}
    BY <2>2, <2>3, Zenon
  <2> QED
    BY <2>4, <2>5
<1>9. Spread(q)
  BY <1>2, <1>7, <1>8, SpreadConcat
<1>10. Jobs(q) = Jobs(p) \cup Jobs(rest)
  BY <1>7, <1>8, JobsConcat
<1> QED
  BY <1>2, <1>8, <1>9, <1>10 DEF l

LEMMA FailJobs ==
    ASSUME NEW r \in Runs, NEW rest \in Seq(Job), NEW q \in FailLists(r, rest)
    PROVE  Jobs(q) = {Hook(r, "failed"), Dispatch} \cup Jobs(rest) \/ Jobs(q) = {Dispatch} \cup Jobs(rest)
<1>1. PICK o \in Outcome : o = "failed"
  BY DEF Outcome
<1>2. /\ Jobs(<<Hook(r, o)>> \o <<Release(r)>> \o <<Dispatch>> \o rest) = {Hook(r, o), Release(r), Dispatch} \cup Jobs(rest)
      /\ Jobs(<<Hook(r, o), Dispatch>> \o rest) = {Hook(r, o), Dispatch} \cup Jobs(rest)
      /\ Jobs(<<Dispatch>> \o rest) = {Dispatch} \cup Jobs(rest)
  BY EndJobs
<1>3. q = <<Hook(r, o), Dispatch>> \o rest \/ q = <<Dispatch>> \o rest
  BY <1>1 DEF FailLists
<1>4. Jobs(q) = {Hook(r, o), Dispatch} \cup Jobs(rest) \/ Jobs(q) = {Dispatch} \cup Jobs(rest)
  BY <1>2, <1>3
<1> QED
  BY <1>1, <1>4

LEMMA SpreadRest ==
    ASSUME TypeOK, todo # <<>>, Spread(todo), NEW r \in Head(todo).runs, Head(todo).op = "execute"
    PROVE  /\ r \in Runs /\ RestOf(r) \in Seq(Job) /\ Spread(RestOf(r))
           /\ \A j \in Jobs(RestOf(r)) :
                 /\ j \in Jobs(todo) \/ (j.op = "execute" /\ j.runs \subseteq Head(todo).runs)
                 /\ j.op = "execute" => r \notin j.runs
<1> DEFINE h == [Head(todo) EXCEPT !.runs = @ \ {r}]
<1>1. todo \in Seq(Job) /\ Head(todo) \in Job /\ Tail(todo) \in Seq(Job) /\ r \in Runs /\ RestOf(r) \in Seq(Job)
  BY RestTypes DEF TypeOK, ControlTypes
<1>2. h.op = "execute" /\ h.runs = Head(todo).runs \ {r}
  BY <1>1 DEF Job
<1>3. RestOf(r) = Tail(todo) \/ RestOf(r) = <<h>> \o Tail(todo)
  BY <1>1 DEF RestOf
<1>4. Spread(Tail(todo)) /\ \A j \in Jobs(Tail(todo)) : j.op = "execute" => Head(todo).runs \cap j.runs = {}
  BY <1>1, SpreadTail
<1>5. Jobs(Tail(todo)) \subseteq Jobs(todo)
  BY <1>1, JobsTail
<1> HIDE DEF h
<1>6. Spread(<<h>> \o Tail(todo)) /\ Jobs(<<h>> \o Tail(todo)) = {h} \cup Jobs(Tail(todo))
  BY <1>1, <1>2, <1>4, SpreadPushed, JobsPushed
<1> QED
  BY <1>1, <1>2, <1>3, <1>4, <1>5, <1>6

-----------------------------------------------------------------------------
\* Every step that is not excluded keeps Alone.

LEMMA AloneInit == Init => Alone
<1> SUFFICES ASSUME Init PROVE Alone
  OBVIOUS
<1>1. Jobs(todo) = {} /\ Spread(todo)
  BY JobsEmpty, SpreadFew DEF Init
<1> QED
  BY <1>1 DEF Init, Alone, OneExecution, ExecutionsKnown, ExecutesIdle, ReleasesSettled, Leased, BootsAlone, InFlight

\* A handler that begins with nothing to execute and moves no run into or out of flight.
LEMMA AloneQuiet ==
    ASSUME TypeOK, Alone, UNCHANGED <<execs, active, held>>,
           \A r \in Runs : status'[r] # status[r] => status[r] \notin InFlight /\ status'[r] \notin InFlight,
           \A j \in Jobs(todo') : \/ j.op \in {"hook", "dispatch"}
                                  \/ j.op \in {"release", "erase"} /\ \A r \in j.runs : status'[r] \notin InFlight \cup {"queued"}
    PROVE  Alone'
<1>1. \A e \in execs : e.run \in Runs
  BY DEF TypeOK, MemoryTypes, Exec
<1>2. OneExecution' /\ ExecutionsKnown'
  BY <1>1 DEF Alone, OneExecution, ExecutionsKnown, InFlight
<1>3. ExecutesIdle' /\ ReleasesSettled' /\ Spread(todo') /\ BootsAlone'
  BY SpreadFew DEF ExecutesIdle, ReleasesSettled, BootsAlone, BootJob
<1>4. Leased'
  BY DEF Alone, Leased
<1> QED
  BY <1>2, <1>3, <1>4 DEF Alone

\* Short work lists.
LEMMA QuietLists ==
    ASSUME NEW r \in Runs
    PROVE  /\ \A j \in Jobs(<<>>) : FALSE
           /\ \A j \in Jobs(<<Dispatch>>) : j.op = "dispatch"
           /\ \A j \in Jobs(<<Hook(r, "cancelled")>>) : j.op = "hook"
           /\ \A j \in Jobs(<<Hook(r, "cancelled")>> \o <<Dispatch>>) : j.op \in {"hook", "dispatch"}
           /\ \A j \in Jobs(<<Hook(r, "cancelled")>> \o <<>>) : j.op = "hook"
           /\ \A j \in Jobs(<<Release(r), Dispatch>>) : j.op = "dispatch" \/ (j.op = "release" /\ j.runs = {r})
           /\ \A j \in Jobs(<<Erase(r), Dispatch>>) : j.op = "dispatch" \/ (j.op = "erase" /\ j.runs = {r})
           /\ <<Erase(r), Dispatch>> \in Seq(Job) /\ Hook(r, "cancelled") \in Job
<1>1. Hook(r, "cancelled").op = "hook" /\ Dispatch.op = "dispatch" /\ Release(r).op = "release" /\ Erase(r).op = "erase"
        /\ Release(r).runs = {r} /\ Erase(r).runs = {r}
  BY DEF Hook, Dispatch, Release, Erase
<1>2. Hook(r, "cancelled") \in Job /\ Dispatch \in Job /\ Release(r) \in Job /\ Erase(r) \in Job
  BY JobTypes DEF Outcome
<1>3. Jobs(<<>>) = {} /\ Jobs(<<Dispatch>>) = {Dispatch} /\ Jobs(<<Hook(r, "cancelled")>>) = {Hook(r, "cancelled")}
        /\ Jobs(<<Release(r), Dispatch>>) = {Release(r), Dispatch} /\ Jobs(<<Erase(r), Dispatch>>) = {Erase(r), Dispatch}
  BY JobsEmpty, JobsListed
<1>4. Jobs(<<Hook(r, "cancelled")>> \o <<Dispatch>>) = {Hook(r, "cancelled"), Dispatch}
        /\ Jobs(<<Hook(r, "cancelled")>> \o <<>>) = {Hook(r, "cancelled")}
  BY <1>2, JobsJoined
<1>5. <<Erase(r), Dispatch>> \in Seq(Job)
  BY <1>2
<1> QED
  BY <1>1, <1>2, <1>3, <1>4, <1>5

LEMMA AlonePlanning ==
    ASSUME TypeOK, LifeInv, Alone, NEW r \in Runs
    PROVE  Plan(r) \/ BeginStreamingPlan(r) \/ PlannerPlans(r) \/ PlannerEndsBadly(r) => Alone'
<1>1. CASE Plan(r) \/ BeginStreamingPlan(r) \/ PlannerPlans(r) \/ PlannerEndsBadly(r)
  <2>1. UNCHANGED <<execs, active, held>> /\ todo = <<>> /\ todo' = todo
    BY <1>1 DEF Plan, BeginStreamingPlan, PlannerPlans, PlannerEndsBadly, memory, Serving
  <2>2. status[r] \notin InFlight
    BY <1>1 DEF Plan, BeginStreamingPlan, PlannerPlans, PlannerEndsBadly, LifeInv, PlannersAtWork, InFlight
  <2>3. \A q \in Runs : status'[q] # status[q] => q = r /\ status'[q] \notin InFlight
    <3>1. CASE Plan(r) \/ BeginStreamingPlan(r) \/ PlannerPlans(r)
      BY <3>1 DEF Plan, BeginStreamingPlan, PlannerPlans, TypeOK, DbTypes, InFlight
    <3>2. CASE PlannerEndsBadly(r)
      <4>1. UNCHANGED status \/ status' = [status EXCEPT ![r] = "failed"] \/ status' = [status EXCEPT ![r] = "cancelled"]
        BY <3>2 DEF PlannerEndsBadly
      <4> QED
        BY <4>1 DEF TypeOK, DbTypes, InFlight
    <3> QED
      BY <1>1, <3>1, <3>2
  <2> QED
    BY <2>1, <2>2, <2>3, QuietLists, AloneQuiet
<1> QED
  BY <1>1

LEMMA AloneApproving ==
    ASSUME TypeOK, Alone, NEW r \in Runs
    PROVE  Approve(r) \/ ApproveAsks(r) \/ RetypeAsks(r) \/ Retype(r) \/ AbortSettles(r) \/ AbortAsks(r) \/ DeleteRun(r)
              => Alone'
<1>1. CASE ApproveAsks(r) \/ RetypeAsks(r) \/ AbortAsks(r)
  <2>1. UNCHANGED <<execs, active, held, status>> /\ todo = <<>> /\ todo' = todo
    BY <1>1 DEF ApproveAsks, RetypeAsks, AbortAsks, db, Serving
  <2> QED
    BY <2>1, QuietLists, AloneQuiet
<1>2. CASE Approve(r) \/ Retype(r)
  <2>1. UNCHANGED <<execs, active, held>> /\ todo' = <<Dispatch>>
    BY <1>2 DEF Approve, JoinQueue, Retype, db
  <2>2. \A q \in Runs : status'[q] # status[q] => status[q] \notin InFlight /\ status'[q] \notin InFlight
    BY <1>2 DEF Approve, JoinQueue, Retype, db, TypeOK, DbTypes, InFlight
  <2> QED
    BY <2>1, <2>2, QuietLists, AloneQuiet
<1>3. CASE AbortSettles(r)
  <2>1. UNCHANGED <<execs, active, held>> /\ todo' = <<Release(r), Dispatch>>
    BY <1>3 DEF AbortSettles, memory
  <2>2. /\ \A q \in Runs : status'[q] # status[q] => status[q] \notin InFlight /\ status'[q] \notin InFlight
        /\ status'[r] \notin InFlight \cup {"queued"}
    BY <1>3 DEF AbortSettles, Abortable, TypeOK, DbTypes, InFlight
  <2>3. \A j \in Jobs(todo') : j.op = "dispatch" \/ (j.op = "release" /\ j.runs = {r})
    BY <2>1, QuietLists
  <2> QED
    BY <2>1, <2>2, <2>3, AloneQuiet
<1>4. CASE DeleteRun(r)
  <2>1. UNCHANGED <<execs, active, held, status>> /\ status'[r] \notin InFlight \cup {"queued"}
    BY <1>4 DEF DeleteRun, db, memory, isDeletableRun, InFlight
  <2> DEFINE t == <<Erase(r), Dispatch>>
  <2>2. todo' = <<Hook(r, "cancelled")>> \o t \/ todo' = <<>> \o t
    BY <1>4 DEF DeleteRun
  <2>3. t \in Seq(Job) /\ \A j \in Jobs(t) : j.op = "dispatch" \/ (j.op = "erase" /\ j.runs = {r})
    BY QuietLists
  <2>4. Hook(r, "cancelled").op = "hook"
    BY DEF Hook
  <2> HIDE DEF t
  <2>5. <<>> \o t = t /\ Jobs(<<Hook(r, "cancelled")>> \o t) = {Hook(r, "cancelled")} \cup Jobs(t)
    BY <2>3, ConcatEmptySeq, JobsPushed
  <2>6. \A j \in Jobs(todo') : j.op \in {"hook", "dispatch"} \/ (j.op = "erase" /\ j.runs = {r})
    BY <2>2, <2>3, <2>4, <2>5
  <2> QED
    BY <2>1, <2>6, AloneQuiet
<1> QED
  BY <1>1, <1>2, <1>3, <1>4

\* An execution changed in place.
LEMMA AloneSameExecution ==
    ASSUME TypeOK, Alone, NEW e \in execs, NEW f, f.run = e.run, f.id = e.id,
           execs' = (execs \ {e}) \cup {f}, UNCHANGED <<status, active, held>>,
           Jobs(todo') \subseteq Jobs(todo) \/ (\A j \in Jobs(todo') : j.op = "walk"), Spread(todo')
    PROVE  Alone' /\ Working' = Working
<1>1. OneExecution' /\ ExecutionsKnown'
  BY DEF Alone, OneExecution, ExecutionsKnown
<1>2. \A g \in execs' : \E h \in execs : h.run = g.run
  OBVIOUS
<1>3. \A g \in execs : \E h \in execs' : h.run = g.run
  OBVIOUS
<1>4. ExecutesIdle'
  BY <1>2 DEF Alone, ExecutesIdle
<1>5. ReleasesSettled'
  BY DEF Alone, ReleasesSettled
<1>6. ~\E j \in Jobs(todo') : BootJob(j)
  BY DEF Alone, BootsAlone, BootJob
<1>7. Leased' /\ BootsAlone'
  BY <1>6 DEF Alone, Leased, BootsAlone
<1>8. Working' = Working
  BY <1>2, <1>3 DEF Working
<1> QED
  BY <1>1, <1>4, <1>5, <1>7, <1>8 DEF Alone

LEMMA AloneEnding ==
    ASSUME TypeOK, LifeInv, Alone, Untouched, NEW r \in Runs
    PROVE  Discard(r) \/ Cancel(r) \/ CancelPaused(r) => Alone'
<1>1. CASE Discard(r)
  <2>1. UNCHANGED <<execs, active, held>>
          /\ (todo' = <<Hook(r, "cancelled")>> \o <<Dispatch>> \/ todo' = <<Hook(r, "cancelled")>> \o <<>>)
    BY <1>1 DEF Discard
  <2>2. status[r] \in {"planning", "planned", "queued"}
    BY <1>1 DEF Discard, Discardable, Untouched
  <2>3. \A q \in Runs : status'[q] # status[q] => status[q] \notin InFlight /\ status'[q] \notin InFlight
    BY <1>1, <2>2 DEF Discard, TypeOK, DbTypes, InFlight
  <2>4. \A j \in Jobs(todo') : j.op \in {"hook", "dispatch"}
    BY <2>1, QuietLists
  <2> QED
    BY <2>1, <2>3, <2>4, AloneQuiet
<1>2. CASE Cancel(r)
  <2>0. UNCHANGED <<status, active, held, todo>> /\ todo = <<>> /\ Spread(todo)
    BY <1>2 DEF Cancel, db, Serving, Alone
  <2>1. CASE UNCHANGED execs
    BY <2>0, <2>1, QuietLists, AloneQuiet
  <2>2. CASE \E e \in execs : execs' = (execs \ {e}) \cup {[e EXCEPT !.aborted = TRUE]}
    <3>1. PICK e \in execs : execs' = (execs \ {e}) \cup {[e EXCEPT !.aborted = TRUE]}
      BY <2>2
    <3>2. [e EXCEPT !.aborted = TRUE].run = e.run /\ [e EXCEPT !.aborted = TRUE].id = e.id
      BY DEF TypeOK, MemoryTypes, Exec
    <3> QED
      BY <2>0, <3>1, <3>2, AloneSameExecution
  <2> QED
    BY <1>2, <2>1, <2>2 DEF Cancel
<1>3. CASE CancelPaused(r)
  <2>1. UNCHANGED <<execs, active, held>> /\ todo' = <<Hook(r, "cancelled")>> /\ active[r] = 0
    BY <1>3 DEF CancelPaused, memory
  <2>2. \A e \in execs : e.run # r /\ e.run \in Runs
    BY <2>1 DEF Alone, ExecutionsKnown, TypeOK, MemoryTypes, Exec
  <2>3. \A q \in Runs : status'[q] = IF q = r THEN "cancelled" ELSE status[q]
    BY <1>3 DEF CancelPaused, TypeOK, DbTypes
  <2>4. \A j \in Jobs(todo') : j.op = "hook"
    BY <2>1, QuietLists
  <2>5. OneExecution' /\ ExecutionsKnown'
    BY <2>1, <2>2, <2>3 DEF Alone, OneExecution, ExecutionsKnown
  <2>6. ExecutesIdle' /\ ReleasesSettled' /\ Spread(todo') /\ BootsAlone'
    BY <2>4, SpreadFew DEF ExecutesIdle, ReleasesSettled, BootsAlone, BootJob
  <2>7. Leased'
    BY <2>1, <2>3 DEF Alone, Leased, InFlight
  <2> QED
    BY <2>5, <2>6, <2>7 DEF Alone
<1> QED
  BY <1>1, <1>2, <1>3

\* The work list of a boot that has not resumed yet begins with the boot's own entries.
LEMMA BootFirst ==
    ASSUME TypeOK, Alone, todo # <<>>, ~BootJob(Head(todo))
    PROVE  \A j \in Jobs(todo) : ~BootJob(j)
<1>1. BootJob(FailAll({})) /\ BootJob(Resume)
  BY DEF BootJob, FailAll, Resume
<1>2. todo \notin {<<FailAll({}), Resume, Dispatch>>, <<Resume, Dispatch>>}
  BY <1>1
<1> QED
  BY <1>2 DEF Alone, BootsAlone

\* A step of the running handler: what it left of the work list is what it had to do before, and no
\* run comes into or out of flight.
LEMMA AloneTail ==
    ASSUME TypeOK, Alone, todo # <<>>, ~BootJob(Head(todo)), todo' = Tail(todo),
           UNCHANGED <<status, execs, active>>,
           \A r \in Runs : held'[r] \subseteq held[r] /\ (status[r] \in InFlight => held'[r] = held[r])
    PROVE  Alone'
<1>1. todo \in Seq(Job) /\ Jobs(todo') \subseteq Jobs(todo)
  BY JobsTail DEF TypeOK, ControlTypes
<1>2. Spread(todo')
  BY <1>1, SpreadTail DEF Alone
<1>3. OneExecution' /\ ExecutionsKnown' /\ ExecutesIdle' /\ ReleasesSettled'
  BY <1>1 DEF Alone, OneExecution, ExecutionsKnown, ExecutesIdle, ReleasesSettled
<1>4. Leased'
  BY DEF Alone, Leased
<1>5. BootsAlone'
  BY <1>1, BootFirst DEF BootsAlone
<1> QED
  BY <1>2, <1>3, <1>4, <1>5 DEF Alone

LEMMA AloneHandler ==
    ASSUME TypeOK, LifeInv, Alone
    PROVE  TellHook \/ ReleaseLocks \/ EraseRun \/ DispatchQueue \/ DispatchNothing \/ ExecuteNone => Alone'
<1>1. CASE TellHook \/ DispatchNothing \/ ExecuteNone
  <2>1. todo' = Tail(todo) /\ todo # <<>> /\ ~BootJob(Head(todo)) /\ UNCHANGED <<status, execs, active, held>>
    BY <1>1 DEF TellHook, DispatchNothing, ExecuteNone, Doing, db, memory, BootJob
  <2> QED
    BY <2>1, AloneTail
<1>2. CASE ReleaseLocks \/ EraseRun
  <2>1. todo' = Tail(todo) /\ todo # <<>> /\ ~BootJob(Head(todo)) /\ UNCHANGED <<status, execs, active>>
          /\ Head(todo).op \in {"release", "erase"}
    BY <1>2 DEF ReleaseLocks, EraseRun, Doing, memory, BootJob
  <2>2. PICK r \in Head(todo).runs : held' = releaseLocks(held, r)
    BY <1>2 DEF ReleaseLocks, EraseRun
  <2>3. status[r] \notin InFlight
    BY <2>1, TimelyTail DEF Alone, ReleasesSettled
  <2>4. \A q \in Runs : held'[q] \subseteq held[q] /\ (status[q] \in InFlight => held'[q] = held[q])
    BY <2>2, <2>3 DEF releaseLocks, TypeOK, DbTypes
  <2> QED
    BY <2>1, <2>4, AloneTail
<1>3. CASE DispatchQueue
  <2> DEFINE S == Startable(held, approvedAt, Reserving)
  <2>1. todo' = <<Execute(S)>> \o Tail(todo) /\ todo # <<>> /\ ~BootJob(Head(todo)) /\ UNCHANGED <<execs, active>>
    BY <1>3 DEF DispatchQueue, Doing, memory, BootJob
  <2>2. \A r \in Runs : status'[r] = IF r \in S THEN "approved" ELSE status[r]
    BY <1>3 DEF DispatchQueue
  <2>3. \A r \in Runs : held'[r] = IF r \in S THEN held[r] \cup ClaimsOf[r] ELSE held[r]
    BY <1>3 DEF DispatchQueue
  <2>4. \A r \in S : r \in Runs /\ status[r] = "queued"
    BY DEF Startable, Reserving
  <2>5. Execute(S).op = "execute" /\ Execute(S).runs = S
    BY DEF Execute
  <2> HIDE DEF S
  <2>6. todo \in Seq(Job) /\ Tail(todo) \in Seq(Job) /\ Jobs(Tail(todo)) \subseteq Jobs(todo) /\ Spread(Tail(todo))
    BY <2>1, JobsTail, SpreadTail DEF TypeOK, ControlTypes, Alone
  <2>7. Jobs(todo') = {Execute(S)} \cup Jobs(Tail(todo))
    BY <2>1, <2>6, JobsPushed
  <2>8. \A j \in Jobs(Tail(todo)) : j \in Jobs(todo) /\ j.runs \subseteq Runs /\ ~BootJob(j)
    BY <2>1, <2>6, JobsTyped, BootFirst
  <2>9. \A e \in execs : e.run \in Runs /\ e.run \notin S
    BY <2>4 DEF Alone, ExecutionsKnown, TypeOK, MemoryTypes, Exec
  <2>10. Spread(todo')
    <3>1. \A j \in Jobs(Tail(todo)) : j.op = "execute" => S \cap j.runs = {}
      BY <2>4, <2>8 DEF Alone, ExecutesIdle, InFlight
    <3> QED
      BY <2>1, <2>5, <2>6, <3>1, SpreadPushed
  <2>11. OneExecution' /\ ExecutionsKnown'
    BY <2>1, <2>2, <2>9 DEF Alone, OneExecution, ExecutionsKnown
  <2>12. ExecutesIdle'
    <3>1. ASSUME NEW j \in Jobs(Tail(todo)), j.op = "execute", NEW r \in j.runs
          PROVE  status'[r] \in InFlight /\ \A e \in execs' : e.run # r
      BY <2>1, <2>2, <2>8, <3>1 DEF Alone, ExecutesIdle, InFlight
    <3>2. ASSUME NEW r \in S PROVE status'[r] \in InFlight /\ \A e \in execs' : e.run # r
      BY <2>1, <2>2, <2>4, <2>9 DEF InFlight
    <3> QED
      BY <2>5, <2>7, <3>1, <3>2 DEF ExecutesIdle
  <2>13. ReleasesSettled'
    BY <2>2, <2>4, <2>5, <2>7, <2>8 DEF Alone, ReleasesSettled, InFlight
  <2>14. Leased'
    BY <2>2, <2>3, <2>4 DEF Alone, Leased, InFlight
  <2>15. BootsAlone'
    BY <2>5, <2>7, <2>8 DEF BootsAlone, BootJob
  <2> QED
    BY <2>10, <2>11, <2>12, <2>13, <2>14, <2>15 DEF Alone
<1> QED
  BY <1>1, <1>2, <1>3

\* An execution that ends, whatever its run reads afterwards.
LEMMA AloneEnd ==
    ASSUME TypeOK, TypeOK', Alone, NEW e \in execs, NEW rest \in Seq(Job), Jobs(rest) \subseteq Jobs(todo),
           execs' = execs \ {e}, held' = held, active' = [active EXCEPT ![e.run] = 0],
           \A q \in Runs : q # e.run => status'[q] = status[q],
           \A j \in Jobs(todo') : \/ j \in Jobs(rest) \/ j.op \in {"hook", "dispatch"}
                                  \/ j.op = "release" /\ j.runs = {e.run} /\ status'[e.run] \notin InFlight \cup {"queued"},
           status'[e.run] # "approved", Spread(todo')
    PROVE  Alone' /\ Working' = Working \ {e.run}
<1>1. \A f \in execs : f.run \in Runs
  BY DEF TypeOK, MemoryTypes, Exec
<1>2. \A f \in execs' : f \in execs /\ f.run # e.run
  BY DEF Alone, OneExecution
<1>3. OneExecution' /\ ExecutionsKnown'
  BY <1>1, <1>2 DEF Alone, OneExecution, ExecutionsKnown, TypeOK, MemoryTypes
<1>4. \A j \in Jobs(rest) : j \in Jobs(todo) /\ j.runs \subseteq Runs
  BY JobsTyped
<1>5. ExecutesIdle'
  <2> SUFFICES ASSUME NEW j \in Jobs(todo'), j.op = "execute", NEW r \in j.runs
               PROVE  status'[r] \in InFlight /\ \A f \in execs' : f.run # r
    BY DEF ExecutesIdle
  <2>1. j \in Jobs(todo) /\ r \in Runs
    BY <1>4
  <2>2. status[r] \in InFlight /\ \A f \in execs : f.run # r
    BY <2>1 DEF Alone, ExecutesIdle
  <2> QED
    BY <1>2, <2>1, <2>2
<1>6. ReleasesSettled'
  <2> SUFFICES ASSUME NEW j \in Jobs(todo'), j.op \in {"release", "erase"}, NEW r \in j.runs
               PROVE  status'[r] \notin InFlight \cup {"queued"}
    BY DEF ReleasesSettled
  <2>1. CASE j \in Jobs(rest)
    <3>1. r \in Runs /\ status[r] \notin InFlight \cup {"queued"}
      BY <1>4, <2>1 DEF Alone, ReleasesSettled
    <3>2. status[e.run] = "running"
      BY DEF Alone, ExecutionsKnown
    <3> QED
      BY <3>1, <3>2 DEF InFlight
  <2>2. CASE j \notin Jobs(rest)
    BY <2>2
  <2> QED
    BY <2>1, <2>2
<1>7. Leased'
  <2>1. ClaimsOf[e.run] \subseteq held[e.run]
    BY <1>1 DEF Alone, Leased, ExecutionsKnown, InFlight
  <2> QED
    BY <2>1 DEF Alone, Leased, InFlight
<1>8. BootsAlone'
  BY <1>4 DEF Alone, BootsAlone, BootJob
<1>9. Working' = Working \ {e.run}
  BY <1>2 DEF Working
<1> QED
  BY <1>3, <1>5, <1>6, <1>7, <1>8, <1>9 DEF Alone

\* The ends of an execution that commit an outcome, and those a refused statement makes.
LEMMA AloneEnds ==
    ASSUME TypeOK, TypeOK', Alone, NEW e \in execs, NEW rest \in Seq(Job), Jobs(rest) \subseteq Jobs(todo), Spread(rest),
           held' = held,
           \/ \E outcome \in Outcome, release \in {<<>>, <<Release(e.run)>>} : Ends(e, outcome, release, rest)
           \/ Forget(e.run) /\ execs' = execs \ {e} /\ (RecordsFailure(e.run, rest) \/ CannotRecord(rest))
    PROVE  Alone' /\ Working' = Working \ {e.run}
<1>r. e.run \in Runs /\ status[e.run] = "running"
  BY DEF TypeOK, MemoryTypes, Exec, Alone, ExecutionsKnown
<1>l. Release(e.run).op = "release" /\ Release(e.run).runs = {e.run}
  BY DEF Release
<1>1. CASE \E outcome \in Outcome, release \in {<<>>, <<Release(e.run)>>} : Ends(e, outcome, release, rest)
  <2>1. PICK outcome \in Outcome, release \in {<<>>, <<Release(e.run)>>} : Ends(e, outcome, release, rest)
    BY <1>1
  <2>2. todo' \in EndLists(e.run, outcome, rest)
    BY <2>1 DEF Ends, EndLists
  <2>3. Spread(todo') /\ \A j \in Jobs(todo') : j \in Jobs(rest) \/ j.op \in {"hook", "dispatch"} \/ j = Release(e.run)
    BY <1>r, <2>2, SpreadEnd
  <2>4. /\ execs' = execs \ {e} /\ active' = [active EXCEPT ![e.run] = 0]
        /\ \A q \in Runs : status'[q] = IF q = e.run THEN outcome ELSE status[q]
    BY <2>1 DEF Ends, Forget, TypeOK, DbTypes
  <2>5. status'[e.run] \notin InFlight \cup {"queued"} /\ status'[e.run] # "approved"
    BY <1>r, <2>4 DEF InFlight, Outcome
  <2> QED
    BY <1>l, <2>3, <2>4, <2>5, AloneEnd
<1>2. CASE Forget(e.run) /\ execs' = execs \ {e} /\ (RecordsFailure(e.run, rest) \/ CannotRecord(rest))
  <2>1. todo' \in FailLists(e.run, rest)
    BY <1>2 DEF RecordsFailure, CannotRecord, FailLists
  <2>2. "failed" \in Outcome
    BY DEF Outcome
  <2>3. Spread(todo') /\ \A j \in Jobs(todo') : j \in Jobs(rest) \/ j.op \in {"hook", "dispatch"}
    <3>1. Spread(todo')
      BY <1>r, <2>1, <2>2, SpreadEnd
    <3>2. Jobs(todo') = {Hook(e.run, "failed"), Dispatch} \cup Jobs(rest) \/ Jobs(todo') = {Dispatch} \cup Jobs(rest)
      BY <1>r, <2>1, FailJobs DEF FailLists
    <3>3. Hook(e.run, "failed").op = "hook" /\ Dispatch.op = "dispatch"
      BY DEF Hook, Dispatch
    <3> QED
      BY <3>1, <3>2, <3>3
  <2>4. active' = [active EXCEPT ![e.run] = 0] /\ \A q \in Runs : status'[q] = status[q] \/ (q = e.run /\ status'[q] = "failed")
    BY <1>2 DEF RecordsFailure, CannotRecord, Forget, TypeOK, DbTypes
  <2>5. status'[e.run] # "approved"
    BY <1>r, <2>4
  <2>6. \A q \in Runs : q # e.run => status'[q] = status[q]
    BY <2>4
  <2> QED
    BY <1>2, <2>3, <2>4, <2>5, <2>6, AloneEnd
<1> QED
  BY <1>1, <1>2

LEMMA AloneExecute ==
    ASSUME TypeOK, TypeOK', LifeInv, Alone
    PROVE  ExecuteRefused \/ ExecuteFaults \/ ExecuteRun => Alone'
<1>b. ASSUME Doing("execute"), NEW r \in Head(todo).runs
      PROVE  /\ r \in Runs /\ RestOf(r) \in Seq(Job) /\ Spread(RestOf(r))
             /\ status[r] \in InFlight /\ \A e \in execs : e.run # r
             /\ \A j \in Jobs(RestOf(r)) :
                   /\ ~BootJob(j) /\ j.runs \subseteq Runs
                   /\ j.op = "execute" => r \notin j.runs /\ \A q \in j.runs : status[q] \in InFlight /\ \A e \in execs : e.run # q
                   /\ j.op \in {"release", "erase"} => \A q \in j.runs : status[q] \notin InFlight \cup {"queued"}
  <2>1. todo # <<>> /\ Head(todo).op = "execute" /\ Spread(todo) /\ Head(todo) \in Jobs(todo) /\ ~BootJob(Head(todo))
    BY <1>b, TimelyTail DEF Doing, Alone, BootJob
  <2>2. /\ r \in Runs /\ RestOf(r) \in Seq(Job) /\ Spread(RestOf(r))
        /\ \A j \in Jobs(RestOf(r)) :
              /\ j \in Jobs(todo) \/ (j.op = "execute" /\ j.runs \subseteq Head(todo).runs)
              /\ j.op = "execute" => r \notin j.runs
    BY <2>1, SpreadRest
  <2>3. \A q \in Head(todo).runs : status[q] \in InFlight /\ \A e \in execs : e.run # q
    BY <2>1 DEF Alone, ExecutesIdle
  <2>4. \A j \in Jobs(RestOf(r)) : ~BootJob(j) /\ j.runs \subseteq Runs
    BY <2>1, <2>2, BootFirst, JobsTyped DEF BootJob
  <2>5. \A j \in Jobs(RestOf(r)) : j.op = "execute" =>
            r \notin j.runs /\ \A q \in j.runs : status[q] \in InFlight /\ \A e \in execs : e.run # q
    BY <2>2, <2>3 DEF Alone, ExecutesIdle
  <2>6. \A j \in Jobs(RestOf(r)) : j.op \in {"release", "erase"} => \A q \in j.runs : status[q] \notin InFlight \cup {"queued"}
    BY <2>2 DEF Alone, ReleasesSettled
  <2> QED
    BY <2>2, <2>3, <2>4, <2>5, <2>6
<1>1. CASE ExecuteRefused \/ ExecuteFaults
  <2>1. PICK r \in Head(todo).runs : Forget(r) /\ (RecordsFailure(r, RestOf(r)) \/ CannotRecord(RestOf(r)))
    BY <1>1 DEF ExecuteRefused, ExecuteFaults, FailRun, FaultFails
  <2>2. Doing("execute") /\ UNCHANGED <<execs, held>>
    BY <1>1 DEF ExecuteRefused, ExecuteFaults
  <2> DEFINE rest == RestOf(r)
  <2>3. /\ r \in Runs /\ rest \in Seq(Job) /\ Spread(rest)
        /\ status[r] \in InFlight /\ \A e \in execs : e.run # r
        /\ \A j \in Jobs(rest) :
              /\ ~BootJob(j) /\ j.runs \subseteq Runs
              /\ j.op = "execute" => r \notin j.runs /\ \A q \in j.runs : status[q] \in InFlight /\ \A e \in execs : e.run # q
              /\ j.op \in {"release", "erase"} => \A q \in j.runs : status[q] \notin InFlight \cup {"queued"}
    BY <1>b, <2>2
  <2>4. todo' \in FailLists(r, rest) /\ active' = [active EXCEPT ![r] = 0]
    BY <2>1 DEF RecordsFailure, CannotRecord, FailLists, Forget
  <2>5. \A q \in Runs : status'[q] = status[q] \/ (q = r /\ status'[q] = "failed")
    BY <2>1 DEF RecordsFailure, CannotRecord, TypeOK, DbTypes
  <2> HIDE DEF rest
  <2>6. Spread(todo') /\ \A j \in Jobs(todo') : j \in Jobs(rest) \/ j.op \in {"hook", "dispatch"}
    <3>1. "failed" \in Outcome
      BY DEF Outcome
    <3>2. Spread(todo')
      BY <2>3, <2>4, <3>1, SpreadEnd
    <3>3. Hook(r, "failed").op = "hook" /\ Dispatch.op = "dispatch"
      BY DEF Hook, Dispatch
    <3> QED
      BY <2>3, <2>4, <3>2, <3>3, FailJobs
  <2>7. OneExecution' /\ ExecutionsKnown'
    <3>1. \A e \in execs : e.run \in Runs /\ e.run # r
      BY <2>3 DEF TypeOK, MemoryTypes, Exec
    <3> QED
      BY <2>2, <2>4, <2>5, <3>1 DEF Alone, OneExecution, ExecutionsKnown, TypeOK, MemoryTypes
  <2>8. ExecutesIdle'
    <3> SUFFICES ASSUME NEW j \in Jobs(todo'), j.op = "execute", NEW q \in j.runs
                 PROVE  status'[q] \in InFlight /\ \A e \in execs' : e.run # q
      BY DEF ExecutesIdle
    <3>1. j \in Jobs(rest) /\ q \in Runs /\ q # r /\ status[q] \in InFlight /\ \A e \in execs : e.run # q
      BY <2>3, <2>6
    <3> QED
      BY <2>2, <2>5, <3>1
  <2>9. ReleasesSettled'
    <3> SUFFICES ASSUME NEW j \in Jobs(todo'), j.op \in {"release", "erase"}, NEW q \in j.runs
                 PROVE  status'[q] \notin InFlight \cup {"queued"}
      BY DEF ReleasesSettled
    <3>1. j \in Jobs(rest) /\ q \in Runs /\ status[q] \notin InFlight \cup {"queued"}
      BY <2>3, <2>6
    <3> QED
      BY <2>3, <2>5, <3>1
  <2>10. Leased'
    BY <2>2, <2>5 DEF Alone, Leased, InFlight
  <2>11. BootsAlone'
    BY <2>3, <2>6 DEF BootsAlone, BootJob
  <2> QED
    BY <2>6, <2>7, <2>8, <2>9, <2>10, <2>11 DEF Alone
<1>2. CASE ExecuteRun
  <2>1. PICK r \in Head(todo).runs, id \in 1..MaxExecs :
            /\ execs' = execs \cup {[run |-> r, id |-> id, at |-> 0, left |-> Unfinished(r),
                                     torn |-> {x \in Rows : step[r][x] = "running"},
                                     cleanup |-> \E c \in Cleanups : HasRow(r, c), aborted |-> FALSE]}
            /\ active' = [active EXCEPT ![r] = id]
            /\ status' = [status EXCEPT ![r] = "running"]
            /\ todo' = <<Walk(r, id)>> \o RestOf(r)
    BY <1>2, Zenon DEF ExecuteRun
  <2>2. Doing("execute") /\ held' = held
    BY <1>2 DEF ExecuteRun
  <2> DEFINE rest == RestOf(r)
             x == [run |-> r, id |-> id, at |-> 0, left |-> Unfinished(r),
                   torn |-> {y \in Rows : step[r][y] = "running"},
                   cleanup |-> \E c \in Cleanups : HasRow(r, c), aborted |-> FALSE]
  <2>3. /\ r \in Runs /\ rest \in Seq(Job) /\ Spread(rest)
        /\ status[r] \in InFlight /\ \A e \in execs : e.run # r
        /\ \A j \in Jobs(rest) :
              /\ ~BootJob(j) /\ j.runs \subseteq Runs
              /\ j.op = "execute" => r \notin j.runs /\ \A q \in j.runs : status[q] \in InFlight /\ \A e \in execs : e.run # q
              /\ j.op \in {"release", "erase"} => \A q \in j.runs : status[q] \notin InFlight \cup {"queued"}
    BY <1>b, <2>2
  <2>4. execs' = execs \cup {x} /\ x.run = r /\ x.id = id
    BY <2>1
  <2>5. /\ \A q \in Runs : status'[q] = IF q = r THEN "running" ELSE status[q]
        /\ \A q \in Runs : active'[q] = IF q = r THEN id ELSE active[q]
    BY <2>1 DEF TypeOK, DbTypes, MemoryTypes
  <2>w. todo' = <<Walk(r, id)>> \o rest /\ Walk(r, id).op = "walk"
    BY <2>1 DEF Walk
  <2> HIDE DEF rest, x
  <2>6. Spread(todo') /\ Jobs(todo') = {Walk(r, id)} \cup Jobs(rest)
    BY <2>3, <2>w, SpreadPushed, JobsPushed
  <2>7. OneExecution' /\ ExecutionsKnown'
    <3>1. \A e \in execs : e.run \in Runs /\ e.run # r
      BY <2>3 DEF TypeOK, MemoryTypes, Exec
    <3> QED
      BY <2>3, <2>4, <2>5, <3>1 DEF Alone, OneExecution, ExecutionsKnown
  <2>8. ExecutesIdle'
    <3> SUFFICES ASSUME NEW j \in Jobs(todo'), j.op = "execute", NEW q \in j.runs
                 PROVE  status'[q] \in InFlight /\ \A e \in execs' : e.run # q
      BY DEF ExecutesIdle
    <3>1. j \in Jobs(rest)
      BY <2>6, <2>w
    <3>2. q \in Runs /\ q # r /\ status[q] \in InFlight /\ \A e \in execs : e.run # q
      BY <2>3, <3>1
    <3> QED
      BY <2>4, <2>5, <3>2
  <2>9. ReleasesSettled'
    <3> SUFFICES ASSUME NEW j \in Jobs(todo'), j.op \in {"release", "erase"}, NEW q \in j.runs
                 PROVE  status'[q] \notin InFlight \cup {"queued"}
      BY DEF ReleasesSettled
    <3>1. j \in Jobs(rest)
      BY <2>6, <2>w
    <3>2. q \in Runs /\ status[q] \notin InFlight \cup {"queued"}
      BY <2>3, <3>1
    <3> QED
      BY <2>3, <2>5, <3>2
  <2>10. Leased'
    BY <2>2, <2>3, <2>5 DEF Alone, Leased, InFlight
  <2>11. BootsAlone'
    BY <2>3, <2>6, <2>w DEF BootsAlone, BootJob
  <2> QED
    BY <2>6, <2>7, <2>8, <2>9, <2>10, <2>11 DEF Alone
<1> QED
  BY <1>1, <1>2

LEMMA AloneWalkEnds ==
    ASSUME TypeOK, TypeOK', Alone, NEW e \in execs,
           WalkCompletes(e) \/ WalkCancelled(e) \/ WalkPauses(e) \/ WalkFindsNoStep(e)
              \/ WalkFindsTornStep(e) \/ WalkFaults(e)
    PROVE  Alone' /\ Working' = Working \ {e.run} /\ held' = held
<1>b. Walking(e) /\ held' = held
  BY DEF WalkCompletes, WalkCancelled, WalkPauses, WalkFindsNoStep, WalkFindsTornStep, WalkFaults, db
<1> DEFINE rest == Tail(todo)
<1>c. rest \in Seq(Job) /\ Jobs(rest) \subseteq Jobs(todo) /\ Spread(rest)
  BY <1>b, JobsTail, SpreadTail DEF Walking, Doing, TypeOK, ControlTypes, Alone
<1>1. CASE WalkCompletes(e) \/ WalkCancelled(e) \/ WalkFindsNoStep(e)
  <2>1. \E outcome \in Outcome, release \in {<<>>, <<Release(e.run)>>} : Ends(e, outcome, release, rest)
    BY <1>1 DEF WalkCompletes, WalkCancelled, WalkFindsNoStep, Outcome
  <2> HIDE DEF rest
  <2>2. Alone' /\ Working' = Working \ {e.run}
    BY <1>b, <1>c, <2>1, AloneEnds
  <2> QED
    BY <1>b, <2>2
<1>2. CASE WalkPauses(e)
  <2>1. /\ UNCHANGED status /\ execs' = execs \ {e} /\ active' = [active EXCEPT ![e.run] = 0]
        /\ todo' = rest
    BY <1>2 DEF WalkPauses, db, Forget
  <2>2. status'[e.run] # "approved" /\ \A q \in Runs : q # e.run => status'[q] = status[q]
    BY <2>1 DEF Alone, ExecutionsKnown
  <2> HIDE DEF rest
  <2>3. \A j \in Jobs(todo') : j \in Jobs(rest)
    BY <2>1
  <2>4. Alone' /\ Working' = Working \ {e.run}
    BY <1>b, <1>c, <2>1, <2>2, <2>3, AloneEnd
  <2> QED
    BY <1>b, <2>4
<1>3. CASE WalkFindsTornStep(e) \/ WalkFaults(e)
  <2>1. Forget(e.run) /\ execs' = execs \ {e} /\ (RecordsFailure(e.run, rest) \/ CannotRecord(rest))
    BY <1>3 DEF WalkFindsTornStep, WalkFaults, FailRun, FaultFails
  <2> HIDE DEF rest
  <2>2. Alone' /\ Working' = Working \ {e.run}
    BY <1>b, <1>c, <2>1, AloneEnds
  <2> QED
    BY <1>b, <2>2
<1> QED
  BY <1>1, <1>2, <1>3

LEMMA AloneWalkGoes ==
    ASSUME TypeOK, Alone, NEW e \in execs, WalkStartsStep(e)
    PROVE  Alone' /\ Working' = Working /\ held' = held
<1>r. e \in Exec /\ todo \in Seq(Job) /\ todo # <<>>
  BY DEF TypeOK, MemoryTypes, ControlTypes, WalkStartsStep, Walking, Doing
<1>1. PICK x \in Rows : execs' = (execs \ {e}) \cup {[e EXCEPT !.at = x, !.left = @ \ {x}]}
  BY DEF WalkStartsStep
<1>2. UNCHANGED <<status, active, held>> /\ todo' = Tail(todo)
  BY DEF WalkStartsStep
<1> DEFINE f == [e EXCEPT !.at = x, !.left = @ \ {x}]
<1>3. f.run = e.run /\ f.id = e.id
  BY <1>r DEF Exec
<1>4. execs' = (execs \ {e}) \cup {f}
  BY <1>1
<1> HIDE DEF f
<1>5. Jobs(todo') \subseteq Jobs(todo) /\ Spread(todo')
  BY <1>r, <1>2, JobsTail, SpreadTail DEF Alone
<1>6. Alone' /\ Working' = Working
  BY <1>2, <1>3, <1>4, <1>5, AloneSameExecution
<1> QED
  BY <1>2, <1>6

LEMMA AloneStepEnds ==
    ASSUME TypeOK, TypeOK', Alone, NEW e \in execs, (\E b \in BOOLEAN : StepThrows(e, b)) \/ StepFaults(e)
    PROVE  Alone' /\ Working' = Working \ {e.run} /\ held' = held
<1> DEFINE rest == <<>>
<1>b. rest \in Seq(Job) /\ Jobs(rest) \subseteq Jobs(todo) /\ Spread(rest) /\ held' = held
  BY JobsEmpty, SpreadFew DEF StepThrows, StepFaults
<1>1. CASE \E b \in BOOLEAN : StepThrows(e, b)
  <2>1. \E outcome \in Outcome, release \in {<<>>, <<Release(e.run)>>} : Ends(e, outcome, release, rest)
    BY <1>1 DEF StepThrows, Outcome
  <2> HIDE DEF rest
  <2>2. Alone' /\ Working' = Working \ {e.run}
    BY <1>b, <2>1, AloneEnds
  <2> QED
    BY <1>b, <2>2
<1>2. CASE StepFaults(e)
  <2>1. Forget(e.run) /\ execs' = execs \ {e} /\ (RecordsFailure(e.run, rest) \/ CannotRecord(rest))
    BY <1>2 DEF StepFaults, FaultFails
  <2> HIDE DEF rest
  <2>2. Alone' /\ Working' = Working \ {e.run}
    BY <1>b, <2>1, AloneEnds
  <2> QED
    BY <1>b, <2>2
<1> QED
  BY <1>1, <1>2

LEMMA AloneStepGoes ==
    ASSUME TypeOK, Alone, NEW e \in execs, (\E c \in Cleanups : StepRegistersCleanup(e, c)) \/ StepOk(e)
    PROVE  Alone' /\ Working' = Working /\ held' = held
<1>r. e.run \in Runs /\ e \in Exec
  BY DEF TypeOK, MemoryTypes, Exec
<1>1. CASE \E c \in Cleanups : StepRegistersCleanup(e, c)
  <2>1. UNCHANGED <<execs, active, held, status, todo>> /\ todo = <<>>
    BY <1>1 DEF StepRegistersCleanup, memory, Running, Serving
  <2>2. \A j \in Jobs(todo') : FALSE
    BY <1>r, <2>1, QuietLists
  <2>3. Alone'
    BY <2>1, <2>2, AloneQuiet
  <2> QED
    BY <2>1, <2>3 DEF Working
<1>2. CASE StepOk(e)
  <2> DEFINE f == [e EXCEPT !.at = 0]
  <2>1. /\ execs' = (execs \ {e}) \cup {f} /\ UNCHANGED <<status, active, held>>
        /\ todo' = <<Walk(e.run, e.id)>>
    BY <1>2 DEF StepOk
  <2>2. f.run = e.run /\ f.id = e.id
    BY <1>r DEF Exec
  <2>3. Walk(e.run, e.id).op = "walk"
    BY DEF Walk
  <2>4. Spread(todo') /\ \A j \in Jobs(todo') : j.op = "walk"
    BY <2>1, <2>3, SpreadOne, JobsListed
  <2> HIDE DEF f
  <2>5. Alone' /\ Working' = Working
    BY <2>1, <2>2, <2>4, AloneSameExecution
  <2> QED
    BY <2>1, <2>5
<1> QED
  BY <1>1, <1>2

\* A run that was taken up again by its operator, its locks acquired.
LEMMA AloneTakenUp ==
    ASSUME TypeOK, Alone, NEW r \in Runs, status[r] \in {"failed", "cancelled"},
           held' = acquireLocks(held, r), status' = [status EXCEPT ![r] = "running"],
           todo' = <<Execute({r})>>, UNCHANGED <<execs, active>>
    PROVE  Alone'
<1>1. \A e \in execs : e.run \in Runs /\ e.run # r
  BY DEF Alone, ExecutionsKnown, TypeOK, MemoryTypes, Exec
<1>2. /\ \A q \in Runs : status'[q] = IF q = r THEN "running" ELSE status[q]
      /\ \A q \in Runs : held'[q] = IF q = r THEN held[q] \cup ClaimsOf[q] ELSE held[q]
  BY DEF acquireLocks, TypeOK, DbTypes
<1>3. Execute({r}).op = "execute" /\ Execute({r}).runs = {r} /\ Jobs(todo') = {Execute({r})} /\ Spread(todo')
  BY JobsListed, SpreadOne DEF Execute
<1>4. OneExecution' /\ ExecutionsKnown'
  BY <1>1, <1>2 DEF Alone, OneExecution, ExecutionsKnown
<1>5. ExecutesIdle' /\ ReleasesSettled' /\ BootsAlone'
  BY <1>1, <1>2, <1>3 DEF ExecutesIdle, ReleasesSettled, BootsAlone, BootJob, InFlight
<1>6. Leased'
  BY <1>2 DEF Alone, Leased, InFlight
<1> QED
  BY <1>3, <1>4, <1>5, <1>6 DEF Alone

\* A run that only got its locks.
LEMMA AloneAcquires ==
    ASSUME TypeOK, Alone, NEW r \in Runs, held' = acquireLocks(held, r), todo = <<>>,
           UNCHANGED <<status, todo, execs, active>>
    PROVE  Alone'
<1>1. \A q \in Runs : held'[q] = IF q = r THEN held[q] \cup ClaimsOf[q] ELSE held[q]
  BY DEF acquireLocks, TypeOK, DbTypes
<1>2. Jobs(todo') = {} /\ Spread(todo')
  BY JobsEmpty, SpreadFew
<1>3. OneExecution' /\ ExecutionsKnown'
  BY DEF Alone, OneExecution, ExecutionsKnown
<1>4. ExecutesIdle' /\ ReleasesSettled' /\ BootsAlone'
  BY <1>2 DEF ExecutesIdle, ReleasesSettled, BootsAlone
<1>5. Leased'
  BY <1>1 DEF Alone, Leased
<1> QED
  BY <1>2, <1>3, <1>4, <1>5 DEF Alone

\* What an operator's retry, skip or abort brings about.
TakesUp(r) ==
    /\ status[r] \in {"failed", "cancelled"}
    /\ held' = acquireLocks(held, r) /\ status' = [status EXCEPT ![r] = "running"]
    /\ todo' = <<Execute({r})>> /\ UNCHANGED <<execs, active>>

Acquires(r) ==
    /\ held' = acquireLocks(held, r) /\ todo = <<>> /\ UNCHANGED <<status, todo, execs, active>>

LEMMA RecoveryTakesUp ==
    ASSUME NEW r \in Runs, (\E x \in Rows : Retry(r, x) \/ Skip(r, x)) \/ Abort(r)
    PROVE  TakesUp(r)
<1>1. CASE \E x \in Rows : Retry(r, x)
  BY <1>1 DEF Retry, Recoverable, TakesUp
<1>2. CASE \E x \in Rows : Skip(r, x)
  BY <1>2 DEF Skip, Recoverable, TakesUp, memory
<1>3. CASE Abort(r)
  BY <1>3 DEF Abort, AbortSchedules, Abortable, TakesUp
<1> QED
  BY <1>1, <1>2, <1>3

LEMMA AnswerTakesUp ==
    ASSUME TypeOK, Untouched, NEW w \in waiting, AbortAnswered(w)
    PROVE  w.run \in Runs /\ TakesUp(w.run)
<1>1. w.run \in Runs
  BY DEF TypeOK, MemoryTypes, Request
<1> QED
  BY <1>1 DEF AbortAnswered, AbortSchedules, TakesUp, Untouched

LEMMA RecoveryAcquires ==
    ASSUME TypeOK
    PROVE  /\ \A r \in Runs : RecoveryFaults(r) => Acquires(r)
           /\ \A w \in waiting : AbortCollides(w) => w.run \in Runs /\ Acquires(w.run)
BY DEF RecoveryFaults, AbortCollides, Acquires, memory, Serving, TypeOK, MemoryTypes, Request

LEMMA AloneRecovering ==
    ASSUME TypeOK, Alone, NEW r \in Runs
    PROVE  TakesUp(r) \/ Acquires(r) => Alone'
<1>1. ASSUME TakesUp(r) PROVE Alone'
  BY <1>1, AloneTakenUp DEF TakesUp
<1>2. ASSUME Acquires(r) PROVE Alone'
  BY <1>2, AloneAcquires DEF Acquires
<1> QED
  BY <1>1, <1>2

\* The answers that leave every lock and every execution as they are.
LEMMA AloneAnswers ==
    ASSUME TypeOK, Alone, NEW w \in waiting, ApproveAnswered(w) \/ RetypeAnswered(w) \/ RequestRefused(w)
    PROVE  Alone' /\ UNCHANGED <<held, execs>>
<1>r. w.run \in Runs
  BY DEF TypeOK, MemoryTypes, Request
<1>1. CASE ApproveAnswered(w)
  <2>1. UNCHANGED <<execs, active, held>> /\ todo' = <<Dispatch>>
    BY <1>1 DEF ApproveAnswered, JoinQueue
  <2>2. \A q \in Runs : status'[q] # status[q] => status[q] \notin InFlight /\ status'[q] \notin InFlight
    BY <1>1 DEF ApproveAnswered, JoinQueue, TypeOK, DbTypes, InFlight
  <2>3. \A j \in Jobs(todo') : j.op = "dispatch"
    BY <1>r, <2>1, QuietLists
  <2>4. Alone'
    BY <2>1, <2>2, <2>3, AloneQuiet
  <2> QED
    BY <2>1, <2>4
<1>2. CASE RetypeAnswered(w)
  <2>1. UNCHANGED <<execs, active, held, status>> /\ todo' = <<Dispatch>>
    BY <1>2 DEF RetypeAnswered, db
  <2>2. \A j \in Jobs(todo') : j.op = "dispatch"
    BY <1>r, <2>1, QuietLists
  <2>3. Alone'
    BY <2>1, <2>2, AloneQuiet
  <2> QED
    BY <2>1, <2>3
<1>3. CASE RequestRefused(w)
  <2>1. UNCHANGED <<execs, active, held, status>> /\ todo' = <<>>
    BY <1>3 DEF RequestRefused, db, Serving
  <2>2. \A j \in Jobs(todo') : FALSE
    BY <1>r, <2>1, QuietLists
  <2>3. Alone'
    BY <2>1, <2>2, AloneQuiet
  <2> QED
    BY <2>1, <2>3
<1> QED
  BY <1>1, <1>2, <1>3

\* A process that is gone.
LEMMA AloneDead ==
    ASSUME TypeOK, Alone, execs' = {}, todo' = <<>>, UNCHANGED status,
           \A r \in Runs : held[r] \subseteq held'[r] /\ held'[r] \subseteq ClaimsOf[r]
    PROVE  Alone'
<1>1. Jobs(todo') = {} /\ Spread(todo')
  BY JobsEmpty, SpreadFew
<1>2. OneExecution' /\ ExecutionsKnown' /\ ExecutesIdle' /\ ReleasesSettled' /\ BootsAlone'
  BY <1>1 DEF OneExecution, ExecutionsKnown, ExecutesIdle, ReleasesSettled, BootsAlone
<1>3. Leased'
  BY DEF Alone, Leased
<1> QED
  BY <1>1, <1>2, <1>3 DEF Alone

LEMMA AloneProcess ==
    ASSUME TypeOK, TypeOK', LifeInv, Alone, Untouched
    PROVE  /\ Shutdown \/ Exit \/ Crash \/ Boot => Alone'
           /\ \A r \in Runs : CrashAfterAcquire(r) => Alone'
           /\ FailOrphanedPlanning \/ ResumePending \/ ResumeGivesUp => Alone'
<1>c. \A r \in Runs : held[r] \subseteq ClaimsOf[r]
  BY DEF Alone, Leased
<1>1. ASSUME Shutdown PROVE Alone'
  <2>1. UNCHANGED <<execs, active, held, status>> /\ todo' = todo
    BY <1>1 DEF Shutdown, db
  <2> QED
    BY <2>1 DEF Alone, OneExecution, ExecutionsKnown, ExecutesIdle, ReleasesSettled, Leased, BootsAlone
<1>2. ASSUME Exit \/ Crash PROVE Alone'
  <2>1. execs' = {} /\ todo' = <<>> /\ UNCHANGED <<status, held>>
    BY <1>2 DEF Exit, Crash, Dies, db
  <2> QED
    BY <1>c, <2>1, AloneDead
<1>3. ASSUME NEW r \in Runs, CrashAfterAcquire(r) PROVE Alone'
  <2>1. execs' = {} /\ todo' = <<>> /\ UNCHANGED status /\ held' = acquireLocks(held, r)
    BY <1>3 DEF CrashAfterAcquire, Dies
  <2>2. \A q \in Runs : held'[q] = IF q = r THEN held[q] \cup ClaimsOf[q] ELSE held[q]
    BY <2>1 DEF acquireLocks, TypeOK, DbTypes
  <2>3. \A q \in Runs : held[q] \subseteq held'[q] /\ held'[q] \subseteq ClaimsOf[q]
    BY <1>c, <2>2
  <2> QED
    BY <2>1, <2>3, AloneDead
<1>f. Dispatch.op = "dispatch" /\ Resume.op = "resume" /\ FailAll({}).op = "failAll" /\ FailAll({}).runs = {}
  BY DEF Dispatch, Resume, FailAll
<1>4. ASSUME Boot PROVE Alone'
  <2>1. execs = {} /\ execs' = {} /\ UNCHANGED status /\ held' = reconcileLocks(held, status) /\ ~up /\ up'
    BY <1>4 DEF Boot, memory, LifeInv, BootIsFresh
  <2>2. \A r \in Runs : status[r] # "planning"
    BY <2>1 DEF Untouched
  <2>3. {r \in Runs : status[r] = "planning"} = {}
    BY <2>2
  <2>4. todo' = <<FailAll({}), Resume, Dispatch>> \/ todo' = <<>>
    BY <1>4, <2>3 DEF Boot
  <2>5. Leased'
    BY <2>1 DEF Alone, Leased, reconcileLocks, HolderStatuses, InFlight
  <2>6. OneExecution' /\ ExecutionsKnown'
    BY <2>1 DEF OneExecution, ExecutionsKnown
  <2>7. \A j \in Jobs(todo') : j.op \in {"failAll", "resume", "dispatch"}
    BY <1>f, <2>4, JobsListed, JobsEmpty
  <2>8. ExecutesIdle' /\ ReleasesSettled' /\ Spread(todo')
    BY <2>7, SpreadFew DEF ExecutesIdle, ReleasesSettled
  <2>9. BootsAlone'
    BY <2>1, <2>4, JobsEmpty DEF BootsAlone
  <2> QED
    BY <2>5, <2>6, <2>8, <2>9 DEF Alone
<1>b. ASSUME Doing("failAll") \/ Doing("resume")
      PROVE  execs = {} /\ todo \in {<<FailAll({}), Resume, Dispatch>>, <<Resume, Dispatch>>}
  <2>1. Head(todo) \in Jobs(todo) /\ BootJob(Head(todo))
    BY <1>b, JobsTail DEF Doing, BootJob, TypeOK, ControlTypes
  <2> QED
    BY <2>1 DEF Alone, BootsAlone
<1>5. ASSUME FailOrphanedPlanning PROVE Alone'
  <2>1. execs = {} /\ todo \in {<<FailAll({}), Resume, Dispatch>>, <<Resume, Dispatch>>}
    BY <1>5, <1>b DEF FailOrphanedPlanning
  <2>2. Head(todo).op = "failAll" /\ UNCHANGED <<execs, held>>
    BY <1>5 DEF FailOrphanedPlanning, Doing
  <2>3. todo = <<FailAll({}), Resume, Dispatch>>
    BY <1>f, <2>1, <2>2
  <2>4. Head(todo).runs = {} /\ Tail(todo) = <<Resume, Dispatch>>
    BY <1>f, <2>3
  <2>5. todo' = <<Resume, Dispatch>> /\ UNCHANGED <<status, active>>
    BY <1>5, <2>4 DEF FailOrphanedPlanning
  <2>6. \A j \in Jobs(todo') : j.op \in {"resume", "dispatch"}
    BY <1>f, <2>5, JobsListed
  <2>7. OneExecution' /\ ExecutionsKnown' /\ ExecutesIdle' /\ ReleasesSettled' /\ Spread(todo')
    BY <2>1, <2>2, <2>6, SpreadFew DEF OneExecution, ExecutionsKnown, ExecutesIdle, ReleasesSettled
  <2>8. Leased' /\ BootsAlone'
    BY <2>1, <2>2, <2>5 DEF Alone, Leased, BootsAlone
  <2> QED
    BY <2>7, <2>8 DEF Alone
<1>6. ASSUME ResumePending PROVE Alone'
  <2> DEFINE P == {r \in Runs : status[r] \in {"running", "approved"}}
  <2>1. todo' = <<Execute(P)>> \o Tail(todo) /\ UNCHANGED <<status, held, execs, active>> /\ Doing("resume")
    BY <1>6 DEF ResumePending, memory
  <2>2. execs = {} /\ todo \in {<<FailAll({}), Resume, Dispatch>>, <<Resume, Dispatch>>} /\ Head(todo).op = "resume"
    BY <1>b, <2>1 DEF Doing
  <2>3. todo = <<Resume, Dispatch>>
    BY <1>f, <2>2
  <2>4. Tail(todo) = <<Dispatch>> /\ Tail(todo) \in Seq(Job) /\ Jobs(Tail(todo)) = {Dispatch} /\ Spread(Tail(todo))
    BY <2>3, JobTypes, JobsListed, SpreadOne
  <2>p. \A r \in P : r \in Runs /\ status[r] \in InFlight
    BY DEF InFlight
  <2>e. Execute(P).op = "execute" /\ Execute(P).runs = P
    BY DEF Execute
  <2> HIDE DEF P
  <2>5. Jobs(todo') = {Execute(P)} \cup {Dispatch} /\ Spread(todo')
    BY <1>f, <2>1, <2>4, JobsPushed, SpreadPushed
  <2>6. OneExecution' /\ ExecutionsKnown' /\ Leased'
    BY <2>1, <2>2 DEF Alone, OneExecution, ExecutionsKnown, Leased
  <2>7. ExecutesIdle' /\ ReleasesSettled' /\ BootsAlone'
    BY <1>f, <2>1, <2>2, <2>p, <2>e, <2>5 DEF ExecutesIdle, ReleasesSettled, BootsAlone, BootJob
  <2> QED
    BY <2>5, <2>6, <2>7 DEF Alone
<1>7. ASSUME ResumeGivesUp PROVE Alone'
  <2>1. execs = {}
    BY <1>7, <1>b DEF ResumeGivesUp
  <2>2. todo' = <<>> /\ UNCHANGED <<status, held, execs>>
    BY <1>7 DEF ResumeGivesUp, memory
  <2> QED
    BY <1>c, <2>1, <2>2, AloneDead
<1> QED
  BY <1>1, <1>2, <1>3, <1>4, <1>5, <1>6, <1>7

LEMMA AloneNext ==
    ASSUME TypeOK, TypeOK', LifeInv, Alone, [Next]_vars, [Untouched]_vars
    PROVE  Alone'
<1>1. CASE UNCHANGED vars
  BY <1>1 DEF vars, db, memory, Alone, OneExecution, ExecutionsKnown, ExecutesIdle, ReleasesSettled, Leased, BootsAlone
<1> SUFFICES ASSUME Untouched, Next PROVE Alone'
  BY <1>1
<1>2. CASE Handler
  BY <1>2, AloneHandler, AloneExecute, AloneWalkEnds, AloneWalkGoes, AloneProcess DEF Handler
<1>3. CASE \E e \in execs : Step(e) \/ \E c \in Cleanups : StepRegistersCleanup(e, c)
  BY <1>3, AloneStepEnds, AloneStepGoes DEF Step
<1>4. CASE \E w \in waiting : Answer(w)
  BY <1>4, AloneAnswers, AnswerTakesUp, RecoveryAcquires, AloneRecovering DEF Answer
<1>5. CASE \E r \in Runs : Planner(r) \/ Operator(r) \/ CrashAfterAcquire(r)
  <2>1. PICK r \in Runs : Planner(r) \/ Operator(r) \/ CrashAfterAcquire(r)
    BY <1>5
  <2>2. CASE TakesUp(r) \/ Acquires(r)
    BY <2>2, AloneRecovering
  <2>3. CASE ~(TakesUp(r) \/ Acquires(r))
    BY <2>1, <2>3, AlonePlanning, AloneApproving, AloneEnding, RecoveryTakesUp, RecoveryAcquires, AloneProcess
       DEF Planner, Operator
  <2> QED
    BY <2>2, <2>3
<1>6. CASE Shutdown \/ Exit \/ Crash \/ Boot
  BY <1>6, AloneProcess
<1> QED
  BY <1>2, <1>3, <1>4, <1>5, <1>6 DEF Next

AloneInv == TypeOK /\ LifeInv /\ LocksExclusive /\ Alone

LEMMA AloneInvInit == Init => AloneInv
<1> SUFFICES ASSUME Init PROVE AloneInv
  OBVIOUS
<1>1. LocksExclusive
  BY DEF Init, LocksExclusive, Disjoint
<1> QED
  BY <1>1, TypeInit, LifeInit, AloneInit DEF AloneInv

LEMMA AloneInvNext == AloneInv /\ [Next]_vars /\ [Untouched]_vars => AloneInv'
<1> SUFFICES ASSUME AloneInv, [Next]_vars, [Untouched]_vars PROVE AloneInv'
  OBVIOUS
<1>1. TypeOK /\ LifeInv /\ LocksExclusive /\ Alone
  BY DEF AloneInv
<1>2. TypeOK'
  BY <1>1, TypeNext
<1>3. LifeInv'
  BY <1>1, <1>2, LifeNext
<1>4. LocksExclusive'
  BY <1>1, ExclusiveNext
<1>5. Alone'
  BY <1>1, <1>2, AloneNext
<1> QED
  BY <1>2, <1>3, <1>4, <1>5 DEF AloneInv

\* No run is executed twice at the same time, for any number of runs, claims, executions, crashes and
\* refused statements, on a behaviour in which no discard reaches a run already started, no abort
\* outlives its await while its run is taken up, and no boot finds an interrupted validation
\* (executor.ts execute, queue-dispatch.ts startQueuedRuns).
THEOREM ExecutedOnce == Spec /\ [][Untouched]_vars => []OneExecution
<1>1. AloneInv => OneExecution
  BY DEF AloneInv, Alone
<1> QED
  BY <1>1, AloneInvInit, AloneInvNext, PTL DEF Spec

\* On the same behaviours a run in the step loop holds every claim of its plan, whichever handler, crash
\* or boot brought it there (step-recovery.ts, locks.ts, resumeOnBoot).
THEOREM ExecutedUnderLocks == Spec /\ [][Untouched]_vars => []ExecutingHoldsClaims
<1>1. AloneInv => ExecutingHoldsClaims
  BY DEF AloneInv, Alone, ExecutionsKnown, Leased, InFlight, ExecutingHoldsClaims, TypeOK, MemoryTypes, Exec
<1> QED
  BY <1>1, AloneInvInit, AloneInvNext, PTL DEF Spec

-----------------------------------------------------------------------------
\* Every step of the executor is a step of Leases, or none.

Grants(S) ==
    /\ \A r \in Runs : held'[r] = IF r \in S THEN held[r] \cup ClaimsOf[r] ELSE held[r]
    /\ Working' = Working

LEMMA GrantImplements ==
    ASSUME TypeOK, TypeOK', Alone, LocksExclusive', NEW S \in SUBSET Runs, Grants(S)
    PROVE  Lease!Grant(S)
<1>1. \A r \in Runs : held'[r] = IF r \in S THEN ClaimsOf[r] ELSE held[r]
  BY DEF Grants, Alone, Leased
<1>2. held' = [r \in Runs |-> IF r \in S THEN ClaimsOf[r] ELSE held[r]]
  BY <1>1 DEF TypeOK, DbTypes
<1>3. Lease!Free(S, held')
  BY <1>1 DEF Lease!Free, LocksExclusive
<1> QED
  BY <1>2, <1>3 DEF Lease!Grant, Grants, Working

\* A run of which nobody is at work gets back what it leased.
LEMMA ReturnImplements ==
    ASSUME TypeOK, TypeOK', NEW S \in SUBSET Runs, S \cap Working = {}, execs' = execs,
           \A r \in Runs : held'[r] = IF r \in S THEN {} ELSE held[r]
    PROVE  Lease!Return(S)
<1>1. held' = [r \in Runs |-> IF r \in S THEN {} ELSE held[r]]
  BY DEF TypeOK, DbTypes
<1> QED
  BY <1>1 DEF Lease!Return, Working

Moves == [Lease!Next]_(Lease!leaseVars)

LEMMA StutterImplements ==
    ASSUME held' = held, Working' = Working
    PROVE  Moves
BY DEF Moves, Working, Lease!leaseVars

LEMMA EndImplements ==
    ASSUME held' = held, NEW r \in Runs, Working' = Working \ {r}
    PROVE  Moves
BY DEF Moves, Working, Lease!Next, Lease!End

LEMMA TakingUpImplements ==
    ASSUME TypeOK, TypeOK', Alone, LocksExclusive', NEW r \in Runs, TakesUp(r) \/ Acquires(r)
    PROVE  Moves
<1>1. held' = acquireLocks(held, r) /\ execs' = execs
  BY DEF TakesUp, Acquires
<1>2. Grants({r})
  BY <1>1 DEF Grants, Working, acquireLocks, TypeOK, DbTypes
<1>3. Lease!Grant({r})
  BY <1>2, GrantImplements
<1> QED
  BY <1>3 DEF Moves, Lease!Next

LEMMA HandlerImplements ==
    ASSUME TypeOK, TypeOK', LifeInv, Alone, LocksExclusive', Handler
    PROVE  Moves
<1>1. CASE TellHook \/ DispatchNothing \/ ExecuteNone \/ ExecuteRefused \/ ExecuteFaults
            \/ FailOrphanedPlanning \/ ResumePending \/ ResumeGivesUp
  <2>1. held' = held /\ execs' = execs
    BY <1>1 DEF TellHook, DispatchNothing, ExecuteNone, ExecuteRefused, ExecuteFaults, FailOrphanedPlanning,
                ResumePending, ResumeGivesUp, db, memory
  <2> QED
    BY <2>1, StutterImplements DEF Working
<1>2. CASE ReleaseLocks \/ EraseRun
  <2>1. todo # <<>> /\ execs' = execs /\ Head(todo).op \in {"release", "erase"}
    BY <1>2 DEF ReleaseLocks, EraseRun, Doing, memory
  <2>2. PICK r \in Head(todo).runs : held' = releaseLocks(held, r)
    BY <1>2 DEF ReleaseLocks, EraseRun
  <2>3. todo \in Seq(Job) /\ Head(todo) \in Jobs(todo)
    BY <2>1, JobsTail DEF TypeOK, ControlTypes
  <2>4. r \in Runs /\ status[r] \notin InFlight
    BY <2>1, <2>3, JobsTyped DEF Alone, ReleasesSettled
  <2>5. {r} \cap Working = {}
    BY <2>4 DEF Alone, ExecutionsKnown, InFlight, Working
  <2>6. \A q \in Runs : held'[q] = IF q \in {r} THEN {} ELSE held[q]
    BY <2>2 DEF releaseLocks, TypeOK, DbTypes
  <2>7. Lease!Return({r})
    BY <2>1, <2>4, <2>5, <2>6, ReturnImplements
  <2> QED
    BY <2>4, <2>7 DEF Moves, Lease!Next
<1>3. CASE DispatchQueue
  <2> DEFINE S == Startable(held, approvedAt, Reserving)
  <2>1. Grants(S) /\ S \in SUBSET Runs
    BY <1>3 DEF DispatchQueue, Grants, memory, Working, Startable, Reserving
  <2> HIDE DEF S
  <2>2. Lease!Grant(S)
    BY <2>1, GrantImplements
  <2> QED
    BY <2>1, <2>2 DEF Moves, Lease!Next
<1>4. CASE ExecuteRun
  <2>1. PICK r \in Head(todo).runs, id \in 1..MaxExecs :
            execs' = execs \cup {[run |-> r, id |-> id, at |-> 0, left |-> Unfinished(r),
                                     torn |-> {x \in Rows : step[r][x] = "running"},
                                     cleanup |-> \E c \in Cleanups : HasRow(r, c), aborted |-> FALSE]}
    BY <1>4, Zenon DEF ExecuteRun
  <2> DEFINE x == [run |-> r, id |-> id, at |-> 0, left |-> Unfinished(r),
                   torn |-> {y \in Rows : step[r][y] = "running"},
                   cleanup |-> \E c \in Cleanups : HasRow(r, c), aborted |-> FALSE]
  <2>2. execs' = execs \cup {x} /\ x.run = r
    BY <2>1
  <2> HIDE DEF x
  <2>3. held' = held /\ todo # <<>> /\ Head(todo).op = "execute"
    BY <1>4 DEF ExecuteRun, Doing
  <2>4. todo \in Seq(Job) /\ Head(todo) \in Jobs(todo)
    BY <2>3, JobsTail DEF TypeOK, ControlTypes
  <2>5. r \in Runs /\ status[r] \in InFlight /\ \A e \in execs : e.run # r
    BY <2>3, <2>4, JobsTyped DEF Alone, ExecutesIdle
  <2>6. held[r] = ClaimsOf[r] /\ r \notin Working
    BY <2>5 DEF Alone, Leased, Working
  <2>7. Working' = Working \cup {r}
    BY <2>2 DEF Working
  <2>8. Lease!Begin(r)
    BY <2>3, <2>6, <2>7 DEF Lease!Begin, Working
  <2> QED
    BY <2>5, <2>8 DEF Moves, Lease!Next
<1>5. ASSUME NEW e \in execs, WalkCompletes(e) \/ WalkCancelled(e) \/ WalkPauses(e) \/ WalkFindsNoStep(e)
                                \/ WalkFindsTornStep(e) \/ WalkFaults(e)
      PROVE  Moves
  <2>1. held' = held /\ Working' = Working \ {e.run}
    BY <1>5, AloneWalkEnds
  <2>2. e.run \in Runs
    BY DEF TypeOK, MemoryTypes, Exec
  <2> QED
    BY <2>1, <2>2, EndImplements
<1>6. ASSUME NEW e \in execs, WalkStartsStep(e) PROVE Moves
  <2>1. held' = held /\ Working' = Working
    BY <1>6, AloneWalkGoes
  <2> QED
    BY <2>1, StutterImplements
<1> QED
  BY <1>1, <1>2, <1>3, <1>4, <1>5, <1>6 DEF Handler

LEMMA StepImplements ==
    ASSUME TypeOK, TypeOK', Alone, NEW e \in execs, Step(e) \/ \E c \in Cleanups : StepRegistersCleanup(e, c)
    PROVE  Moves
<1>1. e.run \in Runs
  BY DEF TypeOK, MemoryTypes, Exec
<1>2. CASE (\E b \in BOOLEAN : StepThrows(e, b)) \/ StepFaults(e)
  <2>1. held' = held /\ Working' = Working \ {e.run}
    BY <1>2, AloneStepEnds
  <2> QED
    BY <1>1, <2>1, EndImplements
<1>3. CASE (\E c \in Cleanups : StepRegistersCleanup(e, c)) \/ StepOk(e)
  <2>1. held' = held /\ Working' = Working
    BY <1>3, AloneStepGoes
  <2> QED
    BY <2>1, StutterImplements
<1> QED
  BY <1>2, <1>3 DEF Step

LEMMA OperatorImplements ==
    ASSUME TypeOK, TypeOK', Alone, LocksExclusive', NEW r \in Runs, Planner(r) \/ Operator(r)
    PROVE  Moves
<1>1. CASE TakesUp(r) \/ Acquires(r)
  BY <1>1, TakingUpImplements
<1>2. CASE Cancel(r)
  <2>1. held' = held
    BY <1>2 DEF Cancel, db
  <2>2. CASE execs' = execs
    BY <2>1, <2>2, StutterImplements DEF Working
  <2>3. CASE \E e \in execs : execs' = (execs \ {e}) \cup {[e EXCEPT !.aborted = TRUE]}
    <3>1. PICK e \in execs : execs' = (execs \ {e}) \cup {[e EXCEPT !.aborted = TRUE]}
      BY <2>3
    <3> DEFINE f == [e EXCEPT !.aborted = TRUE]
    <3>2. f.run = e.run /\ execs' = (execs \ {e}) \cup {f}
      BY <3>1 DEF TypeOK, MemoryTypes, Exec
    <3> HIDE DEF f
    <3>3. Working' = Working
      BY <3>2 DEF Working
    <3> QED
      BY <2>1, <3>3, StutterImplements
  <2> QED
    BY <1>2, <2>2, <2>3 DEF Cancel
<1>3. CASE ~Cancel(r) /\ ~(TakesUp(r) \/ Acquires(r))
  <2>1. \/ Plan(r) \/ BeginStreamingPlan(r) \/ PlannerPlans(r) \/ PlannerEndsBadly(r)
        \/ Approve(r) \/ ApproveAsks(r) \/ RetypeAsks(r) \/ Retype(r)
        \/ Discard(r) \/ CancelPaused(r) \/ DeleteRun(r) \/ AbortSettles(r) \/ AbortAsks(r)
    BY <1>3, RecoveryTakesUp, RecoveryAcquires DEF Planner, Operator
  <2>2. held' = held /\ execs' = execs
    BY <2>1 DEF Plan, BeginStreamingPlan, PlannerPlans, PlannerEndsBadly, Approve, ApproveAsks, RetypeAsks, Retype,
                Discard, CancelPaused, DeleteRun, AbortSettles, AbortAsks, db, memory
  <2> QED
    BY <2>2, StutterImplements DEF Working
<1> QED
  BY <1>1, <1>2, <1>3

LEMMA AnswerImplements ==
    ASSUME TypeOK, TypeOK', Alone, Untouched, LocksExclusive', NEW w \in waiting, Answer(w)
    PROVE  Moves
<1>1. CASE AbortAnswered(w) \/ AbortCollides(w)
  BY <1>1, AnswerTakesUp, RecoveryAcquires, TakingUpImplements
<1>2. CASE ApproveAnswered(w) \/ RetypeAnswered(w) \/ RequestRefused(w)
  BY <1>2, AloneAnswers, StutterImplements DEF Working
<1> QED
  BY <1>1, <1>2 DEF Answer

LEMMA ProcessImplements ==
    ASSUME TypeOK, TypeOK', LifeInv, Alone, LocksExclusive'
    PROVE  /\ Shutdown \/ Exit \/ Crash \/ Boot => Moves
           /\ \A r \in Runs : CrashAfterAcquire(r) => Moves
<1>1. ASSUME Shutdown PROVE Moves
  <2>1. held' = held /\ execs' = execs
    BY <1>1 DEF Shutdown, db
  <2> QED
    BY <2>1, StutterImplements DEF Working
<1>2. ASSUME Exit \/ Crash PROVE Moves
  <2>1. held' = held /\ execs' = {}
    BY <1>2 DEF Exit, Crash, Dies, db
  <2>2. Lease!Stop
    BY <2>1 DEF Lease!Stop
  <2> QED
    BY <2>2 DEF Moves, Lease!Next
<1>3. ASSUME Boot PROVE Moves
  <2> DEFINE S == {r \in Runs : status[r] \notin HolderStatuses}
  <2>1. execs = {} /\ execs' = execs /\ held' = reconcileLocks(held, status)
    BY <1>3 DEF Boot, memory, LifeInv, BootIsFresh
  <2>2. S \in SUBSET Runs /\ \A r \in Runs : held'[r] = IF r \in S THEN {} ELSE held[r]
    BY <2>1 DEF reconcileLocks
  <2> HIDE DEF S
  <2>3. S \cap Working = {}
    BY <2>1 DEF Working
  <2>4. Lease!Return(S)
    BY <2>1, <2>2, <2>3, ReturnImplements
  <2> QED
    BY <2>2, <2>4 DEF Moves, Lease!Next
<1>4. ASSUME NEW r \in Runs, CrashAfterAcquire(r) PROVE Moves
  <2>1. held' = acquireLocks(held, r) /\ execs' = {}
    BY <1>4 DEF CrashAfterAcquire, Dies
  <2>2. held[r] \cup ClaimsOf[r] = ClaimsOf[r]
    BY DEF Alone, Leased
  <2>3. held' = [held EXCEPT ![r] = ClaimsOf[r]] /\ held'[r] = ClaimsOf[r]
    BY <2>1, <2>2 DEF acquireLocks, TypeOK, DbTypes
  <2>4. Lease!Free({r}, held')
    BY <2>3 DEF Lease!Free, LocksExclusive
  <2>5. Lease!GrantAndStop(r)
    BY <2>1, <2>3, <2>4 DEF Lease!GrantAndStop
  <2> QED
    BY <2>5 DEF Moves, Lease!Next
<1> QED
  BY <1>1, <1>2, <1>3, <1>4

LEMMA NextImplements ==
    ASSUME AloneInv, AloneInv', [Next]_vars, [Untouched]_vars
    PROVE  Moves
<1>1. CASE UNCHANGED vars
  BY <1>1, StutterImplements DEF vars, db, memory, Working
<1> SUFFICES ASSUME Untouched, Next PROVE Moves
  BY <1>1
<1>2. TypeOK /\ TypeOK' /\ LifeInv /\ Alone /\ LocksExclusive'
  BY DEF AloneInv
<1>3. CASE Handler
  BY <1>2, <1>3, HandlerImplements
<1>4. CASE \E e \in execs : Step(e) \/ \E c \in Cleanups : StepRegistersCleanup(e, c)
  BY <1>2, <1>4, StepImplements
<1>5. CASE \E w \in waiting : Answer(w)
  BY <1>2, <1>5, AnswerImplements
<1>6. CASE \E r \in Runs : Planner(r) \/ Operator(r) \/ CrashAfterAcquire(r)
  BY <1>2, <1>6, OperatorImplements, ProcessImplements
<1>7. CASE Shutdown \/ Exit \/ Crash \/ Boot
  BY <1>2, <1>7, ProcessImplements
<1> QED
  BY <1>3, <1>4, <1>5, <1>6, <1>7 DEF Next

\* The executor implements Leases on those behaviours: a run works only under a lease of every claim of
\* its plan, leases are granted whole, in one step and never against a standing one, and none is
\* returned while its run works, over every interleaving of handlers, crashes and boots (locks.ts,
\* queue-dispatch.ts, step-recovery.ts, resumeOnBoot).
THEOREM LeasesImplemented == Spec /\ [][Untouched]_vars => ImplementsLeases
<1>1. Init => Lease!Init
  BY DEF Init, Lease!Init
<1>2. AloneInv /\ AloneInv' /\ [Next]_vars /\ [Untouched]_vars => [Lease!Next]_(Lease!leaseVars)
  BY NextImplements DEF Moves
<1> QED
  BY <1>1, <1>2, AloneInvInit, AloneInvNext, PTL DEF Spec, ImplementsLeases, Lease!Spec

=============================================================================
