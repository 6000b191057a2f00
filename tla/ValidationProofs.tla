-------------------------- MODULE ValidationProofs --------------------------
(***************************************************************************)
(* What admits a unit, for any units, repositories, worlds, failed calls,  *)
(* deaths and restarts: nothing is planned or registered past a gate that  *)
(* never judged it, where no call fails no credential outlives validations *)
(* and sweeps, the builds, databases and secrets registered are those that *)
(* were judged, and the pods find their Secrets.                           *)
(***************************************************************************)
EXTENDS Validation, FiniteSetTheorems, WellFoundedInduction, TLAPS

-----------------------------------------------------------------------------
\* The inductive invariant.

GateNames == {"G1", "G2", "G3", "G25", "G16", "G18", "G23", "G24", "G26", "G27", "G28", "G29"} \cup PostRenderGates
Fences == [declared : BOOLEAN, denied : BOOLEAN, managerDenied : BOOLEAN, reached : BOOLEAN]
Reports == [ran : SUBSET GateNames, failed : SUBSET GateNames, manifest : BOOLEAN, fence : Fences]
FrozenFacts == {Facts(Content[c]) : c \in DOMAIN Content}
Phases == Validating \cup RepoPhases

RunRecs == [phase : Phases, at : {"plan", "check"}, sha : DOMAIN Content \cup {0}, job : Jobs \cup {0},
            report : Reports \cup {None}, facts : FrozenFacts \cup {None}]
JobRecs == [run : Unsettled \cup {"none", "settled"}, secret : BOOLEAN, cm : {"absent", "report", "incomplete"},
            sha : DOMAIN Content \cup {0}, unit : Units \cup {"none"}, report : Reports \cup {None}]
Sweeps == [state : {"due", "done"}, todo : SUBSET Jobs, half : SUBSET Jobs]

Types ==
    /\ world \in DOMAIN Worlds /\ head \in [Units -> DOMAIN Content]
    /\ run \in [Units -> RunRecs] /\ job \in [Jobs -> JobRecs]
    /\ DOMAIN books = Units /\ \A u \in Units : books[u] = None \/ books[u].gated \in BOOLEAN
    /\ sweep \in Sweeps
    /\ spent \in [Bounds -> Nat] /\ \A b \in Bounds : spent[b] <= W.most[b]

\* What a report says of the repository it was made of: gates of a chart that did not run are missed by
\* the render gate, and documents that were judged are in order.
JudgedOf(r, t, sha) ==
    /\ r.manifest => checkStructure(Content[sha], t)
    /\ r.manifest /\ t.chartPath /\ "G3" \notin r.failed => {"G1", "G2", "G3"} \cup PostRenderGates \subseteq r.ran
    /\ "G30" \in r.ran \ r.failed => readSyncOrder(Content[sha].docs)

\* A validation has a gate run's name from its clone on.
Named == Validating \ {"clone"}

\* The onboarding x of a unit with the target t, by what its phase stands for.
RunOK(t, x) ==
    /\ x.report # None => JudgedOf(x.report, t, x.sha)
    /\ x.phase \in {"idle", "ungated"} => x.report = None
    /\ x.phase \in {"names", "builds"} => x.report # None /\ sandboxGreen(x.report.fence)
    /\ x.phase = "builds" => x.report.manifest
    /\ x.phase \in {"sharing", "planned", "checked", "registered"} /\ x.report # None =>
          sandboxGreen(x.report.fence) /\ x.report.failed = {} /\ x.report.manifest
    /\ x.phase \in {"idle", "sharing", "planned", "ungated", "rejected"} => x.at = "plan"
    /\ x.phase \in {"checked", "registered", "stopped"} => x.at = "check"
    /\ x.at = "check" \/ x.phase \in {"planned", "ungated"} => x.facts # None
    /\ x.phase \in {"ungated", "checked", "registered"} /\ x.report = None => ~Content[x.sha].chart
    /\ x.phase = "checked" /\ x.report # None => ~Drifted(x.facts, Content[x.sha], t.chartPath)
    /\ x.phase \in Named => x.job \in Jobs
    /\ x.phase \in Named \cup {"sharing", "planned", "ungated", "checked", "registered"} => x.sha \in DOMAIN Content

RunsOK == \A u \in Units : RunOK(T(u), run[u])

\* The objects under a validation's name are its own.
OwnOK(u, t, x, y) ==
    /\ x.phase = "create-run" => y.run = "none" /\ ~y.secret /\ y.cm = "absent"
    /\ y.run # "none" => y.unit = u /\ y.sha = x.sha
    /\ y.cm = "report" => y.report # None /\ JudgedOf(y.report, t, x.sha)

Owned == \A u \in Units : run[u].phase \in Named => OwnOK(u, T(u), run[u], job[run[u].job])
Apart == \A u, v \in Units : u # v /\ run[u].phase \in Named /\ run[v].phase \in Named => run[u].job # run[v].job

\* Somebody still has to delete the gate run j.
Deleting == {"create-secret", "poll", "read", "reap", "reap-run", "cancel", "cancel-run"}
Cleared(j) == \/ sweep.state = "due" \/ j \in sweep.todo \/ j \in sweep.half
              \/ \E u \in Units : run[u].job = j /\ run[u].phase \in Deleting
Tracked == spent["faults"] = 0 => \A j \in Jobs : job[j].run # "none" => Cleared(j)

OneExecutes == \A u, v \in Units : Executing(u) /\ Executing(v) => u = v
FreshBuilds ==
    \A u \in Units : run[u].phase = "checked" /\ run[u].report # None => run[u].facts.builds \cap AttestedBuilds(u) = {}

IInv ==
    /\ Types /\ RunsOK /\ Owned /\ Apart /\ Tracked
    /\ OneExecutes /\ FreshBuilds

-----------------------------------------------------------------------------
\* What the gates' operators return.

LEMMA MinIn == ASSUME NEW S, S \subseteq Nat, S # {} PROVE Min(S) \in S /\ \A y \in S : Min(S) <= y
<1> DEFINE Less == {p \in Nat \X Nat : p[1] < p[2]}
<1>l. IsWellFoundedOn(Less, Nat)
  BY NatLessThanWellFounded, Zenon DEF OpToRel
<1>2. \E x \in S : \A y \in S : ~(<<y, x>> \in Less)
  BY <1>l, WFMin, Zenon
<1>3. \E x \in S : \A y \in S : ~(y < x)
  BY <1>2
<1>4. \E x \in S : \A y \in S : x <= y
  BY <1>3
<1> QED
  BY <1>4 DEF Min

LEMMA NoReport == None \notin Reports
BY DEF None, Reports

LEMMA NoFacts == None \notin FrozenFacts
BY DEF None, FrozenFacts, Facts

LEMMA ProbeTyped ==
    ASSUME NEW net, net.declared \in BOOLEAN
    PROVE  selfProbe(net) \in Fences
BY DEF selfProbe, Fences

LEMMA GatesJudge ==
    ASSUME NEW sha, NEW t, NEW fence \in Fences, NEW late, NEW r, r = runGates(Content[sha], t, fence, late)
    PROVE  r \in Reports /\ JudgedOf(r, t, sha)
<1> DEFINE rp == Content[sha]
           structure == checkStructure(rp, t)
           rendered == structure /\ t.chartPath /\ runRender(rp, t, late)
<1>1. /\ r = [ran |-> RanGates(rp, t, late), failed |-> FailedGates(rp, t, late), manifest |-> structure, fence |-> fence]
  BY DEF runGates
<1>2. r.ran = RanGates(rp, t, late) /\ r.failed = FailedGates(rp, t, late) /\ r.manifest = structure
  BY <1>1
<1>3. RanGates(rp, t, late) \subseteq GateNames
  BY DEF RanGates, GateNames, PostRenderGates
<1>4. FailedGates(rp, t, late) \subseteq GateNames
  BY DEF FailedGates, GateNames, PostRenderGates
<1>5. structure \in BOOLEAN
  BY Zenon DEF checkStructure
<1>6. r \in Reports
  BY <1>1, <1>3, <1>4, <1>5 DEF Reports
<1>7. r.manifest /\ t.chartPath /\ "G3" \notin r.failed => {"G1", "G2", "G3"} \cup PostRenderGates \subseteq r.ran
  <2>1. structure /\ t.chartPath /\ "G3" \notin FailedGates(rp, t, late) => runRender(rp, t, late)
    BY DEF FailedGates
  <2> QED
    BY <1>2, <2>1 DEF RanGates
<1>8. "G30" \in r.ran \ r.failed => readSyncOrder(rp.docs)
  <2>1. "G30" \in RanGates(rp, t, late) => rendered
    BY DEF RanGates
  <2>2. rendered /\ "G30" \notin FailedGates(rp, t, late) => secretSyncOrderingGate(rp)
    BY DEF FailedGates
  <2> QED
    BY <1>2, <2>1, <2>2 DEF secretSyncOrderingGate
<1> QED
  BY <1>2, <1>6, <1>7, <1>8 DEF JudgedOf

LEMMA CliJudges ==
    ASSUME NEW sha, NEW t, NEW net, net.declared \in BOOLEAN, NEW late,
           NEW r, r = runGateCli(Content[sha], t, selfProbe(net), late)
    PROVE  r \in Reports /\ JudgedOf(r, t, sha)
<1>1. selfProbe(net) \in Fences
  BY ProbeTyped
<1> DEFINE fence == selfProbe(net)
<1> HIDE DEF fence
<1>2. CASE sandboxGreen(fence)
  BY <1>1, <1>2, GatesJudge DEF runGateCli, fence
<1>3. CASE ~sandboxGreen(fence)
  <2>1. r = [ran |-> {"G25"}, failed |-> {"G25"}, manifest |-> FALSE, fence |-> fence]
    BY <1>3 DEF runGateCli, fenceRefused, fence
  <2>2. fence \in Fences
    BY <1>1 DEF fence
  <2> QED
    BY <2>1, <2>2 DEF Reports, GateNames, JudgedOf, PostRenderGates
<1> QED
  BY <1>2, <1>3

LEMMA Composed ==
    ASSUME NEW r \in Reports, NEW F \in SUBSET GateNames, NEW q, q = composeReport(r, F)
    PROVE  /\ q \in Reports /\ q # None /\ q.failed = r.failed \cup F
           /\ q.ran = r.ran /\ q.manifest = r.manifest /\ q.fence = r.fence
           /\ \A t, sha : JudgedOf(r, t, sha) => JudgedOf(q, t, sha)
<1>1. q = [r EXCEPT !.failed = r.failed \cup F]
  BY DEF composeReport
<1>2. q \in Reports /\ q.failed = r.failed \cup F /\ q.ran = r.ran /\ q.manifest = r.manifest /\ q.fence = r.fence
  BY <1>1 DEF Reports
<1>3. q # None
  BY <1>2, NoReport
<1>4. \A t, sha : JudgedOf(r, t, sha) => JudgedOf(q, t, sha)
  BY <1>2 DEF JudgedOf
<1> QED
  BY <1>2, <1>3, <1>4

-----------------------------------------------------------------------------
\* Steps of one unit's onboarding.

RunAfter(u, x) == x \in RunRecs /\ run' = [run EXCEPT ![u] = x] /\ RunOK(T(u), x)
SpentOK == spent' \in [Bounds -> Nat] /\ (\A b \in Bounds : spent'[b] <= W.most[b]) /\ (spent'["faults"] = 0 => spent["faults"] = 0)

LEMMA SameTargets == ASSUME world' = world PROVE W' = W /\ \A u : T(u)' = T(u)
BY DEF W, T

LEMMA RunMoves ==
    ASSUME IInv, NEW u \in Units, NEW x, RunAfter(u, x), world' = world
    PROVE  /\ run' \in [Units -> RunRecs] /\ run'[u] = x /\ (\A v \in Units : v # u => run'[v] = run[v]) /\ RunsOK'
<1>1. run \in [Units -> RunRecs]
  BY DEF IInv, Types
<1>2. run' \in [Units -> RunRecs] /\ run'[u] = x /\ \A v \in Units : v # u => run'[v] = run[v]
  BY <1>1 DEF RunAfter
<1>3. \A v \in Units : RunOK(T(v), run'[v])
  BY <1>2 DEF RunAfter, IInv, RunsOK
<1>4. RunsOK'
  BY <1>3, SameTargets DEF RunsOK
<1> QED
  BY <1>2, <1>4

\* Admission: nobody else executes, and what is checked builds nothing another registered.
LEMMA Admits ==
    ASSUME IInv, NEW u \in Units, NEW x, RunAfter(u, x), UNCHANGED <<world, books>>,
           x.at = "check" /\ x.phase \notin {"failed", "registered"} => Executing(u) \/ \A v \in Units : ~Executing(v),
           x.phase = "checked" /\ x.report # None => x.facts.builds \cap AttestedBuilds(u) = {}
    PROVE  OneExecutes' /\ FreshBuilds'
<1>1. run'[u] = x /\ \A v \in Units : v # u => run'[v] = run[v]
  BY RunMoves
<1>2. OneExecutes'
  <2>1. \A v \in Units : v # u => (Executing(v)' <=> Executing(v))
    BY <1>1 DEF Executing
  <2>2. Executing(u)' => Executing(u) \/ \A v \in Units : ~Executing(v)
    BY <1>1 DEF Executing
  <2>3. OneExecutes
    BY DEF IInv
  <2> QED
    BY <2>1, <2>2, <2>3 DEF OneExecutes
<1>3. \A v \in Units : AttestedBuilds(v)' = AttestedBuilds(v)
  BY DEF AttestedBuilds, Standing
<1>4. FreshBuilds'
  <2>1. FreshBuilds
    BY DEF IInv
  <2> QED
    BY <1>1, <1>3, <2>1 DEF FreshBuilds
<1> QED
  BY <1>2, <1>4

\* A step of a validation under its gate run's name j.
LEMMA NamedStep ==
    ASSUME IInv, NEW u \in Units, NEW x, RunAfter(u, x),
           NEW j \in Jobs, run[u].phase \in Named => run[u].job = j,
           \A v \in Units : v # u /\ run[v].phase \in Named => run[v].job # j,
           NEW y \in JobRecs, job' = [job EXCEPT ![j] = y],
           x.phase \in Named => x.job = j /\ OwnOK(u, T(u), x, y),
           SpentOK, UNCHANGED <<world, head, books, sweep>>,
           spent'["faults"] = 0 /\ y.run # "none" => x.phase \in Deleting \/ sweep.state = "due" \/ j \in sweep.todo \/ j \in sweep.half,
           OneExecutes', FreshBuilds'
    PROVE  IInv'
<1>t. Types /\ job \in [Jobs -> JobRecs] /\ run \in [Units -> RunRecs]
  BY DEF IInv, Types
<1>1. run' \in [Units -> RunRecs] /\ run'[u] = x /\ (\A v \in Units : v # u => run'[v] = run[v]) /\ RunsOK'
  BY RunMoves
<1>2. job' \in [Jobs -> JobRecs] /\ job'[j] = y /\ \A k \in Jobs : k # j => job'[k] = job[k]
  BY <1>t
<1>3. Types'
  BY <1>t, <1>1, <1>2, SameTargets DEF Types, SpentOK
<1>4. Owned'
  <2>1. ASSUME NEW v \in Units, run'[v].phase \in Named PROVE OwnOK(v, T(v), run'[v], job'[run'[v].job])
    <3>1. CASE v = u
      BY <1>1, <1>2, <2>1, <3>1
    <3>2. CASE v # u
      <4>1. run'[v] = run[v] /\ run[v].job # j /\ run[v].job \in Jobs
        BY <1>1, <2>1, <3>2 DEF IInv, RunsOK, RunOK
      <4> QED
        BY <1>2, <2>1, <4>1 DEF IInv, Owned
    <3> QED
      BY <3>1, <3>2
  <2> QED
    BY <2>1, SameTargets DEF Owned
<1>5. Apart'
  BY <1>1 DEF IInv, Apart
<1>7. Tracked'
  <2> SUFFICES ASSUME spent'["faults"] = 0, NEW k \in Jobs, job'[k].run # "none" PROVE Cleared(k)'
    BY DEF Tracked
  <2>0. Deleting \subseteq Named
    BY DEF Deleting, Named, Validating
  <2>1. CASE k = j
    BY <1>1, <1>2, <2>0, <2>1 DEF Cleared
  <2>2. CASE k # j
    <3>1. Cleared(k)
      BY <1>2, <2>2 DEF IInv, Tracked, SpentOK
    <3>2. \A v \in Units : run[v].job = k /\ run[v].phase \in Deleting => v # u
      BY <2>0, <2>2
    <3> QED
      BY <1>1, <3>1, <3>2 DEF Cleared
  <2> QED
    BY <2>1, <2>2
<1> QED
  BY <1>1, <1>3, <1>4, <1>5, <1>7 DEF IInv

\* A step of an onboarding that has no gate run, before it and after it.
LEMMA QuietStep ==
    ASSUME IInv, NEW u \in Units, NEW x, RunAfter(u, x), run[u].phase \notin Named, x.phase \notin Named,
           job' = job, UNCHANGED <<world, head, sweep>>, SpentOK,
           DOMAIN books' = Units, \A v \in Units : books'[v] = None \/ books'[v].gated \in BOOLEAN,
           OneExecutes', FreshBuilds'
    PROVE  IInv'
<1>t. Types
  BY DEF IInv
<1>1. run' \in [Units -> RunRecs] /\ run'[u] = x /\ (\A v \in Units : v # u => run'[v] = run[v]) /\ RunsOK'
  BY RunMoves
<1>2. Types'
  BY <1>t, <1>1, SameTargets DEF Types, SpentOK
<1>3. Owned' /\ Apart'
  BY <1>1, SameTargets DEF IInv, Owned, Apart
<1>5. Tracked'
  <2> SUFFICES ASSUME spent'["faults"] = 0, NEW k \in Jobs, job'[k].run # "none" PROVE Cleared(k)'
    BY DEF Tracked
  <2>0. Deleting \subseteq Named
    BY DEF Deleting, Named, Validating
  <2>1. Cleared(k)
    BY DEF IInv, Tracked, SpentOK
  <2> QED
    BY <1>1, <2>0, <2>1 DEF Cleared
<1> QED
  BY <1>1, <1>2, <1>3, <1>5 DEF IInv

LEMMA Spends ==
    ASSUME IInv, NEW b \in Bounds, spent' = spent \/ (spent[b] < W.most[b] /\ spent' = [spent EXCEPT ![b] = @ + 1])
    PROVE  SpentOK /\ (b = "faults" /\ spent' # spent => spent'["faults"] # 0)
<1>1. spent \in [Bounds -> Nat] /\ (\A c \in Bounds : spent[c] <= W.most[c]) /\ W.most \in [Bounds -> Nat] /\ "faults" \in Bounds
  BY WorldsAreBounded DEF IInv, Types, W, Bounds
<1>2. CASE spent' = spent
  BY <1>1, <1>2 DEF SpentOK
<1>3. CASE spent[b] < W.most[b] /\ spent' = [spent EXCEPT ![b] = @ + 1]
  <2> DEFINE n == spent[b] + 1
  <2>1. n \in Nat /\ n <= W.most[b] /\ n # 0 /\ spent' = [spent EXCEPT ![b] = n]
    BY <1>1, <1>3
  <2> HIDE DEF n
  <2>2. spent' \in [Bounds -> Nat] /\ spent'[b] = n /\ \A c \in Bounds : c # b => spent'[c] = spent[c]
    BY <1>1, <2>1
  <2> QED
    BY <1>1, <2>1, <2>2 DEF SpentOK
<1> QED
  BY <1>2, <1>3

LEMMA CallFails ==
    ASSUME IInv, spent' = spent \/ (Fails /\ spent' = Failing)
    PROVE  SpentOK /\ (spent' = Failing => spent'["faults"] # 0)
<1>1. spent \in [Bounds -> Nat] /\ "faults" \in Bounds
  BY DEF IInv, Types, Bounds
<1>2. SpentOK /\ (spent' # spent => spent'["faults"] # 0)
  BY <1>1, Spends DEF Fails, Failing
<1>3. Failing["faults"] = spent["faults"] + 1
  BY <1>1 DEF Failing
<1>4. Failing["faults"] # 0
  BY <1>1, <1>3
<1> QED
  BY <1>2, <1>4

\* Where a validation under a gate run's name goes on to its next call.
Passing == {"create-secret", "undo", "poll", "read", "reap", "reap-run", "received", "cancel", "cancel-run"}

LEMMA PhaseFacts ==
    ASSUME IInv, NEW u \in Units, NEW p \in Phases, NEW x, x = [run[u] EXCEPT !.phase = p], To(u, p)
    PROVE  /\ x \in RunRecs /\ run' = [run EXCEPT ![u] = x] /\ x.phase = p /\ x.at = run[u].at /\ x.sha = run[u].sha
           /\ x.job = run[u].job /\ x.report = run[u].report /\ x.facts = run[u].facts /\ run[u] \in RunRecs
<1>1. run \in [Units -> RunRecs] /\ run[u] \in RunRecs
  BY DEF IInv, Types
<1>2. run' = [run EXCEPT ![u] = x]
  BY <1>1 DEF To
<1> QED
  BY <1>1, <1>2 DEF RunRecs

LEMMA Goes ==
    ASSUME IInv, NEW u \in Units, run[u].phase \in Named, NEW p \in Passing, To(u, p), UNCHANGED <<world, books>>
    PROVE  \E x : /\ RunAfter(u, x) /\ x.phase = p /\ x.job = run[u].job /\ x.sha = run[u].sha /\ x.report = run[u].report
                  /\ OneExecutes' /\ FreshBuilds'
<1> DEFINE x == [run[u] EXCEPT !.phase = p]
<1>0. p \in Phases /\ p \in Named /\ p \notin {"names", "builds", "create-run"} \cup RepoPhases
  BY DEF Passing, Phases, Named, Validating, RepoPhases
<1>1. /\ x \in RunRecs /\ run' = [run EXCEPT ![u] = x] /\ x.phase = p /\ x.at = run[u].at /\ x.sha = run[u].sha
      /\ x.job = run[u].job /\ x.report = run[u].report /\ x.facts = run[u].facts
  BY <1>0, PhaseFacts
<1> HIDE DEF x
<1>2. RunOK(T(u), run[u])
  BY DEF IInv, RunsOK
<1>3. RunOK(T(u), x)
  BY <1>0, <1>1, <1>2 DEF RunOK, RepoPhases
<1>4. RunAfter(u, x)
  BY <1>1, <1>3 DEF RunAfter
<1>5. x.at = "check" => Executing(u)
  BY <1>1 DEF Executing, Named, Validating
<1>6. OneExecutes' /\ FreshBuilds'
  BY <1>0, <1>1, <1>4, <1>5, Admits DEF RepoPhases
<1> QED
  BY <1>1, <1>4, <1>6

LEMMA Throwing ==
    ASSUME IInv, NEW u \in Units, run[u].phase \in Validating, run' = Throws(u), UNCHANGED <<world, books>>
    PROVE  \E x : RunAfter(u, x) /\ x.phase \notin Named /\ OneExecutes' /\ FreshBuilds'
<1> DEFINE p == IF run[u].at = "plan" THEN "failed" ELSE "stopped"
           x == [run[u] EXCEPT !.phase = p, !.report = None]
<1>t. run \in [Units -> RunRecs] /\ run[u] \in RunRecs
  BY DEF IInv, Types
<1>0. p \in Phases /\ p \notin Named /\ p \notin {"checked"} /\ run' = [run EXCEPT ![u].phase = p, ![u].report = None]
  BY DEF Throws, Phases, Named, Validating, RepoPhases
<1>p. p \in {"failed", "stopped"} /\ (p = "stopped" => run[u].at = "check")
  BY <1>t DEF RunRecs
<1> HIDE DEF p
<1>1. /\ x \in RunRecs /\ run' = [run EXCEPT ![u] = x] /\ x.phase = p /\ x.at = run[u].at /\ x.sha = run[u].sha
      /\ x.job = run[u].job /\ x.report = None /\ x.facts = run[u].facts
  <2>1. run' = [run EXCEPT ![u] = x]
    BY <1>t, <1>0
  <2> QED
    BY <1>t, <1>0, <2>1 DEF RunRecs
<1> HIDE DEF x
<1>2. RunOK(T(u), run[u])
  BY DEF IInv, RunsOK
<1>3. RunOK(T(u), x)
  BY <1>0, <1>p, <1>1, <1>2 DEF RunOK
<1>4. RunAfter(u, x)
  BY <1>1, <1>3 DEF RunAfter
<1>5. x.at = "check" => Executing(u)
  BY <1>1 DEF Executing, Validating
<1>6. OneExecutes' /\ FreshBuilds'
  BY <1>1, <1>4, <1>5, Admits
<1> QED
  BY <1>0, <1>1, <1>4, <1>6

\* The next call of a validation, which does to its gate run's objects no more than this.
LEMMA OwnName ==
    ASSUME IInv, NEW u \in Units, run[u].phase \in Named
    PROVE  /\ run[u].job \in Jobs /\ job[run[u].job] \in JobRecs /\ OwnOK(u, T(u), run[u], job[run[u].job])
           /\ RunOK(T(u), run[u]) /\ run[u] \in RunRecs /\ run[u].sha \in DOMAIN Content
           /\ \A v \in Units : v # u /\ run[v].phase \in Named => run[v].job # run[u].job
           /\ job = [job EXCEPT ![run[u].job] = job[run[u].job]]
<1>1. RunOK(T(u), run[u]) /\ run[u].job \in Jobs /\ run[u].sha \in DOMAIN Content
  BY DEF IInv, RunsOK, RunOK
<1>2. job \in [Jobs -> JobRecs] /\ run \in [Units -> RunRecs]
  BY DEF IInv, Types
<1>3. OwnOK(u, T(u), run[u], job[run[u].job])
  BY DEF IInv, Owned
<1>5. \A v \in Units : v # u /\ run[v].phase \in Named => run[v].job # run[u].job
  BY DEF IInv, Apart
<1> QED
  BY <1>1, <1>2, <1>3, <1>5

LEMMA StillCleared ==
    ASSUME IInv, NEW u \in Units, run[u].phase \in Named \ Deleting, spent["faults"] = 0, job[run[u].job].run # "none"
    PROVE  sweep.state = "due" \/ run[u].job \in sweep.todo \/ run[u].job \in sweep.half
<1>1. run[u].job \in Jobs /\ \A v \in Units : v # u /\ run[v].phase \in Named => run[v].job # run[u].job
  BY OwnName
<1>2. Cleared(run[u].job)
  BY <1>1 DEF IInv, Tracked
<1>3. Deleting \subseteq Named
  BY DEF Deleting, Named, Validating
<1> QED
  BY <1>1, <1>2, <1>3 DEF Cleared

LEMMA GoesOn ==
    ASSUME IInv, NEW u \in Units, run[u].phase \in Named, NEW p \in Passing, To(u, p),
           NEW y \in JobRecs, job' = [job EXCEPT ![run[u].job] = y],
           y.run # "none" => y.unit = u /\ y.sha = run[u].sha,
           y.cm = "report" => job[run[u].job].cm = "report" /\ y.report = job[run[u].job].report,
           SpentOK, UNCHANGED <<world, head, books, sweep>>,
           spent'["faults"] = 0 /\ y.run # "none" =>
               p \in Deleting \/ sweep.state = "due" \/ run[u].job \in sweep.todo \/ run[u].job \in sweep.half
    PROVE  IInv'
<1>1. PICK x : /\ RunAfter(u, x) /\ x.phase = p /\ x.job = run[u].job /\ x.sha = run[u].sha
               /\ OneExecutes' /\ FreshBuilds'
  BY Goes
<1>2. /\ run[u].job \in Jobs /\ OwnOK(u, T(u), run[u], job[run[u].job])
      /\ \A v \in Units : v # u /\ run[v].phase \in Named => run[v].job # run[u].job
  BY OwnName
<1>3. OwnOK(u, T(u), x, y)
  BY <1>1, <1>2 DEF OwnOK, Passing
<1> QED
  BY <1>1, <1>2, <1>3, NamedStep

LEMMA GivesUp ==
    ASSUME IInv, NEW u \in Units, run[u].phase \in Named, run' = Throws(u),
           NEW y \in JobRecs, job' = [job EXCEPT ![run[u].job] = y],
           SpentOK, UNCHANGED <<world, head, books, sweep>>, spent'["faults"] = 0 => y.run = "none"
    PROVE  IInv'
<1>0. run[u].phase \in Validating
  BY DEF Named
<1>1. PICK x : RunAfter(u, x) /\ x.phase \notin Named /\ OneExecutes' /\ FreshBuilds'
  BY <1>0, Throwing
<1>2. run[u].job \in Jobs /\ \A v \in Units : v # u /\ run[v].phase \in Named => run[v].job # run[u].job
  BY OwnName
<1> QED
  BY <1>1, <1>2, NamedStep

-----------------------------------------------------------------------------
\* The calls of a validation.

\* The objects after a delete of the run, and of its children.
LEMMA DeletedRun ==
    ASSUME IInv, NEW j \in Jobs, deletePipelineRun(j)
    PROVE  \E y \in JobRecs : /\ job' = [job EXCEPT ![j] = y]
                              /\ y.secret = job[j].secret /\ (y.run # "none" => y = job[j]) /\ y.cm = job[j].cm /\ y.report = job[j].report
                              /\ SpentOK /\ (spent'["faults"] = 0 => y.run = "none")
<1>t. job \in [Jobs -> JobRecs] /\ job[j] \in JobRecs
  BY DEF IInv, Types
<1>1. CASE job' = RunDeleted(j) /\ UNCHANGED spent
  <2> DEFINE y == [job[j] EXCEPT !.run = "none", !.sha = 0, !.unit = "none"]
  <2>1. y \in JobRecs /\ y.run = "none" /\ y.secret = job[j].secret /\ y.cm = job[j].cm /\ y.report = job[j].report
    BY <1>t DEF JobRecs
  <2>2. job' = [job EXCEPT ![j] = y]
    BY <1>1, <1>t DEF RunDeleted
  <2>3. SpentOK
    BY <1>1, CallFails
  <2> HIDE DEF y
  <2> QED
    BY <2>1, <2>2, <2>3
<1>2. CASE Fails /\ UNCHANGED job /\ spent' = Failing
  <2>1. SpentOK /\ spent'["faults"] # 0
    BY <1>2, CallFails
  <2>2. job' = [job EXCEPT ![j] = job[j]]
    BY <1>2, <1>t
  <2> QED
    BY <1>t, <2>1, <2>2
<1> QED
  BY <1>1, <1>2 DEF deletePipelineRun

LEMMA DeletedChildren ==
    ASSUME IInv, NEW j \in Jobs, deleteChildren(j)
    PROVE  \E y \in JobRecs : /\ job' = [job EXCEPT ![j] = y] /\ (y.secret => job[j].secret) /\ SpentOK
                              /\ y.run = job[j].run /\ y.unit = job[j].unit /\ y.sha = job[j].sha
                              /\ (y.cm = "report" => job[j].cm = "report" /\ y.report = job[j].report)
                              /\ (job[j].cm = "absent" => y.cm = "absent")
<1>t. job \in [Jobs -> JobRecs] /\ job[j] \in JobRecs
  BY DEF IInv, Types
<1>s. SpentOK
  BY CallFails DEF deleteChildren
<1>1. CASE job' = [job EXCEPT ![j].cm = "absent", ![j].report = None, ![j].secret = FALSE]
  <2> DEFINE y == [job[j] EXCEPT !.cm = "absent", !.report = None, !.secret = FALSE]
  <2>1. y \in JobRecs /\ y.run = job[j].run /\ ~y.secret /\ y.cm = "absent" /\ y.unit = job[j].unit /\ y.sha = job[j].sha
    BY <1>t DEF JobRecs
  <2>2. job' = [job EXCEPT ![j] = y]
    BY <1>1, <1>t
  <2> HIDE DEF y
  <2> QED
    BY <1>s, <2>1, <2>2
<1>2. CASE job' = [job EXCEPT ![j].cm = "absent", ![j].report = None]
  <2> DEFINE y == [job[j] EXCEPT !.cm = "absent", !.report = None]
  <2>1. y \in JobRecs /\ y.run = job[j].run /\ y.secret = job[j].secret /\ y.cm = "absent" /\ y.unit = job[j].unit /\ y.sha = job[j].sha
    BY <1>t DEF JobRecs
  <2>2. job' = [job EXCEPT ![j] = y]
    BY <1>2, <1>t
  <2> HIDE DEF y
  <2> QED
    BY <1>s, <1>t, <2>1, <2>2
<1>3. CASE job' = [job EXCEPT ![j].secret = FALSE]
  <2> DEFINE y == [job[j] EXCEPT !.secret = FALSE]
  <2>1. y \in JobRecs /\ y.run = job[j].run /\ ~y.secret /\ y.cm = job[j].cm /\ y.report = job[j].report /\ y.unit = job[j].unit /\ y.sha = job[j].sha
    BY <1>t DEF JobRecs
  <2>2. job' = [job EXCEPT ![j] = y]
    BY <1>3, <1>t
  <2> HIDE DEF y
  <2> QED
    BY <1>s, <2>1, <2>2
<1> QED
  BY <1>1, <1>2, <1>3 DEF deleteChildren

LEMMA CreateRunKeeps == ASSUME IInv, NEW u \in Units, createPipelineRun(u) PROVE IInv'
<1> DEFINE j == run[u].job
           y == [job[j] EXCEPT !.run = "created", !.sha = run[u].sha, !.unit = u]
<1>n. run[u].phase = "create-run" /\ run[u].phase \in Named
  BY DEF createPipelineRun, Named, Validating
<1>o. /\ j \in Jobs /\ job[j] \in JobRecs /\ job[j].run = "none" /\ ~job[j].secret /\ job[j].cm = "absent"
      /\ run[u] \in RunRecs /\ job = [job EXCEPT ![j] = job[j]]
  BY <1>n, OwnName DEF OwnOK
<1>1. y \in JobRecs /\ y.run = "created" /\ y.sha = run[u].sha /\ y.unit = u /\ ~y.secret /\ y.cm = "absent"
  BY <1>o DEF JobRecs, RunRecs, Unsettled
<1>2. [job EXCEPT ![j].run = "created", ![j].sha = run[u].sha, ![j].unit = u] = [job EXCEPT ![j] = y]
  BY <1>o DEF IInv, Types
<1> HIDE DEF y
<1>f. UNCHANGED <<world, head, books, sweep>>
  BY DEF createPipelineRun
<1>3. CASE job' = [job EXCEPT ![j] = y] /\ To(u, "create-secret") /\ UNCHANGED spent
  <2>1. SpentOK
    BY <1>3, CallFails
  <2>2. "create-secret" \in Passing /\ "create-secret" \in Deleting
    BY DEF Passing, Deleting
  <2> QED
    BY <1>f, <1>n, <1>1, <1>3, <2>1, <2>2, GoesOn
<1>4. CASE Fails /\ job' \in {job, [job EXCEPT ![j] = y]} /\ run' = Throws(u) /\ spent' = Failing
  <2>1. SpentOK /\ spent'["faults"] # 0
    BY <1>4, CallFails
  <2>2. CASE job' = [job EXCEPT ![j] = y]
    BY <1>f, <1>n, <1>1, <1>4, <2>1, <2>2, GivesUp
  <2>3. CASE job' = [job EXCEPT ![j] = job[j]]
    BY <1>f, <1>n, <1>o, <1>4, <2>1, <2>3, GivesUp
  <2> QED
    BY <1>4, <1>o, <2>2, <2>3
<1> QED
  BY <1>2, <1>3, <1>4 DEF createPipelineRun

LEMMA CreateSecretKeeps == ASSUME IInv, NEW u \in Units, createSecret(u) PROVE IInv'
<1> DEFINE j == run[u].job
           y == [job[j] EXCEPT !.secret = TRUE]
<1>n. run[u].phase = "create-secret" /\ run[u].phase \in Named
  BY DEF createSecret, Named, Validating
<1>o. /\ j \in Jobs /\ job[j] \in JobRecs /\ OwnOK(u, T(u), run[u], job[j])
      /\ job = [job EXCEPT ![j] = job[j]]
  BY <1>n, OwnName
<1>1. /\ y \in JobRecs /\ y.run = job[j].run /\ y.sha = job[j].sha /\ y.unit = job[j].unit
      /\ y.cm = job[j].cm /\ y.report = job[j].report
  BY <1>o DEF JobRecs
<1>2. [job EXCEPT ![j].secret = TRUE] = [job EXCEPT ![j] = y]
  BY <1>o DEF IInv, Types
<1>c. y.run # "none" => y.unit = u /\ y.sha = run[u].sha
  BY <1>1, <1>o DEF OwnOK
<1>d. job[j].run # "none" => job[j].unit = u /\ job[j].sha = run[u].sha
  BY <1>o DEF OwnOK
<1> HIDE DEF y
<1>f. UNCHANGED <<world, head, books, sweep>>
  BY DEF createSecret
<1>p. "poll" \in Passing \cap Deleting /\ "undo" \in Passing
  BY DEF Passing, Deleting
<1>3. CASE job' = [job EXCEPT ![j] = y] /\ To(u, "poll") /\ UNCHANGED spent
  <2>1. SpentOK
    BY <1>3, CallFails
  <2> QED
    BY <1>f, <1>n, <1>p, <1>1, <1>c, <1>3, <2>1, GoesOn
<1>4. CASE Fails /\ job' \in {job, [job EXCEPT ![j] = y]} /\ To(u, "undo") /\ spent' = Failing
  <2>1. SpentOK /\ spent'["faults"] # 0
    BY <1>4, CallFails
  <2>2. CASE job' = [job EXCEPT ![j] = y]
    BY <1>f, <1>n, <1>p, <1>1, <1>c, <1>4, <2>1, <2>2, GoesOn
  <2>3. CASE job' = [job EXCEPT ![j] = job[j]]
    BY <1>f, <1>n, <1>o, <1>p, <1>d, <1>4, <2>1, <2>3, GoesOn
  <2> QED
    BY <1>4, <1>o, <2>2, <2>3
<1> QED
  BY <1>2, <1>3, <1>4 DEF createSecret

LEMMA UndoKeeps == ASSUME IInv, NEW u \in Units, UndoSubmit(u) PROVE IInv'
<1>n. run[u].phase \in Named /\ run[u].job \in Jobs
  BY OwnName DEF UndoSubmit, Named, Validating
<1>f. UNCHANGED <<world, head, books, sweep>> /\ run' = Throws(u) /\ deletePipelineRun(run[u].job)
  BY DEF UndoSubmit
<1>1. PICK y \in JobRecs : /\ job' = [job EXCEPT ![run[u].job] = y] /\ SpentOK
                           /\ (spent'["faults"] = 0 => y.run = "none")
  BY <1>f, <1>n, DeletedRun
<1> QED
  BY <1>f, <1>n, <1>1, GivesUp

LEMMA PollKeeps == ASSUME IInv, NEW u \in Units, Poll(u) \/ pollToDone(u) PROVE IInv'
<1>n. run[u].phase = "poll" /\ run[u].phase \in Named
  BY DEF Poll, pollToDone, Named, Validating
<1>f. UNCHANGED <<world, head, books, sweep, job>> /\ (To(u, "cancel") \/ To(u, "read")) /\ (spent' = spent \/ (Fails /\ spent' = Failing))
  BY DEF Poll, pollToDone
<1>o. /\ job[run[u].job] \in JobRecs /\ job' = [job EXCEPT ![run[u].job] = job[run[u].job]]
      /\ (job[run[u].job].run # "none" => job[run[u].job].unit = u /\ job[run[u].job].sha = run[u].sha)
  BY <1>f, <1>n, OwnName DEF OwnOK
<1>1. SpentOK
  BY <1>f, CallFails
<1>2. "cancel" \in Passing \cap Deleting /\ "read" \in Passing \cap Deleting
  BY DEF Passing, Deleting
<1> QED
  BY <1>f, <1>n, <1>o, <1>1, <1>2, GoesOn

LEMMA ReapKeeps == ASSUME IInv, NEW u \in Units, Reap(u) PROVE IInv'
<1>n. run[u].phase \in Named /\ run[u].job \in Jobs
  BY OwnName DEF Reap, Named, Validating
<1>f. UNCHANGED <<world, head, books, sweep>> /\ (To(u, "reap-run") \/ To(u, "cancel-run")) /\ deleteChildren(run[u].job)
  BY DEF Reap
<1>1. PICK y \in JobRecs : /\ job' = [job EXCEPT ![run[u].job] = y] /\ SpentOK
                           /\ y.run = job[run[u].job].run /\ y.unit = job[run[u].job].unit /\ y.sha = job[run[u].job].sha
                           /\ (y.cm = "report" => job[run[u].job].cm = "report" /\ y.report = job[run[u].job].report)
  BY <1>f, <1>n, DeletedChildren
<1>2. y.run # "none" => y.unit = u /\ y.sha = run[u].sha
  BY <1>n, <1>1, OwnName DEF OwnOK
<1>3. "reap-run" \in Passing \cap Deleting /\ "cancel-run" \in Passing \cap Deleting
  BY DEF Passing, Deleting
<1> QED
  BY <1>f, <1>n, <1>1, <1>2, <1>3, GoesOn

LEMMA ReapRunKeeps == ASSUME IInv, NEW u \in Units, ReapRun(u) PROVE IInv'
<1>n. run[u].phase \in Named /\ run[u].job \in Jobs
  BY OwnName DEF ReapRun, Named, Validating
<1>f. UNCHANGED <<world, head, books, sweep>> /\ (To(u, "received") \/ run' = Throws(u)) /\ deletePipelineRun(run[u].job)
  BY DEF ReapRun, To
<1>1. PICK y \in JobRecs : /\ job' = [job EXCEPT ![run[u].job] = y]
                           /\ (y.run # "none" => y = job[run[u].job]) /\ y.cm = job[run[u].job].cm /\ y.report = job[run[u].job].report
                           /\ SpentOK /\ (spent'["faults"] = 0 => y.run = "none")
  BY <1>f, <1>n, DeletedRun
<1>2. y.run # "none" => y.unit = u /\ y.sha = run[u].sha
  BY <1>n, <1>1, OwnName DEF OwnOK
<1>3. "received" \in Passing
  BY DEF Passing
<1>4. CASE To(u, "received")
  BY <1>f, <1>n, <1>1, <1>2, <1>3, <1>4, GoesOn
<1>5. CASE run' = Throws(u)
  BY <1>f, <1>n, <1>1, <1>5, GivesUp
<1> QED
  BY <1>f, <1>4, <1>5

\* A step that leaves the objects of the validation's gate run alone.
LEMMA JudgesOn ==
    ASSUME IInv, NEW u \in Units, run[u].phase \in Named, NEW x, RunAfter(u, x), job' = job, x.job = run[u].job, x.sha = run[u].sha,
           x.phase # "create-run", SpentOK, UNCHANGED <<world, head, books, sweep>>,
           run[u].phase \in Deleting => x.phase \in Deleting, OneExecutes', FreshBuilds'
    PROVE  IInv'
<1> DEFINE j == run[u].job
<1>o. /\ j \in Jobs /\ job[j] \in JobRecs /\ OwnOK(u, T(u), run[u], job[j])
      /\ job' = [job EXCEPT ![j] = job[j]] /\ \A v \in Units : v # u /\ run[v].phase \in Named => run[v].job # j
  BY OwnName
<1>1. OwnOK(u, T(u), x, job[j])
  BY <1>o DEF OwnOK
<1>2. spent'["faults"] = 0 /\ job[j].run # "none" => x.phase \in Deleting \/ sweep.state = "due" \/ j \in sweep.todo \/ j \in sweep.half
  BY StillCleared DEF SpentOK
<1> QED
  BY <1>o, <1>1, <1>2, NamedStep

LEMMA ReadKeeps == ASSUME IInv, NEW u \in Units, readReportConfigMap(u) PROVE IInv'
<1> DEFINE j == run[u].job
           r == IF job[j].cm = "report" THEN job[j].report ELSE None
           x == [run[u] EXCEPT !.phase = "reap", !.report = r]
<1>n. run[u].phase = "read" /\ run[u].phase \in Named /\ run[u].phase \in Deleting
  BY DEF readReportConfigMap, Named, Validating, Deleting
<1>f. UNCHANGED <<world, head, books, sweep, job>>
  BY DEF readReportConfigMap
<1>o. /\ j \in Jobs /\ job[j] \in JobRecs /\ OwnOK(u, T(u), run[u], job[j])
      /\ RunOK(T(u), run[u]) /\ run[u] \in RunRecs /\ job' = [job EXCEPT ![j] = job[j]]
  BY <1>f, <1>n, OwnName
<1>1. CASE run' = [run EXCEPT ![u].phase = "reap", ![u].report = r] /\ UNCHANGED spent
  <2>1. r \in Reports \cup {None} /\ (r # None => JudgedOf(r, T(u), run[u].sha))
    BY <1>o DEF OwnOK, JobRecs
  <2> HIDE DEF r
  <2>2. "reap" \in Phases /\ "reap" \in Named /\ "reap" \in Deleting
    BY DEF Phases, Named, Validating, Deleting
  <2>3. /\ x \in RunRecs /\ x.phase = "reap" /\ x.at = run[u].at /\ x.sha = run[u].sha
        /\ x.job = run[u].job /\ x.report = r /\ x.facts = run[u].facts
    BY <1>o, <2>1, <2>2 DEF RunRecs
  <2>4. run' = [run EXCEPT ![u] = x]
    BY <1>1, <1>o DEF IInv, Types
  <2> HIDE DEF x
  <2>5. RunOK(T(u), x)
    BY <1>n, <1>o, <2>1, <2>2, <2>3 DEF RunOK
  <2>6. RunAfter(u, x)
    BY <2>3, <2>4, <2>5 DEF RunAfter
  <2>7. x.at = "check" => Executing(u)
    BY <1>n, <2>3 DEF Executing
  <2>8. OneExecutes' /\ FreshBuilds'
    BY <1>f, <2>3, <2>6, <2>7, Admits
  <2>9. SpentOK
    BY <1>1, CallFails
  <2> QED
    BY <1>f, <1>n, <2>2, <2>3, <2>6, <2>8, <2>9, JudgesOn
<1>2. CASE Fails /\ To(u, "cancel") /\ spent' = Failing
  <2>1. SpentOK
    BY <1>2, CallFails
  <2>2. "cancel" \in Passing \cap Deleting
    BY DEF Passing, Deleting
  <2>3. job[j].run # "none" => job[j].unit = u /\ job[j].sha = run[u].sha
    BY <1>o DEF OwnOK
  <2> QED
    BY <1>f, <1>n, <1>o, <1>2, <2>1, <2>2, <2>3, GoesOn
<1> QED
  BY <1>1, <1>2 DEF readReportConfigMap

LEMMA ReceiveKeeps == ASSUME IInv, NEW u \in Units, Receive(u) PROVE IInv'
<1>n. run[u].phase = "received" /\ run[u].phase \in Named /\ run[u].phase \notin Deleting
  BY DEF Receive, Named, Validating, Deleting
<1>f. UNCHANGED <<world, head, books, sweep, job, spent>>
  BY DEF Receive
<1>s. SpentOK
  BY <1>f, CallFails
<1>1. CASE To(u, "cancel")
  <2>0. "cancel" \in Passing
    BY DEF Passing
  <2>1. PICK x : /\ RunAfter(u, x) /\ x.phase = "cancel" /\ x.job = run[u].job /\ x.sha = run[u].sha /\ OneExecutes' /\ FreshBuilds'
    BY <1>f, <1>n, <1>1, <2>0, Goes
  <2> QED
    BY <1>f, <1>n, <1>s, <2>1, JudgesOn
<1>2. CASE To(u, "names") /\ run[u].report # None /\ sandboxGreen(run[u].report.fence)
  <2> DEFINE x == [run[u] EXCEPT !.phase = "names"]
  <2>0. "names" \in Phases /\ "names" \in Named
    BY DEF Phases, Named, Validating
  <2>1. /\ x \in RunRecs /\ run' = [run EXCEPT ![u] = x] /\ x.phase = "names" /\ x.at = run[u].at /\ x.sha = run[u].sha
        /\ x.job = run[u].job /\ x.report = run[u].report /\ x.facts = run[u].facts
    BY <1>2, <2>0, PhaseFacts
  <2> HIDE DEF x
  <2>2. RunOK(T(u), run[u])
    BY DEF IInv, RunsOK
  <2>3. RunOK(T(u), x)
    BY <1>n, <1>2, <2>0, <2>1, <2>2 DEF RunOK
  <2>4. RunAfter(u, x)
    BY <2>1, <2>3 DEF RunAfter
  <2>5. x.at = "check" => Executing(u)
    BY <1>n, <2>1 DEF Executing
  <2>6. OneExecutes' /\ FreshBuilds'
    BY <1>f, <2>1, <2>4, <2>5, Admits
  <2> QED
    BY <1>f, <1>n, <1>s, <2>0, <2>1, <2>4, <2>6, JudgesOn
<1> QED
  BY <1>1, <1>2 DEF Receive

\* A refusal, and a judgement that goes on, from a validation's last two phases.
LEMMA JudgedKeeps ==
    ASSUME IInv, NEW u \in Units, run[u].phase \in {"names", "builds"}, NEW p \in Phases, NEW F \in SUBSET GateNames,
           NEW q, q = composeReport(run[u].report, F),
           run' = [run EXCEPT ![u].phase = p, ![u].report = q],
           UNCHANGED <<world, head, books, sweep, job, spent>>,
           \/ p = "rejected" /\ run[u].at = "plan"
           \/ p = "stopped" /\ run[u].at = "check"
           \/ p = "builds" /\ q.manifest
           \/ p = "sharing" /\ run[u].at = "plan" /\ q.failed = {} /\ run[u].phase = "builds"
           \/ /\ p = "checked" /\ run[u].at = "check" /\ q.failed = {} /\ run[u].phase = "builds"
              /\ ~Drifted(run[u].facts, Content[run[u].sha], T(u).chartPath) /\ Content[run[u].sha].builds \cap AttestedBuilds(u) = {}
    PROVE  IInv'
<1> DEFINE x == [run[u] EXCEPT !.phase = p, !.report = q]
<1>n. run[u].phase \in Named /\ run[u].phase \notin Deleting /\ run[u].phase \notin {"failed", "registered"}
  BY DEF Named, Validating, Deleting
<1>o. RunOK(T(u), run[u]) /\ run[u] \in RunRecs /\ run[u].sha \in DOMAIN Content /\ run[u].job \in Jobs
  BY <1>n, OwnName
<1>r. /\ run[u].report \in Reports /\ sandboxGreen(run[u].report.fence) /\ JudgedOf(run[u].report, T(u), run[u].sha)
      /\ run[u].phase = "builds" => run[u].report.manifest
  BY <1>o DEF RunOK, RunRecs
<1>q. /\ q \in Reports /\ q # None /\ q.manifest = run[u].report.manifest /\ q.fence = run[u].report.fence
      /\ JudgedOf(q, T(u), run[u].sha)
  BY <1>r, Composed
<1>1. /\ x \in RunRecs /\ x.phase = p /\ x.at = run[u].at /\ x.sha = run[u].sha
      /\ x.job = run[u].job /\ x.report = q /\ x.facts = run[u].facts
  BY <1>o, <1>q DEF RunRecs
<1>2. run' = [run EXCEPT ![u] = x]
  BY <1>o DEF IInv, Types
<1> HIDE DEF x
<1>3. p \in {"rejected", "stopped", "builds", "sharing", "checked"} /\ (p \in Named => p = "builds")
  BY DEF Named, Validating
<1>4. RunOK(T(u), x)
  BY <1>n, <1>o, <1>q, <1>r, <1>1, <1>3 DEF RunOK
<1>5. RunAfter(u, x)
  BY <1>1, <1>2, <1>4 DEF RunAfter
<1>6. x.at = "check" => Executing(u)
  BY <1>n, <1>1 DEF Executing
<1>7. x.phase = "checked" => x.facts.builds \cap AttestedBuilds(u) = {}
  BY <1>1 DEF Drifted
<1>8. OneExecutes' /\ FreshBuilds'
  BY <1>5, <1>6, <1>7, Admits
<1>9. SpentOK
  BY CallFails
<1> QED
  BY <1>n, <1>1, <1>3, <1>5, <1>8, <1>9, JudgesOn

LEMMA JudgeNamesKeeps == ASSUME IInv, NEW u \in Units, JudgeNames(u) PROVE IInv'
<1> DEFINE rp == Content[run[u].sha]
           F == {g \in {"G23"} : ~gateUnitName(rp, T(u), HostLabels(u), W.subdomains, W.reserved)}
                  \cup {g \in {"G28"} : ~gateReleaseWorkflow(rp)}
                  \cup {g \in {"G26"} : ~gateManifestInput(run[u].report)}
           q == composeReport(run[u].report, F)
           p == IF q.manifest THEN "builds" ELSE IF run[u].at = "plan" THEN "rejected" ELSE "stopped"
<1>1. F \in SUBSET GateNames
  BY DEF GateNames
<1>2. run[u].phase = "names" /\ UNCHANGED <<world, head, books, sweep, job, spent>>
  BY DEF JudgeNames
<1>3. run' = [run EXCEPT ![u].phase = p, ![u].report = q]
  BY DEF JudgeNames, Refuse
<1>4. p \in Phases /\ run[u].at \in {"plan", "check"}
  BY DEF Phases, Validating, RepoPhases, IInv, Types, RunRecs
<1>5. (p = "rejected" /\ run[u].at = "plan") \/ (p = "stopped" /\ run[u].at = "check") \/ (p = "builds" /\ q.manifest)
  BY <1>4
<1>6. q = composeReport(run[u].report, F)
  OBVIOUS
<1> HIDE DEF F, q, p
<1> QED
  BY <1>1, <1>2, <1>3, <1>4, <1>5, <1>6, JudgedKeeps

LEMMA JudgeBuildsKeeps == ASSUME IInv, NEW u \in Units, JudgeBuilds(u) PROVE IInv'
<1> DEFINE rp == Content[run[u].sha]
           F == {g \in {"G16"} : ~gateBuildNameUniqueness(rp, AttestedBuilds(u))}
                  \cup {g \in {"G18"} : ~gateBuildDeclaration(rp, T(u))}
                  \cup {g \in {"G24"} : ~gateUnitSize(rp, T(u))}
                  \cup {g \in {"G27"} : ~gateUnitHost(T(u), W.zone)}
                  \cup {g \in {"G29"} : ~gateMailSender(rp, T(u), Senders(u))}
           q == composeReport(run[u].report, F)
           next == IF run[u].at = "plan" THEN IF formMismatch(rp, T(u)) THEN "rejected" ELSE "sharing"
                   ELSE IF Drifted(run[u].facts, rp, T(u).chartPath) THEN "stopped" ELSE "checked"
           passes == hardGatesPass(q) /\ assembleReport(run[u].report)
           p == IF passes THEN next ELSE IF run[u].at = "plan" THEN "rejected" ELSE "stopped"
<1>1. F \in SUBSET GateNames
  BY DEF GateNames
<1>2. run[u].phase = "builds" /\ UNCHANGED <<world, head, books, sweep, job, spent>>
  BY DEF JudgeBuilds
<1>3. run' = [run EXCEPT ![u].phase = p, ![u].report = q]
  BY DEF JudgeBuilds, Refuse
<1>4. p \in Phases /\ run[u].at \in {"plan", "check"}
  BY DEF Phases, Validating, RepoPhases, IInv, Types, RunRecs
<1>6. q = composeReport(run[u].report, F)
  OBVIOUS
<1>r. run[u].report \in Reports
  BY <1>2 DEF IInv, RunsOK, RunOK, Types, RunRecs
<1>7. q.failed = run[u].report.failed \cup F
  BY <1>1, <1>r, Composed
<1>8. q.failed = {} => rp.builds \cap AttestedBuilds(u) = {}
  BY <1>7 DEF gateBuildNameUniqueness
<1>5. \/ p = "rejected" /\ run[u].at = "plan"
      \/ p = "stopped" /\ run[u].at = "check"
      \/ p = "sharing" /\ run[u].at = "plan" /\ q.failed = {}
      \/ /\ p = "checked" /\ run[u].at = "check" /\ q.failed = {}
         /\ ~Drifted(run[u].facts, rp, T(u).chartPath) /\ rp.builds \cap AttestedBuilds(u) = {}
  <2> HIDE DEF q
  <2> QED
    BY <1>4, <1>8 DEF hardGatesPass
<1> HIDE DEF F, q, p
<1> QED
  BY <1>1, <1>2, <1>3, <1>4, <1>5, <1>6, JudgedKeeps

LEMMA CloneKeeps == ASSUME IInv, NEW u \in Units, Clone(u) PROVE IInv'
<1> DEFINE j == Min(FreeJobs(u))
           x == [run[u] EXCEPT !.phase = "create-run", !.sha = head[u], !.job = j, !.report = None]
<1>t. run \in [Units -> RunRecs] /\ run[u] \in RunRecs /\ job \in [Jobs -> JobRecs] /\ head[u] \in DOMAIN Content /\ RunOK(T(u), run[u])
  BY DEF IInv, Types, RunsOK
<1>n. run[u].phase = "clone" /\ run[u].phase \notin Named /\ run[u].phase \in Validating
  BY DEF Clone, Named, Validating
<1>f. UNCHANGED <<world, head, books, sweep>>
  BY DEF Clone
<1>j. j \in FreeJobs(u)
  <2>1. FreeJobs(u) # {}
    BY DEF Clone
  <2>2. FreeJobs(u) \subseteq Jobs /\ Jobs \subseteq Nat
    BY WorldsAreBounded DEF FreeJobs, Jobs
  <2> QED
    BY <2>1, <2>2, MinIn
<1>1. j \in Jobs /\ j \notin sweep.todo \cup sweep.half /\ \A v \in Units : v # u /\ run[v].phase \in Named => run[v].job # j
  BY <1>j DEF FreeJobs, Named
<1>2. CASE /\ run' = [run EXCEPT ![u].phase = "create-run", ![u].sha = head[u], ![u].job = j, ![u].report = None]
           /\ job' = [job EXCEPT ![j] = NoObjects] /\ UNCHANGED spent
  <2> HIDE DEF j
  <2>0. "create-run" \in Phases /\ "create-run" \in Named
    BY DEF Phases, Named, Validating
  <2>1. /\ x \in RunRecs /\ x.phase = "create-run" /\ x.at = run[u].at /\ x.sha = head[u]
        /\ x.job = j /\ x.report = None /\ x.facts = run[u].facts
    BY <1>t, <1>1, <2>0 DEF RunRecs
  <2>2. run' = [run EXCEPT ![u] = x]
    BY <1>2, <1>t
  <2> HIDE DEF x
  <2>3. RunOK(T(u), x)
    BY <1>n, <1>t, <1>1, <2>0, <2>1 DEF RunOK
  <2>4. RunAfter(u, x)
    BY <2>1, <2>2, <2>3 DEF RunAfter
  <2>5. x.at = "check" => Executing(u)
    BY <1>n, <2>1 DEF Executing
  <2>6. OneExecutes' /\ FreshBuilds'
    BY <1>f, <2>1, <2>4, <2>5, Admits
  <2>7. /\ NoObjects \in JobRecs /\ NoObjects.run = "none" /\ ~NoObjects.secret /\ NoObjects.cm = "absent"
    BY DEF NoObjects, JobRecs
  <2>8. OwnOK(u, T(u), x, NoObjects)
    BY <2>7 DEF OwnOK
  <2>9. SpentOK
    BY <1>2, CallFails
  <2> QED
    BY <1>f, <1>n, <1>1, <1>2, <2>1, <2>4, <2>6, <2>7, <2>8, <2>9, NamedStep
<1>3. CASE Fails /\ run' = Throws(u) /\ spent' = Failing /\ UNCHANGED job
  <2>1. PICK z : RunAfter(u, z) /\ z.phase \notin Named /\ OneExecutes' /\ FreshBuilds'
    BY <1>f, <1>n, <1>3, Throwing
  <2>2. SpentOK
    BY <1>3, CallFails
  <2>3. DOMAIN books' = Units /\ \A v \in Units : books'[v] = None \/ books'[v].gated \in BOOLEAN
    BY <1>f DEF IInv, Types
  <2> QED
    BY <1>f, <1>n, <1>3, <2>1, <2>2, <2>3, QuietStep
<1> QED
  BY <1>2, <1>3 DEF Clone

\* A step between two validations: the phase moves, and perhaps the frozen facts.
LEMMA QuietMove ==
    ASSUME IInv, NEW u \in Units, NEW x, x \in RunRecs, run' = [run EXCEPT ![u] = x], RunOK(T(u), x),
           run[u].phase \notin Named, x.phase \notin Named, UNCHANGED <<world, head, job, books, sweep, spent>>,
           x.at = "check" /\ x.phase \notin {"failed", "registered"} => Executing(u) \/ \A v \in Units : ~Executing(v),
           x.phase = "checked" => x.report = None
    PROVE  IInv'
<1>1. RunAfter(u, x)
  BY DEF RunAfter
<1>2. OneExecutes' /\ FreshBuilds'
  BY <1>1, Admits
<1>3. SpentOK
  BY CallFails
<1>4. DOMAIN books' = Units /\ \A v \in Units : books'[v] = None \/ books'[v].gated \in BOOLEAN
  BY DEF IInv, Types
<1> QED
  BY <1>1, <1>2, <1>3, <1>4, QuietStep

LEMMA AskKeeps == ASSUME IInv, NEW u \in Units, Ask(u) \/ Retry(u) PROVE IInv'
<1>t. run[u] \in RunRecs /\ RunOK(T(u), run[u])
  BY DEF IInv, Types, RunsOK
<1>1. PICK p \in {"clone", "failed"} : /\ To(u, p) /\ UNCHANGED <<world, head, job, books, sweep, spent>>
                                       /\ run[u].phase \in {"idle", "stopped"} /\ (p = "failed" => run[u].phase = "stopped")
  BY DEF Ask, Retry
<1> DEFINE x == [run[u] EXCEPT !.phase = p]
<1>2. p \in Phases /\ p \notin Named /\ run[u].phase \notin Named
  BY <1>1 DEF Phases, Named, Validating, RepoPhases
<1>3. /\ x \in RunRecs /\ run' = [run EXCEPT ![u] = x] /\ x.phase = p /\ x.at = run[u].at /\ x.sha = run[u].sha
      /\ x.job = run[u].job /\ x.report = run[u].report /\ x.facts = run[u].facts
  BY <1>1, <1>2, PhaseFacts
<1> HIDE DEF x
<1>4. RunOK(T(u), x)
  BY <1>t, <1>1, <1>2, <1>3 DEF RunOK
<1>5. x.at = "check" /\ x.phase \notin {"failed", "registered"} => Executing(u)
  BY <1>1, <1>3 DEF Executing
<1> QED
  BY <1>1, <1>2, <1>3, <1>4, <1>5, QuietMove

LEMMA PlanSharingKeeps == ASSUME IInv, NEW u \in Units, PlanSharing(u) PROVE IInv'
<1>t. run \in [Units -> RunRecs] /\ run[u] \in RunRecs /\ RunOK(T(u), run[u])
  BY DEF IInv, Types, RunsOK
<1>1. run[u].phase = "sharing" /\ UNCHANGED <<world, head, job, books, sweep, spent>> /\ run[u].phase \notin Named
  BY DEF PlanSharing, Named, Validating
<1>2. PICK p \in {"rejected", "planned"} : run' = [run EXCEPT ![u].phase = p, ![u].facts = Facts(Content[run[u].sha])]
  BY DEF PlanSharing
<1> DEFINE x == [run[u] EXCEPT !.phase = p, !.facts = Facts(Content[run[u].sha])]
<1>3. Facts(Content[run[u].sha]) \in FrozenFacts /\ run[u].sha \in DOMAIN Content
  BY <1>t, <1>1 DEF RunOK, FrozenFacts
<1>4. p \in Phases /\ p \notin Named
  BY <1>2 DEF Phases, Named, Validating, RepoPhases
<1>5. /\ x \in RunRecs /\ x.phase = p /\ x.at = run[u].at /\ x.sha = run[u].sha
      /\ x.job = run[u].job /\ x.report = run[u].report /\ x.facts \in FrozenFacts
  BY <1>t, <1>3, <1>4 DEF RunRecs
<1>6. run' = [run EXCEPT ![u] = x]
  BY <1>t, <1>2
<1> HIDE DEF x
<1>7. x.facts # None
  BY <1>5, NoFacts
<1>8. RunOK(T(u), x) /\ x.at = "plan"
  BY <1>t, <1>1, <1>2, <1>3, <1>4, <1>5, <1>7 DEF RunOK
<1> QED
  BY <1>1, <1>2, <1>4, <1>5, <1>6, <1>8, QuietMove

LEMMA StartKeeps == ASSUME IInv, NEW u \in Units, Start(u) \/ StartUngated(u) PROVE IInv'
<1>t. run \in [Units -> RunRecs] /\ run[u] \in RunRecs /\ RunOK(T(u), run[u])
  BY DEF IInv, Types, RunsOK
<1>1. PICK p \in {"clone", "checked"} : /\ run' = [run EXCEPT ![u].phase = p, ![u].at = "check"] /\ UNCHANGED <<world, head, job, books, sweep, spent>>
                                        /\ run[u].phase = (IF p = "clone" THEN "planned" ELSE "ungated") /\ \A v \in Units : ~Executing(v)
  BY DEF Start, StartUngated
<1> DEFINE x == [run[u] EXCEPT !.phase = p, !.at = "check"]
<1>2. p \in Phases /\ p \notin Named /\ run[u].phase \notin Named
  BY <1>1 DEF Phases, Named, Validating, RepoPhases
<1>3. /\ x \in RunRecs /\ x.phase = p /\ x.at = "check" /\ x.sha = run[u].sha
      /\ x.job = run[u].job /\ x.report = run[u].report /\ x.facts = run[u].facts
  BY <1>t, <1>2 DEF RunRecs
<1>4. run' = [run EXCEPT ![u] = x]
  BY <1>t, <1>1
<1> HIDE DEF x
<1>5. RunOK(T(u), x) /\ (x.phase = "checked" => x.report = None)
  BY <1>t, <1>1, <1>2, <1>3 DEF RunOK
<1> QED
  BY <1>1, <1>2, <1>3, <1>4, <1>5, QuietMove

LEMMA UngatedKeeps == ASSUME IInv, NEW u \in Units, PlanUngated(u) PROVE IInv'
<1>t. run \in [Units -> RunRecs] /\ run[u] \in RunRecs /\ RunOK(T(u), run[u]) /\ head[u] \in DOMAIN Content
  BY DEF IInv, Types, RunsOK
<1>1. /\ run[u].phase = "idle" /\ run[u].phase \notin Named /\ UNCHANGED <<world, head, job, books, sweep, spent>>
      /\ run' = [run EXCEPT ![u].phase = "ungated", ![u].sha = head[u], ![u].facts = Facts(Content[head[u]])]
      /\ ~Content[head[u]].chart
  BY DEF PlanUngated, Named, Validating, readUngatedOnboard
<1> DEFINE x == [run[u] EXCEPT !.phase = "ungated", !.sha = head[u], !.facts = Facts(Content[head[u]])]
<1>2. "ungated" \in Phases /\ "ungated" \notin Named /\ Facts(Content[head[u]]) \in FrozenFacts
  BY <1>t DEF Phases, Named, Validating, RepoPhases, FrozenFacts
<1>3. /\ x \in RunRecs /\ x.phase = "ungated" /\ x.at = run[u].at /\ x.sha = head[u]
      /\ x.job = run[u].job /\ x.report = run[u].report /\ x.facts \in FrozenFacts
  BY <1>t, <1>2 DEF RunRecs
<1>4. run' = [run EXCEPT ![u] = x]
  BY <1>t, <1>1
<1> HIDE DEF x
<1>5. x.facts # None
  BY <1>3, NoFacts
<1>6. RunOK(T(u), x) /\ x.at = "plan"
  BY <1>t, <1>1, <1>2, <1>3, <1>5 DEF RunOK
<1> QED
  BY <1>1, <1>2, <1>3, <1>4, <1>6, QuietMove

LEMMA RegisterKeeps == ASSUME IInv, NEW u \in Units, Register(u) PROVE IInv'
<1>t. Types /\ run[u] \in RunRecs /\ RunOK(T(u), run[u])
  BY DEF IInv, Types, RunsOK
<1>1. /\ run[u].phase = "checked" /\ run[u].phase \notin Named /\ UNCHANGED <<world, head, job, sweep, spent>> /\ To(u, "registered")
      /\ books' = [books EXCEPT ![u] = Registration(run[u].facts, T(u).stage, run[u].report # None)]
  BY DEF Register, Named, Validating
<1> DEFINE x == [run[u] EXCEPT !.phase = "registered"]
<1>2. "registered" \in Phases /\ "registered" \notin Named
  BY DEF Phases, Named, Validating, RepoPhases
<1>3. /\ x \in RunRecs /\ run' = [run EXCEPT ![u] = x] /\ x.phase = "registered" /\ x.at = run[u].at /\ x.sha = run[u].sha
      /\ x.job = run[u].job /\ x.report = run[u].report /\ x.facts = run[u].facts
  BY <1>1, <1>2, PhaseFacts
<1> HIDE DEF x
<1>4. RunOK(T(u), x)
  BY <1>t, <1>1, <1>2, <1>3 DEF RunOK
<1>5. RunAfter(u, x)
  BY <1>3, <1>4 DEF RunAfter
<1>6. run'[u] = x /\ \A v \in Units : v # u => run'[v] = run[v]
  BY <1>1, <1>5, RunMoves
<1>7. Executing(u) /\ \A v \in Units : v # u => ~Executing(v)
  BY <1>t, <1>1 DEF Executing, RunOK, IInv, OneExecutes
<1>8. OneExecutes'
  BY <1>3, <1>6, <1>7 DEF OneExecutes, Executing
<1>9. FreshBuilds'
  <2>1. ASSUME NEW v \in Units PROVE run'[v].phase # "checked"
    <3>1. v # u => run[v].phase # "checked"
      BY <1>7 DEF Executing, IInv, RunsOK, RunOK
    <3> QED
      BY <1>3, <1>6, <3>1
  <2> QED
    BY <2>1 DEF FreshBuilds
<1>10. (run[u].report # None) \in BOOLEAN
  BY Zenon
<1>11. DOMAIN books' = Units /\ \A v \in Units : books'[v] = None \/ books'[v].gated \in BOOLEAN
  <2> DEFINE g == run[u].report # None
             b == Registration(run[u].facts, T(u).stage, g)
  <2>1. b.gated = g
    BY DEF Registration
  <2>2. g \in BOOLEAN /\ books' = [books EXCEPT ![u] = b]
    BY <1>1, <1>10
  <2> HIDE DEF b, g
  <2> QED
    BY <1>t, <2>1, <2>2 DEF Types
<1>12. SpentOK
  BY <1>1, CallFails
<1> QED
  BY <1>1, <1>2, <1>3, <1>5, <1>8, <1>9, <1>11, <1>12, QuietStep

-----------------------------------------------------------------------------
\* Steps of the sandbox, the sweep and the process.

LEMMA JobStep ==
    ASSUME IInv, NEW j \in Jobs, NEW y \in JobRecs, job' = [job EXCEPT ![j] = y],
           SpentOK, UNCHANGED <<world, head, run, books>>, sweep' \in Sweeps, sweep'.state = sweep.state,
           \A u \in Units : run[u].phase \in Named /\ run[u].job = j => OwnOK(u, T(u), run[u], y),
           y.run # "none" => job[j].run # "none",
           spent'["faults"] = 0 => \A k \in Jobs : (k = j => y.run # "none") /\ k \in sweep.todo \cup sweep.half => k \in sweep'.todo \cup sweep'.half
    PROVE  IInv'
<1>t. Types /\ job \in [Jobs -> JobRecs]
  BY DEF IInv, Types
<1>2. job' \in [Jobs -> JobRecs] /\ job'[j] = y /\ \A k \in Jobs : k # j => job'[k] = job[k]
  BY <1>t
<1>3. Types'
  BY <1>t, <1>2, SameTargets DEF Types, SpentOK
<1>4. Owned' /\ Apart' /\ RunsOK'
  <2>1. ASSUME NEW v \in Units, run[v].phase \in Named PROVE OwnOK(v, T(v), run[v], job'[run[v].job])
    <3>1. run[v].job \in Jobs /\ OwnOK(v, T(v), run[v], job[run[v].job])
      BY <2>1, OwnName
    <3> QED
      BY <1>2, <2>1, <3>1
  <2> QED
    BY <2>1, SameTargets DEF Owned, IInv, Apart, RunsOK
<1>6. Tracked'
  <2> SUFFICES ASSUME spent'["faults"] = 0, NEW k \in Jobs, job'[k].run # "none" PROVE Cleared(k)'
    BY DEF Tracked
  <2>1. job[k].run # "none" /\ (k = j => y.run # "none")
    BY <1>2
  <2>2. Cleared(k)
    BY <2>1 DEF IInv, Tracked, SpentOK
  <2> QED
    BY <2>1, <2>2 DEF Cleared
<1>7. OneExecutes' /\ FreshBuilds'
  BY DEF IInv, OneExecutes, Executing, FreshBuilds, AttestedBuilds, Standing
<1> QED
  BY <1>3, <1>4, <1>6, <1>7 DEF IInv

LEMMA MountKeeps == ASSUME IInv, NEW j \in Jobs, Mount(j) PROVE IInv'
<1> DEFINE y == [job[j] EXCEPT !.run = "going"]
<1>t. job \in [Jobs -> JobRecs] /\ job[j] \in JobRecs /\ sweep \in Sweeps
  BY DEF IInv, Types
<1>1. /\ job[j].run = "created" /\ job' = [job EXCEPT ![j].run = "going"] /\ UNCHANGED <<world, head, run, books, sweep, spent>>
  BY DEF Mount
<1>2. /\ y \in JobRecs /\ y.run = "going" /\ y.unit = job[j].unit /\ y.sha = job[j].sha
      /\ y.cm = job[j].cm /\ y.report = job[j].report
  BY <1>t DEF JobRecs, Unsettled
<1>3. job' = [job EXCEPT ![j] = y]
  BY <1>t, <1>1
<1> HIDE DEF y
<1>4. \A u \in Units : run[u].phase \in Named /\ run[u].job = j => OwnOK(u, T(u), run[u], y)
  BY <1>1, <1>2, OwnName DEF OwnOK
<1>5. SpentOK
  BY <1>1, CallFails
<1> QED
  BY <1>t, <1>1, <1>2, <1>3, <1>4, <1>5, JobStep

LEMMA Death == ASSUME IInv, Dies \/ UNCHANGED spent PROVE SpentOK
<1>1. "deaths" \in Bounds
  BY DEF Bounds
<1> QED
  BY <1>1, Spends DEF Dies

LEMMA PublishKeeps == ASSUME IInv, NEW j \in Jobs, Publish(j) PROVE IInv'
<1>t. job \in [Jobs -> JobRecs] /\ job[j] \in JobRecs /\ sweep \in Sweeps /\ world \in DOMAIN Worlds
  BY DEF IInv, Types
<1>1. job[j].run = "going" /\ UNCHANGED <<world, head, run, books, sweep>>
  BY DEF Publish
<1> DEFINE Judged(late) == runGateCli(Content[job[j].sha], T(job[j].unit), selfProbe(W.net), late)
<1>2. PICK late \in BOOLEAN, died \in BOOLEAN :
         /\ Dies \/ UNCHANGED spent
         /\ job' = [job EXCEPT ![j].run = "judged", ![j].cm = IF died THEN "incomplete" ELSE "report",
                               ![j].report = IF died THEN None ELSE Judged(late)]
  BY DEF Publish
<1> DEFINE q == Judged(late)
<1>3. q \in Reports /\ JudgedOf(q, T(job[j].unit), job[j].sha)
  <2>1. W.net.declared \in BOOLEAN
    BY <1>t, WorldsAreTyped DEF W
  <2> DEFINE sha == job[j].sha
             t == T(job[j].unit)
             net == W.net
  <2>2. q = runGateCli(Content[sha], t, selfProbe(net), late) /\ net.declared \in BOOLEAN
    BY <2>1
  <2> HIDE DEF q, Judged, sha, t, net
  <2>3. q \in Reports /\ JudgedOf(q, t, sha)
    BY <2>2, CliJudges
  <2> QED
    BY <2>3 DEF t, sha
<1>4. job' = [job EXCEPT ![j].run = "judged", ![j].cm = IF died THEN "incomplete" ELSE "report", ![j].report = IF died THEN None ELSE q]
  BY <1>2
<1> HIDE DEF q, Judged
<1> DEFINE c == IF died THEN "incomplete" ELSE "report"
           r == IF died THEN None ELSE q
           y == [job[j] EXCEPT !.run = "judged", !.cm = c, !.report = r]
<1>5. c \in {"absent", "report", "incomplete"} /\ r \in Reports \cup {None} /\ (c = "report" => r = q)
  BY <1>3
<1>6. job' = [job EXCEPT ![j].run = "judged", ![j].cm = c, ![j].report = r]
  BY <1>4
<1> HIDE DEF c, r
<1>7. /\ y \in JobRecs /\ y.run = "judged" /\ y.unit = job[j].unit /\ y.sha = job[j].sha /\ y.cm = c /\ y.report = r
  BY <1>t, <1>5 DEF JobRecs, Unsettled
<1>8. job' = [job EXCEPT ![j] = y]
  BY <1>t, <1>6
<1> HIDE DEF y
<1>9. q # None
  BY <1>3, NoReport
<1>10. ASSUME NEW u \in Units, run[u].phase \in Named, run[u].job = j PROVE OwnOK(u, T(u), run[u], y)
  <2>1. OwnOK(u, T(u), run[u], job[j])
    BY <1>10, OwnName
  <2>2. run[u].phase # "create-run" /\ job[j].unit = u /\ job[j].sha = run[u].sha
    BY <1>1, <2>1 DEF OwnOK
  <2>3. JudgedOf(q, T(u), run[u].sha)
    BY <1>3, <2>2
  <2> QED
    BY <1>5, <1>7, <1>9, <2>2, <2>3 DEF OwnOK
<1>11. SpentOK
  BY <1>2, Death
<1> QED
  BY <1>t, <1>1, <1>7, <1>8, <1>10, <1>11, JobStep

LEMMA SettleKeeps == ASSUME IInv, NEW j \in Jobs, Settle(j) PROVE IInv'
<1> DEFINE y == [job[j] EXCEPT !.run = "settled"]
<1>t. job \in [Jobs -> JobRecs] /\ job[j] \in JobRecs /\ sweep \in Sweeps
  BY DEF IInv, Types
<1>1. /\ job[j].run # "none" /\ job' = [job EXCEPT ![j].run = "settled"] /\ UNCHANGED <<world, head, run, books, sweep>>
  BY DEF Settle, Unsettled
<1>2. /\ y \in JobRecs /\ y.run = "settled" /\ y.unit = job[j].unit /\ y.sha = job[j].sha
      /\ y.cm = job[j].cm /\ y.report = job[j].report
  BY <1>t DEF JobRecs
<1>3. job' = [job EXCEPT ![j] = y]
  BY <1>t, <1>1
<1> HIDE DEF y
<1>4. \A u \in Units : run[u].phase \in Named /\ run[u].job = j => OwnOK(u, T(u), run[u], y)
  BY <1>1, <1>2, OwnName DEF OwnOK
<1>5. SpentOK
  BY Death DEF Settle
<1> QED
  BY <1>t, <1>1, <1>2, <1>3, <1>4, <1>5, JobStep

LEMMA CollectKeeps == ASSUME IInv, NEW j \in Jobs, Collect(j) PROVE IInv'
<1> DEFINE y == [job[j] EXCEPT !.secret = FALSE]
<1>t. job \in [Jobs -> JobRecs] /\ job[j] \in JobRecs /\ sweep \in Sweeps
  BY DEF IInv, Types
<1>1. job[j].run = "none" /\ job' = [job EXCEPT ![j].secret = FALSE] /\ UNCHANGED <<world, head, run, books, sweep, spent>>
  BY DEF Collect
<1>2. /\ y \in JobRecs /\ ~y.secret /\ y.run = job[j].run /\ y.unit = job[j].unit /\ y.sha = job[j].sha
      /\ y.cm = job[j].cm /\ y.report = job[j].report
  BY <1>t DEF JobRecs
<1>3. job' = [job EXCEPT ![j] = y]
  BY <1>t, <1>1
<1> HIDE DEF y
<1>4. \A u \in Units : run[u].phase \in Named /\ run[u].job = j => OwnOK(u, T(u), run[u], y)
  BY <1>1, <1>2, OwnName DEF OwnOK
<1>5. SpentOK
  BY <1>1, CallFails
<1> QED
  BY <1>t, <1>1, <1>2, <1>3, <1>4, <1>5, JobStep

LEMMA SweepChildrenKeeps == ASSUME IInv, NEW j \in Jobs, SweepChildren(j) PROVE IInv'
<1>t. sweep \in Sweeps
  BY DEF IInv, Types
<1>1. /\ deleteChildren(j) /\ UNCHANGED <<world, head, run, books>>
      /\ sweep' = [sweep EXCEPT !.todo = sweep.todo \ {j}, !.half = sweep.half \cup {j}]
  BY DEF SweepChildren
<1>2. PICK y \in JobRecs : /\ job' = [job EXCEPT ![j] = y] /\ (y.secret => job[j].secret) /\ SpentOK
                           /\ y.run = job[j].run /\ y.unit = job[j].unit /\ y.sha = job[j].sha
                           /\ (y.cm = "report" => job[j].cm = "report" /\ y.report = job[j].report)
                           /\ (job[j].cm = "absent" => y.cm = "absent")
  BY <1>1, DeletedChildren
<1>3. sweep' \in Sweeps /\ sweep'.state = sweep.state /\ sweep'.todo = sweep.todo \ {j} /\ sweep'.half = sweep.half \cup {j}
  BY <1>t, <1>1 DEF Sweeps
<1>4. \A u \in Units : run[u].phase \in Named /\ run[u].job = j => OwnOK(u, T(u), run[u], y)
  BY <1>2, OwnName DEF OwnOK
<1> QED
  BY <1>1, <1>2, <1>3, <1>4, JobStep

LEMMA SweepRunKeeps == ASSUME IInv, NEW j \in Jobs, SweepRun(j) PROVE IInv'
<1>t. sweep \in Sweeps
  BY DEF IInv, Types
<1>1. /\ deletePipelineRun(j) /\ UNCHANGED <<world, head, run, books>>
      /\ sweep' = [sweep EXCEPT !.half = sweep.half \ {j}]
  BY DEF SweepRun
<1>2. PICK y \in JobRecs : /\ job' = [job EXCEPT ![j] = y]
                           /\ y.secret = job[j].secret /\ (y.run # "none" => y = job[j]) /\ y.cm = job[j].cm /\ y.report = job[j].report
                           /\ SpentOK /\ (spent'["faults"] = 0 => y.run = "none")
  BY <1>1, DeletedRun
<1>3. sweep' \in Sweeps /\ sweep'.state = sweep.state /\ sweep'.todo = sweep.todo /\ sweep'.half = sweep.half \ {j}
  BY <1>t, <1>1 DEF Sweeps
<1>4. \A u \in Units : run[u].phase \in Named /\ run[u].job = j => OwnOK(u, T(u), run[u], y)
  BY <1>2, OwnName DEF OwnOK
<1> QED
  BY <1>1, <1>2, <1>3, <1>4, JobStep

\* No validation is under way in the process that boots.
LEMMA RestartKeeps == ASSUME IInv, Restart PROVE IInv'
<1>t. Types /\ run \in [Units -> RunRecs]
  BY DEF IInv, Types
<1>1. UNCHANGED <<world, head, job, books>> /\ sweep' = [state |-> "due", todo |-> {}, half |-> {}]
  BY DEF Restart, Rested
<1>2. SpentOK
  <2>1. "restarts" \in Bounds
    BY DEF Bounds
  <2> QED
    BY <2>1, Spends DEF Restart
<1>3. ASSUME NEW u \in Units
      PROVE  \/ run'[u] = run[u] /\ run[u].phase \notin Validating
             \/ /\ run'[u] = [run[u] EXCEPT !.phase = "failed"] /\ run[u].at = "plan"
             \/ run'[u] = [run[u] EXCEPT !.phase = "clone"] /\ run[u].at = "check" /\ run[u].phase \in Validating
  <2>1. run[u].at \in {"plan", "check"}
    BY <1>t DEF RunRecs
  <2>2. run'[u] = CASE run[u].phase \in Validating \cup {"sharing"} /\ run[u].at = "plan" -> [run[u] EXCEPT !.phase = "failed"]
                    [] run[u].phase \in Validating /\ run[u].at = "check" -> [run[u] EXCEPT !.phase = "clone"]
                    [] OTHER -> run[u]
    BY DEF Restart
  <2> QED
    BY <2>1, <2>2
<1>4. ASSUME NEW u \in Units
      PROVE  /\ run'[u] \in RunRecs /\ run'[u].phase \notin Named /\ RunOK(T(u), run'[u])
             /\ (Executing(u)' => Executing(u)) /\ (run'[u].phase = "checked" => run'[u] = run[u])
  <2>t. run[u] \in RunRecs /\ RunOK(T(u), run[u])
    BY <1>t DEF IInv, RunsOK
  <2>1. CASE run'[u] = run[u] /\ run[u].phase \notin Validating
    BY <2>t, <2>1 DEF Named, Executing
  <2>2. CASE run'[u] = [run[u] EXCEPT !.phase = "failed"] /\ run[u].at = "plan"
    <3>1. "failed" \in Phases /\ "failed" \notin Named
      BY DEF Phases, RepoPhases, Named, Validating
    <3>2. /\ run'[u] \in RunRecs /\ run'[u].phase = "failed" /\ run'[u].at = "plan" /\ run'[u].report = run[u].report
          /\ run'[u].sha = run[u].sha /\ run'[u].facts = run[u].facts
      BY <2>t, <2>2, <3>1 DEF RunRecs
    <3> QED
      BY <2>t, <3>1, <3>2 DEF RunOK, Executing
  <2>3. CASE run'[u] = [run[u] EXCEPT !.phase = "clone"] /\ run[u].at = "check" /\ run[u].phase \in Validating
    <3>1. "clone" \in Phases /\ "clone" \notin Named
      BY DEF Phases, RepoPhases, Named, Validating
    <3>2. /\ run'[u] \in RunRecs /\ run'[u].phase = "clone" /\ run'[u].at = "check" /\ run'[u].report = run[u].report
          /\ run'[u].sha = run[u].sha /\ run'[u].facts = run[u].facts
      BY <2>t, <2>3, <3>1 DEF RunRecs
    <3> QED
      BY <2>t, <2>3, <3>1, <3>2 DEF RunOK, Executing, Validating
  <2> QED
    BY <1>3, <2>1, <2>2, <2>3
<1>5. run' \in [Units -> RunRecs]
  <2>1. DOMAIN run' = Units /\ run' = [u \in Units |-> run'[u]]
    BY DEF Restart
  <2> QED
    BY <1>4, <2>1
<1>6. Types'
  <2>1. sweep' \in Sweeps
    BY <1>1 DEF Sweeps
  <2> QED
    BY <1>t, <1>1, <1>2, <1>5, <2>1, SameTargets DEF Types, SpentOK
<1>7. RunsOK' /\ Owned' /\ Apart'
  BY <1>1, <1>4, SameTargets DEF RunsOK, Owned, Apart
<1>9. Tracked'
  BY <1>1 DEF Tracked, Cleared
<1>10. OneExecutes'
  BY <1>4 DEF IInv, OneExecutes
<1>11. FreshBuilds'
  <2>1. \A u \in Units : AttestedBuilds(u)' = AttestedBuilds(u)
    BY <1>1 DEF AttestedBuilds, Standing
  <2> QED
    BY <1>4, <2>1 DEF IInv, FreshBuilds
<1> QED
  BY <1>6, <1>7, <1>9, <1>10, <1>11 DEF IInv

\* A step that leaves the onboardings, the gate runs and the registrations alone.
LEMMA AsideStep ==
    ASSUME IInv, UNCHANGED <<world, run, job, books>>, head' \in [Units -> DOMAIN Content], sweep' \in Sweeps, SpentOK,
           spent'["faults"] = 0 => \A j \in Jobs : job[j].run # "none" /\ Cleared(j) => Cleared(j)'
    PROVE  IInv'
<1>t. Types
  BY DEF IInv
<1>1. Types'
  BY <1>t, SameTargets DEF Types, SpentOK
<1>2. RunsOK' /\ Owned' /\ Apart'
  BY SameTargets DEF IInv, RunsOK, Owned, Apart
<1>3. Tracked'
  BY DEF IInv, Tracked, SpentOK
<1>4. OneExecutes' /\ FreshBuilds'
  BY DEF IInv, OneExecutes, Executing, FreshBuilds, AttestedBuilds, Standing
<1> QED
  BY <1>1, <1>2, <1>3, <1>4 DEF IInv

LEMMA ReapOrphansKeeps == ASSUME IInv, reapOrphans PROVE IInv'
<1>t. head \in [Units -> DOMAIN Content] /\ sweep.state = "due" /\ UNCHANGED <<world, head, run, job, books>>
  BY DEF IInv, Types, reapOrphans
<1>1. CASE sweep' = [state |-> "done", todo |-> {j \in Jobs : job[j].run # "none"}, half |-> {}] /\ UNCHANGED spent
  <2>1. sweep' \in Sweeps /\ sweep'.todo = {j \in Jobs : job[j].run # "none"}
    BY <1>1 DEF Sweeps
  <2>2. SpentOK
    BY <1>1, CallFails
  <2>3. \A j \in Jobs : job[j].run # "none" => Cleared(j)'
    BY <2>1 DEF Cleared
  <2> QED
    BY <1>t, <2>1, <2>2, <2>3, AsideStep
<1>2. CASE Fails /\ sweep' = Rested /\ spent' = Failing
  <2>1. sweep' \in Sweeps
    BY <1>2 DEF Sweeps, Rested
  <2>2. SpentOK /\ spent'["faults"] # 0
    BY <1>2, CallFails
  <2> QED
    BY <1>t, <2>1, <2>2, AsideStep
<1> QED
  BY <1>1, <1>2 DEF reapOrphans

LEMMA PushKeeps == ASSUME IInv, NEW u \in Units, Push(u) PROVE IInv'
<1>t. head \in [Units -> DOMAIN Content] /\ sweep \in Sweeps /\ world \in DOMAIN Worlds
  BY DEF IInv, Types
<1>1. PICK sha \in W.pushed : head' = [head EXCEPT ![u] = sha] /\ UNCHANGED <<world, run, job, books, sweep>>
  BY DEF Push
<1>2. head' \in [Units -> DOMAIN Content]
  <2>1. sha \in DOMAIN Content
    BY <1>t, <1>1, WorldsAreTyped DEF W
  <2> QED
    BY <1>t, <1>1, <2>1
<1>3. SpentOK
  <2>1. "moves" \in Bounds
    BY DEF Bounds
  <2> QED
    BY <2>1, Spends DEF Push
<1> QED
  BY <1>t, <1>1, <1>2, <1>3, AsideStep DEF Cleared

LEMMA SyncKeeps == ASSUME IInv, UNCHANGED <<world, head, run, job, books, sweep, spent>> PROVE IInv'
<1>1. head' \in [Units -> DOMAIN Content] /\ sweep' \in Sweeps
  BY DEF IInv, Types
<1>2. SpentOK
  BY CallFails
<1> QED
  BY <1>1, <1>2, AsideStep DEF Cleared

LEMMA InitKeeps == Init => IInv
<1> SUFFICES ASSUME Init PROVE IInv
  OBVIOUS
<1>1. NoRun \in RunRecs
  BY DEF NoRun, RunRecs, Phases, RepoPhases
<1>2. NoObjects \in JobRecs
  BY DEF NoObjects, JobRecs
<1>3. Types
  <2>1. world \in DOMAIN Worlds /\ head \in [Units -> DOMAIN Content]
    BY WorldsAreTyped DEF Init, W
  <2>2. DOMAIN books = Units /\ \A u \in Units : books[u] = None \/ books[u].gated \in BOOLEAN
    BY WorldsAreTyped DEF Init, W
  <2>3. spent \in [Bounds -> Nat] /\ \A b \in Bounds : spent[b] <= W.most[b]
    BY WorldsAreBounded DEF Init, W
  <2> QED
    BY <1>1, <1>2, <2>1, <2>2, <2>3 DEF Init, Types, Sweeps, Rested
<1>4. \A u \in Units : run[u] = NoRun /\ run[u].phase = "idle" /\ run[u].at = "plan" /\ run[u].report = None
  BY DEF Init, NoRun
<1>5. "idle" \notin Named
  BY DEF Named, Validating
<1>6. RunsOK /\ Owned /\ Apart
  BY <1>4, <1>5 DEF RunsOK, RunOK, Owned, Apart
<1>7. \A j \in Jobs : job[j].run = "none" /\ ~job[j].secret
  BY DEF Init, NoObjects
<1>8. Tracked
  BY <1>7 DEF Tracked
<1>9. OneExecutes /\ FreshBuilds
  BY <1>4 DEF OneExecutes, Executing, FreshBuilds
<1> QED
  BY <1>3, <1>6, <1>8, <1>9 DEF IInv

\* Every step keeps it.
LEMMA INext == IInv /\ [Next]_vars => IInv'
<1> SUFFICES ASSUME IInv, [Next]_vars PROVE IInv'
  OBVIOUS
<1>1. ASSUME NEW u \in Units, validateOnboard(u) PROVE IInv'
  BY <1>1, CloneKeeps, CreateRunKeeps, CreateSecretKeeps, UndoKeeps, PollKeeps, ReapKeeps, ReapRunKeeps, ReadKeeps,
     ReceiveKeeps, JudgeNamesKeeps, JudgeBuildsKeeps DEF validateOnboard
<1>2. ASSUME NEW u \in Units, Ask(u) \/ Retry(u) \/ PlanSharing(u) \/ Start(u) \/ Register(u) \/ Push(u) \/ PlanUngated(u) \/ StartUngated(u)
      PROVE  IInv'
  BY <1>2, AskKeeps, PlanSharingKeeps, StartKeeps, RegisterKeeps, PushKeeps, UngatedKeeps
<1>3. ASSUME NEW j \in Jobs, Mount(j) \/ Publish(j) \/ Settle(j) \/ Collect(j) \/ SweepChildren(j) \/ SweepRun(j) PROVE IInv'
  BY <1>3, MountKeeps, PublishKeeps, SettleKeeps, CollectKeeps, SweepChildrenKeeps, SweepRunKeeps
<1>4. CASE Restart \/ reapOrphans
  BY <1>4, RestartKeeps, ReapOrphansKeeps
<1>5. CASE SyncWave \/ (\E u \in Units : SyncUnit(u)) \/ (\E m \in W.bundle.members : SyncTenant(m)) \/ UNCHANGED vars
  <2>1. UNCHANGED <<world, head, run, job, books, sweep, spent>>
    BY <1>5 DEF SyncWave, SyncUnit, SyncTenant, vars
  <2> QED
    BY <2>1, SyncKeeps
<1> QED
  BY <1>1, <1>2, <1>3, <1>4, <1>5 DEF Next

LEMMA IInvHolds == Spec => []IInv
<1> QED
  BY InitKeeps, INext, PTL DEF Spec

-----------------------------------------------------------------------------
\* Who still takes a gate run's Secret away.

Keeping == {"poll", "read", "reap", "cancel"}
Without == {"create-run", "create-secret", "undo", "reap-run", "cancel-run"}

\* A live validation does, on the way to its reap; or the sweep of the one restart so far, which finds
\* the Secret through the run beside it.
Guarded(j) ==
    \/ /\ \E u \in Units : run[u].job = j /\ run[u].phase \in Keeping
       /\ spent["restarts"] = 0 => job[j].run # "none"
    \/ spent["restarts"] = 1 /\ job[j].run # "none" /\ (sweep.state = "due" \/ j \in sweep.todo)

SweepOK ==
    /\ sweep.todo \cap sweep.half = {} /\ (sweep.state = "due" => sweep.todo = {} /\ sweep.half = {})
    /\ spent["restarts"] = 0 => sweep.state = "done" /\ sweep.todo = {} /\ sweep.half = {}
NoneYet ==
    spent["faults"] = 0 => \A u \in Units :
        /\ run[u].phase \in Without => ~job[run[u].job].secret
        /\ run[u].phase = "create-secret" /\ spent["restarts"] = 0 => job[run[u].job].run # "none"
SecretsGuarded == spent["faults"] = 0 /\ spent["restarts"] < 2 => \A j \in Jobs : job[j].secret => Guarded(j)
SInv == SweepOK /\ NoneYet /\ SecretsGuarded

\* A step of the validation of u, whose gate run's name is j: where it leaves a Secret it is on the way
\* to its reap, and the run of a Secret is deleted only by a sweep.
LEMMA OwnSecret ==
    ASSUME IInv, SInv, IInv', NEW u \in Units, NEW j \in Jobs, UNCHANGED sweep,
           spent'["restarts"] = spent["restarts"], spent'["faults"] = 0 => spent["faults"] = 0,
           run[u].phase \in Named => run[u].job = j, run'[u].phase \in Named => run'[u].job = j,
           \A v \in Units : v # u => run'[v] = run[v],
           \A v \in Units : v # u /\ run[v].phase \in Named => run[v].job # j,
           \A k \in Jobs : k # j => job'[k] = job[k],
           spent'["faults"] = 0 => (run'[u].phase \in Without => ~job'[j].secret),
           spent'["faults"] = 0 /\ spent["restarts"] = 0 => (run'[u].phase = "create-secret" => job'[j].run # "none"),
           spent'["faults"] = 0 /\ spent["restarts"] < 2 /\ job'[j].secret => Guarded(j)'
    PROVE  SInv'
<1>1. SweepOK'
  BY DEF SInv, SweepOK
<1>2. Keeping \subseteq Named /\ Without \subseteq Named /\ "create-secret" \in Without
  BY DEF Keeping, Without, Named, Validating
<1>3. NoneYet'
  BY <1>2 DEF SInv, NoneYet, IInv, RunsOK, RunOK
<1>4. SecretsGuarded'
  <2> SUFFICES ASSUME spent'["faults"] = 0, spent["restarts"] < 2, NEW k \in Jobs, job'[k].secret PROVE Guarded(k)'
    BY DEF SecretsGuarded
  <2>1. CASE k = j
    BY <2>1
  <2>2. CASE k # j
    <3>1. Guarded(k) /\ job'[k] = job[k]
      BY <2>2 DEF SInv, SecretsGuarded
    <3>2. \A v \in Units : run[v].job = k /\ run[v].phase \in Keeping => run'[v] = run[v]
      BY <1>2, <2>2
    <3> QED
      BY <3>1, <3>2 DEF Guarded
  <2> QED
    BY <2>1, <2>2
<1> QED
  BY <1>1, <1>3, <1>4 DEF SInv

LEMMA RunFacts ==
    ASSUME IInv, NEW u \in Units
    PROVE  /\ \A p : To(u, p) => /\ run'[u].phase = p /\ run'[u].job = run[u].job
                                 /\ \A v \in Units : v # u => run'[v] = run[v]
           /\ run' = Throws(u) => /\ run'[u].phase \in {"failed", "stopped"} /\ run'[u].phase \notin Named
                                  /\ \A v \in Units : v # u => run'[v] = run[v]
<1>1. run \in [Units -> RunRecs] /\ run[u] \in RunRecs
  BY DEF IInv, Types
<1>2. "failed" \notin Named /\ "stopped" \notin Named
  BY DEF Named, Validating
<1> QED
  BY <1>1, <1>2 DEF To, Throws, RunRecs

\* What a failed call, a death and a quiet step leave of the budget.
LEMMA Budget ==
    ASSUME IInv, spent' = spent \/ spent' = Failing \/ Dies
    PROVE  /\ spent'["restarts"] = spent["restarts"] /\ (spent'["faults"] = 0 => spent["faults"] = 0)
           /\ (spent' = Failing => spent'["faults"] # 0)
<1>1. spent \in [Bounds -> Nat] /\ {"faults", "deaths", "restarts"} \subseteq Bounds
  BY DEF IInv, Types, Bounds
<1> QED
  BY <1>1 DEF Failing, Dies

\* A validation's own name, which does not change.
LEMMA OwnJob ==
    ASSUME IInv, NEW u \in Units, run[u].phase \in Named
    PROVE  \E j \in Jobs : run[u].job = j /\ \A v \in Units : v # u /\ run[v].phase \in Named => run[v].job # j
BY OwnName

\* The calls of a validation that change no object.
LEMMA QuietSecret ==
    ASSUME IInv, SInv, IInv', NEW u \in Units, run[u].phase \in Named, UNCHANGED <<job, sweep>>,
           spent' = spent \/ spent' = Failing, run'[u].phase \in Named => run'[u].job = run[u].job,
           \A v \in Units : v # u => run'[v] = run[v],
           run'[u].phase \notin Without, run[u].phase \in Keeping => run'[u].phase \in Keeping
    PROVE  SInv'
<1>1. PICK j \in Jobs : run[u].job = j /\ \A v \in Units : v # u /\ run[v].phase \in Named => run[v].job # j
  BY OwnJob
<1>2. spent'["restarts"] = spent["restarts"] /\ (spent'["faults"] = 0 => spent["faults"] = 0)
  BY Budget
<1>3. Keeping \subseteq Named /\ "create-secret" \in Without
  BY DEF Keeping, Named, Validating, Without
<1>4. spent'["faults"] = 0 /\ spent["restarts"] < 2 /\ job'[j].secret => Guarded(j)'
  <2> SUFFICES ASSUME spent'["faults"] = 0, spent["restarts"] < 2, job'[j].secret PROVE Guarded(j)'
    OBVIOUS
  <2>1. Guarded(j)
    BY <1>2 DEF SInv, SecretsGuarded
  <2>2. \A v \in Units : run[v].job = j /\ run[v].phase \in Keeping => run'[v].job = j /\ run'[v].phase \in Keeping
    BY <1>1, <1>3
  <2> QED
    BY <1>2, <2>1, <2>2 DEF Guarded
<1> QED
  BY <1>1, <1>2, <1>3, <1>4, OwnSecret

\* The steps of an onboarding that has no gate run, before it and after it.
LEMMA IdleSecret ==
    ASSUME IInv, SInv, NEW u \in Units, run[u].phase \notin Named, run'[u].phase \notin Named, UNCHANGED <<job, sweep>>,
           spent' = spent \/ spent' = Failing, \A v \in Units : v # u => run'[v] = run[v]
    PROVE  SInv'
<1>1. spent'["restarts"] = spent["restarts"] /\ (spent'["faults"] = 0 => spent["faults"] = 0)
  BY Budget
<1>2. Keeping \subseteq Named /\ Without \subseteq Named /\ "create-secret" \in Without
  BY DEF Keeping, Without, Named, Validating
<1>3. SweepOK' /\ NoneYet'
  BY <1>1, <1>2 DEF SInv, SweepOK, NoneYet
<1>4. SecretsGuarded'
  <2> SUFFICES ASSUME spent'["faults"] = 0, spent["restarts"] < 2, NEW k \in Jobs, job'[k].secret PROVE Guarded(k)'
    BY <1>1 DEF SecretsGuarded
  <2>1. Guarded(k)
    BY <1>1 DEF SInv, SecretsGuarded
  <2>2. \A v \in Units : run[v].job = k /\ run[v].phase \in Keeping => run'[v] = run[v]
    BY <1>2
  <2> QED
    BY <1>1, <2>1, <2>2 DEF Guarded
<1> QED
  BY <1>3, <1>4 DEF SInv

LEMMA CloneSecret == ASSUME IInv, SInv, IInv', NEW u \in Units, Clone(u) PROVE SInv'
<1>t. run \in [Units -> RunRecs] /\ run[u] \in RunRecs /\ job \in [Jobs -> JobRecs]
  BY DEF IInv, Types
<1>n. run[u].phase = "clone" /\ run[u].phase \notin Named /\ UNCHANGED sweep
  BY DEF Clone, Named, Validating
<1>1. PICK j : j = Min(FreeJobs(u))
  OBVIOUS
<1>j. j \in Jobs /\ \A v \in Units : v # u /\ run[v].phase \in Named => run[v].job # j
  <2>1. FreeJobs(u) # {}
    BY DEF Clone
  <2>2. FreeJobs(u) \subseteq Jobs /\ Jobs \subseteq Nat
    BY WorldsAreBounded DEF FreeJobs, Jobs
  <2>3. j \in FreeJobs(u)
    BY <1>1, <2>1, <2>2, MinIn
  <2> QED
    BY <2>3 DEF FreeJobs, Named
<1>2. CASE /\ run' = [run EXCEPT ![u].phase = "create-run", ![u].sha = head[u], ![u].job = j, ![u].report = None]
           /\ job' = [job EXCEPT ![j] = NoObjects] /\ UNCHANGED spent
  <2>1. /\ run'[u].phase = "create-run" /\ run'[u].job = j /\ (\A v \in Units : v # u => run'[v] = run[v])
        /\ ~job'[j].secret /\ \A k \in Jobs : k # j => job'[k] = job[k]
    BY <1>2, <1>t, <1>j DEF RunRecs, NoObjects
  <2> QED
    BY <1>2, <1>n, <1>j, <2>1, OwnSecret
<1>3. CASE Fails /\ run' = Throws(u) /\ spent' = Failing /\ UNCHANGED job
  BY <1>3, <1>n, RunFacts, IdleSecret
<1> QED
  BY <1>1, <1>2, <1>3 DEF Clone

LEMMA CreateRunSecret == ASSUME IInv, SInv, IInv', NEW u \in Units, createPipelineRun(u) PROVE SInv'
<1>n. run[u].phase = "create-run" /\ run[u].phase \in Named /\ UNCHANGED sweep /\ run[u].phase \in Without
  BY DEF createPipelineRun, Named, Validating, Without
<1>1. PICK j \in Jobs : run[u].job = j /\ \A v \in Units : v # u /\ run[v].phase \in Named => run[v].job # j
  BY <1>n, OwnJob
<1>2. /\ spent' = spent \/ spent' = Failing
      /\ \A k \in Jobs : job'[k].secret = job[k].secret /\ (k # j => job'[k] = job[k])
      /\ To(u, "create-secret") \/ (run' = Throws(u) /\ spent' = Failing)
      /\ spent' = spent \/ spent'["faults"] # 0
      /\ spent' # Failing => job'[j].run = "created"
  BY <1>1, Budget DEF createPipelineRun, IInv, Types, JobRecs
<1>3. spent'["faults"] = 0 => ~job'[j].secret
  BY <1>n, <1>1, <1>2, Budget DEF SInv, NoneYet
<1>4. (\A v \in Units : v # u => run'[v] = run[v]) /\ (run'[u].phase \in Named => run'[u].job = j)
  BY <1>1, <1>2, RunFacts
<1> QED
  BY <1>n, <1>1, <1>2, <1>3, <1>4, Budget, OwnSecret

LEMMA CreateSecretSecret == ASSUME IInv, SInv, IInv', NEW u \in Units, createSecret(u) PROVE SInv'
<1>n. run[u].phase = "create-secret" /\ run[u].phase \in Named /\ UNCHANGED sweep
  BY DEF createSecret, Named, Validating
<1>1. PICK j \in Jobs : run[u].job = j /\ \A v \in Units : v # u /\ run[v].phase \in Named => run[v].job # j
  BY <1>n, OwnJob
<1>t. job \in [Jobs -> JobRecs] /\ job[j] \in JobRecs
  BY DEF IInv, Types
<1>2. /\ spent' = spent \/ spent' = Failing
      /\ \A k \in Jobs : job'[k].run = job[k].run /\ (k # j => job'[k] = job[k])
      /\ (To(u, "poll") /\ spent' = spent) \/ (To(u, "undo") /\ spent' = Failing)
  BY <1>1, <1>t DEF createSecret, JobRecs
<1>3. (\A v \in Units : v # u => run'[v] = run[v]) /\ run'[u].job = j
  BY <1>1, <1>2, RunFacts
<1>4. spent'["faults"] = 0 => spent' = spent /\ run'[u].phase = "poll"
  BY <1>2, RunFacts, Budget
<1>5. spent["restarts"] = 0 /\ spent["faults"] = 0 => job[j].run # "none"
  BY <1>n, <1>1 DEF SInv, NoneYet
<1>6. spent'["faults"] = 0 /\ spent["restarts"] < 2 /\ job'[j].secret => Guarded(j)'
  BY <1>2, <1>3, <1>4, <1>5, Budget DEF Guarded, Keeping
<1>7. "poll" \notin Without /\ "poll" # "create-secret"
  BY DEF Without
<1> QED
  BY <1>n, <1>1, <1>2, <1>3, <1>4, <1>6, <1>7, Budget, OwnSecret

LEMMA ReapSecret == ASSUME IInv, SInv, IInv', NEW u \in Units, Reap(u) PROVE SInv'
<1>n. run[u].phase \in Named /\ UNCHANGED sweep
  BY DEF Reap, Named, Validating
<1>1. PICK j \in Jobs : run[u].job = j /\ \A v \in Units : v # u /\ run[v].phase \in Named => run[v].job # j
  BY <1>n, OwnJob
<1>t. job \in [Jobs -> JobRecs] /\ job[j] \in JobRecs
  BY DEF IInv, Types
<1>2. /\ spent' = spent \/ spent' = Failing
      /\ \A k \in Jobs : k # j => job'[k] = job[k]
      /\ spent' # Failing => ~job'[j].secret
      /\ To(u, "reap-run") \/ To(u, "cancel-run")
  BY <1>1, <1>t DEF Reap, deleteChildren, JobRecs
<1>3. (\A v \in Units : v # u => run'[v] = run[v]) /\ run'[u].job = j /\ run'[u].phase \in {"reap-run", "cancel-run"}
  BY <1>1, <1>2, RunFacts
<1> QED
  BY <1>n, <1>1, <1>2, <1>3, Budget, OwnSecret

LEMMA DeleteRunSecret == ASSUME IInv, SInv, IInv', NEW u \in Units, UndoSubmit(u) \/ ReapRun(u) PROVE SInv'
<1>n. run[u].phase \in Named /\ UNCHANGED sweep /\ run[u].phase \in Without
  BY DEF UndoSubmit, ReapRun, Named, Validating, Without
<1>1. PICK j \in Jobs : run[u].job = j /\ \A v \in Units : v # u /\ run[v].phase \in Named => run[v].job # j
  BY <1>n, OwnJob
<1>t. job \in [Jobs -> JobRecs] /\ job[j] \in JobRecs
  BY DEF IInv, Types
<1>2. /\ spent' = spent \/ spent' = Failing
      /\ \A k \in Jobs : job'[k].secret = job[k].secret /\ (k # j => job'[k] = job[k])
      /\ To(u, "received") \/ run' = Throws(u)
  BY <1>1, <1>t DEF UndoSubmit, ReapRun, deletePipelineRun, RunDeleted, JobRecs, To
<1>3. spent'["faults"] = 0 => ~job'[j].secret
  BY <1>n, <1>1, <1>2, Budget DEF SInv, NoneYet
<1>4. /\ \A v \in Units : v # u => run'[v] = run[v]
      /\ (run'[u].phase \in Named => run'[u].job = j) /\ run'[u].phase \in {"received", "failed", "stopped"}
  BY <1>1, <1>2, RunFacts
<1> QED
  BY <1>n, <1>1, <1>2, <1>3, <1>4, Budget, OwnSecret

\* What a validation's phase and report become where it judges: its name stays.
LEMMA JudgingFacts ==
    ASSUME IInv, NEW u \in Units, NEW p, NEW r, run' = [run EXCEPT ![u].phase = p, ![u].report = r]
    PROVE  run'[u].phase = p /\ run'[u].job = run[u].job /\ \A v \in Units : v # u => run'[v] = run[v]
<1>1. run \in [Units -> RunRecs] /\ run[u] \in RunRecs
  BY DEF IInv, Types
<1> QED
  BY <1>1 DEF RunRecs

LEMMA WaitSecret == ASSUME IInv, SInv, IInv', NEW u \in Units, Poll(u) \/ pollToDone(u) \/ readReportConfigMap(u) \/ Receive(u) PROVE SInv'
<1>n. run[u].phase \in {"poll", "read", "received"} /\ run[u].phase \in Named /\ UNCHANGED <<sweep, job>> /\ (spent' = spent \/ spent' = Failing)
  BY DEF Poll, pollToDone, readReportConfigMap, Receive, Named, Validating
<1>1. /\ run'[u].job = run[u].job /\ \A v \in Units : v # u => run'[v] = run[v]
      /\ run'[u].phase \in {"cancel", "read", "reap", "names"} /\ (run[u].phase # "received" => run'[u].phase # "names")
  <2>1. CASE Poll(u) \/ pollToDone(u)
    <3>1. run[u].phase = "poll" /\ (To(u, "cancel") \/ To(u, "read"))
      BY <2>1 DEF Poll, pollToDone
    <3> QED
      BY <3>1, RunFacts
  <2>2. CASE readReportConfigMap(u)
    <3>1. To(u, "cancel") \/ \E r : run' = [run EXCEPT ![u].phase = "reap", ![u].report = r]
      BY <2>2 DEF readReportConfigMap
    <3> QED
      BY <3>1, RunFacts, JudgingFacts
  <2>3. CASE Receive(u)
    <3>1. run[u].phase = "received" /\ (To(u, "cancel") \/ To(u, "names"))
      BY <2>3 DEF Receive
    <3> QED
      BY <3>1, RunFacts
  <2> QED
    BY <2>1, <2>2, <2>3
<1>2. run'[u].phase \notin Without /\ (run[u].phase \in Keeping => run'[u].phase \in Keeping)
  BY <1>n, <1>1 DEF Without, Keeping
<1> QED
  BY <1>n, <1>1, <1>2, QuietSecret

LEMMA JudgeSecret == ASSUME IInv, SInv, IInv', NEW u \in Units, JudgeNames(u) \/ JudgeBuilds(u) PROVE SInv'
<1>n. /\ run[u].phase \in {"names", "builds"} /\ run[u].phase \in Named /\ run[u].phase \notin Keeping
      /\ UNCHANGED <<sweep, job>> /\ spent' = spent
  BY DEF JudgeNames, JudgeBuilds, Named, Validating, Keeping
<1>1. PICK p, r : /\ p \in {"builds", "rejected", "stopped", "sharing", "checked"}
                 /\ run' = [run EXCEPT ![u].phase = p, ![u].report = r]
  BY DEF JudgeNames, JudgeBuilds, Refuse
<1>2. /\ run'[u].job = run[u].job /\ \A v \in Units : v # u => run'[v] = run[v]
      /\ run'[u].phase \in {"builds", "rejected", "stopped", "sharing", "checked"}
  BY <1>1, JudgingFacts
<1>3. run'[u].phase \notin Without
  BY <1>2 DEF Without
<1> QED
  BY <1>n, <1>2, <1>3, QuietSecret

\* The onboarding's own steps, which have no gate run.
LEMMA OnboardingSecret ==
    ASSUME IInv, SInv, NEW u \in Units,
           Ask(u) \/ Retry(u) \/ PlanSharing(u) \/ Start(u) \/ Register(u) \/ Push(u) \/ PlanUngated(u) \/ StartUngated(u)
    PROVE  SInv'
<1>t. run \in [Units -> RunRecs] /\ run[u] \in RunRecs
  BY DEF IInv, Types
<1>1. CASE Push(u)
  <2>1. UNCHANGED <<run, job, sweep>> /\ spent'["restarts"] = spent["restarts"] /\ spent'["faults"] = spent["faults"]
    BY <1>1 DEF Push, IInv, Types, Bounds
  <2> QED
    BY <2>1 DEF SInv, SweepOK, NoneYet, SecretsGuarded, Guarded
<1>2. CASE Ask(u) \/ Retry(u) \/ PlanSharing(u) \/ Start(u) \/ Register(u) \/ PlanUngated(u) \/ StartUngated(u)
  <2>1. UNCHANGED <<job, sweep, spent>> /\ run[u].phase \notin Named
    BY <1>2 DEF Ask, Retry, PlanSharing, Start, Register, PlanUngated, StartUngated, Named, Validating
  <2>2. /\ \A v \in Units : v # u => run'[v] = run[v]
        /\ run'[u].phase \in {"clone", "failed", "rejected", "planned", "registered", "ungated", "checked"}
    <3>1. CASE Ask(u) \/ Retry(u) \/ Register(u)
      <4>1. To(u, "clone") \/ To(u, "failed") \/ To(u, "registered")
        BY <3>1 DEF Ask, Retry, Register
      <4> QED
        BY <4>1, RunFacts
    <3>2. CASE Start(u) \/ StartUngated(u)
      BY <1>t, <3>2 DEF Start, StartUngated, RunRecs
    <3>3. CASE PlanSharing(u)
      <4>1. PICK p \in {"rejected", "planned"} :
                run' = [run EXCEPT ![u].phase = p, ![u].facts = Facts(Content[run[u].sha])]
        BY <3>3 DEF PlanSharing
      <4> QED
        BY <1>t, <4>1 DEF RunRecs
    <3>4. CASE PlanUngated(u)
      <4>1. PICK h, g : run' = [run EXCEPT ![u].phase = "ungated", ![u].sha = h, ![u].facts = g]
        BY <3>4 DEF PlanUngated
      <4> QED
        BY <1>t, <4>1 DEF RunRecs
    <3> QED
      BY <1>2, <3>1, <3>2, <3>3, <3>4
  <2>3. run'[u].phase \notin Named
    BY <2>2 DEF Named, Validating
  <2> QED
    BY <2>1, <2>2, <2>3, IdleSecret
<1> QED
  BY <1>1, <1>2

\* The sandbox keeps the run and its Secret; the cluster takes a Secret that has none.
LEMMA SandboxSecret == ASSUME IInv, SInv, NEW j \in Jobs, Mount(j) \/ Publish(j) \/ Settle(j) \/ Collect(j) PROVE SInv'
<1>t. job \in [Jobs -> JobRecs] /\ job[j] \in JobRecs
  BY DEF IInv, Types
<1>1. /\ UNCHANGED <<run, sweep>>
      /\ \A k \in Jobs : /\ job'[k].secret => job[k].secret
                         /\ job[k].run # "none" => job'[k].run # "none"
  <2>1. CASE Mount(j)
    BY <1>t, <2>1 DEF Mount, JobRecs
  <2>2. CASE Publish(j)
    <3>1. PICK c, r : job' = [job EXCEPT ![j].run = "judged", ![j].cm = c, ![j].report = r]
      BY <2>2 DEF Publish
    <3> QED
      BY <1>t, <2>2, <3>1 DEF Publish, JobRecs
  <2>3. CASE Settle(j)
    BY <1>t, <2>3 DEF Settle, JobRecs
  <2>4. CASE Collect(j)
    BY <1>t, <2>4 DEF Collect, JobRecs
  <2> QED
    BY <2>1, <2>2, <2>3, <2>4
<1>2. spent'["restarts"] = spent["restarts"] /\ (spent'["faults"] = 0 => spent["faults"] = 0)
  <2>1. spent' = spent \/ Dies
    BY DEF Mount, Publish, Settle, Collect
  <2> QED
    BY <2>1, Budget
<1>j. \A u \in Units : run[u].phase = "create-secret" \/ run[u].phase \in Without => run[u].job \in Jobs
  BY DEF IInv, RunsOK, RunOK, Named, Validating, Without
<1>3. SweepOK' /\ NoneYet'
  BY <1>1, <1>2, <1>j DEF SInv, SweepOK, NoneYet
<1>4. SecretsGuarded'
  BY <1>1, <1>2 DEF SInv, SecretsGuarded, Guarded
<1> QED
  BY <1>3, <1>4 DEF SInv

LEMMA SweepSecret == ASSUME IInv, SInv, NEW j \in Jobs, SweepChildren(j) \/ SweepRun(j) PROVE SInv'
<1>t. job \in [Jobs -> JobRecs] /\ job[j] \in JobRecs /\ sweep \in Sweeps
  BY DEF IInv, Types
<1>b. spent'["restarts"] = spent["restarts"] /\ (spent'["faults"] = 0 => spent["faults"] = 0 /\ spent' # Failing)
  <2>1. spent' = spent \/ spent' = Failing
    BY DEF SweepChildren, SweepRun, deleteChildren, deletePipelineRun
  <2> QED
    BY <2>1, Budget
<1>r. UNCHANGED run /\ spent["restarts"] # 0
  BY DEF SweepChildren, SweepRun, SInv, SweepOK
<1>j. \A u \in Units : run[u].phase \in Without => run[u].job \in Jobs
  BY DEF IInv, RunsOK, RunOK, Named, Validating, Without
<1>1. CASE SweepChildren(j)
  <2>1. /\ j \in sweep.todo /\ sweep'.state = sweep.state /\ sweep'.todo = sweep.todo \ {j} /\ sweep'.half = sweep.half \cup {j}
        /\ \A k \in Jobs : /\ job'[k].secret => job[k].secret
                           /\ job'[k].run = job[k].run
                           /\ k = j /\ spent' # Failing => ~job'[k].secret
    BY <1>1, <1>t DEF SweepChildren, deleteChildren, Sweeps, JobRecs
  <2>2. SweepOK' /\ NoneYet'
    BY <1>b, <1>r, <1>j, <2>1 DEF SInv, SweepOK, NoneYet
  <2>3. SecretsGuarded'
    BY <1>b, <1>r, <2>1 DEF SInv, SecretsGuarded, Guarded
  <2> QED
    BY <2>2, <2>3 DEF SInv
<1>2. CASE SweepRun(j)
  <2>1. /\ j \in sweep.half /\ sweep'.state = sweep.state /\ sweep'.todo = sweep.todo /\ sweep'.half = sweep.half \ {j}
        /\ \A k \in Jobs : job'[k].secret = job[k].secret /\ (k # j => job'[k] = job[k])
    BY <1>2, <1>t DEF SweepRun, deletePipelineRun, RunDeleted, Sweeps, JobRecs
  <2>2. SweepOK' /\ NoneYet'
    BY <1>b, <1>r, <1>j, <2>1 DEF SInv, SweepOK, NoneYet
  <2>3. j \notin sweep.todo /\ sweep.state # "due"
    BY <2>1 DEF SInv, SweepOK
  <2>4. SecretsGuarded'
    BY <1>b, <1>r, <2>1, <2>3 DEF SInv, SecretsGuarded, Guarded
  <2> QED
    BY <2>2, <2>4 DEF SInv
<1> QED
  BY <1>1, <1>2

\* The next process: before its first restart every Secret had its run beside it.
LEMMA BootSecret == ASSUME IInv, SInv, Restart \/ reapOrphans PROVE SInv'
<1>t. spent \in [Bounds -> Nat] /\ {"faults", "restarts"} \subseteq Bounds
  BY DEF IInv, Types, Bounds
<1>w. Keeping \subseteq Validating /\ Without \subseteq Validating /\ "create-secret" \in Validating
      /\ {"failed", "clone"} \cap (Keeping \cup Without) = {}
  BY DEF Keeping, Without, Validating
<1>1. CASE Restart
  <2>1. /\ UNCHANGED job /\ sweep'.state = "due" /\ sweep'.todo = {} /\ sweep'.half = {}
        /\ spent'["restarts"] = spent["restarts"] + 1 /\ spent'["faults"] = spent["faults"]
    BY <1>1, <1>t DEF Restart, Rested
  <2>2. \A u \in Units : run'[u].phase \notin Keeping \cup Without
    <3> SUFFICES ASSUME NEW u \in Units PROVE run'[u].phase \notin Keeping \cup Without
      OBVIOUS
    <3>1. run[u] \in RunRecs /\ run[u].at \in {"plan", "check"}
      BY DEF IInv, Types, RunRecs
    <3>2. run'[u] = CASE run[u].phase \in Validating \cup {"sharing"} /\ run[u].at = "plan" -> [run[u] EXCEPT !.phase = "failed"]
                      [] run[u].phase \in Validating /\ run[u].at = "check" -> [run[u] EXCEPT !.phase = "clone"]
                      [] OTHER -> run[u]
      BY <1>1 DEF Restart
    <3>3. run'[u].phase \in {"failed", "clone"} \/ run'[u].phase \notin Validating
      BY <3>1, <3>2 DEF RunRecs
    <3> QED
      BY <1>w, <3>3
  <2>3. SweepOK' /\ NoneYet'
    BY <1>t, <2>1, <2>2 DEF SweepOK, NoneYet, Without
  <2>4. SecretsGuarded'
    <3> SUFFICES ASSUME spent'["faults"] = 0, spent'["restarts"] < 2, NEW k \in Jobs, job'[k].secret PROVE Guarded(k)'
      BY DEF SecretsGuarded
    <3>1. spent["restarts"] = 0 /\ Guarded(k)
      BY <1>t, <2>1 DEF SInv, SecretsGuarded
    <3> QED
      BY <2>1, <3>1 DEF Guarded
  <2> QED
    BY <2>3, <2>4 DEF SInv
<1>2. CASE reapOrphans
  <2>1. /\ UNCHANGED <<job, run>> /\ sweep.state = "due" /\ (spent' = spent \/ spent' = Failing)
        /\ sweep'.half = {} /\ sweep'.state = "done" /\ (spent' # Failing => sweep'.todo = {k \in Jobs : job[k].run # "none"})
    BY <1>2 DEF reapOrphans, Rested
  <2>2. spent'["restarts"] = spent["restarts"] /\ (spent'["faults"] = 0 => spent["faults"] = 0 /\ spent' # Failing)
    BY <2>1, Budget
  <2>3. SweepOK' /\ NoneYet'
    BY <2>1, <2>2 DEF SInv, SweepOK, NoneYet
  <2>4. SecretsGuarded'
    BY <2>1, <2>2 DEF SInv, SecretsGuarded, Guarded
  <2> QED
    BY <2>3, <2>4 DEF SInv
<1> QED
  BY <1>1, <1>2

LEMMA SNext == IInv /\ SInv /\ IInv' /\ [Next]_vars => SInv'
<1> SUFFICES ASSUME IInv, SInv, IInv', [Next]_vars PROVE SInv'
  OBVIOUS
<1>1. ASSUME NEW u \in Units, validateOnboard(u) PROVE SInv'
  BY <1>1, CloneSecret, CreateRunSecret, CreateSecretSecret, ReapSecret, DeleteRunSecret, WaitSecret, JudgeSecret DEF validateOnboard
<1>2. ASSUME NEW u \in Units, Ask(u) \/ Retry(u) \/ PlanSharing(u) \/ Start(u) \/ Register(u) \/ Push(u) \/ PlanUngated(u) \/ StartUngated(u)
      PROVE  SInv'
  BY <1>2, OnboardingSecret
<1>3. ASSUME NEW j \in Jobs, Mount(j) \/ Publish(j) \/ Settle(j) \/ Collect(j) \/ SweepChildren(j) \/ SweepRun(j) PROVE SInv'
  BY <1>3, SandboxSecret, SweepSecret
<1>4. CASE Restart \/ reapOrphans
  BY <1>4, BootSecret
<1>5. CASE SyncWave \/ (\E u \in Units : SyncUnit(u)) \/ (\E m \in W.bundle.members : SyncTenant(m)) \/ UNCHANGED vars
  <2>1. UNCHANGED <<run, job, sweep, spent>>
    BY <1>5 DEF SyncWave, SyncUnit, SyncTenant, vars
  <2> QED
    BY <2>1 DEF SInv, SweepOK, NoneYet, SecretsGuarded, Guarded
<1> QED
  BY <1>1, <1>2, <1>3, <1>4, <1>5 DEF Next

LEMMA SInit == Init => SInv
<1> SUFFICES ASSUME Init PROVE SInv
  OBVIOUS
<1>1. \A j \in Jobs : ~job[j].secret
  BY DEF Init, NoObjects
<1>2. \A u \in Units : run[u].phase = "idle"
  BY DEF Init, NoRun
<1>3. sweep.state = "done" /\ sweep.todo = {} /\ sweep.half = {}
  BY DEF Init, Rested
<1> QED
  BY <1>1, <1>2, <1>3 DEF SInv, SweepOK, NoneYet, SecretsGuarded, Without

LEMMA SInvHolds == Spec => []SInv
<1> QED
  BY IInvHolds, SInit, SNext, PTL DEF Spec

\* In what any step of any validation reaches, no unit is past a gate that never judged it, and no
\* credential stands that neither a validation nor a sweep takes away.
LEMMA IInvSays == IInv /\ SInv => ValidationInv
<1> SUFFICES ASSUME IInv, SInv PROVE ValidationInv
  OBVIOUS
<1>t. Types
  BY DEF IInv
<1>1. ASSUME NEW u \in Units
      PROVE  /\ run[u].phase \in Validating \cup RepoPhases /\ run[u].at \in {"plan", "check"}
             /\ run[u].job \in Jobs \cup {0}
             /\ run[u].report = None \/ IsReport(run[u].report)
             /\ books[u] = None \/ books[u].gated \in BOOLEAN
  <2>1. run[u] \in RunRecs
    BY <1>t DEF Types
  <2>2. \A r \in Reports : IsReport(r)
    BY DEF Reports, IsReport
  <2> QED
    BY <1>t, <2>1, <2>2 DEF RunRecs, Phases, Types
<1>2. ASSUME NEW j \in Jobs
      PROVE  /\ job[j].run \in Unsettled \cup {"none", "settled"}
             /\ job[j].secret \in BOOLEAN /\ job[j].cm \in {"absent", "report", "incomplete"}
  BY <1>t DEF Types, JobRecs
<1>3. sweep.todo \cup sweep.half \subseteq Jobs
  BY <1>t DEF Types, Sweeps
<1>4. \A b \in Bounds : spent[b] \in 0 .. W.most[b]
  BY <1>t, WorldsAreBounded DEF Types, W
<1>5. TypeOK
  BY <1>1, <1>2, <1>3, <1>4 DEF TypeOK
<1>6. NothingPassesUnjudged
  BY DEF IInv, RunsOK, RunOK, JudgedOf, NothingPassesUnjudged
<1>7. CredentialsGo
  <2> SUFFICES ASSUME spent.faults = 0, sweep = Rested, \A u \in Units : run[u].phase \notin Validating, NEW j \in Jobs
               PROVE  job[j].run = "none" /\ (spent.restarts < 2 => ~job[j].secret)
    BY DEF CredentialsGo
  <2>1. ~Cleared(j)
    BY DEF Cleared, Rested, Deleting, Validating
  <2>2. ~Guarded(j)
    BY DEF Guarded, Rested, Keeping, Validating
  <2> QED
    BY <2>1, <2>2 DEF IInv, Tracked, SInv, SecretsGuarded
<1> QED
  BY <1>5, <1>6, <1>7 DEF IInv, ValidationInv

\* Whatever calls fail, gate runs die, heads move and processes restart, no unit is planned or
\* registered past a gate that never judged it; and where no call to the cluster failed, once validations
\* and sweeps rest no gate run is left, and no repository credential unless the process restarted twice
\* (validate.ts, gate-runner-tekton.ts, onboard-check.ts).
THEOREM AdmissionIsJudged == Spec => []ValidationInv
<1> QED
  BY IInvHolds, SInvHolds, IInvSays, PTL

-----------------------------------------------------------------------------
\* What a registering step admits.

AdmitsJudged ==
    \A u \in Units : Registered(u) /\ books'[u].gated =>
        LET judged == Content[run[u].sha] IN
        /\ books'[u].builds = judged.builds
        /\ T(u).chartPath => books'[u].secrets = judged.secrets /\ books'[u].claim.databases = judged.claim.databases
AdmitsNew == \A u \in Units : Registered(u) /\ books'[u].gated => books'[u].builds \cap AttestedBuilds(u) = {}

LEMMA RegisterAdmits == ASSUME IInv, NEW u \in Units, Register(u) PROVE AdmitsJudged /\ AdmitsNew
<1> DEFINE g == run[u].report # None
           b == Registration(run[u].facts, T(u).stage, g)
<1>1. run[u].phase = "checked" /\ books' = [books EXCEPT ![u] = b]
  BY DEF Register
<1>2. b.gated = g /\ b.builds = run[u].facts.builds /\ b.secrets = run[u].facts.secrets /\ b.claim = run[u].facts.claim
  BY DEF Registration
<1>3. g => ~Drifted(run[u].facts, Content[run[u].sha], T(u).chartPath) /\ run[u].facts.builds \cap AttestedBuilds(u) = {}
  BY <1>1 DEF IInv, RunsOK, RunOK, FreshBuilds
<1> HIDE DEF b, g
<1>4. books'[u] = b /\ \A v \in Units : v # u => books'[v] = books[v]
  BY <1>1 DEF IInv, Types
<1>5. \A v \in Units : Registered(v) => v = u
  BY <1>4 DEF Registered
<1> QED
  BY <1>2, <1>3, <1>4, <1>5 DEF AdmitsJudged, AdmitsNew, Drifted

LEMMA StepAdmits == IInv /\ [Next]_vars => [AdmitsJudged /\ AdmitsNew]_vars
<1> SUFFICES ASSUME IInv, [Next]_vars PROVE (AdmitsJudged /\ AdmitsNew) \/ UNCHANGED vars
  OBVIOUS
<1>1. ASSUME NEW u \in Units, Register(u) PROVE AdmitsJudged /\ AdmitsNew
  BY <1>1, RegisterAdmits
<1>2. books' = books \/ \E u \in Units : Register(u)
  <2>1. ASSUME NEW u \in Units, validateOnboard(u) PROVE books' = books
    BY <2>1 DEF validateOnboard, Clone, createPipelineRun, createSecret, UndoSubmit, Poll, pollToDone, readReportConfigMap,
                Reap, ReapRun, Receive, JudgeNames, JudgeBuilds
  <2>2. ASSUME NEW u \in Units, Ask(u) \/ PlanSharing(u) \/ Start(u) \/ Retry(u) \/ Push(u) \/ PlanUngated(u) \/ StartUngated(u) \/ SyncUnit(u)
        PROVE  books' = books
    BY <2>2 DEF Ask, PlanSharing, Start, Retry, Push, PlanUngated, StartUngated, SyncUnit
  <2>3. ASSUME NEW j \in Jobs, Mount(j) \/ Publish(j) \/ Settle(j) \/ Collect(j) \/ SweepChildren(j) \/ SweepRun(j) PROVE books' = books
    BY <2>3 DEF Mount, Publish, Settle, Collect, SweepChildren, SweepRun
  <2>4. Restart \/ reapOrphans \/ SyncWave \/ (\E m \in W.bundle.members : SyncTenant(m)) \/ UNCHANGED vars => books' = books
    BY DEF Restart, reapOrphans, SyncWave, SyncTenant, vars
  <2> QED
    BY <2>1, <2>2, <2>3, <2>4 DEF Next
<1>3. CASE books' = books
  BY <1>3 DEF AdmitsJudged, AdmitsNew, Registered
<1> QED
  BY <1>1, <1>2, <1>3

-----------------------------------------------------------------------------
\* Argo CD's sync of what was admitted.

\* A finite family of integers has a lowest one.
LEMMA Lowest ==
    ASSUME NEW D, IsFiniteSet(D), D # {}, NEW w \in [D -> Int]
    PROVE  \E i \in D : \A k \in D : w[i] <= w[k]
<1> DEFINE n == Cardinality(D)
<1>1. n \in Nat /\ ExistsBijection(1 .. n, D)
  BY FS_CardinalityType
<1> HIDE DEF n
<1>2. PICK f : f \in [1 .. n -> D] /\ \A t \in D : \E s \in 1 .. n : f[s] = t
  BY <1>1 DEF ExistsBijection, Bijection, Surjection
<1> DEFINE Ok(k) == \E i \in 1 .. k : \A m \in 1 .. k : w[f[i]] <= w[f[m]]
           B == {k \in 1 .. n : ~Ok(k)}
<1>3. \A k \in 1 .. n : w[f[k]] \in Int
  BY <1>2
<1>4. n >= 1
  BY <1>1, <1>2
<1>b. \A y : y \in B <=> y \in 1 .. n /\ ~Ok(y)
  OBVIOUS
<1> HIDE DEF B
<1>5. ASSUME B # {} PROVE FALSE
  <2> DEFINE k == Min(B)
  <2>1. k \in B /\ \A y \in B : k <= y
    <3>1. B \subseteq Nat
      BY <1>b
    <3> QED
      BY <1>5, <3>1, MinIn
  <2> HIDE DEF k
  <2>2. k \in 1 .. n /\ ~Ok(k)
    BY <1>b, <2>1
  <2>3. CASE k = 1
    BY <1>3, <2>2, <2>3
  <2>4. CASE k # 1
    <3>1. k - 1 \in 1 .. n /\ k - 1 \notin B
      BY <1>1, <2>1, <2>2, <2>4
    <3>o. Ok(k - 1)
      BY <1>b, <3>1
    <3>2. PICK i \in 1 .. (k - 1) : \A m \in 1 .. (k - 1) : w[f[i]] <= w[f[m]]
      BY <3>o
    <3>3. i \in 1 .. k /\ k \in 1 .. k /\ w[f[i]] \in Int /\ w[f[k]] \in Int /\ \A m \in 1 .. k : m \in 1 .. (k - 1) \/ m = k
      BY <1>1, <1>3, <2>2, <3>2
    <3>4. CASE w[f[i]] <= w[f[k]]
      BY <2>2, <3>2, <3>3, <3>4
    <3>5. CASE w[f[k]] < w[f[i]]
      <4>1. \A m \in 1 .. (k - 1) : w[f[m]] \in Int
        BY <1>1, <1>3, <2>2
      <4>2. \A m \in 1 .. k : w[f[k]] <= w[f[m]]
        BY <3>2, <3>3, <3>5, <4>1
      <4> QED
        BY <2>2, <3>3, <4>2
    <3> QED
      BY <3>3, <3>4, <3>5
  <2> QED
    BY <2>3, <2>4
<1>o. Ok(n)
  <2> HIDE DEF Ok
  <2>1. n \in 1 .. n /\ n \notin B
    BY <1>1, <1>4, <1>5
  <2> QED
    BY <1>b, <2>1
<1>6. PICK i \in 1 .. n : \A m \in 1 .. n : w[f[i]] <= w[f[m]]
  BY <1>o
<1> QED
  BY <1>2, <1>6

LEMMA LeastWave ==
    ASSUME NEW docs, IsDocs(docs), NEW D \in SUBSET DOMAIN docs, D # {}, NEW S, S = {docs[i].wave : i \in D}
    PROVE  Min(S) \in Int /\ Min(S) \in S /\ \A i \in D : Min(S) <= docs[i].wave
<1> DEFINE w == [i \in D |-> docs[i].wave]
<1>1. IsFiniteSet(D)
  BY FS_Subset DEF IsDocs
<1>2. w \in [D -> Int]
  BY DEF IsDocs
<1>3. \A i \in D : w[i] = docs[i].wave
  OBVIOUS
<1> HIDE DEF w
<1>4. PICK i \in D : \A k \in D : w[i] <= w[k]
  BY <1>1, <1>2, Lowest
<1>5. docs[i].wave \in S /\ \A y \in S : docs[i].wave <= y
  BY <1>3, <1>4
<1>6. Min(S) \in S /\ \A y \in S : Min(S) <= y
  BY <1>5 DEF Min
<1> QED
  BY <1>2, <1>3, <1>6

\* The writer the gate compares with is one of the Secret's writers.
LEMMA WriterIsOne ==
    ASSUME NEW docs, IsDocs(docs), NEW s, NEW k \in DOMAIN docs, Writes(docs[k], s)
    PROVE  \E i \in DOMAIN docs : Writes(docs[i], s) /\ WriterOf(docs, s) = docs[i]
<1> DEFINE D == {i \in DOMAIN docs : Writes(docs[i], s)}
           w == [i \in D |-> -i]
<1>1. D # {} /\ IsFiniteSet(D) /\ D \subseteq Nat
  BY FS_Subset DEF IsDocs
<1>2. w \in [D -> Int] /\ \A i \in D : w[i] = -i
  BY <1>1
<1> HIDE DEF w
<1>3. PICK i \in D : \A j \in D : w[i] <= w[j]
  <2> HIDE DEF D
  <2> QED
    BY <1>1, <1>2, Lowest
<1>4. \A j \in D : j <= i
  BY <1>1, <1>2, <1>3
<1>5. \E i0 \in DOMAIN docs : Writes(docs[i0], s) /\ \A j \in DOMAIN docs : Writes(docs[j], s) => j <= i0
  BY <1>4
<1> QED
  BY <1>5 DEF WriterOf

SyncFields == {"judged", "docs", "phase", "wave", "started", "written"}

\* The documents' order was judged, those synced are of them, and what a later wave or hook may read
\* was written in the waves before.
Synced(y) ==
    /\ DOMAIN y = SyncFields
    /\ IsDocs(y.judged) /\ readSyncOrder(y.judged)
    /\ DOMAIN y.docs \subseteq DOMAIN y.judged /\ \A i \in DOMAIN y.docs : y.docs[i] = y.judged[i]
    /\ y.phase = "Sync" => y.wave \in Int
    /\ y.phase \in {"Sync", "PostSync", "done"} =>
          \A k \in DOMAIN y.docs :
              y.docs[k].kind \in Writers /\ InWaves(y.docs[k]) /\ (y.phase = "Sync" => y.docs[k].wave < y.wave) =>
                  y.docs[k].writes \in y.written

SyncOK == Synced(sync)

LEMMA BeginSyncs ==
    ASSUME NEW docs, NEW here \in SUBSET DOMAIN docs, IsDocs(docs), readSyncOrder(docs), Begin(docs, here)
    PROVE  SyncOK' /\ sync'.started = {}
<1> DEFINE part == Restrict(docs, here)
<1>1. DOMAIN part = here /\ \A i \in here : part[i] = docs[i]
  BY DEF Restrict
<1>2. sync' = [NoSync EXCEPT !.judged = docs, !.docs = part, !.phase = "PreSync"]
  BY DEF Begin
<1> HIDE DEF part
<1>3. sync' = [judged |-> docs, docs |-> part, phase |-> "PreSync", wave |-> BeforeWaves, started |-> {}, written |-> {}]
  BY <1>2 DEF NoSync
<1>4. /\ DOMAIN sync' = SyncFields /\ sync'.judged = docs /\ sync'.docs = part /\ sync'.phase = "PreSync" /\ sync'.started = {}
  BY <1>3 DEF SyncFields
<1>5. Synced(sync')
  BY <1>1, <1>4 DEF Synced
<1> QED
  BY <1>4, <1>5 DEF SyncOK

\* A registered unit with a chart was judged with its documents, and they are in order.
LEMMA UnitSyncs == ASSUME IInv, NEW u \in Units, SyncUnit(u) PROVE SyncOK' /\ sync'.started = {}
<1> DEFINE rp == Content[run[u].sha]
           here == {i \in DOMAIN rp.docs : rp.docs[i].env = T(u).stage}
<1>1. run[u].phase = "registered" /\ rp.chart /\ Begin(rp.docs, here)
  BY DEF SyncUnit
<1>2. RunOK(T(u), run[u])
  BY DEF IInv, RunsOK
<1>3. run[u].sha \in DOMAIN Content /\ run[u].report # None
  BY <1>1, <1>2 DEF RunOK
<1>4. run[u].report.manifest /\ run[u].report.failed = {} /\ JudgedOf(run[u].report, T(u), run[u].sha)
  BY <1>1, <1>2, <1>3 DEF RunOK
<1>5. T(u).chartPath
  BY <1>1, <1>4 DEF JudgedOf, checkStructure
<1>6. readSyncOrder(rp.docs)
  BY <1>4, <1>5 DEF JudgedOf, PostRenderGates
<1>7. IsDocs(rp.docs) /\ here \in SUBSET DOMAIN rp.docs
  BY <1>3, WorldsAreTyped
<1> HIDE DEF here
<1> QED
  BY <1>1, <1>6, <1>7, BeginSyncs

LEMMA TenantSyncs == ASSUME IInv, NEW m \in W.bundle.members, SyncTenant(m) PROVE SyncOK' /\ sync'.started = {}
<1> DEFINE tb == W.bundle
           docs == MemberDocs(tb, m)
           D == {i \in DOMAIN tb.docs : tb.docs[i].member = m}
<1>1. tb # None /\ readSyncOrder(docs) /\ Begin(docs, DOMAIN docs)
  BY DEF SyncTenant, validateTenant, gateT6SecretOrder
<1>2. IsDocs(tb.docs)
  BY <1>1, WorldsAreTyped DEF IInv, Types, W
<1>3. DOMAIN docs = D /\ \A i \in D : docs[i] = tb.docs[i]
  BY DEF MemberDocs, Restrict
<1>4. IsFiniteSet(D)
  BY <1>2, FS_Subset DEF IsDocs
<1>5. D \subseteq DOMAIN tb.docs
  OBVIOUS
<1> HIDE DEF D, docs
<1>6. IsDocs(docs)
  BY <1>2, <1>3, <1>4, <1>5 DEF IsDocs
<1> QED
  BY <1>1, <1>6, BeginSyncs

\* What a wave starts finds the Secrets written.
LEMMA WaveFinds ==
    ASSUME SyncOK, sync.phase \in {"PreSync", "Sync", "PostSync"},
           NEW i \in DOMAIN sync.docs, InPhase(sync.docs[i]), sync.docs[i].kind = "Workload", NEW s \in sync.docs[i].reads,
           NEW k \in DOMAIN sync.docs, Writes(sync.docs[k], s), OneWave(s)
    PROVE  s \in sync.written
<1>1. /\ IsDocs(sync.judged) /\ readSyncOrder(sync.judged) /\ DOMAIN sync.docs \subseteq DOMAIN sync.judged
      /\ sync.docs[i] = sync.judged[i] /\ sync.docs[k] = sync.judged[k] /\ i \in DOMAIN sync.judged /\ k \in DOMAIN sync.judged
  BY DEF SyncOK, Synced
<1>2. PICK l \in DOMAIN sync.judged : Writes(sync.judged[l], s) /\ WriterOf(sync.judged, s) = sync.judged[l]
  BY <1>1, WriterIsOne
<1>3. sync.judged[k].wave = sync.judged[l].wave /\ sync.judged[k].hooks = {}
  BY <1>1, <1>2 DEF OneWave
<1>4. sync.docs[k].kind \in Writers /\ sync.docs[k].writes = s /\ InWaves(sync.docs[k])
  BY <1>1, <1>3 DEF Writes, InWaves
<1> DEFINE d == sync.judged[i]
<1>5. "Skip" \notin d.hooks /\ ~(d.hooks # {} /\ d.hooks \subseteq {"PostSync", "SyncFail", "PostDelete"}) =>
        "PreSync" \notin d.hooks /\ d.wave > sync.judged[l].wave
  BY <1>1, <1>2 DEF readSyncOrder
<1>6. CASE sync.phase = "PreSync"
  BY <1>1, <1>5, <1>6 DEF InPhase
<1>7. CASE sync.phase = "Sync"
  <2>1. "Skip" \notin d.hooks /\ (d.hooks = {} \/ "Sync" \in d.hooks) /\ d.wave = sync.wave
    BY <1>1, <1>7 DEF InPhase, InWaves
  <2>2. d.wave > sync.judged[l].wave
    BY <1>5, <2>1
  <2>3. sync.docs[k].wave < sync.wave
    BY <1>1, <1>2, <1>3, <2>1, <2>2 DEF IsDocs
  <2> QED
    BY <1>4, <1>7, <2>3 DEF SyncOK, Synced
<1>8. CASE sync.phase = "PostSync"
  BY <1>4, <1>8 DEF SyncOK, Synced
<1> QED
  BY <1>6, <1>7, <1>8

LEMMA WaveSyncs == ASSUME SyncOK, SyncWave PROVE SyncOK'
<1> DEFINE now == {i \in DOMAIN sync.docs : InPhase(sync.docs[i])}
           D == {k \in DOMAIN sync.docs : InWaves(sync.docs[k]) /\ (sync.phase = "PreSync" \/ sync.docs[k].wave > sync.wave)}
           left == {w \in Waves(sync.docs) : sync.phase = "PreSync" \/ w > sync.wave}
           ws == {sync.docs[i].writes : i \in {k \in now : sync.docs[k].kind \in Writers}}
           p == CASE sync.phase = "PostSync" -> "done" [] sync.phase # "PostSync" /\ left = {} -> "PostSync" [] OTHER -> "Sync"
           n == IF left = {} THEN sync.wave ELSE Min(left)
<1>1. /\ sync.phase \in {"PreSync", "Sync", "PostSync"}
      /\ sync' = [sync EXCEPT !.started = sync.started \cup now, !.written = sync.written \cup ws, !.wave = n, !.phase = p]
  BY DEF SyncWave
<1>2. left = {sync.docs[k].wave : k \in D}
  BY DEF Waves
<1>3. IsDocs(sync.docs)
  <2>1. IsFiniteSet(DOMAIN sync.docs)
    BY FS_Subset DEF SyncOK, Synced, IsDocs
  <2> QED
    BY <2>1 DEF SyncOK, Synced, IsDocs
<1>4. left # {} => n \in Int /\ n \in left /\ \A k \in D : n <= sync.docs[k].wave
  <2> SUFFICES ASSUME left # {} PROVE n \in Int /\ n \in left /\ \A k \in D : n <= sync.docs[k].wave
    OBVIOUS
  <2>1. D # {} /\ D \in SUBSET DOMAIN sync.docs /\ n = Min(left)
    BY <1>2
  <2> HIDE DEF D, left, n
  <2> QED
    BY <1>2, <1>3, <2>1, LeastWave
<1>5. left = {} => D = {}
  BY <1>2
<1>6. p = (IF sync.phase = "PostSync" THEN "done" ELSE IF left = {} THEN "PostSync" ELSE "Sync")
  BY <1>1
<1>7. ASSUME NEW k \in DOMAIN sync.docs, sync.docs[k].kind \in Writers, InWaves(sync.docs[k]), sync.phase = "Sync", sync.docs[k].wave = sync.wave
      PROVE  sync.docs[k].writes \in ws
  BY <1>7 DEF InPhase
<1>8. DOMAIN sync = SyncFields
  BY DEF SyncOK, Synced
<1>9. \A k \in DOMAIN sync.docs : k \in D <=> InWaves(sync.docs[k]) /\ (sync.phase = "PreSync" \/ sync.docs[k].wave > sync.wave)
  OBVIOUS
<1> HIDE DEF now, D, left, ws, p, n
<1>10. /\ DOMAIN sync' = SyncFields /\ sync'.judged = sync.judged /\ sync'.docs = sync.docs
       /\ sync'.written = sync.written \cup ws /\ sync'.wave = n /\ sync'.phase = p
  BY <1>1, <1>8 DEF SyncFields
<1>11. p = "Sync" => n \in Int
  BY <1>1, <1>4, <1>6
<1>12. ASSUME NEW k \in DOMAIN sync.docs, sync.docs[k].kind \in Writers, InWaves(sync.docs[k]), p = "Sync" => sync.docs[k].wave < n
       PROVE  sync.docs[k].writes \in sync.written \cup ws
  <2>0. sync.phase # "PostSync" => k \notin D
    <3>1. sync.docs[k].wave \in Int
      BY <1>3 DEF IsDocs
    <3>2. sync.phase # "PostSync" /\ left # {} => n \in Int /\ sync.docs[k].wave < n
      BY <1>4, <1>6, <1>12
    <3> QED
      BY <1>4, <1>5, <3>1, <3>2
  <2>1. CASE sync.phase = "PreSync"
    BY <1>9, <1>12, <2>0, <2>1
  <2>2. CASE sync.phase = "Sync"
    <3>1. sync.wave \in Int /\ sync.docs[k].wave \in Int
      BY <1>3, <2>2 DEF SyncOK, Synced, IsDocs
    <3>2. sync.docs[k].wave <= sync.wave
      BY <1>9, <1>12, <2>0, <2>2, <3>1
    <3>3. CASE sync.docs[k].wave = sync.wave
      BY <1>7, <1>12, <2>2, <3>3
    <3>4. CASE sync.docs[k].wave < sync.wave
      BY <1>12, <2>2, <3>4 DEF SyncOK, Synced
    <3> QED
      BY <3>1, <3>2, <3>3, <3>4
  <2>3. CASE sync.phase = "PostSync"
    BY <1>12, <2>3 DEF SyncOK, Synced
  <2> QED
    BY <1>1, <2>1, <2>2, <2>3
<1>13. Synced(sync')
  BY <1>10, <1>11, <1>12 DEF SyncOK, Synced
<1> QED
  BY <1>13 DEF SyncOK

StartsInOrder ==
    \A i \in sync'.started \ sync.started :
        \A s \in IF sync.docs[i].kind = "Workload" THEN sync.docs[i].reads ELSE {} :
            LET writers == {k \in DOMAIN sync.docs : Writes(sync.docs[k], s)} IN
            writers # {} /\ OneWave(s) => s \in sync.written

LEMMA WaveStarts == ASSUME SyncOK, SyncWave PROVE StartsInOrder
<1> DEFINE now == {i \in DOMAIN sync.docs : InPhase(sync.docs[i])}
<1>1. sync.phase \in {"PreSync", "Sync", "PostSync"}
  BY DEF SyncWave
<1>2. sync'.started = sync.started \cup now
  BY DEF SyncWave, SyncOK, Synced, SyncFields
<1>3. ASSUME NEW i \in sync'.started \ sync.started, sync.docs[i].kind = "Workload", NEW s \in sync.docs[i].reads,
             NEW k \in DOMAIN sync.docs, Writes(sync.docs[k], s), OneWave(s)
      PROVE  s \in sync.written
  <2>1. i \in DOMAIN sync.docs /\ InPhase(sync.docs[i])
    BY <1>2
  <2> QED
    BY <1>1, <1>3, <2>1, WaveFinds
<1> QED
  BY <1>3 DEF StartsInOrder

LEMMA InitSyncs == Init => SyncOK
<1> SUFFICES ASSUME Init PROVE SyncOK
  OBVIOUS
<1>1. /\ DOMAIN sync = SyncFields /\ sync.judged = <<>> /\ sync.docs = <<>> /\ sync.phase = "none"
  BY DEF Init, NoSync, SyncFields
<1>2. DOMAIN sync.judged = {} /\ DOMAIN sync.docs = {}
  BY <1>1
<1>3. IsDocs(sync.judged)
  BY <1>2, FS_EmptySet DEF IsDocs
<1> QED
  BY <1>1, <1>2, <1>3 DEF SyncOK, Synced, readSyncOrder

LEMMA StepSyncs == IInv /\ SyncOK /\ [Next]_vars => SyncOK' /\ [StartsInOrder]_vars
<1> SUFFICES ASSUME IInv, SyncOK, [Next]_vars PROVE SyncOK' /\ (StartsInOrder \/ UNCHANGED vars)
  OBVIOUS
<1>1. ASSUME NEW u \in Units, SyncUnit(u) PROVE SyncOK' /\ StartsInOrder
  BY <1>1, UnitSyncs DEF StartsInOrder
<1>2. ASSUME NEW m \in W.bundle.members, SyncTenant(m) PROVE SyncOK' /\ StartsInOrder
  BY <1>2, TenantSyncs DEF StartsInOrder
<1>3. CASE SyncWave
  BY <1>3, WaveSyncs, WaveStarts
<1>4. CASE sync' = sync
  BY <1>4 DEF SyncOK, StartsInOrder
<1>5. sync' = sync \/ SyncWave \/ (\E u \in Units : SyncUnit(u)) \/ (\E m \in W.bundle.members : SyncTenant(m))
  <2>1. ASSUME NEW u \in Units, validateOnboard(u) PROVE sync' = sync
    BY <2>1 DEF validateOnboard, Clone, createPipelineRun, createSecret, UndoSubmit, Poll, pollToDone, readReportConfigMap,
                Reap, ReapRun, Receive, JudgeNames, JudgeBuilds
  <2>2. ASSUME NEW u \in Units, Ask(u) \/ PlanSharing(u) \/ Start(u) \/ Register(u) \/ Retry(u) \/ Push(u) \/ PlanUngated(u) \/ StartUngated(u)
        PROVE  sync' = sync
    BY <2>2 DEF Ask, PlanSharing, Start, Register, Retry, Push, PlanUngated, StartUngated
  <2>3. ASSUME NEW j \in Jobs, Mount(j) \/ Publish(j) \/ Settle(j) \/ Collect(j) \/ SweepChildren(j) \/ SweepRun(j) PROVE sync' = sync
    BY <2>3 DEF Mount, Publish, Settle, Collect, SweepChildren, SweepRun
  <2>4. Restart \/ reapOrphans \/ UNCHANGED vars => sync' = sync
    BY DEF Restart, reapOrphans, vars
  <2> QED
    BY <2>1, <2>2, <2>3, <2>4 DEF Next
<1> QED
  BY <1>1, <1>2, <1>3, <1>4, <1>5

\* The builds a gated run registers, and a deployed unit's databases and secrets, are those of the commit
\* its check judged (its host, patterns and sender's entry need not be: RegisteredIsCurrent), it builds
\* nothing that stood registered before it, and in what Argo CD syncs of it no pod starts before its Secrets are written: for any heads that move
\* under an approval and any interleaving of onboardings (onboard-check.ts, G16, G30 and T6).
THEOREM AdmittedAsJudged == Spec => AdmittedIsJudged
<1>1. RegisteredIsJudged <=> [][AdmitsJudged]_vars
  BY PTL DEF RegisteredIsJudged, AdmitsJudged
<1>2. GatedBuildIsNew <=> [][AdmitsNew]_vars
  BY PTL DEF GatedBuildIsNew, AdmitsNew
<1>3. PodsFindTheirSecrets <=> [][StartsInOrder]_vars
  BY PTL DEF PodsFindTheirSecrets, StartsInOrder
<1>4. Spec => []SyncOK
  BY InitSyncs, IInvHolds, StepSyncs, PTL DEF Spec
<1>5. Spec => [][AdmitsJudged /\ AdmitsNew]_vars
  BY IInvHolds, StepAdmits, PTL DEF Spec
<1>6. Spec => [][StartsInOrder]_vars
  BY <1>4, IInvHolds, StepSyncs, PTL DEF Spec
<1>7. [][AdmitsJudged /\ AdmitsNew]_vars => [][AdmitsJudged]_vars /\ [][AdmitsNew]_vars
  BY PTL
<1> QED
  BY <1>1, <1>2, <1>3, <1>5, <1>6, <1>7, PTL DEF AdmittedIsJudged

=============================================================================
