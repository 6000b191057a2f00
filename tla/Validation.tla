----------------------------- MODULE Validation -----------------------------
(* How a unit is judged and admitted: the validation of an onboarding's repository in the sandbox
   (server/domains/units/validate.ts over server/adapters/gate-runner/gate-runner-tekton.ts), its
   plan, and the check step that judges it once more when the approved run executes
   (onboard.run.ts, onboard-check.ts), for several units at once.  What the gates compute is in Gates.

   A world is what one behaviour starts from: the units' targets, the repositories their heads may
   stand at, the registrations that stand already, what the sandbox's network lets through, what the
   DNS zone answers, and the tenant bundle, if one is judged.  Content gives the
   repository at each commit.  A world's `most' bounds how often a call to the cluster's API fails,
   a gate run dies on the way, the process restarts and a head moves.  MaxJobs bounds the gate runs that stand at once. *)
EXTENDS Gates, TLC

CONSTANTS Units, MaxJobs, Content, Worlds

Jobs == 1 .. MaxJobs
Bounds == {"faults", "deaths", "restarts", "moves"}

ASSUME WorldsAreBounded == MaxJobs \in Nat /\ \A w \in DOMAIN Worlds : Worlds[w].most \in [Bounds -> Nat]

VARIABLES
    world,     \* chosen at Init and never changed
    head,      \* the repository at each unit's default branch
    run,       \* each unit's onboarding: where it stands and what it knows
    job,       \* the gate runs' objects in the cluster: PipelineRun, credential Secret, report ConfigMap
    books,     \* the stage registrations, by unit
    sweep,     \* the orphan sweep of the last boot
    sync,      \* Argo CD syncing what was admitted
    spent      \* how often a call failed, a gate run died, the process restarted, a head moved

vars == <<world, head, run, job, books, sweep, sync, spent>>

None == [none |-> TRUE]

\* Rendered documents: finitely many, in an order, each with its wave.
IsDocs(docs) == DOMAIN docs \subseteq Nat /\ IsFiniteSet(DOMAIN docs) /\ \A i \in DOMAIN docs : docs[i].wave \in Int

ASSUME WorldsAreTyped ==
    /\ \A c \in DOMAIN Content : IsDocs(Content[c].docs)
    /\ \A w \in DOMAIN Worlds :
          /\ Worlds[w].heads \in [Units -> DOMAIN Content] /\ Worlds[w].pushed \subseteq DOMAIN Content
          /\ DOMAIN Worlds[w].books = Units
          /\ \A u \in Units : Worlds[w].books[u] = None \/ Worlds[w].books[u].gated \in BOOLEAN
          /\ Worlds[w].net.declared \in BOOLEAN
          /\ Worlds[w].bundle = None \/ IsDocs(Worlds[w].bundle.docs)

NoObjects == [run |-> "none", secret |-> FALSE, cm |-> "absent", sha |-> 0, unit |-> "none", report |-> None]
NoRun == [phase |-> "idle", at |-> "plan", sha |-> 0, job |-> 0, report |-> None, facts |-> None]
BeforeWaves == WaveFloor - 1
NoSync == [judged |-> <<>>, docs |-> <<>>, phase |-> "none", wave |-> BeforeWaves, started |-> {}, written |-> {}]
Rested == [state |-> "done", todo |-> {}, half |-> {}]

Validating == {"clone", "create-run", "create-secret", "undo", "poll", "read", "reap", "reap-run", "received",
               "cancel", "cancel-run", "names", "builds"}
W == Worlds[world]
T(u) == W.targets[u]
Fails == spent.faults < W.most.faults
Failing == [spent EXCEPT !.faults = @ + 1]
Dies == spent.deaths < W.most.deaths /\ spent' = [spent EXCEPT !.deaths = @ + 1]

Init ==
    /\ world \in DOMAIN Worlds
    /\ head = W.heads
    /\ run = [u \in Units |-> NoRun]
    /\ job = [j \in Jobs |-> NoObjects]
    /\ books = W.books
    /\ sweep = Rested
    /\ sync = NoSync
    /\ spent = [b \in Bounds |-> 0]

-----------------------------------------------------------------------------
(* One validation. *)

To(u, phase) == run' = [run EXCEPT ![u].phase = phase]

\* Where a validation that threw ends: the plan fails, the run stops at its check step.
Throws(u) == [run EXCEPT ![u].phase = IF run[u].at = "plan" THEN "failed" ELSE "stopped", ![u].report = None]

\* The operator asks for an onboarding.
Ask(u) ==
    /\ run[u].phase = "idle" /\ u \in DOMAIN W.targets
    /\ To(u, "clone")
    /\ UNCHANGED <<world, head, job, books, sweep, sync, spent>>

\* The names no run stands under, none is about to and no sweep has listed.
FreeJobs(u) ==
    {j \in Jobs \ (sweep.todo \cup sweep.half) :
        job[j].run = "none" /\ ~job[j].secret /\ \A v \in Units \ {u} : run[v].job # j \/ run[v].phase \notin Validating}

\* The default branch's head is cloned, its commit noted and a run's name made up.
Clone(u) ==
    /\ run[u].phase = "clone" /\ FreeJobs(u) # {}
    /\ LET j == Min(FreeJobs(u)) IN
       \/ /\ run' = [run EXCEPT ![u].phase = "create-run", ![u].sha = head[u], ![u].job = j, ![u].report = None]
          /\ job' = [job EXCEPT ![j] = NoObjects] /\ UNCHANGED spent
       \/ Fails /\ run' = Throws(u) /\ spent' = Failing /\ UNCHANGED job
    /\ UNCHANGED <<world, head, books, sweep, sync>>

\* The run is created before its Secret.  A call that fails may have created it all the same.
createPipelineRun(u) ==
    LET j == run[u].job
        Created == [job EXCEPT ![j].run = "created", ![j].sha = run[u].sha, ![j].unit = u]
    IN
    /\ run[u].phase = "create-run"
    /\ \/ job' = Created /\ To(u, "create-secret") /\ UNCHANGED spent
       \/ Fails /\ job' \in {job, Created} /\ run' = Throws(u) /\ spent' = Failing
    /\ UNCHANGED <<world, head, books, sweep, sync>>

\* The Secret names the run as its owner, which a sweep may have deleted by now.
createSecret(u) ==
    LET j == run[u].job
        Created == [job EXCEPT ![j].secret = TRUE]
    IN
    /\ run[u].phase = "create-secret"
    /\ \/ job' = Created /\ To(u, "poll") /\ UNCHANGED spent
       \/ Fails /\ job' \in {job, Created} /\ To(u, "undo") /\ spent' = Failing
    /\ UNCHANGED <<world, head, books, sweep, sync>>

\* A failure to delete the run is swallowed.  A Secret it owned is left to the cluster's collection.
RunDeleted(j) == [job EXCEPT ![j].run = "none", ![j].sha = 0, ![j].unit = "none"]
deletePipelineRun(j) ==
    \/ job' = RunDeleted(j) /\ UNCHANGED spent
    \/ Fails /\ UNCHANGED job /\ spent' = Failing

\* The report and the credential, each of which may fail on its own.
deleteChildren(j) ==
    \/ job' = [job EXCEPT ![j].cm = "absent", ![j].report = None, ![j].secret = FALSE] /\ UNCHANGED spent
    \/ Fails /\ spent' = Failing
             /\ \/ job' = [job EXCEPT ![j].cm = "absent", ![j].report = None]
                \/ job' = [job EXCEPT ![j].secret = FALSE]

UndoSubmit(u) ==
    /\ run[u].phase = "undo" /\ deletePipelineRun(run[u].job) /\ run' = Throws(u)
    /\ UNCHANGED <<world, head, books, sweep, sync>>

\* The poll: a run that is gone or cannot be read throws, one that has settled is received.
Poll(u) ==
    LET j == run[u].job IN
    /\ run[u].phase = "poll"
    /\ \/ job[j].run = "none" /\ To(u, "cancel") /\ UNCHANGED spent
       \/ Fails /\ To(u, "cancel") /\ spent' = Failing
       \/ job[j].run = "settled" /\ To(u, "read") /\ UNCHANGED spent
    /\ UNCHANGED <<world, head, job, books, sweep, sync>>

Unsettled == {"created", "going", "judged"}

\* No budget: the poll goes on for as long as the run does.
MutantPollToDone(u) == FALSE /\ UNCHANGED vars /\ run[u] = NoRun

\* The budget or an abort ends the polling of a run that does not settle.
pollToDone(u) ==
    /\ run[u].phase = "poll" /\ job[run[u].job].run \in Unsettled /\ To(u, "cancel")
    /\ UNCHANGED <<world, head, job, books, sweep, sync, spent>>

\* What the ConfigMap carries is read before the objects are reaped.
readReportConfigMap(u) ==
    LET j == run[u].job IN
    /\ run[u].phase = "read"
    /\ \/ /\ run' = [run EXCEPT ![u].phase = "reap", ![u].report = IF job[j].cm = "report" THEN job[j].report ELSE None]
          /\ UNCHANGED spent
       \/ Fails /\ To(u, "cancel") /\ spent' = Failing
    /\ UNCHANGED <<world, head, job, books, sweep, sync>>

\* A judged run's objects are left standing when it was cancelled.
MutantReap(u) ==
    /\ run[u].phase \in {"reap", "cancel"}
    /\ IF run[u].phase = "reap" THEN deleteChildren(run[u].job) /\ To(u, "reap-run")
       ELSE run' = Throws(u) /\ UNCHANGED <<job, spent>>
    /\ UNCHANGED <<world, head, books, sweep, sync>>

\* The children first, then the run that names them.
Reap(u) ==
    /\ run[u].phase \in {"reap", "cancel"} /\ deleteChildren(run[u].job)
    /\ To(u, IF run[u].phase = "reap" THEN "reap-run" ELSE "cancel-run")
    /\ UNCHANGED <<world, head, books, sweep, sync>>
ReapRun(u) ==
    /\ run[u].phase \in {"reap-run", "cancel-run"} /\ deletePipelineRun(run[u].job)
    /\ run' = IF run[u].phase = "reap-run" THEN [run EXCEPT ![u].phase = "received"] ELSE Throws(u)
    /\ UNCHANGED <<world, head, books, sweep, sync>>

\* No report, or one written behind a fence that did not hold, is no judgement: the poll throws.
Receive(u) ==
    /\ run[u].phase = "received"
    /\ To(u, IF run[u].report # None /\ sandboxGreen(run[u].report.fence) THEN "names" ELSE "cancel")
    /\ UNCHANGED <<world, head, job, books, sweep, sync, spent>>

Standing(u) == {v \in Units \ {u} : books[v] # None}
HostLabels(u) == {books[v].host : v \in Standing(u)}
AttestedBuilds(u) == UNION {books[v].builds : v \in Standing(u)}
Senders(u) == {v \in Standing(u) : books[v].smtp}

\* A run that was refused is over at plan time; at its check step the run stops.
Refuse(u, report) ==
    run' = [run EXCEPT ![u].phase = IF run[u].at = "plan" THEN "rejected" ELSE "stopped", ![u].report = report]

\* The gates that need no manifest, over the host labels as they are read now.
JudgeNames(u) ==
    LET rp == Content[run[u].sha]
        failed == {g \in {"G23"} : ~gateUnitName(rp, T(u), HostLabels(u), W.subdomains, W.reserved)}
                  \cup {g \in {"G28"} : ~gateReleaseWorkflow(rp)}
                  \cup {g \in {"G26"} : ~gateManifestInput(run[u].report)}
        report == composeReport(run[u].report, failed)
    IN
    /\ run[u].phase = "names"
    /\ IF report.manifest THEN run' = [run EXCEPT ![u].phase = "builds", ![u].report = report]
                          ELSE Refuse(u, report)
    /\ UNCHANGED <<world, head, job, books, sweep, sync, spent>>

\* What an onboarding freezes of the manifest when it is planned, and registers when it runs.
Facts(rp) == [builds |-> rp.builds, host |-> rp.host, claim |-> rp.claim, secrets |-> rp.secrets, smtp |-> rp.smtp]

\* The builds are not compared.
MutantDrifted(facts, rp, deployable) ==
    deployable /\ (facts.claim.databases # rp.claim.databases \/ facts.secrets # rp.secrets)

\* The facts a moved head may not have changed under an approval: the builds and, of a unit that is
\* deployed, the databases and the secrets, as which the services and the activation are compared.
\* The host, the key and channel patterns and the sender's entry are compared by nobody.
Drifted(facts, rp, deployable) ==
    \/ facts.builds # rp.builds
    \/ deployable /\ (facts.claim.databases # rp.claim.databases \/ facts.secrets # rp.secrets)

\* The gates that read the manifest, over the registrations as they are read now; then a plan asks
\* for its form, and a check holds what was approved against what it judged.
JudgeBuilds(u) ==
    LET rp == Content[run[u].sha]
        failed == {g \in {"G16"} : ~gateBuildNameUniqueness(rp, AttestedBuilds(u))}
                  \cup {g \in {"G18"} : ~gateBuildDeclaration(rp, T(u))}
                  \cup {g \in {"G24"} : ~gateUnitSize(rp, T(u))}
                  \cup {g \in {"G27"} : ~gateUnitHost(T(u), W.zone)}
                  \cup {g \in {"G29"} : ~gateMailSender(rp, T(u), Senders(u))}
        report == composeReport(run[u].report, failed)
        passes == hardGatesPass(report) /\ assembleReport(run[u].report)
        next == IF run[u].at = "plan" THEN IF formMismatch(rp, T(u)) THEN "rejected" ELSE "sharing"
                ELSE IF Drifted(run[u].facts, rp, T(u).chartPath) THEN "stopped" ELSE "checked"
    IN
    /\ run[u].phase = "builds"
    /\ IF passes THEN run' = [run EXCEPT ![u].phase = next, ![u].report = report] ELSE Refuse(u, report)
    /\ UNCHANGED <<world, head, job, books, sweep, sync, spent>>

\* The plan's last questions: whether the unit would share data with a registration of its cluster,
\* and whether the installation's store holds what the manifest takes from it.
PlanSharing(u) ==
    LET others == {[claim |-> books[v].claim, stage |-> books[v].stage] : v \in Standing(u)}
        refused == \/ sharedDataRefusal(Content[run[u].sha].claim, T(u).stage, others)
                   \/ refuseMissingStoreSecrets(Content[run[u].sha], W.stored)
    IN
    /\ run[u].phase = "sharing"
    /\ run' = [run EXCEPT ![u].phase = IF T(u).chartPath /\ refused THEN "rejected" ELSE "planned",
                          ![u].facts = Facts(Content[run[u].sha])]
    /\ UNCHANGED <<world, head, job, books, sweep, sync, spent>>

-----------------------------------------------------------------------------
(* The onboarding's run. *)

Executing(u) == run[u].at = "check" /\ run[u].phase \notin {"failed", "registered"}

\* The approved run takes the books' branch, which one run holds at a time, and checks once more.
Start(u) ==
    /\ run[u].phase = "planned" /\ \A v \in Units : ~Executing(v)
    /\ run' = [run EXCEPT ![u].phase = "clone", ![u].at = "check"]
    /\ UNCHANGED <<world, head, job, books, sweep, sync, spent>>

Registration(facts, stage, gated) ==
    [builds |-> facts.builds, host |-> facts.host, claim |-> facts.claim, secrets |-> facts.secrets, smtp |-> facts.smtp,
     stage |-> stage, gated |-> gated]

\* What the plan froze is committed, whatever the head says now.
Register(u) ==
    /\ run[u].phase = "checked"
    /\ books' = [books EXCEPT ![u] = Registration(run[u].facts, T(u).stage, run[u].report # None)]
    /\ To(u, "registered")
    /\ UNCHANGED <<world, head, job, sweep, sync, spent>>

\* A run that stopped at its check is retried, or aborted.
Retry(u) ==
    /\ run[u].phase = "stopped"
    /\ To(u, "clone") \/ To(u, "failed")
    /\ UNCHANGED <<world, head, job, books, sweep, sync, spent>>

\* The unit's developers push to the default branch.
Push(u) ==
    /\ spent.moves < W.most.moves /\ u \in DOMAIN W.targets
    /\ \E sha \in W.pushed \ {head[u]} : head' = [head EXCEPT ![u] = sha]
    /\ spent' = [spent EXCEPT !.moves = @ + 1]
    /\ UNCHANGED <<world, run, job, books, sweep, sync>>

\* The first master is built with no gate to judge it: the plan reads the manifest itself, and its
\* run has no check step.
PlanUngated(u) ==
    /\ run[u].phase = "idle" /\ u \in DOMAIN W.targets
    /\ admitFirstMasterUngated(W.platformUnit, T(u).name, ~T(u).chartPath, {v \in Units : books[v] # None}, TRUE)
    /\ readUngatedOnboard(Content[head[u]], T(u))
    /\ run' = [run EXCEPT ![u].phase = "ungated", ![u].sha = head[u], ![u].facts = Facts(Content[head[u]])]
    /\ UNCHANGED <<world, head, job, books, sweep, sync, spent>>
StartUngated(u) ==
    /\ run[u].phase = "ungated" /\ \A v \in Units : ~Executing(v)
    /\ run' = [run EXCEPT ![u].phase = "checked", ![u].at = "check"]
    /\ UNCHANGED <<world, head, job, books, sweep, sync, spent>>

-----------------------------------------------------------------------------
(* The sandbox, and the process around the validations. *)

\* The run's pod waits for its credential Secret.
Mount(j) ==
    /\ job[j].run = "created" /\ job[j].secret
    /\ job' = [job EXCEPT ![j].run = "going"]
    /\ UNCHANGED <<world, head, run, books, sweep, sync, spent>>

\* The gate task clones the commit, probes its own fence and judges, and the report task publishes
\* the report.  A gate task may run out of its budget under helm, or die: then the report task
\* publishes a notice that there is none.
Publish(j) ==
    /\ job[j].run = "going"
    /\ \E late \in BOOLEAN, died \in BOOLEAN :
        LET report == runGateCli(Content[job[j].sha], T(job[j].unit), selfProbe(W.net), late) IN
        /\ IF late \/ died THEN Dies ELSE UNCHANGED spent
        /\ job' = [job EXCEPT ![j].run = "judged", ![j].cm = IF died THEN "incomplete" ELSE "report",
                              ![j].report = IF died THEN None ELSE report]
    /\ UNCHANGED <<world, head, run, books, sweep, sync>>

\* A run ends after its report or, by its timeout or a task that failed, without one.
Settle(j) ==
    /\ job[j].run \in Unsettled
    /\ IF job[j].run = "judged" THEN UNCHANGED spent ELSE Dies
    /\ job' = [job EXCEPT ![j].run = "settled"]
    /\ UNCHANGED <<world, head, run, books, sweep, sync>>

\* The cluster collects, in its own time, a Secret whose owner is gone.
Collect(j) ==
    /\ job[j].run = "none" /\ job[j].secret
    /\ job' = [job EXCEPT ![j].secret = FALSE]
    /\ UNCHANGED <<world, head, run, books, sweep, sync, spent>>

\* The process ends and boots: a planning run is failed, a run at its check step takes it again, and
\* the sweep of what the last process left is due.
Restart ==
    /\ spent.restarts < W.most.restarts
    /\ run' = [u \in Units |->
                CASE run[u].phase \in Validating \cup {"sharing"} /\ run[u].at = "plan" -> [run[u] EXCEPT !.phase = "failed"]
                  [] run[u].phase \in Validating /\ run[u].at = "check" -> [run[u] EXCEPT !.phase = "clone"]
                  [] OTHER -> run[u]]
    /\ sweep' = [Rested EXCEPT !.state = "due"]
    /\ spent' = [spent EXCEPT !.restarts = @ + 1]
    /\ UNCHANGED <<world, head, job, books, sync>>

\* The sweep lists the runs once, at whatever moment its call comes through, and reaps each.
reapOrphans ==
    /\ sweep.state = "due"
    /\ \/ sweep' = [state |-> "done", todo |-> {j \in Jobs : job[j].run # "none"}, half |-> {}] /\ UNCHANGED spent
       \/ Fails /\ sweep' = Rested /\ spent' = Failing
    /\ UNCHANGED <<world, head, run, job, books, sync>>
SweepChildren(j) ==
    /\ j \in sweep.todo /\ deleteChildren(j)
    /\ sweep' = [sweep EXCEPT !.todo = @ \ {j}, !.half = @ \cup {j}]
    /\ UNCHANGED <<world, head, run, books, sync>>
SweepRun(j) ==
    /\ j \in sweep.half /\ deletePipelineRun(j)
    /\ sweep' = [sweep EXCEPT !.half = @ \ {j}]
    /\ UNCHANGED <<world, head, run, books, sync>>

-----------------------------------------------------------------------------
(* Argo CD, as the sync gates understand it: PreSync hooks first, then the waves in order, each held
   until what it has written stands, then the hooks that come after. *)

InWaves(d) == "Skip" \notin d.hooks /\ (d.hooks = {} \/ "Sync" \in d.hooks)
Waves(docs) == {docs[i].wave : i \in {k \in DOMAIN docs : InWaves(docs[k])}}
Begin(judged, here) == sync' = [NoSync EXCEPT !.judged = judged, !.docs = Restrict(judged, here), !.phase = "PreSync"]

\* What was admitted is synced as it was judged: a unit at its stage, a tenant member by member.
SyncUnit(u) ==
    /\ run[u].phase = "registered" /\ sync = NoSync /\ Content[run[u].sha].chart
    /\ LET docs == Content[run[u].sha].docs IN Begin(docs, {i \in DOMAIN docs : docs[i].env = T(u).stage})
    /\ UNCHANGED <<world, head, run, job, books, sweep, spent>>
SyncTenant(m) ==
    /\ sync = NoSync /\ W.bundle # None
    /\ validateTenant(W.bundle, W.bundle.apps, FALSE, W.zone)
    /\ LET docs == MemberDocs(W.bundle, m) IN Begin(docs, DOMAIN docs)
    /\ UNCHANGED <<world, head, run, job, books, sweep, spent>>

InPhase(d) == IF sync.phase = "Sync" THEN InWaves(d) /\ d.wave = sync.wave ELSE "Skip" \notin d.hooks /\ sync.phase \in d.hooks
SyncWave ==
    LET now == {i \in DOMAIN sync.docs : InPhase(sync.docs[i])}
        left == {w \in Waves(sync.docs) : sync.phase = "PreSync" \/ w > sync.wave}
    IN
    /\ sync.phase \in {"PreSync", "Sync", "PostSync"}
    /\ sync' = [sync EXCEPT
                  !.started = @ \cup now,
                  !.written = @ \cup {sync.docs[i].writes : i \in {k \in now : sync.docs[k].kind \in Writers}},
                  !.wave = IF left = {} THEN @ ELSE Min(left),
                  !.phase = CASE @ = "PostSync" -> "done" [] @ # "PostSync" /\ left = {} -> "PostSync" [] OTHER -> "Sync"]
    /\ UNCHANGED <<world, head, run, job, books, sweep, spent>>

-----------------------------------------------------------------------------
validateOnboard(u) ==
    \/ Clone(u) \/ createPipelineRun(u) \/ createSecret(u) \/ UndoSubmit(u) \/ Poll(u) \/ pollToDone(u)
    \/ readReportConfigMap(u) \/ Reap(u) \/ ReapRun(u) \/ Receive(u) \/ JudgeNames(u) \/ JudgeBuilds(u)

Next ==
    \/ \E u \in Units : \/ Ask(u) \/ validateOnboard(u) \/ PlanSharing(u) \/ Start(u) \/ Register(u) \/ Retry(u)
                        \/ Push(u) \/ PlanUngated(u) \/ StartUngated(u) \/ SyncUnit(u)
    \/ \E j \in Jobs : Mount(j) \/ Publish(j) \/ Settle(j) \/ Collect(j) \/ SweepChildren(j) \/ SweepRun(j)
    \/ Restart \/ reapOrphans \/ SyncWave
    \/ W.bundle # None /\ \E m \in W.bundle.members : SyncTenant(m)

Sweep == reapOrphans \/ \E j \in Jobs : SweepChildren(j) \/ SweepRun(j)

\* The Manager's own loops go on: every call they make answers or fails, and the poll has a budget.
Fairness == WF_vars(Sweep) /\ \A u \in Units : WF_vars(validateOnboard(u))
Spec == Init /\ [][Next]_vars /\ Fairness

-----------------------------------------------------------------------------
(* Properties. *)

RepoPhases == {"idle", "sharing", "planned", "ungated", "checked", "registered", "stopped", "rejected", "failed"}
IsReport(r) == DOMAIN r = {"ran", "failed", "manifest", "fence"} /\ r.manifest \in BOOLEAN

\* The state each part keeps: a run's phase and report, the objects of each gate run, a registration.
TypeOK ==
    /\ \A u \in Units : /\ run[u].phase \in Validating \cup RepoPhases /\ run[u].at \in {"plan", "check"}
                        /\ run[u].job \in Jobs \cup {0}
                        /\ run[u].report = None \/ IsReport(run[u].report)
                        /\ books[u] = None \/ books[u].gated \in BOOLEAN
    /\ \A j \in Jobs : /\ job[j].run \in Unsettled \cup {"none", "settled"}
                       /\ job[j].secret \in BOOLEAN /\ job[j].cm \in {"absent", "report", "incomplete"}
    /\ sweep.todo \cup sweep.half \subseteq Jobs
    /\ \A b \in Bounds : spent[b] \in 0 .. W.most[b]

\* No unit is planned or registered past a gate that never judged it: a gated plan rests on a report
\* written behind a fence that held, in which every gate of a chart ran and none failed (pipeline.ts's
\* render guard, the poll's refusal of a degraded sandbox, hardGatesPass over what did run).
NothingPassesUnjudged ==
    \A u \in Units :
        run[u].phase \in {"sharing", "planned", "checked"} /\ run[u].report # None =>
            /\ sandboxGreen(run[u].report.fence) /\ run[u].report.failed = {}
            /\ T(u).chartPath => {"G1", "G2", "G3"} \cup PostRenderGates \subseteq run[u].report.ran

\* The repository credential handed to a gate run does not outlive it: where no call to the cluster
\* failed, nothing of a gate run stands once neither a validation nor the sweep of a boot is under way
\* (gate-runner-tekton.ts: cancel on every throw, reap, reapOrphans).  A sweep may delete a live
\* validation's run before its Secret is created: then that validation's own cancel deletes the Secret,
\* unless a second restart cuts it short, and that Secret is the one thing left to the cluster.
CredentialsGo ==
    spent.faults = 0 /\ sweep = Rested /\ (\A u \in Units : run[u].phase \notin Validating) =>
        \A j \in Jobs : job[j].run = "none" /\ (spent.restarts < 2 => ~job[j].secret)

Registered(u) == books[u] = None /\ books'[u] # None

\* A unit admitted by the gates builds nothing that a unit registered before it builds, however the
\* two onboardings interleave and wherever their heads moved in between (G16 at the plan and again at
\* the check, the drift check, the books' branch lock).
GatedBuildIsNew ==
    [][\A u \in Units : Registered(u) /\ books'[u].gated => books'[u].builds \cap AttestedBuilds(u) = {}]_vars

\* The builds that a gated run registers and, of a unit that is deployed, its databases and its secrets
\* are the ones of the commit its check judged: a head that moved them under the approval stops the run
\* (onboard-check.ts:55-71).  Of the host, the patterns and the sender's entry see RegisteredIsCurrent.
RegisteredIsJudged ==
    [][\A u \in Units : Registered(u) /\ books'[u].gated =>
        LET judged == Content[run[u].sha] IN
        /\ books'[u].builds = judged.builds
        /\ T(u).chartPath => books'[u].secrets = judged.secrets /\ books'[u].claim.databases = judged.claim.databases]_vars

\* The Secret's writers, of every env that was judged together, stand in one wave and are no hooks.
OneWave(s) ==
    LET writers == {i \in DOMAIN sync.judged : Writes(sync.judged[i], s)}
    IN  \A i, k \in writers : sync.judged[i].wave = sync.judged[k].wave /\ sync.judged[i].hooks = {}

\* In what was admitted a pod never starts before a Secret that the same sync writes is written, for
\* every Secret whose writers stand in one wave over all rendered envs and are no hooks themselves
\* (readSyncOrder, gates G30 and T6, against Argo CD's order of phases and waves).
PodsFindTheirSecrets ==
    [][\A i \in sync'.started \ sync.started :
        \A s \in IF sync.docs[i].kind = "Workload" THEN sync.docs[i].reads ELSE {} :
            LET writers == {k \in DOMAIN sync.docs : Writes(sync.docs[k], s)} IN
            writers # {} /\ OneWave(s) => s \in sync.written]_vars

\* Every validation ends, at the plan and at the check, whatever the cluster does with the run: the
\* poll has a budget, and a call that fails throws (pollToDone).
ValidationEnds == \A u \in Units : run[u].phase \in Validating ~> run[u].phase \notin Validating

\* No unjudged unit passes, and where the cluster's calls come through no credential is left behind.
ValidationInv == TypeOK /\ NothingPassesUnjudged /\ CredentialsGo

\* The builds, databases and secrets that were admitted are the ones judged, a unit builds nothing of
\* another's, and what was admitted starts in order.
AdmittedIsJudged == RegisteredIsJudged /\ GatedBuildIsNew /\ PodsFindTheirSecrets

-----------------------------------------------------------------------------
(* What the comments say and the code does not keep. *)

\* However its calls fail, a Secret stands only beside the run that names it, where the next boot's
\* sweep, which lists runs alone, finds it (gate-runner-tekton.ts:388-390).  Broken by a reap whose
\* deleteSecret fails, and by a sweep that deletes the run of a validation about to create its Secret.
CredentialIsFindable == \A j \in Jobs : job[j].secret => job[j].run # "none"

\* Nothing that the approval froze and the registration commits moved under it (onboard-check.ts:16-20).
\* Broken by a head that moved the host, the patterns or the sender's entry.
RegisteredIsCurrent ==
    [][\A u \in Units : Registered(u) /\ books'[u].gated => books'[u] = Registration(Facts(Content[run[u].sha]), T(u).stage, TRUE)]_vars

=============================================================================
