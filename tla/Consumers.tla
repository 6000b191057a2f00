----------------------------- MODULE Consumers ------------------------------
(***************************************************************************)
(* The run definitions of ONE consumer unit over its stages: onboarding in *)
(* its four forms (deployable, build-only, the standing build-only unit    *)
(* again, CI-only), the three removals, adoption by name, and the changes  *)
(* of a standing consumer (suspend and resume, domain, release, secrets,   *)
(* size, restart). What the runs write: a stage file per stage and one     *)
(* build file for the unit in the books branch, a row per stage, a Vault   *)
(* entry per stage, objects on the cluster and at the build plane, DNS.    *)
(* A stage has its own life; the build file, the webhook, the release kit  *)
(* and the repository token belong to the unit and go with its last stage. *)
(* External: ArgoCD, the build pipeline, the operator's secret store.      *)
(***************************************************************************)
EXTENDS RunChain, FiniteSets

CONSTANTS Stages,     \* the stages the unit can stand at
          Releases,   \* the releases of its repository
          Domains,    \* the domains a stage can ask for; 0 is none
          Starts      \* how a behaviour begins: the kinds of run in it and how many, the stages, the
                      \* releases and the forms of release they name, the stages that stand, those
                      \* whose row was lost, the domains whose zones the DNS provider manages
                      \* (none where no provider is configured)

ASSUME ConsumersAssumption ==
    /\ "free" \notin Stages /\ "other" \notin Stages /\ Releases \subseteq Nat \ {0} /\ Releases # {} /\ Domains \subseteq Nat /\ 0 \in Domains
    /\ \A b \in Starts : /\ b.at \subseteq Stages /\ b.on \subseteq Stages /\ b.lost \subseteq b.on
                        /\ b.rels \subseteq Releases /\ b.forms \subseteq BOOLEAN
                        /\ b.zones \subseteq Domains \ {0}

VARIABLES stage,      \* per stage: its file, its row and everything that stands of it
          unit,       \* the build file, and what the unit has one of
          zone,       \* per domain in a zone managed here: the stage whose CNAME stands there and is
                      \* booked, or "other" for somebody else's record
          scope       \* how this behaviour began

world == <<stage, unit, zone, scope>>
vars == <<run, used, stage, unit, zone, scope>>

NoFile == [in |-> FALSE, suspended |-> FALSE, removing |-> FALSE, fqdn |-> 0, size |-> 0]
File == [NoFile EXCEPT !.in = TRUE]
NoBuild == [in |-> FALSE, suspended |-> FALSE, by |-> 0, builds |-> FALSE]
CONSUMER_LIVE_STATUS == {"active", "suspended"}
Foreign == MaxPlans + 1     \* the id of a run before this behaviour

\* What a stage has one of, and what the unit has one of.
Databases == {"postgres", "mongodb", "redis", "mariadb"}
StageObjects == Databases \cup {"credential", "grant", "host", "namespace"}
UnitObjects == {"hook", "kit", "pat", "namespace"}

Nowhere ==
    [file |-> NoFile, row |-> "none", app |-> FALSE, shown |-> [rel |-> 0, off |-> FALSE], objects |-> {},
     entry |-> 0, admin |-> FALSE, branch |-> 0, wanted |-> 0, value |-> [vault |-> 0, secret |-> 0, pod |-> 0]]

\* A stage whose onboarding has ended.
Standing(first) ==
    [Nowhere EXCEPT !.file = File, !.row = "active", !.app = TRUE, !.shown.rel = first, !.objects = StageObjects,
                    !.entry = Foreign, !.admin = TRUE, !.branch = first,
                    !.value = [vault |-> Foreign, secret |-> Foreign, pod |-> Foreign]]

\* One type invariant: what a stage, the unit and a domain can be.
TypeOK ==
    /\ \A s \in Stages :
           /\ stage[s].row \in {"none", "provisioning", "offboarded"} \cup CONSUMER_LIVE_STATUS
           /\ stage[s].file.in = FALSE => stage[s].file = NoFile
           /\ stage[s].file.fqdn \in Domains /\ stage[s].file.size \in 0..1
           /\ stage[s].objects \subseteq StageObjects
           /\ {stage[s].branch, stage[s].wanted, stage[s].shown.rel} \subseteq {0} \cup Releases
           /\ {stage[s].entry, stage[s].value.vault, stage[s].value.secret, stage[s].value.pod} \subseteq 0..Foreign
           /\ stage[s].entry = 0 => stage[s].value.vault = 0
    /\ unit.build.by \in 0..Foreign /\ unit.objects \subseteq UnitObjects
    /\ zone \in [Domains -> Stages \cup {"free", "other"}]

Init ==
    /\ NoRuns
    /\ \E b \in Starts : LET first == CHOOSE rel \in Releases : \A x \in Releases : rel <= x IN
           /\ scope = b
           /\ stage = [s \in Stages |-> IF s \in b.lost THEN [Standing(first) EXCEPT !.row = "none"]
                                        ELSE IF s \in b.on THEN Standing(first) ELSE Nowhere]
           /\ unit = IF b.on = {} THEN [build |-> NoBuild, objects |-> {}]
                     ELSE [build |-> [in |-> TRUE, suspended |-> FALSE, by |-> Foreign, builds |-> TRUE],
                           objects |-> UnitObjects]
    /\ zone = [d \in Domains |-> "free"]

-----------------------------------------------------------------------------
\* The books (Registrations).

readUnitStages == {s \in Stages : stage[s].file.in}

\* A unit object stays while the unit is registered at a stage other than the one that goes.
unitStaysRegistered(s) == readUnitStages \ {s} # {}

isCiOnly == unit.build.in /\ ~unit.build.builds /\ readUnitStages = {}

\* Mutant: a suspend stops the build whatever the other stages do.
MutantFlipSuspended(s, off, id) ==
    /\ stage[s].file.in
    /\ stage' = [stage EXCEPT ![s].file.suspended = off]
    /\ unit' = [unit EXCEPT !.build.suspended = off]

\* flip of `suspended`, which carries the build file: it is off once every stage is, on again with one.
FlipSuspended(s, off, id) ==
    LET stops == off /\ \A t \in readUnitStages \ {s} : stage[t].file.suspended IN
    /\ stage[s].file.in
    /\ stage' = [stage EXCEPT ![s].file.suspended = off]
    /\ unit' = IF ~unit.build.in \/ unit.build.suspended = stops THEN unit
               ELSE [unit EXCEPT !.build.suspended = stops, !.build.by = id]

\* commitRegistration: the build file always, the stage file with it, whose domain the standing one keeps.
CommitRegistration(s, id) ==
    /\ stage' = [stage EXCEPT ![s].file = [File EXCEPT !.fqdn = stage[s].file.fqdn]]
    /\ unit' = [unit EXCEPT !.build = [in |-> TRUE, suspended |-> FALSE, by |-> id, builds |-> TRUE]]

\* removeRegistration: the stage file, and the build file with the last of them.
RemoveRegistration(s) ==
    /\ stage' = [stage EXCEPT ![s].file = NoFile]
    /\ unit' = IF readUnitStages \subseteq {s} THEN [unit EXCEPT !.build = NoBuild] ELSE unit

\* removeBuildRegistration: never under a stage; an inverse removes only what its own run wrote.
RemoveBuildRegistration(ids) ==
    unit' = IF readUnitStages = {} /\ unit.build.by \in ids THEN [unit EXCEPT !.build = NoBuild] ELSE unit

-----------------------------------------------------------------------------
\* Planning. A step names its stage; ck is what the run's steps have checkpointed.

Steps(s, names) == [i \in DOMAIN names |-> [s |-> names[i], g |-> s, by |-> "own"]]
Undoing(s, names) == [i \in DOMAIN names |-> [s |-> names[i], g |-> s, by |-> "abort"]]

unitLocks == {"books", "master-kube"}
consumerLocks == {"books", "cluster-branch", "master-kube"}

Asks(r, kind, s, from, to, claims, names) ==
    /\ kind \in scope.kinds /\ used.plans < scope.plans
    /\ Plans(r, [kind |-> kind, s |-> s, from |-> from, to |-> to, id |-> used.plans + 1, ck |-> {}],
             claims, Steps(s, names))
    /\ UNCHANGED world

releaseSteps(existing) ==
    IF existing THEN <<"put-release">> ELSE <<"trigger-release", "watch-release-build">>

\* The deployable form, with a manifest that declares an activation.
deployableSteps(existing) ==
    <<"attest-target", "preflight-scopes", "check", "record-provisional", "clear-leftover-branch",
      "write-registration", "seed-secrets", "seed-postgres", "seed-mongodb", "seed-redis", "seed-mariadb",
      "seed-repo-pat", "provision-repo-credential",
      "await-build-namespace", "provision-smtp-ops-grant", "provision-dns", "inject-release-kit",
      "setup-webhook", "await-unit-fences">>
    \o releaseSteps(existing) \o <<"watch-deployment", "smoke", "record-inventory", "activate">>

buildOnlySteps ==
    <<"preflight-scopes", "check", "write-build-registration", "seed-repo-pat", "await-build-namespace",
      "inject-release-kit", "setup-webhook">>
    \o releaseSteps(FALSE) \o <<"record-unit">>

standingBuildOnlySteps ==
    <<"preflight-scopes", "check", "re-attest-builds", "inject-release-kit">> \o releaseSteps(FALSE)
    \o <<"record-unit">>

ciOnlySteps ==
    <<"preflight-scopes", "write-build-registration", "seed-repo-pat", "await-build-namespace",
      "setup-webhook", "record-unit">>

PlanOnboard(r) == \E s \in scope.at, rel \in scope.rels, existing \in scope.forms :
    Asks(r, "onboard", s, existing, rel, consumerLocks, deployableSteps(existing))

\* hasStandingBuildOnly: never over a stage; over a build file that runs, the unit is attested again.
hasStandingBuildOnly == readUnitStages = {} /\ unit.build.in /\ ~unit.build.suspended

PlanBuildOnly(r) == \E s \in scope.at, rel \in scope.rels :
    /\ readUnitStages = {}
    /\ IF unit.build.in
       THEN /\ hasStandingBuildOnly
            /\ Asks(r, "standing-build", s, FALSE, rel, unitLocks, standingBuildOnlySteps)
       ELSE Asks(r, "build-only", s, FALSE, rel, unitLocks, buildOnlySteps)

\* A CI-only onboarding creates a unit and never changes a standing one.
planCiOnly(r) == \E s \in scope.at :
    /\ readUnitStages = {} /\ ~unit.build.in
    /\ Asks(r, "ci-only", s, FALSE, 0, unitLocks, ciOnlySteps)

\* By the stage's row; a row that reads offboarded is planned for as well.
HasRow(s) == stage[s].row # "none"

offboardSteps ==
    <<"attest-app", "mark-removing", "watch-removal", "remove-registration", "delete-repo-credential",
      "delete-smtp-ops-grant", "delete-namespace", "remove-dns", "remove-webhook", "remove-release-kit",
      "remove-repo-pat", "remove-app-secrets", "remove-database-secrets", "assert-no-orphans",
      "record-offboard">>

PlanOffboard(r) == \E s \in scope.at :
    HasRow(s) /\ Asks(r, "offboard", s, 0, 0, consumerLocks, offboardSteps)

\* By name: with a row or without one, and whatever the row says.
purgeSteps ==
    <<"purge-attest-target", "purge-mark-removing", "purge-watch-removal", "purge-remove-registration",
      "purge-delete-repo-credential", "purge-delete-smtp-ops-grant", "purge-delete-namespace",
      "purge-remove-webhook", "purge-remove-dns", "purge-remove-release-kit", "purge-remove-repo-pat",
      "purge-remove-app-secrets", "purge-remove-database-secrets", "purge-assert-no-orphans", "record-purge">>

PlanPurge(r) == \E s \in scope.at : Asks(r, "purge", s, 0, 0, consumerLocks, purgeSteps)

offboardCiOnlySteps ==
    <<"attest-ci-only", "ci-remove-webhook", "ci-remove-registration", "ci-watch-removal", "ci-remove-repo-pat",
      "ci-assert-no-orphans", "record-unit">>

PlanOffboardCiOnly(r) == \E s \in scope.at :
    isCiOnly /\ Asks(r, "ci-offboard", s, 0, 0, unitLocks, offboardCiOnlySteps)

\* findUnsettledRow: only a stage no row tracks is adopted; the cluster itself is not claimed.
Tracked(s) == stage[s].row \notin {"none", "offboarded"}

PlanAdopt(r) == \E s \in scope.at :
    /\ ~Tracked(s)
    /\ Asks(r, "adopt", s, 0, 0, {"books", "cluster-branch"},
            <<"adopt-attest-target", "read-pointer", "attest-live", "adopt-record-inventory">>)

PlanSuspend(r) == \E s \in scope.at, off \in BOOLEAN :
    /\ HasRow(s)
    /\ Asks(r, IF off THEN "suspend" ELSE "resume", s, 0, off, consumerLocks,
            <<"attest-app", "record-switch", "switch-registration", "watch-converged">>)

\* No run of this consumer under way, the domain that stands is the one the request names, and the new
\* one is held by no other stage. (A run of a stage names it as its target, an onboarding or a purge the
\* cluster.)
HeldElsewhere(s, d) == d # 0 /\ \E t \in Stages \ {s} : stage[t].file.fqdn = d
findActiveRunOn(s) == \E q \in Runs : Holding(q) /\ Param(q).s = s
                                      /\ Param(q).kind \notin {"onboard", "build-only", "purge", "adopt"}

PlanDomain(r) == \E s \in scope.at, d \in Domains :
    /\ stage[s].row = "active" /\ stage[s].file.in /\ ~findActiveRunOn(s)
    /\ <<stage[s].file.fqdn, d>> # <<0, 0>> /\ ~HeldElsewhere(s, d)
    /\ Asks(r, "domain", s, stage[s].file.fqdn, d, consumerLocks,
            <<"attest-app", "provision-domain-record", "write-domain", "retire-previous-domain">>)

PlanRelease(r) == \E s \in scope.at, rel \in scope.rels :
    /\ HasRow(s) /\ stage[s].branch # rel
    /\ Asks(r, "release", s, 0, rel, {"master-kube"},
            <<"attest-app", "inject-release-kit", "put-release", "watch-delivery">>)

PlanSecrets(r) == \E s \in scope.at :
    /\ HasRow(s)
    /\ Asks(r, "secrets", s, 0, 0, {"master-kube"},
            <<"attest-app", "write-secrets", "refetch-secrets", "restart-workloads">>)

PlanSize(r) == \E s \in scope.at, size \in 0..1 :
    /\ HasRow(s)
    /\ Asks(r, "size", s, 0, size, consumerLocks, <<"attest-app", "write-size">>)

PlanRestart(r) == \E s \in scope.at :
    /\ HasRow(s)
    /\ Asks(r, "restart", s, 0, 0, {"master-kube"}, <<"attest-app", "restart-workloads">>)

-----------------------------------------------------------------------------
\* Steps. The stage of a step is On(r); most write one stage and nothing else.

Writes(r, next) ==
    /\ stage' = [stage EXCEPT ![On(r)] = next]
    /\ Done(r)
    /\ UNCHANGED <<unit, zone, scope>>

Passes(r) == Done(r) /\ UNCHANGED world

\* A wait records what it waits for and ends without an answer.
TimesOut(r, mark) ==
    /\ Fails(r, [run[r] EXCEPT !.p.ck = @ \cup {mark}])
    /\ UNCHANGED world

\* The calls of the adapters, each on what stands of one stage or of the unit. All converge: a call that
\* finds its work done changes nothing.

\* Vault: a create-only write, the merge into an entry that stands, the hard delete of all its versions.
seedApp(st, id) == IF st.entry # 0 THEN st ELSE [st EXCEPT !.entry = id, !.value.vault = id]
patchApp(st, id) == [st EXCEPT !.value.vault = IF st.entry = 0 THEN @ ELSE id]

deleteApp(st) == [st EXCEPT !.entry = 0, !.value.vault = 0, !.admin = FALSE]
putConsumerLeaf(st, database) == [st EXCEPT !.objects = @ \cup {database}]
deleteConsumerLeaves(st) == [st EXCEPT !.objects = @ \ Databases]
putBuildRepoPat(u) == [u EXCEPT !.objects = @ \cup {"pat"}]
deleteBuildRepoPat(u) == [u EXCEPT !.objects = @ \ {"pat"}]

\* The clusters: ArgoCD's repository credential, the mail role and its binding, the namespace, the render
\* of the entry, a rolled restart, and what the smoke reads back.
applyRepoCredential(st) == [st EXCEPT !.objects = @ \cup {"credential"}]
deleteRepoCredential(st) == [st EXCEPT !.objects = @ \ {"credential"}]
applyBuildRbac(st) == [st EXCEPT !.objects = @ \cup {"grant"}]
deleteBuildRbac(st) == [st EXCEPT !.objects = @ \ {"grant"}]
deleteNamespace(st) == [st EXCEPT !.objects = @ \ {"namespace"}]
refreshExternalSecret(st) == [st EXCEPT !.value.secret = 0]
restartWorkloads(st) == [st EXCEPT !.value.pod = 0]
smoke(st) == "namespace" \in st.objects /\ st.entry # 0

\* GitHub: the one hook at the listener, the release kit's commit, the deploy branch, the release workflow.
ensureHook(u) == [u EXCEPT !.objects = @ \cup {"hook"}]
deleteHook(u) == [u EXCEPT !.objects = @ \ {"hook"}]
commitKit(u) == [u EXCEPT !.objects = @ \cup {"kit"}]
deleteKit(u) == [u EXCEPT !.objects = @ \ {"kit"}]
deleteBranch(st) == [st EXCEPT !.branch = 0]
dispatchWorkflow(st, release) == [st EXCEPT !.wanted = release]

\* The build plane's release run has settled; the one activation call of a new consumer.
awaitReleaseRun(st) == st.wanted = 0
invoke(st) == [st EXCEPT !.admin = TRUE]

\* The platform host's record of a stage.
provisionUnitDns(st) == [st EXCEPT !.objects = @ \cup {"host"}]
removeUnitDns(st) == [st EXCEPT !.objects = @ \ {"host"}]

\* A unit object is set up, or removed with the last stage; an error at its removal is only logged.
SetsUp(r, next) ==
    /\ unit' = next
    /\ Done(r)
    /\ UNCHANGED <<stage, zone, scope>>

TakesDown(r, next, stays) ==
    /\ unit' \in IF stays THEN {unit} ELSE {unit, next}
    /\ Done(r)
    /\ UNCHANGED <<stage, zone, scope>>

-----------------------------------------------------------------------------
\* Onboarding.

\* The target cluster answers, and is the one this manager deployed.
AttestTarget(r) == At(r, "attest-target") /\ Passes(r)

\* The same of a run that names an app row, whose cluster it reads off the row.
AttestApp(r) == At(r, "attest-app") /\ HasRow(On(r)) /\ Passes(r)

\* The repository's token can do what the run needs; the repository still is what was approved.
PreflightScopes(r) == At(r, "preflight-scopes") /\ Passes(r)
Check(r) == At(r, "check") /\ Passes(r)

\* upsertAppRow of a provisional write: a status that stands is kept, a settled one begins again.
upsertProvisional(row) == IF row \in {"none", "offboarded"} THEN "provisioning" ELSE row

RecordProvisional(r) ==
    /\ At(r, "record-provisional")
    /\ Writes(r, [stage[On(r)] EXCEPT !.row = upsertProvisional(@)])

\* A deploy branch that stands without a registration is a former unit's.
ClearLeftoverBranch(r) ==
    /\ At(r, "clear-leftover-branch")
    /\ ~stage[On(r)].file.in
    /\ Writes(r, deleteBranch(stage[On(r)]))

deployableOnboardCleanups(s) ==
    Undoing(s, <<"undo-mark-removing", "undo-watch-prune", "undo-remove-registration", "undo-smtp-ops-grant",
                 "undo-repo-credential", "remove-unit-dns", "undo-webhook", "settle-provisional-row">>)

\* The cleanups are registered before the commit, which a failed pass may not have reached.
WriteRegistration(r) ==
    /\ At(r, "write-registration")
    /\ \/ /\ CommitRegistration(On(r), Param(r).id)
          /\ DoneArmed(r, deployableOnboardCleanups(On(r)))
       \/ /\ Fails(r, [run[r] EXCEPT !.armed = deployableOnboardCleanups(On(r))])
          /\ UNCHANGED <<stage, unit>>
    /\ UNCHANGED <<zone, scope>>

\* Create-only. Its inverse is registered after the create, and only on one; the first token stays in
\* this pass's memory.
SeedSecrets(r) ==
    /\ At(r, "seed-secrets")
    /\ IF stage[On(r)].entry # 0
       THEN Passes(r)
       ELSE /\ stage' = [stage EXCEPT ![On(r)] = seedApp(@, Param(r).id)]
            /\ \/ Settles(r, [run[r] EXCEPT !.armed = Undoing(On(r), <<"remove-ceremony-secrets">>) \o @,
                                            !.mem = @ \cup {"token"}])
               \/ Fails(r, run[r])
            /\ UNCHANGED <<unit, zone, scope>>

\* The credentials of the databases the manifest asks for: PostgreSQL, MongoDB, Redis and MariaDB.
SeedPostgres(r) == At(r, "seed-postgres") /\ Writes(r, putConsumerLeaf(stage[On(r)], "postgres"))
SeedMongodb(r) == At(r, "seed-mongodb") /\ Writes(r, putConsumerLeaf(stage[On(r)], "mongodb"))
SeedRedis(r) == At(r, "seed-redis") /\ Writes(r, putConsumerLeaf(stage[On(r)], "redis"))
SeedMariadb(r) == At(r, "seed-mariadb") /\ Writes(r, putConsumerLeaf(stage[On(r)], "mariadb"))

SeedRepoPat(r) == At(r, "seed-repo-pat") /\ SetsUp(r, putBuildRepoPat(unit))

ProvisionRepoCredential(r) ==
    /\ At(r, "provision-repo-credential")
    /\ Writes(r, applyRepoCredential(stage[On(r)]))

AwaitBuildNamespace(r) ==
    /\ At(r, "await-build-namespace")
    /\ "namespace" \in unit.objects
    /\ Passes(r)

ProvisionSmtpOpsGrant(r) == At(r, "provision-smtp-ops-grant") /\ Writes(r, applyBuildRbac(stage[On(r)]))

ProvisionDns(r) == At(r, "provision-dns") /\ Writes(r, provisionUnitDns(stage[On(r)]))

InjectReleaseKit(r) == At(r, "inject-release-kit") /\ SetsUp(r, commitKit(unit))

SetupWebhook(r) == At(r, "setup-webhook") /\ SetsUp(r, ensureHook(unit))

\* The AppProject and the admission policy that render from the stage file.
AwaitUnitFences(r) == At(r, "await-unit-fences") /\ stage[On(r)].file.in /\ Passes(r)

\* The workflow is dispatched; a repeated pass dispatches it again. The standing form proves its unit
\* once more before it does.
TriggerRelease(r) ==
    /\ At(r, "trigger-release")
    /\ Param(r).kind = "standing-build" => hasStandingBuildOnly
    /\ Writes(r, dispatchWorkflow(stage[On(r)], Param(r).to))

\* The release run has settled; its tag stays in this pass's memory.
WatchReleaseBuild(r) ==
    /\ At(r, "watch-release-build")
    /\ awaitReleaseRun(stage[On(r)])
    /\ DoneRemembering(r, "tag") /\ UNCHANGED world

\* A release that exists is put on the stage again: dispatched once, by the checkpoint, then awaited.
PutRelease(r) ==
    /\ At(r, "put-release")
    /\ IF "dispatched" \in Param(r).ck
       THEN /\ awaitReleaseRun(stage[On(r)])
            /\ DoneRemembering(r, "tag") /\ UNCHANGED world
       ELSE /\ stage' = [stage EXCEPT ![On(r)] = dispatchWorkflow(@, Param(r).to)]
            /\ \/ run' = [run EXCEPT ![r].p.ck = @ \cup {"dispatched"}] /\ UNCHANGED used
               \/ Fails(r, run[r])
            /\ UNCHANGED <<unit, zone, scope>>

\* The delivered release: what the deploy branch pins and the Application is synced at.
Delivered(s) == stage[s].app /\ stage[s].branch # 0 /\ stage[s].shown.rel = stage[s].branch

\* The release to wait for is the one this pass's memory has, or the one an earlier pass wrote down; a
\* later release of the repository is as good.
WatchDeployment(r) ==
    /\ At(r, "watch-deployment")
    /\ Remembers(r, "tag") \/ "wanted" \in Param(r).ck
    /\ \/ Delivered(On(r)) /\ Passes(r)
       \/ TimesOut(r, "wanted")

\* The namespace, its pods and its ExternalSecrets.
Smoke(r) ==
    /\ At(r, "smoke")
    /\ smoke(stage[On(r)])
    /\ Passes(r)

RecordInventory(r) ==
    /\ At(r, "record-inventory")
    /\ Writes(r, [stage[On(r)] EXCEPT !.row = "active"])

\* A new token for a retry: merged into the entry, rendered again, read by rolled pods.
rotateBootstrapToken(s) ==
    restartWorkloads(refreshExternalSecret(patchApp(stage[s], Foreign)))

\* No token in memory and no word that an earlier pass had one: the activation is passed over. Else the
\* one call is made with the token, or with a new one.
Activate(r) ==
    /\ At(r, "activate")
    /\ IF ~Remembers(r, "token") /\ "minted" \notin Param(r).ck
       THEN Passes(r)
       ELSE \/ /\ stage' = [stage EXCEPT ![On(r)] =
                               invoke(IF Remembers(r, "token") THEN stage[On(r)] ELSE rotateBootstrapToken(On(r)))]
               /\ Settles(r, [run[r] EXCEPT !.p.ck = @ \cup {"minted"}])
               /\ UNCHANGED <<unit, zone, scope>>
            \/ TimesOut(r, "minted")

\* The build-only and the CI-only form: a build file no other run wrote, and no stage.
WriteBuildRegistration(r) ==
    LET undo == Undoing(On(r), <<"remove-build-registration", "remove-build-webhook">>) IN
    /\ At(r, "write-build-registration")
    /\ readUnitStages = {} /\ unit.build.by \in {0, Param(r).id}
    /\ \/ /\ unit' = [unit EXCEPT !.build = [in |-> TRUE, suspended |-> unit.build.suspended, by |-> Param(r).id,
                                             builds |-> Param(r).kind = "build-only"]]
          /\ DoneArmed(r, undo)
       \/ Fails(r, [run[r] EXCEPT !.armed = undo]) /\ UNCHANGED unit
    /\ UNCHANGED <<stage, zone, scope>>

\* The standing unit's builds are attested again, under the build file as it stands.
ReAttestBuilds(r) ==
    /\ At(r, "re-attest-builds")
    /\ hasStandingBuildOnly /\ "namespace" \in unit.objects
    /\ unit' = IF unit.build.builds THEN unit
               ELSE [unit EXCEPT !.build.builds = TRUE, !.build.by = Param(r).id]
    /\ Done(r)
    /\ UNCHANGED <<stage, zone, scope>>

RecordUnit(r) == At(r, "record-unit") /\ Passes(r)

Onboarding(r) ==
    \/ AttestTarget(r) \/ AttestApp(r) \/ PreflightScopes(r) \/ Check(r) \/ RecordProvisional(r) \/ ClearLeftoverBranch(r)
    \/ WriteRegistration(r) \/ SeedSecrets(r) \/ SeedPostgres(r) \/ SeedMongodb(r) \/ SeedRedis(r) \/ SeedMariadb(r) \/ SeedRepoPat(r)
    \/ ProvisionRepoCredential(r) \/ AwaitBuildNamespace(r) \/ ProvisionSmtpOpsGrant(r) \/ ProvisionDns(r)
    \/ InjectReleaseKit(r) \/ SetupWebhook(r) \/ AwaitUnitFences(r) \/ TriggerRelease(r)
    \/ WatchReleaseBuild(r) \/ PutRelease(r) \/ WatchDeployment(r) \/ Smoke(r) \/ RecordInventory(r)
    \/ Activate(r) \/ WriteBuildRegistration(r) \/ ReAttestBuilds(r) \/ RecordUnit(r)

-----------------------------------------------------------------------------
\* Removal: the offboarding by its row, the purge by name, and the inverses of an aborted onboarding go
\* over the same things, each in steps of its own.

\* A file that stands and is not marked yet: the ApplicationSet passes over it from here on.
MarksRemoving(r) ==
    Writes(r, IF stage[On(r)].file.in THEN [stage[On(r)] EXCEPT !.file.removing = TRUE] ELSE stage[On(r)])

MarkRemoving(r) == At(r, "mark-removing") /\ MarksRemoving(r)
PurgeMarkRemoving(r) == At(r, "purge-mark-removing") /\ MarksRemoving(r)
UndoMarkRemoving(r) == At(r, "undo-mark-removing") /\ MarksRemoving(r)

\* ArgoCD has pruned the Application. The purge waits as long as its budget, and goes on.
WatchRemoval(r) == At(r, "watch-removal") /\ ~stage[On(r)].app /\ Passes(r)
PurgeWatchRemoval(r) == At(r, "purge-watch-removal") /\ Passes(r)
UndoWatchPrune(r) == At(r, "undo-watch-prune") /\ ~stage[On(r)].app /\ Passes(r)

RemovesRegistration(r) ==
    /\ IF stage[On(r)].file.in THEN RemoveRegistration(On(r)) ELSE UNCHANGED <<stage, unit>>
    /\ Done(r)
    /\ UNCHANGED <<zone, scope>>

RemoveRegistrationStep(r) == At(r, "remove-registration") /\ RemovesRegistration(r)
PurgeRemoveRegistration(r) == At(r, "purge-remove-registration") /\ RemovesRegistration(r)
UndoRemoveRegistration(r) == At(r, "undo-remove-registration") /\ RemovesRegistration(r)

\* The removal runs pass over an error here; an abort insists.
TriesToDelete(r, next) == Writes(r, next) \/ Passes(r)

DeleteRepoCredential(r) == At(r, "delete-repo-credential") /\ TriesToDelete(r, deleteRepoCredential(stage[On(r)]))
DeleteSmtpOpsGrant(r) == At(r, "delete-smtp-ops-grant") /\ TriesToDelete(r, deleteBuildRbac(stage[On(r)]))
PurgeDeleteRepoCredential(r) ==
    At(r, "purge-delete-repo-credential") /\ TriesToDelete(r, deleteRepoCredential(stage[On(r)]))
PurgeDeleteSmtpOpsGrant(r) ==
    At(r, "purge-delete-smtp-ops-grant") /\ TriesToDelete(r, deleteBuildRbac(stage[On(r)]))
UndoRepoCredential(r) == At(r, "undo-repo-credential") /\ Writes(r, deleteRepoCredential(stage[On(r)]))
UndoSmtpOpsGrant(r) == At(r, "undo-smtp-ops-grant") /\ Writes(r, deleteBuildRbac(stage[On(r)]))
DeleteNamespace(r) == At(r, "delete-namespace") /\ Writes(r, deleteNamespace(stage[On(r)]))
PurgeDeleteNamespace(r) == At(r, "purge-delete-namespace") /\ Writes(r, deleteNamespace(stage[On(r)]))

\* The platform host's record, whoever it is booked for, and every other record booked for the stage.
removeBookedRecords(r) ==
    /\ stage' = [stage EXCEPT ![On(r)] = removeUnitDns(@)]
    /\ zone' = [d \in Domains |-> IF zone[d] = On(r) THEN "free" ELSE zone[d]]
    /\ Done(r)
    /\ UNCHANGED <<unit, scope>>

RemoveDns(r) == At(r, "remove-dns") /\ removeBookedRecords(r)
PurgeRemoveDns(r) == At(r, "purge-remove-dns") /\ removeBookedRecords(r)

\* The abort takes back the platform host's record alone.
RemoveUnitDns(r) == At(r, "remove-unit-dns") /\ Writes(r, removeUnitDns(stage[On(r)]))

\* Mutant: the webhook goes with the first stage that leaves.
MutantRemoveConsumerWebhook(r) == TakesDown(r, deleteHook(unit), FALSE)

\* removeConsumerWebhook and removeReleaseKit, where the unit does not stay registered.
removeConsumerWebhook(r) == TakesDown(r, deleteHook(unit), unitStaysRegistered(On(r)))
removeReleaseKit(r) == TakesDown(r, deleteKit(unit), unitStaysRegistered(On(r)))

RemoveWebhook(r) == At(r, "remove-webhook") /\ removeConsumerWebhook(r)
PurgeRemoveWebhook(r) == At(r, "purge-remove-webhook") /\ removeConsumerWebhook(r)
UndoWebhook(r) == At(r, "undo-webhook") /\ removeConsumerWebhook(r)
RemoveReleaseKit(r) == At(r, "remove-release-kit") /\ removeReleaseKit(r)
PurgeRemoveReleaseKit(r) == At(r, "purge-remove-release-kit") /\ removeReleaseKit(r)

RemovesRepoPat(r, stays) ==
    /\ unit' = IF stays THEN unit ELSE deleteBuildRepoPat(unit)
    /\ Done(r)
    /\ UNCHANGED <<stage, zone, scope>>

RemoveRepoPat(r) == At(r, "remove-repo-pat") /\ RemovesRepoPat(r, unitStaysRegistered(On(r)))
PurgeRemoveRepoPat(r) == At(r, "purge-remove-repo-pat") /\ RemovesRepoPat(r, unitStaysRegistered(On(r)))

\* The whole entry, all its versions, and the book of what was written into it.
RemoveAppSecrets(r) == At(r, "remove-app-secrets") /\ Writes(r, deleteApp(stage[On(r)]))
RemoveCeremonySecrets(r) == At(r, "remove-ceremony-secrets") /\ Writes(r, deleteApp(stage[On(r)]))
PurgeRemoveAppSecrets(r) == At(r, "purge-remove-app-secrets") /\ Writes(r, deleteApp(stage[On(r)]))

RemoveDatabaseSecrets(r) == At(r, "remove-database-secrets") /\ Writes(r, deleteConsumerLeaves(stage[On(r)]))
PurgeRemoveDatabaseSecrets(r) == At(r, "purge-remove-database-secrets") /\ Writes(r, deleteConsumerLeaves(stage[On(r)]))

\* assertNoOrphans reads back what nothing else would take away.
assertNoOrphans(s) == ~stage[s].file.in /\ stage[s].objects \cap {"credential", "grant", "host"} = {}

AssertNoOrphans(r) == At(r, "assert-no-orphans") /\ assertNoOrphans(On(r)) /\ Passes(r)
PurgeAssertNoOrphans(r) == At(r, "purge-assert-no-orphans") /\ assertNoOrphans(On(r)) /\ Passes(r)
PurgeAttestTarget(r) == At(r, "purge-attest-target") /\ Passes(r)

RecordOffboard(r) == At(r, "record-offboard") /\ Writes(r, [stage[On(r)] EXCEPT !.row = "offboarded"])

RecordPurge(r) ==
    /\ At(r, "record-purge")
    /\ Writes(r, [stage[On(r)] EXCEPT !.row = IF @ = "none" THEN @ ELSE "offboarded"])

\* The row an aborted onboarding wrote; a row that is no longer provisioning is not its to settle.
SettleProvisionalRow(r) ==
    /\ At(r, "settle-provisional-row")
    /\ Writes(r, [stage[On(r)] EXCEPT !.row = IF @ = "provisioning" THEN "offboarded" ELSE @])

\* The aborted build-only or CI-only onboarding takes back its own build file; the webhook stays while
\* the unit is registered at all.
RemoveBuildRegistrationCleanup(r) ==
    /\ At(r, "remove-build-registration")
    /\ RemoveBuildRegistration({Param(r).id})
    /\ Done(r)
    /\ UNCHANGED <<stage, zone, scope>>

RemoveBuildWebhook(r) ==
    /\ At(r, "remove-build-webhook")
    /\ TakesDown(r, deleteHook(unit), unit.build.in \/ readUnitStages # {})

AttestCiOnly(r) == At(r, "attest-ci-only") /\ isCiOnly /\ Passes(r)
CiRemoveWebhook(r) == At(r, "ci-remove-webhook") /\ TakesDown(r, deleteHook(unit), FALSE)

CiRemoveRegistration(r) ==
    /\ At(r, "ci-remove-registration")
    /\ RemoveBuildRegistration(1..Foreign)
    /\ Done(r)
    /\ UNCHANGED <<stage, zone, scope>>

CiWatchRemoval(r) == At(r, "ci-watch-removal") /\ "namespace" \notin unit.objects /\ Passes(r)
CiRemoveRepoPat(r) == At(r, "ci-remove-repo-pat") /\ RemovesRepoPat(r, FALSE)

CiAssertNoOrphans(r) ==
    /\ At(r, "ci-assert-no-orphans")
    /\ ~unit.build.in /\ unit.objects \cap {"namespace", "hook"} = {}
    /\ Passes(r)

Removal(r) ==
    \/ MarkRemoving(r) \/ WatchRemoval(r) \/ RemoveRegistrationStep(r) \/ DeleteRepoCredential(r)
    \/ DeleteSmtpOpsGrant(r) \/ DeleteNamespace(r) \/ RemoveDns(r) \/ RemoveWebhook(r)
    \/ RemoveReleaseKit(r) \/ RemoveRepoPat(r) \/ RemoveAppSecrets(r) \/ RemoveDatabaseSecrets(r)
    \/ AssertNoOrphans(r) \/ RecordOffboard(r)
    \/ AttestCiOnly(r) \/ CiRemoveWebhook(r) \/ CiRemoveRegistration(r) \/ CiWatchRemoval(r)
    \/ CiRemoveRepoPat(r) \/ CiAssertNoOrphans(r)

Purging(r) ==
    \/ PurgeAttestTarget(r) \/ PurgeMarkRemoving(r) \/ PurgeWatchRemoval(r) \/ PurgeRemoveRegistration(r)
    \/ PurgeDeleteRepoCredential(r) \/ PurgeDeleteSmtpOpsGrant(r) \/ PurgeDeleteNamespace(r)
    \/ PurgeRemoveWebhook(r) \/ PurgeRemoveDns(r) \/ PurgeRemoveReleaseKit(r) \/ PurgeRemoveRepoPat(r)
    \/ PurgeRemoveAppSecrets(r) \/ PurgeRemoveDatabaseSecrets(r) \/ PurgeAssertNoOrphans(r) \/ RecordPurge(r)

Undone(r) ==
    \/ RemoveCeremonySecrets(r) \/ UndoMarkRemoving(r) \/ UndoWatchPrune(r) \/ UndoRemoveRegistration(r)
    \/ UndoSmtpOpsGrant(r) \/ UndoRepoCredential(r) \/ RemoveUnitDns(r) \/ UndoWebhook(r)
    \/ SettleProvisionalRow(r) \/ RemoveBuildRegistrationCleanup(r) \/ RemoveBuildWebhook(r)

-----------------------------------------------------------------------------
\* Adoption, and the changes of a standing consumer.

AdoptAttestTarget(r) == At(r, "adopt-attest-target") /\ Passes(r)
ReadPointer(r) == At(r, "read-pointer") /\ ~Tracked(On(r)) /\ stage[On(r)].file.in /\ Passes(r)

\* What the cluster says is written down and refuses nothing.
AttestLive(r) == At(r, "attest-live") /\ Passes(r)

AdoptRecordInventory(r) ==
    /\ At(r, "adopt-record-inventory")
    /\ stage[On(r)].file.in
    /\ Writes(r, [stage[On(r)] EXCEPT !.row = IF stage[On(r)].file.suspended THEN "suspended" ELSE "active"])

\* The row moves before the file, and says what the file will.
RecordSwitch(r) ==
    /\ At(r, "record-switch")
    /\ Writes(r, [stage[On(r)] EXCEPT !.row = IF Param(r).to THEN "suspended" ELSE "active"])

SwitchRegistration(r) ==
    /\ At(r, "switch-registration")
    /\ FlipSuspended(On(r), Param(r).to, Param(r).id)
    /\ Done(r)
    /\ UNCHANGED <<zone, scope>>

\* The file still asks for this render, the Application renders it, and the workloads followed.
WatchConverged(r) ==
    /\ At(r, "watch-converged")
    /\ stage[On(r)].file.in /\ stage[On(r)].file.suspended = Param(r).to
    /\ stage[On(r)].app /\ stage[On(r)].shown.off = Param(r).to
    /\ Passes(r)

\* The record of a domain for a stage: made, found booked, or found as the operator set it and booked;
\* somebody else's refuses. Without a provider, or where it does not manage the zone, the operator is told
\* which record to set.
provisionDomainRecord(d, s) ==
    \/ d \notin scope.zones /\ zone' = zone
    \/ d \in scope.zones /\ zone[d] \in {"free", s} /\ zone' = [zone EXCEPT ![d] = s]

\* The new domain's record, whose inverse is registered first.
ProvisionDomainRecord(r) ==
    LET d == Param(r).to IN
    /\ At(r, "provision-domain-record")
    /\ ~HeldElsewhere(On(r), d)
    /\ IF d = 0 THEN Passes(r)
       ELSE /\ provisionDomainRecord(d, On(r))
            /\ DoneArmed(r, Undoing(On(r), <<"remove-new-domain-record">>))
            /\ UNCHANGED <<stage, unit, scope>>

\* The domain that stands is the one the plan found, or the one a repeated pass wrote.
WriteDomain(r) ==
    LET st == stage[On(r)] IN
    /\ At(r, "write-domain")
    /\ st.row \notin {"provisioning", "offboarded", "suspended"} /\ st.file.in
    /\ st.file.fqdn \in {Param(r).from, Param(r).to}
    /\ stage' = [stage EXCEPT ![On(r)].file.fqdn = Param(r).to]
    /\ DoneArmed(r, Undoing(On(r), <<"restore-domain">>) \o run[r].armed)
    /\ UNCHANGED <<unit, zone, scope>>

\* The consumer answers at the new domain: the previous one's record goes, where it is booked for it.
RetirePreviousDomain(r) ==
    LET d == Param(r).from IN
    /\ At(r, "retire-previous-domain")
    /\ zone' = IF d # 0 /\ d # Param(r).to /\ zone[d] = On(r) THEN [zone EXCEPT ![d] = "free"] ELSE zone
    /\ Done(r)
    /\ UNCHANGED <<stage, unit, scope>>

RestoreDomain(r) ==
    /\ At(r, "restore-domain")
    /\ stage[On(r)].file.in
    /\ Writes(r, [stage[On(r)] EXCEPT !.file.fqdn = Param(r).from])

RemoveNewDomainRecord(r) ==
    LET d == Param(r).to IN
    /\ At(r, "remove-new-domain-record")
    /\ d = 0 \/ stage[On(r)].file.in
    /\ zone' = IF d # 0 /\ stage[On(r)].file.fqdn # d /\ zone[d] = On(r)
               THEN [zone EXCEPT ![d] = "free"] ELSE zone
    /\ Done(r)
    /\ UNCHANGED <<stage, unit, scope>>

\* The branch stands on the release, and the Application is synced there.
WatchDelivery(r) ==
    /\ At(r, "watch-delivery")
    /\ stage[On(r)].branch = Param(r).to /\ Delivered(On(r))
    /\ Passes(r)

\* patchApp merges the typed and the minted values into the entry.
WriteSecrets(r) ==
    /\ At(r, "write-secrets")
    /\ stage[On(r)].entry # 0
    /\ Writes(r, patchApp(stage[On(r)], Param(r).id))

RefetchSecrets(r) == At(r, "refetch-secrets") /\ Writes(r, refreshExternalSecret(stage[On(r)]))
RestartWorkloads(r) == At(r, "restart-workloads") /\ Writes(r, restartWorkloads(stage[On(r)]))

WriteSize(r) ==
    /\ At(r, "write-size")
    /\ stage[On(r)].file.in
    /\ Writes(r, [stage[On(r)] EXCEPT !.file.size = Param(r).to])

Changes(r) ==
    \/ AdoptAttestTarget(r) \/ ReadPointer(r) \/ AttestLive(r) \/ AdoptRecordInventory(r) \/ RecordSwitch(r) \/ SwitchRegistration(r)
    \/ WatchConverged(r) \/ ProvisionDomainRecord(r) \/ WriteDomain(r) \/ RetirePreviousDomain(r)
    \/ RestoreDomain(r) \/ RemoveNewDomainRecord(r) \/ WatchDelivery(r) \/ WriteSecrets(r)
    \/ RefetchSecrets(r) \/ RestartWorkloads(r) \/ WriteSize(r)

-----------------------------------------------------------------------------
\* Mutant: the abort of an onboarding is refused to nobody.
MutantAssertOnboardAbortable(s) == stage[s].row # "lost"

\* Refused where the registration stands and the row is live, or its Application is up and healthy.
assertOnboardAbortable(s) ==
    stage[s].file.in => /\ stage[s].row \notin CONSUMER_LIVE_STATUS
                        /\ ~(Delivered(s) /\ stage[s].entry # 0)

\* Refused once the previous domain's record, in a zone managed here, is gone.
assertDomainAbortable(s, from, to) == from \in {0, to} \/ from \notin scope.zones \/ zone[from] # "free"

\* Asked only of a run that has something to undo.
Abort(r) ==
    /\ run[r].st = "failed"
    /\ run[r].armed # <<>> =>
           /\ Param(r).kind = "onboard" => assertOnboardAbortable(Param(r).s)
           /\ Param(r).kind = "domain" => assertDomainAbortable(Param(r).s, Param(r).from, Param(r).to)
    /\ Aborts(r)
    /\ UNCHANGED world

\* External: ArgoCD generates the Application of a file that is not marked, syncs it, prunes the rest,
\* and makes the namespace of what it syncs.
Argo(s) ==
    LET st == stage[s]
        up == st.file.in /\ ~st.file.removing
        next == [st EXCEPT !.app = up,
                           !.shown = IF up THEN [rel |-> st.branch, off |-> st.file.suspended]
                                     ELSE [rel |-> 0, off |-> FALSE],
                           !.objects = IF up THEN @ \cup {"namespace"} ELSE @]
    IN  /\ next # st
        /\ stage' = [stage EXCEPT ![s] = next]
        /\ UNCHANGED <<run, used, unit, zone, scope>>

\* External: the build ApplicationSet follows the build file.
BuildArgo ==
    LET next == IF unit.build.in THEN unit.objects \cup {"namespace"} ELSE unit.objects \ {"namespace"} IN
    /\ next # unit.objects
    /\ unit' = [unit EXCEPT !.objects = next]
    /\ UNCHANGED <<run, used, stage, zone, scope>>

\* External: a dispatched release goes through the webhook to the build plane, which puts the stage's
\* branch on it.
Deliver(s) ==
    /\ stage[s].wanted # 0 /\ UnitObjects \subseteq unit.objects /\ unit.build.in /\ ~unit.build.suspended
    /\ stage' = [stage EXCEPT ![s].branch = stage[s].wanted, ![s].wanted = 0]
    /\ UNCHANGED <<run, used, unit, zone, scope>>

\* External: the operator's store renders the entry where no Secret stands; a pod that starts reads it.
Render(s) ==
    LET v == stage[s].value IN
    /\ stage[s].app
    /\ \/ v.secret = 0 /\ v.vault # 0 /\ stage' = [stage EXCEPT ![s].value.secret = v.vault]
       \/ v.pod = 0 /\ v.secret # 0 /\ stage' = [stage EXCEPT ![s].value.pod = v.secret]
    /\ UNCHANGED <<run, used, unit, zone, scope>>

\* External: somebody else sets or removes a record where none of ours stands.
OtherHands(d) ==
    /\ zone[d] \in {"free", "other"}
    /\ zone' = [zone EXCEPT ![d] = IF zone[d] = "free" THEN "other" ELSE "free"]
    /\ UNCHANGED <<run, used, stage, unit, scope>>

Plan(r) ==
    /\ run[r].st = "idle" /\ used.plans < scope.plans
    /\ \/ PlanOnboard(r) \/ PlanBuildOnly(r) \/ planCiOnly(r) \/ PlanOffboard(r) \/ PlanPurge(r)
       \/ PlanOffboardCiOnly(r) \/ PlanAdopt(r) \/ PlanSuspend(r) \/ PlanDomain(r) \/ PlanRelease(r)
       \/ PlanSecrets(r) \/ PlanSize(r) \/ PlanRestart(r)

Next ==
    \/ \E r \in Runs :
           \/ Plan(r) \/ Onboarding(r) \/ Removal(r) \/ Purging(r) \/ Undone(r) \/ Changes(r) \/ Abort(r)
           \/ (Managed(r) /\ UNCHANGED world)
    \/ \E s \in Stages : Argo(s) \/ Deliver(s) \/ Render(s)
    \/ BuildArgo
    \/ \E d \in scope.zones : OtherHands(d)

Spec == Init /\ [][Next]_vars

-----------------------------------------------------------------------------
Live(st) == st.row \in CONSUMER_LIVE_STATUS /\ st.file.in

\* A run of one of these kinds was asked for at this stage, and is at work on what it was asked for.
Asked(s, ks) == \E r \in Runs : run[r].st = "running" /\ ~run[r].undo /\ Param(r).kind \in ks /\ Param(r).s = s

\* What the unit has one of does not go from under a stage that stands: the removal, the abort or the
\* repeated pass of one stage's run leaves a live stage its build file, its webhook, its kit, its token.
LiveStageCanRelease ==
    [][\A s \in Stages :
          (Live(stage[s]) /\ (\/ unit.build.in /\ ~unit'.build.in
                             \/ (unit.objects \ unit'.objects) \cap {"hook", "kit", "pat"} # {}))
              => Asked(s, {"offboard", "purge"})]_vars

\* While a stage runs, the unit builds: a pause of one stage, a removal or a new stage never stops the
\* releases of another.
RunningStageBuilds ==
    \A s \in Stages : (stage[s].file.in /\ ~stage[s].file.suspended) => unit.build.in /\ ~unit.build.suspended

\* A row that reads offboarded is the record of a stage that left nothing behind which no later run would
\* look for: no file, no repository credential, no mail grant, no address.
OffboardedLeftNothing ==
    \A s \in Stages : stage[s].row = "offboarded" =>
        ~stage[s].file.in /\ stage[s].objects \cap {"credential", "grant", "host"} = {}

\* Of a live stage, only the removal that was asked for takes the deployment down; and the file goes only
\* once ArgoCD has pruned the Application, because the fences it is deleted under render from the file.
\* A purge alone goes on without that.
TakenDownOnlyByItsRemoval ==
    [][\A s \in Stages :
          /\ (stage[s].row \in CONSUMER_LIVE_STATUS /\ ~stage[s].file.removing /\ stage'[s].file.removing)
                 => Asked(s, {"offboard", "purge"})
          /\ (stage[s].file.in /\ ~stage'[s].file.in /\ stage[s].app) => Asked(s, {"purge"})]_vars

\* A run that ends has brought about what it was for: the render that was asked for, and pods that start
\* with the values that were written.
EndedChangeStands ==
    [][\A r \in Runs : (run[r].st = "running" /\ ~run[r].undo /\ run'[r].st = "idle") =>
          LET st == stage[Param(r).s] IN
          /\ Param(r).kind \in {"suspend", "resume"} => st.file.suspended = Param(r).to
          /\ Param(r).kind = "secrets" => st.value.pod \in {0, st.value.vault} /\ st.value.secret \in {0, st.value.vault}
      ]_vars

\* The record of the domain a stage's file names stands and is this stage's, where the domain's zone is
\* managed here. In any other zone the record is the operator's.
Recorded(s) == stage[s].file.fqdn \in scope.zones => zone[stage[s].file.fqdn] = s

\* In the zones managed here, no step takes the record away from under the domain a file names or puts a
\* file on a domain without its record: not a failed, repeated or aborted move, to or from a zone that is
\* not managed, not the removal of another stage, not a record somebody else set. One step can, the abort
\* of a move planned before another one was made: restore-domain goes back to the domain the plan found,
\* which another stage may have taken since.
DomainKeepsItsRecord ==
    [][(\A s \in Stages : Recorded(s)) =>
          \/ (\A s \in Stages : Recorded(s))'
          \/ \E r \in Runs : At(r, "restore-domain") /\ Param(r).from \in scope.zones /\ zone[Param(r).from] # On(r)]_vars

\* What assertDomainFree says of the domain a consumer takes: one domain carries one record, so that it
\* serves one unit at one stage.
DomainHasItsRecord == \A s \in Stages : Recorded(s)

\* What the header of onboard-activate.ts says of a retry: the run that minted the first token activates
\* the consumer, with a new token where the first is lost.
MintedIsActivated ==
    [][\A r \in Runs : (/\ run[r].st = "running" /\ ~run[r].undo /\ run'[r].st = "idle"
                        /\ Param(r).kind = "onboard" /\ stage[Param(r).s].entry = Param(r).id) =>
          stage[Param(r).s].admin]_vars

\* What record-offboard's soft state means: a stage that left comes back by an onboarding or an adoption.
OffboardedStaysOffboarded ==
    [][\A s \in Stages : (stage[s].row = "offboarded" /\ stage'[s].row \in CONSUMER_LIVE_STATUS) =>
          \E r \in Runs : run[r].st = "running" /\ Param(r).kind \in {"onboard", "adopt"} /\ Param(r).s = s]_vars

\* The rule of Registrations.flip, the other way round: a unit all of whose stages are suspended does not
\* build.
SuspendedUnitDoesNotBuild ==
    (readUnitStages # {} /\ \A s \in readUnitStages : stage[s].file.suspended) => unit.build.suspended

\* The stages of a unit, its build file and its rows agree at every step of every run.
ConsumerInv == TypeOK /\ RunningStageBuilds /\ OffboardedLeftNothing

\* What a removal may take and what a change must leave.
RemovalsAndChanges == TakenDownOnlyByItsRemoval /\ EndedChangeStands /\ DomainKeepsItsRecord

=============================================================================
