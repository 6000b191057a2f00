-------------------------------- MODULE Gates --------------------------------
(* What the gates compute: the gate runner's judgement of one checkout (gate-runner/src), the
   Manager's own gates beside it (server/domains/units/gates, validate.ts) and the tenant gates
   (validate-tenant.ts).  A repository is a record of what the gates tell apart; a rendered document
   is a record of its kind, the env it was rendered for, its sync wave and what it reads or writes.

   A target t is [name, stage, chartPath, apex, vault]: the unit and stage to onboard, whether a
   chart directory came with the request, and whether the cluster's values chain states the apex and
   the vault address.  A report is [ran, failed, manifest, fence]: the gates that judged the
   checkout, those that failed, whether it carries the parsed manifest, and the sandbox's own probe. *)
EXTENDS Integers, Sequences, FiniteSets, FiniteSetsExt, Functions

WaveFloor == -10

PostRenderGates == {"G6", "G7", "G8", "G22", "G30"}
ManifestFedGates == {"G16", "G18", "G24", "G27"}

-----------------------------------------------------------------------------
(* The gates that read files. *)

\* The manifest's own schema: fields, forms and what they demand of each other.
parseManifest(rp) == rp.manifest = "valid"

\* The checkout is refused at the first thing that does not hold, and no manifest comes out of it.
checkStructure(rp, t) ==
    /\ parseManifest(rp)
    /\ rp.name = t.name
    /\ rp.repo = rp.name
    /\ rp.chart => t.chartPath
    /\ t.chartPath /\ rp.chartYaml # "absent" => rp.chartYaml = "named"
    /\ rp.chart => rp.chartYaml # "absent" /\ (rp.envs = {} \/ rp.base) /\ rp.envs \subseteq rp.overlays
    /\ t.stage \in rp.envs

\* A forbidden token counts inside a template action, not in a comment or in plain text.
determinismGate(rp, t) == t.chartPath => "action" \notin rp.tokens

\* A lock with a digest pins everything; without one each dependency is vendored at an exact version.
checkDependencyLock(rp) ==
    /\ rp.chartYaml # "absent"
    /\ rp.lock # "unlocked"
    /\ rp.lock = "none" => \A d \in rp.deps : d.local /\ d.exact /\ d.vendored

\* The chain's cluster map states the apex, the dependencies build, and every declared env renders
\* with no missing value and passes the schemas.  `spent': the job's budget ran out under helm.
runRender(rp, t, spent) ==
    /\ checkDependencyLock(rp)
    /\ t.apex
    /\ ~spent
    /\ \A env \in rp.envs : rp.render[env] = "ok"

-----------------------------------------------------------------------------
(* The gates that read rendered documents, those of every declared env in one sequence. *)

Docs(rp) == {rp.docs[i] : i \in DOMAIN rp.docs}
OfKind(docs, kinds) == {d \in docs : d.kind \in kinds}

\* Both tokens stand in the claim's sync options; a StatefulSet's templates are not Argo's to prune.
dataProtectionGate(rp) ==
    \A d \in OfKind(Docs(rp), {"PersistentVolumeClaim"}) : {"Prune=false", "Delete=false"} \subseteq d.options

\* A store talks to the cluster's vault in the consumer's role, and logs in as a ServiceAccount the
\* chart renders with this unit and stage on it.
checkStore(d, t, accounts) ==
    /\ d.server = "chain"
    /\ d.roles = {"consumer-eso"}
    /\ d.refs # {}
    /\ \A ref \in d.refs : \E sa \in accounts : sa.name = ref /\ sa.unit = t.name /\ sa.stage = t.stage

\* A reader of secrets is read on change, from this unit's own path, for declared keys only.
checkExternalSecret(rp, d) ==
    /\ d.policy = "OnChange"
    /\ d.path = "own"
    /\ d.properties \subseteq rp.secrets

\* Only the stage being onboarded is judged: the others' vault paths are not known here.
secretContractGate(rp, t) ==
    LET here == {d \in Docs(rp) : d.env = t.stage} IN
    /\ t.vault
    /\ \A d \in OfKind(here, {"SecretStore"}) : checkStore(d, t, OfKind(here, {"ServiceAccount"}))
    /\ \A d \in OfKind(here, {"ExternalSecret"}) : checkExternalSecret(rp, d)

\* A digest, or a tag that is not latest; none at all is latest.
isProvablyImmutable(image) == image \in {"digest", "tag"}

imageDisciplineGate(rp) ==
    \A d \in OfKind(Docs(rp), {"Workload"}) : \A image \in d.images : isProvablyImmutable(image)

\* No wave below the floor, and no hook that runs before every wave reads the database's Secret.
databaseSyncOrderingGate(rp) ==
    \A d \in Docs(rp) :
        /\ d.wave >= WaveFloor
        /\ ~("PreSync" \in d.hooks /\ d.kind = "Workload" /\ "postgresql-credentials" \in d.reads)

\* The Secret a document has written when it is synced, and the last document that writes it: the map
\* is filled over the whole sequence, each writer taking the place of the one before.
Writers == {"ServiceClaim", "ExternalSecret"}
Writes(d, s) == d.kind \in Writers /\ d.writes = s
WriterOf(docs, s) ==
    docs[CHOOSE i \in DOMAIN docs : Writes(docs[i], s) /\ \A j \in DOMAIN docs : Writes(docs[j], s) => j <= i]

\* A workload skipped by Argo or run after every wave is passed over; any other stands in a later
\* wave than the writer of each written Secret it reads, and is no PreSync hook.
readSyncOrder(docs) ==
    \A i \in DOMAIN docs :
        LET d == docs[i] IN
        d.kind = "Workload" /\ "Skip" \notin d.hooks
            /\ ~(d.hooks # {} /\ d.hooks \subseteq {"PostSync", "SyncFail", "PostDelete"}) =>
            \A s \in d.reads :
                (\E j \in DOMAIN docs : Writes(docs[j], s)) =>
                    "PreSync" \notin d.hooks /\ d.wave > WriterOf(docs, s).wave

secretSyncOrderingGate(rp) == readSyncOrder(rp.docs)

-----------------------------------------------------------------------------
(* The runner's report. *)

\* The probe: every leg of the fence, and the Manager's word that the targets listen.
sandboxGreen(fence) == fence.declared /\ fence.denied /\ fence.managerDenied /\ fence.reached

\* Every target of a list that is not empty is refused, so is the Manager, and the one allowed is met.
selfProbe(net) ==
    [declared |-> net.declared,
     denied |-> net.targets # {} /\ net.open \cap net.targets = {},
     managerDenied |-> "manager" \notin net.open,
     reached |-> "allowed" \in net.open]

\* Structure first, then the files; the render only after a structure that holds, its documents only
\* after a render that holds, and neither for a unit without a chart.
FailedGates(rp, t, spent) ==
    LET structure == checkStructure(rp, t)
        renders == structure /\ t.chartPath
        rendered == renders /\ runRender(rp, t, spent)
    IN  {g \in {"G1"} : ~structure} \cup {g \in {"G2"} : ~determinismGate(rp, t)}
        \cup {g \in {"G3"} : renders /\ ~rendered}
        \cup {g \in {"G6"} : rendered /\ ~dataProtectionGate(rp)}
        \cup {g \in {"G7"} : rendered /\ ~secretContractGate(rp, t)}
        \cup {g \in {"G8"} : rendered /\ ~imageDisciplineGate(rp)}
        \cup {g \in {"G22"} : rendered /\ ~databaseSyncOrderingGate(rp)}
        \cup {g \in {"G30"} : rendered /\ ~secretSyncOrderingGate(rp)}

RanGates(rp, t, spent) ==
    {"G1", "G2"} \cup (IF checkStructure(rp, t) THEN {"G3"} ELSE {})
        \cup (IF checkStructure(rp, t) /\ t.chartPath /\ runRender(rp, t, spent) THEN PostRenderGates ELSE {})

runGates(rp, t, fence, spent) ==
    [ran |-> RanGates(rp, t, spent), failed |-> FailedGates(rp, t, spent),
     manifest |-> checkStructure(rp, t), fence |-> fence]

\* A fence that does not hold keeps every gate away from the checkout.
fenceRefused(fence) == [ran |-> {"G25"}, failed |-> {"G25"}, manifest |-> FALSE, fence |-> fence]
runGateCli(rp, t, fence, spent) ==
    IF sandboxGreen(fence) THEN runGates(rp, t, fence, spent) ELSE fenceRefused(fence)

hardGatesPass(report) == report.failed = {}
assembleReport(report) == hardGatesPass(report) /\ sandboxGreen(report.fence)

-----------------------------------------------------------------------------
(* The Manager's own gates.  `books' are the other units' registrations as they were read. *)

gateUnitName(rp, t, labels, subdomains, reserved) ==
    t.name \notin reserved /\ rp.host \notin subdomains \cup labels

gateReleaseWorkflow(rp) == rp.workflow \in {"absent", "kit", "older-kit"}

gateBuildNameUniqueness(rp, attested) == rp.builds \cap attested = {}

\* Every declared build has a pin in the stage's values file, which may be unreadable or absent.
mapBuildsToChartPins(rp) == rp.pins # {"unreadable"} /\ rp.builds \subseteq rp.pins
gateBuildDeclaration(rp, t) == rp.builds # {} /\ (t.chartPath => mapBuildsToChartPins(rp))

\* A unit with a database of its own is not left at the frugal default.
gateUnitSize(rp, t) == t.chartPath /\ rp.ownData => t.size > 0

\* The zone as it answers: free, ours or a leftover pass; another cluster's, or no provider, do not.
gateUnitHost(t, zone) == t.chartPath /\ t.apex => zone \in {"free", "ours", "leftover"}

gateMailSender(rp, t, senders) == rp.smtp /\ t.chartPath => senders = {} /\ t.apiHost

\* The manifest decides whether the gates that read it run at all.
gateManifestInput(report) == report.manifest

composeReport(report, managerFailed) == [report EXCEPT !.failed = @ \cup managerFailed]

\* Chart present with a cluster picked, or neither.
formMismatch(rp, t) == rp.chart # t.chartPath

-----------------------------------------------------------------------------
(* What two units on one cluster may not share. *)

\* The names the provisioner serves: the manifest's at prod, with the stage's suffix elsewhere, and
\* nothing of a server of the unit's own.
servedSharedDatabases(claim, stage) ==
    IF claim.shared THEN {<<d, IF stage = "prod" THEN "" ELSE stage>> : d \in claim.databases} ELSE {}

\* Two key patterns meet when one's literal prefix begins the other's: here, patterns are sequences.
patternsOverlap(p, q) ==
    \A i \in 1 .. (IF Len(p) < Len(q) THEN Len(p) ELSE Len(q)) : p[i] = q[i]
sharedKeyPatterns(claim) == IF claim.redis THEN claim.patterns ELSE {}

sharedDataRefusal(claim, stage, others) ==
    \E o \in others :
        \/ servedSharedDatabases(claim, stage) \cap servedSharedDatabases(o.claim, o.stage) # {}
        \/ \E p \in sharedKeyPatterns(claim), q \in sharedKeyPatterns(o.claim) : patternsOverlap(p, q)

\* A manifest's secret may come from the installation's store, which must hold it.
refuseMissingStoreSecrets(rp, stored) == ~(rp.fromStore \subseteq stored)

-----------------------------------------------------------------------------
(* The unit that is onboarded before there is anything to gate with. *)

admitFirstMasterUngated(platformUnit, name, buildOnly, registered, master) ==
    platformUnit = name /\ buildOnly /\ registered = {} /\ master

readUngatedOnboard(rp, t) == parseManifest(rp) /\ rp.name = t.name /\ ~rp.chart /\ rp.builds # {}

-----------------------------------------------------------------------------
(* The tenant gates, over the members of a bundle rendered at a throwaway guid.  A bundle tb is
   [manifest, block, members, render, docs, catalog, quota]: the renders of each member, and their
   documents in one sequence that names the member of each. *)

gateT1Manifest(tb) == tb.manifest = "valid" /\ tb.block

gateT2Render(tb) == \A m \in tb.members : tb.render[m]

Escaping == {"ClusterRole", "Application", "Role", "Secret"}

\* Confined to the member's namespace, no tenant claim but the tenant's own, and no kind that is
\* cluster-wide, Argo's, a role, or an inline Secret.
Confined(d) == d.ns \in {"", "own"} /\ d.claim \in {"", "own"} /\ d.kind \notin Escaping

\* An aggregate is judged by its items, never itself.
evaluate(d) == IF d.items # {} THEN \A i \in d.items : Confined(i) ELSE Confined(d)

gateT3Isolation(tb) == \A i \in DOMAIN tb.docs : evaluate(tb.docs[i])

\* The catalog names the app's folder, its site where it serves one, and every selection it chooses.
catalogRejection(tb, a) ==
    \/ a.folder \notin DOMAIN tb.catalog
    \/ a.site # "" /\ a.site \notin tb.catalog[a.folder].sites
    \/ ~(a.chosen \subseteq tb.catalog[a.folder].selections)

\* Each app is in the catalog (a standing tenant's are not asked), collides with no standing member
\* and no other app, and all its renders stand.
gateT4Apps(tb, apps, standing) ==
    \A i \in DOMAIN apps :
        LET a == apps[i] IN
        /\ standing \/ ~catalogRejection(tb, a)
        /\ a.name \notin tb.standingMembers
        /\ \A j \in DOMAIN apps : apps[j].name = a.name => j = i
        /\ a.name \in tb.members /\ tb.render[a.name]

\* The most pods a workload has at once: its replicas, and a Deployment's surge, a percentage rounded up.
widest(d) ==
    IF d.kind = "StatefulSet" \/ d.strategy = "Recreate" THEN d.replicas
    ELSE d.replicas + (IF d.surgePercent THEN (d.replicas * d.surge + 99) \div 100 ELSE d.surge)

\* Each pod at the larger of its containers' sum and its largest init container.
fitOf(tb, m) ==
    LET sized == {i \in DOMAIN tb.docs : tb.docs[i].member = m /\ tb.docs[i].kind \in {"Deployment", "StatefulSet"}}
        cost(d) == widest(d) * (IF d.main > d.init THEN d.main ELSE d.init)
    IN  [pods |-> MapThenSumSet(LAMBDA i : widest(tb.docs[i]), sized),
         sum |-> MapThenSumSet(LAMBDA i : cost(tb.docs[i]), sized),
         declared |-> \A i \in sized : tb.docs[i].declared]

\* Every member fits its quota with one solver pod beside it.
gateT5Fit(tb) ==
    \A m \in tb.members :
        LET fit == fitOf(tb, m) IN
        fit.declared /\ fit.sum + tb.solver <= tb.quota.figure /\ fit.pods + 1 <= tb.quota.pods

MemberDocs(tb, m) == Restrict(tb.docs, {i \in DOMAIN tb.docs : tb.docs[i].member = m})
gateT6SecretOrder(tb) == \A m \in tb.members : readSyncOrder(MemberDocs(tb, m))

\* The other gates run only on a manifest that declares a fan-out; the commit is judged either way.
validateTenant(tb, apps, standing, zone) ==
    /\ gateT1Manifest(tb)
    /\ gateT2Render(tb) /\ gateT3Isolation(tb) /\ gateT4Apps(tb, apps, standing)
    /\ gateT5Fit(tb) /\ gateT6SecretOrder(tb)
    /\ zone \in {"free", "ours", "leftover"}

=============================================================================
