------------------------------ MODULE Tenants -------------------------------
(***************************************************************************)
(* The run definitions that create, change and remove a tenant, over what  *)
(* they write: the tenant's registration in the books branch, its row in   *)
(* the inventory, its isolation objects on the cluster, its Vault entry,   *)
(* its object-storage keys and its DNS records. Every tenant run claims    *)
(* the same two locks (tenantLocks), so runs do not overlap; a plan is     *)
(* frozen long before it runs, and a failed run is retried, aborted or     *)
(* deleted with part of its work done.                                     *)
(* All tenants of the model ask for ONE subdomain, which is the case in    *)
(* which they can get in each other's way. The ApplicationSet controller   *)
(* (Argo) is external: it follows the registration when it gets to it.     *)
(***************************************************************************)
EXTENDS RunChain, FiniteSets

CONSTANTS Guids,      \* the tenants' guids, each minted by one create
          Apps,       \* the apps of the catalog
          Idp,        \* the member every tenant has
          Kinds,      \* the run kinds of the instance
          MaxMints    \* bound: bucket keys minted

ASSUME TenantsAssumption == Idp \notin Apps /\ MaxMints \in Nat /\ IsFiniteSet(Guids)

VARIABLES tenant,     \* per guid: what stands of it, in which place
          zone,       \* the CNAME of the subdomain's zone: standing, and for whom the book names it
          mints       \* the bucket keys minted so far

vars == <<run, used, tenant, zone, mints>>

Members == {Idp} \cup Apps

\* The two optional ports a purge may run without: what a wire-up of the Manager may lack.
Ports == {"seeder", "objectStore"}

NoReg == [apps |-> {}, bundle |-> FALSE, suspended |-> FALSE, in |-> FALSE]
Live == {"active", "suspended"}
Settled == {"offboarded", "purged"}
Status == {"none", "provisioning"} \cup Live \cup Settled

\* Every tenant run: the registrations' branch and the one master ArgoCD.
tenantLocks == {"deploy-branch", "master-kube"}

Nothing ==
    [reg |-> NoReg, row |-> "none", appRow |-> [a \in Apps |-> "none"],
     fan |-> {}, ns |-> {}, terminating |-> {}, project |-> {}, grant |-> {}, entry |-> 0, appKeys |-> {},
     bucketKeys |-> {}, unwired |-> {}, bundle |-> "none", issuer |-> FALSE]

\* One type invariant: what a tenant can be in each of its places, and what a run can be.
TypeOK ==
    /\ \A g \in Guids :
           /\ tenant[g].row \in Status
           /\ tenant[g].appRow \in [Apps -> Status]
           /\ tenant[g].reg.apps \subseteq Apps
           /\ tenant[g].reg.in = FALSE => tenant[g].reg = NoReg
           /\ tenant[g].fan \cup tenant[g].ns \cup tenant[g].project \cup tenant[g].grant \subseteq Members
           /\ tenant[g].terminating \subseteq tenant[g].ns
           /\ tenant[g].unwired \subseteq Ports
           /\ tenant[g].entry \in 0..MaxMints
           /\ tenant[g].bucketKeys \subseteq 1..mints
           /\ tenant[g].appKeys \subseteq Apps
           /\ tenant[g].bundle \in {"none", "repository", "tree", "registered"}
    /\ zone.for \in Guids \cup {"nobody"} /\ zone.up \in BOOLEAN
    /\ \A r \in Runs : run[r].st \in {"idle", "planned", "running", "failed"}

Init ==
    /\ NoRuns
    /\ tenant = [g \in Guids |-> Nothing]
    /\ zone = [up |-> FALSE, for |-> "nobody"]
    /\ mints = 0

-----------------------------------------------------------------------------
\* What the definitions read.

\* The members the registration names.
memberNames(t) == IF t.reg.in THEN {Idp} \cup t.reg.apps ELSE {}

\* Every member a row ever named, removed apps included: what a teardown reaps.
tenantTeardownMembers(t) ==
    IF t.row = "none" THEN {} ELSE {Idp} \cup {a \in Apps : t.appRow[a] # "none"}

\* The members a row says are deployed: what a wait on the fan-out asks for.
tenantWatchMembers(t) == {Idp} \cup {a \in Apps : t.appRow[a] \notin {"none"} \cup Settled}

\* resolveTeardownTarget: a guid nothing live names has no target.
Resolves(t) == t.row \notin {"none"} \cup Settled \/ t.reg.in
teardownMembers(t) == memberNames(t) \cup tenantTeardownMembers(t)

\* resolveReplaceTargets: every tenant of the subdomain that is not settled, by row or by pointer.
resolveReplaceTargets == {g \in Guids : Resolves(tenant[g])}

\* assertTenantNotLive: a live row refuses unless the registration is gone already.
tenantNotLive(g) == tenant[g].row \notin Live \/ ~tenant[g].reg.in

\* atLeastAsSettledAs: what a settle to status s leaves alone.
atLeastAsSettledAs(s) == IF s = "purged" THEN {"purged"} ELSE Settled

\* A settle of the tenant row and its app rows, never a downgrade.
SettleRows(t, s) ==
    [t EXCEPT !.row = IF @ \in {"none"} \cup atLeastAsSettledAs(s) THEN @ ELSE s,
              !.appRow = [a \in Apps |-> IF @[a] \in {"none"} \cup atLeastAsSettledAs(s)
                                         THEN @[a] ELSE s]]

\* upsertTenantInventory: a provisional write names the tenant and leaves a status that stands; the
\* settled one makes the tenant and the chosen apps active.
upsertTenantInventory(t, apps, settle) ==
    [t EXCEPT !.row = IF settle THEN "active" ELSE IF @ = "none" THEN "provisioning" ELSE @,
              !.appRow = [a \in Apps |-> IF a \notin apps THEN @[a]
                                         ELSE IF settle THEN "active"
                                         ELSE IF @[a] = "none" THEN "provisioning" ELSE @[a]]]

\* The Applications of these members read Synced and Healthy: generated, admitted by the project,
\* their ExternalSecrets resolved, and the render switched on.
Serving(t, ms) ==
    ms \subseteq (t.fan \cap t.project) /\ t.entry # 0 /\ (ms \cap Apps) \subseteq t.appKeys
    /\ ~t.reg.suspended

-----------------------------------------------------------------------------
\* The step lists. A step names the tenant it is about and the flavour it runs in.

Own(g, names) == [i \in DOMAIN names |-> [s |-> names[i], g |-> g, by |-> "own"]]
Flavour(by, g, names) == [i \in DOMAIN names |-> [s |-> names[i], g |-> g, by |-> by]]

\* tenantTeardownSteps with the cascade of its caller: only a purge deletes the tenant's identity.
teardownNames(by) ==
    IF by = "purge"
    THEN <<"remove-apps-registration", "remove", "watch-prune", "delete-projects", "delete-namespaces",
           "delete-tenant-crypto", "withdraw-bucket-keys", "purge-remove-dns", "verify-prune", "record">>
    ELSE <<"remove-apps-registration", "remove", "watch-prune", "delete-projects", "remove-issuer-records",
           "record">>

TenantTeardown(by, g) == Flavour(by, g, teardownNames(by))

\* Some order of the tenants a create replaces.
Orders(targets) ==
    {f \in [1..Cardinality(targets) -> targets] :
        /\ \A i, j \in DOMAIN f : f[i] = f[j] => i = j
        /\ \A h \in targets : \E i \in DOMAIN f : f[i] = h}

\* One teardown after the other, each of six steps.
ReplaceSteps(targets) ==
    LET order == CHOOSE f \in Orders(targets) : TRUE IN
    [i \in 1..6 * Cardinality(targets) |->
        TenantTeardown("replace", order[1 + ((i - 1) \div 6)])[1 + ((i - 1) % 6)]]

AppsRepo == <<"create-repository", "write-tree", "onboard-build-only">>

createTenantSteps(g, apps, replaces) ==
    Own(g, <<"attest-target", "ensure-subdomain-free", "record-provisional">>)
    \o ReplaceSteps(replaces)
    \o Own(g, <<"build-unit">> \o (IF apps = {} THEN <<>> ELSE AppsRepo) \o <<"seed-tenant-crypto">>
              \o (IF apps = {} THEN <<>> ELSE <<"refresh-images">>)
              \o <<"ensure-images", "apply-appprojects", "provision-argo-sync", "provision-dns",
                   "write-registration", "watch-sync-set", "smoke", "record-inventory", "activate">>)

addAppSteps(g) ==
    Own(g, <<"attest-target", "build-unit">> \o AppsRepo
           \o <<"record-apps-repo", "refresh-images", "ensure-images", "apply-appproject",
                "extend-argo-sync", "seed-password-field-key", "append-app", "watch-sync-set",
                "smoke", "record-app">>)

suspendSteps(g) == Own(g, <<"attest-target", "suspend-tenant", "watch-off", "verify-off", "record-suspended">>)
resumeSteps(g) == Own(g, <<"attest-target", "resume-tenant", "watch-sync", "record-active">>)
removeAppSteps(g) ==
    Own(g, <<"attest-target", "remove-app-pointer", "watch-app-prune", "remove-last-apps-registration",
             "record-app-removed">>)
purgeAppSteps(g) == Own(g, <<"attest-target", "delete-app-objects", "delete-app-record">>)
offboardSteps(g) ==
    Own(g, <<"attest-target", "remove-apps-registration", "remove", "watch-removal",
             "delete-appprojects", "remove-dns", "record-offboard">>)
tenantPurgeSteps(g) == Own(g, <<"attest-purge">>) \o TenantTeardown("purge", g)

NoTargets == [h \in Guids |-> {}]

\* The frozen parameters: the app or the apps asked for, the members each teardown target had, and
\* whether a live row or pointer named the tenant (a purge knows its subdomain only then).
Asked(kind, g, apps, targets) ==
    [kind |-> kind, g |-> g, apps |-> apps, targets |-> targets, named |-> Resolves(tenant[g])]

Frees(g) == \A r \in Runs : run[r].st # "idle" => run[r].p.g # g

\* The create's planner: a fresh guid, the apps chosen, and the tenants it will replace, frozen.
PlanCreate(r) ==
    /\ "create" \in Kinds
    /\ \E g \in Guids, apps \in SUBSET Apps :
           /\ tenant[g] = Nothing /\ Frees(g)
           /\ LET replaces == resolveReplaceTargets
                  targets == [h \in Guids |-> IF h \in replaces THEN teardownMembers(tenant[h]) ELSE {}]
              IN  Plans(r, Asked("create", g, apps, targets), tenantLocks,
                        createTenantSteps(g, apps, replaces))
    /\ UNCHANGED <<tenant, zone, mints>>

\* add-app's planner: only onto a registered tenant that is on, an app it has not.
PlanAddApp(r) ==
    /\ "add-app" \in Kinds
    /\ \E g \in Guids, a \in Apps :
           /\ tenant[g].row # "none"
           /\ tenant[g].reg.in /\ ~tenant[g].reg.suspended /\ a \notin tenant[g].reg.apps
           /\ Plans(r, Asked("add-app", g, {a}, NoTargets), tenantLocks, addAppSteps(g))
    /\ UNCHANGED <<tenant, zone, mints>>

\* The lifecycle routes plan at once, by the tenant's row.
PlanLifecycle(r) ==
    /\ \E g \in Guids :
           /\ tenant[g].row # "none"
           /\ \/ /\ "offboard" \in Kinds
                 /\ Plans(r, Asked("offboard", g, {}, NoTargets), tenantLocks, offboardSteps(g))
              \/ /\ "suspend" \in Kinds /\ tenant[g].row # "provisioning"
                 /\ Plans(r, Asked("suspend", g, {}, NoTargets), tenantLocks, suspendSteps(g))
              \/ /\ "suspend" \in Kinds /\ tenant[g].row # "provisioning"
                 /\ Plans(r, Asked("resume", g, {}, NoTargets), tenantLocks, resumeSteps(g))
    /\ UNCHANGED <<tenant, zone, mints>>

PlanRemoveApp(r) ==
    /\ "remove-app" \in Kinds
    /\ \E g \in Guids, a \in Apps :
           /\ tenant[g].row \notin {"none", "provisioning"}
           /\ Plans(r, Asked("remove-app", g, {a}, NoTargets), tenantLocks, removeAppSteps(g))
    /\ UNCHANGED <<tenant, zone, mints>>

\* readLeftovers: an app removed from a standing tenant, of which nothing is deployed.
purgeableApp(g, a) ==
    /\ tenant[g].row \in Live
    /\ tenant[g].appRow[a] = "offboarded"
    /\ a \notin tenant[g].reg.apps
    /\ a \notin tenant[g].fan

PlanPurgeApp(r) ==
    /\ "remove-app" \in Kinds
    /\ \E g \in Guids, a \in Apps :
           /\ purgeableApp(g, a)
           /\ Plans(r, Asked("purge-app", g, {a}, NoTargets), tenantLocks, purgeAppSteps(g))
    /\ UNCHANGED <<tenant, zone, mints>>

\* The purge's planner: any guid, refused while it is live; its target is frozen as it reads now.
PlanPurge(r) ==
    /\ "purge" \in Kinds
    /\ \E g \in Guids :
           /\ tenant[g] # Nothing
           /\ tenantNotLive(g)
           /\ LET members == IF Resolves(tenant[g]) THEN teardownMembers(tenant[g])
                             ELSE tenantTeardownMembers(tenant[g]) IN
              Plans(r, Asked("purge", g, {}, [NoTargets EXCEPT ![g] = members]), tenantLocks,
                    tenantPurgeSteps(g))
    /\ UNCHANGED <<tenant, zone, mints>>

-----------------------------------------------------------------------------
\* The calls of the adapters, each on what stands of one tenant. All converge: a call that finds its
\* work done changes nothing.

\* ArgoCD's side of a member: its AppProject with the admission policy, and the mark of the issuer.
applyAppProject(t, members) == [t EXCEPT !.project = @ \cup members]
deleteAppProject(t, members) == [t EXCEPT !.project = @ \ members]
removeIssuerRecords(t) == [t EXCEPT !.issuer = FALSE]

\* The delete of a namespace is accepted, and the namespace ends when its finalizers let it.
deleteNamespace(t, members) == [t EXCEPT !.terminating = @ \cup (t.ns \cap members)]

\* Vault: create-only, and hard deletes. The object store: a key of the tenant's bucket, and their
\* withdrawal by the name they all carry.
seedTenantCrypto(t, key) == [t EXCEPT !.entry = IF @ = 0 THEN key ELSE @]
seedTenantAppKey(t, apps) == [t EXCEPT !.appKeys = @ \cup apps]
deleteTenantCrypto(t) == [t EXCEPT !.entry = 0]
deleteTenantAppKeys(t, apps) == [t EXCEPT !.appKeys = @ \ apps]
mintBucketKey(t, key) == [t EXCEPT !.bucketKeys = @ \cup {key}]
withdrawBucketKey(t, key) == [t EXCEPT !.bucketKeys = @ \ {key}]
withdrawBucketKeys(t) == [t EXCEPT !.bucketKeys = {}]

-----------------------------------------------------------------------------
\* The steps. A read-only step that passes changes nothing but the run; where it does not pass,
\* Throws is what happens instead.

Passes(r) == Done(r) /\ UNCHANGED <<tenant, zone, mints>>

\* A step that changes tenant g to t.
Writes(r, g, t) ==
    /\ tenant' = [tenant EXCEPT ![g] = t]
    /\ Done(r)
    /\ UNCHANGED <<zone, mints>>

\* The deploy-state of the target cluster is fresh (external): it is, or the run stops.
AttestTarget(r) == At(r, "attest-target") /\ Passes(r)

\* The belt: nobody but the tenants whose replacement was approved holds the subdomain now.
EnsureSubdomainFree(r) ==
    /\ At(r, "ensure-subdomain-free")
    /\ \A h \in resolveReplaceTargets \ {On(r)} : Param(r).targets[h] # {}
    /\ Passes(r)

\* The row first, and the whole inverse armed with it, before anything is deployed.
RecordProvisional(r) ==
    /\ At(r, "record-provisional")
    /\ LET g == On(r) IN
       /\ tenant' = [tenant EXCEPT ![g] = upsertTenantInventory(@, Param(r).apps, FALSE)]
       /\ DoneArmed(r, TenantTeardown("abort", g))
    /\ UNCHANGED <<zone, mints>>

\* The units the fan-out's images come from are built and released where they are not yet.
BuildUnit(r) == At(r, "build-unit") /\ Passes(r)

CreateRepository(r) ==
    /\ At(r, "create-repository")
    /\ Writes(r, On(r), [tenant[On(r)] EXCEPT !.bundle = IF @ = "none" THEN "repository" ELSE @])

WriteTree(r) ==
    /\ At(r, "write-tree")
    /\ Writes(r, On(r), [tenant[On(r)] EXCEPT !.bundle = IF @ = "repository" THEN "tree" ELSE @])

\* The bundle's unit is registered and built; the tag stays in this pass's memory.
OnboardBuildOnly(r) ==
    /\ At(r, "onboard-build-only")
    /\ tenant' = [tenant EXCEPT ![On(r)].bundle = "registered"]
    /\ DoneRemembering(r, "tag")
    /\ UNCHANGED <<zone, mints>>

\* Mutant: the key that is withdrawn again is the one the entry took.
MutantSeedTenantCrypto(r) ==
    /\ At(r, "seed-tenant-crypto")
    /\ mints < MaxMints
    /\ mints' = mints + 1
    /\ LET t == mintBucketKey(tenant[On(r)], mints + 1)
           u == seedTenantCrypto(t, mints + 1) IN
       tenant' = [tenant EXCEPT ![On(r)] = seedTenantAppKey(withdrawBucketKey(u, t.entry), Param(r).apps)]
    /\ Done(r)
    /\ UNCHANGED zone

\* A fresh bucket key is minted on every pass; the entry is create-only, and the key it did not take
\* is withdrawn again.
SeedTenantCrypto(r) ==
    /\ At(r, "seed-tenant-crypto")
    /\ mints < MaxMints
    /\ mints' = mints + 1
    /\ LET t == mintBucketKey(tenant[On(r)], mints + 1)
           u == IF t.entry = 0 THEN seedTenantCrypto(t, mints + 1) ELSE withdrawBucketKey(t, mints + 1) IN
       tenant' = [tenant EXCEPT ![On(r)] = seedTenantAppKey(u, Param(r).apps)]
    /\ Done(r)
    /\ UNCHANGED zone

\* provisionTenantStorage made the key, and the step died before the entry was written.
SeedTenantCryptoTorn(r) ==
    /\ At(r, "seed-tenant-crypto")
    /\ mints < MaxMints
    /\ mints' = mints + 1
    /\ tenant' = [tenant EXCEPT ![On(r)] = mintBucketKey(@, mints + 1)]
    /\ Fails(r, run[r])
    /\ UNCHANGED zone

\* The fan-out rendered against the pins the builds wrote: it needs the bundle's tag.
RefreshImages(r) == At(r, "refresh-images") /\ Remembers(r, "tag") /\ Passes(r)

\* Every image the fan-out pulls is in the registry.
EnsureImages(r) == At(r, "ensure-images") /\ Passes(r)

ApplyAppProjects(r) ==
    /\ At(r, "apply-appprojects")
    /\ Writes(r, On(r), applyAppProject(tenant[On(r)], {Idp} \cup Param(r).apps))

\* Over the members the registration names where there is one, else over the planned ones.
ProvisionArgoSync(r) ==
    /\ At(r, "provision-argo-sync")
    /\ LET planned == {Idp} \cup Param(r).apps
           t == tenant[On(r)] IN
       /\ t.reg.in => memberNames(t) = planned
       /\ Writes(r, On(r), [t EXCEPT !.grant = planned])

\* The zone's CNAME, upserted; the book is written only where the record did not stand already. Then
\* the issuer's mark, booked for this tenant.
ProvisionDns(r) ==
    /\ At(r, "provision-dns")
    /\ zone' = IF zone.up THEN zone ELSE [up |-> TRUE, for |-> On(r)]
    /\ tenant' = [h \in Guids |-> [tenant[h] EXCEPT !.issuer = (h = On(r))]]
    /\ Done(r)
    /\ UNCHANGED mints

\* With apps the registration needs the bundle's tag, which only this pass's memory has.
WriteRegistration(r) ==
    /\ At(r, "write-registration")
    /\ Param(r).apps # {} => Remembers(r, "tag")
    /\ Writes(r, On(r), [tenant[On(r)] EXCEPT
           !.reg = [apps |-> Param(r).apps, bundle |-> Param(r).apps # {}, suspended |-> FALSE,
                    in |-> TRUE]])

\* Every Application this run expects reads Synced and Healthy.
WatchSyncSet(r) ==
    /\ At(r, "watch-sync-set")
    /\ Serving(tenant[On(r)], Param(r).apps \cup (IF Param(r).kind = "create" THEN {Idp} ELSE {}))
    /\ Passes(r)

\* Every member namespace stands with its workloads and its secrets.
Smoke(r) ==
    /\ At(r, "smoke")
    /\ Param(r).apps \cup (IF Param(r).kind = "create" THEN {Idp} ELSE {}) \subseteq tenant[On(r)].ns
    /\ Passes(r)

RecordInventory(r) ==
    /\ At(r, "record-inventory")
    /\ Writes(r, On(r), upsertTenantInventory(tenant[On(r)], Param(r).apps, TRUE))

\* The invite of the first admin: it fails loud or changes nothing the Manager keeps.
Activate(r) == At(r, "activate") /\ Passes(r)

Create(r) ==
    \/ AttestTarget(r) \/ EnsureSubdomainFree(r) \/ RecordProvisional(r) \/ BuildUnit(r) \/ CreateRepository(r)
    \/ WriteTree(r) \/ OnboardBuildOnly(r) \/ SeedTenantCrypto(r) \/ SeedTenantCryptoTorn(r)
    \/ RefreshImages(r) \/ EnsureImages(r) \/ ApplyAppProjects(r) \/ ProvisionArgoSync(r)
    \/ ProvisionDns(r) \/ WriteRegistration(r) \/ WatchSyncSet(r) \/ Smoke(r)
    \/ RecordInventory(r) \/ Activate(r)

-----------------------------------------------------------------------------
\* tenant-add-app, remove-app, purge-app.

\* setTenantAppsRepo with the tag of this pass, where a registration stands.
RecordAppsRepo(r) ==
    /\ At(r, "record-apps-repo")
    /\ Remembers(r, "tag")
    /\ Writes(r, On(r), [tenant[On(r)] EXCEPT !.reg.bundle = @ \/ tenant[On(r)].reg.in])

ApplyAppProject(r) ==
    /\ At(r, "apply-appproject")
    /\ Writes(r, On(r), applyAppProject(tenant[On(r)], Param(r).apps))

ExtendArgoSync(r) ==
    /\ At(r, "extend-argo-sync")
    /\ tenant[On(r)].reg.in
    /\ Writes(r, On(r), [tenant[On(r)] EXCEPT !.grant = memberNames(tenant[On(r)]) \cup Param(r).apps])

SeedTenantAppKey(r) ==
    /\ At(r, "seed-password-field-key")
    /\ Writes(r, On(r), seedTenantAppKey(tenant[On(r)], Param(r).apps))

\* The inverse is armed before the append; an append that stands already is left alone.
AppendApp(r) ==
    /\ At(r, "append-app")
    /\ tenant[On(r)].reg.in
    /\ tenant' = [tenant EXCEPT ![On(r)].reg.apps = @ \cup Param(r).apps]
    /\ DoneArmed(r, Flavour("abort", On(r), <<"revert-app-append">>))
    /\ UNCHANGED <<zone, mints>>

RecordApp(r) ==
    /\ At(r, "record-app")
    /\ Writes(r, On(r), [tenant[On(r)] EXCEPT
           !.appRow = [a \in Apps |-> IF a \in Param(r).apps THEN "active" ELSE @[a]]])

RevertAppAppend(r) ==
    /\ At(r, "revert-app-append")
    /\ Writes(r, On(r), [tenant[On(r)] EXCEPT !.reg.apps = @ \ Param(r).apps])

\* Idempotent where the registration names the app no more; refused where there is no registration.
RemoveAppPointer(r) ==
    /\ At(r, "remove-app-pointer")
    /\ tenant[On(r)].reg.in
    /\ Writes(r, On(r), [tenant[On(r)] EXCEPT !.reg.apps = @ \ Param(r).apps])

WatchAppPrune(r) ==
    /\ At(r, "watch-app-prune")
    /\ Param(r).apps \cap tenant[On(r)].fan = {}
    /\ Passes(r)

\* removeTenantAppsRegistration with clear, where this was the last app.
RemoveLastAppsRegistration(r) ==
    /\ At(r, "remove-last-apps-registration")
    /\ LET t == tenant[On(r)] IN
       Writes(r, On(r), IF t.reg.in /\ t.reg.apps = {} /\ t.reg.bundle
                        THEN [t EXCEPT !.bundle = "tree", !.reg.bundle = FALSE] ELSE t)

RecordAppRemoved(r) ==
    /\ At(r, "record-app-removed")
    /\ Writes(r, On(r), [tenant[On(r)] EXCEPT
           !.appRow = [a \in Apps |-> IF a \in Param(r).apps /\ @[a] # "none" THEN "offboarded" ELSE @[a]]])

\* Everything readLeftovers refuses is asked again before anything goes.
DeleteAppObjects(r) ==
    /\ At(r, "delete-app-objects")
    /\ \A a \in Param(r).apps : purgeableApp(On(r), a)
    /\ LET t == deleteTenantAppKeys(deleteAppProject(tenant[On(r)], Param(r).apps), Param(r).apps) IN
       Writes(r, On(r), deleteNamespace(t, Param(r).apps))

DeleteAppRecord(r) ==
    /\ At(r, "delete-app-record")
    /\ tenant[On(r)].row \in Live
    /\ \A a \in Param(r).apps : tenant[On(r)].appRow[a] = "offboarded"
    /\ Writes(r, On(r), [tenant[On(r)] EXCEPT
           !.appRow = [a \in Apps |-> IF a \in Param(r).apps THEN "none" ELSE @[a]]])

OnApps(r) ==
    \/ RecordAppsRepo(r) \/ ApplyAppProject(r) \/ ExtendArgoSync(r) \/ SeedTenantAppKey(r)
    \/ AppendApp(r) \/ RecordApp(r) \/ RevertAppAppend(r) \/ RemoveAppPointer(r)
    \/ WatchAppPrune(r) \/ RemoveLastAppsRegistration(r) \/ RecordAppRemoved(r)
    \/ DeleteAppObjects(r) \/ DeleteAppRecord(r)

-----------------------------------------------------------------------------
\* tenant-suspend, tenant-resume.

SuspendTenant(r) ==
    /\ At(r, "suspend-tenant")
    /\ tenant[On(r)].reg.in
    /\ Writes(r, On(r), [tenant[On(r)] EXCEPT !.reg.suspended = TRUE])

\* Every member the row calls deployed renders its off state.
WatchOff(r) ==
    /\ At(r, "watch-off")
    /\ tenantWatchMembers(tenant[On(r)]) \subseteq tenant[On(r)].fan /\ tenant[On(r)].reg.suspended
    /\ Passes(r)

VerifyOff(r) ==
    /\ At(r, "verify-off")
    /\ tenantWatchMembers(tenant[On(r)]) \subseteq tenant[On(r)].ns
    /\ Passes(r)

RecordSuspended(r) ==
    /\ At(r, "record-suspended")
    /\ Writes(r, On(r), [tenant[On(r)] EXCEPT !.row = "suspended"])

ResumeTenant(r) ==
    /\ At(r, "resume-tenant")
    /\ tenant[On(r)].reg.in
    /\ Writes(r, On(r), [tenant[On(r)] EXCEPT !.reg.suspended = FALSE])

WatchSync(r) ==
    /\ At(r, "watch-sync")
    /\ Serving(tenant[On(r)], tenantWatchMembers(tenant[On(r)]))
    /\ Passes(r)

RecordActive(r) ==
    /\ At(r, "record-active")
    /\ Writes(r, On(r), [tenant[On(r)] EXCEPT !.row = "active"])

Switch(r) ==
    \/ SuspendTenant(r) \/ WatchOff(r) \/ VerifyOff(r) \/ RecordSuspended(r)
    \/ ResumeTenant(r) \/ WatchSync(r) \/ RecordActive(r)

-----------------------------------------------------------------------------
\* The removals: tenant-offboard, the teardown that a replace, an abort and a purge share, and what
\* only a purge adds.

\* The bundle's build registration goes where this tenant's registration still names the bundle.
RemoveAppsRegistration(r) ==
    /\ At(r, "remove-apps-registration")
    /\ LET t == tenant[On(r)] IN
       Writes(r, On(r), IF t.reg.in /\ t.reg.bundle THEN [t EXCEPT !.bundle = "tree"] ELSE t)

Remove(r) ==
    /\ At(r, "remove")
    /\ Writes(r, On(r), [tenant[On(r)] EXCEPT !.reg = NoReg])

\* A purge goes on past a fan-out that lingers; a replace and an abort stop, and they stop as well
\* where the frozen target names nothing that could be seen to go.
WatchPrune(r) ==
    /\ At(r, "watch-prune")
    /\ LET members == IF By(r) = "abort" THEN {Idp} \cup Param(r).apps ELSE Param(r).targets[On(r)] IN
       By(r) # "purge" => members # {} /\ members \cap tenant[On(r)].fan = {}
    /\ Passes(r)

\* Each member of the frozen target: its AppProject and policy; then the argo-sync grant.
DeleteProjects(r) ==
    /\ At(r, "delete-projects")
    /\ LET members == IF By(r) = "abort" THEN {Idp} \cup Param(r).apps ELSE Param(r).targets[On(r)] IN
       Writes(r, On(r), [deleteAppProject(tenant[On(r)], members) EXCEPT !.grant = {}])

RemoveIssuerRecords(r) ==
    /\ At(r, "remove-issuer-records")
    /\ Writes(r, On(r), removeIssuerRecords(tenant[On(r)]))

\* The row is settled only once nothing of the target's fan-out runs.
VerifyPrune(r) ==
    /\ At(r, "verify-prune")
    /\ Param(r).targets[On(r)] \cap tenant[On(r)].fan = {}
    /\ Passes(r)

Record(r) ==
    /\ At(r, "record")
    /\ Writes(r, On(r), SettleRows(tenant[On(r)], IF By(r) = "purge" THEN "purged" ELSE "offboarded"))

WatchRemoval(r) ==
    /\ At(r, "watch-removal")
    /\ tenantTeardownMembers(tenant[On(r)]) \cap tenant[On(r)].fan = {}
    /\ Passes(r)

DeleteAppProjects(r) ==
    /\ At(r, "delete-appprojects")
    /\ Writes(r, On(r), [deleteAppProject(tenant[On(r)], tenantTeardownMembers(tenant[On(r)])) EXCEPT !.grant = {}])

\* The zone's record goes whoever it stands for; the issuer's mark only where it is booked for him.
RemoveDns(r) ==
    /\ At(r, "remove-dns")
    /\ zone' = [up |-> FALSE, for |-> "nobody"]
    /\ tenant' = [tenant EXCEPT ![On(r)] = removeIssuerRecords(@)]
    /\ Done(r)
    /\ UNCHANGED mints

RecordOffboard(r) ==
    /\ At(r, "record-offboard")
    /\ Writes(r, On(r), SettleRows(tenant[On(r)], "offboarded"))

\* Mutant: the purge trusts the refusal its planner made.
MutantAttestPurge(r) == At(r, "attest-purge") /\ Passes(r)

\* Step 0 of a purge asks again: a live tenant, or one with no row whose workloads run, is refused.
AttestPurge(r) ==
    /\ At(r, "attest-purge")
    /\ tenantNotLive(On(r))
    /\ tenant[On(r)].row = "none" => tenant[On(r)].fan = {}
    /\ Passes(r)

\* Every namespace that carries the tenant's label, and those of the target: the deletes are issued,
\* and one that is still Terminating is said and not waited for.
DeleteNamespaces(r) ==
    /\ At(r, "delete-namespaces")
    /\ Writes(r, On(r), deleteNamespace(tenant[On(r)], Members))

\* The run says that it ran without the port, or that it had it: what is left by it is in its log.
Without(t, port) == [t EXCEPT !.unwired = @ \cup {port}]
With(t, port) == [t EXCEPT !.unwired = @ \ {port}]

\* Where no Vault seeder is wired the step skips, and the purge goes on.
DeleteTenantCrypto(r) ==
    /\ At(r, "delete-tenant-crypto")
    /\ LET t == tenant[On(r)] IN
       \/ Writes(r, On(r), With(deleteTenantAppKeys(deleteTenantCrypto(t), Apps), "seeder"))
       \/ Writes(r, On(r), Without(t, "seeder"))

\* Mutant: only the key that the entry names is withdrawn.
MutantWithdrawBucketKeys(r) ==
    /\ At(r, "withdraw-bucket-keys")
    /\ LET t == tenant[On(r)] IN
       \/ Writes(r, On(r), With(withdrawBucketKey(t, t.entry), "objectStore"))
       \/ Writes(r, On(r), Without(t, "objectStore"))

\* By the name of the tenant's keys: the one its entry named and any that was never withdrawn. Where
\* no object storage is wired the step skips, and the purge goes on.
WithdrawBucketKeys(r) ==
    /\ At(r, "withdraw-bucket-keys")
    /\ LET t == tenant[On(r)] IN
       \/ Writes(r, On(r), With(withdrawBucketKeys(t), "objectStore"))
       \/ Writes(r, On(r), Without(t, "objectStore"))

\* The zone's record only where the subdomain is known and the book names this tenant.
PurgeRemoveDns(r) ==
    /\ At(r, "purge-remove-dns")
    /\ zone' = IF Param(r).named /\ zone.for = On(r) THEN [up |-> FALSE, for |-> "nobody"] ELSE zone
    /\ tenant' = [tenant EXCEPT ![On(r)] = removeIssuerRecords(@)]
    /\ Done(r)
    /\ UNCHANGED mints

Removal(r) ==
    \/ RemoveAppsRegistration(r) \/ Remove(r) \/ WatchPrune(r) \/ DeleteProjects(r)
    \/ RemoveIssuerRecords(r) \/ VerifyPrune(r) \/ Record(r)
    \/ WatchRemoval(r) \/ DeleteAppProjects(r) \/ RemoveDns(r) \/ RecordOffboard(r)
    \/ AttestPurge(r) \/ DeleteNamespaces(r) \/ DeleteTenantCrypto(r) \/ WithdrawBucketKeys(r)
    \/ PurgeRemoveDns(r)

-----------------------------------------------------------------------------

\* The abort's preconditions (assertAbortable): asked before a cleanup is scheduled.
assertCreateTenantAbortable(g) == tenantNotLive(g)

assertAddAppAbortable(g, apps) ==
    (tenant[g].reg.in /\ apps \subseteq tenant[g].reg.apps) =>
        /\ \A a \in apps : tenant[g].appRow[a] # "active"
        /\ ~Serving(tenant[g], apps)

Abort(r) ==
    /\ run[r].st = "failed"
    /\ Param(r).kind = "create" => assertCreateTenantAbortable(Param(r).g)
    /\ Param(r).kind = "add-app" => assertAddAppAbortable(Param(r).g, Param(r).apps)
    /\ Aborts(r)
    /\ UNCHANGED <<tenant, zone, mints>>

\* External, one object at a time: the ApplicationSet generates an Application of a member the
\* registration names and prunes one it names no more; an Application whose AppProject stands makes its
\* namespace, for as long as it is there. A namespace outlives its Application.
Argo(g) ==
    /\ \E m \in Members :
           LET t == tenant[g] IN
           \/ /\ m \in memberNames(t) \ t.fan
              /\ tenant' = [tenant EXCEPT ![g].fan = @ \cup {m}]
           \/ /\ m \in t.fan \ memberNames(t)
              /\ tenant' = [tenant EXCEPT ![g].fan = @ \ {m}]
           \/ /\ m \in (t.fan \cap t.project) \ t.ns
              /\ tenant' = [tenant EXCEPT ![g].ns = @ \cup {m}]
    /\ UNCHANGED <<run, used, zone, mints>>

\* External: a namespace whose deletion was accepted ends, if its finalizers ever let it.
NamespaceEnds(g) ==
    /\ \E m \in tenant[g].terminating :
           tenant' = [tenant EXCEPT ![g].ns = @ \ {m}, ![g].terminating = @ \ {m}]
    /\ UNCHANGED <<run, used, zone, mints>>

Plan(r) ==
    \/ PlanCreate(r) \/ PlanAddApp(r) \/ PlanLifecycle(r) \/ PlanRemoveApp(r) \/ PlanPurgeApp(r)
    \/ PlanPurge(r)

Next ==
    \/ \E r \in Runs :
           \/ Plan(r) \/ Create(r) \/ OnApps(r) \/ Switch(r) \/ Removal(r) \/ Abort(r)
           \/ (Managed(r) /\ UNCHANGED <<tenant, zone, mints>>)
    \/ \E g \in Guids : Argo(g) \/ NamespaceEnds(g)

Spec == Init /\ [][Next]_vars

-----------------------------------------------------------------------------
\* Record intent, not success (create-tenant's record-provisional): whatever stands of a tenant in
\* git, on the cluster or in Vault, a row names it, so that every removal run can find it.
WhatStandsIsNamed ==
    \A g \in Guids : tenant[g].row = "none" => [tenant[g] EXCEPT !.issuer = FALSE] = Nothing

\* Two tenants are never registered on one subdomain, and no tenant is while the identity provider of
\* another still runs there: a create that replaces stops until the old one's is gone, and a create
\* whose plan did not know of the other stops at the belt.
OneTenantPerSubdomain ==
    \A g, h \in Guids : g # h => ~(tenant[g].reg.in /\ (tenant[h].reg.in \/ Idp \in tenant[h].fan))

\* A row that reads offboarded or purged is the record of a tenant that is not deployed: it is in no
\* list, and no scan looks for it, so it is not registered and its identity provider does not run. An
\* app of it may: SettledRunsNothing is what the code says and does not keep.
SettledIsUndeployed ==
    \A g \in Guids : tenant[g].row \in Settled => ~tenant[g].reg.in /\ Idp \notin tenant[g].fan

\* After a purge nothing of the tenant's identity is left that the purge did not say it had to leave:
\* where it had the Vault seeder no entry and no app key, where it had the object store no live bucket
\* key (not even one a torn create never withdrew), and the identity provider's namespace is gone or
\* Terminating, and does not come back.
PurgedLeavesNoIdentity ==
    \A g \in Guids : tenant[g].row = "purged" =>
        /\ "seeder" \in tenant[g].unwired \/ (tenant[g].entry = 0 /\ tenant[g].appKeys = {})
        /\ "objectStore" \in tenant[g].unwired \/ tenant[g].bucketKeys = {}
        /\ Idp \notin tenant[g].ns \ tenant[g].terminating

\* The Vault entry is create-only and each pass of seed-tenant-crypto mints another bucket key: after
\* any number of torn and repeated passes a registered live tenant's entry names a key that is not
\* withdrawn.
DeployedTenantHasItsKey ==
    \A g \in Guids : (tenant[g].row \in Live /\ tenant[g].reg.in) =>
        tenant[g].entry # 0 /\ tenant[g].entry \in tenant[g].bucketKeys

\* A live tenant is un-deployed by the run that was asked for it and by no other: not by the abort of a
\* run that failed, not by a purge planned before it came alive, not by the retry of an older create.
\* The same for an app whose row is active.
UndeployedOnlyByItsRemoval ==
    [][\A g \in Guids :
          LET t == tenant[g]
              Asks(r, kind) == run[r].st = "running" /\ ~run[r].undo /\ Param(r).kind = kind IN
          /\ (t.row \in Live /\ t.reg.in /\ ~tenant'[g].reg.in) =>
                 \E r \in Runs : \/ Asks(r, "offboard") /\ Param(r).g = g
                                 \/ Asks(r, "create") /\ Param(r).targets[g] # {}
          /\ (tenant'[g].reg.in /\ \E a \in t.reg.apps \ tenant'[g].reg.apps : t.appRow[a] = "active") =>
                 \E r \in Runs : Asks(r, "remove-app") /\ Param(r).g = g]_vars

\* What record-offboard's comment says of an offboard that reaches a tenant which is settled already:
\* every step above it does nothing. Told apart here: a tenant that lives on the subdomain keeps its
\* address.
SettledOffboardSparesTheLive ==
    [][\A r \in Runs, h \in Guids :
          (/\ run[r].st = "running" /\ Param(r).kind = "offboard"
           /\ tenant[Param(r).g].row \in Settled
           /\ tenant[h].row \in Live /\ tenant[h].reg.in) => (zone.up => zone'.up)]_vars

\* What watch-removal says of an offboard, and verify-prune's comment of a purge: once the row is
\* settled, nothing of the fan-out runs. They wait for the members the row names, or named when the plan
\* was frozen: an app registered without its row, or since the plan, is not waited for.
SettledRunsNothing ==
    \A g \in Guids : tenant[g].row \in Settled => tenant[g].fan = {}

\* What delete-namespaces says of itself, that its reap makes the purge complete even where the fan-out
\* never pruned: every namespace is gone or going. The Application of an app the frozen target does not
\* name keeps its AppProject, and makes its namespace again.
PurgedLeavesNoNamespace ==
    \A g \in Guids : tenant[g].row = "purged" => tenant[g].ns \subseteq tenant[g].terminating

\* The inventory, the books, the cluster and Vault agree on every tenant, at every step of every run.
TenantInv ==
    TypeOK /\ WhatStandsIsNamed /\ OneTenantPerSubdomain /\ SettledIsUndeployed /\ DeployedTenantHasItsKey

=============================================================================
