----------------------------- MODULE Relocation -----------------------------
(***************************************************************************)
(* Backup, nightly backup, migrate and restore of ONE unit (a consumer at  *)
(* a stage, or a tenant) between clusters, through backup generations on   *)
(* the Storage Box. A unit's data is a version per store; every write of   *)
(* its users makes the next version in all stores, and `owed` is the last  *)
(* version they were told was kept. Version 0 is no data. Jobs dump and    *)
(* restore one store at a time. External: ArgoCD, the service provisioner  *)
(* that drops the databases of a pruned claim, the users, the resolvers.   *)
(***************************************************************************)
EXTENDS RunChain, FiniteSets

CONSTANTS Clusters,     \* the clusters a unit can be on
          home,         \* the one it stands on at first
          Stores,       \* the stores of the unit
          MaxWrites,    \* bound: the versions of the data
          KEEP_NEWEST,  \* verified generations retention keeps, newest first
          KEEP_WEEKS,   \* the newest weeks that keep their newest generation
          PerWeek,      \* generations taken in one week
          Starts        \* how a behaviour begins: unit kind, kinds of run, targets, offboarded or not

ASSUME RelocationAssumption ==
    /\ home \in Clusters
    /\ MaxWrites \in Nat \ {0} /\ KEEP_NEWEST \in Nat \ {0} /\ KEEP_WEEKS \in Nat /\ PerWeek \in Nat \ {0}

VARIABLES reg,      \* the unit's registration in the books
          row,      \* its row in the database
          on,       \* per cluster: namespace, relocating mark, credential, render, data per store
          gens,     \* the backup generations, in the order they were opened
          addr,     \* where its DNS record points, and the clusters resolvers may still answer
          owed,     \* the version its users rely on
          kit,      \* the unit's secrets and build parts that an offboarding removes
          scope,    \* how this behaviour began
          astray    \* history, read by no step: one of the two givings-up has happened after which an
                    \* incomplete copy can be opened (HalfRestored, ReopenAccess)

things == <<reg, row, on, gens, addr, owed, kit, scope>>
world == <<reg, row, on, gens, addr, owed, kit, scope, astray>>
vars == <<run, used, reg, row, on, gens, addr, owed, kit, scope, astray>>

NoRegistration == [in |-> FALSE, at |-> home, quiesced |-> FALSE, leaving |-> FALSE, removing |-> FALSE]
BuildParts == {"repo-pat", "release-kit", "webhook"}
SeededParts == {"instance", "ceremony"}
Bare == [ns |-> FALSE, mark |-> FALSE, cred |-> FALSE, app |-> "off", data |-> [s \in Stores |-> 0]]

\* A generation a run before this behaviour took.
FirstGeneration ==
    [by |-> 0, trigger |-> "manual", st |-> "ok", folder |-> TRUE, has |-> [s \in Stores |-> 1]]

\* One type invariant: the states the registration, the row, the clusters and the book can be in.
TypeOK ==
    /\ reg.at \in Clusters /\ row.at \in Clusters /\ row.st \in {"active", "offboarded"}
    /\ reg.in = FALSE => reg = NoRegistration
    /\ \A c \in Clusters :
           /\ on[c].app \in {"off", "closed", "open"} /\ on[c].data \in [Stores -> 0..MaxWrites]
           /\ on[c].mark => on[c].ns
    /\ \A i \in DOMAIN gens :
           /\ gens[i].st \in {"taking", "ok", "failed", "pruned"} /\ gens[i].by \in 0..MaxPlans
           /\ gens[i].has \in [Stores -> 0..MaxWrites]
    /\ addr.dns \in addr.cached /\ addr.cached \subseteq Clusters
    /\ owed \in 1..MaxWrites
    /\ kit \subseteq BuildParts \cup SeededParts
    /\ astray \in BOOLEAN

Init ==
    /\ NoRuns
    /\ \E b \in Starts :
           /\ scope = b
           /\ reg = IF b.gone THEN NoRegistration ELSE [NoRegistration EXCEPT !.in = TRUE]
           /\ row = [at |-> home, st |-> IF b.gone THEN "offboarded" ELSE "active", by |-> 0]
           /\ on = [c \in Clusters |->
                       IF c = home /\ ~b.gone
                       THEN [ns |-> TRUE, mark |-> FALSE, cred |-> TRUE, app |-> "open", data |-> [s \in Stores |-> 1]]
                       ELSE Bare]
           /\ kit = IF b.gone THEN {} ELSE BuildParts \cup SeededParts
    /\ gens = <<FirstGeneration>>
    /\ addr = [dns |-> home, cached |-> {home}]
    /\ owed = 1
    /\ astray = FALSE

-----------------------------------------------------------------------------
\* Planning.

Steps(names) == [i \in DOMAIN names |-> [s |-> names[i], g |-> 0, by |-> "own"]]

Asks(r, kind, to, gen, claims, names) ==
    /\ kind \in scope.kinds
    /\ Plans(r, [kind |-> kind, from |-> row.at, to |-> to, gen |-> gen, id |-> used.plans + 1, ck |-> {}],
             claims, Steps(names))
    /\ UNCHANGED world

masterKubeLock == "master-kube"

\* A tenant's runs claim the books and the master; a consumer's name the branches of its clusters too.
unitLocks(clusters) ==
    {"books", masterKubeLock} \cup (IF scope.unit = "tenant" THEN {} ELSE clusters)

backupSteps == <<"attest-target", "quiesce", "verify-quiesced", "dump", "verify-dump", "open-access-source">>

PlanBackup(r) == Asks(r, "backup", row.at, 0, unitLocks({row.at}), backupSteps)

migrateSteps ==
    <<"attest-target", "quiesce", "verify-quiesced", "dump", "verify-dump", "provision-target", "repoint",
      "watch", "verify-source-released", "restore", "verify-completeness", "switch-dns", "smoke",
      "open-access-target", "clear-source", "record">>

\* assertMovableTo: a move needs a different cluster; a tenant's, an active stage as well.
PlanMigrate(r) == \E to \in scope.to \ {row.at} :
    /\ scope.unit = "tenant" => row.st = "active"
    /\ Asks(r, "migrate", to, 0, unitLocks({row.at, to}), migrateSteps)

restoreSteps ==
    <<"attest-restore-target", "provision-from-dump", "watch", "restore", "verify-completeness", "switch-dns",
      "smoke", "open-access-target", "record">>

restoreUnitBuildSteps == <<"restore-repo-pat", "restore-release-kit", "restore-webhook">>

\* assertRestorable: only a written and verified generation. The cluster the unit is on is not locked.
assertRestorable(g) == gens[g].st = "ok"

PlanRestore(r) == \E to \in scope.to, g \in DOMAIN gens :
    /\ assertRestorable(g)
    /\ Asks(r, "restore", to, g, unitLocks({to}),
            IF scope.unit = "tenant" THEN restoreSteps ELSE restoreSteps \o restoreUnitBuildSteps)

PlanNightly(r) == Asks(r, "nightly", row.at, 0, {masterKubeLock}, <<"back-up-every-unit">>)

Plan(r) == PlanBackup(r) \/ PlanMigrate(r) \/ PlanRestore(r) \/ PlanNightly(r)

-----------------------------------------------------------------------------
\* What the steps share.

\* consumerWorld and tenantWorld read the row anew for every step: the source is where the row says.
Source == row.at

\* The cluster NAME the abort compares the registration with: a consumer's is its row's, a tenant's is
\* read from the registration itself.
sourceCluster == IF scope.unit = "tenant" THEN reg.at ELSE row.at

\* tenantMoveWorld: a tenant's move refuses a row that is not the one it was planned from.
loadTenantMove(r) ==
    (scope.unit = "tenant" /\ Param(r).kind = "migrate" /\ ~run[r].undo) =>
        /\ row.st = "active"
        /\ \/ row.at = Param(r).from
           \/ At(r, "record") /\ row.at = Param(r).to /\ row.by = Param(r).id

Enter(r, s) == At(r, s) /\ loadTenantMove(r)

\* A pass of a step leaves something in its memory and goes on.
Notes(r, what) ==
    /\ run' = [run EXCEPT ![r].mem = @ \cup {what}]
    /\ UNCHANGED used

Checkpoints(r, what) == Settles(r, [run[r] EXCEPT !.p.ck = @ \cup {what}])

\* findBackupOfRun: a run has one generation of the unit, through every retry.
TookOne(r) == \E i \in DOMAIN gens : gens[i].by = Param(r).id
generationOfThisRun(r) == CHOOSE i \in DOMAIN gens : gens[i].by = Param(r).id

\* The generation a restore step reads: the one picked, or the one this move took.
GenerationOf(r) == IF Param(r).kind = "restore" THEN Param(r).gen ELSE generationOfThisRun(r)
pickedGeneration(r) ==
    IF Param(r).kind = "restore" THEN gens[Param(r).gen].st = "ok" ELSE TookOne(r)

SetQuiesced(q) == reg.in /\ reg' = [reg EXCEPT !.quiesced = q]

\* watchConverged: the registration still asks for the render, and the cluster shows it.
WatchConverged(c, q) == reg.in /\ reg.quiesced = q /\ on[c].app = (IF q THEN "closed" ELSE "open")

\* The inverses an abort schedules: those of the later steps first.
Undoing(r, names) == Steps(names) \o run[r].armed

-----------------------------------------------------------------------------
\* Closing, dumping, verifying, opening.

\* attestTargetStep, attestTenantMoveStep: the cluster's deploy-state is fresh; nothing is kept of it.
AttestTarget(r) == Enter(r, "attest-target") /\ Done(r) /\ UNCHANGED world

AttestRestoreTarget(r) == At(r, "attest-restore-target") /\ Done(r) /\ UNCHANGED world

\* The inverse is armed only by the run that closes the unit.
Quiesce(r) ==
    /\ Enter(r, "quiesce")
    /\ SetQuiesced(TRUE)
    /\ IF reg.quiesced THEN Done(r) ELSE DoneArmed(r, Undoing(r, <<"reopen-access">>))
    /\ UNCHANGED <<row, on, gens, addr, owed, kit, scope, astray>>

\* Mutant: the flag in the books is taken for the unit being closed.
MutantVerifyQuiesced(r) == Enter(r, "verify-quiesced") /\ reg.quiesced /\ Done(r) /\ UNCHANGED world

\* The closed render converged on the source, and the public address answers nobody.
VerifyQuiesced(r) ==
    /\ Enter(r, "verify-quiesced")
    /\ WatchConverged(Source, TRUE)
    /\ \A c \in addr.cached : on[c].app # "open"
    /\ Done(r)
    /\ UNCHANGED world

\* openGeneration: the book names the generation before a byte of it stands on the box.
OpenGeneration(r) ==
    /\ Enter(r, "dump") \/ (At(r, "back-up-every-unit") /\ row.st = "active")
    /\ ~TookOne(r)
    /\ gens' = Append(gens, [by |-> Param(r).id, st |-> "taking", folder |-> TRUE,
                             trigger |-> IF At(r, "back-up-every-unit") THEN "nightly" ELSE "cold",
                             has |-> [s \in Stores |-> 0]])
    /\ run' = [run EXCEPT ![r].armed = Undoing(r, <<"discard-generation">>)]
    /\ UNCHANGED <<used, reg, row, on, addr, owed, kit, scope, astray>>

Dumped(r) == \A s \in Stores : Remembers(r, <<"dumped", s>>)

Consumer == scope.unit = "consumer"
Tenant == scope.unit = "tenant"

\* One job ran to its end; one that failed or was left at its timeout changed nothing the step counts.
runKubeJob(r, job) == ~Remembers(r, job) /\ Notes(r, job)

\* dumpInto: one job per store, into the one generation of the run; a repeated pass dumps them all again.
DumpStore(r, s) ==
    /\ Enter(r, "dump") \/ At(r, "back-up-every-unit")
    /\ TookOne(r) /\ gens[generationOfThisRun(r)].st = "taking"
    /\ on[Source].data[s] # 0
    /\ gens' = [gens EXCEPT ![generationOfThisRun(r)].has[s] = on[Source].data[s]]
    /\ runKubeJob(r, <<"dumped", s>>)
    /\ UNCHANGED <<reg, row, on, addr, owed, kit, scope, astray>>

\* A consumer's jobs run in its namespace and beside the shared Mongo; a tenant's in its members'.
ConsumerDumpJob(r, s) == Consumer /\ on[Source].ns /\ DumpStore(r, s)
TenantDumpJob(r, s) == Tenant /\ on[Source].ns /\ DumpStore(r, s)

\* writeManifestJob ends the step.
DumpEnds(r) == Enter(r, "dump") /\ Dumped(r) /\ Done(r) /\ UNCHANGED world

\* verifyDumpJob: every expected entry stands on the box.
Complete(g) == \A s \in Stores : g.has[s] # 0

\* verifyInto: so the generation is ok.
VerifyDump(r) ==
    /\ Enter(r, "verify-dump")
    /\ TookOne(r) /\ Complete(gens[generationOfThisRun(r)])
    /\ gens' = [gens EXCEPT ![generationOfThisRun(r)].st = "ok"]
    /\ Done(r)
    /\ UNCHANGED <<reg, row, on, addr, owed, kit, scope, astray>>

\* The commit, and then the wait for the running render.
OpenAccess(r) ==
    /\ Enter(r, "open-access-source") \/ Enter(r, "open-access-target")
    /\ ~Remembers(r, <<"opened", "unit">>)
    /\ SetQuiesced(FALSE)
    /\ Notes(r, <<"opened", "unit">>)
    /\ UNCHANGED <<row, on, gens, addr, owed, kit, scope, astray>>

AccessOpened(r) ==
    /\ \/ Enter(r, "open-access-source") /\ WatchConverged(Source, FALSE)
       \/ Enter(r, "open-access-target") /\ WatchConverged(Param(r).to, FALSE)
    /\ Remembers(r, <<"opened", "unit">>)
    /\ Done(r)
    /\ UNCHANGED world

-----------------------------------------------------------------------------
\* The nightly run: online, under the master lock alone.

weekOf(g) == g \div PerWeek

\* The newest, and the newest of each of the newest weeks.
generationsToKeep(S) ==
    LET newestOfWeek == {g \in S : \A h \in S : weekOf(h) = weekOf(g) => h <= g} IN
    {g \in S : \/ Cardinality({h \in S : h > g}) < KEEP_NEWEST
               \/ g \in newestOfWeek /\ Cardinality({h \in newestOfWeek : h > g}) < KEEP_WEEKS}

Pruned(g) == [g EXCEPT !.st = "pruned", !.folder = FALSE]

\* applyRetention over the verified ones.
applyRetention(book) ==
    LET verified == {i \in DOMAIN book : book[i].st = "ok"} IN
    [i \in DOMAIN book |-> IF i \in verified \ generationsToKeep(verified) THEN Pruned(book[i]) ELSE book[i]]

purgeFailedGenerations(book) ==
    [i \in DOMAIN book |-> IF book[i].st = "failed" THEN Pruned(book[i]) ELSE book[i]]

\* backUpUnit, once every store is dumped: the verification, and then retention and the purge of the
\* failed ones. Each of those two may fail; the purge is made either way, the generation stays, and the
\* run fails at its end.
NightlySettles(r) ==
    /\ At(r, "back-up-every-unit")
    /\ TookOne(r) /\ gens[generationOfThisRun(r)].st = "taking" /\ Dumped(r)
    /\ LET book == [gens EXCEPT ![generationOfThisRun(r)].st = "ok"] IN
       \/ gens' = purgeFailedGenerations(applyRetention(book)) /\ Done(r)
       \/ gens' \in {book, applyRetention(book), purgeFailedGenerations(book)} /\ Fails(r, run[r])
    /\ UNCHANGED <<reg, row, on, addr, owed, kit, scope, astray>>

\* A job failed: the generation is deleted and marked failed, or only marked where the delete failed
\* too. After a cancel the purge job could not run: the folder stays.
NightlyFails(r) == \E folder \in BOOLEAN :
    /\ At(r, "back-up-every-unit")
    /\ TookOne(r) /\ gens[generationOfThisRun(r)].st = "taking"
    /\ gens' = [gens EXCEPT ![generationOfThisRun(r)].st = "failed", ![generationOfThisRun(r)].folder = folder]
    /\ Fails(r, run[r])
    /\ UNCHANGED <<reg, row, on, addr, owed, kit, scope, astray>>

\* A unit that is not standing is no unit of the night; a repeated pass leaves a verified generation be.
NightlySkips(r) ==
    /\ At(r, "back-up-every-unit")
    /\ IF TookOne(r) THEN gens[generationOfThisRun(r)].st = "ok" ELSE row.st # "active"
    /\ Done(r)
    /\ UNCHANGED world

-----------------------------------------------------------------------------
\* Moving and restoring.

\* A consumer's repository credential, a tenant's AppProjects, policies and grant: what the cluster
\* needs before it can sync the unit. A mark an earlier move left on the namespace is taken off.
Provisioned(c) == [on EXCEPT ![c].cred = TRUE, ![c].mark = FALSE]

ProvisionTarget(r) ==
    /\ Enter(r, "provision-target")
    /\ on' = Provisioned(Param(r).to)
    /\ Done(r)
    /\ UNCHANGED <<reg, row, gens, addr, owed, kit, scope, astray>>

\* Mutant: the repoint commits first and marks after it.
MutantRepoint(r) ==
    /\ Enter(r, "repoint") /\ reg.in /\ on[Source].ns
    /\ reg' = [reg EXCEPT !.at = Param(r).to]
    /\ \/ on' = [on EXCEPT ![Source].mark = TRUE] /\ Done(r)
       \/ on' = on /\ Fails(r, run[r])
    /\ UNCHANGED <<row, gens, addr, owed, kit, scope, astray>>

\* A consumer's file names the cluster it leaves as well, so that its fences stay there.
setCluster(to) == [reg EXCEPT !.at = to, !.leaving = @ \/ reg.at # to]
setTenantCluster(to) == [reg EXCEPT !.at = to]

\* The source namespace is marked relocating, so that the provisioner keeps the databases of the
\* claims the repoint prunes; then the registration names the target. It may stop in between.
Repoint(r) ==
    /\ Enter(r, "repoint")
    /\ reg.in /\ on[Source].ns
    /\ on' = [on EXCEPT ![Source].mark = TRUE]
    /\ \/ reg' = (IF Consumer THEN setCluster(Param(r).to) ELSE setTenantCluster(Param(r).to)) /\ Done(r)
       \/ reg' = reg /\ Fails(r, run[r])
    /\ UNCHANGED <<row, gens, addr, owed, kit, scope, astray>>

\* provisionTargetFromDumpStep: inverses armed (a consumer's), the target provisioned, the secrets the
\* unit lacks seeded, and the dumped registration committed CLOSED on the target.
restoreCleanups == <<"restore-remove-repo-credential", "restore-remove-instance-secrets", "restore-remove-target">>

seedRestoredSecrets == kit \cup SeededParts

\* The dumped registration with the target in it, closed: the consumer's and the tenant's.
writeRegistrationFromDump(to) == [NoRegistration EXCEPT !.in = TRUE, !.at = to, !.quiesced = TRUE]

ProvisionFromDump(r) ==
    LET armed == IF scope.unit = "tenant" THEN <<>>
                 ELSE Steps(restoreCleanups \o (IF "ceremony" \in kit THEN <<>> ELSE <<"remove-ceremony-secrets">>))
        rec == IF run[r].armed = <<>> THEN [run[r] EXCEPT !.armed = armed] ELSE run[r]
    IN
    /\ At(r, "provision-from-dump")
    /\ pickedGeneration(r)
    /\ on' = Provisioned(Param(r).to)
    /\ kit' = IF scope.unit = "tenant" THEN kit ELSE seedRestoredSecrets
    /\ \/ reg' = writeRegistrationFromDump(Param(r).to) /\ Settles(r, rec)
       \/ reg' = reg /\ Fails(r, rec)
    /\ UNCHANGED <<row, gens, addr, owed, scope, astray>>

Watch(r) == Enter(r, "watch") /\ WatchConverged(Param(r).to, TRUE) /\ Done(r) /\ UNCHANGED world

\* The source pruned the unit's Applications and still holds a database of it.
sourceDbList == {s \in Stores : on[Source].data[s] # 0}

VerifySourceReleased(r) ==
    /\ Enter(r, "verify-source-released")
    /\ on[Source].app = "off"
    /\ sourceDbList # {}
    /\ Done(r)
    /\ UNCHANGED world

\* restoreStep: one job per store on the target; a repeated pass replays them all again.
RestoreStore(r, s) ==
    /\ Enter(r, "restore")
    /\ pickedGeneration(r)
    /\ on' = [on EXCEPT ![Param(r).to].data[s] = gens[GenerationOf(r)].has[s]]
    /\ runKubeJob(r, <<"restored", s>>)
    /\ UNCHANGED <<reg, row, gens, addr, owed, kit, scope, astray>>

\* A consumer's claims must stand on the target before they are filled.
ConsumerRestoreJob(r, s) == Consumer /\ RestoreStore(r, s) /\ on[Param(r).to].ns
TenantRestoreJob(r, s) == Tenant /\ RestoreStore(r, s)

\* Whoever picks an older generation gives up what came after it.
RestoreEnds(r) ==
    LET has == gens[GenerationOf(r)].has IN
    /\ Enter(r, "restore")
    /\ \A s \in Stores : Remembers(r, <<"restored", s>>)
    /\ owed' = IF Param(r).kind = "restore" THEN CHOOSE v \in {has[s] : s \in Stores} : \A s \in Stores : v <= has[s]
               ELSE owed
    /\ Done(r)
    /\ UNCHANGED <<reg, row, on, gens, addr, kit, scope, astray>>

\* The target holds, store by store, everything the dump holds.
VerifyCompleteness(r) ==
    /\ Enter(r, "verify-completeness")
    /\ pickedGeneration(r)
    /\ on[Param(r).to].data = gens[GenerationOf(r)].has
    /\ Done(r)
    /\ UNCHANGED world

\* The TTLs are read before the record moves; when it moved, and what they were, is checkpointed.
SwitchDns(r) ==
    /\ Enter(r, "switch-dns")
    /\ addr' = [dns |-> Param(r).to, cached |-> addr.cached \cup {Param(r).to}]
    /\ Checkpoints(r, "switched")
    /\ UNCHANGED <<reg, row, on, gens, owed, kit, scope, astray>>

Smoke(r) == Enter(r, "smoke") /\ on[Param(r).to].ns /\ Done(r) /\ UNCHANGED world

\* Mutant: the source is cleared at once, whoever still resolves to it.
MutantTtlPassed(r) == "switched" \in Param(r).ck

\* The step sleeps until the highest TTL read before the switch has passed.
TtlPassed(r) == "switched" \in Param(r).ck /\ addr.cached = {addr.dns}

\* Its objects on the source: the consumer's credential and namespace, the tenant's fences and namespaces.
clearSourceCluster(state) == [state EXCEPT ![Source].cred = FALSE, ![Source].ns = FALSE, ![Source].mark = FALSE]

\* clearLeaving: the consumer's file names the source no more.
clearLeaving == [reg EXCEPT !.leaving = FALSE]

\* The jobs drop the source's data one by one; then the file gives up the source's name, the credential
\* (a tenant's fences) goes, and the namespace last. It may stop between any two of these.
Dropped(S) == [on EXCEPT ![Source].data = [s \in Stores |-> IF s \in S THEN 0 ELSE @[s]]]

ClearSource(r) ==
    /\ Enter(r, "clear-source")
    /\ TtlPassed(r)
    /\ \/ \E S \in SUBSET Stores : on' = Dropped(S) /\ reg' = reg /\ Fails(r, run[r])
       \/ \E cred \in {on[Source].cred, FALSE} :
              on' = [Dropped(Stores) EXCEPT ![Source].cred = cred] /\ reg' = clearLeaving /\ Fails(r, run[r])
       \/ on' = clearSourceCluster(Dropped(Stores)) /\ reg' = clearLeaving /\ Done(r)
    /\ UNCHANGED <<row, gens, addr, owed, kit, scope, astray>>

Record(r) ==
    /\ Enter(r, "record")
    /\ row' = [at |-> Param(r).to, st |-> "active", by |-> Param(r).id]
    /\ Done(r)
    /\ UNCHANGED <<reg, on, gens, addr, owed, kit, scope, astray>>

\* restoreUnitPart: what the offboard of the unit's last stage removed comes back, part by part.
RestoresPart(r, s, part) ==
    /\ At(r, s)
    /\ kit' = kit \cup {part}
    /\ Done(r)
    /\ UNCHANGED <<reg, row, on, gens, addr, owed, scope, astray>>

RestoreRepoPat(r) == RestoresPart(r, "restore-repo-pat", "repo-pat")
RestoreReleaseKit(r) == RestoresPart(r, "restore-release-kit", "release-kit")
RestoreWebhook(r) == RestoresPart(r, "restore-webhook", "webhook")

-----------------------------------------------------------------------------
\* The inverses.

\* Only a generation that is still being taken is deleted.
discardable(r) == TookOne(r) /\ gens[generationOfThisRun(r)].st = "taking"

DiscardGeneration(r) ==
    /\ At(r, "discard-generation")
    /\ \/ ~discardable(r) /\ Done(r) /\ UNCHANGED gens
       \/ /\ discardable(r)
          /\ \E deleted \in BOOLEAN :
                 /\ gens' = [gens EXCEPT ![generationOfThisRun(r)].st = "failed",
                                         ![generationOfThisRun(r)].folder = ~deleted]
                 /\ IF deleted THEN Done(r) ELSE Fails(r, run[r])
    /\ UNCHANGED <<reg, row, on, addr, owed, kit, scope, astray>>

\* Mutant: the abort opens the unit wherever its registration points.
MutantReopens == reg.in /\ reg.quiesced

\* A unit that stands closed is reopened where it was: not where this run repointed it.
reopens == reg.in /\ reg.quiesced /\ reg.at = sourceCluster

\* tenantMoveCleanupWorld: a tenant's row is still the one the move was planned from.
ReopenAccess(r) ==
    /\ At(r, "reopen-access")
    /\ (scope.unit = "tenant" /\ Param(r).kind = "migrate") => row.at = Param(r).from
    /\ ~Remembers(r, <<"opened", "unit">>)
    /\ \/ /\ reopens
          /\ SetQuiesced(FALSE) /\ Notes(r, <<"opened", "unit">>)
          /\ astray' = (astray \/ (Tenant /\ reg.at # row.at))
       \/ ~reopens /\ UNCHANGED <<reg, astray>> /\ Done(r)
    /\ UNCHANGED <<row, on, gens, addr, owed, kit, scope>>

AccessReopened(r) ==
    /\ At(r, "reopen-access")
    /\ Remembers(r, <<"opened", "unit">>)
    /\ WatchConverged(Source, FALSE)
    /\ Done(r)
    /\ UNCHANGED world

\* The inverses of a restore act only for a unit whose row still reads offboarded.
offboardedApp == row.st = "offboarded"

RestoreRemoveRepoCredential(r) ==
    /\ At(r, "restore-remove-repo-credential")
    /\ on' = IF offboardedApp THEN [on EXCEPT ![Param(r).to].cred = FALSE] ELSE on
    /\ Done(r)
    /\ UNCHANGED <<reg, row, gens, addr, owed, kit, scope, astray>>

TakesBack(r, s, part) ==
    /\ At(r, s)
    /\ kit' = IF offboardedApp THEN kit \ {part} ELSE kit
    /\ Done(r)
    /\ UNCHANGED <<reg, row, on, gens, addr, owed, scope, astray>>

RestoreRemoveInstanceSecrets(r) == TakesBack(r, "restore-remove-instance-secrets", "instance")
RemoveCeremonySecrets(r) == TakesBack(r, "remove-ceremony-secrets", "ceremony")

\* The registration is marked, ArgoCD prunes the Application under the fences it renders from it, and
\* only then the file and the namespace go.
RestoreMarkRemoving(r) ==
    /\ At(r, "restore-remove-target")
    /\ offboardedApp /\ reg.in /\ ~reg.removing
    /\ reg' = [reg EXCEPT !.removing = TRUE]
    /\ run' = run /\ UNCHANGED <<used, row, on, gens, addr, owed, kit, scope, astray>>

RestoreRemoveTarget(r) ==
    /\ At(r, "restore-remove-target")
    /\ IF offboardedApp
       THEN /\ reg.in => reg.removing
            /\ on[Param(r).to].app = "off"
            /\ reg' = NoRegistration
            /\ on' = [on EXCEPT ![Param(r).to].ns = FALSE, ![Param(r).to].mark = FALSE]
       ELSE UNCHANGED <<reg, on>>
    /\ Done(r)
    /\ UNCHANGED <<row, gens, addr, owed, kit, scope, astray>>

\* A failed restore is in the middle of its stores. Over a standing unit nothing takes them back: given up
\* here, a later run opens what it finds.
HalfRestored(r) ==
    /\ Param(r).kind = "restore" /\ ~run[r].undo
    /\ run[r].todo # <<>> /\ Head(run[r].todo).s \in {"restore", "verify-completeness"}

Abort(r) == Aborts(r) /\ astray' = (astray \/ HalfRestored(r)) /\ UNCHANGED things

Operate(r) ==
    /\ Managed(r)
    /\ astray' = (astray \/ (run[r].st = "failed" /\ run'[r].st = "idle" /\ HalfRestored(r)))
    /\ UNCHANGED things

-----------------------------------------------------------------------------
\* External: ArgoCD renders the unit where its registration points, once the cluster can read its
\* repository, and prunes it elsewhere; the provisioner drops the data of a pruned claim, unless the
\* namespace is marked relocating.
Argo(c) ==
    LET here == reg.in /\ reg.at = c /\ ~reg.removing
        next == IF here /\ on[c].cred
                THEN [on[c] EXCEPT !.ns = TRUE, !.app = IF reg.quiesced THEN "closed" ELSE "open"]
                ELSE IF ~here /\ on[c].app # "off"
                THEN [on[c] EXCEPT !.app = "off", !.data = IF on[c].mark THEN @ ELSE [s \in Stores |-> 0]]
                ELSE on[c]
    IN  /\ next # on[c]
        /\ on' = [on EXCEPT ![c] = next]
        /\ UNCHANGED <<run, used, reg, row, gens, addr, owed, kit, scope, astray>>

\* External: a user's write reaches a cluster the name may resolve to, if the unit is open there.
UserWrites(c) ==
    /\ c \in addr.cached /\ on[c].app = "open" /\ owed < MaxWrites
    /\ on' = [on EXCEPT ![c].data = [s \in Stores |-> owed + 1]]
    /\ owed' = owed + 1
    /\ UNCHANGED <<run, used, reg, row, gens, addr, kit, scope, astray>>

\* External: the last resolver forgets where the name pointed before.
TtlExpires ==
    /\ addr.cached # {addr.dns}
    /\ addr' = [addr EXCEPT !.cached = {addr.dns}]
    /\ UNCHANGED <<run, used, reg, row, on, gens, owed, kit, scope, astray>>

ColdSteps(r) ==
    \/ AttestTarget(r) \/ Quiesce(r) \/ VerifyQuiesced(r) \/ OpenGeneration(r) \/ DumpEnds(r) \/ VerifyDump(r)
    \/ OpenAccess(r) \/ AccessOpened(r)
    \/ \E s \in Stores : ConsumerDumpJob(r, s) \/ TenantDumpJob(r, s)

NightlySteps(r) == NightlySettles(r) \/ NightlyFails(r) \/ NightlySkips(r)

MoveSteps(r) ==
    \/ AttestRestoreTarget(r) \/ ProvisionTarget(r) \/ Repoint(r) \/ ProvisionFromDump(r) \/ Watch(r)
    \/ VerifySourceReleased(r) \/ RestoreEnds(r) \/ VerifyCompleteness(r) \/ SwitchDns(r) \/ Smoke(r)
    \/ ClearSource(r) \/ Record(r) \/ RestoreRepoPat(r) \/ RestoreReleaseKit(r) \/ RestoreWebhook(r)
    \/ \E s \in Stores : ConsumerRestoreJob(r, s) \/ TenantRestoreJob(r, s)

Inverses(r) ==
    \/ DiscardGeneration(r) \/ ReopenAccess(r) \/ AccessReopened(r) \/ RestoreRemoveRepoCredential(r)
    \/ RestoreRemoveInstanceSecrets(r) \/ RemoveCeremonySecrets(r) \/ RestoreMarkRemoving(r)
    \/ RestoreRemoveTarget(r)

Next ==
    \/ \E r \in Runs :
           \/ Plan(r) \/ ColdSteps(r) \/ NightlySteps(r) \/ MoveSteps(r) \/ Inverses(r) \/ Abort(r)
           \/ Operate(r)
    \/ \E c \in Clusters : Argo(c) \/ UserWrites(c)
    \/ TtlExpires

Spec == Init /\ [][Next]_vars

-----------------------------------------------------------------------------
\* A unit is open only where its data is: through failed, repeated, aborted and deleted moves and
\* restores, what answers its users holds every write they were told was kept. Two givings-up are left
\* out, after which it need not: the abort of a tenant's move that was repointed, and a restore over a
\* standing unit given up in the middle of its stores.
OpenIsComplete ==
    ~astray => \A c \in Clusters : on[c].app = "open" => \A s \in Stores : on[c].data[s] >= owed

\* The generation of a backup or a move, once verified, is what the unit holds in every store, and no
\* write was accepted after it: the unit was measured closed, and not only flagged. It is all its users
\* rely on, unless one of the two givings-up left the unit itself with less.
FrozenCopyIsWhole ==
    [][\A i \in DOMAIN gens' :
          (gens'[i].trigger = "cold" /\ gens'[i].st = "ok" /\ (i \in DOMAIN gens => gens[i].st # "ok"))
              => \A s \in Stores : /\ gens'[i].has[s] = on[row.at].data[s]
                                     /\ ~astray => gens'[i].has[s] = owed]_vars

\* A move never destroys the last live copy: a cluster loses data only while another one holds all of it.
MoveKeepsACopy ==
    [][\A c \in Clusters :
          (/\ scope.kinds \cap {"restore"} = {}
           /\ \E s \in Stores : on[c].data[s] # 0 /\ on'[c].data[s] = 0)
              => \E d \in Clusters \ {c} : \A s \in Stores : on'[d].data[s] >= owed]_vars

\* The namespace of a standing unit goes only from a cluster no resolver answers any more.
ClearedOnceForgotten ==
    [][\A c \in Clusters : (row.st = "active" /\ on[c].ns /\ ~on'[c].ns) => c \notin addr.cached]_vars

\* A verified generation is given up only for newer verified ones, as many as are to be kept; and what
\* the book calls verified can be restored.
RetentionKeepsTheNewest ==
    [][\A i \in DOMAIN gens :
          /\ (gens[i].st = "ok" /\ gens'[i].st # "ok") =>
                 Cardinality({j \in DOMAIN gens' : j > i /\ gens'[j].st = "ok"}) >= KEEP_NEWEST
          /\ gens'[i].st = "ok" => gens'[i].folder /\ Complete(gens'[i])]_vars

\* An aborted restore of an offboarded unit leaves the target as it was: no file, no credential, no
\* namespace, no instance secret that nothing would look for again. (The unit's own entry is taken
\* back only by the run that created it.)
AbortedRestoreLeavesNothing ==
    [][\A r \in Runs :
          (/\ run[r].st = "running" /\ run[r].undo /\ run'[r].st = "idle" /\ run[r].armed # <<>>
           /\ Param(r).kind = "restore" /\ row.st = "offboarded")
              => /\ ~reg.in /\ "instance" \notin kit
                 /\ ~on[Param(r).to].cred /\ ~on[Param(r).to].ns /\ on[Param(r).to].app = "off"]_vars

\* What relocation.ts says of an abort: the unit is reopened while its registration still names the
\* source cluster, and a copy the run repointed it to stays closed.
AbortReopensTheSource ==
    [][\A r \in Runs :
          (At(r, "reopen-access") /\ reg.quiesced /\ ~reg'.quiesced /\ run[r] # run'[r]) => reg.at = row.at]_vars

\* What relocation.ts says of the inverse of the dump: of every generation the run opened that never
\* became ok, the folder is deleted from the box.
AbortDeletesTheUnfinished ==
    [][\A r \in Runs :
          (run[r].st = "running" /\ run[r].undo /\ run'[r].st = "idle" /\ TookOne(r))
              => (gens[generationOfThisRun(r)].st # "ok" => ~gens[generationOfThisRun(r)].folder)]_vars

\* The state has its type, and a unit is open only where its data is.
RelocationInv == TypeOK /\ OpenIsComplete

\* What is deleted, of an old cluster, an old generation or an aborted restore, is what nobody needs.
DeletesWhatNobodyNeeds == ClearedOnceForgotten /\ RetentionKeepsTheNewest /\ AbortedRestoreLeavesNothing

=============================================================================
