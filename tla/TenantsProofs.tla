--------------------------- MODULE TenantsProofs ----------------------------
(***************************************************************************)
(* Theorems about Tenants: for any guids, apps, runs and bounds, what      *)
(* stands of a tenant is named by its row, two tenants never stand on one  *)
(* subdomain, a settled tenant is not deployed, a purged one has left      *)
(* nothing of its identity, a live one has a key that was not withdrawn,   *)
(* and a live one is un-deployed only by a run that was asked for it.      *)
(* The argument: at most one run is past its approval, because all claim   *)
(* the same locks; so what a step established stands until the run ends,   *)
(* and "the step is behind the run" can be read off what is left of it.    *)
(***************************************************************************)
EXTENDS Tenants, FiniteSetTheorems, SequenceTheorems, TLAPS

\* The entry of a step list: name, tenant and flavour.
Ent(s, g, by) == [s |-> s, g |-> g, by |-> by]

\* The list has the step still before it.
Has(T, e) == \E i \in DOMAIN T : T[i] = e

\* Which steps each kind of run has of its own.
OwnNames(kind) ==
    CASE kind = "create" ->
             {"attest-target", "ensure-subdomain-free", "record-provisional", "build-unit", "create-repository",
              "write-tree", "onboard-build-only", "seed-tenant-crypto", "refresh-images", "ensure-images",
              "apply-appprojects", "provision-argo-sync", "provision-dns", "write-registration",
              "watch-sync-set", "smoke", "record-inventory", "activate"}
      [] kind = "add-app" ->
             {"attest-target", "build-unit", "create-repository", "write-tree", "onboard-build-only",
              "record-apps-repo", "refresh-images", "ensure-images", "apply-appproject", "extend-argo-sync",
              "seed-password-field-key", "append-app", "watch-sync-set", "smoke", "record-app"}
      [] kind = "offboard" ->
             {"attest-target", "remove-apps-registration", "remove", "watch-removal", "delete-appprojects",
              "remove-dns", "record-offboard"}
      [] kind = "suspend" -> {"attest-target", "suspend-tenant", "watch-off", "verify-off", "record-suspended"}
      [] kind = "resume" -> {"attest-target", "resume-tenant", "watch-sync", "record-active"}
      [] kind = "remove-app" ->
             {"attest-target", "remove-app-pointer", "watch-app-prune", "remove-last-apps-registration",
              "record-app-removed"}
      [] kind = "purge-app" -> {"attest-target", "delete-app-objects", "delete-app-record"}
      [] OTHER -> {"attest-purge"}

RunKinds == {"create", "add-app", "offboard", "suspend", "resume", "remove-app", "purge-app", "purge"}

\* The steps of the teardown that a replace and an abort share, and those of a purge.
ReplaceNames == {"remove-apps-registration", "remove", "watch-prune", "delete-projects",
                 "remove-issuer-records", "record"}
PurgeNames == {"remove-apps-registration", "remove", "watch-prune", "delete-projects", "delete-namespaces",
               "delete-tenant-crypto", "withdraw-bucket-keys", "purge-remove-dns", "verify-prune", "record"}

StepNames == {"revert-app-append"} \cup ReplaceNames \cup PurgeNames \cup UNION {OwnNames(k) : k \in RunKinds}

\* A step a run of parameters p can have on its way forth, and on its way back.
Forth(p, e) ==
    \/ e.by = "own" /\ e.g = p.g /\ e.s \in OwnNames(p.kind)
    \/ e.by = "replace" /\ p.kind = "create" /\ p.targets[e.g] # {} /\ e.s \in ReplaceNames
    \/ e.by = "purge" /\ p.kind = "purge" /\ e.g = p.g /\ e.s \in PurgeNames

Back(p, e) ==
    /\ e.by = "abort" /\ e.g = p.g
    /\ \/ p.kind = "create" /\ e.s \in ReplaceNames
       \/ p.kind = "add-app" /\ e.s = "revert-app-append"

\* The pairs of steps of one tenant and flavour whose order the argument rests on.
Order ==
    {<<"remove", "watch-prune">>, <<"remove", "record">>, <<"watch-prune", "record">>,
     <<"seed-tenant-crypto", "record-inventory">>, <<"write-registration", "record-inventory">>,
     <<"remove", "delete-namespaces">>, <<"remove", "delete-tenant-crypto">>, <<"remove", "withdraw-bucket-keys">>,
     <<"delete-projects", "delete-namespaces">>,
     <<"delete-tenant-crypto", "withdraw-bucket-keys">>, <<"remove", "verify-prune">>,
     <<"delete-namespaces", "record">>, <<"delete-tenant-crypto", "record">>,
     <<"withdraw-bucket-keys", "record">>, <<"verify-prune", "record">>,
     <<"remove", "watch-removal">>, <<"watch-removal", "record-offboard">>,
     <<"extend-argo-sync", "seed-password-field-key">>}

\* e comes before d in every list that has both.
Earlier(e, d) ==
    \/ e.g = d.g /\ e.by = d.by /\ <<e.s, d.s>> \in Order
    \/ e.by = "replace" /\ d.s = "write-registration"
    \/ e.s \in {"ensure-subdomain-free", "record-provisional"} /\ d.by = "own"
       /\ d.s \notin {"attest-target", "ensure-subdomain-free", "record-provisional"}
    \/ e.s = "attest-purge" /\ d.by = "purge"

Sorted(T) == \A i, j \in DOMAIN T : Earlier(T[i], T[j]) => i < j

-----------------------------------------------------------------------------
\* The types, down to what a run's plan is.

RegType == [apps : SUBSET Apps, bundle : BOOLEAN, suspended : BOOLEAN, in : BOOLEAN]
TenantType ==
    [reg : RegType, row : Status, appRow : [Apps -> Status], fan : SUBSET Members, ns : SUBSET Members,
     terminating : SUBSET Members, project : SUBSET Members, grant : SUBSET Members, entry : Nat,
     appKeys : SUBSET Apps, bucketKeys : SUBSET Nat, unwired : SUBSET Ports, bundle : {"none", "repository", "tree", "registered"}, issuer : BOOLEAN]
ParamType ==
    [kind : RunKinds, g : Guids, apps : SUBSET Apps, targets : [Guids -> SUBSET Members], named : BOOLEAN]
StepType == [s : StepNames, g : Guids, by : {"own", "replace", "purge", "abort"}]
RunType ==
    [st : {"planned", "running", "failed"}, p : ParamType, claims : {tenantLocks}, todo : Seq(StepType),
     armed : Seq(StepType), mem : SUBSET {"tag"}, undo : BOOLEAN]

Types ==
    /\ tenant \in [Guids -> TenantType]
    /\ zone \in [up : BOOLEAN, for : Guids \cup {"nobody"}]
    /\ mints \in Nat /\ mints <= MaxMints
    /\ used \in [plans : Nat, fails : Nat]
    /\ run \in [Runs -> RunType \cup {Idle}]

\* Each tenant by itself.
Sound(t) ==
    /\ t.row = "none" => t = Nothing
    /\ ~t.reg.in => t.reg = NoReg
    /\ t.entry # 0 => t.entry \in t.bucketKeys \/ "seeder" \in t.unwired
    /\ t.entry \in 0..mints /\ t.bucketKeys \subseteq 1..mints
    /\ t.unwired # {} => ~t.reg.in
    /\ t.terminating \subseteq t.ns

Undeployed(t) == ~t.reg.in /\ Idp \notin t.fan

\* What a purge leaves of a tenant.
Bare(t) ==
    /\ "seeder" \in t.unwired \/ (t.entry = 0 /\ t.appKeys = {})
    /\ "objectStore" \in t.unwired \/ t.bucketKeys = {}
    /\ Idp \notin t.ns \ t.terminating

NotLive(t) == t.row \notin Live \/ ~t.reg.in

Tenanted == \A g \in Guids : Sound(tenant[g])

\* All tenant runs claim the same locks.
OneHolder == \A q, r \in Runs : Holding(q) /\ Holding(r) => q = r

-----------------------------------------------------------------------------
\* What every run is, from its plan on.

Active(r) == run[r].st # "idle"

Lists(r) ==
    /\ \A i \in DOMAIN run[r].todo :
           IF run[r].undo THEN Back(Param(r), run[r].todo[i]) ELSE Forth(Param(r), run[r].todo[i])
    /\ Sorted(run[r].todo)
    /\ run[r].undo /\ run[r].armed = <<>> => run[r].todo = <<>>
    /\ \/ run[r].armed = <<>>
       \/ Param(r).kind = "create" /\ run[r].armed = TenantTeardown("abort", Param(r).g)
       \/ Param(r).kind = "add-app" /\ run[r].armed = Flavour("abort", Param(r).g, <<"revert-app-append">>)

\* What its planner found stays true of the tenants it names.
Planned(r) ==
    LET p == Param(r) IN
    /\ p.kind # "create" => tenant[p.g].row # "none"
    /\ p.kind \in {"suspend", "resume", "remove-app"} => tenant[p.g].row # "provisioning"
    /\ \A h \in Guids : p.targets[h] # {} => Idp \in p.targets[h] /\ tenant[h].row # "none"
    /\ p.kind = "purge" => p.targets[p.g] # {}
    /\ p.kind = "create" => p.targets[p.g] = {}
    /\ p.kind = "add-app" => \E a \in Apps : p.apps = {a}

\* A guid belongs to one create, and stands nowhere before that runs.
OwnGuid == \A q, r \in Runs :
    (Active(q) /\ Active(r) /\ Param(q).kind = "create" /\ Param(r).kind = "create"
        /\ Param(q).g = Param(r).g) => q = r

Left(r, s, by) == Has(run[r].todo, Ent(s, Param(r).g, by))

\* What a plan that has not run yet still has before it.
Waiting(r) ==
    run[r].st = "planned" =>
        /\ ~run[r].undo /\ run[r].armed = <<>>
        /\ Param(r).kind = "create" =>
               /\ tenant[Param(r).g] = Nothing
               /\ Left(r, "record-provisional", "own") /\ Left(r, "seed-tenant-crypto", "own")
               /\ Left(r, "ensure-subdomain-free", "own")
               /\ \A h \in Guids : Param(r).targets[h] # {} =>
                      Has(run[r].todo, Ent("remove", h, "replace")) /\ Has(run[r].todo, Ent("watch-prune", h, "replace"))
        /\ Param(r).kind = "purge" =>
               \A s \in {"remove", "delete-projects", "delete-namespaces", "delete-tenant-crypto",
                         "withdraw-bucket-keys", "verify-prune"} :
                   Left(r, s, "purge")
        /\ Param(r).kind = "purge" => Left(r, "attest-purge", "own")
        /\ Param(r).kind = "offboard" => Left(r, "remove", "own") /\ Left(r, "watch-removal", "own")
        /\ Param(r).kind = "add-app" => Left(r, "extend-argo-sync", "own")

\* A create on its way forth, read off the steps that are behind it.
Creating(r) ==
    LET g == Param(r).g t == tenant[g] IN
    (Holding(r) /\ Param(r).kind = "create" /\ ~run[r].undo) =>
        /\ t.row = "none" => Left(r, "record-provisional", "own")
        /\ Left(r, "seed-tenant-crypto", "own") \/ Left(r, "write-registration", "own")
               => t.row \in {"none", "provisioning"}
        /\ t.unwired = {}
        /\ Left(r, "write-registration", "own") => t.reg.apps \subseteq Param(r).apps
        /\ Left(r, "seed-tenant-crypto", "own") \/ t.entry # 0
        /\ \A h \in Guids : Param(r).targets[h] # {} =>
               /\ Has(run[r].todo, Ent("remove", h, "replace")) \/ ~tenant[h].reg.in
               /\ Has(run[r].todo, Ent("watch-prune", h, "replace")) \/ Undeployed(tenant[h])
        /\ Left(r, "ensure-subdomain-free", "own")
           \/ \A h \in Guids \ {g} : Param(r).targets[h] = {} => Undeployed(tenant[h])

\* Its abort: refused for a tenant that lives, and the same teardown.
Undoing(r) ==
    LET t == tenant[Param(r).g] IN
    (Holding(r) /\ run[r].undo) =>
        /\ Param(r).kind = "create" =>
               /\ NotLive(t)
               /\ run[r].armed # <<>> =>
                      /\ Left(r, "remove", "abort") \/ ~t.reg.in
                      /\ Left(r, "watch-prune", "abort") \/ Undeployed(t)
        /\ Param(r).kind = "add-app" => \A a \in Param(r).apps \cap t.reg.apps : t.appRow[a] # "active"

Armed(r) == (Param(r).kind = "create" /\ run[r].armed # <<>>) => tenant[Param(r).g].row # "none"

Purging(r) ==
    LET t == tenant[Param(r).g] IN
    (Holding(r) /\ Param(r).kind = "purge" /\ ~run[r].undo) =>
        /\ Left(r, "attest-purge", "own") \/ NotLive(t)
        /\ Left(r, "remove", "purge") \/ ~t.reg.in
        /\ Left(r, "delete-projects", "purge") \/ Idp \notin t.project
        /\ Left(r, "delete-namespaces", "purge") \/ (Idp \notin t.project /\ Idp \notin t.ns \ t.terminating)
        /\ Left(r, "delete-tenant-crypto", "purge") \/ "seeder" \in t.unwired \/ (t.entry = 0 /\ t.appKeys = {})
        /\ Left(r, "withdraw-bucket-keys", "purge") \/ "objectStore" \in t.unwired \/ t.bucketKeys = {}
        /\ Left(r, "verify-prune", "purge") \/ Undeployed(t)

Offboarding(r) ==
    LET t == tenant[Param(r).g] IN
    (Holding(r) /\ Param(r).kind = "offboard" /\ ~run[r].undo) =>
        /\ Left(r, "remove", "own") \/ ~t.reg.in
        /\ Left(r, "watch-removal", "own") \/ Undeployed(t)

Adding(r) ==
    (Holding(r) /\ Param(r).kind = "add-app" /\ ~run[r].undo) =>
        Left(r, "extend-argo-sync", "own") \/ tenant[Param(r).g].reg.in

Behind(r) ==
    Waiting(r) /\ Creating(r) /\ Undoing(r) /\ Armed(r) /\ Purging(r) /\ Offboarding(r) /\ Adding(r)

RunsSound == \A r \in Runs : Active(r) => Lists(r) /\ Planned(r) /\ Behind(r)

\* The inductive invariant.
IInv ==
    /\ Types /\ Tenanted /\ OneHolder /\ OwnGuid /\ RunsSound
    /\ OneTenantPerSubdomain /\ SettledIsUndeployed /\ PurgedLeavesNoIdentity /\ DeployedTenantHasItsKey

-----------------------------------------------------------------------------
\* The step lists. A list is good for a plan p when each of its steps is one p can have and they stand in order.

Good(p, T) == T \in Seq(StepType) /\ (\A i \in DOMAIN T : Forth(p, T[i])) /\ Sorted(T)

\* A flavoured list is as long as its names, and its entries are those of the names.
LEMMA FlavourIs ==
    ASSUME NEW g \in Guids, NEW by \in {"own", "replace", "purge", "abort"}, NEW names \in Seq(StepNames)
    PROVE  /\ Flavour(by, g, names) \in Seq(StepType)
           /\ DOMAIN Flavour(by, g, names) = 1..Len(names)
           /\ Len(Flavour(by, g, names)) = Len(names)
           /\ \A i \in 1..Len(names) : Flavour(by, g, names)[i] = Ent(names[i], g, by)
<1>1. \A i \in 1..Len(names) : Flavour(by, g, names)[i] = Ent(names[i], g, by)
                              /\ Flavour(by, g, names)[i] \in StepType
  BY DEF Flavour, Ent, StepType
<1>2. Flavour(by, g, names) = [i \in 1..Len(names) |-> Flavour(by, g, names)[i]]
  BY DEF Flavour
<1>3. Flavour(by, g, names) \in [1..Len(names) -> StepType]
  BY <1>1, <1>2
<1>4. Len(names) \in Nat
  OBVIOUS
<1> QED
  BY <1>1, <1>3, <1>4

\* The steps of a kind of run are among the steps there are.
LEMMA OwnStepNames ==
    ASSUME NEW k \in RunKinds, NEW names \in Seq(OwnNames(k))
    PROVE  names \in Seq(StepNames)
<1>1. OwnNames(k) \subseteq StepNames
  BY DEF StepNames
<1>2. \A i \in 1..Len(names) : names[i] \in StepNames
  BY <1>1
<1>3. names \in [1..Len(names) -> StepNames] /\ Len(names) \in Nat
  BY <1>2
<1> QED
  BY <1>3

\* A definition's own list is a list of the flavour "own".
LEMMA OwnIs ==
    ASSUME NEW g, NEW names
    PROVE  Own(g, names) = Flavour("own", g, names)
BY DEF Own, Flavour

\* The steps of its own kind are steps a plan can have.
LEMMA OwnForth ==
    ASSUME NEW p \in ParamType, NEW names \in Seq(OwnNames(p.kind))
    PROVE  \A i \in DOMAIN Flavour("own", p.g, names) : Forth(p, Flavour("own", p.g, names)[i])
<1>1. p.g \in Guids /\ names \in Seq(StepNames)
  BY OwnStepNames DEF ParamType
<1>2. SUFFICES ASSUME NEW i \in 1..Len(names) PROVE Forth(p, Ent(names[i], p.g, "own"))
  BY <1>1, FlavourIs
<1>3. names[i] \in OwnNames(p.kind)
  OBVIOUS
<1> QED
  BY <1>3 DEF Forth, Ent

\* The order of a flavoured list is the order of its names.
LEMMA FlavourSorted ==
    ASSUME NEW g \in Guids, NEW by \in {"own", "replace", "purge", "abort"}, NEW names \in Seq(StepNames),
           by = "own" \/ \A i \in 1..Len(names) : names[i] # "write-registration",
           \A i \in 1..Len(names) : names[i] \notin {"ensure-subdomain-free", "record-provisional", "attest-purge"},
           \A i, j \in 1..Len(names) : <<names[i], names[j]>> \in Order => i < j
    PROVE  Sorted(Flavour(by, g, names))
<1> DEFINE T == Flavour(by, g, names)
<1>1. DOMAIN T = 1..Len(names) /\ \A i \in 1..Len(names) : T[i] = Ent(names[i], g, by)
  BY FlavourIs
<1>2. SUFFICES ASSUME NEW i \in 1..Len(names), NEW j \in 1..Len(names), Earlier(T[i], T[j])
               PROVE  i < j
  BY <1>1 DEF Sorted
<1>3. Earlier(Ent(names[i], g, by), Ent(names[j], g, by))
  BY <1>1, <1>2
<1>4. Ent(names[i], g, by).s = names[i] /\ Ent(names[j], g, by).s = names[j] /\ Ent(names[i], g, by).by = by
  BY DEF Ent
<1>5. <<names[i], names[j]>> \in Order
  BY <1>3, <1>4 DEF Earlier
<1> QED
  BY <1>5

\* The list of an offboard.
LEMMA OffboardList ==
    ASSUME NEW p \in ParamType, p.kind = "offboard"
    PROVE  /\ Good(p, offboardSteps(p.g))
           /\ Has(offboardSteps(p.g), Ent("remove", p.g, "own"))
           /\ Has(offboardSteps(p.g), Ent("watch-removal", p.g, "own"))
<1> DEFINE N == <<"attest-target", "remove-apps-registration", "remove", "watch-removal",
                  "delete-appprojects", "remove-dns", "record-offboard">>
           T == offboardSteps(p.g)
<1>1. N \in Seq(OwnNames("offboard")) /\ Len(N) = 7 /\ "offboard" \in RunKinds
  BY DEF OwnNames, RunKinds
<1>2. \A i, j \in 1..7 : <<N[i], N[j]>> \in Order => i < j
  BY DEF Order
<1>3. \A i \in 1..7 : N[i] \notin {"ensure-subdomain-free", "record-provisional", "attest-purge"}
  OBVIOUS
<1>4. N[3] = "remove" /\ N[4] = "watch-removal"
  OBVIOUS
<1>5. T = Flavour("own", p.g, N)
  BY OwnIs DEF offboardSteps
<1> HIDE DEF N, T
<1>6. p.g \in Guids
  BY DEF ParamType
<1>7. N \in Seq(StepNames)
  BY <1>1, OwnStepNames
<1>8. T \in Seq(StepType) /\ DOMAIN T = 1..7 /\ \A i \in 1..7 : T[i] = Ent(N[i], p.g, "own")
  BY <1>1, <1>5, <1>6, <1>7, FlavourIs
<1>9. Sorted(T)
  BY <1>1, <1>2, <1>3, <1>5, <1>6, <1>7, FlavourSorted
<1>10. \A i \in DOMAIN T : Forth(p, T[i])
  BY <1>1, <1>5, OwnForth
<1> QED
  BY <1>4, <1>8, <1>9, <1>10 DEF Good, Has, T

\* The list of a suspend.
LEMMA SuspendList ==
    ASSUME NEW p \in ParamType, p.kind = "suspend"
    PROVE  /\ Good(p, suspendSteps(p.g))
<1> DEFINE N == <<"attest-target", "suspend-tenant", "watch-off", "verify-off", "record-suspended">>
           T == suspendSteps(p.g)
<1>1. N \in Seq(OwnNames("suspend")) /\ Len(N) = 5 /\ "suspend" \in RunKinds
  BY DEF OwnNames, RunKinds
<1>2. \A i, j \in 1..5 : <<N[i], N[j]>> \in Order => i < j
  BY DEF Order
<1>3. \A i \in 1..5 : N[i] \notin {"ensure-subdomain-free", "record-provisional", "attest-purge"}
  OBVIOUS
<1>4. TRUE
  OBVIOUS
<1>5. T = Flavour("own", p.g, N)
  BY OwnIs DEF suspendSteps
<1> HIDE DEF N, T
<1>6. p.g \in Guids
  BY DEF ParamType
<1>7. N \in Seq(StepNames)
  BY <1>1, OwnStepNames
<1>8. T \in Seq(StepType) /\ DOMAIN T = 1..5 /\ \A i \in 1..5 : T[i] = Ent(N[i], p.g, "own")
  BY <1>1, <1>5, <1>6, <1>7, FlavourIs
<1>9. Sorted(T)
  BY <1>1, <1>2, <1>3, <1>5, <1>6, <1>7, FlavourSorted
<1>10. \A i \in DOMAIN T : Forth(p, T[i])
  BY <1>1, <1>5, OwnForth
<1> QED
  BY <1>4, <1>8, <1>9, <1>10 DEF Good, Has, T

\* The list of a resume.
LEMMA ResumeList ==
    ASSUME NEW p \in ParamType, p.kind = "resume"
    PROVE  /\ Good(p, resumeSteps(p.g))
<1> DEFINE N == <<"attest-target", "resume-tenant", "watch-sync", "record-active">>
           T == resumeSteps(p.g)
<1>1. N \in Seq(OwnNames("resume")) /\ Len(N) = 4 /\ "resume" \in RunKinds
  BY DEF OwnNames, RunKinds
<1>2. \A i, j \in 1..4 : <<N[i], N[j]>> \in Order => i < j
  BY DEF Order
<1>3. \A i \in 1..4 : N[i] \notin {"ensure-subdomain-free", "record-provisional", "attest-purge"}
  OBVIOUS
<1>4. TRUE
  OBVIOUS
<1>5. T = Flavour("own", p.g, N)
  BY OwnIs DEF resumeSteps
<1> HIDE DEF N, T
<1>6. p.g \in Guids
  BY DEF ParamType
<1>7. N \in Seq(StepNames)
  BY <1>1, OwnStepNames
<1>8. T \in Seq(StepType) /\ DOMAIN T = 1..4 /\ \A i \in 1..4 : T[i] = Ent(N[i], p.g, "own")
  BY <1>1, <1>5, <1>6, <1>7, FlavourIs
<1>9. Sorted(T)
  BY <1>1, <1>2, <1>3, <1>5, <1>6, <1>7, FlavourSorted
<1>10. \A i \in DOMAIN T : Forth(p, T[i])
  BY <1>1, <1>5, OwnForth
<1> QED
  BY <1>4, <1>8, <1>9, <1>10 DEF Good, Has, T

\* The list of a remove-app.
LEMMA RemoveAppList ==
    ASSUME NEW p \in ParamType, p.kind = "remove-app"
    PROVE  /\ Good(p, removeAppSteps(p.g))
<1> DEFINE N == <<"attest-target", "remove-app-pointer", "watch-app-prune",
                  "remove-last-apps-registration", "record-app-removed">>
           T == removeAppSteps(p.g)
<1>1. N \in Seq(OwnNames("remove-app")) /\ Len(N) = 5 /\ "remove-app" \in RunKinds
  BY DEF OwnNames, RunKinds
<1>2. \A i, j \in 1..5 : <<N[i], N[j]>> \in Order => i < j
  BY DEF Order
<1>3. \A i \in 1..5 : N[i] \notin {"ensure-subdomain-free", "record-provisional", "attest-purge"}
  OBVIOUS
<1>4. TRUE
  OBVIOUS
<1>5. T = Flavour("own", p.g, N)
  BY OwnIs DEF removeAppSteps
<1> HIDE DEF N, T
<1>6. p.g \in Guids
  BY DEF ParamType
<1>7. N \in Seq(StepNames)
  BY <1>1, OwnStepNames
<1>8. T \in Seq(StepType) /\ DOMAIN T = 1..5 /\ \A i \in 1..5 : T[i] = Ent(N[i], p.g, "own")
  BY <1>1, <1>5, <1>6, <1>7, FlavourIs
<1>9. Sorted(T)
  BY <1>1, <1>2, <1>3, <1>5, <1>6, <1>7, FlavourSorted
<1>10. \A i \in DOMAIN T : Forth(p, T[i])
  BY <1>1, <1>5, OwnForth
<1> QED
  BY <1>4, <1>8, <1>9, <1>10 DEF Good, Has, T

\* The list of a purge-app.
LEMMA PurgeAppList ==
    ASSUME NEW p \in ParamType, p.kind = "purge-app"
    PROVE  /\ Good(p, purgeAppSteps(p.g))
<1> DEFINE N == <<"attest-target", "delete-app-objects", "delete-app-record">>
           T == purgeAppSteps(p.g)
<1>1. N \in Seq(OwnNames("purge-app")) /\ Len(N) = 3 /\ "purge-app" \in RunKinds
  BY DEF OwnNames, RunKinds
<1>2. \A i, j \in 1..3 : <<N[i], N[j]>> \in Order => i < j
  BY DEF Order
<1>3. \A i \in 1..3 : N[i] \notin {"ensure-subdomain-free", "record-provisional", "attest-purge"}
  OBVIOUS
<1>4. TRUE
  OBVIOUS
<1>5. T = Flavour("own", p.g, N)
  BY OwnIs DEF purgeAppSteps
<1> HIDE DEF N, T
<1>6. p.g \in Guids
  BY DEF ParamType
<1>7. N \in Seq(StepNames)
  BY <1>1, OwnStepNames
<1>8. T \in Seq(StepType) /\ DOMAIN T = 1..3 /\ \A i \in 1..3 : T[i] = Ent(N[i], p.g, "own")
  BY <1>1, <1>5, <1>6, <1>7, FlavourIs
<1>9. Sorted(T)
  BY <1>1, <1>2, <1>3, <1>5, <1>6, <1>7, FlavourSorted
<1>10. \A i \in DOMAIN T : Forth(p, T[i])
  BY <1>1, <1>5, OwnForth
<1> QED
  BY <1>4, <1>8, <1>9, <1>10 DEF Good, Has, T

\* Lists of names that stand in order, and their concatenation.
InOrder(names) == \A i, j \in 1..Len(names) : <<names[i], names[j]>> \in Order => i < j

Cat(a, b) ==
    /\ Len(a \o b) = Len(a) + Len(b) /\ DOMAIN (a \o b) = 1..(Len(a) + Len(b))
    /\ DOMAIN a = 1..Len(a) /\ DOMAIN b = 1..Len(b) /\ Len(a) \in Nat /\ Len(b) \in Nat
    /\ \A i \in 1..Len(a) : (a \o b)[i] = a[i] /\ i \in 1..(Len(a) + Len(b))
    /\ \A j \in 1..Len(b) : (a \o b)[Len(a) + j] = b[j] /\ Len(a) + j \in 1..(Len(a) + Len(b))
    /\ \A i \in 1..(Len(a) + Len(b)) :
           \/ i \in 1..Len(a) /\ (a \o b)[i] = a[i]
           \/ \E j \in 1..Len(b) : i = Len(a) + j /\ (a \o b)[i] = b[j]

\* What a concatenation is, index by index.
LEMMA CatIs ==
    ASSUME NEW S, NEW a \in Seq(S), NEW b \in Seq(S)
    PROVE  a \o b \in Seq(S) /\ Cat(a, b)
<1>1. a \o b \in Seq(S) /\ Len(a \o b) = Len(a) + Len(b) /\ Len(a) \in Nat /\ Len(b) \in Nat
  OBVIOUS
<1>2. \A i \in 1..Len(a) : (a \o b)[i] = a[i] /\ i \in 1..(Len(a) + Len(b))
  BY <1>1
<1>3. \A j \in 1..Len(b) : (a \o b)[Len(a) + j] = b[j] /\ Len(a) + j \in 1..(Len(a) + Len(b))
  BY <1>1
<1>4. ASSUME NEW i \in 1..(Len(a) + Len(b)), ~(i \in 1..Len(a))
      PROVE  \E j \in 1..Len(b) : i = Len(a) + j /\ (a \o b)[i] = b[j]
  <2>1. i - Len(a) \in 1..Len(b) /\ i = Len(a) + (i - Len(a))
    BY <1>1, <1>4
  <2> QED
    BY <1>3, <2>1
<1> QED
  BY <1>1, <1>2, <1>3, <1>4 DEF Cat

\* Two lists in order, of which no step of the second belongs before one of the first, make a list in order.
LEMMA CatInOrder ==
    ASSUME NEW S, NEW a \in Seq(S), NEW b \in Seq(S), InOrder(a), InOrder(b),
           \A i \in 1..Len(a), j \in 1..Len(b) : <<b[j], a[i]>> \notin Order
    PROVE  InOrder(a \o b)
<1>0. Cat(a, b)
  BY CatIs
<1>1. SUFFICES ASSUME NEW i \in 1..(Len(a) + Len(b)), NEW j \in 1..(Len(a) + Len(b)),
                      <<(a \o b)[i], (a \o b)[j]>> \in Order
               PROVE  i < j
  BY <1>0 DEF InOrder, Cat
<1>2. Len(a) \in Nat /\ Len(b) \in Nat
  OBVIOUS
<1>3. CASE i \in 1..Len(a) /\ (a \o b)[i] = a[i]
  <2>1. CASE j \in 1..Len(a) /\ (a \o b)[j] = a[j]
    BY <1>1, <1>3, <2>1 DEF InOrder
  <2>2. CASE \E k \in 1..Len(b) : j = Len(a) + k /\ (a \o b)[j] = b[k]
    BY <1>2, <1>3, <2>2
  <2> QED
    BY <2>1, <2>2, <1>0 DEF Cat
<1>4. CASE \E k \in 1..Len(b) : i = Len(a) + k /\ (a \o b)[i] = b[k]
  <2>1. PICK k \in 1..Len(b) : i = Len(a) + k /\ (a \o b)[i] = b[k]
    BY <1>4
  <2>2. CASE j \in 1..Len(a) /\ (a \o b)[j] = a[j]
    BY <1>1, <2>1, <2>2
  <2>3. CASE \E m \in 1..Len(b) : j = Len(a) + m /\ (a \o b)[j] = b[m]
    <3>1. PICK m \in 1..Len(b) : j = Len(a) + m /\ (a \o b)[j] = b[m]
      BY <2>3
    <3>2. k < m
      BY <1>1, <2>1, <3>1 DEF InOrder
    <3> QED
      BY <1>2, <2>1, <3>1, <3>2
  <2> QED
    BY <2>2, <2>3, <1>0 DEF Cat
<1> QED
  BY <1>3, <1>4, <1>0 DEF Cat

\* What is in a concatenation.
LEMMA CatHas ==
    ASSUME NEW S, NEW a \in Seq(S), NEW b \in Seq(S), NEW e
    PROVE  Has(a \o b, e) <=> Has(a, e) \/ Has(b, e)
<1>0. Cat(a, b)
  BY CatIs
<1>1. DOMAIN a = 1..Len(a) /\ DOMAIN b = 1..Len(b)
  OBVIOUS
<1>2. Has(a, e) => Has(a \o b, e)
  BY <1>1, <1>0 DEF Cat, Has
<1>3. Has(b, e) => Has(a \o b, e)
  BY <1>1, <1>0 DEF Cat, Has
<1>4. Has(a \o b, e) => Has(a, e) \/ Has(b, e)
  BY <1>1, <1>0 DEF Cat, Has
<1> QED
  BY <1>2, <1>3, <1>4

\* Two good lists, nothing of the second before anything of the first.
LEMMA CatGood ==
    ASSUME NEW p, NEW a, NEW b, Good(p, a), Good(p, b),
           \A i \in DOMAIN a, j \in DOMAIN b : ~Earlier(b[j], a[i])
    PROVE  Good(p, a \o b)
<1>1. a \in Seq(StepType) /\ b \in Seq(StepType) /\ DOMAIN a = 1..Len(a) /\ DOMAIN b = 1..Len(b)
      /\ Len(a) \in Nat /\ Len(b) \in Nat
  BY DEF Good
<1>0. Cat(a, b) /\ a \o b \in Seq(StepType)
  BY <1>1, CatIs
<1>2. \A i \in DOMAIN (a \o b) : Forth(p, (a \o b)[i])
  BY <1>1, <1>0 DEF Cat, Good
<1>3. ASSUME NEW i \in 1..(Len(a) + Len(b)), NEW j \in 1..(Len(a) + Len(b)), Earlier((a \o b)[i], (a \o b)[j])
      PROVE  i < j
  <2>1. CASE i \in 1..Len(a) /\ (a \o b)[i] = a[i]
    <3>1. CASE j \in 1..Len(a) /\ (a \o b)[j] = a[j]
      BY <1>1, <1>3, <2>1, <3>1 DEF Good, Sorted
    <3>2. CASE \E k \in 1..Len(b) : j = Len(a) + k /\ (a \o b)[j] = b[k]
      BY <1>1, <2>1, <3>2
    <3> QED
      BY <1>1, <3>1, <3>2, <1>0 DEF Cat
  <2>2. CASE \E k \in 1..Len(b) : i = Len(a) + k /\ (a \o b)[i] = b[k]
    <3>1. PICK k \in 1..Len(b) : i = Len(a) + k /\ (a \o b)[i] = b[k]
      BY <2>2
    <3>2. CASE j \in 1..Len(a) /\ (a \o b)[j] = a[j]
      BY <1>1, <1>3, <3>1, <3>2
    <3>3. CASE \E m \in 1..Len(b) : j = Len(a) + m /\ (a \o b)[j] = b[m]
      <4>1. PICK m \in 1..Len(b) : j = Len(a) + m /\ (a \o b)[j] = b[m]
        BY <3>3
      <4>2. k < m
        BY <1>1, <1>3, <3>1, <4>1 DEF Good, Sorted
      <4> QED
        BY <1>1, <3>1, <4>1, <4>2
    <3> QED
      BY <1>1, <3>2, <3>3, <1>0 DEF Cat
  <2> QED
    BY <1>1, <2>1, <2>2, <1>0 DEF Cat
<1>4. a \o b \in Seq(StepType) /\ DOMAIN (a \o b) = 1..(Len(a) + Len(b))
  BY <1>1, <1>0 DEF Cat
<1>5. Sorted(a \o b)
  BY <1>3, <1>4 DEF Sorted
<1> QED
  BY <1>2, <1>4, <1>5 DEF Good

\* A name in the list is a step in the flavoured list.
LEMMA FlavourHas ==
    ASSUME NEW g \in Guids, NEW by \in {"own", "replace", "purge", "abort"}, NEW names \in Seq(StepNames),
           NEW s, Has(names, s)
    PROVE  Has(Flavour(by, g, names), Ent(s, g, by))
<1>1. PICK i \in 1..Len(names) : names[i] = s
  BY DEF Has
<1> QED
  BY <1>1, FlavourIs DEF Has

\* A plan's own list out of the names of its kind.
LEMMA OwnGood ==
    ASSUME NEW p \in ParamType, NEW names \in Seq(OwnNames(p.kind)), InOrder(names),
           \A i \in 1..Len(names) : names[i] \notin {"ensure-subdomain-free", "record-provisional", "attest-purge"}
    PROVE  Good(p, Own(p.g, names))
<1>1. p.g \in Guids /\ names \in Seq(StepNames)
  BY OwnStepNames DEF ParamType
<1>2. Flavour("own", p.g, names) \in Seq(StepType)
  BY <1>1, FlavourIs
<1>3. Sorted(Flavour("own", p.g, names))
  BY <1>1, FlavourSorted DEF InOrder
<1> QED
  BY <1>2, <1>3, OwnForth, OwnIs DEF Good

\* The list of an add-app.
LEMMA AddAppList ==
    ASSUME NEW p \in ParamType, p.kind = "add-app"
    PROVE  /\ Good(p, addAppSteps(p.g))
           /\ Has(addAppSteps(p.g), Ent("extend-argo-sync", p.g, "own"))
<1> DEFINE S == OwnNames("add-app")
           A == <<"attest-target", "build-unit">>
           B == <<"record-apps-repo", "refresh-images", "ensure-images", "apply-appproject",
                "extend-argo-sync", "seed-password-field-key", "append-app", "watch-sync-set",
                "smoke", "record-app">>
           N == A \o AppsRepo \o B
<1>1. A \in Seq(S) /\ AppsRepo \in Seq(S) /\ B \in Seq(S) /\ "add-app" \in RunKinds
  BY DEF OwnNames, AppsRepo, RunKinds
<1>2. /\ InOrder(A) /\ InOrder(AppsRepo) /\ InOrder(B)
      /\ \A i \in 1..Len(A), j \in 1..Len(AppsRepo) : <<AppsRepo[j], A[i]>> \notin Order
  BY DEF Order, InOrder, AppsRepo
<1>3. \A i \in 1..Len(A), j \in 1..Len(B) : <<B[j], A[i]>> \notin Order
  BY DEF Order
<1>4. \A i \in 1..Len(AppsRepo), j \in 1..Len(B) : <<B[j], AppsRepo[i]>> \notin Order
  BY DEF Order, AppsRepo
<1>5. Has(B, "extend-argo-sync")
  <2>1. B[5] = "extend-argo-sync" /\ 5 \in DOMAIN B
    OBVIOUS
  <2> QED
    BY <2>1 DEF Has
<1>6. \A s \in S : s \notin {"ensure-subdomain-free", "record-provisional", "attest-purge"}
  BY DEF OwnNames
<1> HIDE DEF A, B, S
<1>7. A \o AppsRepo \in Seq(S) /\ InOrder(A \o AppsRepo)
  BY <1>1, <1>2, CatInOrder, CatIs
<1>8. \A i \in 1..Len(A \o AppsRepo), j \in 1..Len(B) : <<B[j], (A \o AppsRepo)[i]>> \notin Order
  <2>1. Cat(A, AppsRepo)
    BY <1>1, CatIs
  <2> QED
    BY <1>3, <1>4, <2>1 DEF Cat
<1>9. N \in Seq(S) /\ InOrder(N) /\ Has(N, "extend-argo-sync")
  BY <1>1, <1>2, <1>5, <1>7, <1>8, CatInOrder, CatIs, CatHas
<1>10. addAppSteps(p.g) = Own(p.g, N)
  BY DEF addAppSteps, A, B
<1> HIDE DEF N
<1>11. Good(p, Own(p.g, N))
  BY <1>6, <1>9, OwnGood DEF S
<1>12. Has(Own(p.g, N), Ent("extend-argo-sync", p.g, "own"))
  <2>1. p.g \in Guids /\ N \in Seq(StepNames)
    BY <1>1, <1>9, OwnStepNames DEF ParamType, S
  <2> QED
    BY <1>9, <2>1, FlavourHas, OwnIs
<1> QED
  BY <1>10, <1>11, <1>12

\* A list over a set is one over every larger set.
LEMMA SeqOver ==
    ASSUME NEW S, NEW R, S \subseteq R, NEW n \in Nat, NEW s \in Seq(S), Len(s) = n
    PROVE  s \in Seq(R) /\ DOMAIN s = 1..n /\ \A i \in 1..n : s[i] \in S
<1>1. DOMAIN s = 1..Len(s) /\ \A i \in 1..Len(s) : s[i] \in S
  OBVIOUS
<1>2. s \in [1..Len(s) -> R] /\ Len(s) \in Nat
  BY <1>1
<1>3. s \in Seq(R)
  BY <1>2
<1> QED
  BY <1>1, <1>3

\* The teardown of a replace and of an abort.
SixNames == <<"remove-apps-registration", "remove", "watch-prune", "delete-projects", "remove-issuer-records",
              "record">>

\* The six steps of the teardown that a replace and an abort share.
LEMMA Six ==
    /\ SixNames \in Seq(StepNames) /\ Len(SixNames) = 6 /\ DOMAIN SixNames = 1..6
    /\ \A i \in 1..6 : SixNames[i] \in ReplaceNames
    /\ InOrder(SixNames) /\ SixNames[2] = "remove" /\ SixNames[3] = "watch-prune"
<1>1. SixNames \in Seq(ReplaceNames) /\ Len(SixNames) = 6 /\ 6 \in Nat
  BY DEF SixNames, ReplaceNames
<1>2. ReplaceNames \subseteq StepNames
  BY DEF StepNames
<1>4. SixNames \in Seq(StepNames) /\ DOMAIN SixNames = 1..6 /\ \A i \in 1..6 : SixNames[i] \in ReplaceNames
  BY <1>1, <1>2, SeqOver
<1>5. InOrder(SixNames) /\ SixNames[2] = "remove" /\ SixNames[3] = "watch-prune"
  BY DEF SixNames, InOrder, Order
<1> QED
  BY <1>1, <1>4, <1>5

\* That teardown is a flavoured list of the six.
LEMMA TeardownIs ==
    ASSUME NEW g, NEW by \in {"replace", "abort"}
    PROVE  TenantTeardown(by, g) = Flavour(by, g, SixNames)
BY DEF TenantTeardown, teardownNames, SixNames

\* The inverse a create arms.
LEMMA AbortList ==
    ASSUME NEW p \in ParamType, p.kind = "create"
    PROVE  /\ TenantTeardown("abort", p.g) \in Seq(StepType) /\ TenantTeardown("abort", p.g) # <<>>
           /\ \A i \in DOMAIN TenantTeardown("abort", p.g) : Back(p, TenantTeardown("abort", p.g)[i])
           /\ Sorted(TenantTeardown("abort", p.g))
           /\ Has(TenantTeardown("abort", p.g), Ent("remove", p.g, "abort"))
           /\ Has(TenantTeardown("abort", p.g), Ent("watch-prune", p.g, "abort"))
<1> DEFINE T == Flavour("abort", p.g, SixNames)
<1>1. T = TenantTeardown("abort", p.g) /\ p.g \in Guids
  BY TeardownIs DEF ParamType
<1>2. T \in Seq(StepType) /\ DOMAIN T = 1..6 /\ Len(T) = 6 /\ \A i \in 1..6 : T[i] = Ent(SixNames[i], p.g, "abort")
  BY <1>1, Six, FlavourIs
<1>3. \A i \in 1..6 : Back(p, T[i])
  BY <1>2, Six DEF Back, Ent
<1>4. Sorted(T)
  <2>1. \A i \in 1..6 : SixNames[i] \notin
            {"write-registration", "ensure-subdomain-free", "record-provisional", "attest-purge"}
    BY Six DEF ReplaceNames
  <2> QED
    BY <1>1, <2>1, Six, FlavourSorted DEF InOrder
<1>5. Has(T, Ent("remove", p.g, "abort")) /\ Has(T, Ent("watch-prune", p.g, "abort"))
  BY <1>2, Six DEF Has
<1>6. T # <<>>
  BY <1>2
<1> HIDE DEF T
<1> QED
  BY <1>1, <1>2, <1>3, <1>4, <1>5, <1>6

\* The inverse an add-app arms.
LEMMA RevertList ==
    ASSUME NEW p \in ParamType, p.kind = "add-app"
    PROVE  LET T == Flavour("abort", p.g, <<"revert-app-append">>) IN
           T \in Seq(StepType) /\ T # <<>> /\ (\A i \in DOMAIN T : Back(p, T[i])) /\ Sorted(T)
<1> DEFINE N == <<"revert-app-append">>
           T == Flavour("abort", p.g, N)
<1>1. N \in Seq(StepNames) /\ Len(N) = 1 /\ N[1] = "revert-app-append" /\ p.g \in Guids
  BY DEF StepNames, ParamType
<1>2. \A i, j \in 1..1 : <<N[i], N[j]>> \notin Order
  BY DEF Order
<1> HIDE DEF N
<1>3. T \in Seq(StepType) /\ DOMAIN T = 1..1 /\ Len(T) = 1 /\ T[1] = Ent("revert-app-append", p.g, "abort")
  BY <1>1, FlavourIs
<1>4. Sorted(T)
  BY <1>1, <1>2, FlavourSorted
<1>5. \A i \in DOMAIN T : Back(p, T[i])
  BY <1>3 DEF Back, Ent
<1>6. T # <<>>
  BY <1>3
<1> HIDE DEF T
<1> QED
  BY <1>3, <1>4, <1>5, <1>6 DEF T, N

\* The list of a purge.
LEMMA PurgeList ==
    ASSUME NEW p \in ParamType, p.kind = "purge"
    PROVE  /\ Good(p, tenantPurgeSteps(p.g))
           /\ Has(tenantPurgeSteps(p.g), Ent("attest-purge", p.g, "own"))
           /\ \A s \in {"remove", "delete-projects", "delete-namespaces", "delete-tenant-crypto",
                     "withdraw-bucket-keys", "verify-prune"} :
                  Has(tenantPurgeSteps(p.g), Ent(s, p.g, "purge"))
<1> DEFINE N == <<"remove-apps-registration", "remove", "watch-prune", "delete-projects", "delete-namespaces",
           "delete-tenant-crypto", "withdraw-bucket-keys", "purge-remove-dns", "verify-prune", "record">>
           M == <<"attest-purge">>
           A == Flavour("own", p.g, M)
           B == Flavour("purge", p.g, N)
<1>1. N \in Seq(PurgeNames) /\ Len(N) = 10 /\ 10 \in Nat
  BY DEF PurgeNames
<1>2. PurgeNames \subseteq StepNames
  BY DEF StepNames
<1>3. M \in Seq(OwnNames("purge")) /\ Len(M) = 1 /\ M[1] = "attest-purge" /\ "purge" \in RunKinds
  BY DEF OwnNames, RunKinds
<1>4. InOrder(N)
  BY DEF InOrder, Order
<1>5. N[2] = "remove" /\ N[4] = "delete-projects" /\ N[5] = "delete-namespaces" /\ N[6] = "delete-tenant-crypto"
      /\ N[7] = "withdraw-bucket-keys" /\ N[9] = "verify-prune"
  OBVIOUS
<1>6. tenantPurgeSteps(p.g) = A \o B
  BY OwnIs DEF tenantPurgeSteps, TenantTeardown, teardownNames
<1> HIDE DEF N, M
<1>7. N \in Seq(StepNames) /\ M \in Seq(StepNames) /\ p.g \in Guids
  <2>1. p.g \in Guids
    BY DEF ParamType
  <2>2. N \in Seq(StepNames)
    BY <1>1, <1>2, SeqOver
  <2>3. M \in Seq(StepNames)
    BY <1>3, OwnStepNames
  <2> QED
    BY <2>1, <2>2, <2>3
<1>8. A \in Seq(StepType) /\ DOMAIN A = 1..1 /\ A[1] = Ent("attest-purge", p.g, "own")
  <2>1. A \in Seq(StepType) /\ DOMAIN A = 1..Len(M) /\ \A i \in 1..Len(M) : A[i] = Ent(M[i], p.g, "own")
    BY <1>7, FlavourIs
  <2> HIDE DEF A
  <2> QED
    BY <1>3, <2>1
<1>9. B \in Seq(StepType) /\ DOMAIN B = 1..10 /\ \A i \in 1..10 : B[i] = Ent(N[i], p.g, "purge")
  <2>1. B \in Seq(StepType) /\ DOMAIN B = 1..Len(N) /\ \A i \in 1..Len(N) : B[i] = Ent(N[i], p.g, "purge")
    BY <1>7, FlavourIs
  <2> HIDE DEF B
  <2> QED
    BY <1>1, <2>1
<1>10. \A i \in 1..10 : N[i] \in PurgeNames
  BY <1>1, <1>2, SeqOver
<1>11. Sorted(B)
  <2>1. \A i \in 1..10 : N[i] \notin
            {"write-registration", "ensure-subdomain-free", "record-provisional", "attest-purge"}
    BY <1>10 DEF PurgeNames
  <2> QED
    BY <1>1, <1>4, <1>7, <2>1, FlavourSorted DEF InOrder
<1>12. Sorted(A)
  <2>1. ~Earlier(Ent("attest-purge", p.g, "own"), Ent("attest-purge", p.g, "own"))
    <3>1. <<"attest-purge", "attest-purge">> \notin Order
      BY DEF Order
    <3> QED
      BY <3>1 DEF Earlier, Ent
  <2> QED
    BY <1>8, <2>1 DEF Sorted
<1>13. Good(p, A)
  <2>1. Forth(p, Ent("attest-purge", p.g, "own"))
    BY DEF Forth, Ent, OwnNames
  <2> QED
    BY <1>8, <1>12, <2>1 DEF Good
<1>14. Good(p, B)
  <2>1. \A i \in 1..10 : Forth(p, Ent(N[i], p.g, "purge"))
    BY <1>10 DEF Forth, Ent
  <2> QED
    BY <1>9, <1>11, <2>1 DEF Good
<1>15. \A i \in DOMAIN A, j \in DOMAIN B : ~Earlier(B[j], A[i])
  <2>1. ASSUME NEW j \in 1..10 PROVE ~Earlier(Ent(N[j], p.g, "purge"), Ent("attest-purge", p.g, "own"))
    <3>1. N[j] \notin {"ensure-subdomain-free", "record-provisional", "attest-purge"}
      BY <1>10 DEF PurgeNames
    <3> QED
      BY <3>1 DEF Earlier, Ent
  <2> QED
    BY <1>8, <1>9, <2>1
<1>16. Has(A, Ent("attest-purge", p.g, "own"))
  BY <1>8 DEF Has
<1>17. \A s \in {"remove", "delete-projects", "delete-namespaces", "delete-tenant-crypto",
                     "withdraw-bucket-keys", "verify-prune"} :
          Has(B, Ent(s, p.g, "purge"))
  BY <1>5, <1>9 DEF Has
<1> HIDE DEF A, B
<1>18. Good(p, A \o B)
  BY <1>13, <1>14, <1>15, CatGood
<1>19. Has(A \o B, Ent("attest-purge", p.g, "own"))
  BY <1>8, <1>9, <1>16, CatHas
<1>20. \A s \in {"remove", "delete-projects", "delete-namespaces", "delete-tenant-crypto",
                     "withdraw-bucket-keys", "verify-prune"} :
          Has(A \o B, Ent(s, p.g, "purge"))
  BY <1>8, <1>9, <1>17, CatHas
<1> QED
  BY <1>6, <1>18, <1>19, <1>20

\* A finite set has an order.
LEMMA OrdersExist ==
    ASSUME NEW S, IsFiniteSet(S)
    PROVE  Cardinality(S) \in Nat /\ Orders(S) # {}
<1>1. Cardinality(S) \in Nat /\ ExistsBijection(1..Cardinality(S), S)
  BY FS_CardinalityType
<1>2. PICK f \in Bijection(1..Cardinality(S), S) : TRUE
  BY <1>1 DEF ExistsBijection
<1>3. f \in [1..Cardinality(S) -> S] /\ IsInjective(f) /\ \A h \in S : \E i \in 1..Cardinality(S) : f[i] = h
  BY <1>2 DEF Bijection, Injection, Surjection
<1>4. DOMAIN f = 1..Cardinality(S)
  BY <1>3
<1>5. \A i, j \in DOMAIN f : f[i] = f[j] => i = j
  BY <1>3 DEF IsInjective
<1>6. \A h \in S : \E i \in DOMAIN f : f[i] = h
  BY <1>3, <1>4
<1>7. f \in Orders(S)
  BY <1>3, <1>5, <1>6 DEF Orders
<1> QED
  BY <1>1, <1>7

\* What the replacements of a create are: each target's teardown in one piece.
LEMMA ReplaceList ==
    ASSUME NEW S \in SUBSET Guids
    PROVE  /\ ReplaceSteps(S) \in Seq(StepType)
           /\ \A i \in DOMAIN ReplaceSteps(S) :
                  LET e == ReplaceSteps(S)[i] IN e.g \in S /\ e.s \in ReplaceNames /\ e.by = "replace"
           /\ Sorted(ReplaceSteps(S))
           /\ \A h \in S : /\ Has(ReplaceSteps(S), Ent("remove", h, "replace"))
                           /\ Has(ReplaceSteps(S), Ent("watch-prune", h, "replace"))
<1> DEFINE order == CHOOSE f \in Orders(S) : TRUE
           n == Cardinality(S)
           q(i) == 1 + ((i - 1) \div 6)
           m(i) == 1 + ((i - 1) % 6)
           T == ReplaceSteps(S)
<1>1. n \in Nat /\ Orders(S) # {}
  <2>1. IsFiniteSet(S)
    BY TenantsAssumption, FS_Subset
  <2> QED
    BY <2>1, OrdersExist
<1>2. order \in Orders(S)
  BY <1>1
<1>3. /\ order \in [1..n -> S]
      /\ \A i, j \in 1..n : order[i] = order[j] => i = j
      /\ \A h \in S : \E i \in 1..n : order[i] = h
  BY <1>2 DEF Orders
<1>4. \A i \in 1..6 * n : q(i) \in 1..n /\ m(i) \in 1..6 /\ i = 6 * (q(i) - 1) + m(i)
  BY <1>1
<1>5. \A k \in 1..n, j \in 1..6 : LET i == 6 * (k - 1) + j IN i \in 1..6 * n /\ q(i) = k /\ m(i) = j
  BY <1>1
<1>6. T = [i \in 1..6 * n |-> TenantTeardown("replace", order[q(i)])[m(i)]]
  BY DEF ReplaceSteps
<1> HIDE DEF order, n, q, m, T
<1>7. \A g \in S, j \in 1..6 : TenantTeardown("replace", g)[j] = Ent(SixNames[j], g, "replace")
                               /\ TenantTeardown("replace", g)[j] \in StepType
  BY Six, TeardownIs, FlavourIs
<1>8. DOMAIN T = 1..6 * n /\ \A i \in 1..6 * n : T[i] = Ent(SixNames[m(i)], order[q(i)], "replace") /\ T[i] \in StepType
  BY <1>3, <1>4, <1>6, <1>7
<1>9. T \in Seq(StepType)
  <2>1. T \in [1..6 * n -> StepType] /\ 6 * n \in Nat
    BY <1>1, <1>6, <1>8
  <2> QED
    BY <2>1
<1>10. ASSUME NEW i \in 1..6 * n PROVE T[i].g \in S /\ T[i].s \in ReplaceNames /\ T[i].by = "replace"
  <2>1. order[q(i)] \in S /\ SixNames[m(i)] \in ReplaceNames
    BY <1>3, <1>4, Six
  <2> QED
    BY <1>8, <2>1 DEF Ent
<1>11. ASSUME NEW i \in 1..6 * n, NEW j \in 1..6 * n, Earlier(T[i], T[j])
       PROVE  i < j
  <2>1. T[i] = Ent(SixNames[m(i)], order[q(i)], "replace") /\ T[j] = Ent(SixNames[m(j)], order[q(j)], "replace")
    BY <1>8
  <2>2. SixNames[m(i)] \in ReplaceNames /\ SixNames[m(j)] \in ReplaceNames
    BY <1>4, Six
  <2>3. order[q(i)] = order[q(j)] /\ <<SixNames[m(i)], SixNames[m(j)]>> \in Order
    BY <1>11, <2>1, <2>2 DEF Earlier, Ent, ReplaceNames
  <2>4. q(i) = q(j)
    BY <1>3, <1>4, <2>3
  <2>5. m(i) < m(j)
    BY <1>4, <2>3, Six DEF InOrder
  <2>6. q(i) \in 1..n /\ m(i) \in 1..6 /\ i = 6 * (q(i) - 1) + m(i) /\ m(j) \in 1..6 /\ j = 6 * (q(j) - 1) + m(j)
    BY <1>4
  <2> QED
    BY <1>1, <2>4, <2>5, <2>6
<1>12. Sorted(T)
  BY <1>8, <1>11 DEF Sorted
<1>13. ASSUME NEW h \in S
       PROVE  Has(T, Ent("remove", h, "replace")) /\ Has(T, Ent("watch-prune", h, "replace"))
  <2>1. PICK k \in 1..n : order[k] = h
    BY <1>3
  <2>2. T[6 * (k - 1) + 2] = Ent("remove", h, "replace") /\ 6 * (k - 1) + 2 \in DOMAIN T
    BY <1>5, <1>8, <2>1, Six
  <2>3. T[6 * (k - 1) + 3] = Ent("watch-prune", h, "replace") /\ 6 * (k - 1) + 3 \in DOMAIN T
    BY <1>5, <1>8, <2>1, Six
  <2> QED
    BY <2>2, <2>3 DEF Has
<1> QED
  BY <1>8, <1>9, <1>10, <1>12, <1>13 DEF T

\* What a create has of its own after the record of its intent.
LEMMA CreateNames ==
    ASSUME NEW apps, NEW N,
           N = <<"build-unit">> \o (IF apps = {} THEN <<>> ELSE AppsRepo) \o <<"seed-tenant-crypto">>
              \o (IF apps = {} THEN <<>> ELSE <<"refresh-images">>)
              \o <<"ensure-images", "apply-appprojects", "provision-argo-sync", "provision-dns",
                   "write-registration", "watch-sync-set", "smoke", "record-inventory", "activate">>
    PROVE  /\ N \in Seq(OwnNames("create")) /\ InOrder(N) /\ Has(N, "seed-tenant-crypto")
           /\ \A i \in 1..Len(N) : N[i] \notin {"attest-target", "ensure-subdomain-free", "record-provisional", "attest-purge"}
<1> DEFINE A == <<"build-unit">>
           B == IF apps = {} THEN <<>> ELSE AppsRepo
           C == <<"seed-tenant-crypto">>
           D == IF apps = {} THEN <<>> ELSE <<"refresh-images">>
           E == <<"ensure-images", "apply-appprojects", "provision-argo-sync", "provision-dns",
                   "write-registration", "watch-sync-set", "smoke", "record-inventory", "activate">>
           S == OwnNames("create") \ {"attest-target", "ensure-subdomain-free", "record-provisional", "attest-purge"}
           Plain == {"build-unit", "create-repository", "write-tree", "onboard-build-only", "refresh-images"}
<1>1. Plain \in SUBSET S /\ "seed-tenant-crypto" \in S
  BY DEF OwnNames
<1>2. E \in Seq(S) /\ InOrder(E)
  BY DEF OwnNames, InOrder, Order
<1>3. \A i \in 1..Len(E) : <<E[i], "seed-tenant-crypto">> \notin Order
  BY DEF Order
<1>4. A \in Seq(Plain)
  OBVIOUS
<1>5. B \in Seq(Plain)
  <2>1. AppsRepo \in Seq(Plain) /\ <<>> \in Seq(Plain)
    BY DEF AppsRepo
  <2> QED
    BY <2>1, Zenon
<1>6. D \in Seq(Plain)
  <2>1. <<"refresh-images">> \in Seq(Plain) /\ <<>> \in Seq(Plain)
    OBVIOUS
  <2> QED
    BY <2>1, Zenon
<1>7. C \in Seq(S) /\ InOrder(C) /\ Len(C) = 1 /\ C[1] = "seed-tenant-crypto"
  BY DEF OwnNames, InOrder, Order
<1>8. \A s \in Plain : \A t : <<s, t>> \notin Order /\ <<t, s>> \notin Order
  BY DEF Order
<1>9. N = A \o B \o C \o D \o E
  OBVIOUS
<1> HIDE DEF A, B, C, D, E, Plain
<1>20. /\ \A i \in 1..Len(A) : A[i] \in Plain
       /\ \A i \in 1..Len(B) : B[i] \in Plain
       /\ \A i \in 1..Len(D) : D[i] \in Plain
  BY <1>4, <1>5, <1>6
<1>10. A \in Seq(S) /\ B \in Seq(S) /\ D \in Seq(S)
  <2>1. \A s \in Seq(Plain) : s \in Seq(S)
    BY <1>1, SeqOver
  <2> QED
    BY <1>4, <1>5, <1>6, <2>1
<1> HIDE DEF S
<1>11. InOrder(A) /\ InOrder(B) /\ InOrder(D)
  BY <1>20, <1>8, Zenon DEF InOrder
<1>12. A \o B \in Seq(Plain) /\ A \o B \in Seq(S) /\ InOrder(A \o B)
  <2>1. \A i \in 1..Len(A), j \in 1..Len(B) : <<B[j], A[i]>> \notin Order
    BY <1>20, <1>8, Zenon
  <2> QED
    BY <1>4, <1>5, <1>10, <1>11, <2>1, CatIs, CatInOrder
<1> DEFINE F == A \o B
<1> HIDE DEF F
<1>13. F \o C \in Seq(S) /\ InOrder(F \o C) /\ Has(F \o C, "seed-tenant-crypto")
  <2>1. F \in Seq(S) /\ F \in Seq(Plain) /\ InOrder(F)
    BY <1>12 DEF F
  <2>2. \A i \in 1..Len(F), j \in 1..Len(C) : <<C[j], F[i]>> \notin Order
    <3>1. \A i \in 1..Len(F) : F[i] \in Plain
      BY <2>1
    <3> QED
      BY <1>8, <3>1, Zenon
  <2>3. Has(C, "seed-tenant-crypto")
    BY <1>7 DEF Has
  <2> QED
    BY <1>7, <2>1, <2>2, <2>3, CatIs, CatInOrder, CatHas
<1>14. \A i \in 1..Len(F \o C) : (F \o C)[i] \in Plain \/ (F \o C)[i] = "seed-tenant-crypto"
  <2>1. F \in Seq(S) /\ F \in Seq(Plain)
    BY <1>12 DEF F
  <2>2. Cat(F, C)
    BY <1>7, <2>1, CatIs
  <2> QED
    BY <1>7, <2>1, <2>2 DEF Cat
<1> DEFINE G == F \o C
<1> HIDE DEF G
<1>15. G \o D \in Seq(S) /\ InOrder(G \o D) /\ Has(G \o D, "seed-tenant-crypto")
       /\ \A i \in 1..Len(G \o D) : (G \o D)[i] \in Plain \/ (G \o D)[i] = "seed-tenant-crypto"
  <2>1. G \in Seq(S) /\ InOrder(G) /\ Has(G, "seed-tenant-crypto")
        /\ \A i \in 1..Len(G) : G[i] \in Plain \/ G[i] = "seed-tenant-crypto"
    BY <1>13, <1>14 DEF G
  <2>2. \A i \in 1..Len(G), j \in 1..Len(D) : <<D[j], G[i]>> \notin Order
    BY <1>20, <1>8, Zenon
  <2>3. Cat(G, D)
    BY <1>10, <2>1, CatIs
  <2>4. \A i \in 1..Len(G \o D) : (G \o D)[i] \in Plain \/ (G \o D)[i] = "seed-tenant-crypto"
    BY <1>6, <2>1, <2>3 DEF Cat
  <2> QED
    BY <1>10, <1>11, <2>1, <2>2, <2>4, CatIs, CatInOrder, CatHas
<1> DEFINE H == G \o D
<1> HIDE DEF H
<1>16. H \o E \in Seq(S) /\ InOrder(H \o E) /\ Has(H \o E, "seed-tenant-crypto")
  <2>1. H \in Seq(S) /\ InOrder(H) /\ Has(H, "seed-tenant-crypto")
        /\ \A i \in 1..Len(H) : H[i] \in Plain \/ H[i] = "seed-tenant-crypto"
    BY <1>15 DEF H
  <2>2. \A i \in 1..Len(H), j \in 1..Len(E) : <<E[j], H[i]>> \notin Order
    BY <1>3, <1>8, <2>1
  <2> QED
    BY <1>2, <2>1, <2>2, CatIs, CatInOrder, CatHas
<1>17. N = H \o E
  BY <1>9 DEF F, G, H
<1>18. N \in Seq(S) /\ Len(N) \in Nat
  <2>1. Len(H \o E) \in Nat
    BY <1>16
  <2> QED
    BY <1>16, <1>17, <2>1, Zenon
<1>19. N \in Seq(OwnNames("create")) /\ \A i \in 1..Len(N) : N[i] \in S
  <2>1. S \subseteq OwnNames("create")
    BY DEF S
  <2>2. PICK n \in Nat : Len(N) = n
    BY <1>18, Zenon
  <2>3. \A s \in Seq(S) : Len(s) = n => s \in Seq(OwnNames("create")) /\ \A i \in 1..n : s[i] \in S
    BY <2>1, SeqOver
  <2>4. N \in Seq(OwnNames("create")) /\ \A i \in 1..n : N[i] \in S
    BY <1>18, <2>2, <2>3, Zenon
  <2> QED
    BY <2>2, <2>4, Zenon
<1> QED
  BY <1>16, <1>17, <1>19 DEF S

\* The list of a create, with the teardowns of the tenants it replaces in its middle.
LEMMA CreateList ==
    ASSUME NEW p \in ParamType, p.kind = "create", NEW apps, NEW S \in SUBSET Guids,
           \A h \in Guids : p.targets[h] # {} <=> h \in S
    PROVE  LET T == createTenantSteps(p.g, apps, S) IN
           /\ Good(p, T)
           /\ Has(T, Ent("record-provisional", p.g, "own")) /\ Has(T, Ent("seed-tenant-crypto", p.g, "own"))
           /\ Has(T, Ent("ensure-subdomain-free", p.g, "own"))
           /\ \A h \in S : Has(T, Ent("remove", h, "replace")) /\ Has(T, Ent("watch-prune", h, "replace"))
<1> DEFINE N == <<"build-unit">> \o (IF apps = {} THEN <<>> ELSE AppsRepo) \o <<"seed-tenant-crypto">>
              \o (IF apps = {} THEN <<>> ELSE <<"refresh-images">>)
              \o <<"ensure-images", "apply-appprojects", "provision-argo-sync", "provision-dns",
                   "write-registration", "watch-sync-set", "smoke", "record-inventory", "activate">>
           M == <<"attest-target", "ensure-subdomain-free", "record-provisional">>
           A == Own(p.g, M)
           R == ReplaceSteps(S)
           B == Own(p.g, N)
<1>1. N \in Seq(OwnNames("create")) /\ InOrder(N) /\ Has(N, "seed-tenant-crypto")
      /\ \A i \in 1..Len(N) : N[i] \notin {"attest-target", "ensure-subdomain-free", "record-provisional", "attest-purge"}
  BY CreateNames
<1>2. M \in Seq(OwnNames("create")) /\ Len(M) = 3 /\ "create" \in RunKinds
      /\ M[1] = "attest-target" /\ M[2] = "ensure-subdomain-free" /\ M[3] = "record-provisional"
  BY DEF OwnNames, RunKinds
<1>3. createTenantSteps(p.g, apps, S) = A \o R \o B
  BY DEF createTenantSteps
<1> HIDE DEF N, M
<1>4. p.g \in Guids /\ N \in Seq(StepNames) /\ M \in Seq(StepNames)
  <2>1. p.g \in Guids
    BY DEF ParamType
  <2> QED
    BY <1>1, <1>2, <2>1, OwnStepNames
<1>5. B \in Seq(StepType) /\ DOMAIN B = 1..Len(N) /\ \A i \in 1..Len(N) : B[i] = Ent(N[i], p.g, "own")
  BY <1>4, OwnIs, FlavourIs
<1>6. A \in Seq(StepType) /\ DOMAIN A = 1..3 /\ \A i \in 1..3 : A[i] = Ent(M[i], p.g, "own")
  <2>1. A \in Seq(StepType) /\ DOMAIN A = 1..Len(M) /\ \A i \in 1..Len(M) : A[i] = Ent(M[i], p.g, "own")
    BY <1>4, OwnIs, FlavourIs
  <2> HIDE DEF A
  <2> QED
    BY <1>2, <2>1
<1>7. Good(p, B)
  BY <1>1, OwnGood
<1>8. Has(B, Ent("seed-tenant-crypto", p.g, "own"))
  BY <1>1, <1>4, OwnIs, FlavourHas
<1>9. Has(A, Ent("record-provisional", p.g, "own")) /\ Has(A, Ent("ensure-subdomain-free", p.g, "own"))
  BY <1>2, <1>6 DEF Has
<1>10. Good(p, A)
  <2>1. \A i \in DOMAIN A : Forth(p, A[i])
    BY <1>2, OwnForth, OwnIs
  <2>2. ASSUME NEW i \in 1..3, NEW j \in 1..3 PROVE ~Earlier(A[i], A[j])
    <3>1. M[i] \in {"attest-target", "ensure-subdomain-free", "record-provisional"}
          /\ M[j] \in {"attest-target", "ensure-subdomain-free", "record-provisional"}
      BY <1>2
    <3>2. <<M[i], M[j]>> \notin Order
      BY <3>1 DEF Order
    <3>3. ~Earlier(Ent(M[i], p.g, "own"), Ent(M[j], p.g, "own"))
      BY <3>1, <3>2 DEF Earlier, Ent
    <3> QED
      BY <1>6, <3>3
  <2>3. Sorted(A)
    BY <1>6, <2>2 DEF Sorted
  <2> QED
    BY <1>6, <2>1, <2>3 DEF Good
<1>11. /\ R \in Seq(StepType) /\ Sorted(R)
       /\ \A i \in DOMAIN R : R[i].g \in S /\ R[i].s \in ReplaceNames /\ R[i].by = "replace"
       /\ \A h \in S : Has(R, Ent("remove", h, "replace")) /\ Has(R, Ent("watch-prune", h, "replace"))
  BY ReplaceList
<1> HIDE DEF A, B, R
<1>12. Good(p, R)
  <2>1. \A i \in DOMAIN R : Forth(p, R[i])
    BY <1>11 DEF Forth
  <2> QED
    BY <1>11, <2>1 DEF Good
<1>13. ASSUME NEW i \in DOMAIN A, NEW j \in DOMAIN R PROVE ~Earlier(R[j], A[i])
  <2>1. A[i].s \in {"attest-target", "ensure-subdomain-free", "record-provisional"} /\ A[i].by = "own"
    BY <1>2, <1>6 DEF Ent
  <2>2. R[j].s \notin {"ensure-subdomain-free", "record-provisional", "attest-purge"} /\ R[j].by = "replace"
    BY <1>11 DEF ReplaceNames
  <2> QED
    BY <2>1, <2>2 DEF Earlier
<1>14. Good(p, A \o R)
  BY <1>10, <1>12, <1>13, CatGood
<1>15. ASSUME NEW j \in DOMAIN B
       PROVE  B[j].by = "own" /\ B[j].s \notin {"ensure-subdomain-free", "record-provisional", "attest-purge"}
  BY <1>1, <1>5 DEF Ent
<1>16. ASSUME NEW i \in DOMAIN A, NEW j \in DOMAIN B PROVE ~Earlier(B[j], A[i])
  <2>1. A[i].s \in {"attest-target", "ensure-subdomain-free", "record-provisional"} /\ A[i].by = "own"
    BY <1>2, <1>6 DEF Ent
  <2>2. <<B[j].s, A[i].s>> \notin Order
    BY <2>1 DEF Order
  <2> QED
    BY <1>15, <2>1, <2>2 DEF Earlier
<1>17. ASSUME NEW i \in DOMAIN R, NEW j \in DOMAIN B PROVE ~Earlier(B[j], R[i])
  <2>1. R[i].by = "replace"
    BY <1>11
  <2> QED
    BY <1>15, <2>1 DEF Earlier
<1>18. \A i \in DOMAIN (A \o R), j \in DOMAIN B : ~Earlier(B[j], (A \o R)[i])
  <2>1. Cat(A, R)
    BY <1>6, <1>11, CatIs
  <2> QED
    BY <1>16, <1>17, <2>1 DEF Cat
<1>19. A \o R \in Seq(StepType)
  BY <1>14 DEF Good
<1>20. Good(p, A \o R \o B)
  BY <1>7, <1>14, <1>18, CatGood
<1>21. \A e : Has(A \o R \o B, e) <=> Has(A, e) \/ Has(R, e) \/ Has(B, e)
  BY <1>5, <1>6, <1>11, <1>19, CatHas, Zenon
<1> QED
  BY <1>3, <1>8, <1>9, <1>11, <1>20, <1>21, Zenon

-----------------------------------------------------------------------------
\* What is left of a list after its first step.

\* The head and the tail of a list.
LEMMA TailList ==
    ASSUME NEW T \in Seq(StepType), T # <<>>
    PROVE  /\ Tail(T) \in Seq(StepType) /\ Head(T) = T[1] /\ Head(T) \in StepType /\ 1 \in DOMAIN T
           /\ \A i \in DOMAIN Tail(T) : i + 1 \in DOMAIN T /\ Tail(T)[i] = T[i + 1]
           /\ \A i \in DOMAIN T : i = 1 \/ (i - 1 \in DOMAIN Tail(T) /\ Tail(T)[i - 1] = T[i])
<1>1. Tail(T) \in Seq(StepType) /\ Head(T) = T[1] /\ Len(T) \in Nat /\ Len(T) # 0 /\ DOMAIN T = 1..Len(T)
      /\ Len(Tail(T)) = Len(T) - 1 /\ DOMAIN Tail(T) = 1..(Len(T) - 1)
  OBVIOUS
<1>2. \A i \in 1..(Len(T) - 1) : Tail(T)[i] = T[i + 1]
  BY <1>1
<1>3. 1 \in DOMAIN T /\ T[1] \in StepType
  BY <1>1
<1>4. ASSUME NEW i \in DOMAIN T, i # 1 PROVE i - 1 \in DOMAIN Tail(T) /\ Tail(T)[i - 1] = T[i]
  BY <1>1, <1>2, <1>4
<1> QED
  BY <1>1, <1>2, <1>3, <1>4

\* U is T, or T without its first step.
Shorter(T, U) == U = T \/ U = Tail(T)

\* What is left of a list in order when its head is done: it has no step that belongs before its head.
LEMMA ShorterList ==
    ASSUME NEW T \in Seq(StepType), T # <<>>, Sorted(T), NEW U, Shorter(T, U)
    PROVE  /\ U \in Seq(StepType) /\ Sorted(U)
           /\ \A i \in DOMAIN U : \E j \in DOMAIN T : U[i] = T[j]
           /\ \A e : Has(U, e) => Has(T, e)
           /\ \A e : Has(T, e) => e = Head(T) \/ Has(U, e)
           /\ \A e : Earlier(e, Head(T)) => ~Has(T, e)
           /\ ~Earlier(Head(T), Head(T))
<1> USE TailList
<1>1. \A i \in DOMAIN U : \E j \in DOMAIN T : U[i] = T[j]
  BY DEF Shorter
<1>2. \A e : Has(U, e) => Has(T, e)
  BY <1>1 DEF Has
<1>3. ASSUME NEW e, Has(T, e), e # Head(T) PROVE Has(U, e)
  <2>1. PICK i \in DOMAIN T : T[i] = e
    BY <1>3 DEF Has
  <2>2. i - 1 \in DOMAIN Tail(T) /\ Tail(T)[i - 1] = e
    BY <1>3, <2>1
  <2> QED
    BY <1>3, <2>2 DEF Has, Shorter
<1>4. U \in Seq(StepType) /\ DOMAIN T \subseteq Int
  BY DEF Shorter
<1>5. Sorted(U)
  <2>1. ASSUME NEW i \in DOMAIN Tail(T), NEW j \in DOMAIN Tail(T), Earlier(Tail(T)[i], Tail(T)[j]) PROVE i < j
    <3>1. Earlier(T[i + 1], T[j + 1]) /\ i + 1 \in DOMAIN T /\ j + 1 \in DOMAIN T
      BY <2>1
    <3>2. i + 1 < j + 1 /\ i \in Int /\ j \in Int
      BY <3>1 DEF Sorted
    <3> QED
      BY <3>2
  <2> QED
    BY <2>1 DEF Shorter, Sorted
<1>6. ASSUME NEW e, Earlier(e, Head(T)), Has(T, e) PROVE FALSE
  <2>1. PICK i \in DOMAIN T : T[i] = e
    BY <1>6 DEF Has
  <2>2. i < 1
    BY <1>6, <2>1 DEF Sorted
  <2>3. i \in 1..Len(T)
    OBVIOUS
  <2> QED
    BY <2>2, <2>3
<1>7. Has(T, Head(T))
  BY DEF Has
<1> QED
  BY <1>1, <1>2, <1>3, <1>4, <1>5, <1>6, <1>7

-----------------------------------------------------------------------------
\* What a step does to its run: it moves on, or fails where it stands.

Moved(r, armed) ==
    /\ run' \in [Runs -> RunType \cup {Idle}] /\ used' \in [plans : Nat, fails : Nat]
    /\ \A q \in Runs : q # r => run'[q] = run[q]
    /\ run'[r] \in RunType
    /\ run'[r].p = run[r].p /\ run'[r].undo = run[r].undo /\ run'[r].armed = armed
    /\ \/ run'[r].st = "running" /\ run'[r].todo = Tail(run[r].todo)
       \/ run'[r].st = "failed" /\ run'[r].todo = run[r].todo

\* A slot that is used holds a run.
LEMMA ActiveType ==
    ASSUME Types, NEW r \in Runs, Active(r)
    PROVE  run[r] \in RunType
BY DEF Types, Active, Idle

\* A slot that is not used is told apart from a run.
LEMMA IdleType == Idle \notin RunType /\ \A x \in RunType : x.st \in {"planned", "running", "failed"}
BY DEF Idle, RunType

\* A record that differs from the run's in what a step may set.
LEMMA SettlesMoves ==
    ASSUME Types, NEW r \in Runs, run[r].st = "running", run[r].todo # <<>>,
           NEW rec \in RunType, rec.p = run[r].p, rec.undo = run[r].undo, rec.todo = run[r].todo,
           rec.st = "running", Settles(r, rec)
    PROVE  Moved(r, rec.armed)
<1>1. run[r] \in RunType /\ run[r].todo \in Seq(StepType)
  BY ActiveType DEF Active, RunType
<1>2. Tail(run[r].todo) \in Seq(StepType)
  BY <1>1, TailList
<1> DEFINE on == [rec EXCEPT !.todo = Tail(@)]
           out == [rec EXCEPT !.st = "failed", !.mem = {}]
<1>3. on \in RunType /\ on.p = rec.p /\ on.undo = rec.undo /\ on.armed = rec.armed /\ on.st = "running"
      /\ on.todo = Tail(run[r].todo)
  BY <1>2 DEF RunType
<1>4. out \in RunType /\ out.p = rec.p /\ out.undo = rec.undo /\ out.armed = rec.armed /\ out.st = "failed"
      /\ out.todo = run[r].todo
  BY DEF RunType
<1>5. \/ run' = [run EXCEPT ![r] = on] /\ used' = used
      \/ run' = [run EXCEPT ![r] = out] /\ used' = [used EXCEPT !.fails = @ + 1]
  BY DEF Settles, Fails
<1> HIDE DEF on, out
<1>6. used' \in [plans : Nat, fails : Nat]
  <2>1. [used EXCEPT !.fails = @ + 1] \in [plans : Nat, fails : Nat] /\ used \in [plans : Nat, fails : Nat]
    BY DEF Types
  <2> QED
    BY <1>5, <2>1
<1>7. run \in [Runs -> RunType \cup {Idle}]
  BY DEF Types
<1>8. CASE run' = [run EXCEPT ![r] = on]
  BY <1>3, <1>6, <1>7, <1>8 DEF Moved
<1>9. CASE run' = [run EXCEPT ![r] = out]
  BY <1>4, <1>6, <1>7, <1>9 DEF Moved
<1> QED
  BY <1>5, <1>8, <1>9

\* Each way a step ends moves its run.
LEMMA DoneMoves ==
    ASSUME Types, NEW r \in Runs, run[r].st = "running", run[r].todo # <<>>
    PROVE  /\ Done(r) => Moved(r, run[r].armed)
           /\ \A c \in Seq(StepType) : DoneArmed(r, c) => Moved(r, c)
           /\ DoneRemembering(r, "tag") => Moved(r, run[r].armed)
           /\ Fails(r, run[r]) => Moved(r, run[r].armed) /\ run'[r].todo = run[r].todo
<1>1. run[r] \in RunType
  BY ActiveType DEF Active
<1>2. Done(r) => Moved(r, run[r].armed)
  BY <1>1, SettlesMoves DEF Done
<1>3. ASSUME NEW c \in Seq(StepType), DoneArmed(r, c) PROVE Moved(r, c)
  <2> DEFINE rec == [run[r] EXCEPT !.armed = c]
  <2>1. rec \in RunType /\ rec.p = run[r].p /\ rec.undo = run[r].undo /\ rec.todo = run[r].todo
        /\ rec.st = run[r].st /\ rec.armed = c
    BY <1>1 DEF RunType
  <2>2. Settles(r, rec)
    BY <1>3 DEF DoneArmed
  <2> HIDE DEF rec
  <2> QED
    BY <2>1, <2>2, SettlesMoves
<1>4. ASSUME DoneRemembering(r, "tag") PROVE Moved(r, run[r].armed)
  <2> DEFINE rec == [run[r] EXCEPT !.mem = @ \cup {"tag"}]
  <2>1. rec \in RunType /\ rec.p = run[r].p /\ rec.undo = run[r].undo /\ rec.todo = run[r].todo
        /\ rec.st = run[r].st /\ rec.armed = run[r].armed
    BY <1>1 DEF RunType
  <2>2. Settles(r, rec)
    BY <1>4 DEF DoneRemembering
  <2> HIDE DEF rec
  <2> QED
    BY <2>1, <2>2, SettlesMoves
<1>5. ASSUME Fails(r, run[r]) PROVE Moved(r, run[r].armed) /\ run'[r].todo = run[r].todo
  <2>1. Moved(r, run[r].armed)
    BY <1>1, <1>5, SettlesMoves DEF Settles
  <2> DEFINE out == [run[r] EXCEPT !.st = "failed", !.mem = {}]
  <2>2. out.todo = run[r].todo /\ run' = [run EXCEPT ![r] = out] /\ run \in [Runs -> RunType \cup {Idle}]
    BY <1>1, <1>5 DEF Fails, RunType, Types
  <2> HIDE DEF out
  <2> QED
    BY <2>1, <2>2
<1> QED
  BY <1>2, <1>3, <1>4, <1>5

-----------------------------------------------------------------------------
\* What a step e of a run of parameters p does to its tenant, field by field: t before it, u after it.

RowSet(e, t, u) ==
    /\ e.s \notin {"record-provisional", "record-inventory", "record-suspended", "record-active", "record",
                   "record-offboard"} => u.row = t.row
    /\ e.s = "record-provisional" => u.row = (IF t.row = "none" THEN "provisioning" ELSE t.row)
    /\ e.s \in {"record-inventory", "record-active"} => u.row = "active"
    /\ e.s = "record-suspended" => u.row = "suspended"
    /\ e.s = "record" /\ e.by = "purge" => u.row = (IF t.row \in {"none", "purged"} THEN t.row ELSE "purged")
    /\ (e.s = "record" /\ e.by # "purge") \/ e.s = "record-offboard" =>
           u.row = (IF t.row \in {"none", "offboarded", "purged"} THEN t.row ELSE "offboarded")
    /\ e.s \in {"attest-target", "ensure-subdomain-free"} => u = t

RegSet(p, e, t, u) ==
    /\ e.s \notin {"write-registration", "remove"} =>
           u.reg.in = t.reg.in /\ ((~t.reg.in => t.reg = NoReg) => (~u.reg.in => u.reg = NoReg))
    /\ e.s \notin {"write-registration", "remove", "append-app", "revert-app-append", "remove-app-pointer"} =>
           u.reg.apps = t.reg.apps
    /\ e.s = "write-registration" => u.reg.in /\ u.reg.apps = p.apps
    /\ e.s = "remove" => u.reg = NoReg
    /\ e.s = "append-app" => u.reg.apps = t.reg.apps \cup p.apps
    /\ e.s \in {"revert-app-append", "remove-app-pointer"} => u.reg.apps = t.reg.apps \ p.apps
    /\ e.s = "revert-app-append" => u.appRow = t.appRow

KeysSound(t, m) == (t.entry # 0 => t.entry \in t.bucketKeys) /\ t.bucketKeys \subseteq 1..m

KeysSet(e, t, u) ==
    /\ e.s \notin {"seed-tenant-crypto", "delete-tenant-crypto", "withdraw-bucket-keys"} =>
           u.entry = t.entry /\ u.bucketKeys = t.bucketKeys
    /\ e.s \notin {"delete-tenant-crypto", "withdraw-bucket-keys"} => u.unwired = t.unwired
    /\ e.s = "delete-tenant-crypto" =>
           /\ ("seeder" \in u.unwired /\ u.entry = t.entry) \/ (u.entry = 0 /\ u.appKeys = {})
           /\ u.bucketKeys = t.bucketKeys /\ ("objectStore" \in t.unwired => "objectStore" \in u.unwired)
    /\ e.s = "withdraw-bucket-keys" =>
           /\ ("objectStore" \in u.unwired /\ u.bucketKeys = t.bucketKeys) \/ u.bucketKeys = {}
           /\ u.entry = t.entry /\ ("seeder" \in t.unwired => "seeder" \in u.unwired)
    /\ e.s \notin {"seed-tenant-crypto", "seed-password-field-key"} => u.appKeys \subseteq t.appKeys

\* On the cluster: its projects, and the namespaces that are deleted.
Projects(p, e, t, u) ==
    /\ e.s \notin {"apply-appprojects", "apply-appproject"} => u.project \subseteq t.project
    /\ e.s = "delete-projects" /\ e.by = "purge" => u.project \cap p.targets[e.g] = {}

ClusterSet(p, e, t, u) ==
    /\ Projects(p, e, t, u)
    /\ u.fan = t.fan /\ u.ns = t.ns /\ t.terminating \subseteq u.terminating
    /\ t.terminating \subseteq t.ns => u.terminating \subseteq u.ns
    /\ e.s = "delete-namespaces" => u.ns \subseteq u.terminating

\* What it asked before it went on.
Passed(p, e, t) ==
    /\ e.s = "ensure-subdomain-free" => \A h \in Guids : h # e.g /\ Resolves(tenant[h]) => p.targets[h] # {}
    /\ e.s = "watch-prune" /\ e.by = "abort" => Idp \notin t.fan
    /\ e.s = "watch-prune" /\ e.by = "replace" => p.targets[e.g] \cap t.fan = {}
    /\ e.s = "verify-prune" => p.targets[e.g] \cap t.fan = {}
    /\ e.s = "watch-removal" => t.row = "none" \/ Idp \notin t.fan
    /\ e.s = "attest-purge" => NotLive(t)
    /\ e.s = "extend-argo-sync" => t.reg.in

Change(p, e, t, u) ==
    ClusterSet(p, e, t, u) /\ RowSet(e, t, u) /\ RegSet(p, e, t, u) /\ KeysSet(e, t, u) /\ Passed(p, e, t)

\* What it leaves of the other tenants: everything but the issuer's mark.
Alike(t, u) ==
    /\ u.reg = t.reg /\ u.row = t.row /\ u.appRow = t.appRow /\ u.fan = t.fan /\ u.ns = t.ns
    /\ u.terminating = t.terminating /\ u.project = t.project /\ u.unwired = t.unwired
    /\ u.entry = t.entry /\ u.appKeys = t.appKeys /\ u.bucketKeys = t.bucketKeys
    /\ t = Nothing => u = Nothing

Seeded(r, t, u) ==
    /\ KeysSound(t, mints) => KeysSound(u, mints')
    /\ u.entry # 0 \/ run'[r].todo = run[r].todo

ArmedBy(r, e) ==
    IF e.s = "record-provisional" THEN TenantTeardown("abort", e.g)
    ELSE IF e.s = "append-app" THEN Flavour("abort", e.g, <<"revert-app-append">>)
    ELSE run[r].armed

\* A step of run r, whole.
Stepped(r) ==
    LET e == Head(run[r].todo) IN
    /\ run[r].st = "running" /\ run[r].todo # <<>> /\ e \in StepType
    /\ zone' \in [up : BOOLEAN, for : Guids \cup {"nobody"}]
    /\ mints' \in Nat /\ mints <= mints' /\ mints' <= MaxMints
    /\ tenant' \in [Guids -> TenantType]
    /\ \A h \in Guids : h # e.g => Alike(tenant[h], tenant'[h])
    /\ Change(Param(r), e, tenant[e.g], tenant'[e.g])
    /\ e.s = "seed-tenant-crypto" => Seeded(r, tenant[e.g], tenant'[e.g])
    /\ Moved(r, ArmedBy(r, e))

\* The step at hand, and the tenant and the parameters it is about.
LEMMA AtHand ==
    ASSUME Types, NEW r \in Runs, run[r].st = "running", run[r].todo # <<>>
    PROVE  /\ run[r] \in RunType /\ run[r].todo \in Seq(StepType) /\ Head(run[r].todo) \in StepType
           /\ On(r) = Head(run[r].todo).g /\ By(r) = Head(run[r].todo).by /\ On(r) \in Guids
           /\ tenant[On(r)] \in TenantType /\ Param(r) \in ParamType
<1>1. run[r] \in RunType
  BY ActiveType DEF Active
<1>2. run[r].todo \in Seq(StepType) /\ Param(r) \in ParamType
  BY <1>1 DEF RunType, Param
<1>3. Head(run[r].todo) \in StepType
  BY <1>2, TailList
<1>4. On(r) \in Guids
  BY <1>3 DEF On, StepType
<1> QED
  BY <1>1, <1>2, <1>3, <1>4 DEF On, By, Types

\* A step that writes u for its tenant, and a step that reads.
LEMMA WritesSteps ==
    ASSUME Types, NEW r \in Runs, NEW s, At(r, s), s \notin {"record-provisional", "append-app", "seed-tenant-crypto"},
           NEW u \in TenantType, Writes(r, On(r), u), Change(Param(r), Head(run[r].todo), tenant[On(r)], u)
    PROVE  Stepped(r)
<1>1. run[r].st = "running" /\ run[r].todo # <<>> /\ Head(run[r].todo).s = s
  BY DEF At
<1>2. On(r) \in Guids /\ On(r) = Head(run[r].todo).g /\ tenant \in [Guids -> TenantType] /\ Head(run[r].todo) \in StepType
  BY <1>1, AtHand DEF Types
<1>3. tenant' = [tenant EXCEPT ![On(r)] = u] /\ Done(r) /\ zone' = zone /\ mints' = mints
  BY DEF Writes
<1>4. tenant' \in [Guids -> TenantType] /\ tenant'[On(r)] = u /\ \A h \in Guids : h # On(r) => tenant'[h] = tenant[h]
  BY <1>2, <1>3
<1>5. Moved(r, run[r].armed) /\ ArmedBy(r, Head(run[r].todo)) = run[r].armed
  BY <1>1, <1>3, DoneMoves DEF ArmedBy
<1>6. \A h \in Guids : h # On(r) => Alike(tenant[h], tenant'[h])
  BY <1>4 DEF Alike
<1>7. zone' \in [up : BOOLEAN, for : Guids \cup {"nobody"}] /\ mints' \in Nat /\ mints <= mints' /\ mints' <= MaxMints
  BY <1>3 DEF Types
<1> QED
  BY <1>1, <1>2, <1>4, <1>5, <1>6, <1>7 DEF Stepped

\* A step that only reads.
LEMMA PassesSteps ==
    ASSUME Types, NEW r \in Runs, NEW s, At(r, s), s \notin {"record-provisional", "append-app", "seed-tenant-crypto"},
           Passes(r), Change(Param(r), Head(run[r].todo), tenant[On(r)], tenant[On(r)])
    PROVE  Stepped(r)
<1>1. run[r].st = "running" /\ run[r].todo # <<>>
  BY DEF At
<1>2. On(r) \in Guids /\ tenant[On(r)] \in TenantType /\ tenant \in [Guids -> TenantType]
  BY <1>1, AtHand DEF Types
<1>3. [tenant EXCEPT ![On(r)] = tenant[On(r)]] = tenant
  BY <1>2
<1>4. Writes(r, On(r), tenant[On(r)])
  BY <1>3 DEF Passes, Writes
<1> QED
  BY <1>2, <1>4, WritesSteps

-----------------------------------------------------------------------------
\* Every action of a step is such a step.

\* Fields a step may set and nothing here asks about: the projects, the grant, the bundle, the issuer's mark.
Aside(t, u) ==
    /\ u.reg = t.reg /\ u.row = t.row /\ u.fan = t.fan /\ u.ns = t.ns /\ u.terminating = t.terminating
    /\ u.unwired = t.unwired /\ u.entry = t.entry /\ u.appKeys = t.appKeys /\ u.bucketKeys = t.bucketKeys

Telling ==
    {"record-provisional", "record-inventory", "record-suspended", "record-active", "record", "record-offboard",
     "write-registration", "remove", "append-app", "revert-app-append", "remove-app-pointer",
     "seed-tenant-crypto", "delete-tenant-crypto", "withdraw-bucket-keys", "delete-namespaces"}

\* A change beside what the argument reads is a step that changes nothing of it.
LEMMA AsideChange ==
    ASSUME NEW p, NEW e, NEW t, NEW u, e.s \notin Telling, Aside(t, u), Projects(p, e, t, u), Passed(p, e, t),
           e.s \in {"attest-target", "ensure-subdomain-free"} => u = t
    PROVE  Change(p, e, t, u)
<1> USE DEF Telling, Aside
<1>1. RowSet(e, t, u)
  BY DEF RowSet
<1>2. RegSet(p, e, t, u)
  BY DEF RegSet
<1>3. KeysSet(e, t, u)
  BY DEF KeysSet
<1>4. ClusterSet(p, e, t, u)
  BY DEF ClusterSet
<1> QED
  BY <1>1, <1>2, <1>3, <1>4 DEF Change

\* What a step that reads has seen.
LEMMA ReadsStep ==
    ASSUME Types, NEW r \in Runs
    PROVE  AttestTarget(r) \/ EnsureSubdomainFree(r) \/ BuildUnit(r) \/ RefreshImages(r) \/ EnsureImages(r)
           \/ WatchSyncSet(r) \/ Smoke(r) \/ Activate(r) \/ WatchAppPrune(r) \/ WatchOff(r) \/ VerifyOff(r)
           \/ WatchSync(r) \/ WatchPrune(r) \/ VerifyPrune(r) \/ WatchRemoval(r) \/ AttestPurge(r) => Stepped(r)
<1> DEFINE e == Head(run[r].todo)
           t == tenant[On(r)]
           p == Param(r)
<1>1. ASSUME NEW s, At(r, s), Passes(r), s \notin Telling, s # "delete-projects", Passed(p, e, t)
      PROVE  Stepped(r)
  <2>1. e.s = s
    BY <1>1 DEF At
  <2>2. Aside(t, t) /\ Projects(p, e, t, t)
    BY <1>1, <2>1 DEF Aside, Projects, Telling
  <2>3. Change(p, e, t, t)
    BY <1>1, <2>1, <2>2, AsideChange
  <2>4. s \notin {"record-provisional", "append-app", "seed-tenant-crypto"}
    BY <1>1 DEF Telling
  <2> QED
    BY <1>1, <2>3, <2>4, PassesSteps
<1>2. ASSUME NEW s, At(r, s), Passes(r), s \notin Telling,
             s \notin {"ensure-subdomain-free", "watch-prune", "verify-prune", "watch-removal", "attest-purge",
                       "extend-argo-sync", "delete-projects"}
      PROVE  Stepped(r)
  <2>1. e.s = s
    BY <1>2 DEF At
  <2>2. Passed(p, e, t)
    BY <1>2, <2>1 DEF Passed
  <2> QED
    BY <1>1, <1>2, <2>2
<1>3. CASE AttestTarget(r)
  <2>1. At(r, "attest-target") /\ Passes(r) /\ "attest-target" \notin Telling
    BY <1>3 DEF AttestTarget, Telling
  <2> QED
    BY <1>2, <2>1
<1>4. CASE BuildUnit(r)
  <2>1. At(r, "build-unit") /\ Passes(r) /\ "build-unit" \notin Telling
    BY <1>4 DEF BuildUnit, Telling
  <2> QED
    BY <1>2, <2>1
<1>5. CASE RefreshImages(r)
  <2>1. At(r, "refresh-images") /\ Passes(r) /\ "refresh-images" \notin Telling
    BY <1>5 DEF RefreshImages, Telling
  <2> QED
    BY <1>2, <2>1
<1>6. CASE EnsureImages(r)
  <2>1. At(r, "ensure-images") /\ Passes(r) /\ "ensure-images" \notin Telling
    BY <1>6 DEF EnsureImages, Telling
  <2> QED
    BY <1>2, <2>1
<1>7. CASE WatchSyncSet(r)
  <2>1. At(r, "watch-sync-set") /\ Passes(r) /\ "watch-sync-set" \notin Telling
    BY <1>7 DEF WatchSyncSet, Telling
  <2> QED
    BY <1>2, <2>1
<1>8. CASE Smoke(r)
  <2>1. At(r, "smoke") /\ Passes(r) /\ "smoke" \notin Telling
    BY <1>8 DEF Smoke, Telling
  <2> QED
    BY <1>2, <2>1
<1>9. CASE Activate(r)
  <2>1. At(r, "activate") /\ Passes(r) /\ "activate" \notin Telling
    BY <1>9 DEF Activate, Telling
  <2> QED
    BY <1>2, <2>1
<1>10. CASE WatchAppPrune(r)
  <2>1. At(r, "watch-app-prune") /\ Passes(r) /\ "watch-app-prune" \notin Telling
    BY <1>10 DEF WatchAppPrune, Telling
  <2> QED
    BY <1>2, <2>1
<1>11. CASE WatchOff(r)
  <2>1. At(r, "watch-off") /\ Passes(r) /\ "watch-off" \notin Telling
    BY <1>11 DEF WatchOff, Telling
  <2> QED
    BY <1>2, <2>1
<1>12. CASE VerifyOff(r)
  <2>1. At(r, "verify-off") /\ Passes(r) /\ "verify-off" \notin Telling
    BY <1>12 DEF VerifyOff, Telling
  <2> QED
    BY <1>2, <2>1
<1>13. CASE WatchSync(r)
  <2>1. At(r, "watch-sync") /\ Passes(r) /\ "watch-sync" \notin Telling
    BY <1>13 DEF WatchSync, Telling
  <2> QED
    BY <1>2, <2>1
<1>14. CASE EnsureSubdomainFree(r)
  <2>1. At(r, "ensure-subdomain-free") /\ Passes(r) /\ "ensure-subdomain-free" \notin Telling /\ e.s = "ensure-subdomain-free"
    BY <1>14 DEF EnsureSubdomainFree, At, Telling
  <2>2. Passed(p, e, t)
    BY <1>14, <2>1 DEF EnsureSubdomainFree, resolveReplaceTargets, On, Passed
  <2> QED
    BY <1>1, <2>1, <2>2
<1>15. CASE WatchPrune(r)
  <2>1. At(r, "watch-prune") /\ Passes(r) /\ "watch-prune" \notin Telling /\ e.s = "watch-prune"
    BY <1>15 DEF WatchPrune, At, Telling
  <2>2. Passed(p, e, t)
    BY <1>15, <2>1 DEF WatchPrune, By, On, Passed
  <2> QED
    BY <1>1, <2>1, <2>2
<1>16. CASE VerifyPrune(r)
  <2>1. At(r, "verify-prune") /\ Passes(r) /\ "verify-prune" \notin Telling /\ e.s = "verify-prune"
    BY <1>16 DEF VerifyPrune, At, Telling
  <2>2. Passed(p, e, t)
    BY <1>16, <2>1 DEF VerifyPrune, On, Passed
  <2> QED
    BY <1>1, <2>1, <2>2
<1>17. CASE WatchRemoval(r)
  <2>1. At(r, "watch-removal") /\ Passes(r) /\ "watch-removal" \notin Telling /\ e.s = "watch-removal"
    BY <1>17 DEF WatchRemoval, At, Telling
  <2>2. Passed(p, e, t)
    BY <1>17, <2>1 DEF WatchRemoval, tenantTeardownMembers, On, Passed
  <2> QED
    BY <1>1, <2>1, <2>2
<1>18. CASE AttestPurge(r)
  <2>1. At(r, "attest-purge") /\ Passes(r) /\ "attest-purge" \notin Telling /\ e.s = "attest-purge"
    BY <1>18 DEF AttestPurge, At, Telling
  <2>2. Passed(p, e, t)
    BY <1>18, <2>1 DEF AttestPurge, tenantNotLive, NotLive, On, Passed
  <2> QED
    BY <1>1, <2>1, <2>2
<1> QED
  BY <1>3, <1>4, <1>5, <1>6, <1>7, <1>8, <1>9, <1>10, <1>11, <1>12, <1>13, <1>14, <1>15, <1>16, <1>17, <1>18

\* The steps that set what nothing here asks about.
LEMMA AsideStep ==
    ASSUME Types, NEW r \in Runs
    PROVE  CreateRepository(r) \/ WriteTree(r) \/ ApplyAppProjects(r) \/ ApplyAppProject(r)
           \/ ProvisionArgoSync(r) \/ ExtendArgoSync(r) \/ RemoveAppsRegistration(r) \/ DeleteProjects(r)
           \/ RemoveIssuerRecords(r) \/ DeleteAppProjects(r) \/ RecordApp(r) \/ RecordAppRemoved(r)
           \/ DeleteAppRecord(r) => Stepped(r)
<1> DEFINE e == Head(run[r].todo)
           t == tenant[On(r)]
           p == Param(r)
<1>1. ASSUME NEW s, At(r, s), NEW u \in TenantType, Writes(r, On(r), u), Aside(t, u), Projects(p, e, t, u),
             s \notin Telling \cup {"attest-target", "ensure-subdomain-free"}, Passed(p, e, t)
      PROVE  Stepped(r)
  <2>1. e.s = s
    BY <1>1 DEF At
  <2>2. Change(p, e, t, u)
    BY <1>1, <2>1, AsideChange
  <2>3. s \notin {"record-provisional", "append-app", "seed-tenant-crypto"}
    BY <1>1 DEF Telling
  <2> QED
    BY <1>1, <2>2, <2>3, WritesSteps
<1>2. ASSUME NEW s, At(r, s) PROVE t \in TenantType /\ p \in ParamType /\ On(r) \in Guids
  BY <1>2, AtHand DEF At
<1>3. CASE CreateRepository(r)
  <2> DEFINE u == [t EXCEPT !.bundle = IF @ = "none" THEN "repository" ELSE @]
  <2>1. At(r, "create-repository") /\ e.s = "create-repository"
    BY <1>3 DEF CreateRepository, At
  <2>2. Writes(r, On(r), u) /\ "create-repository" \notin Telling \cup {"attest-target", "ensure-subdomain-free"}
    BY <1>3 DEF CreateRepository, Telling
  <2>3. u \in TenantType /\ Aside(t, u) /\ Projects(p, e, t, u)
    BY <1>2, <2>1 DEF Aside, Projects, By, On, TenantType, ParamType, Members, Status, Settled, RegType
  <2>4. Passed(p, e, t)
    BY <2>1 DEF Passed
  <2> HIDE DEF u
  <2> QED
    BY <1>1, <2>1, <2>2, <2>3, <2>4
<1>4. CASE WriteTree(r)
  <2> DEFINE u == [t EXCEPT !.bundle = IF @ = "repository" THEN "tree" ELSE @]
  <2>1. At(r, "write-tree") /\ e.s = "write-tree"
    BY <1>4 DEF WriteTree, At
  <2>2. Writes(r, On(r), u) /\ "write-tree" \notin Telling \cup {"attest-target", "ensure-subdomain-free"}
    BY <1>4 DEF WriteTree, Telling
  <2>3. u \in TenantType /\ Aside(t, u) /\ Projects(p, e, t, u)
    BY <1>2, <2>1 DEF Aside, Projects, By, On, TenantType, ParamType, Members, Status, Settled, RegType
  <2>4. Passed(p, e, t)
    BY <2>1 DEF Passed
  <2> HIDE DEF u
  <2> QED
    BY <1>1, <2>1, <2>2, <2>3, <2>4
<1>5. CASE ApplyAppProjects(r)
  <2> DEFINE u == applyAppProject(t, {Idp} \cup p.apps)
  <2>1. At(r, "apply-appprojects") /\ e.s = "apply-appprojects"
    BY <1>5 DEF ApplyAppProjects, At
  <2>2. Writes(r, On(r), u) /\ "apply-appprojects" \notin Telling \cup {"attest-target", "ensure-subdomain-free"}
    BY <1>5 DEF ApplyAppProjects, Telling
  <2>3. u \in TenantType /\ Aside(t, u) /\ Projects(p, e, t, u)
    BY <1>2, <2>1 DEF Aside, Projects, By, On, TenantType, ParamType, Members, Status, Settled, RegType, applyAppProject
  <2>4. Passed(p, e, t)
    BY <2>1 DEF Passed
  <2> HIDE DEF u
  <2> QED
    BY <1>1, <2>1, <2>2, <2>3, <2>4
<1>6. CASE ApplyAppProject(r)
  <2> DEFINE u == applyAppProject(t, p.apps)
  <2>1. At(r, "apply-appproject") /\ e.s = "apply-appproject"
    BY <1>6 DEF ApplyAppProject, At
  <2>2. Writes(r, On(r), u) /\ "apply-appproject" \notin Telling \cup {"attest-target", "ensure-subdomain-free"}
    BY <1>6 DEF ApplyAppProject, Telling
  <2>3. u \in TenantType /\ Aside(t, u) /\ Projects(p, e, t, u)
    BY <1>2, <2>1 DEF Aside, Projects, By, On, TenantType, ParamType, Members, Status, Settled, RegType, applyAppProject
  <2>4. Passed(p, e, t)
    BY <2>1 DEF Passed
  <2> HIDE DEF u
  <2> QED
    BY <1>1, <2>1, <2>2, <2>3, <2>4
<1>7. CASE ProvisionArgoSync(r)
  <2> DEFINE u == [t EXCEPT !.grant = {Idp} \cup p.apps]
  <2>1. At(r, "provision-argo-sync") /\ e.s = "provision-argo-sync"
    BY <1>7 DEF ProvisionArgoSync, At
  <2>2. Writes(r, On(r), u) /\ "provision-argo-sync" \notin Telling \cup {"attest-target", "ensure-subdomain-free"}
    BY <1>7 DEF ProvisionArgoSync, Telling
  <2>3. u \in TenantType /\ Aside(t, u) /\ Projects(p, e, t, u)
    BY <1>2, <2>1 DEF Aside, Projects, By, On, TenantType, ParamType, Members, Status, Settled, RegType
  <2>4. Passed(p, e, t)
    BY <2>1 DEF Passed
  <2> HIDE DEF u
  <2> QED
    BY <1>1, <2>1, <2>2, <2>3, <2>4
<1>8. CASE ExtendArgoSync(r)
  <2> DEFINE u == [t EXCEPT !.grant = memberNames(t) \cup p.apps]
  <2>1. At(r, "extend-argo-sync") /\ e.s = "extend-argo-sync"
    BY <1>8 DEF ExtendArgoSync, At
  <2>2. Writes(r, On(r), u) /\ "extend-argo-sync" \notin Telling \cup {"attest-target", "ensure-subdomain-free"}
    BY <1>8 DEF ExtendArgoSync, Telling
  <2>3. u \in TenantType /\ Aside(t, u) /\ Projects(p, e, t, u)
    BY <1>2, <2>1 DEF Aside, Projects, By, On, TenantType, ParamType, Members, Status, Settled, RegType, memberNames
  <2>4. Passed(p, e, t)
    BY <1>8, <2>1 DEF Passed, ExtendArgoSync
  <2> HIDE DEF u
  <2> QED
    BY <1>1, <2>1, <2>2, <2>3, <2>4
<1>9. CASE RemoveAppsRegistration(r)
  <2> DEFINE u == IF t.reg.in /\ t.reg.bundle THEN [t EXCEPT !.bundle = "tree"] ELSE t
  <2>1. At(r, "remove-apps-registration") /\ e.s = "remove-apps-registration"
    BY <1>9 DEF RemoveAppsRegistration, At
  <2>2. Writes(r, On(r), u) /\ "remove-apps-registration" \notin Telling \cup {"attest-target", "ensure-subdomain-free"}
    BY <1>9 DEF RemoveAppsRegistration, Telling
  <2>3. u \in TenantType /\ Aside(t, u) /\ Projects(p, e, t, u)
    BY <1>2, <2>1 DEF Aside, Projects, By, On, TenantType, ParamType, Members, Status, Settled, RegType
  <2>4. Passed(p, e, t)
    BY <2>1 DEF Passed
  <2> HIDE DEF u
  <2> QED
    BY <1>1, <2>1, <2>2, <2>3, <2>4
<1>10. CASE DeleteProjects(r)
  <2> DEFINE u == [deleteAppProject(t, IF By(r) = "abort" THEN {Idp} \cup p.apps ELSE p.targets[On(r)]) EXCEPT !.grant = {}]
  <2>1. At(r, "delete-projects") /\ e.s = "delete-projects"
    BY <1>10 DEF DeleteProjects, At
  <2>2. Writes(r, On(r), u) /\ "delete-projects" \notin Telling \cup {"attest-target", "ensure-subdomain-free"}
    BY <1>10 DEF DeleteProjects, Telling
  <2>3. u \in TenantType /\ Aside(t, u) /\ Projects(p, e, t, u)
    BY <1>2, <2>1 DEF Aside, Projects, By, On, TenantType, ParamType, Members, Status, Settled, RegType, deleteAppProject
  <2>4. Passed(p, e, t)
    BY <2>1 DEF Passed
  <2> HIDE DEF u
  <2> QED
    BY <1>1, <2>1, <2>2, <2>3, <2>4
<1>11. CASE RemoveIssuerRecords(r)
  <2> DEFINE u == removeIssuerRecords(t)
  <2>1. At(r, "remove-issuer-records") /\ e.s = "remove-issuer-records"
    BY <1>11 DEF RemoveIssuerRecords, At
  <2>2. Writes(r, On(r), u) /\ "remove-issuer-records" \notin Telling \cup {"attest-target", "ensure-subdomain-free"}
    BY <1>11 DEF RemoveIssuerRecords, Telling
  <2>3. u \in TenantType /\ Aside(t, u) /\ Projects(p, e, t, u)
    BY <1>2, <2>1 DEF Aside, Projects, By, On, TenantType, ParamType, Members, Status, Settled, RegType, removeIssuerRecords
  <2>4. Passed(p, e, t)
    BY <2>1 DEF Passed
  <2> HIDE DEF u
  <2> QED
    BY <1>1, <2>1, <2>2, <2>3, <2>4
<1>12. CASE DeleteAppProjects(r)
  <2> DEFINE u == [deleteAppProject(t, tenantTeardownMembers(t)) EXCEPT !.grant = {}]
  <2>1. At(r, "delete-appprojects") /\ e.s = "delete-appprojects"
    BY <1>12 DEF DeleteAppProjects, At
  <2>2. Writes(r, On(r), u) /\ "delete-appprojects" \notin Telling \cup {"attest-target", "ensure-subdomain-free"}
    BY <1>12 DEF DeleteAppProjects, Telling
  <2>3. u \in TenantType /\ Aside(t, u) /\ Projects(p, e, t, u)
    BY <1>2, <2>1 DEF Aside, Projects, By, On, TenantType, ParamType, Members, Status, Settled, RegType, deleteAppProject, tenantTeardownMembers
  <2>4. Passed(p, e, t)
    BY <2>1 DEF Passed
  <2> HIDE DEF u
  <2> QED
    BY <1>1, <2>1, <2>2, <2>3, <2>4
<1>13. CASE RecordApp(r)
  <2> DEFINE u == [t EXCEPT !.appRow = [a \in Apps |-> IF a \in p.apps THEN "active" ELSE @[a]]]
  <2>1. At(r, "record-app") /\ e.s = "record-app"
    BY <1>13 DEF RecordApp, At
  <2>2. Writes(r, On(r), u) /\ "record-app" \notin Telling \cup {"attest-target", "ensure-subdomain-free"}
    BY <1>13 DEF RecordApp, Telling
  <2>5. [a \in Apps |-> IF a \in p.apps THEN "active" ELSE t.appRow[a]] \in [Apps -> Status]
    BY <1>2, <2>1 DEF TenantType, Status, Live, Settled
  <2>3. u \in TenantType /\ Aside(t, u) /\ Projects(p, e, t, u)
    BY <1>2, <2>1, <2>5 DEF Aside, Projects, By, On, TenantType, ParamType, Members, Status, Settled, RegType
  <2>4. Passed(p, e, t)
    BY <2>1 DEF Passed
  <2> HIDE DEF u
  <2> QED
    BY <1>1, <2>1, <2>2, <2>3, <2>4
<1>14. CASE RecordAppRemoved(r)
  <2> DEFINE u == [t EXCEPT !.appRow = [a \in Apps |-> IF a \in p.apps /\ @[a] # "none" THEN "offboarded" ELSE @[a]]]
  <2>1. At(r, "record-app-removed") /\ e.s = "record-app-removed"
    BY <1>14 DEF RecordAppRemoved, At
  <2>2. Writes(r, On(r), u) /\ "record-app-removed" \notin Telling \cup {"attest-target", "ensure-subdomain-free"}
    BY <1>14 DEF RecordAppRemoved, Telling
  <2>5. [a \in Apps |-> IF a \in p.apps /\ t.appRow[a] # "none" THEN "offboarded" ELSE t.appRow[a]] \in [Apps -> Status]
    BY <1>2, <2>1 DEF TenantType, Status, Live, Settled
  <2>3. u \in TenantType /\ Aside(t, u) /\ Projects(p, e, t, u)
    BY <1>2, <2>1, <2>5 DEF Aside, Projects, By, On, TenantType, ParamType, Members, Status, Settled, RegType
  <2>4. Passed(p, e, t)
    BY <2>1 DEF Passed
  <2> HIDE DEF u
  <2> QED
    BY <1>1, <2>1, <2>2, <2>3, <2>4
<1>15. CASE DeleteAppRecord(r)
  <2> DEFINE u == [t EXCEPT !.appRow = [a \in Apps |-> IF a \in p.apps THEN "none" ELSE @[a]]]
  <2>1. At(r, "delete-app-record") /\ e.s = "delete-app-record"
    BY <1>15 DEF DeleteAppRecord, At
  <2>2. Writes(r, On(r), u) /\ "delete-app-record" \notin Telling \cup {"attest-target", "ensure-subdomain-free"}
    BY <1>15 DEF DeleteAppRecord, Telling
  <2>5. [a \in Apps |-> IF a \in p.apps THEN "none" ELSE t.appRow[a]] \in [Apps -> Status]
    BY <1>2, <2>1 DEF TenantType, Status, Live, Settled
  <2>3. u \in TenantType /\ Aside(t, u) /\ Projects(p, e, t, u)
    BY <1>2, <2>1, <2>5 DEF Aside, Projects, By, On, TenantType, ParamType, Members, Status, Settled, RegType
  <2>4. Passed(p, e, t)
    BY <2>1 DEF Passed
  <2> HIDE DEF u
  <2> QED
    BY <1>1, <2>1, <2>2, <2>3, <2>4
<1> QED
  BY <1>3, <1>4, <1>5, <1>6, <1>7, <1>8, <1>9, <1>10, <1>11, <1>12, <1>13, <1>14, <1>15

\* A registration without some apps; without any, what no registration is.
LEMMA RegWithout ==
    ASSUME NEW x \in RegType, NEW A
    PROVE  LET y == [x EXCEPT !.apps = @ \ A] IN
           y.in = x.in /\ y.apps = x.apps \ A /\ (x = NoReg => y = NoReg)
<1>1. CASE x = NoReg
  <2>1. {} \ A = {}
    OBVIOUS
  <2> QED
    BY <1>1, <2>1 DEF NoReg
<1>2. [x EXCEPT !.apps = @ \ A].in = x.in /\ [x EXCEPT !.apps = @ \ A].apps = x.apps \ A
  BY DEF RegType
<1> QED
  BY <1>1, <1>2

\* The rows of a tenant, and its last bundle.
LEMMA RowsTyped ==
    ASSUME NEW t \in TenantType, NEW x \in Status, NEW y \in [Apps -> Status]
    PROVE  [t EXCEPT !.row = x, !.appRow = y] \in TenantType
BY DEF TenantType

LEMMA LastBundleTyped ==
    ASSUME NEW t \in TenantType
    PROVE  [t EXCEPT !.bundle = "tree", !.reg.bundle = FALSE] \in TenantType
<1>1. [t.reg EXCEPT !.bundle = FALSE] \in RegType
  BY DEF TenantType, RegType
<1> QED
  BY <1>1 DEF TenantType

\* The steps that write the registration, the row, the keys and the namespaces.
LEMMA WritesStep ==
    ASSUME Types, NEW r \in Runs
    PROVE  WriteRegistration(r) \/ RecordAppsRepo(r) \/ RevertAppAppend(r) \/ RemoveAppPointer(r)
           \/ RemoveLastAppsRegistration(r) \/ SuspendTenant(r) \/ ResumeTenant(r) \/ Remove(r)
           \/ RecordInventory(r) \/ RecordSuspended(r) \/ RecordActive(r) \/ Record(r) \/ RecordOffboard(r)
           \/ SeedTenantAppKey(r) \/ DeleteAppObjects(r) \/ DeleteNamespaces(r) \/ DeleteTenantCrypto(r)
           \/ WithdrawBucketKeys(r) => Stepped(r)
<1> DEFINE e == Head(run[r].todo)
           t == tenant[On(r)]
           p == Param(r)
<1>1. ASSUME NEW s, At(r, s) PROVE t \in TenantType /\ p \in ParamType /\ On(r) \in Guids /\ By(r) = e.by
  BY <1>1, AtHand DEF At
<1>2. CASE WriteRegistration(r)
  <2> DEFINE u == [t EXCEPT !.reg = [apps |-> p.apps, bundle |-> p.apps # {}, suspended |-> FALSE, in |-> TRUE]]
  <2>1. At(r, "write-registration") /\ e.s = "write-registration"
    BY <1>2 DEF WriteRegistration, At
  <2>2. Writes(r, On(r), u)
    BY <1>2 DEF WriteRegistration
  <2>5. [apps |-> p.apps, bundle |-> p.apps # {}, suspended |-> FALSE, in |-> TRUE] \in RegType
    BY <1>1, <2>1 DEF RegType, ParamType
  <2>6. u \in TenantType
    BY <1>1, <2>1, <2>5 DEF TenantType
  <2>3. /\ u.terminating = t.terminating /\ u.project = t.project /\ u.unwired = t.unwired
        /\ u.row = t.row /\ u.appRow = t.appRow /\ u.fan = t.fan /\ u.ns = t.ns /\ u.entry = t.entry
        /\ u.appKeys = t.appKeys /\ u.bucketKeys = t.bucketKeys /\ u.reg.in /\ u.reg.apps = p.apps
    BY <1>1, <2>1 DEF TenantType, RegType, NoReg, ParamType, Status, Live, Settled
  <2> HIDE DEF u
  <2>4. Change(p, e, t, u)
    BY <1>1, <2>1, <2>2, <2>3, <2>6 DEF Change, RowSet, RegSet, KeysSet, ClusterSet, Projects, Passed, NoReg, TenantType, RegType
  <2> QED
    BY <2>1, <2>2, <2>3, <2>4, <2>6, WritesSteps
<1>3. CASE RecordAppsRepo(r)
  <2> DEFINE u == [t EXCEPT !.reg.bundle = @ \/ t.reg.in]
  <2>1. At(r, "record-apps-repo") /\ e.s = "record-apps-repo"
    BY <1>3 DEF RecordAppsRepo, At
  <2>2. Writes(r, On(r), u)
    BY <1>3 DEF RecordAppsRepo
  <2>6. u \in TenantType
    BY <1>1, <2>1 DEF TenantType, RegType, NoReg, ParamType, Status, Live, Settled
  <2>3. /\ u.terminating = t.terminating /\ u.project = t.project /\ u.unwired = t.unwired
        /\ u.row = t.row /\ u.appRow = t.appRow /\ u.fan = t.fan /\ u.ns = t.ns /\ u.entry = t.entry
        /\ u.appKeys = t.appKeys /\ u.bucketKeys = t.bucketKeys /\ u.reg.in = t.reg.in
        /\ u.reg.apps = t.reg.apps /\ (t.reg = NoReg => u.reg = NoReg)
    BY <1>1, <2>1 DEF TenantType, RegType, NoReg, ParamType, Status, Live, Settled
  <2> HIDE DEF u
  <2>4. Change(p, e, t, u)
    BY <1>1, <2>1, <2>2, <2>3, <2>6 DEF Change, RowSet, RegSet, KeysSet, ClusterSet, Projects, Passed
  <2> QED
    BY <2>1, <2>2, <2>3, <2>4, <2>6, WritesSteps
<1>4. CASE RevertAppAppend(r)
  <2> DEFINE u == [t EXCEPT !.reg.apps = @ \ p.apps]
  <2>1. At(r, "revert-app-append") /\ e.s = "revert-app-append"
    BY <1>4 DEF RevertAppAppend, At
  <2>2. Writes(r, On(r), u)
    BY <1>4 DEF RevertAppAppend
  <2>5. t.reg \in RegType
    BY <1>1, <2>1 DEF TenantType
  <2>6. u \in TenantType
    BY <1>1, <2>1 DEF TenantType, RegType, NoReg, ParamType, Status, Live, Settled
  <2>3. /\ u.terminating = t.terminating /\ u.project = t.project /\ u.unwired = t.unwired
        /\ u.row = t.row /\ u.appRow = t.appRow /\ u.fan = t.fan /\ u.ns = t.ns /\ u.entry = t.entry
        /\ u.appKeys = t.appKeys /\ u.bucketKeys = t.bucketKeys /\ u.reg = [t.reg EXCEPT !.apps = @ \ p.apps]
    BY <1>1, <2>1 DEF TenantType, RegType, NoReg, ParamType, Status, Live, Settled
  <2> HIDE DEF u
  <2>4. Change(p, e, t, u)
    BY <1>1, <2>1, <2>2, <2>3, <2>5, <2>6, RegWithout DEF Change, RowSet, RegSet, KeysSet, ClusterSet, Projects, Passed
  <2> QED
    BY <2>1, <2>2, <2>3, <2>4, <2>6, WritesSteps
<1>5. CASE RemoveAppPointer(r)
  <2> DEFINE u == [t EXCEPT !.reg.apps = @ \ p.apps]
  <2>1. At(r, "remove-app-pointer") /\ e.s = "remove-app-pointer"
    BY <1>5 DEF RemoveAppPointer, At
  <2>2. Writes(r, On(r), u)  /\ t.reg.in
    BY <1>5 DEF RemoveAppPointer
  <2>6. u \in TenantType
    BY <1>1, <2>1 DEF TenantType, RegType, NoReg, ParamType, Status, Live, Settled
  <2>3. /\ u.terminating = t.terminating /\ u.project = t.project /\ u.unwired = t.unwired
        /\ u.row = t.row /\ u.appRow = t.appRow /\ u.fan = t.fan /\ u.ns = t.ns /\ u.entry = t.entry
        /\ u.appKeys = t.appKeys /\ u.bucketKeys = t.bucketKeys /\ u.reg = [t.reg EXCEPT !.apps = @ \ p.apps]
    BY <1>1, <2>1 DEF TenantType, RegType, NoReg, ParamType, Status, Live, Settled
  <2> HIDE DEF u
  <2>4. Change(p, e, t, u)
    BY <1>1, <2>1, <2>2, <2>3, <2>6 DEF Change, RowSet, RegSet, KeysSet, ClusterSet, Projects, Passed, NoReg, TenantType, RegType
  <2> QED
    BY <2>1, <2>2, <2>3, <2>4, <2>6, WritesSteps
<1>6. CASE RemoveLastAppsRegistration(r)
  <2> DEFINE u == IF t.reg.in /\ t.reg.apps = {} /\ t.reg.bundle THEN [t EXCEPT !.bundle = "tree", !.reg.bundle = FALSE] ELSE t
  <2>1. At(r, "remove-last-apps-registration") /\ e.s = "remove-last-apps-registration"
    BY <1>6 DEF RemoveLastAppsRegistration, At
  <2>2. Writes(r, On(r), u)
    BY <1>6 DEF RemoveLastAppsRegistration
  <2>5. t \in TenantType
    BY <1>1, <2>1
  <2>7. [t EXCEPT !.bundle = "tree", !.reg.bundle = FALSE] \in TenantType
    BY <2>5, LastBundleTyped, Zenon
  <2>6. u \in TenantType
    BY <2>5, <2>7, Zenon
  <2>3. /\ u.terminating = t.terminating /\ u.project = t.project /\ u.unwired = t.unwired
        /\ u.row = t.row /\ u.appRow = t.appRow /\ u.fan = t.fan /\ u.ns = t.ns /\ u.entry = t.entry
        /\ u.appKeys = t.appKeys /\ u.bucketKeys = t.bucketKeys /\ u.reg.in = t.reg.in
        /\ u.reg.apps = t.reg.apps /\ (~t.reg.in => u.reg = t.reg)
    BY <1>1, <2>1 DEF TenantType, RegType, NoReg, ParamType, Status, Live, Settled
  <2> HIDE DEF u
  <2>4. Change(p, e, t, u)
    BY <1>1, <2>1, <2>2, <2>3, <2>6 DEF Change, RowSet, RegSet, KeysSet, ClusterSet, Projects, Passed, NoReg, TenantType, RegType
  <2> QED
    BY <2>1, <2>2, <2>3, <2>4, <2>6, WritesSteps
<1>7. CASE SuspendTenant(r)
  <2> DEFINE u == [t EXCEPT !.reg.suspended = TRUE]
  <2>1. At(r, "suspend-tenant") /\ e.s = "suspend-tenant"
    BY <1>7 DEF SuspendTenant, At
  <2>2. Writes(r, On(r), u)  /\ t.reg.in
    BY <1>7 DEF SuspendTenant
  <2>6. u \in TenantType
    BY <1>1, <2>1 DEF TenantType, RegType, NoReg, ParamType, Status, Live, Settled
  <2>3. /\ u.terminating = t.terminating /\ u.project = t.project /\ u.unwired = t.unwired
        /\ u.row = t.row /\ u.appRow = t.appRow /\ u.fan = t.fan /\ u.ns = t.ns /\ u.entry = t.entry
        /\ u.appKeys = t.appKeys /\ u.bucketKeys = t.bucketKeys /\ u.reg = [t.reg EXCEPT !.suspended = TRUE]
    BY <1>1, <2>1 DEF TenantType, RegType, NoReg, ParamType, Status, Live, Settled
  <2> HIDE DEF u
  <2>4. Change(p, e, t, u)
    BY <1>1, <2>1, <2>2, <2>3, <2>6 DEF Change, RowSet, RegSet, KeysSet, ClusterSet, Projects, Passed, NoReg, TenantType, RegType
  <2> QED
    BY <2>1, <2>2, <2>3, <2>4, <2>6, WritesSteps
<1>8. CASE ResumeTenant(r)
  <2> DEFINE u == [t EXCEPT !.reg.suspended = FALSE]
  <2>1. At(r, "resume-tenant") /\ e.s = "resume-tenant"
    BY <1>8 DEF ResumeTenant, At
  <2>2. Writes(r, On(r), u)  /\ t.reg.in
    BY <1>8 DEF ResumeTenant
  <2>6. u \in TenantType
    BY <1>1, <2>1 DEF TenantType, RegType, NoReg, ParamType, Status, Live, Settled
  <2>3. /\ u.terminating = t.terminating /\ u.project = t.project /\ u.unwired = t.unwired
        /\ u.row = t.row /\ u.appRow = t.appRow /\ u.fan = t.fan /\ u.ns = t.ns /\ u.entry = t.entry
        /\ u.appKeys = t.appKeys /\ u.bucketKeys = t.bucketKeys /\ u.reg = [t.reg EXCEPT !.suspended = FALSE]
    BY <1>1, <2>1 DEF TenantType, RegType, NoReg, ParamType, Status, Live, Settled
  <2> HIDE DEF u
  <2>4. Change(p, e, t, u)
    BY <1>1, <2>1, <2>2, <2>3, <2>6 DEF Change, RowSet, RegSet, KeysSet, ClusterSet, Projects, Passed, NoReg, TenantType, RegType
  <2> QED
    BY <2>1, <2>2, <2>3, <2>4, <2>6, WritesSteps
<1>9. CASE Remove(r)
  <2> DEFINE u == [t EXCEPT !.reg = NoReg]
  <2>1. At(r, "remove") /\ e.s = "remove"
    BY <1>9 DEF Remove, At
  <2>2. Writes(r, On(r), u)
    BY <1>9 DEF Remove
  <2>6. u \in TenantType
    BY <1>1, <2>1 DEF TenantType, RegType, NoReg, ParamType, Status, Live, Settled
  <2>3. /\ u.terminating = t.terminating /\ u.project = t.project /\ u.unwired = t.unwired
        /\ u.row = t.row /\ u.appRow = t.appRow /\ u.fan = t.fan /\ u.ns = t.ns /\ u.entry = t.entry
        /\ u.appKeys = t.appKeys /\ u.bucketKeys = t.bucketKeys /\ u.reg = NoReg
    BY <1>1, <2>1 DEF TenantType, RegType, NoReg, ParamType, Status, Live, Settled
  <2> HIDE DEF u
  <2>4. Change(p, e, t, u)
    BY <1>1, <2>1, <2>2, <2>3, <2>6 DEF Change, RowSet, RegSet, KeysSet, ClusterSet, Projects, Passed, NoReg, TenantType, RegType
  <2> QED
    BY <2>1, <2>2, <2>3, <2>4, <2>6, WritesSteps
<1>10. CASE RecordInventory(r)
  <2> DEFINE u == upsertTenantInventory(t, p.apps, TRUE)
  <2>1. At(r, "record-inventory") /\ e.s = "record-inventory"
    BY <1>10 DEF RecordInventory, At
  <2>2. Writes(r, On(r), u)
    BY <1>10 DEF RecordInventory
  <2>5. [a \in Apps |-> IF a \notin p.apps THEN t.appRow[a] ELSE "active"] \in [Apps -> Status]
    BY <1>1, <2>1 DEF TenantType, Status, Live
  <2>7. u = [t EXCEPT !.row = "active", !.appRow = [a \in Apps |-> IF a \notin p.apps THEN t.appRow[a] ELSE "active"]]
    BY DEF upsertTenantInventory
  <2>8. t \in TenantType /\ "active" \in Status
    BY <1>1, <2>1 DEF Status, Live
  <2>9. [t EXCEPT !.row = "active", !.appRow = [a \in Apps |-> IF a \notin p.apps THEN t.appRow[a] ELSE "active"]]
            \in TenantType
    BY <2>5, <2>8, RowsTyped, Zenon
  <2>6. u \in TenantType
    BY <2>7, <2>9
  <2>3. /\ u.terminating = t.terminating /\ u.project = t.project /\ u.unwired = t.unwired
        /\ u.reg = t.reg /\ u.fan = t.fan /\ u.ns = t.ns /\ u.entry = t.entry /\ u.appKeys = t.appKeys
        /\ u.bucketKeys = t.bucketKeys /\ u.row = "active"
    BY <1>1, <2>1, <2>5 DEF TenantType, RegType, NoReg, ParamType, Status, Live, Settled, upsertTenantInventory
  <2> HIDE DEF u
  <2>4. Change(p, e, t, u)
    BY <1>1, <2>1, <2>2, <2>3, <2>6 DEF Change, RowSet, RegSet, KeysSet, ClusterSet, Projects, Passed, NoReg, TenantType, RegType
  <2> QED
    BY <2>1, <2>2, <2>3, <2>4, <2>6, WritesSteps
<1>11. CASE RecordSuspended(r)
  <2> DEFINE u == [t EXCEPT !.row = "suspended"]
  <2>1. At(r, "record-suspended") /\ e.s = "record-suspended"
    BY <1>11 DEF RecordSuspended, At
  <2>2. Writes(r, On(r), u)
    BY <1>11 DEF RecordSuspended
  <2>6. u \in TenantType
    BY <1>1, <2>1 DEF TenantType, RegType, NoReg, ParamType, Status, Live, Settled
  <2>3. /\ u.terminating = t.terminating /\ u.project = t.project /\ u.unwired = t.unwired
        /\ u.reg = t.reg /\ u.appRow = t.appRow /\ u.fan = t.fan /\ u.ns = t.ns /\ u.entry = t.entry
        /\ u.appKeys = t.appKeys /\ u.bucketKeys = t.bucketKeys /\ u.row = "suspended"
    BY <1>1, <2>1 DEF TenantType, RegType, NoReg, ParamType, Status, Live, Settled
  <2> HIDE DEF u
  <2>4. Change(p, e, t, u)
    BY <1>1, <2>1, <2>2, <2>3, <2>6 DEF Change, RowSet, RegSet, KeysSet, ClusterSet, Projects, Passed, NoReg, TenantType, RegType
  <2> QED
    BY <2>1, <2>2, <2>3, <2>4, <2>6, WritesSteps
<1>12. CASE RecordActive(r)
  <2> DEFINE u == [t EXCEPT !.row = "active"]
  <2>1. At(r, "record-active") /\ e.s = "record-active"
    BY <1>12 DEF RecordActive, At
  <2>2. Writes(r, On(r), u)
    BY <1>12 DEF RecordActive
  <2>6. u \in TenantType
    BY <1>1, <2>1 DEF TenantType, RegType, NoReg, ParamType, Status, Live, Settled
  <2>3. /\ u.terminating = t.terminating /\ u.project = t.project /\ u.unwired = t.unwired
        /\ u.reg = t.reg /\ u.appRow = t.appRow /\ u.fan = t.fan /\ u.ns = t.ns /\ u.entry = t.entry
        /\ u.appKeys = t.appKeys /\ u.bucketKeys = t.bucketKeys /\ u.row = "active"
    BY <1>1, <2>1 DEF TenantType, RegType, NoReg, ParamType, Status, Live, Settled
  <2> HIDE DEF u
  <2>4. Change(p, e, t, u)
    BY <1>1, <2>1, <2>2, <2>3, <2>6 DEF Change, RowSet, RegSet, KeysSet, ClusterSet, Projects, Passed, NoReg, TenantType, RegType
  <2> QED
    BY <2>1, <2>2, <2>3, <2>4, <2>6, WritesSteps
<1>13. CASE Record(r)
  <2> DEFINE u == SettleRows(t, IF By(r) = "purge" THEN "purged" ELSE "offboarded")
  <2>1. At(r, "record") /\ e.s = "record"
    BY <1>13 DEF Record, At
  <2>2. Writes(r, On(r), u)
    BY <1>13 DEF Record
  <2> DEFINE st == (IF By(r) = "purge" THEN "purged" ELSE "offboarded")
             rows == [a \in Apps |-> IF t.appRow[a] \in {"none"} \cup atLeastAsSettledAs(st) THEN t.appRow[a] ELSE st]
             row == IF t.row \in {"none"} \cup atLeastAsSettledAs(st) THEN t.row ELSE st
  <2>5. st \in Status
    BY DEF Status, Settled
  <2>7. u = [t EXCEPT !.row = row, !.appRow = rows]
    BY DEF SettleRows
  <2>8. row \in Status /\ rows \in [Apps -> Status]
    BY <1>1, <2>1, <2>5 DEF TenantType
  <2>6. u \in TenantType
    <3>1. t \in TenantType
      BY <1>1, <2>1
    <3> HIDE DEF row, rows, u
    <3>2. [t EXCEPT !.row = row, !.appRow = rows] \in TenantType
      BY <2>8, <3>1, RowsTyped, Zenon
    <3> QED
      BY <2>7, <3>2, Zenon
  <2>3. /\ u.terminating = t.terminating /\ u.project = t.project /\ u.unwired = t.unwired
        /\ u.reg = t.reg /\ u.fan = t.fan /\ u.ns = t.ns /\ u.entry = t.entry /\ u.appKeys = t.appKeys
        /\ u.bucketKeys = t.bucketKeys
        /\ u.row = (IF By(r) = "purge" THEN IF t.row \in {"none", "purged"} THEN t.row ELSE "purged" ELSE IF t.row \in {"none", "offboarded", "purged"} THEN t.row ELSE "offboarded")
    BY <1>1, <2>1, <2>5 DEF TenantType, Settled, SettleRows, atLeastAsSettledAs
  <2> HIDE DEF u
  <2>4. Change(p, e, t, u)
    BY <1>1, <2>1, <2>2, <2>3, <2>6 DEF Change, RowSet, RegSet, KeysSet, ClusterSet, Projects, Passed, NoReg, TenantType, RegType
  <2> QED
    BY <2>1, <2>2, <2>3, <2>4, <2>6, WritesSteps
<1>14. CASE RecordOffboard(r)
  <2> DEFINE u == SettleRows(t, "offboarded")
  <2>1. At(r, "record-offboard") /\ e.s = "record-offboard"
    BY <1>14 DEF RecordOffboard, At
  <2>2. Writes(r, On(r), u)
    BY <1>14 DEF RecordOffboard
  <2> DEFINE st == "offboarded"
             rows == [a \in Apps |-> IF t.appRow[a] \in {"none"} \cup atLeastAsSettledAs(st) THEN t.appRow[a] ELSE st]
             row == IF t.row \in {"none"} \cup atLeastAsSettledAs(st) THEN t.row ELSE st
  <2>5. st \in Status
    BY DEF Status, Settled
  <2>7. u = [t EXCEPT !.row = row, !.appRow = rows]
    BY DEF SettleRows
  <2>8. row \in Status /\ rows \in [Apps -> Status]
    BY <1>1, <2>1, <2>5 DEF TenantType
  <2>6. u \in TenantType
    <3>1. t \in TenantType
      BY <1>1, <2>1
    <3> HIDE DEF row, rows, u
    <3>2. [t EXCEPT !.row = row, !.appRow = rows] \in TenantType
      BY <2>8, <3>1, RowsTyped, Zenon
    <3> QED
      BY <2>7, <3>2, Zenon
  <2>3. /\ u.terminating = t.terminating /\ u.project = t.project /\ u.unwired = t.unwired
        /\ u.reg = t.reg /\ u.fan = t.fan /\ u.ns = t.ns /\ u.entry = t.entry /\ u.appKeys = t.appKeys
        /\ u.bucketKeys = t.bucketKeys
        /\ u.row = (IF t.row \in {"none", "offboarded", "purged"} THEN t.row ELSE "offboarded")
    BY <1>1, <2>1, <2>5 DEF TenantType, Settled, SettleRows, atLeastAsSettledAs
  <2> HIDE DEF u
  <2>4. Change(p, e, t, u)
    BY <1>1, <2>1, <2>2, <2>3, <2>6 DEF Change, RowSet, RegSet, KeysSet, ClusterSet, Projects, Passed, NoReg, TenantType, RegType
  <2> QED
    BY <2>1, <2>2, <2>3, <2>4, <2>6, WritesSteps
<1>15. CASE SeedTenantAppKey(r)
  <2> DEFINE u == seedTenantAppKey(t, p.apps)
  <2>1. At(r, "seed-password-field-key") /\ e.s = "seed-password-field-key"
    BY <1>15 DEF SeedTenantAppKey, At
  <2>2. Writes(r, On(r), u)
    BY <1>15 DEF SeedTenantAppKey
  <2>6. u \in TenantType
    BY <1>1, <2>1 DEF TenantType, RegType, NoReg, ParamType, Status, Live, Settled, seedTenantAppKey
  <2>3. /\ u.terminating = t.terminating /\ u.project = t.project /\ u.unwired = t.unwired
        /\ u.row = t.row /\ u.reg = t.reg /\ u.appRow = t.appRow /\ u.fan = t.fan /\ u.ns = t.ns
        /\ u.entry = t.entry /\ u.bucketKeys = t.bucketKeys
    BY <1>1, <2>1 DEF TenantType, RegType, NoReg, ParamType, Status, Live, Settled, seedTenantAppKey
  <2> HIDE DEF u
  <2>4. Change(p, e, t, u)
    BY <1>1, <2>1, <2>2, <2>3, <2>6 DEF Change, RowSet, RegSet, KeysSet, ClusterSet, Projects, Passed, NoReg, TenantType, RegType
  <2> QED
    BY <2>1, <2>2, <2>3, <2>4, <2>6, WritesSteps
<1>16. CASE DeleteAppObjects(r)
  <2> DEFINE u == deleteNamespace(deleteTenantAppKeys(deleteAppProject(t, p.apps), p.apps), p.apps)
  <2>1. At(r, "delete-app-objects") /\ e.s = "delete-app-objects"
    BY <1>16 DEF DeleteAppObjects, At
  <2>2. Writes(r, On(r), u)
    BY <1>16 DEF DeleteAppObjects
  <2>6. u \in TenantType
    BY <1>1, <2>1 DEF TenantType, RegType, NoReg, ParamType, Status, Live, Settled, deleteTenantAppKeys,
                      deleteAppProject, deleteNamespace
  <2>3. /\ u.row = t.row /\ u.reg = t.reg /\ u.appRow = t.appRow /\ u.fan = t.fan /\ u.entry = t.entry
        /\ u.bucketKeys = t.bucketKeys /\ u.appKeys \subseteq t.appKeys /\ u.ns = t.ns
        /\ u.terminating = t.terminating \cup (t.ns \cap p.apps) /\ u.project \subseteq t.project
        /\ u.unwired = t.unwired
    BY <1>1, <2>1 DEF TenantType, RegType, NoReg, ParamType, Status, Live, Settled, deleteTenantAppKeys,
                      deleteAppProject, deleteNamespace
  <2> HIDE DEF u
  <2>4. Change(p, e, t, u)
    BY <1>1, <2>1, <2>2, <2>3, <2>6 DEF Change, RowSet, RegSet, KeysSet, ClusterSet, Projects, Passed, NoReg, TenantType, RegType
  <2> QED
    BY <2>1, <2>2, <2>3, <2>4, <2>6, WritesSteps
<1>17. CASE DeleteNamespaces(r)
  <2> DEFINE u == deleteNamespace(t, Members)
  <2>1. At(r, "delete-namespaces") /\ e.s = "delete-namespaces"
    BY <1>17 DEF DeleteNamespaces, At
  <2>2. Writes(r, On(r), u)
    BY <1>17 DEF DeleteNamespaces
  <2>6. u \in TenantType
    BY <1>1, <2>1 DEF TenantType, RegType, NoReg, ParamType, Status, Live, Settled, deleteNamespace
  <2>3. /\ u.row = t.row /\ u.reg = t.reg /\ u.appRow = t.appRow /\ u.fan = t.fan /\ u.entry = t.entry
        /\ u.appKeys = t.appKeys /\ u.bucketKeys = t.bucketKeys /\ u.ns = t.ns
        /\ u.terminating = t.terminating \cup t.ns /\ u.project = t.project /\ u.unwired = t.unwired
    BY <1>1, <2>1 DEF TenantType, RegType, NoReg, ParamType, Status, Live, Settled, deleteNamespace
  <2> HIDE DEF u
  <2>4. Change(p, e, t, u)
    BY <1>1, <2>1, <2>2, <2>3, <2>6 DEF Change, RowSet, RegSet, KeysSet, ClusterSet, Projects, Passed, NoReg, TenantType, RegType
  <2> QED
    BY <2>1, <2>2, <2>3, <2>4, <2>6, WritesSteps
<1>18. CASE DeleteTenantCrypto(r)
  <2>1. At(r, "delete-tenant-crypto") /\ e.s = "delete-tenant-crypto"
    BY <1>18 DEF DeleteTenantCrypto, At
  <2>5. CASE Writes(r, On(r), With(deleteTenantAppKeys(deleteTenantCrypto(t), Apps), "seeder"))
    <3> DEFINE u == With(deleteTenantAppKeys(deleteTenantCrypto(t), Apps), "seeder")
    <3>2. Writes(r, On(r), u)
      BY <2>5
    <3>3. /\ u \in TenantType
          /\ u.row = t.row /\ u.reg = t.reg /\ u.appRow = t.appRow /\ u.fan = t.fan /\ u.ns = t.ns
          /\ u.bucketKeys = t.bucketKeys /\ u.entry = 0 /\ u.appKeys = {}
          /\ u.terminating = t.terminating /\ u.project = t.project /\ u.unwired = t.unwired \ {"seeder"}
      BY <1>1, <2>1 DEF TenantType, RegType, NoReg, ParamType, Status, Live, Settled, deleteTenantAppKeys,
                        deleteTenantCrypto, With, Ports
    <3> HIDE DEF u
    <3>4. Change(p, e, t, u)
      <4>1. RowSet(e, t, u) /\ RegSet(p, e, t, u) /\ Passed(p, e, t)
        BY <2>1, <3>3 DEF RowSet, RegSet, Passed
      <4>2. KeysSet(e, t, u)
        BY <2>1, <3>3 DEF KeysSet
      <4>3. ClusterSet(p, e, t, u)
        BY <2>1, <3>3 DEF ClusterSet, Projects
      <4> QED
        BY <4>1, <4>2, <4>3 DEF Change
    <3> QED
      BY <2>1, <3>2, <3>3, <3>4, WritesSteps
  <2>6. CASE Writes(r, On(r), Without(t, "seeder"))
    <3> DEFINE u == Without(t, "seeder")
    <3>2. Writes(r, On(r), u)
      BY <2>6
    <3>3. /\ u \in TenantType
          /\ u.row = t.row /\ u.reg = t.reg /\ u.appRow = t.appRow /\ u.fan = t.fan /\ u.ns = t.ns
          /\ u.bucketKeys = t.bucketKeys /\ u.entry = t.entry /\ u.appKeys = t.appKeys
          /\ u.terminating = t.terminating /\ u.project = t.project /\ u.unwired = t.unwired \cup {"seeder"}
      BY <1>1, <2>1 DEF TenantType, RegType, NoReg, ParamType, Status, Live, Settled, Without, Ports
    <3> HIDE DEF u
    <3>4. Change(p, e, t, u)
      <4>1. RowSet(e, t, u) /\ RegSet(p, e, t, u) /\ Passed(p, e, t)
        BY <2>1, <3>3 DEF RowSet, RegSet, Passed
      <4>2. KeysSet(e, t, u)
        <5>1. "seeder" \in u.unwired /\ ("objectStore" \in t.unwired => "objectStore" \in u.unwired)
          BY <3>3
        <5>2. e.s = "delete-tenant-crypto" /\ u.entry = t.entry /\ u.bucketKeys = t.bucketKeys /\ u.appKeys \subseteq t.appKeys
          BY <2>1, <3>3
        <5>3. e.s \notin {"seed-tenant-crypto", "seed-password-field-key"} => u.appKeys \subseteq t.appKeys
          BY <5>2
        <5>4. e.s \in {"delete-tenant-crypto", "withdraw-bucket-keys"} /\ e.s # "withdraw-bucket-keys"
          BY <5>2
        <5> HIDE DEF e
        <5> QED
          BY <5>1, <5>2, <5>3, <5>4 DEF KeysSet
      <4>3. ClusterSet(p, e, t, u)
        BY <2>1, <3>3 DEF ClusterSet, Projects
      <4> QED
        BY <4>1, <4>2, <4>3 DEF Change
    <3> QED
      BY <2>1, <3>2, <3>3, <3>4, WritesSteps
  <2> QED
    BY <1>18, <2>5, <2>6 DEF DeleteTenantCrypto
<1>19. CASE WithdrawBucketKeys(r)
  <2>1. At(r, "withdraw-bucket-keys") /\ e.s = "withdraw-bucket-keys"
    BY <1>19 DEF WithdrawBucketKeys, At
  <2>5. CASE Writes(r, On(r), With(withdrawBucketKeys(t), "objectStore"))
    <3> DEFINE u == With(withdrawBucketKeys(t), "objectStore")
    <3>2. Writes(r, On(r), u)
      BY <2>5
    <3>3. /\ u \in TenantType
          /\ u.row = t.row /\ u.reg = t.reg /\ u.appRow = t.appRow /\ u.fan = t.fan /\ u.ns = t.ns
          /\ u.entry = t.entry /\ u.appKeys = t.appKeys /\ u.bucketKeys = {}
          /\ u.terminating = t.terminating /\ u.project = t.project /\ u.unwired = t.unwired \ {"objectStore"}
      BY <1>1, <2>1 DEF TenantType, RegType, NoReg, ParamType, Status, Live, Settled, withdrawBucketKeys, With, Ports
    <3> HIDE DEF u
    <3>4. Change(p, e, t, u)
      BY <1>1, <2>1, <3>2, <3>3 DEF Change, RowSet, RegSet, KeysSet, ClusterSet, Projects, Passed, NoReg, TenantType, RegType
    <3> QED
      BY <2>1, <3>2, <3>3, <3>4, WritesSteps
  <2>6. CASE Writes(r, On(r), Without(t, "objectStore"))
    <3> DEFINE u == Without(t, "objectStore")
    <3>2. Writes(r, On(r), u)
      BY <2>6
    <3>3. /\ u \in TenantType
          /\ u.row = t.row /\ u.reg = t.reg /\ u.appRow = t.appRow /\ u.fan = t.fan /\ u.ns = t.ns
          /\ u.entry = t.entry /\ u.appKeys = t.appKeys /\ u.bucketKeys = t.bucketKeys
          /\ u.terminating = t.terminating /\ u.project = t.project /\ u.unwired = t.unwired \cup {"objectStore"}
      BY <1>1, <2>1 DEF TenantType, RegType, NoReg, ParamType, Status, Live, Settled, Without, Ports
    <3> HIDE DEF u
    <3>4. Change(p, e, t, u)
      BY <1>1, <2>1, <3>2, <3>3 DEF Change, RowSet, RegSet, KeysSet, ClusterSet, Projects, Passed, NoReg, TenantType, RegType
    <3> QED
      BY <2>1, <3>2, <3>3, <3>4, WritesSteps
  <2> QED
    BY <1>19, <2>5, <2>6 DEF WithdrawBucketKeys
<1> QED
  BY <1>2, <1>3, <1>4, <1>5, <1>6, <1>7, <1>8, <1>9, <1>10, <1>11, <1>12, <1>13, <1>14, <1>15, <1>16, <1>17, <1>18, <1>19

\* The steps that write in a form of their own.
LEMMA OnboardStep ==
    ASSUME Types, NEW r \in Runs, OnboardBuildOnly(r)
    PROVE  Stepped(r)
<1> DEFINE e == Head(run[r].todo)
           t == tenant[On(r)]
           u == [t EXCEPT !.bundle = "registered"]
<1>1. run[r].st = "running" /\ run[r].todo # <<>> /\ e.s = "onboard-build-only"
  BY DEF OnboardBuildOnly, At
<1>2. t \in TenantType /\ On(r) \in Guids /\ e \in StepType /\ On(r) = e.g /\ tenant \in [Guids -> TenantType]
  BY <1>1, AtHand DEF Types
<1>3. u \in TenantType /\ Aside(t, u) /\ Projects(Param(r), e, t, u)
  BY <1>1, <1>2 DEF TenantType, Aside, Projects
<1>4. tenant' = [tenant EXCEPT ![On(r)] = u] /\ zone' = zone /\ mints' = mints
  BY <1>2 DEF OnboardBuildOnly
<1> HIDE DEF u
<1>5. tenant' \in [Guids -> TenantType] /\ tenant'[On(r)] = u /\ \A h \in Guids : h # On(r) => tenant'[h] = tenant[h]
  BY <1>2, <1>3, <1>4
<1>6. Change(Param(r), e, t, u)
  <2>1. Passed(Param(r), e, t) /\ e.s \notin Telling
    BY <1>1 DEF Passed, Telling
  <2> QED
    BY <1>1, <1>3, <2>1, AsideChange
<1>7. Moved(r, run[r].armed) /\ ArmedBy(r, e) = run[r].armed
  BY <1>1, DoneMoves DEF ArmedBy, OnboardBuildOnly
<1>8. \A h \in Guids : h # On(r) => Alike(tenant[h], tenant'[h])
  BY <1>5 DEF Alike
<1>9. zone' \in [up : BOOLEAN, for : Guids \cup {"nobody"}] /\ mints' \in Nat /\ mints <= mints' /\ mints' <= MaxMints
  BY <1>4 DEF Types
<1> QED
  BY <1>1, <1>2, <1>5, <1>6, <1>7, <1>8, <1>9 DEF Stepped

\* The steps on the zone's records.
LEMMA DnsStep ==
    ASSUME Types, NEW r \in Runs, ProvisionDns(r) \/ RemoveDns(r) \/ PurgeRemoveDns(r)
    PROVE  Stepped(r)
<1> DEFINE e == Head(run[r].todo)
           t == tenant[On(r)]
<1>1. run[r].st = "running" /\ run[r].todo # <<>> /\ e.s \in {"provision-dns", "remove-dns", "purge-remove-dns"}
  BY DEF ProvisionDns, RemoveDns, PurgeRemoveDns, At
<1>2. t \in TenantType /\ On(r) \in Guids /\ e \in StepType /\ On(r) = e.g /\ tenant \in [Guids -> TenantType]
  BY <1>1, AtHand DEF Types
<1>3. /\ tenant' \in [Guids -> TenantType]
      /\ \A h \in Guids : tenant'[h] = tenant[h] \/ \E b \in BOOLEAN : tenant'[h] = [tenant[h] EXCEPT !.issuer = b]
      /\ \A h \in Guids \ {On(r)} : tenant'[h] = tenant[h] \/ tenant'[h] = [tenant[h] EXCEPT !.issuer = FALSE]
  <2>1. \A h \in Guids, b \in BOOLEAN : [tenant[h] EXCEPT !.issuer = b] \in TenantType
    BY <1>2 DEF TenantType
  <2>2. CASE ProvisionDns(r)
    BY <1>2, <2>1, <2>2 DEF ProvisionDns
  <2>3. CASE RemoveDns(r) \/ PurgeRemoveDns(r)
    <3>1. tenant' = [tenant EXCEPT ![On(r)] = [tenant[On(r)] EXCEPT !.issuer = FALSE]]
      BY <1>2, <2>3 DEF RemoveDns, PurgeRemoveDns, removeIssuerRecords
    <3> QED
      BY <1>2, <2>1, <3>1
  <2> QED
    BY <2>2, <2>3
<1>4. \A h \in Guids : Aside(tenant[h], tenant'[h]) /\ tenant'[h].appRow = tenant[h].appRow /\ tenant'[h].project = tenant[h].project
  <2>1. \A h \in Guids, b \in BOOLEAN : Aside(tenant[h], [tenant[h] EXCEPT !.issuer = b])
                                       /\ [tenant[h] EXCEPT !.issuer = b].appRow = tenant[h].appRow
                                       /\ [tenant[h] EXCEPT !.issuer = b].project = tenant[h].project
    BY <1>2 DEF TenantType, Aside
  <2>2. \A h \in Guids : Aside(tenant[h], tenant[h])
    BY DEF Aside
  <2>3. ASSUME NEW h \in Guids PROVE Aside(tenant[h], tenant'[h]) /\ tenant'[h].appRow = tenant[h].appRow /\ tenant'[h].project = tenant[h].project
    <3>1. CASE tenant'[h] = tenant[h]
      BY <2>2, <3>1
    <3>2. ASSUME NEW b \in BOOLEAN, tenant'[h] = [tenant[h] EXCEPT !.issuer = b]
          PROVE  Aside(tenant[h], tenant'[h]) /\ tenant'[h].appRow = tenant[h].appRow /\ tenant'[h].project = tenant[h].project
      BY <2>1, <3>2
    <3> QED
      BY <1>3, <3>1, <3>2
  <2> QED
    BY <2>3
<1>5. [Nothing EXCEPT !.issuer = FALSE] = Nothing
  <2>1. Nothing.issuer = FALSE /\ Nothing = [i \in DOMAIN Nothing |-> Nothing[i]]
    BY DEF Nothing
  <2> QED
    BY <2>1
<1>6. ASSUME NEW h \in Guids, h # On(r) PROVE Alike(tenant[h], tenant'[h])
  <2>1. tenant[h] = Nothing => tenant'[h] = Nothing
    BY <1>3, <1>5, <1>6
  <2> QED
    BY <1>4, <2>1 DEF Alike, Aside
<1>7. Change(Param(r), e, t, tenant'[On(r)])
  <2>1. Passed(Param(r), e, t) /\ e.s \notin Telling /\ Projects(Param(r), e, t, tenant'[On(r)])
    BY <1>1, <1>2, <1>4 DEF Passed, Telling, Projects
  <2> QED
    BY <1>1, <1>2, <1>4, <2>1, AsideChange
<1>8. Moved(r, run[r].armed) /\ ArmedBy(r, e) = run[r].armed
  BY <1>1, DoneMoves DEF ArmedBy, ProvisionDns, RemoveDns, PurgeRemoveDns
<1>9. zone' \in [up : BOOLEAN, for : Guids \cup {"nobody"}] /\ mints' \in Nat /\ mints <= mints' /\ mints' <= MaxMints
  <2>1. zone' = zone \/ zone' = [up |-> TRUE, for |-> On(r)] \/ zone' = [up |-> FALSE, for |-> "nobody"]
    BY DEF ProvisionDns, RemoveDns, PurgeRemoveDns
  <2>2. zone \in [up : BOOLEAN, for : Guids \cup {"nobody"}]
        /\ [up |-> TRUE, for |-> On(r)] \in [up : BOOLEAN, for : Guids \cup {"nobody"}]
        /\ [up |-> FALSE, for |-> "nobody"] \in [up : BOOLEAN, for : Guids \cup {"nobody"}]
    BY <1>2 DEF Types
  <2>3. mints' = mints /\ mints \in Nat /\ mints <= MaxMints
    BY DEF Types, ProvisionDns, RemoveDns, PurgeRemoveDns
  <2>4. zone' \in [up : BOOLEAN, for : Guids \cup {"nobody"}]
    BY <2>1, <2>2, Zenon
  <2>5. mints' \in Nat /\ mints <= mints' /\ mints' <= MaxMints
    BY <2>3
  <2> QED
    BY <2>4, <2>5
<1> QED
  BY <1>1, <1>2, <1>3, <1>6, <1>7, <1>8, <1>9 DEF Stepped

\* The record of the intent, which arms the inverse.
LEMMA ProvisionalStep ==
    ASSUME Types, NEW r \in Runs, RecordProvisional(r)
    PROVE  Stepped(r)
<1> DEFINE e == Head(run[r].todo)
           t == tenant[On(r)]
           u == upsertTenantInventory(t, Param(r).apps, FALSE)
<1>1. run[r].st = "running" /\ run[r].todo # <<>> /\ e.s = "record-provisional"
  BY DEF RecordProvisional, At
<1>2. t \in TenantType /\ On(r) \in Guids /\ e \in StepType /\ On(r) = e.g /\ tenant \in [Guids -> TenantType]
      /\ Param(r) \in ParamType
  BY <1>1, AtHand DEF Types
<1>3. [a \in Apps |-> IF a \notin Param(r).apps THEN t.appRow[a]
                      ELSE IF t.appRow[a] = "none" THEN "provisioning" ELSE t.appRow[a]] \in [Apps -> Status]
  BY <1>2 DEF TenantType, Status
<1>4. /\ u \in TenantType /\ u.reg = t.reg /\ u.fan = t.fan /\ u.ns = t.ns
      /\ u.entry = t.entry /\ u.appKeys = t.appKeys /\ u.bucketKeys = t.bucketKeys
      /\ u.terminating = t.terminating /\ u.project = t.project /\ u.unwired = t.unwired
      /\ u.row = (IF t.row = "none" THEN "provisioning" ELSE t.row)
  BY <1>2, <1>3 DEF TenantType, Status, upsertTenantInventory
<1>5. tenant' = [tenant EXCEPT ![On(r)] = u] /\ zone' = zone /\ mints' = mints
      /\ DoneArmed(r, TenantTeardown("abort", On(r)))
  BY <1>2 DEF RecordProvisional
<1> HIDE DEF u
<1>6. tenant' \in [Guids -> TenantType] /\ tenant'[On(r)] = u /\ \A h \in Guids : h # On(r) => tenant'[h] = tenant[h]
  BY <1>2, <1>4, <1>5
<1>7. Change(Param(r), e, t, u)
  BY <1>1, <1>4 DEF Change, RowSet, RegSet, KeysSet, ClusterSet, Projects, Passed
<1>8. Moved(r, TenantTeardown("abort", On(r))) /\ ArmedBy(r, e) = TenantTeardown("abort", On(r))
  <2>1. TenantTeardown("abort", On(r)) \in Seq(StepType)
    BY <1>2, Six, TeardownIs, FlavourIs
  <2> QED
    BY <1>1, <1>2, <1>5, <2>1, DoneMoves DEF ArmedBy
<1>9. \A h \in Guids : h # On(r) => Alike(tenant[h], tenant'[h])
  BY <1>6 DEF Alike
<1>10. zone' \in [up : BOOLEAN, for : Guids \cup {"nobody"}] /\ mints' \in Nat /\ mints <= mints' /\ mints' <= MaxMints
  BY <1>5 DEF Types
<1> QED
  BY <1>1, <1>2, <1>6, <1>7, <1>8, <1>9, <1>10 DEF Stepped

\* The append of an app, which arms its inverse.
LEMMA AppendStep ==
    ASSUME Types, NEW r \in Runs, AppendApp(r)
    PROVE  Stepped(r)
<1> DEFINE e == Head(run[r].todo)
           t == tenant[On(r)]
           u == [t EXCEPT !.reg.apps = @ \cup Param(r).apps]
           c == Flavour("abort", On(r), <<"revert-app-append">>)
<1>1. run[r].st = "running" /\ run[r].todo # <<>> /\ e.s = "append-app" /\ t.reg.in
  BY DEF AppendApp, At
<1>2. t \in TenantType /\ On(r) \in Guids /\ e \in StepType /\ On(r) = e.g /\ tenant \in [Guids -> TenantType]
      /\ Param(r) \in ParamType
  BY <1>1, AtHand DEF Types
<1>3. /\ u \in TenantType /\ u.fan = t.fan /\ u.ns = t.ns /\ u.row = t.row
      /\ u.entry = t.entry /\ u.appKeys = t.appKeys /\ u.bucketKeys = t.bucketKeys
      /\ u.terminating = t.terminating /\ u.project = t.project /\ u.unwired = t.unwired
      /\ u.reg.in = t.reg.in /\ u.reg.apps = t.reg.apps \cup Param(r).apps
  BY <1>2 DEF TenantType, RegType, ParamType
<1>4. tenant' = [tenant EXCEPT ![On(r)] = u] /\ zone' = zone /\ mints' = mints /\ DoneArmed(r, c)
  BY <1>2 DEF AppendApp
<1> HIDE DEF u
<1>5. tenant' \in [Guids -> TenantType] /\ tenant'[On(r)] = u /\ \A h \in Guids : h # On(r) => tenant'[h] = tenant[h]
  BY <1>2, <1>3, <1>4
<1>6. Change(Param(r), e, t, u)
  BY <1>1, <1>3 DEF Change, RowSet, RegSet, KeysSet, ClusterSet, Projects, Passed
<1>7. Moved(r, c) /\ ArmedBy(r, e) = c
  <2>1. <<"revert-app-append">> \in Seq(StepNames)
    BY DEF StepNames
  <2>2. c \in Seq(StepType)
    BY <1>2, <2>1, FlavourIs
  <2>3. ArmedBy(r, e) = c
    BY <1>1, <1>2 DEF ArmedBy
  <2> HIDE DEF c
  <2> QED
    BY <1>1, <1>4, <2>2, <2>3, DoneMoves
<1>8. \A h \in Guids : h # On(r) => Alike(tenant[h], tenant'[h])
  BY <1>5 DEF Alike
<1>9. zone' \in [up : BOOLEAN, for : Guids \cup {"nobody"}] /\ mints' \in Nat /\ mints <= mints' /\ mints' <= MaxMints
  BY <1>4 DEF Types
<1> HIDE DEF c
<1> QED
  BY <1>1, <1>2, <1>5, <1>6, <1>7, <1>8, <1>9 DEF Stepped

\* Every pass of the seed mints a key: it stands in the entry, or is withdrawn, or nobody wrote it down.
LEMMA SeedStep ==
    ASSUME Types, NEW r \in Runs, SeedTenantCrypto(r) \/ SeedTenantCryptoTorn(r)
    PROVE  Stepped(r)
<1> DEFINE e == Head(run[r].todo)
           t == tenant[On(r)]
           m == mints + 1
<1>1. run[r].st = "running" /\ run[r].todo # <<>> /\ e.s = "seed-tenant-crypto"
  BY DEF SeedTenantCrypto, SeedTenantCryptoTorn, At
<1>2. t \in TenantType /\ On(r) \in Guids /\ e \in StepType /\ On(r) = e.g /\ tenant \in [Guids -> TenantType]
      /\ Param(r) \in ParamType
  BY <1>1, AtHand DEF Types
<1>3. zone' = zone /\ mints' = m /\ mints \in Nat /\ m \in Nat /\ m <= MaxMints
  BY TenantsAssumption DEF SeedTenantCrypto, SeedTenantCryptoTorn, Types
<1>4. zone' \in [up : BOOLEAN, for : Guids \cup {"nobody"}] /\ mints' \in Nat /\ mints <= mints' /\ mints' <= MaxMints
  BY <1>3 DEF Types
<1>5. ArmedBy(r, e) = run[r].armed
  BY <1>1 DEF ArmedBy
<1>6. ASSUME NEW u \in TenantType, tenant' = [tenant EXCEPT ![On(r)] = u], Moved(r, run[r].armed),
             u.reg = t.reg, u.row = t.row, u.fan = t.fan, u.ns = t.ns, u.terminating = t.terminating,
             u.project = t.project, u.unwired = t.unwired, Seeded(r, t, u)
      PROVE  Stepped(r)
  <2>1. tenant' \in [Guids -> TenantType] /\ tenant'[On(r)] = u
        /\ \A h \in Guids : h # On(r) => tenant'[h] = tenant[h]
    BY <1>2, <1>6
  <2>2. \A h \in Guids : h # On(r) => Alike(tenant[h], tenant'[h])
    BY <2>1 DEF Alike
  <2>3. Change(Param(r), e, t, u)
    BY <1>1, <1>6 DEF Change, RowSet, RegSet, KeysSet, ClusterSet, Projects, Passed
  <2> QED
    BY <1>1, <1>2, <1>4, <1>5, <1>6, <2>1, <2>2, <2>3 DEF Stepped
<1>7. CASE SeedTenantCryptoTorn(r)
  <2> DEFINE u == mintBucketKey(t, m)
  <2>1. u \in TenantType /\ u.reg = t.reg /\ u.row = t.row /\ u.fan = t.fan /\ u.ns = t.ns
        /\ u.terminating = t.terminating /\ u.project = t.project /\ u.unwired = t.unwired
        /\ u.entry = t.entry /\ u.bucketKeys = t.bucketKeys \cup {m}
    BY <1>2, <1>3 DEF TenantType, mintBucketKey
  <2>2. tenant' = [tenant EXCEPT ![On(r)] = u] /\ Fails(r, run[r])
    BY <1>2, <1>7 DEF SeedTenantCryptoTorn
  <2> HIDE DEF u
  <2>3. Moved(r, run[r].armed) /\ run'[r].todo = run[r].todo
    BY <1>1, <2>2, DoneMoves
  <2>4. Seeded(r, t, u)
    BY <1>3, <2>1, <2>3 DEF Seeded, KeysSound
  <2> QED
    BY <1>6, <2>1, <2>2, <2>3, <2>4, Zenon
<1>8. CASE SeedTenantCrypto(r)
  <2> DEFINE v == mintBucketKey(t, m)
             w == IF v.entry = 0 THEN seedTenantCrypto(v, m) ELSE withdrawBucketKey(v, m)
             u == seedTenantAppKey(w, Param(r).apps)
  <2>1. v \in TenantType /\ v.reg = t.reg /\ v.row = t.row /\ v.fan = t.fan /\ v.ns = t.ns
        /\ v.terminating = t.terminating /\ v.project = t.project /\ v.unwired = t.unwired
        /\ v.entry = t.entry /\ v.bucketKeys = t.bucketKeys \cup {m}
    BY <1>2, <1>3 DEF TenantType, mintBucketKey
  <2>2. tenant' = [tenant EXCEPT ![On(r)] = u] /\ Done(r)
    BY <1>2, <1>8 DEF SeedTenantCrypto
  <2> HIDE DEF v
  <2>3. w \in TenantType /\ w.reg = t.reg /\ w.row = t.row /\ w.fan = t.fan /\ w.ns = t.ns
        /\ w.terminating = t.terminating /\ w.project = t.project /\ w.unwired = t.unwired
        /\ (t.entry = 0 => w.entry = m /\ w.bucketKeys = t.bucketKeys \cup {m})
        /\ (t.entry # 0 => w.entry = t.entry /\ w.bucketKeys = (t.bucketKeys \cup {m}) \ {m})
    BY <1>3, <2>1 DEF TenantType, seedTenantCrypto, withdrawBucketKey
  <2> HIDE DEF w
  <2>4. u \in TenantType /\ u.reg = t.reg /\ u.row = t.row /\ u.fan = t.fan /\ u.ns = t.ns
        /\ u.terminating = t.terminating /\ u.project = t.project /\ u.unwired = t.unwired
        /\ u.entry = w.entry /\ u.bucketKeys = w.bucketKeys
    BY <1>2, <2>3 DEF TenantType, seedTenantAppKey, ParamType
  <2> HIDE DEF u
  <2>5. Moved(r, run[r].armed)
    BY <1>1, <2>2, DoneMoves
  <2>6. t.entry \in Nat
    BY <1>2 DEF TenantType
  <2>7. KeysSound(t, mints) => KeysSound(u, m)
    BY <1>3, <2>3, <2>4, <2>6 DEF KeysSound
  <2>8. u.entry # 0
    BY <1>3, <2>3, <2>4
  <2>9. Seeded(r, t, u)
    BY <1>3, <2>7, <2>8 DEF Seeded
  <2> QED
    BY <1>6, <2>2, <2>4, <2>5, <2>9
<1> QED
  BY <1>7, <1>8

\* Every step of every run definition.
LEMMA EveryStep ==
    ASSUME Types, NEW r \in Runs, Create(r) \/ OnApps(r) \/ Switch(r) \/ Removal(r)
    PROVE  Stepped(r)
BY ReadsStep, AsideStep, WritesStep, OnboardStep, DnsStep, ProvisionalStep, AppendStep, SeedStep
   DEF Create, OnApps, Switch, Removal

-----------------------------------------------------------------------------
\* Whose step it is: its name tells the kind of the run, and its flavour which way it goes.

\* The names that tell the kind of a run on its way forth.
LEMMA ForthIs ==
    ASSUME NEW p \in ParamType, NEW e, Forth(p, e)
    PROVE  /\ e.by \in {"own", "replace", "purge"}
           /\ e.by = "own" => e.g = p.g
           /\ e.by = "replace" => p.kind = "create" /\ p.targets[e.g] # {} /\ e.s \in ReplaceNames
           /\ e.by = "purge" => p.kind = "purge" /\ e.g = p.g /\ e.s \in PurgeNames
           /\ e.s \in {"record-provisional", "write-registration", "record-inventory", "seed-tenant-crypto",
                       "ensure-subdomain-free"} => p.kind = "create" /\ e.by = "own"
           /\ e.s \in {"append-app", "extend-argo-sync", "seed-password-field-key"} => p.kind = "add-app" /\ e.by = "own"
           /\ e.s \in {"record-suspended", "record-active"} => p.kind \in {"suspend", "resume"} /\ e.by = "own"
           /\ e.s = "remove-app-pointer" => p.kind = "remove-app" /\ e.by = "own"
           /\ e.s # "revert-app-append"
           /\ e.s = "remove" => p.kind = "offboard" \/ e.by # "own"
           /\ e.s \in {"watch-prune", "record"} => e.by # "own"
           /\ e.s \in {"watch-removal", "record-offboard"} => p.kind = "offboard" /\ e.by = "own"
           /\ e.s = "attest-purge" => p.kind = "purge" /\ e.by = "own"
           /\ e.s \in {"delete-namespaces", "delete-tenant-crypto", "withdraw-bucket-keys", "verify-prune"} => e.by = "purge"
           /\ p.kind = "purge" /\ e.by = "own" => e.s = "attest-purge"
<1>1. p.kind \in RunKinds
  BY DEF ParamType
<1>2. CASE e.by = "own" /\ e.g = p.g /\ e.s \in OwnNames(p.kind)
  <2>1. CASE p.kind = "create"
    BY <1>2, <2>1 DEF OwnNames
  <2>2. CASE p.kind = "add-app"
    BY <1>2, <2>2 DEF OwnNames
  <2>3. CASE p.kind = "offboard"
    BY <1>2, <2>3 DEF OwnNames
  <2>4. CASE p.kind = "suspend"
    BY <1>2, <2>4 DEF OwnNames
  <2>5. CASE p.kind = "resume"
    BY <1>2, <2>5 DEF OwnNames
  <2>6. CASE p.kind = "remove-app"
    BY <1>2, <2>6 DEF OwnNames
  <2>7. CASE p.kind = "purge-app"
    BY <1>2, <2>7 DEF OwnNames
  <2>8. CASE p.kind = "purge"
    BY <1>2, <2>8 DEF OwnNames
  <2> QED
    BY <1>1, <2>1, <2>2, <2>3, <2>4, <2>5, <2>6, <2>7, <2>8 DEF RunKinds
<1>3. CASE e.by = "replace" /\ p.kind = "create" /\ p.targets[e.g] # {} /\ e.s \in ReplaceNames
  BY <1>3 DEF ReplaceNames
<1>4. CASE e.by = "purge" /\ p.kind = "purge" /\ e.g = p.g /\ e.s \in PurgeNames
  BY <1>4 DEF PurgeNames
<1> QED
  BY <1>2, <1>3, <1>4 DEF Forth

\* The names that tell it on its way back.
LEMMA BackIs ==
    ASSUME NEW p, NEW e, Back(p, e)
    PROVE  /\ e.by = "abort" /\ e.g = p.g /\ p.kind \in {"create", "add-app"}
           /\ e.s \in ReplaceNames \cup {"revert-app-append"}
           /\ e.s = "revert-app-append" <=> p.kind = "add-app"
<1>1. "revert-app-append" \notin ReplaceNames
  BY DEF ReplaceNames
<1> QED
  BY <1>1 DEF Back

-----------------------------------------------------------------------------
\* A step keeps the invariant. First what the invariant says at the step.

Whose(r, e) == IF run[r].undo THEN Back(Param(r), e) ELSE Forth(Param(r), e)

Place(r) ==
    LET e == Head(run[r].todo) IN
    /\ Param(r) \in ParamType /\ e.g \in Guids /\ e.by \in {"own", "replace", "purge", "abort"}
    /\ Active(r) /\ Holding(r) /\ \A q \in Runs : Holding(q) => q = r
    /\ Lists(r) /\ Planned(r) /\ Behind(r) /\ Whose(r, e)
    /\ \A x : Has(run'[r].todo, x) => Has(run[r].todo, x)
    /\ \A x : Has(run[r].todo, x) => x = e \/ Has(run'[r].todo, x)
    /\ \A x : Earlier(x, e) => ~Has(run[r].todo, x)
    /\ Has(run[r].todo, e) /\ e = Ent(e.s, e.g, e.by)
    /\ run'[r] \in RunType /\ Holding(r)' /\ Active(r)' /\ Param(r)' = Param(r) /\ run'[r].undo = run[r].undo

\* What the invariant says at the step at hand.
LEMMA StepPlace ==
    ASSUME IInv, NEW r \in Runs, Stepped(r)
    PROVE  Place(r)
<1> DEFINE T == run[r].todo
           e == Head(T)
           U == run'[r].todo
<1>1. Types /\ OneHolder /\ RunsSound /\ run[r].st = "running" /\ T # <<>>
  BY DEF IInv, Stepped
<1>2. run[r] \in RunType /\ T \in Seq(StepType) /\ e \in StepType /\ Param(r) \in ParamType
  BY <1>1, AtHand
<1>3. Active(r) /\ Holding(r) /\ \A q \in Runs : Holding(q) => q = r
  BY <1>1 DEF Active, Holding, OneHolder
<1>4. Lists(r) /\ Planned(r) /\ Behind(r)
  BY <1>1, <1>3 DEF RunsSound
<1>5. Moved(r, ArmedBy(r, e))
  BY DEF Stepped
<1>6. run'[r] \in RunType /\ Holding(r)' /\ Active(r)' /\ Param(r)' = Param(r) /\ run'[r].undo = run[r].undo
      /\ Shorter(T, U)
  BY <1>5 DEF Moved, Holding, Active, Param, Shorter
<1>7. Sorted(T)
  BY <1>4 DEF Lists
<1>8. /\ \A x : Has(U, x) => Has(T, x)
      /\ \A x : Has(T, x) => x = e \/ Has(U, x)
      /\ \A x : Earlier(x, e) => ~Has(T, x)
  BY <1>1, <1>2, <1>6, <1>7, ShorterList
<1>9. Whose(r, e)
  <2>1. 1 \in DOMAIN T /\ e = T[1]
    BY <1>1, <1>2, TailList
  <2> QED
    BY <1>4, <2>1 DEF Lists, Whose
<1>10. e.g \in Guids /\ e.by \in {"own", "replace", "purge", "abort"}
  BY <1>2 DEF StepType
<1>11. Has(T, e) /\ e = Ent(e.s, e.g, e.by)
  <2>1. 1 \in DOMAIN T /\ e = T[1]
    BY <1>1, <1>2, TailList
  <2> QED
    BY <1>2, <2>1 DEF Has, StepType, Ent
<1> HIDE DEF T, e, U
<1> QED
  BY <1>2, <1>3, <1>4, <1>6, <1>8, <1>9, <1>10, <1>11 DEF Place, T, e, U

\* A row is never taken away, and a tenant that is past its creation never goes back to it.
LEMMA RowsStay ==
    ASSUME IInv, NEW r \in Runs, Stepped(r), NEW h \in Guids
    PROVE  /\ tenant[h].row # "none" => tenant'[h].row # "none"
           /\ tenant[h].row \notin {"none", "provisioning"} => tenant'[h].row \notin {"none", "provisioning"}
<1> DEFINE e == Head(run[r].todo)
<1>1. CASE h # e.g
  BY <1>1 DEF Stepped, Alike
<1>2. CASE h = e.g
  <2>1. RowSet(e, tenant[h], tenant'[h])
    BY <1>2 DEF Stepped, Change
  <2> HIDE DEF e
  <2> QED
    BY <2>1 DEF RowSet
<1> QED
  BY <1>1, <1>2

\* Only a create that has not recorded its intent has a step about a tenant without a row.
LEMMA NoRowYet ==
    ASSUME IInv, NEW r \in Runs, Stepped(r), Place(r), tenant[Head(run[r].todo).g].row = "none"
    PROVE  /\ Param(r).kind = "create" /\ ~run[r].undo /\ Head(run[r].todo).g = Param(r).g
           /\ Head(run[r].todo).s \in {"attest-target", "ensure-subdomain-free", "record-provisional"}
<1> DEFINE e == Head(run[r].todo)
           p == Param(r)
<1>1. p \in ParamType /\ Planned(r) /\ Lists(r) /\ Whose(r, e) /\ e.g \in Guids
  BY DEF Place
<1>2. ~run[r].undo
  <2>1. ASSUME run[r].undo PROVE FALSE
    <3>1. Back(p, e)
      BY <1>1, <2>1 DEF Whose
    <3>2. e.g = p.g /\ p.kind \in {"create", "add-app"}
      BY <3>1, BackIs
    <3>3. p.kind = "create"
      BY <1>1, <3>2 DEF Planned
    <3>4. run[r].armed # <<>>
      BY <1>1, <2>1 DEF Lists, Stepped
    <3>5. Armed(r)
      BY DEF Place, Behind
    <3> QED
      BY <3>2, <3>3, <3>4, <3>5 DEF Armed
  <2> QED
    BY <2>1
<1>3. Forth(p, e)
  BY <1>1, <1>2 DEF Whose
<1>4. e.by # "replace"
  BY <1>1, <1>3, ForthIs DEF Planned
<1>5. e.g = p.g
  BY <1>1, <1>3, <1>4, ForthIs
<1>6. p.kind = "create"
  BY <1>1, <1>5 DEF Planned
<1>7. e.by = "own"
  BY <1>1, <1>3, <1>4, <1>6, ForthIs
<1>8. Left(r, "record-provisional", "own")
  BY <1>2, <1>5, <1>6 DEF Place, Behind, Creating
<1>9. ASSUME e.s \notin {"attest-target", "ensure-subdomain-free", "record-provisional"} PROVE FALSE
  <2>1. Earlier(Ent("record-provisional", p.g, "own"), e)
    BY <1>7, <1>9 DEF Earlier, Ent
  <2> QED
    BY <1>8, <2>1 DEF Place, Left
<1> QED
  BY <1>2, <1>5, <1>6, <1>9

\* A step of the same tenant and flavour that comes before the one at hand is behind the run.
LEMMA Past ==
    ASSUME NEW r \in Runs, Place(r), NEW s, <<s, Head(run[r].todo).s>> \in Order
    PROVE  ~Has(run[r].todo, Ent(s, Head(run[r].todo).g, Head(run[r].todo).by))
<1> DEFINE e == Head(run[r].todo)
<1>1. Earlier(Ent(s, e.g, e.by), e)
  BY DEF Earlier, Ent
<1> QED
  BY <1>1 DEF Place

\* What a create knows when it comes to write the registration: nobody else stands on the subdomain.
LEMMA AloneAtLast ==
    ASSUME NEW r \in Runs, Place(r), Head(run[r].todo).s = "write-registration"
    PROVE  /\ ~run[r].undo /\ Param(r).kind = "create" /\ Head(run[r].todo).g = Param(r).g
           /\ tenant[Param(r).g].row \in {"none", "provisioning"}
           /\ \A h \in Guids : h # Param(r).g => Undeployed(tenant[h])
<1> DEFINE e == Head(run[r].todo)
           p == Param(r)
<1>1. Whose(r, e) /\ p \in ParamType /\ Holding(r) /\ Creating(r)
  BY DEF Place, Behind
<1>2. ~run[r].undo /\ Forth(p, e)
  <2>1. ~Back(p, e)
    BY BackIs DEF ReplaceNames
  <2> QED
    BY <1>1, <2>1 DEF Whose
<1>3. p.kind = "create" /\ e.by = "own" /\ e.g = p.g
  BY <1>1, <1>2, ForthIs
<1>4. Left(r, "write-registration", "own")
  BY <1>3 DEF Place, Left
<1>5. ~Left(r, "ensure-subdomain-free", "own")
  <2>1. Earlier(Ent("ensure-subdomain-free", p.g, "own"), e)
    BY <1>3 DEF Earlier, Ent
  <2> QED
    BY <2>1 DEF Place, Left
<1>6. ASSUME NEW h \in Guids, h # p.g PROVE Undeployed(tenant[h])
  <2>1. ~Has(run[r].todo, Ent("watch-prune", h, "replace"))
    <3>1. Earlier(Ent("watch-prune", h, "replace"), e)
      BY DEF Earlier, Ent
    <3> QED
      BY <3>1 DEF Place
  <2>2. CASE p.targets[h] # {}
    BY <1>1, <1>2, <1>3, <2>1, <2>2 DEF Creating
  <2>3. CASE p.targets[h] = {}
    BY <1>1, <1>2, <1>3, <1>5, <1>6, <2>3 DEF Creating
  <2> QED
    BY <2>2, <2>3
<1> QED
  BY <1>1, <1>2, <1>3, <1>4, <1>6 DEF Creating

\* The steps only a purge has come after its removal of the registration.
LEMMA PurgeAt ==
    ASSUME NEW r \in Runs, Place(r),
           Head(run[r].todo).s \in {"delete-namespaces", "delete-tenant-crypto", "withdraw-bucket-keys", "verify-prune"}
           \/ (Head(run[r].todo).by = "purge")
    PROVE  /\ ~run[r].undo /\ Param(r).kind = "purge" /\ Head(run[r].todo).g = Param(r).g
           /\ Head(run[r].todo).by = "purge" /\ Purging(r)
<1> DEFINE e == Head(run[r].todo)
           p == Param(r)
<1>1. Whose(r, e) /\ p \in ParamType /\ Purging(r)
  BY DEF Place, Behind
<1>2. ~run[r].undo /\ Forth(p, e)
  <2>1. ~Back(p, e)
    BY BackIs DEF ReplaceNames
  <2> QED
    BY <1>1, <2>1 DEF Whose
<1> QED
  BY <1>1, <1>2, ForthIs

\* A create writes keys and a registration for a tenant no purge has been at.
LEMMA OwnWired ==
    ASSUME NEW r \in Runs, Place(r), Head(run[r].todo).s \in {"seed-tenant-crypto", "write-registration"}
    PROVE  tenant[Head(run[r].todo).g].unwired = {}
<1> DEFINE e == Head(run[r].todo)
           p == Param(r)
<1>1. Whose(r, e) /\ p \in ParamType /\ Behind(r) /\ Holding(r)
  BY DEF Place
<1>2. ~run[r].undo /\ Forth(p, e)
  <2>1. ~Back(p, e)
    BY BackIs DEF ReplaceNames
  <2> QED
    BY <1>1, <2>1 DEF Whose
<1>3. e.g = p.g /\ p.kind = "create"
  BY <1>1, <1>2, ForthIs
<1> QED
  BY <1>1, <1>2, <1>3 DEF Behind, Creating

\* A step keeps each tenant sound by itself.
LEMMA StepSound ==
    ASSUME IInv, NEW r \in Runs, Stepped(r), Place(r), NEW h \in Guids
    PROVE  Sound(tenant[h])'
<1> DEFINE e == Head(run[r].todo)
           t == tenant[h]
           u == tenant'[h]
<1>1. Sound(t) /\ mints \in Nat /\ mints' \in Nat /\ mints <= mints'
  BY DEF IInv, Tenanted, Types, Stepped
<1>2. CASE h # e.g
  <2>1. Alike(t, u)
    BY <1>2 DEF Stepped
  <2>2. u.row = "none" => u = Nothing
    BY <1>1, <2>1 DEF Alike, Sound
  <2>3. u.bucketKeys \subseteq 1..mints' /\ u.entry \in 0..mints'
    BY <1>1, <2>1 DEF Alike, Sound
  <2>4. u.terminating \subseteq u.ns /\ (u.unwired # {} => ~u.reg.in)
    BY <1>1, <2>1 DEF Alike, Sound
  <2> QED
    BY <1>1, <2>1, <2>2, <2>3, <2>4 DEF Alike, Sound
<1>3. CASE h = e.g
  <2>1. Change(Param(r), e, t, u)
    BY <1>3 DEF Stepped
  <2>2. u.row = "none" => u = Nothing
    <3>1. SUFFICES ASSUME u.row = "none" PROVE u = Nothing
      OBVIOUS
    <3>2. t.row = "none"
      BY <3>1, RowsStay
    <3>3. e.s \in {"attest-target", "ensure-subdomain-free", "record-provisional"}
      BY <1>3, <3>2, NoRowYet
    <3>4. u = t
      BY <2>1, <3>1, <3>2, <3>3 DEF Change, RowSet
    <3> QED
      BY <1>1, <3>2, <3>4 DEF Sound
  <2>3. ~u.reg.in => u.reg = NoReg
    BY <1>1, <2>1 DEF Change, RegSet, Sound, NoReg
  <2>4. u.terminating \subseteq u.ns
    BY <1>1, <2>1 DEF Change, ClusterSet, Sound
  <2>5. /\ u.entry # 0 => u.entry \in u.bucketKeys \/ "seeder" \in u.unwired
        /\ u.entry \in 0..mints' /\ u.bucketKeys \subseteq 1..mints'
    <3>1. CASE e.s = "seed-tenant-crypto"
      <4>1. t.unwired = {}
        BY <1>3, <3>1, OwnWired
      <4>2. KeysSound(t, mints)
        BY <1>1, <4>1 DEF KeysSound, Sound
      <4>3. Seeded(r, t, u)
        BY <1>3, <3>1 DEF Stepped
      <4>4. KeysSound(u, mints')
        BY <4>2, <4>3 DEF Seeded
      <4> QED
        BY <1>1, <4>4 DEF KeysSound
    <3>2. CASE e.s = "withdraw-bucket-keys"
      <4>1. Purging(r) /\ ~run[r].undo /\ Param(r).kind = "purge" /\ e.g = Param(r).g /\ e.by = "purge" /\ Holding(r)
        BY <3>2, PurgeAt DEF Place
      <4>2. ~Left(r, "delete-tenant-crypto", "purge")
        <5>1. <<"delete-tenant-crypto", e.s>> \in Order
          BY <3>2 DEF Order
        <5> QED
          BY <4>1, <5>1, Past DEF Left
      <4>3. t.entry = 0 \/ "seeder" \in t.unwired
        BY <1>3, <4>1, <4>2 DEF Purging
      <4>4. u.entry = t.entry /\ ("seeder" \in t.unwired => "seeder" \in u.unwired)
            /\ (u.bucketKeys = t.bucketKeys \/ u.bucketKeys = {})
        BY <2>1, <3>2 DEF Change, KeysSet
      <4> QED
        BY <1>1, <4>3, <4>4 DEF Sound
    <3>3. CASE e.s \notin {"seed-tenant-crypto", "withdraw-bucket-keys"}
      <4>1. u.bucketKeys = t.bucketKeys
            /\ (u.entry = 0 \/ (u.entry = t.entry /\ ("seeder" \in t.unwired => "seeder" \in u.unwired)))
        BY <2>1, <3>3 DEF Change, KeysSet
      <4> QED
        BY <1>1, <4>1 DEF Sound
    <3> QED
      BY <3>1, <3>2, <3>3
  <2>6. u.unwired # {} => ~u.reg.in
    <3>1. CASE e.s \in {"delete-tenant-crypto", "withdraw-bucket-keys"}
      <4>1. Purging(r) /\ ~run[r].undo /\ Param(r).kind = "purge" /\ e.g = Param(r).g /\ e.by = "purge" /\ Holding(r)
        BY <3>1, PurgeAt DEF Place
      <4>2. ~Left(r, "remove", "purge")
        <5>1. <<"remove", e.s>> \in Order
          BY <3>1 DEF Order
        <5> QED
          BY <4>1, <5>1, Past DEF Left
      <4>3. ~t.reg.in
        BY <1>3, <4>1, <4>2 DEF Purging
      <4> QED
        BY <2>1, <3>1, <4>3 DEF Change, RegSet
    <3>2. CASE e.s = "write-registration"
      <4>1. t.unwired = {}
        BY <1>3, <3>2, OwnWired
      <4> QED
        BY <2>1, <3>2, <4>1 DEF Change, KeysSet
    <3>3. CASE e.s \notin {"delete-tenant-crypto", "withdraw-bucket-keys", "write-registration"}
      <4>1. u.unwired = t.unwired
        BY <2>1, <3>3 DEF Change, KeysSet
      <4>2. u.reg.in => t.reg.in
        <5>1. RegSet(Param(r), e, t, u)
          BY <2>1 DEF Change
        <5>2. CASE e.s = "remove"
          BY <5>1, <5>2 DEF RegSet, NoReg
        <5>3. CASE e.s # "remove"
          BY <3>3, <5>1, <5>3 DEF RegSet
        <5> QED
          BY <5>2, <5>3
      <4> QED
        BY <1>1, <4>1, <4>2 DEF Sound
    <3> QED
      BY <3>1, <3>2, <3>3
  <2> QED
    BY <2>2, <2>3, <2>4, <2>5, <2>6 DEF Sound
<1> QED
  BY <1>2, <1>3

\* Which steps settle a row, and what is behind them.
LEMMA SettledAt ==
    ASSUME NEW r \in Runs, Place(r), Stepped(r), Head(run[r].todo).s \in {"record", "record-offboard"}
    PROVE  Undeployed(tenant[Head(run[r].todo).g])
<1> DEFINE e == Head(run[r].todo)
           p == Param(r)
<1>1. Whose(r, e) /\ p \in ParamType /\ Behind(r) /\ Lists(r) /\ Holding(r) /\ e.g \in Guids
  BY DEF Place
<1>2. <<"watch-prune", "record">> \in Order /\ <<"verify-prune", "record">> \in Order
      /\ <<"watch-removal", "record-offboard">> \in Order
  BY DEF Order
<1>3. CASE run[r].undo
  <2>1. Back(p, e)
    BY <1>1, <1>3 DEF Whose
  <2>2. e.by = "abort" /\ e.g = p.g /\ e.s = "record" /\ p.kind = "create"
    BY <2>1, BackIs DEF ReplaceNames
  <2>3. run[r].armed # <<>>
    BY <1>1, <1>3 DEF Lists, Stepped
  <2>4. ~Left(r, "watch-prune", "abort")
    BY <1>2, <2>2, Past DEF Left
  <2> QED
    BY <1>1, <1>3, <2>2, <2>3, <2>4 DEF Behind, Undoing
<1>4. CASE ~run[r].undo /\ e.by = "own"
  <2>1. Forth(p, e)
    BY <1>1, <1>4 DEF Whose
  <2>2. e.s = "record-offboard" /\ p.kind = "offboard" /\ e.g = p.g
    BY <1>1, <1>4, <2>1, ForthIs
  <2>3. ~Left(r, "watch-removal", "own")
    BY <1>2, <1>4, <2>2, Past DEF Left
  <2> QED
    BY <1>1, <1>4, <2>2, <2>3 DEF Behind, Offboarding
<1>5. CASE ~run[r].undo /\ e.by = "replace"
  <2>1. Forth(p, e)
    BY <1>1, <1>5 DEF Whose
  <2>2. e.s = "record" /\ p.kind = "create" /\ p.targets[e.g] # {}
    BY <1>1, <1>5, <2>1, ForthIs
  <2>3. ~Has(run[r].todo, Ent("watch-prune", e.g, "replace"))
    BY <1>2, <1>5, <2>2, Past
  <2> QED
    BY <1>1, <1>5, <2>2, <2>3 DEF Behind, Creating
<1>6. CASE ~run[r].undo /\ e.by = "purge"
  <2>1. Forth(p, e)
    BY <1>1, <1>6 DEF Whose
  <2>2. e.s = "record" /\ p.kind = "purge" /\ e.g = p.g
    BY <1>1, <1>6, <2>1, ForthIs
  <2>3. ~Left(r, "verify-prune", "purge")
    BY <1>2, <1>6, <2>2, Past DEF Left
  <2> QED
    BY <1>1, <1>6, <2>2, <2>3 DEF Behind, Purging
<1> QED
  BY <1>1, <1>3, <1>4, <1>5, <1>6, ForthIs DEF Whose

\* A step settles only a row of which nothing is deployed.
LEMMA StepSettled ==
    ASSUME IInv, NEW r \in Runs, Stepped(r), Place(r), NEW h \in Guids, tenant'[h].row \in Settled
    PROVE  ~tenant'[h].reg.in /\ Idp \notin tenant'[h].fan
<1> DEFINE e == Head(run[r].todo)
           t == tenant[h]
           u == tenant'[h]
<1>1. t.row \in Settled => Undeployed(t)
  BY DEF IInv, SettledIsUndeployed, Undeployed
<1>2. CASE h # e.g
  BY <1>1, <1>2 DEF Stepped, Alike, Undeployed
<1>3. CASE h = e.g
  <2>1. Change(Param(r), e, t, u)
    BY <1>3 DEF Stepped
  <2>2. Undeployed(t)
    <3>1. CASE t.row \in Settled
      BY <1>1, <3>1
    <3>2. CASE t.row \notin Settled
      <4>1. e.s \in {"record", "record-offboard"}
        BY <2>1, <3>2 DEF Change, RowSet, Settled
      <4> QED
        BY <1>3, <4>1, SettledAt
    <3> QED
      BY <3>1, <3>2
  <2>3. ASSUME e.s = "write-registration" PROVE FALSE
    <3>1. t.row \in {"none", "provisioning"} /\ u.row = t.row
      BY <1>3, <2>1, <2>3, AloneAtLast DEF Change, RowSet
    <3> QED
      BY <3>1 DEF Settled
  <2> QED
    BY <2>1, <2>2, <2>3 DEF Change, ClusterSet, RegSet, Undeployed, NoReg
<1> QED
  BY <1>2, <1>3

\* A step that is not the registration's writing never registers, and no step touches the fan-out.
LEMMA RegFalls ==
    ASSUME NEW p, NEW e, NEW t, NEW u, Change(p, e, t, u)
    PROVE  u.fan = t.fan /\ u.ns = t.ns /\ t.terminating \subseteq u.terminating
           /\ (e.s # "write-registration" => (u.reg.in => t.reg.in))
<1>1. RegSet(p, e, t, u) /\ ClusterSet(p, e, t, u)
  BY DEF Change
<1>2. CASE e.s = "remove"
  BY <1>1, <1>2 DEF RegSet, ClusterSet, NoReg
<1>3. CASE e.s # "remove"
  BY <1>1, <1>3 DEF RegSet, ClusterSet
<1> QED
  BY <1>2, <1>3

\* A step leaves at most one tenant on the subdomain.
LEMMA StepOneTenant ==
    ASSUME IInv, NEW r \in Runs, Stepped(r), Place(r)
    PROVE  OneTenantPerSubdomain'
<1> DEFINE e == Head(run[r].todo)
<1>1. ASSUME NEW g \in Guids PROVE tenant'[g].fan = tenant[g].fan
  <2>1. CASE g # e.g
    BY <2>1 DEF Stepped, Alike
  <2>2. CASE g = e.g
    <3>1. Change(Param(r), e, tenant[e.g], tenant'[e.g])
      BY DEF Stepped
    <3> QED
      BY <2>2, <3>1, RegFalls
  <2> QED
    BY <2>1, <2>2
<1>2. \A g \in Guids : tenant'[g].reg.in => tenant[g].reg.in \/ (g = e.g /\ e.s = "write-registration")
  <2>1. \A g \in Guids : g # e.g => tenant'[g].reg.in = tenant[g].reg.in
    BY DEF Stepped, Alike
  <2>2. RegSet(Param(r), e, tenant[e.g], tenant'[e.g])
    BY DEF Stepped, Change
  <2>3. tenant'[e.g].reg.in => tenant[e.g].reg.in \/ e.s = "write-registration"
    <3>1. CASE e.s = "remove"
      BY <2>2, <3>1 DEF RegSet, NoReg
    <3>2. CASE e.s \notin {"remove", "write-registration"}
      BY <2>2, <3>2 DEF RegSet
    <3> QED
      BY <3>1, <3>2
  <2> QED
    BY <2>1, <2>3
<1>3. OneTenantPerSubdomain
  BY DEF IInv
<1>4. CASE e.s # "write-registration"
  BY <1>1, <1>2, <1>3, <1>4 DEF OneTenantPerSubdomain
<1>5. CASE e.s = "write-registration"
  <2>1. \A h \in Guids : h # e.g => Undeployed(tenant[h])
    BY <1>5, AloneAtLast
  <2> QED
    BY <1>1, <1>2, <2>1 DEF OneTenantPerSubdomain, Undeployed
<1> QED
  BY <1>4, <1>5

\* An app's key is seeded only for a registered tenant.
LEMMA SeedsAt ==
    ASSUME NEW r \in Runs, Place(r), Stepped(r), Head(run[r].todo).s \in {"seed-tenant-crypto", "seed-password-field-key"}
    PROVE  \/ tenant[Head(run[r].todo).g].row \in {"none", "provisioning"}
           \/ tenant[Head(run[r].todo).g].reg.in
<1> DEFINE e == Head(run[r].todo)
           p == Param(r)
<1>1. Whose(r, e) /\ p \in ParamType /\ Behind(r) /\ Holding(r) /\ Has(run[r].todo, e) /\ e = Ent(e.s, e.g, e.by)
  BY DEF Place
<1>2. ~run[r].undo /\ Forth(p, e)
  <2>1. ~Back(p, e)
    BY BackIs DEF ReplaceNames
  <2> QED
    BY <1>1, <2>1 DEF Whose
<1>3. e.by = "own" /\ e.g = p.g
  BY <1>1, <1>2, ForthIs
<1>4. CASE e.s = "seed-tenant-crypto"
  <2>1. p.kind = "create" /\ Left(r, "seed-tenant-crypto", "own")
    BY <1>1, <1>2, <1>3, <1>4, ForthIs DEF Left
  <2> QED
    BY <1>1, <1>2, <1>3, <2>1 DEF Behind, Creating
<1>5. CASE e.s = "seed-password-field-key"
  <2>1. p.kind = "add-app"
    BY <1>1, <1>2, <1>5, ForthIs
  <2>2. <<"extend-argo-sync", e.s>> \in Order
    BY <1>5 DEF Order
  <2>3. ~Left(r, "extend-argo-sync", "own")
    BY <1>3, <2>2, Past DEF Left
  <2> QED
    BY <1>1, <1>2, <1>3, <2>1, <2>3 DEF Behind, Adding
<1> QED
  BY <1>4, <1>5

\* A step purges only a row whose identity is gone, and gives none back.
LEMMA StepPurged ==
    ASSUME IInv, NEW r \in Runs, Stepped(r), Place(r), NEW h \in Guids, tenant'[h].row = "purged"
    PROVE  Bare(tenant'[h])
<1> DEFINE e == Head(run[r].todo)
           t == tenant[h]
           u == tenant'[h]
<1>1. t.row = "purged" => Bare(t) /\ ~t.reg.in
  BY DEF IInv, PurgedLeavesNoIdentity, SettledIsUndeployed, Settled, Bare
<1>2. CASE h # e.g
  BY <1>1, <1>2 DEF Stepped, Alike, Bare
<1>3. CASE h = e.g
  <2>1. Change(Param(r), e, t, u)
    BY <1>3 DEF Stepped
  <2>2. CASE t.row = "purged"
    <3>1. e.s \notin {"seed-tenant-crypto", "seed-password-field-key"}
      BY <1>1, <1>3, <2>2, SeedsAt
    <3>2. "seeder" \in u.unwired \/ (u.entry = 0 /\ u.appKeys = {})
      <4>1. CASE e.s = "delete-tenant-crypto"
        BY <2>1, <4>1 DEF Change, KeysSet
      <4>2. CASE e.s # "delete-tenant-crypto"
        <5>1. u.entry = t.entry /\ u.appKeys \subseteq t.appKeys /\ ("seeder" \in t.unwired => "seeder" \in u.unwired)
          BY <2>1, <3>1, <4>2 DEF Change, KeysSet
        <5> QED
          BY <1>1, <2>2, <5>1 DEF Bare
      <4> QED
        BY <4>1, <4>2
    <3>3. "objectStore" \in u.unwired \/ u.bucketKeys = {}
      <4>1. CASE e.s = "withdraw-bucket-keys"
        BY <2>1, <4>1 DEF Change, KeysSet
      <4>2. CASE e.s # "withdraw-bucket-keys"
        <5>1. u.bucketKeys = t.bucketKeys /\ ("objectStore" \in t.unwired => "objectStore" \in u.unwired)
          BY <2>1, <3>1, <4>2 DEF Change, KeysSet
        <5> QED
          BY <1>1, <2>2, <5>1 DEF Bare
      <4> QED
        BY <4>1, <4>2
    <3>4. Idp \notin u.ns \ u.terminating
      BY <1>1, <2>1, <2>2 DEF Change, ClusterSet, Bare
    <3> QED
      BY <3>2, <3>3, <3>4 DEF Bare
  <2>3. CASE t.row # "purged"
    <3>1. e.s = "record" /\ e.by = "purge"
      BY <2>1, <2>3 DEF Change, RowSet
    <3>2. Purging(r) /\ ~run[r].undo /\ Param(r).kind = "purge" /\ e.g = Param(r).g /\ Holding(r)
      BY <3>1, PurgeAt DEF Place
    <3>3. \A s \in {"delete-namespaces", "delete-tenant-crypto", "withdraw-bucket-keys"} : ~Left(r, s, "purge")
      <4>1. \A s \in {"delete-namespaces", "delete-tenant-crypto", "withdraw-bucket-keys"} : <<s, e.s>> \in Order
        BY <3>1 DEF Order
      <4> QED
        BY <3>1, <3>2, <4>1, Past DEF Left
    <3>4. Bare(t)
      BY <1>3, <3>2, <3>3 DEF Purging, Bare
    <3>5. u.entry = t.entry /\ u.bucketKeys = t.bucketKeys /\ u.appKeys \subseteq t.appKeys /\ u.unwired = t.unwired
      BY <2>1, <3>1 DEF Change, KeysSet
    <3>6. u.ns = t.ns /\ t.terminating \subseteq u.terminating
      BY <2>1 DEF Change, ClusterSet
    <3> QED
      BY <3>4, <3>5, <3>6 DEF Bare
  <2> QED
    BY <2>2, <2>3
<1> QED
  BY <1>2, <1>3

\* A step makes no tenant live that has no key.
LEMMA StepHasKey ==
    ASSUME IInv, NEW r \in Runs, Stepped(r), Place(r), NEW h \in Guids, tenant'[h].row \in Live, tenant'[h].reg.in
    PROVE  tenant'[h].entry # 0
<1> DEFINE e == Head(run[r].todo)
           p == Param(r)
           t == tenant[h]
           u == tenant'[h]
<1>1. (t.row \in Live /\ t.reg.in) => t.entry # 0
  BY DEF IInv, DeployedTenantHasItsKey
<1>2. CASE h # e.g
  BY <1>1, <1>2 DEF Stepped, Alike
<1>3. CASE h = e.g
  <2>1. Change(p, e, t, u)
    BY <1>3 DEF Stepped
  <2>2. e.s \notin {"write-registration", "remove"}
    <3>1. ASSUME e.s = "write-registration" PROVE FALSE
      <4>1. t.row \in {"none", "provisioning"} /\ u.row = t.row
        BY <1>3, <2>1, <3>1, AloneAtLast DEF Change, RowSet
      <4> QED
        BY <4>1 DEF Live
    <3> QED
      BY <2>1, <3>1 DEF Change, RegSet, NoReg
  <2>3. t.reg.in
    BY <2>1, <2>2 DEF Change, RegSet
  <2>4. CASE e.s \notin {"seed-tenant-crypto", "delete-tenant-crypto", "record-inventory"}
    <3>1. u.entry = t.entry
      BY <2>1, <2>4 DEF Change, KeysSet
    <3>2. t.row \in Live
      <4>1. CASE e.s \notin {"record-suspended", "record-active"}
        BY <2>1, <2>4, <4>1 DEF Change, RowSet, Live
      <4>2. CASE e.s \in {"record-suspended", "record-active"}
        <5>1. Whose(r, e) /\ p \in ParamType /\ Planned(r)
          BY DEF Place
        <5>2. Forth(p, e)
          <6>1. ~Back(p, e)
            BY <4>2, BackIs DEF ReplaceNames
          <6> QED
            BY <5>1, <6>1 DEF Whose
        <5>3. p.kind \in {"suspend", "resume"} /\ e.g = p.g
          BY <4>2, <5>1, <5>2, ForthIs
        <5>4. t.row \notin {"none", "provisioning"}
          BY <1>3, <5>1, <5>3 DEF Planned
        <5>5. t.row \notin Settled
          BY <2>3 DEF IInv, SettledIsUndeployed
        <5>6. t.row \in Status
          BY DEF IInv, Types, TenantType
        <5> QED
          BY <5>4, <5>5, <5>6 DEF Status
      <4> QED
        BY <4>1, <4>2
    <3> QED
      BY <1>1, <2>3, <3>1, <3>2
  <2>5. CASE e.s = "seed-tenant-crypto"
    <3>1. u.row = t.row
      BY <2>1, <2>5 DEF Change, RowSet
    <3>2. Whose(r, e) /\ p \in ParamType /\ Holding(r) /\ Has(run[r].todo, e) /\ e = Ent(e.s, e.g, e.by) /\ Creating(r)
      BY DEF Place, Behind
    <3>3. ~run[r].undo /\ Forth(p, e)
      <4>1. ~Back(p, e)
        BY <2>5, BackIs DEF ReplaceNames
      <4> QED
        BY <3>2, <4>1 DEF Whose
    <3>4. p.kind = "create" /\ e.by = "own" /\ e.g = p.g
      BY <2>5, <3>2, <3>3, ForthIs
    <3>5. Left(r, "seed-tenant-crypto", "own")
      BY <2>5, <3>2, <3>4 DEF Left
    <3>6. t.row \in {"none", "provisioning"}
      BY <1>3, <3>2, <3>3, <3>4, <3>5 DEF Creating
    <3> QED
      BY <3>1, <3>6 DEF Live
  <2>6. CASE e.s = "delete-tenant-crypto"
    <3>1. Purging(r) /\ ~run[r].undo /\ p.kind = "purge" /\ e.g = p.g /\ e.by = "purge" /\ Holding(r)
      BY <2>6, PurgeAt DEF Place
    <3>2. <<"remove", e.s>> \in Order
      BY <2>6 DEF Order
    <3>3. ~Left(r, "remove", "purge")
      BY <3>1, <3>2, Past DEF Left
    <3> QED
      BY <1>3, <2>3, <3>1, <3>3 DEF Purging
  <2>7. CASE e.s = "record-inventory"
    <3>1. Whose(r, e) /\ p \in ParamType /\ Holding(r) /\ Creating(r)
      BY DEF Place, Behind
    <3>2. ~run[r].undo /\ Forth(p, e)
      <4>1. ~Back(p, e)
        BY <2>7, BackIs DEF ReplaceNames
      <4> QED
        BY <3>1, <4>1 DEF Whose
    <3>3. p.kind = "create" /\ e.by = "own" /\ e.g = p.g
      BY <2>7, <3>1, <3>2, ForthIs
    <3>4. <<"seed-tenant-crypto", e.s>> \in Order
      BY <2>7 DEF Order
    <3>5. ~Left(r, "seed-tenant-crypto", "own")
      BY <3>3, <3>4, Past DEF Left
    <3>6. t.entry # 0
      BY <1>3, <3>1, <3>2, <3>3, <3>5 DEF Creating
    <3> QED
      BY <2>1, <2>7, <3>6 DEF Change, KeysSet
  <2> QED
    BY <2>4, <2>5, <2>6, <2>7
<1> QED
  BY <1>2, <1>3

\* The run itself after its step: what is left of it is in order, and what it has armed is its inverse.
LEMMA StepLists ==
    ASSUME IInv, NEW r \in Runs, Stepped(r), Place(r)
    PROVE  Lists(r)'
<1> DEFINE T == run[r].todo
           U == run'[r].todo
           e == Head(T)
           p == Param(r)
<1>1. /\ Lists(r) /\ Param(r)' = p /\ run'[r].undo = run[r].undo /\ Whose(r, e) /\ p \in ParamType
      /\ T # <<>> /\ run'[r].armed = ArmedBy(r, e)
  BY DEF Place, Stepped, Moved
<1>2. T \in Seq(StepType) /\ Shorter(T, U) /\ Sorted(T)
  <2>1. Types /\ run[r].st = "running"
    BY DEF IInv, Stepped
  <2> QED
    BY <1>1, <2>1, AtHand DEF Stepped, Moved, Shorter, Lists
<1>3. Sorted(U) /\ \A i \in DOMAIN U : \E j \in DOMAIN T : U[i] = T[j]
  BY <1>1, <1>2, ShorterList
<1>4. \A i \in DOMAIN U : IF run'[r].undo THEN Back(Param(r)', U[i]) ELSE Forth(Param(r)', U[i])
  BY <1>1, <1>3 DEF Lists
<1>5. run'[r].undo /\ run'[r].armed = <<>> => U = <<>>
  <2>1. SUFFICES ASSUME run[r].undo PROVE run'[r].armed # <<>>
    BY <1>1
  <2>2. Back(p, e)
    BY <1>1, <2>1 DEF Whose
  <2>3. e.s \notin {"record-provisional", "append-app"}
    BY <2>2, BackIs DEF ReplaceNames
  <2>4. run'[r].armed = run[r].armed
    BY <1>1, <2>3 DEF ArmedBy
  <2> QED
    BY <1>1, <2>1, <2>4 DEF Lists
<1>6. \/ run'[r].armed = <<>>
      \/ p.kind = "create" /\ run'[r].armed = TenantTeardown("abort", p.g)
      \/ p.kind = "add-app" /\ run'[r].armed = Flavour("abort", p.g, <<"revert-app-append">>)
  <2>1. CASE e.s \notin {"record-provisional", "append-app"}
    <3>1. run'[r].armed = run[r].armed
      BY <1>1, <2>1 DEF ArmedBy
    <3> QED
      BY <1>1, <3>1 DEF Lists
  <2>2. CASE e.s \in {"record-provisional", "append-app"}
    <3>1. Forth(p, e)
      <4>1. ~Back(p, e)
        BY <2>2, BackIs DEF ReplaceNames
      <4> QED
        BY <1>1, <4>1 DEF Whose
    <3>2. e.g = p.g /\ (e.s = "record-provisional" => p.kind = "create") /\ (e.s = "append-app" => p.kind = "add-app")
      BY <1>1, <2>2, <3>1, ForthIs
    <3> QED
      BY <1>1, <2>2, <3>2 DEF ArmedBy
  <2> QED
    BY <2>1, <2>2
<1> HIDE DEF T, U
<1> QED
  BY <1>1, <1>3, <1>4, <1>5, <1>6 DEF Lists, Param, U

\* A step leaves what every planner found.
LEMMA StepPlanned ==
    ASSUME IInv, NEW r \in Runs, Stepped(r), NEW q \in Runs, Active(q), Param(q)' = Param(q), Param(q) \in ParamType
    PROVE  Planned(q)'
<1> DEFINE p == Param(q)
<1>1. Planned(q) /\ p.g \in Guids
  BY DEF IInv, RunsSound, ParamType
<1>2. \A h \in Guids : /\ tenant[h].row # "none" => tenant'[h].row # "none"
                       /\ tenant[h].row \notin {"none", "provisioning"} => tenant'[h].row \notin {"none", "provisioning"}
  BY RowsStay
<1> HIDE DEF p
<1>3. /\ p.kind # "create" => tenant'[p.g].row # "none"
      /\ p.kind \in {"suspend", "resume", "remove-app"} => tenant'[p.g].row # "provisioning"
  BY <1>1, <1>2 DEF Planned, p
<1>4. \A h \in Guids : p.targets[h] # {} => Idp \in p.targets[h] /\ tenant'[h].row # "none"
  BY <1>1, <1>2 DEF Planned, p
<1> QED
  BY <1>1, <1>3, <1>4 DEF Planned, p

\* A plan that waits, while another run steps.
LEMMA StepWaiting ==
    ASSUME IInv, NEW r \in Runs, Stepped(r), Place(r), NEW q \in Runs, q # r, Active(q), run'[q] = run[q],
           Param(q) \in ParamType
    PROVE  Waiting(q)'
<1> DEFINE p == Param(q)
           e == Head(run[r].todo)
<1>1. Waiting(q) /\ p.g \in Guids
  BY DEF IInv, RunsSound, Behind, ParamType
<1>2. Param(q)' = p /\ run'[q].todo = run[q].todo /\ run'[q].undo = run[q].undo /\ run'[q].armed = run[q].armed
      /\ run'[q].st = run[q].st
  BY DEF Param
<1>3. ASSUME run[q].st = "planned", p.kind = "create" PROVE tenant'[p.g] = Nothing
  <2>1. tenant[p.g] = Nothing
    BY <1>1, <1>3 DEF Waiting
  <2>2. CASE p.g # e.g
    BY <1>1, <2>1, <2>2 DEF Stepped, Alike
  <2>3. CASE p.g = e.g
    <3>1. tenant[e.g].row = "none"
      BY <2>1, <2>3 DEF Nothing
    <3>2. Param(r).kind = "create" /\ Param(r).g = p.g
      BY <2>3, <3>1, NoRowYet
    <3>3. Active(r)
      BY DEF Place
    <3> QED
      BY <1>3, <3>2, <3>3 DEF IInv, OwnGuid
  <2> QED
    BY <2>2, <2>3
<1> HIDE DEF p
<1> QED
  BY <1>1, <1>2, <1>3 DEF Waiting, Left, p

\* A run that has armed its inverse has written its row.
LEMMA StepArmed ==
    ASSUME IInv, NEW r \in Runs, Stepped(r), Place(r), NEW q \in Runs, Active(q), Param(q)' = Param(q),
           Param(q) \in ParamType, q = r \/ run'[q] = run[q]
    PROVE  Armed(q)'
<1> DEFINE p == Param(q)
           e == Head(run[r].todo)
<1>1. Armed(q) /\ p.g \in Guids
  BY DEF IInv, RunsSound, Behind, ParamType
<1>2. tenant[p.g].row # "none" => tenant'[p.g].row # "none"
  BY <1>1, RowsStay
<1>3. CASE run'[q].armed = run[q].armed
  BY <1>1, <1>2, <1>3 DEF Armed
<1>4. CASE run'[q].armed # run[q].armed
  <2>1. q = r /\ e.s \in {"record-provisional", "append-app"}
    BY <1>4 DEF Stepped, Moved, ArmedBy
  <2>2. Whose(r, e)
    BY DEF Place
  <2>3. Forth(p, e)
    <3>1. ~Back(p, e)
      BY <2>1, BackIs DEF ReplaceNames
    <3> QED
      BY <2>1, <2>2, <3>1 DEF Whose
  <2>4. CASE e.s = "append-app"
    BY <1>1, <2>3, <2>4, ForthIs DEF Armed
  <2>5. CASE e.s = "record-provisional"
    <3>1. e.g = p.g
      BY <2>3, <2>5, ForthIs
    <3>2. RowSet(e, tenant[e.g], tenant'[e.g])
      BY DEF Stepped, Change
    <3>3. tenant'[e.g].row # "none"
      BY <2>5, <3>2 DEF RowSet
    <3> QED
      BY <3>1, <3>3 DEF Armed
  <2> QED
    BY <2>1, <2>4, <2>5
<1> QED
  BY <1>3, <1>4

\* An offboard goes on.
LEMMA StepOffboarding ==
    ASSUME IInv, NEW r \in Runs, Stepped(r), Place(r)
    PROVE  Offboarding(r)'
<1> DEFINE T == run[r].todo
           e == Head(T)
           p == Param(r)
           t == tenant[p.g]
           u == tenant'[p.g]
           L(s) == Left(r, s, "own")
           M(s) == Has(run'[r].todo, Ent(s, p.g, "own"))
<1>1. /\ Whose(r, e) /\ p \in ParamType /\ Offboarding(r) /\ Holding(r) /\ Planned(r) /\ e = Ent(e.s, e.g, e.by)
      /\ Param(r)' = p /\ run'[r].undo = run[r].undo
  BY DEF Place, Behind
<1>2. SUFFICES ASSUME p.kind = "offboard", ~run[r].undo
               PROVE  (M("remove") \/ ~u.reg.in) /\ (M("watch-removal") \/ Undeployed(u))
  BY <1>1 DEF Offboarding, Left
<1>3. Forth(p, e)
  BY <1>1, <1>2 DEF Whose
<1>4. e.by = "own" /\ e.g = p.g /\ p.g \in Guids
  BY <1>1, <1>2, <1>3, ForthIs DEF ParamType
<1>5. Change(p, e, t, u)
  BY <1>4 DEF Stepped
<1>6. \A s : L(s) => M(s) \/ e.s = s
  BY <1>4 DEF Place, Left, Ent
<1>7. e.s # "write-registration"
  BY <1>1, <1>2, <1>3, ForthIs
<1>8. (u.reg.in => t.reg.in) /\ u.fan = t.fan
  BY <1>5, <1>7, RegFalls
<1>9. (L("remove") \/ ~t.reg.in) /\ (L("watch-removal") \/ Undeployed(t))
  BY <1>1, <1>2 DEF Offboarding
<1>10. M("remove") \/ ~u.reg.in
  <2>1. CASE e.s = "remove"
    BY <1>5, <2>1 DEF Change, RegSet, NoReg
  <2> QED
    BY <1>6, <1>8, <1>9, <2>1
<1>11. M("watch-removal") \/ Undeployed(u)
  <2>1. CASE e.s = "watch-removal"
    <3>1. <<"remove", e.s>> \in Order
      BY <2>1 DEF Order
    <3>2. ~L("remove")
      BY <1>4, <3>1, Past DEF Left
    <3>3. t.row # "none"
      BY <1>1, <1>2 DEF Planned
    <3>4. Idp \notin t.fan
      BY <1>5, <2>1, <3>3 DEF Change, Passed
    <3> QED
      BY <1>8, <1>9, <3>2, <3>4 DEF Undeployed
  <2> QED
    BY <1>6, <1>8, <1>9, <2>1 DEF Undeployed
<1> QED
  BY <1>10, <1>11

\* An add-app goes on.
LEMMA StepAdding ==
    ASSUME IInv, NEW r \in Runs, Stepped(r), Place(r)
    PROVE  Adding(r)'
<1> DEFINE e == Head(run[r].todo)
           p == Param(r)
           t == tenant[p.g]
           u == tenant'[p.g]
           M == Has(run'[r].todo, Ent("extend-argo-sync", p.g, "own"))
<1>1. /\ Whose(r, e) /\ p \in ParamType /\ Adding(r) /\ Holding(r) /\ e = Ent(e.s, e.g, e.by)
      /\ Param(r)' = p /\ run'[r].undo = run[r].undo
  BY DEF Place, Behind
<1>2. SUFFICES ASSUME p.kind = "add-app", ~run[r].undo PROVE M \/ u.reg.in
  BY <1>1 DEF Adding, Left
<1>3. Forth(p, e)
  BY <1>1, <1>2 DEF Whose
<1>4. e.by = "own" /\ e.g = p.g /\ e.s \notin {"write-registration", "remove"}
  BY <1>1, <1>2, <1>3, ForthIs
<1>5. Change(p, e, t, u)
  BY <1>4 DEF Stepped
<1>6. u.reg.in = t.reg.in
  BY <1>4, <1>5 DEF Change, RegSet
<1>7. Left(r, "extend-argo-sync", "own") \/ t.reg.in
  BY <1>1, <1>2 DEF Adding
<1>8. Left(r, "extend-argo-sync", "own") => M \/ e.s = "extend-argo-sync"
  BY <1>4 DEF Place, Left, Ent
<1>9. e.s = "extend-argo-sync" => t.reg.in
  BY <1>5 DEF Change, Passed
<1> QED
  BY <1>6, <1>7, <1>8, <1>9

\* An abort goes on.
LEMMA StepUndoing ==
    ASSUME IInv, NEW r \in Runs, Stepped(r), Place(r)
    PROVE  Undoing(r)'
<1> DEFINE e == Head(run[r].todo)
           p == Param(r)
           t == tenant[p.g]
           u == tenant'[p.g]
           L(s) == Left(r, s, "abort")
           M(s) == Has(run'[r].todo, Ent(s, p.g, "abort"))
<1>1. /\ Whose(r, e) /\ p \in ParamType /\ Undoing(r) /\ Holding(r) /\ Lists(r) /\ e = Ent(e.s, e.g, e.by)
      /\ Param(r)' = p /\ run'[r].undo = run[r].undo
  BY DEF Place, Behind
<1>2. SUFFICES ASSUME run[r].undo
               PROVE  /\ p.kind = "create" => NotLive(u) /\ (M("remove") \/ ~u.reg.in) /\ (M("watch-prune") \/ Undeployed(u))
                      /\ p.kind = "add-app" => \A a \in p.apps \cap u.reg.apps : u.appRow[a] # "active"
  BY <1>1 DEF Undoing, Left
<1>3. Back(p, e)
  BY <1>1, <1>2 DEF Whose
<1>4. e.by = "abort" /\ e.g = p.g /\ p.g \in Guids
  BY <1>1, <1>3, BackIs DEF ParamType
<1>5. Change(p, e, t, u)
  BY <1>4 DEF Stepped
<1>6. ASSUME p.kind = "create"
      PROVE  NotLive(u) /\ (M("remove") \/ ~u.reg.in) /\ (M("watch-prune") \/ Undeployed(u))
  <2>1. e.s \in ReplaceNames
    BY <1>3, <1>6, BackIs
  <2>2. run[r].armed # <<>>
    BY <1>1, <1>2 DEF Lists, Stepped
  <2>3. NotLive(t) /\ (L("remove") \/ ~t.reg.in) /\ (L("watch-prune") \/ Undeployed(t))
    BY <1>1, <1>2, <1>6, <2>2 DEF Undoing
  <2>4. (u.reg.in => t.reg.in) /\ u.fan = t.fan
    <3>1. e.s # "write-registration"
      BY <2>1 DEF ReplaceNames
    <3> QED
      BY <1>5, <3>1, RegFalls
  <2>5. u.row \in Live => t.row \in Live
    BY <1>5, <2>1 DEF Change, RowSet, ReplaceNames, Live
  <2>6. \A s : L(s) => M(s) \/ e.s = s
    BY <1>4 DEF Place, Left, Ent
  <2>7. NotLive(u)
    BY <2>3, <2>4, <2>5 DEF NotLive
  <2>8. M("remove") \/ ~u.reg.in
    <3>1. CASE e.s = "remove"
      BY <1>5, <3>1 DEF Change, RegSet, NoReg
    <3> QED
      BY <2>3, <2>4, <2>6, <3>1
  <2>9. M("watch-prune") \/ Undeployed(u)
    <3>1. CASE e.s = "watch-prune"
      <4>1. <<"remove", e.s>> \in Order
        BY <3>1 DEF Order
      <4>2. ~L("remove")
        BY <1>4, <4>1, Past DEF Left
      <4>3. Idp \notin t.fan
        BY <1>4, <1>5, <3>1 DEF Change, Passed
      <4> QED
        BY <2>3, <2>4, <4>2, <4>3 DEF Undeployed
    <3> QED
      BY <2>3, <2>4, <2>6, <3>1 DEF Undeployed
  <2> QED
    BY <2>7, <2>8, <2>9
<1>7. ASSUME p.kind = "add-app" PROVE \A a \in p.apps \cap u.reg.apps : u.appRow[a] # "active"
  <2>1. e.s = "revert-app-append"
    BY <1>3, <1>7, BackIs
  <2>2. u.reg.apps = t.reg.apps \ p.apps
    BY <1>5, <2>1 DEF Change, RegSet
  <2> QED
    BY <2>2
<1> QED
  BY <1>6, <1>7

\* A purge goes on.
LEMMA StepPurging ==
    ASSUME IInv, NEW r \in Runs, Stepped(r), Place(r)
    PROVE  Purging(r)'
<1> DEFINE e == Head(run[r].todo)
           p == Param(r)
           t == tenant[p.g]
           u == tenant'[p.g]
           L(s) == Left(r, s, "purge")
           M(s, by) == Has(run'[r].todo, Ent(s, p.g, by))
<1>1. /\ Whose(r, e) /\ p \in ParamType /\ Purging(r) /\ Holding(r) /\ Planned(r) /\ e = Ent(e.s, e.g, e.by)
      /\ Param(r)' = p /\ run'[r].undo = run[r].undo
  BY DEF Place, Behind
<1>2. SUFFICES ASSUME p.kind = "purge", ~run[r].undo
               PROVE  /\ M("attest-purge", "own") \/ NotLive(u)
                      /\ M("remove", "purge") \/ ~u.reg.in
                      /\ M("delete-projects", "purge") \/ Idp \notin u.project
                      /\ M("delete-namespaces", "purge") \/ (Idp \notin u.project /\ Idp \notin u.ns \ u.terminating)
                      /\ M("delete-tenant-crypto", "purge") \/ "seeder" \in u.unwired \/ (u.entry = 0 /\ u.appKeys = {})
                      /\ M("withdraw-bucket-keys", "purge") \/ "objectStore" \in u.unwired \/ u.bucketKeys = {}
                      /\ M("verify-prune", "purge") \/ Undeployed(u)
  BY <1>1 DEF Purging, Left
<1>3. Forth(p, e)
  BY <1>1, <1>2 DEF Whose
<1>4. /\ e.g = p.g /\ p.g \in Guids /\ e.by \in {"own", "purge"}
      /\ (e.s \in PurgeNames /\ e.by = "purge") \/ (e.s = "attest-purge" /\ e.by = "own")
  BY <1>1, <1>2, <1>3 DEF ParamType, Forth, OwnNames
<1>5. Change(p, e, t, u)
  BY <1>4 DEF Stepped
<1>6. /\ Left(r, "attest-purge", "own") \/ NotLive(t)
      /\ L("remove") \/ ~t.reg.in
      /\ L("delete-projects") \/ Idp \notin t.project
      /\ L("delete-namespaces") \/ (Idp \notin t.project /\ Idp \notin t.ns \ t.terminating)
      /\ L("delete-tenant-crypto") \/ "seeder" \in t.unwired \/ (t.entry = 0 /\ t.appKeys = {})
      /\ L("withdraw-bucket-keys") \/ "objectStore" \in t.unwired \/ t.bucketKeys = {}
      /\ L("verify-prune") \/ Undeployed(t)
  BY <1>1, <1>2 DEF Purging
<1>7. \A s, by : Left(r, s, by) => M(s, by) \/ (e.s = s /\ e.by = by)
  BY <1>4 DEF Place, Left, Ent
<1>8. (u.reg.in => t.reg.in) /\ u.fan = t.fan /\ u.ns = t.ns /\ t.terminating \subseteq u.terminating
  <2>1. e.s # "write-registration"
    BY <1>4 DEF PurgeNames
  <2> QED
    BY <1>5, <2>1, RegFalls
<1>9. u.row \in Live => t.row \in Live
  BY <1>4, <1>5 DEF Change, RowSet, Live, PurgeNames
<1>17. u.project \subseteq t.project /\ (e.s = "delete-projects" => Idp \notin u.project)
  <2>1. Projects(p, e, t, u)
    BY <1>5 DEF Change, ClusterSet
  <2>2. e.s \notin {"apply-appprojects", "apply-appproject"} /\ (e.s = "delete-projects" => e.by = "purge")
    BY <1>4 DEF PurgeNames
  <2>3. Idp \in p.targets[e.g]
    BY <1>1, <1>2, <1>4 DEF Planned
  <2> QED
    BY <2>1, <2>2, <2>3 DEF Projects
<1>18. e.s # "delete-tenant-crypto" =>
           u.entry = t.entry /\ u.appKeys \subseteq t.appKeys /\ ("seeder" \in t.unwired => "seeder" \in u.unwired)
  <2>1. e.s \notin {"seed-tenant-crypto", "seed-password-field-key"}
    BY <1>4 DEF PurgeNames
  <2> QED
    BY <1>5, <2>1 DEF Change, KeysSet
<1>19. e.s # "withdraw-bucket-keys" =>
           u.bucketKeys = t.bucketKeys /\ ("objectStore" \in t.unwired => "objectStore" \in u.unwired)
  <2>1. e.s # "seed-tenant-crypto"
    BY <1>4 DEF PurgeNames
  <2> QED
    BY <1>5, <2>1 DEF Change, KeysSet
<1>10. M("attest-purge", "own") \/ NotLive(u)
  <2>1. e.s = "attest-purge" => NotLive(t)
    BY <1>5 DEF Change, Passed
  <2>2. NotLive(t) => NotLive(u)
    BY <1>8, <1>9 DEF NotLive
  <2> QED
    BY <1>6, <1>7, <2>1, <2>2
<1>11. M("remove", "purge") \/ ~u.reg.in
  <2>1. CASE e.s = "remove"
    BY <1>5, <2>1 DEF Change, RegSet, NoReg
  <2> QED
    BY <1>6, <1>7, <1>8, <2>1
<1>12. e.s = "verify-prune" => ~t.reg.in
  <2>1. SUFFICES ASSUME e.s = "verify-prune" PROVE ~t.reg.in
    OBVIOUS
  <2>2. <<"remove", e.s>> \in Order /\ e.by = "purge"
    BY <1>4, <2>1 DEF Order
  <2>3. ~L("remove")
    BY <1>4, <2>2, Past DEF Left
  <2> QED
    BY <1>6, <2>3
<1>13. M("delete-namespaces", "purge") \/ (Idp \notin u.project /\ Idp \notin u.ns \ u.terminating)
  <2>1. CASE e.s = "delete-namespaces"
    <3>1. u.ns \subseteq u.terminating
      BY <1>5, <2>1 DEF Change, ClusterSet
    <3>2. <<"delete-projects", e.s>> \in Order /\ e.by = "purge"
      BY <1>4, <2>1 DEF Order
    <3>3. ~L("delete-projects")
      BY <1>4, <3>2, Past DEF Left
    <3>4. Idp \notin u.project
      BY <1>6, <1>17, <3>3
    <3> QED
      BY <3>1, <3>4
  <2> QED
    BY <1>6, <1>7, <1>8, <1>17, <2>1
<1>20. M("delete-projects", "purge") \/ Idp \notin u.project
  BY <1>6, <1>7, <1>17
<1>14. M("delete-tenant-crypto", "purge") \/ "seeder" \in u.unwired \/ (u.entry = 0 /\ u.appKeys = {})
  <2>1. CASE e.s = "delete-tenant-crypto"
    BY <1>5, <2>1 DEF Change, KeysSet
  <2>2. CASE e.s # "delete-tenant-crypto"
    BY <1>6, <1>7, <1>18, <2>2
  <2> QED
    BY <2>1, <2>2
<1>15. M("withdraw-bucket-keys", "purge") \/ "objectStore" \in u.unwired \/ u.bucketKeys = {}
  <2>1. CASE e.s = "withdraw-bucket-keys"
    BY <1>5, <2>1 DEF Change, KeysSet
  <2>2. CASE e.s # "withdraw-bucket-keys"
    BY <1>6, <1>7, <1>19, <2>2
  <2> QED
    BY <2>1, <2>2
<1>16. M("verify-prune", "purge") \/ Undeployed(u)
  <2>1. CASE e.s = "verify-prune"
    <3>1. Idp \in p.targets[p.g]
      BY <1>1, <1>2, <1>4 DEF Planned
    <3>2. Idp \notin t.fan
      BY <1>4, <1>5, <2>1, <3>1 DEF Change, Passed
    <3> QED
      BY <1>8, <1>12, <2>1, <3>2 DEF Undeployed
  <2> QED
    BY <1>6, <1>7, <1>8, <2>1 DEF Undeployed
<1> QED
  BY <1>10, <1>11, <1>13, <1>14, <1>15, <1>16, <1>20

\* A create goes on.
LEMMA StepCreating ==
    ASSUME IInv, NEW r \in Runs, Stepped(r), Place(r)
    PROVE  Creating(r)'
<1> DEFINE e == Head(run[r].todo)
           p == Param(r)
           t == tenant[p.g]
           u == tenant'[p.g]
           L(s) == Left(r, s, "own")
           M(s) == Has(run'[r].todo, Ent(s, p.g, "own"))
           LR(s, h) == Has(run[r].todo, Ent(s, h, "replace"))
           MR(s, h) == Has(run'[r].todo, Ent(s, h, "replace"))
<1>1. /\ Whose(r, e) /\ p \in ParamType /\ Creating(r) /\ Holding(r) /\ Planned(r) /\ e = Ent(e.s, e.g, e.by)
      /\ Param(r)' = p /\ run'[r].undo = run[r].undo /\ e.g \in Guids /\ p.g \in Guids
  BY DEF Place, Behind, ParamType
<1>2. SUFFICES ASSUME p.kind = "create", ~run[r].undo
               PROVE  /\ u.row = "none" => M("record-provisional")
                      /\ M("seed-tenant-crypto") \/ M("write-registration") => u.row \in {"none", "provisioning"}
                      /\ u.unwired = {}
                      /\ M("write-registration") => u.reg.apps \subseteq p.apps
                      /\ M("seed-tenant-crypto") \/ u.entry # 0
                      /\ \A h \in Guids : p.targets[h] # {} =>
                             /\ MR("remove", h) \/ ~tenant'[h].reg.in
                             /\ MR("watch-prune", h) \/ Undeployed(tenant'[h])
                      /\ M("ensure-subdomain-free")
                         \/ \A h \in Guids \ {p.g} : p.targets[h] = {} => Undeployed(tenant'[h])
  BY <1>1 DEF Creating, Left
<1>3. /\ t.row = "none" => L("record-provisional")
      /\ L("seed-tenant-crypto") \/ L("write-registration") => t.row \in {"none", "provisioning"}
      /\ t.unwired = {}
      /\ L("write-registration") => t.reg.apps \subseteq p.apps
      /\ L("seed-tenant-crypto") \/ t.entry # 0
      /\ \A h \in Guids : p.targets[h] # {} =>
             /\ LR("remove", h) \/ ~tenant[h].reg.in
             /\ LR("watch-prune", h) \/ Undeployed(tenant[h])
      /\ L("ensure-subdomain-free")
         \/ \A h \in Guids \ {p.g} : p.targets[h] = {} => Undeployed(tenant[h])
  BY <1>1, <1>2 DEF Creating
<1>4. Forth(p, e)
  BY <1>1, <1>2 DEF Whose
<1>5. /\ \/ e.by = "own" /\ e.g = p.g
         \/ e.by = "replace" /\ p.targets[e.g] # {} /\ e.g # p.g /\ e.s \in ReplaceNames
      /\ e.s \notin {"append-app", "remove-app-pointer", "revert-app-append", "record-suspended", "record-active",
                     "record-offboard", "delete-tenant-crypto", "withdraw-bucket-keys"}
      /\ e.by = "own" => e.s \notin {"record", "remove", "watch-prune"}
  <2>1. p.targets[p.g] = {}
    BY <1>1, <1>2 DEF Planned
  <2>2. CASE e.by = "own" /\ e.g = p.g /\ e.s \in OwnNames("create")
    BY <2>2 DEF OwnNames
  <2>3. CASE e.by = "replace" /\ p.targets[e.g] # {} /\ e.s \in ReplaceNames
    BY <2>1, <2>3 DEF ReplaceNames
  <2> QED
    BY <1>2, <1>4, <2>2, <2>3 DEF Forth
<1>6. Change(p, e, tenant[e.g], tenant'[e.g]) /\ \A h \in Guids : h # e.g => Alike(tenant[h], tenant'[h])
  BY DEF Stepped
<1>7. \A s, h, by : Has(run[r].todo, Ent(s, h, by)) =>
                    Has(run'[r].todo, Ent(s, h, by)) \/ (e.s = s /\ e.g = h /\ e.by = by)
  BY DEF Place, Ent
<1>8. \A s : (L(s) => M(s) \/ (e.s = s /\ e.g = p.g /\ e.by = "own")) /\ (M(s) => L(s))
  BY <1>7 DEF Left, Place
<1>9. u.row = "none" => M("record-provisional")
  <2>1. SUFFICES ASSUME u.row = "none" PROVE M("record-provisional")
    OBVIOUS
  <2>2. t.row = "none"
    BY <1>1, <2>1, RowsStay
  <2>3. ASSUME e.s = "record-provisional", e.g = p.g PROVE FALSE
    BY <1>6, <2>1, <2>3 DEF Change, RowSet
  <2> QED
    BY <1>3, <1>8, <2>2, <2>3
<1>10. M("seed-tenant-crypto") \/ M("write-registration") => u.row \in {"none", "provisioning"}
  <2>1. SUFFICES ASSUME M("seed-tenant-crypto") \/ M("write-registration") PROVE u.row \in {"none", "provisioning"}
    OBVIOUS
  <2>2. (L("seed-tenant-crypto") \/ L("write-registration")) /\ t.row \in {"none", "provisioning"}
    BY <1>3, <1>8, <2>1
  <2>3. CASE e.g # p.g
    BY <1>1, <1>6, <2>2, <2>3 DEF Alike
  <2>4. CASE e.g = p.g
    <3>1. e.by = "own"
      BY <1>5, <2>4
    <3>2. e.s # "record-inventory"
      <4>1. ASSUME e.s = "record-inventory" PROVE FALSE
        <5>1. <<"seed-tenant-crypto", e.s>> \in Order /\ <<"write-registration", e.s>> \in Order
          BY <4>1 DEF Order
        <5>2. ~L("seed-tenant-crypto") /\ ~L("write-registration")
          BY <2>4, <3>1, <5>1, Past DEF Left
        <5> QED
          BY <2>2, <5>2
      <4> QED
        BY <4>1
    <3> QED
      BY <1>5, <1>6, <2>2, <2>4, <3>1, <3>2 DEF Change, RowSet
  <2> QED
    BY <2>3, <2>4
<1>11. M("write-registration") => u.reg.apps \subseteq p.apps
  <2>1. SUFFICES ASSUME M("write-registration") PROVE u.reg.apps \subseteq p.apps
    OBVIOUS
  <2>2. t.reg.apps \subseteq p.apps
    BY <1>3, <1>8, <2>1
  <2>3. CASE e.g # p.g
    BY <1>1, <1>6, <2>2, <2>3 DEF Alike
  <2>4. CASE e.g = p.g
    <3>1. u.reg.apps = t.reg.apps \/ u.reg.apps = p.apps
      BY <1>5, <1>6, <2>4 DEF Change, RegSet
    <3> QED
      BY <2>2, <3>1
  <2> QED
    BY <2>3, <2>4
<1>12. M("seed-tenant-crypto") \/ u.entry # 0
  <2>1. CASE e.g = p.g /\ e.s = "seed-tenant-crypto"
    <3>1. u.entry # 0 \/ run'[r].todo = run[r].todo
      BY <2>1 DEF Stepped, Seeded
    <3>2. L("seed-tenant-crypto")
      BY <1>1, <1>5, <2>1 DEF Place, Left
    <3> QED
      BY <3>1, <3>2 DEF Left
  <2>2. CASE e.g = p.g /\ e.s # "seed-tenant-crypto"
    <3>1. u.entry = t.entry
      BY <1>5, <1>6, <2>2 DEF Change, KeysSet
    <3> QED
      BY <1>3, <1>8, <2>2, <3>1
  <2>3. CASE e.g # p.g
    <3>1. u.entry = t.entry
      BY <1>1, <1>6, <2>3 DEF Alike
    <3> QED
      BY <1>3, <1>8, <2>3, <3>1
  <2> QED
    BY <2>1, <2>2, <2>3
<1>13. ASSUME NEW h \in Guids, p.targets[h] # {}
       PROVE  /\ MR("remove", h) \/ ~tenant'[h].reg.in
              /\ MR("watch-prune", h) \/ Undeployed(tenant'[h])
  <2>1. CASE h # e.g
    <3>1. (LR("remove", h) => MR("remove", h)) /\ (LR("watch-prune", h) => MR("watch-prune", h))
      BY <1>7, <2>1
    <3>2. tenant'[h].reg = tenant[h].reg /\ tenant'[h].fan = tenant[h].fan
      BY <1>6, <2>1 DEF Alike
    <3> QED
      BY <1>3, <1>13, <3>1, <3>2 DEF Undeployed
  <2>2. CASE h = e.g
    <3>1. e.by = "replace" /\ e.s \in ReplaceNames
      <4>1. p.targets[p.g] = {}
        BY <1>1, <1>2 DEF Planned
      <4> QED
        BY <1>5, <1>13, <2>2, <4>1
    <3>2. Change(p, e, tenant[h], tenant'[h])
      BY <1>6, <2>2
    <3>3. (tenant'[h].reg.in => tenant[h].reg.in) /\ tenant'[h].fan = tenant[h].fan
      <4>1. e.s # "write-registration"
        BY <3>1 DEF ReplaceNames
      <4> QED
        BY <3>2, <4>1, RegFalls
    <3>4. (LR("remove", h) \/ ~tenant[h].reg.in) /\ (LR("watch-prune", h) \/ Undeployed(tenant[h]))
      BY <1>3, <1>13
    <3>5. MR("remove", h) \/ ~tenant'[h].reg.in
      <4>1. CASE e.s = "remove"
        BY <3>2, <4>1 DEF Change, RegSet, NoReg
      <4>2. CASE e.s # "remove"
        BY <1>7, <3>3, <3>4, <4>2
      <4> QED
        BY <4>1, <4>2
    <3>6. MR("watch-prune", h) \/ Undeployed(tenant'[h])
      <4>1. CASE e.s = "watch-prune"
        <5>1. <<"remove", e.s>> \in Order
          BY <4>1 DEF Order
        <5>2. ~LR("remove", h)
          BY <2>2, <3>1, <5>1, Past
        <5>3. Idp \in p.targets[h]
          BY <1>1, <1>13 DEF Planned
        <5>4. Idp \notin tenant[h].fan
          BY <2>2, <3>1, <3>2, <4>1, <5>3 DEF Change, Passed
        <5> QED
          BY <3>3, <3>4, <5>2, <5>4 DEF Undeployed
      <4>2. CASE e.s # "watch-prune"
        BY <1>7, <3>3, <3>4, <4>2 DEF Undeployed
      <4> QED
        BY <4>1, <4>2
    <3> QED
      BY <3>5, <3>6
  <2> QED
    BY <2>1, <2>2
<1>14. M("ensure-subdomain-free")
       \/ \A h \in Guids \ {p.g} : p.targets[h] = {} => Undeployed(tenant'[h])
  <2>1. SUFFICES ASSUME ~M("ensure-subdomain-free"), NEW h \in Guids, h # p.g, p.targets[h] = {}
                 PROVE  Undeployed(tenant'[h])
    OBVIOUS
  <2>2. Undeployed(tenant[h])
    <3>1. CASE ~L("ensure-subdomain-free")
      BY <1>3, <2>1, <3>1
    <3>2. CASE L("ensure-subdomain-free")
      <4>1. e.s = "ensure-subdomain-free" /\ e.g = p.g
        BY <1>8, <2>1, <3>2
      <4>2. ~Resolves(tenant[h])
        BY <1>6, <2>1, <4>1 DEF Change, Passed
      <4>3. ~tenant[h].reg.in /\ tenant[h].row \in {"none"} \cup Settled
        BY <4>2 DEF Resolves
      <4>4. Idp \notin tenant[h].fan
        <5>1. CASE tenant[h].row = "none"
          <6>1. tenant[h] = Nothing
            BY <5>1 DEF IInv, Tenanted, Sound
          <6> QED
            BY <6>1 DEF Nothing
        <5>2. CASE tenant[h].row \in Settled
          BY <5>2 DEF IInv, SettledIsUndeployed
        <5> QED
          BY <4>3, <5>1, <5>2
      <4> QED
        BY <4>3, <4>4 DEF Undeployed
    <3> QED
      BY <3>1, <3>2
  <2>3. h # e.g
    BY <1>5, <2>1
  <2> QED
    BY <1>6, <2>2, <2>3 DEF Alike, Undeployed
<1>15. u.unwired = {}
  <2>1. CASE e.g = p.g
    <3>1. KeysSet(e, t, u)
      BY <1>6, <2>1 DEF Change
    <3>2. e.s \notin {"delete-tenant-crypto", "withdraw-bucket-keys"}
      BY <1>5
    <3>3. u.unwired = t.unwired
      BY <3>1, <3>2 DEF KeysSet
    <3> QED
      BY <1>3, <3>3
  <2>2. CASE e.g # p.g
    BY <1>1, <1>3, <1>6, <2>2 DEF Alike
  <2> QED
    BY <2>1, <2>2
<1> QED
  BY <1>9, <1>10, <1>11, <1>12, <1>13, <1>14, <1>15

-----------------------------------------------------------------------------
LEMMA StepRuns ==
    ASSUME IInv, NEW r \in Runs, Stepped(r), Place(r)
    PROVE  RunsSound'
<1>1. Moved(r, ArmedBy(r, Head(run[r].todo)))
  BY DEF Stepped
<1>2. SUFFICES ASSUME NEW q \in Runs, Active(q)' PROVE (Lists(q) /\ Planned(q) /\ Behind(q))'
  BY DEF RunsSound
<1>3. CASE q = r
  <2>1. Active(r) /\ Param(r)' = Param(r) /\ Param(r) \in ParamType
    BY DEF Place
  <2>2. Waiting(r)'
    BY <1>1 DEF Moved, Waiting
  <2>3. Planned(r)' /\ Armed(r)'
    BY <2>1, StepPlanned, StepArmed
  <2>4. Lists(r)' /\ Creating(r)' /\ Undoing(r)' /\ Purging(r)' /\ Offboarding(r)' /\ Adding(r)'
    BY StepLists, StepCreating, StepUndoing, StepPurging, StepOffboarding, StepAdding
  <2> QED
    BY <1>3, <2>2, <2>3, <2>4 DEF Behind
<1>4. CASE q # r
  <2>1. run'[q] = run[q] /\ ~Holding(q)
    BY <1>1, <1>4 DEF Moved, Place
  <2>2. Active(q) /\ Param(q)' = Param(q) /\ ~Holding(q)'
    BY <1>2, <2>1 DEF Active, Param, Holding
  <2>3. Param(q) \in ParamType
    BY <2>2, ActiveType DEF IInv, RunType, Param
  <2>4. Planned(q)' /\ Armed(q)' /\ Waiting(q)'
    BY <1>4, <2>1, <2>2, <2>3, StepPlanned, StepArmed, StepWaiting
  <2>5. Lists(q)
    BY <2>2 DEF IInv, RunsSound
  <2>6. Lists(q)'
    BY <2>1, <2>2, <2>5 DEF Lists
  <2>7. Creating(q)' /\ Undoing(q)' /\ Purging(q)' /\ Offboarding(q)' /\ Adding(q)'
    BY <2>2 DEF Creating, Undoing, Purging, Offboarding, Adding
  <2> QED
    BY <2>4, <2>6, <2>7 DEF Behind
<1> QED
  BY <1>3, <1>4

\* Every step keeps the invariant.
LEMMA StepKeeps ==
    ASSUME IInv, NEW r \in Runs, Stepped(r)
    PROVE  IInv'
<1>1. Place(r)
  BY StepPlace
<1>2. Moved(r, ArmedBy(r, Head(run[r].todo)))
  BY DEF Stepped
<1>3. Types'
  BY <1>2 DEF Stepped, Moved, Types
<1>4. Tenanted'
  BY <1>1, StepSound DEF Tenanted
<1>5. OneHolder'
  <2>1. \A q \in Runs : Holding(q)' => q = r
    BY <1>1, <1>2 DEF Moved, Place, Holding
  <2> QED
    BY <2>1 DEF OneHolder
<1>6. OwnGuid'
  <2>1. \A q \in Runs : Active(q)' => Active(q) /\ Param(q)' = Param(q)
    BY <1>1, <1>2 DEF Moved, Place, Active, Param
  <2>2. OwnGuid
    BY DEF IInv
  <2> QED
    BY <2>1, <2>2 DEF OwnGuid
<1>7. SettledIsUndeployed' /\ PurgedLeavesNoIdentity'
  BY <1>1, StepSettled, StepPurged DEF SettledIsUndeployed, PurgedLeavesNoIdentity, Bare
<1>8. DeployedTenantHasItsKey'
  <2>1. SUFFICES ASSUME NEW h \in Guids, tenant'[h].row \in Live, tenant'[h].reg.in
                 PROVE  tenant'[h].entry # 0 /\ tenant'[h].entry \in tenant'[h].bucketKeys
    BY DEF DeployedTenantHasItsKey
  <2>2. tenant'[h].entry # 0
    BY <1>1, <2>1, StepHasKey
  <2>3. tenant'[h].unwired = {}
    BY <1>4, <2>1 DEF Tenanted, Sound
  <2> QED
    BY <1>4, <2>2, <2>3 DEF Tenanted, Sound
<1> QED
  BY <1>1, <1>3, <1>4, <1>5, <1>6, <1>7, <1>8, StepRuns, StepOneTenant DEF IInv

-----------------------------------------------------------------------------
\* The controller follows the registration.

\* The cluster's own changes of a tenant, t before one and u after it: of a tenant that is not registered
\* no Application is made, and of a member without an Application or an AppProject no namespace.
Follows(t, u) ==
    /\ u.row = t.row /\ u.reg = t.reg /\ u.appRow = t.appRow /\ u.project = t.project /\ u.unwired = t.unwired
    /\ u.entry = t.entry /\ u.bucketKeys = t.bucketKeys /\ u.appKeys = t.appKeys
    /\ ~t.reg.in => u.fan \subseteq t.fan
    /\ t.terminating \subseteq t.ns => u.terminating \subseteq u.ns
    /\ (Idp \notin t.ns \ t.terminating /\ Idp \notin t.fan \cap t.project) => Idp \notin u.ns \ u.terminating
    /\ t # Nothing

\* Such a change keeps the invariant.
LEMMA FollowKeeps ==
    ASSUME IInv, NEW g \in Guids, NEW u \in TenantType, Follows(tenant[g], u), tenant' = [tenant EXCEPT ![g] = u],
           UNCHANGED <<run, used, zone, mints>>
    PROVE  IInv'
<1>1. Types /\ Tenanted /\ UNCHANGED <<run, used, zone, mints>> /\ tenant \in [Guids -> TenantType]
  BY DEF IInv, Types
<1>5. tenant'[g] = u /\ \A h \in Guids : h # g => tenant'[h] = tenant[h]
  BY <1>1
<1>6. /\ \A h \in Guids : tenant'[h].row = tenant[h].row /\ tenant'[h].reg = tenant[h].reg
                          /\ tenant'[h].entry = tenant[h].entry /\ tenant'[h].appRow = tenant[h].appRow
                          /\ tenant'[h].bucketKeys = tenant[h].bucketKeys /\ tenant'[h].appKeys = tenant[h].appKeys
                          /\ tenant'[h].unwired = tenant[h].unwired /\ tenant'[h].project = tenant[h].project
      /\ \A h \in Guids : ~tenant[h].reg.in => tenant'[h].fan \subseteq tenant[h].fan
      /\ \A h \in Guids : tenant[h] = Nothing => tenant'[h] = Nothing
  BY <1>5 DEF Follows
<1>17. \A h \in Guids : (Idp \notin tenant[h].ns \ tenant[h].terminating /\ Idp \notin tenant[h].fan \cap tenant[h].project)
                           => Idp \notin tenant'[h].ns \ tenant'[h].terminating
  BY <1>5 DEF Follows
<1>7. Types'
  BY <1>1 DEF Types
<1>8. Tenanted'
  <2>1. SUFFICES ASSUME NEW h \in Guids PROVE Sound(tenant[h])'
    BY DEF Tenanted
  <2>2. Sound(tenant[h]) /\ mints' = mints
    BY <1>1 DEF Tenanted
  <2>3. tenant'[h].terminating \subseteq tenant'[h].ns
    BY <1>5, <2>2 DEF Sound, Follows
  <2>4. tenant'[h].row = "none" => tenant'[h] = Nothing
    BY <1>6, <2>2 DEF Sound
  <2> QED
    BY <1>6, <2>2, <2>3, <2>4 DEF Sound
<1>9. \A h \in Guids : Undeployed(tenant[h]) => Undeployed(tenant'[h])
  BY <1>6 DEF Undeployed
<1>10. \A q \in Runs : run'[q] = run[q] /\ Active(q)' = Active(q) /\ Holding(q)' = Holding(q) /\ Param(q)' = Param(q)
  BY <1>1 DEF Active, Holding, Param
<1>11. OneHolder' /\ OwnGuid'
  BY <1>1, <1>10 DEF IInv, OneHolder, OwnGuid
<1>12. RunsSound'
  <2>1. SUFFICES ASSUME NEW q \in Runs, Active(q) PROVE (Lists(q) /\ Planned(q) /\ Behind(q))'
    BY <1>10 DEF RunsSound
  <2>2. Lists(q) /\ Planned(q) /\ Behind(q) /\ Param(q) \in ParamType
    BY <1>1, <2>1, ActiveType DEF IInv, RunsSound, RunType, Param
  <2>3. Param(q).g \in Guids
    BY <2>2 DEF ParamType
  <2>4. Lists(q)'
    BY <1>10, <2>2 DEF Lists
  <2>5. Planned(q)'
    BY <1>6, <1>10, <2>2, <2>3 DEF Planned
  <2>6. \A s, by : Left(q, s, by)' = Left(q, s, by)
    BY <1>10 DEF Left
  <2>7. Waiting(q)'
    BY <1>6, <1>10, <2>2, <2>3, <2>6 DEF Behind, Waiting
  <2>8. Creating(q)'
    BY <1>6, <1>9, <1>10, <2>2, <2>3, <2>6 DEF Behind, Creating
  <2>9. Undoing(q)'
    BY <1>6, <1>9, <1>10, <2>2, <2>3, <2>6 DEF Behind, Undoing, NotLive
  <2>10. Armed(q)' /\ Adding(q)'
    BY <1>6, <1>10, <2>2, <2>3, <2>6 DEF Behind, Armed, Adding
  <2>11. Purging(q)'
    BY <1>6, <1>9, <1>10, <1>17, <2>2, <2>3, <2>6 DEF Behind, Purging, NotLive
  <2>12. Offboarding(q)'
    BY <1>6, <1>9, <1>10, <2>2, <2>3, <2>6 DEF Behind, Offboarding
  <2> QED
    BY <2>4, <2>5, <2>7, <2>8, <2>9, <2>10, <2>11, <2>12 DEF Behind
<1>13. OneTenantPerSubdomain'
  <2>1. OneTenantPerSubdomain
    BY DEF IInv
  <2>2. SUFFICES ASSUME NEW h \in Guids, NEW k \in Guids, h # k, tenant'[h].reg.in
                 PROVE  ~tenant'[k].reg.in /\ Idp \notin tenant'[k].fan
    BY DEF OneTenantPerSubdomain
  <2>3. Undeployed(tenant[k])
    BY <1>6, <2>1, <2>2 DEF OneTenantPerSubdomain, Undeployed
  <2> QED
    BY <1>9, <2>3 DEF Undeployed
<1>14. SettledIsUndeployed'
  BY <1>6, <1>9 DEF IInv, SettledIsUndeployed, Undeployed
<1>15. PurgedLeavesNoIdentity'
  BY <1>6, <1>17 DEF IInv, PurgedLeavesNoIdentity, SettledIsUndeployed, Settled
<1>16. DeployedTenantHasItsKey'
  BY <1>6 DEF IInv, DeployedTenantHasItsKey
<1> QED
  BY <1>7, <1>8, <1>11, <1>12, <1>13, <1>14, <1>15, <1>16 DEF IInv

\* The controller and the namespace lifecycle make only such changes.
LEMMA ArgoKeeps ==
    ASSUME IInv, NEW g \in Guids, Argo(g)
    PROVE  IInv'
<1> DEFINE t == tenant[g]
<1>1. t \in TenantType /\ UNCHANGED <<run, used, zone, mints>> /\ Sound(t) /\ tenant \in [Guids -> TenantType]
  BY DEF Argo, IInv, Types, Tenanted
<1>2. t = Nothing => t.fan = {} /\ t.ns = {} /\ memberNames(t) = {}
  BY DEF Nothing, memberNames, NoReg
<1>3. PICK m \in Members :
          \/ m \in memberNames(t) \ t.fan /\ tenant' = [tenant EXCEPT ![g].fan = @ \cup {m}]
          \/ m \in t.fan \ memberNames(t) /\ tenant' = [tenant EXCEPT ![g].fan = @ \ {m}]
          \/ m \in (t.fan \cap t.project) \ t.ns /\ tenant' = [tenant EXCEPT ![g].ns = @ \cup {m}]
  BY DEF Argo
<1>4. t # Nothing
  BY <1>2, <1>3
<1>5. CASE m \in memberNames(t) \ t.fan /\ tenant' = [tenant EXCEPT ![g].fan = @ \cup {m}]
  <2> DEFINE u == [t EXCEPT !.fan = @ \cup {m}]
  <2>1. tenant' = [tenant EXCEPT ![g] = u]
    BY <1>5
  <2>2. u \in TenantType /\ u.fan = t.fan \cup {m} /\ u.row = t.row /\ u.reg = t.reg /\ u.appRow = t.appRow
        /\ u.project = t.project /\ u.unwired = t.unwired /\ u.entry = t.entry /\ u.bucketKeys = t.bucketKeys
        /\ u.appKeys = t.appKeys /\ u.ns = t.ns /\ u.terminating = t.terminating
    BY <1>1 DEF TenantType
  <2>3. t.reg.in
    BY <1>5 DEF memberNames
  <2> HIDE DEF u
  <2>4. Follows(t, u)
    BY <1>4, <2>2, <2>3 DEF Follows
  <2> QED
    BY <1>1, <2>1, <2>2, <2>4, FollowKeeps
<1>6. CASE m \in t.fan \ memberNames(t) /\ tenant' = [tenant EXCEPT ![g].fan = @ \ {m}]
  <2> DEFINE u == [t EXCEPT !.fan = @ \ {m}]
  <2>1. tenant' = [tenant EXCEPT ![g] = u]
    BY <1>6
  <2>2. u \in TenantType /\ u.fan = t.fan \ {m} /\ u.row = t.row /\ u.reg = t.reg /\ u.appRow = t.appRow
        /\ u.project = t.project /\ u.unwired = t.unwired /\ u.entry = t.entry /\ u.bucketKeys = t.bucketKeys
        /\ u.appKeys = t.appKeys /\ u.ns = t.ns /\ u.terminating = t.terminating
    BY <1>1 DEF TenantType
  <2> HIDE DEF u
  <2>4. Follows(t, u)
    BY <1>4, <2>2 DEF Follows
  <2> QED
    BY <1>1, <2>1, <2>2, <2>4, FollowKeeps
<1>7. CASE m \in (t.fan \cap t.project) \ t.ns /\ tenant' = [tenant EXCEPT ![g].ns = @ \cup {m}]
  <2> DEFINE u == [t EXCEPT !.ns = @ \cup {m}]
  <2>1. tenant' = [tenant EXCEPT ![g] = u]
    BY <1>7
  <2>2. u \in TenantType /\ u.fan = t.fan /\ u.row = t.row /\ u.reg = t.reg /\ u.appRow = t.appRow
        /\ u.project = t.project /\ u.unwired = t.unwired /\ u.entry = t.entry /\ u.bucketKeys = t.bucketKeys
        /\ u.appKeys = t.appKeys /\ u.ns = t.ns \cup {m} /\ u.terminating = t.terminating
    BY <1>1 DEF TenantType
  <2> HIDE DEF u
  <2>3. (Idp \notin t.ns \ t.terminating /\ Idp \notin t.fan \cap t.project) => Idp \notin u.ns \ u.terminating
    BY <1>7, <2>2
  <2>4. Follows(t, u)
    BY <1>4, <2>2, <2>3 DEF Follows
  <2> QED
    BY <1>1, <2>1, <2>2, <2>4, FollowKeeps
<1> QED
  BY <1>3, <1>5, <1>6, <1>7

\* A namespace that ends.
LEMMA NamespaceEndsKeeps ==
    ASSUME IInv, NEW g \in Guids, NamespaceEnds(g)
    PROVE  IInv'
<1> DEFINE t == tenant[g]
<1>1. t \in TenantType /\ UNCHANGED <<run, used, zone, mints>> /\ Sound(t) /\ tenant \in [Guids -> TenantType]
  BY DEF NamespaceEnds, IInv, Types, Tenanted
<1>2. PICK m \in t.terminating :
          tenant' = [tenant EXCEPT ![g].ns = @ \ {m}, ![g].terminating = @ \ {m}]
  BY DEF NamespaceEnds
<1> DEFINE u == [t EXCEPT !.ns = @ \ {m}, !.terminating = @ \ {m}]
<1>3. tenant' = [tenant EXCEPT ![g] = u]
  BY <1>1, <1>2
<1>4. u \in TenantType /\ u.fan = t.fan /\ u.row = t.row /\ u.reg = t.reg /\ u.appRow = t.appRow
      /\ u.project = t.project /\ u.unwired = t.unwired /\ u.entry = t.entry /\ u.bucketKeys = t.bucketKeys
      /\ u.appKeys = t.appKeys /\ u.ns = t.ns \ {m} /\ u.terminating = t.terminating \ {m}
  BY <1>1 DEF TenantType
<1>5. t # Nothing
  <2>1. t = Nothing => t.terminating = {}
    BY DEF Nothing
  <2> QED
    BY <1>2, <2>1
<1> HIDE DEF u
<1>6. Follows(t, u)
  BY <1>4, <1>5 DEF Follows
<1> QED
  BY <1>1, <1>3, <1>4, <1>6, FollowKeeps

-----------------------------------------------------------------------------
\* The plans. What a planner finds of the tenants, and what the list it freezes has in it.

Found(p) ==
    /\ p.kind # "create" => tenant[p.g].row # "none"
    /\ p.kind \in {"suspend", "resume", "remove-app"} => tenant[p.g].row # "provisioning"
    /\ \A h \in Guids : p.targets[h] # {} => Idp \in p.targets[h] /\ tenant[h].row # "none"
    /\ p.kind = "purge" => p.targets[p.g] # {}
    /\ p.kind = "create" => p.targets[p.g] = {} /\ tenant[p.g] = Nothing
    /\ p.kind = "add-app" => \E a \in Apps : p.apps = {a}

Whole(p, T) ==
    /\ p.kind = "create" =>
           /\ Has(T, Ent("record-provisional", p.g, "own")) /\ Has(T, Ent("seed-tenant-crypto", p.g, "own"))
           /\ Has(T, Ent("ensure-subdomain-free", p.g, "own"))
           /\ \A h \in Guids : p.targets[h] # {} =>
                  Has(T, Ent("remove", h, "replace")) /\ Has(T, Ent("watch-prune", h, "replace"))
    /\ p.kind = "purge" =>
           /\ \A s \in {"remove", "delete-projects", "delete-namespaces", "delete-tenant-crypto",
                         "withdraw-bucket-keys", "verify-prune"} : Has(T, Ent(s, p.g, "purge"))
           /\ Has(T, Ent("attest-purge", p.g, "own"))
    /\ p.kind = "offboard" => Has(T, Ent("remove", p.g, "own")) /\ Has(T, Ent("watch-removal", p.g, "own"))
    /\ p.kind = "add-app" => Has(T, Ent("extend-argo-sync", p.g, "own"))

\* The runs other than r are as they were, and so are the tenants.
Elsewhere(r) ==
    /\ tenant' = tenant /\ zone' = zone /\ mints' = mints
    /\ run' \in [Runs -> RunType \cup {Idle}] /\ used' \in [plans : Nat, fails : Nat]
    /\ \A q \in Runs : q # r => run'[q] = run[q]

\* A change of the runs alone keeps the invariant where it keeps what the invariant says of that run.
LEMMA RunKeeps ==
    ASSUME IInv, NEW r \in Runs, Elsewhere(r),
           Active(r)' => (Lists(r) /\ Planned(r) /\ Behind(r))',
           Holding(r)' => Holding(r) \/ \A q \in Runs : ~Holding(q),
           Active(r)' => \/ Active(r) /\ Param(r)' = Param(r)
                         \/ Param(r)'.kind = "create" => \A q \in Runs : Active(q) => Param(q).g # Param(r)'.g
    PROVE  IInv'
<1>1. Types /\ Tenanted /\ OneHolder /\ OwnGuid /\ RunsSound
  BY DEF IInv
<1>2. tenant' = tenant /\ mints' = mints /\ \A q \in Runs : q # r => run'[q] = run[q]
  BY DEF Elsewhere
<1>3. Types'
  BY <1>1 DEF Types, Elsewhere
<1>4. Tenanted'
  BY <1>1, <1>2 DEF Tenanted, Sound
<1>5. \A q \in Runs : q # r => Active(q)' = Active(q) /\ Holding(q)' = Holding(q) /\ Param(q)' = Param(q)
  BY <1>2 DEF Active, Holding, Param
<1>6. OneHolder'
  BY <1>1, <1>5 DEF OneHolder
<1>7. OwnGuid'
  <2>1. SUFFICES ASSUME NEW q \in Runs, NEW k \in Runs, Active(q)', Active(k)', Param(q)'.kind = "create",
                        Param(k)'.kind = "create", Param(q)'.g = Param(k)'.g, q # k
                 PROVE  FALSE
    BY DEF OwnGuid
  <2>2. CASE Active(r) /\ Param(r)' = Param(r)
    <3>1. Active(q) /\ Active(k) /\ Param(q)' = Param(q) /\ Param(k)' = Param(k)
      BY <1>5, <2>1, <2>2
    <3> QED
      BY <1>1, <2>1, <3>1 DEF OwnGuid
  <2>3. CASE ~(Active(r) /\ Param(r)' = Param(r))
    <3>1. CASE q = r
      BY <1>5, <2>1, <2>3, <3>1
    <3>2. CASE k = r
      BY <1>5, <2>1, <2>3, <3>2
    <3>3. CASE q # r /\ k # r
      BY <1>1, <1>5, <2>1, <3>3 DEF OwnGuid
    <3> QED
      BY <3>1, <3>2, <3>3
  <2> QED
    BY <2>2, <2>3
<1>8. RunsSound'
  <2>1. SUFFICES ASSUME NEW q \in Runs, Active(q)', q # r PROVE (Lists(q) /\ Planned(q) /\ Behind(q))'
    BY DEF RunsSound
  <2>2. Lists(q) /\ Planned(q) /\ Behind(q)
    BY <1>1, <1>5, <2>1 DEF RunsSound
  <2>3. run'[q] = run[q] /\ Param(q)' = Param(q) /\ Holding(q)' = Holding(q)
    BY <1>2, <1>5, <2>1
  <2>4. \A s, by : Left(q, s, by)' = Left(q, s, by)
    BY <2>3 DEF Left
  <2>5. Lists(q)' /\ Planned(q)'
    BY <1>2, <2>2, <2>3 DEF Lists, Planned
  <2>6. Waiting(q)' /\ Armed(q)' /\ Adding(q)'
    BY <1>2, <2>2, <2>3, <2>4 DEF Behind, Waiting, Armed, Adding
  <2>7. Creating(q)' /\ Undoing(q)'
    BY <1>2, <2>2, <2>3, <2>4 DEF Behind, Creating, Undoing
  <2>8. Purging(q)' /\ Offboarding(q)'
    BY <1>2, <2>2, <2>3, <2>4 DEF Behind, Purging, Offboarding
  <2> QED
    BY <2>5, <2>6, <2>7, <2>8 DEF Behind
<1>9. OneTenantPerSubdomain' /\ SettledIsUndeployed' /\ PurgedLeavesNoIdentity' /\ DeployedTenantHasItsKey'
  BY <1>2 DEF IInv, OneTenantPerSubdomain, SettledIsUndeployed, PurgedLeavesNoIdentity, DeployedTenantHasItsKey
<1> QED
  BY <1>3, <1>4, <1>6, <1>7, <1>8, <1>9 DEF IInv

\* A plan that fits what its planner found keeps the invariant.
LEMMA PlansKeep ==
    ASSUME IInv, NEW r \in Runs, NEW p \in ParamType, NEW T, Good(p, T), Found(p), Whole(p, T),
           Plans(r, p, tenantLocks, T), UNCHANGED <<tenant, zone, mints>>,
           p.kind = "create" => Frees(p.g)
    PROVE  IInv'
<1> DEFINE F == Frozen(p, tenantLocks, T)
<1>1. Types /\ run \in [Runs -> RunType \cup {Idle}] /\ used \in [plans : Nat, fails : Nat]
  BY DEF IInv, Types
<1>2. /\ F \in RunType /\ F.st = "planned" /\ F.p = p /\ F.todo = T /\ F.armed = <<>> /\ F.undo = FALSE
  <2>1. T \in Seq(StepType) /\ <<>> \in Seq(StepType)
    BY DEF Good
  <2> QED
    BY <2>1 DEF Frozen, RunType
<1>3. run' = [run EXCEPT ![r] = F] /\ used' = [used EXCEPT !.plans = @ + 1]
  BY DEF Plans
<1> HIDE DEF F
<1>4. run'[r] = F /\ Param(r)' = p /\ run'[r].st = "planned" /\ ~Holding(r)' /\ Active(r)'
  BY <1>1, <1>2, <1>3 DEF Param, Holding, Active
<1>5. Elsewhere(r)
  <2>1. used' \in [plans : Nat, fails : Nat]
    BY <1>1, <1>3
  <2>2. run' \in [Runs -> RunType \cup {Idle}] /\ \A q \in Runs : q # r => run'[q] = run[q]
    BY <1>1, <1>2, <1>3
  <2> QED
    BY <2>1, <2>2 DEF Elsewhere
<1>6. Lists(r)'
  BY <1>2, <1>4 DEF Lists, Good
<1>7. tenant' = tenant
  OBVIOUS
<1>8. Planned(r)'
  BY <1>4, <1>7 DEF Planned, Found
<1>9. \A s, by : Left(r, s, by)' = Has(T, Ent(s, p.g, by))
  BY <1>2, <1>4 DEF Left
<1>10. Waiting(r)'
  BY <1>2, <1>4, <1>7, <1>9 DEF Waiting, Found, Whole
<1>11. Armed(r)'
  BY <1>2, <1>4 DEF Armed
<1>12. Creating(r)' /\ Undoing(r)' /\ Purging(r)' /\ Offboarding(r)' /\ Adding(r)'
  BY <1>4 DEF Creating, Undoing, Purging, Offboarding, Adding
<1>13. p.kind = "create" => \A q \in Runs : Active(q) => Param(q).g # p.g
  BY DEF Frees, Active, Param
<1> QED
  BY <1>4, <1>5, <1>6, <1>8, <1>10, <1>11, <1>12, <1>13, RunKeeps DEF Behind

\* What a planner asks for, as a plan's parameters.
LEMMA AskedIs ==
    ASSUME NEW kind \in RunKinds, NEW g \in Guids, NEW apps \in SUBSET Apps, NEW targets \in [Guids -> SUBSET Members]
    PROVE  LET p == Asked(kind, g, apps, targets) IN
           p \in ParamType /\ p.kind = kind /\ p.g = g /\ p.apps = apps /\ p.targets = targets
<1>1. Resolves(tenant[g]) \in BOOLEAN
  BY DEF Resolves
<1> QED
  BY <1>1 DEF Asked, ParamType

\* The plans that tear nothing down by a frozen target.
LEMMA PlainKeeps ==
    ASSUME IInv, NEW r \in Runs, NEW g \in Guids, NEW apps \in SUBSET Apps, NEW kind \in RunKinds \ {"create", "purge"},
           NEW T, Plans(r, Asked(kind, g, apps, NoTargets), tenantLocks, T), UNCHANGED <<tenant, zone, mints>>,
           Good(Asked(kind, g, apps, NoTargets), T), Whole(Asked(kind, g, apps, NoTargets), T),
           tenant[g].row # "none",
           kind \in {"suspend", "resume", "remove-app"} => tenant[g].row # "provisioning",
           kind = "add-app" => \E a \in Apps : apps = {a}
    PROVE  IInv'
<1> DEFINE p == Asked(kind, g, apps, NoTargets)
<1>1. NoTargets \in [Guids -> SUBSET Members] /\ \A h \in Guids : NoTargets[h] = {}
  BY DEF NoTargets
<1>2. p \in ParamType /\ p.kind = kind /\ p.g = g /\ p.apps = apps /\ p.targets = NoTargets
  BY <1>1, AskedIs
<1> HIDE DEF p
<1>3. Found(p)
  BY <1>1, <1>2 DEF Found
<1>4. p.kind # "create"
  BY <1>2
<1>5. Plans(r, p, tenantLocks, T) /\ Good(p, T) /\ Whole(p, T)
  BY DEF p
<1> QED
  BY <1>2, <1>3, <1>4, <1>5, PlansKeep

\* The planner of add-app.
LEMMA PlanAddAppKeeps ==
    ASSUME IInv, NEW r \in Runs, PlanAddApp(r)
    PROVE  IInv'
<1>1. PICK g \in Guids, a \in Apps :
          tenant[g].row # "none" /\ Plans(r, Asked("add-app", g, {a}, NoTargets), tenantLocks, addAppSteps(g))
  BY DEF PlanAddApp
<1> DEFINE p == Asked("add-app", g, {a}, NoTargets)
<1>2. "add-app" \in RunKinds /\ NoTargets \in [Guids -> SUBSET Members]
  BY DEF RunKinds, NoTargets
<1>3. p \in ParamType /\ p.kind = "add-app" /\ p.g = g
  BY <1>2, AskedIs
<1> HIDE DEF p
<1>4. Good(p, addAppSteps(g)) /\ Has(addAppSteps(g), Ent("extend-argo-sync", g, "own"))
  BY <1>3, AddAppList
<1>5. Whole(p, addAppSteps(g))
  BY <1>3, <1>4 DEF Whole
<1>6. UNCHANGED <<tenant, zone, mints>>
  BY DEF PlanAddApp
<1> QED
  BY <1>1, <1>2, <1>4, <1>5, <1>6, PlainKeeps DEF p

\* The plans of offboard, suspend and resume.
LEMMA PlanLifecycleKeeps ==
    ASSUME IInv, NEW r \in Runs, PlanLifecycle(r)
    PROVE  IInv'
<1>1. PICK g \in Guids :
          /\ tenant[g].row # "none"
          /\ \/ Plans(r, Asked("offboard", g, {}, NoTargets), tenantLocks, offboardSteps(g))
             \/ /\ tenant[g].row # "provisioning"
                /\ Plans(r, Asked("suspend", g, {}, NoTargets), tenantLocks, suspendSteps(g))
             \/ /\ tenant[g].row # "provisioning"
                /\ Plans(r, Asked("resume", g, {}, NoTargets), tenantLocks, resumeSteps(g))
  BY DEF PlanLifecycle
<1> DEFINE p(kind) == Asked(kind, g, {}, NoTargets)
<1>2. {"offboard", "suspend", "resume"} \subseteq RunKinds /\ NoTargets \in [Guids -> SUBSET Members]
  BY DEF RunKinds, NoTargets
<1>3. \A kind \in {"offboard", "suspend", "resume"} : p(kind) \in ParamType /\ p(kind).kind = kind /\ p(kind).g = g
  BY <1>2, AskedIs
<1>4. UNCHANGED <<tenant, zone, mints>>
  BY DEF PlanLifecycle
<1> HIDE DEF p
<1>5. CASE Plans(r, p("offboard"), tenantLocks, offboardSteps(g))
  <2>1. /\ Good(p("offboard"), offboardSteps(g)) /\ Has(offboardSteps(g), Ent("remove", g, "own"))
        /\ Has(offboardSteps(g), Ent("watch-removal", g, "own"))
    BY <1>3, OffboardList
  <2>2. Whole(p("offboard"), offboardSteps(g))
    BY <1>3, <2>1 DEF Whole
  <2> QED
    BY <1>1, <1>2, <1>4, <1>5, <2>1, <2>2, PlainKeeps DEF p
<1>6. CASE tenant[g].row # "provisioning" /\ Plans(r, p("suspend"), tenantLocks, suspendSteps(g))
  <2>1. Good(p("suspend"), suspendSteps(g))
    BY <1>3, SuspendList
  <2>2. Whole(p("suspend"), suspendSteps(g))
    BY <1>3 DEF Whole
  <2> QED
    BY <1>1, <1>2, <1>4, <1>6, <2>1, <2>2, PlainKeeps DEF p
<1>7. CASE tenant[g].row # "provisioning" /\ Plans(r, p("resume"), tenantLocks, resumeSteps(g))
  <2>1. Good(p("resume"), resumeSteps(g))
    BY <1>3, ResumeList
  <2>2. Whole(p("resume"), resumeSteps(g))
    BY <1>3 DEF Whole
  <2> QED
    BY <1>1, <1>2, <1>4, <1>7, <2>1, <2>2, PlainKeeps DEF p
<1> QED
  BY <1>1, <1>5, <1>6, <1>7 DEF p

\* The planner of remove-app.
LEMMA PlanRemoveAppKeeps ==
    ASSUME IInv, NEW r \in Runs, PlanRemoveApp(r)
    PROVE  IInv'
<1>1. PICK g \in Guids, a \in Apps :
          /\ tenant[g].row \notin {"none", "provisioning"}
          /\ Plans(r, Asked("remove-app", g, {a}, NoTargets), tenantLocks, removeAppSteps(g))
  BY DEF PlanRemoveApp
<1> DEFINE p == Asked("remove-app", g, {a}, NoTargets)
<1>2. "remove-app" \in RunKinds /\ NoTargets \in [Guids -> SUBSET Members]
  BY DEF RunKinds, NoTargets
<1>3. p \in ParamType /\ p.kind = "remove-app" /\ p.g = g
  BY <1>2, AskedIs
<1> HIDE DEF p
<1>4. Good(p, removeAppSteps(g))
  BY <1>3, RemoveAppList
<1>5. Whole(p, removeAppSteps(g))
  BY <1>3 DEF Whole
<1>6. UNCHANGED <<tenant, zone, mints>>
  BY DEF PlanRemoveApp
<1> QED
  BY <1>1, <1>2, <1>4, <1>5, <1>6, PlainKeeps DEF p

\* The planner of purge-app.
LEMMA PlanPurgeAppKeeps ==
    ASSUME IInv, NEW r \in Runs, PlanPurgeApp(r)
    PROVE  IInv'
<1>1. PICK g \in Guids, a \in Apps :
          purgeableApp(g, a) /\ Plans(r, Asked("purge-app", g, {a}, NoTargets), tenantLocks, purgeAppSteps(g))
  BY DEF PlanPurgeApp
<1> DEFINE p == Asked("purge-app", g, {a}, NoTargets)
<1>2. "purge-app" \in RunKinds /\ NoTargets \in [Guids -> SUBSET Members]
  BY DEF RunKinds, NoTargets
<1>3. p \in ParamType /\ p.kind = "purge-app" /\ p.g = g
  BY <1>2, AskedIs
<1> HIDE DEF p
<1>4. Good(p, purgeAppSteps(g))
  BY <1>3, PurgeAppList
<1>5. Whole(p, purgeAppSteps(g))
  BY <1>3 DEF Whole
<1>6. UNCHANGED <<tenant, zone, mints>>
  BY DEF PlanPurgeApp
<1>7. tenant[g].row # "none"
  BY <1>1 DEF purgeableApp, Live
<1> QED
  BY <1>1, <1>2, <1>4, <1>5, <1>6, <1>7, PlainKeeps DEF p

\* The members a teardown reaps: the identity provider is among them wherever there is a row.
LEMMA TeardownMembers ==
    ASSUME IInv, NEW h \in Guids
    PROVE  /\ teardownMembers(tenant[h]) \subseteq Members /\ tenantTeardownMembers(tenant[h]) \subseteq Members
           /\ tenant[h].row # "none" => Idp \in teardownMembers(tenant[h]) /\ Idp \in tenantTeardownMembers(tenant[h])
           /\ Resolves(tenant[h]) => tenant[h].row # "none"
<1>1. tenant[h] \in TenantType /\ Sound(tenant[h])
  BY DEF IInv, Types, Tenanted
<1>2. tenant[h].reg.apps \subseteq Apps
  BY <1>1 DEF TenantType, RegType
<1>3. tenant[h].row = "none" => ~Resolves(tenant[h])
  <2>1. Nothing.reg.in = FALSE /\ Nothing.row = "none"
    BY DEF Nothing, NoReg
  <2> QED
    BY <1>1, <2>1 DEF Sound, Resolves
<1> QED
  BY <1>2, <1>3 DEF teardownMembers, tenantTeardownMembers, memberNames, Members

\* The planner of a purge: a tenant that is not nothing has a row, so its target names a member.
LEMMA PlanPurgeKeeps ==
    ASSUME IInv, NEW r \in Runs, PlanPurge(r)
    PROVE  IInv'
<1>1. PICK g \in Guids :
          /\ tenant[g] # Nothing
          /\ LET members == IF Resolves(tenant[g]) THEN teardownMembers(tenant[g])
                            ELSE tenantTeardownMembers(tenant[g]) IN
             Plans(r, Asked("purge", g, {}, [NoTargets EXCEPT ![g] = members]), tenantLocks, tenantPurgeSteps(g))
  BY DEF PlanPurge
<1> DEFINE M == IF Resolves(tenant[g]) THEN teardownMembers(tenant[g]) ELSE tenantTeardownMembers(tenant[g])
           N == [NoTargets EXCEPT ![g] = M]
           p == Asked("purge", g, {}, N)
<1>2. tenant[g].row # "none"
  BY <1>1 DEF IInv, Tenanted, Sound
<1>3. M \subseteq Members /\ Idp \in M
  BY <1>2, TeardownMembers
<1> HIDE DEF M
<1>4. N \in [Guids -> SUBSET Members] /\ N[g] = M /\ \A h \in Guids : h # g => N[h] = {}
  BY <1>3 DEF NoTargets
<1> HIDE DEF N
<1>5. p \in ParamType /\ p.kind = "purge" /\ p.g = g /\ p.targets = N
  BY <1>4, AskedIs DEF RunKinds
<1>6. Plans(r, p, tenantLocks, tenantPurgeSteps(g))
  BY <1>1 DEF M, N
<1> HIDE DEF p
<1>7. /\ Good(p, tenantPurgeSteps(g)) /\ Has(tenantPurgeSteps(g), Ent("attest-purge", g, "own"))
      /\ \A s \in {"remove", "delete-projects", "delete-namespaces", "delete-tenant-crypto",
                     "withdraw-bucket-keys", "verify-prune"} :
             Has(tenantPurgeSteps(g), Ent(s, g, "purge"))
  BY <1>5, PurgeList
<1>8. Whole(p, tenantPurgeSteps(g))
  BY <1>5, <1>7 DEF Whole
<1>9. Found(p)
  BY <1>2, <1>3, <1>4, <1>5 DEF Found
<1>10. UNCHANGED <<tenant, zone, mints>> /\ p.kind # "create"
  BY <1>5 DEF PlanPurge
<1> QED
  BY <1>5, <1>6, <1>7, <1>8, <1>9, <1>10, PlansKeep

\* The planner of a create: the targets it freezes are those its list tears down, and it is none of them.
LEMMA PlanCreateKeeps ==
    ASSUME IInv, NEW r \in Runs, PlanCreate(r)
    PROVE  IInv'
<1> DEFINE S == resolveReplaceTargets
           N == [h \in Guids |-> IF h \in S THEN teardownMembers(tenant[h]) ELSE {}]
<1>1. PICK g \in Guids, apps \in SUBSET Apps :
          /\ tenant[g] = Nothing /\ Frees(g)
          /\ Plans(r, Asked("create", g, apps, N), tenantLocks, createTenantSteps(g, apps, S))
  BY DEF PlanCreate
<1>2. S \in SUBSET Guids /\ \A h \in Guids : h \in S <=> Resolves(tenant[h])
  BY DEF resolveReplaceTargets
<1> HIDE DEF S
<1>3. /\ N \in [Guids -> SUBSET Members]
      /\ \A h \in Guids : h \in S => Idp \in N[h] /\ tenant[h].row # "none"
      /\ \A h \in Guids : h \notin S => N[h] = {}
  BY <1>2, TeardownMembers
<1> HIDE DEF N
<1> DEFINE p == Asked("create", g, apps, N)
           T == createTenantSteps(g, apps, S)
<1>4. p \in ParamType /\ p.kind = "create" /\ p.g = g /\ p.targets = N
  BY <1>3, AskedIs DEF RunKinds
<1>5. Plans(r, p, tenantLocks, T)
  BY <1>1
<1> HIDE DEF p
<1>6. \A h \in Guids : p.targets[h] # {} <=> h \in S
  BY <1>3, <1>4
<1>7. /\ Good(p, T) /\ Has(T, Ent("record-provisional", g, "own")) /\ Has(T, Ent("seed-tenant-crypto", g, "own"))
      /\ Has(T, Ent("ensure-subdomain-free", g, "own"))
      /\ \A h \in S : Has(T, Ent("remove", h, "replace")) /\ Has(T, Ent("watch-prune", h, "replace"))
  BY <1>2, <1>4, <1>6, CreateList
<1> HIDE DEF T
<1>8. Whole(p, T)
  BY <1>4, <1>6, <1>7 DEF Whole
<1>9. g \notin S
  <2>1. Nothing.row = "none"
    BY DEF Nothing
  <2> QED
    BY <1>1, <1>3, <2>1
<1>10. Found(p)
  BY <1>1, <1>3, <1>4, <1>6, <1>9 DEF Found
<1>11. UNCHANGED <<tenant, zone, mints>> /\ Frees(p.g)
  BY <1>1, <1>4 DEF PlanCreate
<1> QED
  BY <1>4, <1>5, <1>7, <1>8, <1>10, <1>11, PlansKeep

\* Every planner.
LEMMA PlanKeeps ==
    ASSUME IInv, NEW r \in Runs, Plan(r)
    PROVE  IInv'
BY PlanCreateKeeps, PlanAddAppKeeps, PlanLifecycleKeeps, PlanRemoveAppKeeps, PlanPurgeAppKeeps, PlanPurgeKeeps DEF Plan

-----------------------------------------------------------------------------
\* What the operator and the executor do with a run.

\* What the invariant says of a run.
LEMMA ActiveRun ==
    ASSUME IInv, NEW r \in Runs, Active(r)
    PROVE  /\ run[r] \in RunType /\ run \in [Runs -> RunType \cup {Idle}] /\ Param(r) \in ParamType
           /\ Param(r).g \in Guids /\ used \in [plans : Nat, fails : Nat]
           /\ Lists(r) /\ Planned(r) /\ Behind(r)
<1>1. Types /\ run[r] \in RunType
  BY ActiveType DEF IInv
<1>2. Param(r) \in ParamType /\ Param(r).g \in Guids
  BY <1>1 DEF RunType, ParamType, Param
<1> QED
  BY <1>1, <1>2 DEF IInv, Types, RunsSound

\* A run that ends or is deleted: nothing is said of a slot that no run uses.
LEMMA EndKeeps ==
    ASSUME IInv, NEW r \in Runs, run' = [run EXCEPT ![r] = Idle], UNCHANGED <<used, tenant, zone, mints>>
    PROVE  IInv'
<1>1. run \in [Runs -> RunType \cup {Idle}] /\ used \in [plans : Nat, fails : Nat]
  BY DEF IInv, Types
<1>2. Elsewhere(r) /\ run'[r] = Idle
  BY <1>1 DEF Elsewhere
<1>3. ~Active(r)' /\ ~Holding(r)'
  BY <1>2 DEF Active, Holding, Idle
<1> QED
  BY <1>2, <1>3, RunKeeps

\* Only where a run stands changes: the same list, the same plan.
LEMMA StandKeeps ==
    ASSUME IInv, NEW r \in Runs, Active(r), Elsewhere(r), run'[r] \in RunType, run'[r].st # "planned",
           run'[r].p = run[r].p, run'[r].todo = run[r].todo, run'[r].armed = run[r].armed, run'[r].undo = run[r].undo,
           \/ Holding(r)
           \/ /\ run[r].st = "planned"
              /\ \A q \in Runs : ~Holding(q)
    PROVE  IInv'
<1>1. Param(r) \in ParamType /\ Param(r).g \in Guids /\ Lists(r) /\ Planned(r) /\ Behind(r)
  BY ActiveRun
<1>2. Param(r)' = Param(r) /\ tenant' = tenant /\ Active(r)'
  BY IdleType DEF Param, Elsewhere, Active
<1>3. \A s, by : Left(r, s, by)' = Left(r, s, by)
  BY <1>2 DEF Left
<1>4. Lists(r)' /\ Planned(r)' /\ Waiting(r)' /\ Armed(r)'
  BY <1>1, <1>2, <1>3 DEF Lists, Planned, Waiting, Armed, Behind
<1>5. Creating(r)' /\ Undoing(r)' /\ Purging(r)' /\ Offboarding(r)' /\ Adding(r)'
  <2>1. CASE Holding(r)
    <3>1. Creating(r)'
      BY <1>1, <1>2, <1>3, <2>1 DEF Behind, Creating
    <3>2. Undoing(r)' /\ Purging(r)'
      BY <1>1, <1>2, <1>3, <2>1 DEF Behind, Undoing, Purging
    <3>3. Offboarding(r)' /\ Adding(r)'
      BY <1>1, <1>2, <1>3, <2>1 DEF Behind, Offboarding, Adding
    <3> QED
      BY <3>1, <3>2, <3>3
  <2>2. CASE run[r].st = "planned"
    <3>1. Waiting(r) /\ ~run'[r].undo
      BY <1>1, <2>2 DEF Behind, Waiting
    <3>2. Creating(r)'
      <4>1. SUFFICES ASSUME Param(r).kind = "create" PROVE Creating(r)'
        BY <1>2 DEF Creating
      <4>2. /\ tenant[Param(r).g] = Nothing
            /\ Left(r, "record-provisional", "own") /\ Left(r, "seed-tenant-crypto", "own")
            /\ Left(r, "ensure-subdomain-free", "own")
            /\ \A h \in Guids : Param(r).targets[h] # {} =>
                   Has(run[r].todo, Ent("remove", h, "replace")) /\ Has(run[r].todo, Ent("watch-prune", h, "replace"))
        BY <2>2, <3>1, <4>1 DEF Waiting
      <4>3. Nothing.row = "none" /\ Nothing.reg.apps = {} /\ Nothing.unwired = {}
        BY DEF Nothing, NoReg
      <4>4. tenant'[Param(r).g].row = "none" /\ tenant'[Param(r).g].reg.apps = {} /\ tenant'[Param(r).g].unwired = {}
        BY <1>2, <4>2, <4>3
      <4>5. \A h \in Guids : Param(r).targets[h] # {} =>
                   Has(run'[r].todo, Ent("remove", h, "replace")) /\ Has(run'[r].todo, Ent("watch-prune", h, "replace"))
        BY <4>2
      <4> QED
        BY <1>2, <1>3, <4>2, <4>4, <4>5 DEF Creating
    <3>3. Purging(r)'
      BY <1>2, <1>3, <2>2, <3>1 DEF Purging, Waiting
    <3>4. Offboarding(r)' /\ Adding(r)' /\ Undoing(r)'
      BY <1>2, <1>3, <2>2, <3>1 DEF Offboarding, Adding, Waiting, Undoing
    <3> QED
      BY <3>2, <3>3, <3>4
  <2> QED
    BY <2>1, <2>2
<1> QED
  BY <1>2, <1>4, <1>5, RunKeeps DEF Behind

\* All tenant runs claim the same locks: a run that starts finds no other.
LEMMA StartAlone ==
    ASSUME IInv, NEW r \in Runs, Start(r)
    PROVE  \A q \in Runs : ~Holding(q)
<1>1. SUFFICES ASSUME NEW q \in Runs, Holding(q) PROVE FALSE
  OBVIOUS
<1>2. q # r /\ Active(r) /\ Active(q)
  BY <1>1 DEF Start, Holding, Active
<1>3. run[q].claims = tenantLocks /\ run[r].claims = tenantLocks
  BY <1>2, ActiveRun DEF RunType
<1>4. run[q].claims \cap run[r].claims = {}
  BY <1>1, <1>2 DEF Start
<1> QED
  BY <1>3, <1>4 DEF tenantLocks

\* A run that is set running, and nothing else of it changed.
LEMMA StandsIs ==
    ASSUME IInv, NEW r \in Runs, Active(r), run' = [run EXCEPT ![r].st = "running"],
           UNCHANGED <<used, tenant, zone, mints>>
    PROVE  /\ Elsewhere(r) /\ run'[r] \in RunType /\ run'[r].st = "running"
           /\ run'[r].p = run[r].p /\ run'[r].todo = run[r].todo /\ run'[r].armed = run[r].armed
           /\ run'[r].undo = run[r].undo
<1> DEFINE x == [run[r] EXCEPT !.st = "running"]
<1>1. run[r] \in RunType /\ run \in [Runs -> RunType \cup {Idle}] /\ used \in [plans : Nat, fails : Nat]
  BY ActiveRun
<1>2. /\ x \in RunType /\ x.st = "running" /\ x.p = run[r].p /\ x.todo = run[r].todo /\ x.armed = run[r].armed
      /\ x.undo = run[r].undo
  BY <1>1 DEF RunType
<1>3. run' = [run EXCEPT ![r] = x]
  BY <1>1
<1> HIDE DEF x
<1>4. run'[r] = x /\ run' \in [Runs -> RunType \cup {Idle}] /\ \A q \in Runs : q # r => run'[q] = run[q]
  BY <1>1, <1>2, <1>3
<1> QED
  BY <1>1, <1>2, <1>4 DEF Elsewhere

\* Start, retry, a throw, the end and the deletion of a run keep the invariant.
LEMMA ManagedKeeps ==
    ASSUME IInv, NEW r \in Runs, Managed(r), UNCHANGED <<tenant, zone, mints>>
    PROVE  IInv'
<1>1. CASE Start(r)
  <2>1. Active(r) /\ run[r].st = "planned" /\ run' = [run EXCEPT ![r].st = "running"] /\ UNCHANGED used
    BY <1>1 DEF Start, Active
  <2> QED
    BY <1>1, <2>1, StandsIs, StartAlone, StandKeeps
<1>2. CASE Retry(r)
  <2>1. Active(r) /\ Holding(r) /\ run' = [run EXCEPT ![r].st = "running"] /\ UNCHANGED used
    BY <1>2 DEF Retry, Active, Holding
  <2> QED
    BY <2>1, StandsIs, StandKeeps
<1>3. CASE Throws(r)
  <2>1. /\ Active(r) /\ Holding(r) /\ run[r].st = "running" /\ run[r].todo # <<>> /\ Fails(r, run[r]) /\ Types
    BY <1>3 DEF Throws, Active, Holding, IInv
  <2>2. Moved(r, run[r].armed) /\ run'[r].todo = run[r].todo
    BY <2>1, DoneMoves
  <2>3. Elsewhere(r) /\ run'[r] \in RunType /\ run'[r].st # "planned"
    BY <2>2 DEF Moved, Elsewhere
  <2>4. run'[r].p = run[r].p /\ run'[r].armed = run[r].armed /\ run'[r].undo = run[r].undo
    BY <2>2 DEF Moved
  <2> QED
    BY <2>1, <2>2, <2>3, <2>4, StandKeeps
<1>4. CASE Finish(r) \/ Delete(r)
  BY <1>4, EndKeeps DEF Finish, Delete
<1> QED
  BY <1>1, <1>2, <1>3, <1>4 DEF Managed

\* The abort asks whether the tenant lives, and what the steps armed becomes the rest of the run.
LEMMA AbortKeeps ==
    ASSUME IInv, NEW r \in Runs, Abort(r)
    PROVE  IInv'
<1> DEFINE x == [run[r] EXCEPT !.st = "running", !.todo = run[r].armed, !.undo = TRUE]
           p == Param(r)
           t == tenant[p.g]
<1>1. Active(r) /\ Holding(r) /\ run' = [run EXCEPT ![r] = x] /\ UNCHANGED <<used, tenant, zone, mints>>
  BY DEF Abort, Aborts, Active, Holding
<1>2. /\ run[r] \in RunType /\ run \in [Runs -> RunType \cup {Idle}] /\ used \in [plans : Nat, fails : Nat]
      /\ p \in ParamType /\ p.g \in Guids /\ Lists(r) /\ Planned(r) /\ Behind(r)
  BY <1>1, ActiveRun
<1>3. x \in RunType /\ x.st = "running" /\ x.p = run[r].p /\ x.todo = run[r].armed /\ x.armed = run[r].armed /\ x.undo
  BY <1>2 DEF RunType
<1> HIDE DEF x
<1>4. run'[r] = x /\ run' \in [Runs -> RunType \cup {Idle}] /\ \A q \in Runs : q # r => run'[q] = run[q]
  BY <1>1, <1>2, <1>3
<1>5. Elsewhere(r) /\ Active(r)' /\ Holding(r)' /\ Param(r)' = p
  BY <1>1, <1>2, <1>3, <1>4 DEF Elsewhere, Active, Holding, Param
<1>6. \/ run[r].armed = <<>>
      \/ p.kind = "create" /\ run[r].armed = TenantTeardown("abort", p.g)
      \/ p.kind = "add-app" /\ run[r].armed = Flavour("abort", p.g, <<"revert-app-append">>)
  BY <1>2 DEF Lists
<1>7. (\A i \in DOMAIN run[r].armed : Back(p, run[r].armed[i])) /\ Sorted(run[r].armed)
  <2>1. CASE run[r].armed = <<>>
    BY <2>1 DEF Sorted
  <2>2. CASE p.kind = "create" /\ run[r].armed = TenantTeardown("abort", p.g)
    BY <1>2, <2>2, AbortList
  <2>3. CASE p.kind = "add-app" /\ run[r].armed = Flavour("abort", p.g, <<"revert-app-append">>)
    BY <1>2, <2>3, RevertList
  <2> QED
    BY <1>6, <2>1, <2>2, <2>3
<1>8. Lists(r)'
  BY <1>3, <1>4, <1>5, <1>6, <1>7 DEF Lists
<1>9. Planned(r)' /\ Armed(r)'
  BY <1>1, <1>2, <1>3, <1>4, <1>5 DEF Planned, Behind, Armed
<1>10. Undoing(r)'
  <2>1. p.kind = "create" => NotLive(t)
    BY DEF Abort, assertCreateTenantAbortable, tenantNotLive, NotLive
  <2>2. p.kind = "create" /\ run[r].armed # <<>> =>
            Has(run[r].armed, Ent("remove", p.g, "abort")) /\ Has(run[r].armed, Ent("watch-prune", p.g, "abort"))
    BY <1>2, <1>6, AbortList
  <2>3. ASSUME p.kind = "add-app" PROVE \A a \in p.apps \cap t.reg.apps : t.appRow[a] # "active"
    <3>1. PICK b \in Apps : p.apps = {b}
      BY <1>2, <2>3 DEF Planned
    <3>2. assertAddAppAbortable(p.g, p.apps)
      BY <2>3 DEF Abort
    <3>3. ASSUME NEW a \in p.apps \cap t.reg.apps PROVE t.appRow[a] # "active"
      <4>1. a = b /\ p.apps \subseteq t.reg.apps
        BY <3>1, <3>3
      <4>2. t.reg.in
        <5>1. ~t.reg.in => t.reg = NoReg
          BY <1>2 DEF IInv, Tenanted, Sound
        <5> QED
          BY <3>3, <5>1 DEF NoReg
      <4> QED
        BY <3>2, <4>1, <4>2, <3>1 DEF assertAddAppAbortable
    <3> QED
      BY <3>3
  <2>4. \A s, by : Left(r, s, by)' = Has(run[r].armed, Ent(s, p.g, by))
    BY <1>3, <1>4, <1>5 DEF Left
  <2>5. tenant' = tenant
    BY <1>1
  <2> QED
    BY <1>3, <1>4, <1>5, <2>1, <2>2, <2>3, <2>4, <2>5 DEF Undoing
<1>11. Waiting(r)' /\ Creating(r)' /\ Purging(r)' /\ Offboarding(r)' /\ Adding(r)'
  BY <1>3, <1>4 DEF Waiting, Creating, Purging, Offboarding, Adding
<1> QED
  BY <1>1, <1>5, <1>8, <1>9, <1>10, <1>11, RunKeeps DEF Behind

-----------------------------------------------------------------------------

\* A guid of which nothing stands.
LEMMA NothingIs ==
    /\ Nothing \in TenantType /\ Nothing.row = "none" /\ Nothing.reg = NoReg /\ ~Nothing.reg.in /\ Nothing.fan = {}
    /\ Nothing.entry = 0 /\ Nothing.bucketKeys = {} /\ Nothing.unwired = {} /\ Nothing.terminating \subseteq Nothing.ns
    /\ [Nothing EXCEPT !.issuer = FALSE] = Nothing
<1>1. NoReg \in RegType /\ ~NoReg.in
  BY DEF NoReg, RegType
<1>2. [a \in Apps |-> "none"] \in [Apps -> Status]
  BY DEF Status
<1>3. "none" \in Status /\ 0 \in Nat
  BY DEF Status
<1>4. Nothing \in TenantType
  BY <1>1, <1>2, <1>3 DEF Nothing, TenantType
<1>5. Nothing.row = "none" /\ Nothing.reg = NoReg /\ Nothing.fan = {} /\ Nothing.entry = 0 /\ Nothing.bucketKeys = {}
      /\ Nothing.issuer = FALSE /\ Nothing.unwired = {} /\ Nothing.terminating \subseteq Nothing.ns
  BY DEF Nothing
<1>6. Nothing = [i \in DOMAIN Nothing |-> Nothing[i]]
  BY DEF Nothing
<1>7. [Nothing EXCEPT !.issuer = FALSE] = Nothing
  BY <1>5, <1>6
<1> QED
  BY <1>1, <1>4, <1>5, <1>7

\* The invariant holds at first.
LEMMA InitKeeps == Init => IInv
<1> SUFFICES ASSUME Init PROVE IInv
  OBVIOUS
<1>1. tenant = [g \in Guids |-> Nothing] /\ zone = [up |-> FALSE, for |-> "nobody"] /\ mints = 0
      /\ run = [r \in Runs |-> Idle] /\ used = [plans |-> 0, fails |-> 0]
  BY DEF Init, NoRuns
<1>2. \A g \in Guids : tenant[g] = Nothing
  BY <1>1
<1>3. \A r \in Runs : ~Active(r) /\ ~Holding(r)
  BY <1>1 DEF Active, Holding, Idle
<1>4. Types
  BY <1>1, NothingIs, TenantsAssumption DEF Types
<1>5. Tenanted
  BY <1>1, <1>2, NothingIs DEF Tenanted, Sound
<1>6. OneHolder /\ OwnGuid /\ RunsSound
  BY <1>3 DEF OneHolder, OwnGuid, RunsSound
<1>7. OneTenantPerSubdomain
  BY <1>2, NothingIs DEF OneTenantPerSubdomain
<1>8. SettledIsUndeployed /\ PurgedLeavesNoIdentity /\ DeployedTenantHasItsKey
  BY <1>2, NothingIs DEF SettledIsUndeployed, PurgedLeavesNoIdentity, DeployedTenantHasItsKey, Settled, Live
<1> QED
  BY <1>4, <1>5, <1>6, <1>7, <1>8 DEF IInv

\* Every step of the specification keeps it.
LEMMA NextKeeps == IInv /\ [Next]_vars => IInv'
<1> SUFFICES ASSUME IInv, [Next]_vars PROVE IInv'
  OBVIOUS
<1>1. ASSUME NEW r \in Runs, Plan(r) PROVE IInv'
  BY <1>1, PlanKeeps
<1>2. ASSUME NEW r \in Runs, Create(r) \/ OnApps(r) \/ Switch(r) \/ Removal(r) PROVE IInv'
  BY <1>2, EveryStep, StepKeeps DEF IInv
<1>3. ASSUME NEW r \in Runs, Abort(r) PROVE IInv'
  BY <1>3, AbortKeeps
<1>4. ASSUME NEW r \in Runs, Managed(r), UNCHANGED <<tenant, zone, mints>> PROVE IInv'
  BY <1>4, ManagedKeeps
<1>5. ASSUME NEW g \in Guids, Argo(g) PROVE IInv'
  BY <1>5, ArgoKeeps
<1>7. ASSUME NEW g \in Guids, NamespaceEnds(g) PROVE IInv'
  BY <1>7, NamespaceEndsKeeps
<1>6. CASE UNCHANGED vars
  <2>1. run' = run /\ used' = used /\ tenant' = tenant /\ zone' = zone /\ mints' = mints
    BY <1>6 DEF vars
  <2>2. CASE Runs = {}
    <3>1. Types' /\ Tenanted'
      BY <2>1 DEF IInv, Types, Tenanted, Sound
    <3>2. OneHolder' /\ OwnGuid' /\ RunsSound'
      BY <2>2 DEF OneHolder, OwnGuid, RunsSound
    <3>3. OneTenantPerSubdomain' /\ SettledIsUndeployed' /\ PurgedLeavesNoIdentity' /\ DeployedTenantHasItsKey'
      BY <2>1 DEF IInv, OneTenantPerSubdomain, SettledIsUndeployed, PurgedLeavesNoIdentity, DeployedTenantHasItsKey
    <3> QED
      BY <3>1, <3>2, <3>3 DEF IInv
  <2>3. ASSUME NEW r \in Runs PROVE IInv'
    <3>1. Elsewhere(r)
      BY <2>1 DEF Elsewhere, IInv, Types
    <3>2. Active(r)' = Active(r) /\ Holding(r)' = Holding(r) /\ Param(r)' = Param(r)
      BY <2>1 DEF Active, Holding, Param
    <3>3. ASSUME Active(r) PROVE (Lists(r) /\ Planned(r) /\ Behind(r))'
      <4>1. Lists(r) /\ Planned(r) /\ Behind(r)
        BY <3>3 DEF IInv, RunsSound
      <4>2. \A s, by : Left(r, s, by)' = Left(r, s, by)
        BY <2>1, <3>2 DEF Left
      <4>3. Lists(r)' /\ Planned(r)'
        BY <2>1, <3>2, <4>1 DEF Lists, Planned
      <4>4. Waiting(r)' /\ Armed(r)' /\ Adding(r)'
        BY <2>1, <3>2, <4>1, <4>2 DEF Behind, Waiting, Armed, Adding
      <4>5. Creating(r)' /\ Undoing(r)'
        BY <2>1, <3>2, <4>1, <4>2 DEF Behind, Creating, Undoing
      <4>6. Purging(r)' /\ Offboarding(r)'
        BY <2>1, <3>2, <4>1, <4>2 DEF Behind, Purging, Offboarding
      <4> QED
        BY <4>3, <4>4, <4>5, <4>6 DEF Behind
    <3> QED
      BY <3>1, <3>2, <3>3, RunKeeps
  <2> QED
    BY <2>2, <2>3
<1> QED
  BY <1>1, <1>2, <1>3, <1>4, <1>5, <1>6, <1>7 DEF Next

\* So it always holds.
LEMMA Invariance == Spec => []IInv
BY InitKeeps, NextKeeps, PTL DEF Spec

\* It implies the type invariant that the runs check.
LEMMA IInvTypes == IInv => TypeOK
<1> SUFFICES ASSUME IInv PROVE TypeOK
  OBVIOUS
<1>1. Types /\ Tenanted
  BY DEF IInv
<1>2. ASSUME NEW g \in Guids
      PROVE  /\ tenant[g].row \in Status
             /\ tenant[g].appRow \in [Apps -> Status]
             /\ tenant[g].reg.apps \subseteq Apps
             /\ tenant[g].reg.in = FALSE => tenant[g].reg = NoReg
             /\ tenant[g].fan \cup tenant[g].ns \cup tenant[g].project \cup tenant[g].grant \subseteq Members
             /\ tenant[g].terminating \subseteq tenant[g].ns
             /\ tenant[g].unwired \subseteq Ports
             /\ tenant[g].entry \in 0..MaxMints
             /\ tenant[g].bucketKeys \subseteq 1..mints
             /\ tenant[g].appKeys \subseteq Apps
             /\ tenant[g].bundle \in {"none", "repository", "tree", "registered"}
  <2>1. tenant[g] \in TenantType /\ Sound(tenant[g])
    BY <1>1 DEF Types, Tenanted
  <2>3. tenant[g].entry \in 0..mints
    BY <2>1 DEF Sound
  <2>4. mints \in Nat /\ mints <= MaxMints /\ MaxMints \in Nat
    BY <1>1, TenantsAssumption DEF Types
  <2>5. tenant[g].entry \in 0..MaxMints
    BY <2>3, <2>4
  <2>8. tenant[g].terminating \subseteq tenant[g].ns /\ tenant[g].unwired \subseteq Ports
    BY <2>1 DEF Sound, TenantType
  <2>6. tenant[g].bucketKeys \subseteq 1..mints /\ (~tenant[g].reg.in => tenant[g].reg = NoReg)
    BY <2>1 DEF Sound
  <2>7. /\ tenant[g].row \in Status /\ tenant[g].appRow \in [Apps -> Status] /\ tenant[g].reg.apps \subseteq Apps
        /\ tenant[g].fan \subseteq Members /\ tenant[g].ns \subseteq Members /\ tenant[g].project \subseteq Members
        /\ tenant[g].grant \subseteq Members /\ tenant[g].appKeys \subseteq Apps
        /\ tenant[g].bundle \in {"none", "repository", "tree", "registered"}
    BY <2>1 DEF TenantType, RegType
  <2> QED
    BY <2>5, <2>6, <2>7, <2>8
<1>3. zone.for \in Guids \cup {"nobody"} /\ zone.up \in BOOLEAN
  BY <1>1 DEF Types
<1>4. \A r \in Runs : run[r].st \in {"idle", "planned", "running", "failed"}
  <2>1. SUFFICES ASSUME NEW r \in Runs, Active(r) PROVE run[r].st \in {"planned", "running", "failed"}
    BY DEF Active
  <2> QED
    BY <1>1, <2>1, ActiveType, IdleType
<1> QED
  BY <1>2, <1>3, <1>4 DEF TypeOK

\* For any guids, apps, runs and bounds, at every step of every run the inventory, the books, the
\* cluster and Vault agree on every tenant, whatever the controller has or has not pruned: whatever
\* stands of one is named by its row, no two stand on one subdomain, a settled row is not registered and
\* its identity provider does not run, and a registered live tenant's Vault entry names a bucket key
\* that was not withdrawn.
THEOREM TenantsAgree == Spec => []TenantInv
<1>1. IInv => TenantInv
  <2> SUFFICES ASSUME IInv PROVE TenantInv
    OBVIOUS
  <2>1. WhatStandsIsNamed
    <3>1. SUFFICES ASSUME NEW g \in Guids, tenant[g].row = "none"
                   PROVE  [tenant[g] EXCEPT !.issuer = FALSE] = Nothing
      BY DEF WhatStandsIsNamed
    <3>2. tenant[g] = Nothing
      BY <3>1 DEF IInv, Tenanted, Sound
    <3> QED
      BY <3>2, NothingIs
  <2>2. OneTenantPerSubdomain /\ SettledIsUndeployed /\ DeployedTenantHasItsKey
    BY DEF IInv
  <2> QED
    BY <2>1, <2>2, IInvTypes DEF TenantInv
<1> QED
  BY <1>1, Invariance, PTL

\* After a purge nothing of the tenant's identity is left but what the purge said it had no port for,
\* however often it and the create before it were torn, retried or aborted: no Vault entry and no app
\* key where it had the seeder, no live bucket key where it had the object store, and the identity
\* provider's namespace gone or Terminating, never made again.
THEOREM PurgeIsComplete == Spec => []PurgedLeavesNoIdentity
<1>1. IInv => PurgedLeavesNoIdentity
  BY DEF IInv
<1> QED
  BY <1>1, Invariance, PTL

\* What a step that takes a registration or an app of it away says of its run.
LEMMA StepRemoves ==
    ASSUME IInv, NEW r \in Runs, Stepped(r), NEW g \in Guids
    PROVE  /\ (tenant[g].row \in Live /\ tenant[g].reg.in /\ ~tenant'[g].reg.in) =>
                  ~run[r].undo /\ \/ Param(r).kind = "offboard" /\ Param(r).g = g
                                  \/ Param(r).kind = "create" /\ Param(r).targets[g] # {}
           /\ (tenant'[g].reg.in /\ \E a \in tenant[g].reg.apps \ tenant'[g].reg.apps : tenant[g].appRow[a] = "active") =>
                  ~run[r].undo /\ Param(r).kind = "remove-app" /\ Param(r).g = g
<1> DEFINE e == Head(run[r].todo)
           p == Param(r)
           t == tenant[g]
           u == tenant'[g]
<1>1. Place(r)
  BY StepPlace
<1>2. /\ Whose(r, e) /\ p \in ParamType /\ Holding(r) /\ Creating(r) /\ Undoing(r) /\ Purging(r)
      /\ Has(run[r].todo, e) /\ e = Ent(e.s, e.g, e.by) /\ \A x : Earlier(x, e) => ~Has(run[r].todo, x)
  BY <1>1 DEF Place, Behind
<1>3. CASE g # e.g
  BY <1>3 DEF Stepped, Alike
<1>4. CASE g = e.g
  <2>1. Change(p, e, t, u)
    BY <1>4 DEF Stepped
  <2>2. CASE run[r].undo
    <3>1. Back(p, e)
      BY <1>2, <2>2 DEF Whose
    <3>2. /\ e.by = "abort" /\ e.g = p.g /\ p.kind \in {"create", "add-app"}
          /\ e.s \in ReplaceNames \cup {"revert-app-append"}
          /\ e.s = "revert-app-append" <=> p.kind = "add-app"
      BY <3>1, BackIs
    <3>3. p.kind = "create" => NotLive(t)
      BY <1>2, <1>4, <2>2, <3>2 DEF Undoing
    <3>4. p.kind = "add-app" => \A a \in p.apps \cap t.reg.apps : t.appRow[a] # "active"
      BY <1>2, <1>4, <2>2, <3>2 DEF Undoing
    <3>5. p.kind = "add-app" => u.reg.in = t.reg.in /\ u.reg.apps = t.reg.apps \ p.apps
      BY <2>1, <3>2 DEF Change, RegSet
    <3>6. p.kind = "create" => u.reg.apps = t.reg.apps \/ ~u.reg.in
      BY <2>1, <3>2 DEF Change, RegSet, NoReg, ReplaceNames
    <3> QED
      BY <3>2, <3>3, <3>4, <3>5, <3>6 DEF NotLive
  <2>3. CASE ~run[r].undo
    <3>1. Forth(p, e)
      BY <1>2, <2>3 DEF Whose
    <3>2. ASSUME t.row \in Live, t.reg.in, ~u.reg.in
          PROVE  \/ p.kind = "offboard" /\ p.g = g
                 \/ p.kind = "create" /\ p.targets[g] # {}
      <4>1. e.s = "remove"
        BY <2>1, <3>2 DEF Change, RegSet
      <4>2. CASE e.by = "own"
        BY <1>2, <1>4, <3>1, <4>1, <4>2, ForthIs
      <4>3. CASE e.by = "replace"
        BY <1>2, <1>4, <3>1, <4>3, ForthIs
      <4>4. CASE e.by = "purge"
        <5>1. p.kind = "purge" /\ e.g = p.g
          BY <1>2, <3>1, <4>4, ForthIs
        <5>2. Earlier(Ent("attest-purge", p.g, "own"), e)
          BY <4>4 DEF Earlier, Ent
        <5>3. ~Left(r, "attest-purge", "own")
          BY <1>2, <5>2 DEF Left
        <5>4. NotLive(t)
          BY <1>2, <1>4, <2>3, <5>1, <5>3 DEF Purging
        <5> QED
          BY <3>2, <5>4 DEF NotLive
      <4> QED
        BY <1>2, <3>1, <4>2, <4>3, <4>4, ForthIs
    <3>3. ASSUME u.reg.in, NEW a \in t.reg.apps \ u.reg.apps, t.appRow[a] = "active"
          PROVE  p.kind = "remove-app" /\ p.g = g
      <4>1. e.s \in {"write-registration", "remove-app-pointer", "revert-app-append"}
        <5>1. e.s # "remove"
          BY <2>1, <3>3 DEF Change, RegSet, NoReg
        <5> QED
          BY <2>1, <3>3, <5>1 DEF Change, RegSet
      <4>2. e.s # "revert-app-append"
        BY <1>2, <3>1, ForthIs
      <4>3. e.s # "write-registration"
        <5>1. SUFFICES ASSUME e.s = "write-registration" PROVE FALSE
          OBVIOUS
        <5>2. p.kind = "create" /\ e.by = "own" /\ e.g = p.g
          BY <1>2, <3>1, <5>1, ForthIs
        <5>3. Left(r, "write-registration", "own")
          BY <1>2, <5>1, <5>2 DEF Left
        <5>4. t.reg.apps \subseteq p.apps
          BY <1>2, <1>4, <2>3, <5>2, <5>3 DEF Creating
        <5>5. u.reg.apps = p.apps
          BY <2>1, <5>1 DEF Change, RegSet
        <5> QED
          BY <3>3, <5>4, <5>5
      <4> QED
        BY <1>2, <1>4, <3>1, <4>1, <4>2, <4>3, ForthIs
    <3> QED
      BY <2>3, <3>2, <3>3
  <2> QED
    BY <2>2, <2>3
<1> QED
  BY <1>3, <1>4

\* A live tenant loses its registration to an offboard of it or to a create that was approved to
\* replace it, and to nothing else: not to the abort of a failed run, not to a purge planned before the
\* tenant came alive, not to the retry of an older create. An app whose row is active leaves the
\* registration only by the removal of that app.
THEOREM OnlyItsRemovalUndeploys == Spec => UndeployedOnlyByItsRemoval
<1> DEFINE A == \A g \in Guids :
                  LET t == tenant[g]
                      Asks(r, kind) == run[r].st = "running" /\ ~run[r].undo /\ Param(r).kind = kind IN
                  /\ (t.row \in Live /\ t.reg.in /\ ~tenant'[g].reg.in) =>
                         \E r \in Runs : \/ Asks(r, "offboard") /\ Param(r).g = g
                                         \/ Asks(r, "create") /\ Param(r).targets[g] # {}
                  /\ (tenant'[g].reg.in /\ \E a \in t.reg.apps \ tenant'[g].reg.apps : t.appRow[a] = "active") =>
                         \E r \in Runs : Asks(r, "remove-app") /\ Param(r).g = g
<1>1. IInv /\ [Next]_vars => [A]_vars
  <2> SUFFICES ASSUME IInv, Next PROVE A
    OBVIOUS
  <2>1. ASSUME \A g \in Guids : tenant'[g].reg = tenant[g].reg PROVE A
    BY <2>1
  <2>2. ASSUME NEW r \in Runs, Create(r) \/ OnApps(r) \/ Switch(r) \/ Removal(r) PROVE A
    <3>1. Stepped(r)
      BY <2>2, EveryStep DEF IInv
    <3>2. run[r].st = "running"
      BY <3>1 DEF Stepped
    <3> QED
      BY <3>1, <3>2, StepRemoves
  <2>3. ASSUME NEW g \in Guids, Argo(g) \/ NamespaceEnds(g) PROVE A
    <3>1. tenant[g] \in TenantType /\ tenant \in [Guids -> TenantType]
      BY DEF IInv, Types
    <3>2. PICK m : \/ tenant' = [tenant EXCEPT ![g].fan = @ \cup {m}]
                   \/ tenant' = [tenant EXCEPT ![g].fan = @ \ {m}]
                   \/ tenant' = [tenant EXCEPT ![g].ns = @ \cup {m}]
                   \/ tenant' = [tenant EXCEPT ![g].ns = @ \ {m}, ![g].terminating = @ \ {m}]
      BY <2>3 DEF Argo, NamespaceEnds
    <3>3. ASSUME NEW h \in Guids PROVE tenant'[h].reg = tenant[h].reg
      <4>1. CASE tenant' = [tenant EXCEPT ![g].fan = @ \cup {m}]
        BY <3>1, <4>1 DEF TenantType
      <4>2. CASE tenant' = [tenant EXCEPT ![g].fan = @ \ {m}]
        BY <3>1, <4>2 DEF TenantType
      <4>3. CASE tenant' = [tenant EXCEPT ![g].ns = @ \cup {m}]
        BY <3>1, <4>3 DEF TenantType
      <4>4. CASE tenant' = [tenant EXCEPT ![g].ns = @ \ {m}, ![g].terminating = @ \ {m}]
        BY <3>1, <4>4 DEF TenantType
      <4> QED
        BY <3>2, <4>1, <4>2, <4>3, <4>4
    <3> QED
      BY <2>1, <3>3
  <2>4. ASSUME NEW r \in Runs, Plan(r) \/ Abort(r) \/ (Managed(r) /\ UNCHANGED <<tenant, zone, mints>>) PROVE A
    <3>1. tenant' = tenant
      BY <2>4 DEF Plan, PlanCreate, PlanAddApp, PlanLifecycle, PlanRemoveApp, PlanPurgeApp, PlanPurge, Abort
    <3> QED
      BY <2>1, <3>1
  <2> QED
    BY <2>2, <2>3, <2>4 DEF Next
<1> QED
  BY <1>1, Invariance, PTL DEF Spec, UndeployedOnlyByItsRemoval

=============================================================================
