-------------------------- MODULE ConsumersProofs ---------------------------
(***************************************************************************)
(* Theorems about Consumers: for any stages, releases, domains, runs and   *)
(* bounds, a running stage builds, an offboarded row left nothing behind,  *)
(* a live stage keeps what the unit has one of until its own removal, only *)
(* that removal takes it down, a change that ends stands, and a domain     *)
(* keeps its record.                                                       *)
(* The argument: the runs that write files, rows and addresses share one   *)
(* claim and those that write values another, so what a step established   *)
(* stands until its run ends; and how far a run is can be read off the     *)
(* length of what it has left, because its list only loses its head.       *)
(***************************************************************************)
EXTENDS Consumers, SequenceTheorems, WellFoundedInduction, TLAPS

\* The runs that claim the books, and the one kind that does not claim the master.
Valuers == {"release", "secrets", "restart"}
Bookers == {"onboard", "build-only", "standing-build", "ci-only", "offboard", "purge", "ci-offboard", "adopt",
            "suspend", "resume", "domain", "size"}
RunKinds == Bookers \cup Valuers

\* The steps that mark the file, that take it away, and that remove what the unit has one of.
Marks == {"mark-removing", "purge-mark-removing", "undo-mark-removing"}
Removes == {"remove-registration", "purge-remove-registration", "undo-remove-registration"}
TakesShared == {"remove-webhook", "remove-release-kit", "remove-repo-pat", "purge-remove-webhook",
                "purge-remove-release-kit", "purge-remove-repo-pat", "undo-webhook"}
TakesCi == {"ci-remove-webhook", "ci-remove-repo-pat"}
Kept == {"credential", "grant", "host"}
Shared == {"hook", "kit", "pat"}

\* How many steps of an onboarding come after record-provisional.
Half(p) == IF p.kind = "onboard" /\ p.from = TRUE THEN 20 ELSE 21

\* Step x of a run of kind k on its way forth has n steps after it (h as above).
Forth(k, h, n, x) ==
    \/ /\ k = "onboard"
       /\ \/ x \in {"attest-target", "preflight-scopes", "check"} /\ n > h
          \/ x = "record-provisional" /\ n = h
          \/ x = "clear-leftover-branch" /\ n = h - 1
          \/ x = "write-registration" /\ n = h - 2
          \/ x \in {"seed-secrets", "seed-postgres", "seed-mongodb", "seed-redis", "seed-mariadb", "seed-repo-pat",
                    "provision-repo-credential", "await-build-namespace", "provision-smtp-ops-grant", "provision-dns",
                    "inject-release-kit", "setup-webhook", "await-unit-fences", "put-release", "trigger-release",
                    "watch-release-build", "watch-deployment", "smoke", "record-inventory", "activate"} /\ n < h - 2
    \/ /\ k = "build-only"
       /\ x \in {"preflight-scopes", "check", "write-build-registration", "seed-repo-pat", "await-build-namespace",
                 "inject-release-kit", "setup-webhook", "trigger-release", "watch-release-build", "record-unit"}
    \/ /\ k = "standing-build"
       /\ x \in {"preflight-scopes", "check", "re-attest-builds", "inject-release-kit", "trigger-release",
                 "watch-release-build", "record-unit"}
    \/ /\ k = "ci-only"
       /\ x \in {"preflight-scopes", "write-build-registration", "seed-repo-pat", "await-build-namespace",
                 "setup-webhook", "record-unit"}
    \/ /\ k = "offboard"
       /\ \/ x = "attest-app" /\ n = 14
          \/ x = "mark-removing" /\ n = 13
          \/ x = "watch-removal" /\ n = 12
          \/ x = "remove-registration" /\ n = 11
          \/ x \in {"delete-repo-credential", "delete-smtp-ops-grant", "delete-namespace", "remove-dns",
                    "remove-webhook", "remove-release-kit", "remove-repo-pat", "remove-app-secrets",
                    "remove-database-secrets"} /\ n \in 2..10
          \/ x = "assert-no-orphans" /\ n = 1
          \/ x = "record-offboard" /\ n = 0
    \/ /\ k = "purge"
       /\ \/ x = "purge-attest-target" /\ n = 14
          \/ x = "purge-mark-removing" /\ n = 13
          \/ x = "purge-watch-removal" /\ n = 12
          \/ x = "purge-remove-registration" /\ n = 11
          \/ x \in {"purge-delete-repo-credential", "purge-delete-smtp-ops-grant", "purge-delete-namespace",
                    "purge-remove-webhook", "purge-remove-dns", "purge-remove-release-kit", "purge-remove-repo-pat",
                    "purge-remove-app-secrets", "purge-remove-database-secrets"} /\ n \in 2..10
          \/ x = "purge-assert-no-orphans" /\ n = 1
          \/ x = "record-purge" /\ n = 0
    \/ /\ k = "ci-offboard"
       /\ \/ x = "attest-ci-only" /\ n = 6
          \/ x \in {"ci-remove-webhook", "ci-remove-registration", "ci-watch-removal", "ci-remove-repo-pat",
                    "ci-assert-no-orphans", "record-unit"} /\ n < 6
    \/ /\ k = "adopt"
       /\ x \in {"adopt-attest-target", "read-pointer", "attest-live", "adopt-record-inventory"}
    \/ /\ k \in {"suspend", "resume"}
       /\ \/ x \in {"attest-app", "record-switch"} /\ n > 1
          \/ x = "switch-registration" /\ n = 1
          \/ x = "watch-converged" /\ n = 0
    \/ /\ k = "domain"
       /\ \/ x = "attest-app" /\ n = 3
          \/ x = "provision-domain-record" /\ n = 2
          \/ x = "write-domain" /\ n = 1
          \/ x = "retire-previous-domain" /\ n = 0
    \/ /\ k = "secrets"
       /\ \/ x \in {"attest-app", "write-secrets"} /\ n > 1
          \/ x = "refetch-secrets" /\ n = 1
          \/ x = "restart-workloads" /\ n = 0
    \/ k = "release" /\ x \in {"attest-app", "inject-release-kit", "put-release", "watch-delivery"}
    \/ k = "restart" /\ x \in {"attest-app", "restart-workloads"}
    \/ k = "size" /\ x \in {"attest-app", "write-size"}

\* The same on its way back.
Back(k, n, x) ==
    \/ /\ k = "onboard"
       /\ \/ x = "remove-ceremony-secrets" /\ n > 7
          \/ x = "undo-mark-removing" /\ n = 7
          \/ x = "undo-watch-prune" /\ n = 6
          \/ x = "undo-remove-registration" /\ n = 5
          \/ x = "undo-smtp-ops-grant" /\ n = 4
          \/ x = "undo-repo-credential" /\ n = 3
          \/ x = "remove-unit-dns" /\ n = 2
          \/ x = "undo-webhook" /\ n = 1
          \/ x = "settle-provisional-row" /\ n = 0
    \/ k \in {"build-only", "ci-only"} /\ x \in {"remove-build-registration", "remove-build-webhook"}
    \/ k = "domain" /\ x \in {"restore-domain", "remove-new-domain-record"}

\* How many steps a run of these kinds has at least when it is planned.
Full(k, h) ==
    IF k = "onboard" THEN h + 4
    ELSE IF k \in {"offboard", "purge"} THEN 15
    ELSE IF k = "ci-offboard" THEN 7
    ELSE IF k \in {"domain", "suspend", "resume", "secrets"} THEN 4 ELSE 0

-----------------------------------------------------------------------------
\* Types.

OnboardNames ==
    {"attest-target", "preflight-scopes", "check", "record-provisional", "clear-leftover-branch",
     "write-registration", "seed-secrets", "seed-postgres", "seed-mongodb", "seed-redis", "seed-mariadb",
     "seed-repo-pat", "provision-repo-credential", "await-build-namespace", "provision-smtp-ops-grant",
     "provision-dns", "inject-release-kit", "setup-webhook", "await-unit-fences", "put-release", "trigger-release",
     "watch-release-build", "watch-deployment", "smoke", "record-inventory", "activate",
     "write-build-registration", "re-attest-builds", "record-unit"}
RemovalNames ==
    {"attest-app", "mark-removing", "watch-removal", "remove-registration", "delete-repo-credential",
     "delete-smtp-ops-grant", "delete-namespace", "remove-dns", "remove-webhook", "remove-release-kit",
     "remove-repo-pat", "remove-app-secrets", "remove-database-secrets", "assert-no-orphans", "record-offboard",
     "attest-ci-only", "ci-remove-webhook", "ci-remove-registration", "ci-watch-removal", "ci-remove-repo-pat",
     "ci-assert-no-orphans", "record-unit"}
PurgeNames ==
    {"purge-attest-target", "purge-mark-removing", "purge-watch-removal", "purge-remove-registration",
     "purge-delete-repo-credential", "purge-delete-smtp-ops-grant", "purge-delete-namespace",
     "purge-remove-webhook", "purge-remove-dns", "purge-remove-release-kit", "purge-remove-repo-pat",
     "purge-remove-app-secrets", "purge-remove-database-secrets", "purge-assert-no-orphans", "record-purge"}
ChangeNames ==
    {"attest-app", "adopt-attest-target", "read-pointer", "attest-live", "adopt-record-inventory", "record-switch",
     "switch-registration", "watch-converged", "provision-domain-record", "write-domain",
     "retire-previous-domain", "inject-release-kit", "put-release", "watch-delivery", "write-secrets",
     "refetch-secrets", "restart-workloads", "write-size"}
UndoNames ==
    {"remove-ceremony-secrets", "undo-mark-removing", "undo-watch-prune", "undo-remove-registration",
     "undo-smtp-ops-grant", "undo-repo-credential", "remove-unit-dns", "undo-webhook", "settle-provisional-row",
     "remove-build-registration", "remove-build-webhook", "restore-domain", "remove-new-domain-record"}
StepNames == OnboardNames \cup RemovalNames \cup PurgeNames \cup ChangeNames \cup UndoNames

Rows == {"none", "provisioning", "offboarded"} \cup CONSUMER_LIVE_STATUS
FileType == [in : BOOLEAN, suspended : BOOLEAN, removing : BOOLEAN, fqdn : Domains, size : 0..1]
ValueType == [vault : 0..Foreign, secret : 0..Foreign, pod : 0..Foreign]
StageType ==
    [file : FileType, row : Rows, app : BOOLEAN, shown : [rel : {0} \cup Releases, off : BOOLEAN],
     objects : SUBSET StageObjects, entry : 0..Foreign, admin : BOOLEAN, branch : {0} \cup Releases,
     wanted : {0} \cup Releases, value : ValueType]
BuildType == [in : BOOLEAN, suspended : BOOLEAN, by : 0..Foreign, builds : BOOLEAN]
UnitType == [build : BuildType, objects : SUBSET UnitObjects]
ZoneType == [Domains -> Stages \cup {"free", "other"}]

StepType == [s : StepNames, g : Stages, by : {"own", "abort"}]
ParamType ==
    [kind : RunKinds, s : Stages, from : BOOLEAN \cup Domains, to : BOOLEAN \cup Domains \cup Releases \cup 0..1,
     id : 1..MaxPlans, ck : SUBSET {"dispatched", "wanted", "minted"}]
RunType ==
    [st : {"planned", "running", "failed"}, p : ParamType, claims : SUBSET consumerLocks,
     todo : Seq(StepType), armed : Seq(StepType), mem : SUBSET {"token", "tag"}, undo : BOOLEAN]

Types ==
    /\ stage \in [Stages -> StageType] /\ unit \in UnitType /\ zone \in ZoneType /\ scope \in Starts
    /\ used \in [plans : Nat, fails : Nat] /\ used.plans <= MaxPlans
    /\ run \in [Runs -> RunType \cup {Idle}]

-----------------------------------------------------------------------------
\* The inductive invariant.

Sound(t) ==
    /\ ~t.file.in => t.file = NoFile
    /\ t.entry = 0 => t.value.vault = 0
    /\ t.row = "offboarded" => ~t.file.in /\ t.objects \cap Kept = {}

\* A registered stage has its unit's build file, and a stage that runs has it running.
Builds == \A s \in Stages : stage[s].file.in => unit.build.in /\ (stage[s].file.suspended \/ ~unit.build.suspended)

Apart == \A q, r \in Runs : q # r /\ Holding(q) /\ Holding(r) => run[q].claims \cap run[r].claims = {}

Active(r) == run[r].st # "idle"

\* The parameters and the claims of each kind.
Planned(r) ==
    LET p == Param(r) IN
    /\ p.kind \in {"onboard", "build-only", "standing-build", "release"} => p.to \in Releases
    /\ p.kind \in {"suspend", "resume"} => p.to \in BOOLEAN
    /\ p.kind = "domain" => p.from \in Domains /\ p.to \in Domains
    /\ p.kind = "size" => p.to \in 0..1
    /\ p.kind \in Bookers => "books" \in run[r].claims
    /\ p.kind # "adopt" => "master-kube" \in run[r].claims

\* A list of a run's steps, forth or back.
ForthList(p, T) == \A i \in 1..Len(T) : Forth(p.kind, Half(p), Len(T) - i, T[i].s) /\ T[i].g = p.s
BackList(p, T) ==
    /\ \A i \in 1..Len(T) : Back(p.kind, Len(T) - i, T[i].s) /\ T[i].g = p.s

Lists(r) ==
    LET c == run[r] p == Param(r) IN
    /\ ~c.undo => ForthList(p, c.todo)
    /\ c.undo => BackList(p, c.todo)
    /\ BackList(p, c.armed)
    /\ p.kind = "onboard" /\ c.armed # <<>> => Len(c.armed) >= 8
    /\ c.undo /\ c.armed = <<>> => c.todo = <<>>
    /\ p.kind = "onboard" /\ ~c.undo /\ Len(c.todo) <= Half(p) - 2 => c.armed # <<>>
    /\ c.st = "planned" => ~c.undo /\ c.armed = <<>> /\ Len(c.todo) >= Full(p.kind, Half(p))

\* What the steps behind a run have done, for each kind.
Forward(r, kinds) == Holding(r) /\ ~run[r].undo /\ Param(r).kind \in kinds
Left(r) == Len(run[r].todo)

OnboardBehind(r) == LET t == stage[Param(r).s] IN
    Forward(r, {"onboard"}) => (Left(r) <= Half(Param(r)) => t.row # "offboarded")

UndoBehind(r) == LET t == stage[Param(r).s] IN
    (Holding(r) /\ run[r].undo /\ Param(r).kind = "onboard" /\ run[r].armed # <<>>) =>
        /\ ~Live(t)
        /\ Left(r) <= 7 => (t.file.in => t.file.removing)
        /\ Left(r) <= 6 => ~t.app
        /\ Left(r) <= 5 => ~t.file.in
        /\ Left(r) <= 4 => "grant" \notin t.objects
        /\ Left(r) <= 3 => "credential" \notin t.objects
        /\ Left(r) <= 2 => "host" \notin t.objects

OffboardBehind(r) == LET t == stage[Param(r).s] IN
    Forward(r, {"offboard"}) =>
        /\ Left(r) <= 13 => (t.file.in => t.file.removing)
        /\ Left(r) <= 12 => ~t.app

RemovalBehind(r) == LET t == stage[Param(r).s] IN
    Forward(r, {"offboard", "purge"}) =>
        /\ Left(r) <= 11 => ~t.file.in
        /\ Left(r) <= 1 => t.objects \cap Kept = {}

CiBehind(r) == Forward(r, {"ci-offboard"}) => (Left(r) <= 6 => readUnitStages = {})

SwitchBehind(r) == LET t == stage[Param(r).s] IN
    Forward(r, {"suspend", "resume"}) => (Left(r) <= 1 => t.file.suspended = Param(r).to)

DomainBehind(r) == LET t == stage[Param(r).s] IN
    Forward(r, {"domain"}) =>
        /\ Left(r) <= 2 /\ Param(r).to \in scope.zones => zone[Param(r).to] = Param(r).s
        /\ Left(r) <= 1 => t.file.fqdn = Param(r).to

SecretsBehind(r) == LET v == stage[Param(r).s].value IN
    Forward(r, {"secrets"}) =>
        /\ Left(r) <= 1 => v.secret \in {0, v.vault}
        /\ Left(r) <= 0 => v.pod \in {0, v.vault}

Behind(r) ==
    /\ OnboardBehind(r) /\ UndoBehind(r) /\ OffboardBehind(r) /\ RemovalBehind(r) /\ CiBehind(r)
    /\ SwitchBehind(r) /\ DomainBehind(r) /\ SecretsBehind(r)

IInv ==
    /\ Types /\ Builds /\ Apart
    /\ \A s \in Stages : Sound(stage[s])
    /\ \A r \in Runs : Active(r) => Planned(r) /\ Lists(r) /\ Behind(r)

-----------------------------------------------------------------------------
\* The step lists.

\* A larger set of names has more lists.
LEMMA MoreNames ==
    ASSUME NEW S, NEW T, S \subseteq T, NEW L \in Seq(S)
    PROVE  L \in Seq(T)
OBVIOUS

\* What Steps and Undoing make of a list of names.
LEMMA StepsIs ==
    ASSUME NEW s \in Stages, NEW L \in Seq(StepNames)
    PROVE  /\ Steps(s, L) \in Seq(StepType) /\ Len(Steps(s, L)) = Len(L)
           /\ \A i \in 1..Len(L) : Steps(s, L)[i].s = L[i] /\ Steps(s, L)[i].g = s
<1>1. DOMAIN L = 1..Len(L) /\ Len(L) \in Nat /\ \A i \in 1..Len(L) : L[i] \in StepNames
  OBVIOUS
<1>2. Steps(s, L) = [i \in 1..Len(L) |-> [s |-> L[i], g |-> s, by |-> "own"]]
  BY <1>1 DEF Steps
<1>3. \A i \in 1..Len(L) : [s |-> L[i], g |-> s, by |-> "own"] \in StepType
  BY <1>1 DEF StepType
<1> QED
  BY <1>1, <1>2, <1>3

\* The same of a list of cleanups.
LEMMA UndoingIs ==
    ASSUME NEW s \in Stages, NEW L \in Seq(StepNames)
    PROVE  /\ Undoing(s, L) \in Seq(StepType) /\ Len(Undoing(s, L)) = Len(L)
           /\ \A i \in 1..Len(L) : Undoing(s, L)[i].s = L[i] /\ Undoing(s, L)[i].g = s
<1>1. DOMAIN L = 1..Len(L) /\ Len(L) \in Nat /\ \A i \in 1..Len(L) : L[i] \in StepNames
  OBVIOUS
<1>2. Undoing(s, L) = [i \in 1..Len(L) |-> [s |-> L[i], g |-> s, by |-> "abort"]]
  BY <1>1 DEF Undoing
<1>3. \A i \in 1..Len(L) : [s |-> L[i], g |-> s, by |-> "abort"] \in StepType
  BY <1>1 DEF StepType
<1> QED
  BY <1>1, <1>2, <1>3

\* L is the list of a run of kind k.
ForthNames(k, h, L) ==
    /\ L \in Seq(StepNames) /\ Len(L) >= Full(k, h)
    /\ \A i \in 1..Len(L) : Forth(k, h, Len(L) - i, L[i])

\* The lists of the three removals.
LEMMA OffboardList == ForthNames("offboard", 21, offboardSteps)
<1>1. offboardSteps \in Seq(RemovalNames) /\ Len(offboardSteps) = 15
  BY DEF offboardSteps, RemovalNames
<1>2. offboardSteps \in Seq(StepNames)
  BY <1>1, MoreNames DEF StepNames
<1>3. \A i \in 1..15 : Forth("offboard", 21, 15 - i, offboardSteps[i])
  BY DEF Forth, offboardSteps
<1> QED
  BY <1>1, <1>2, <1>3 DEF ForthNames, Full

\* The purge.
LEMMA PurgeList == ForthNames("purge", 21, purgeSteps)
<1>1. purgeSteps \in Seq(PurgeNames) /\ Len(purgeSteps) = 15
  BY DEF purgeSteps, PurgeNames
<1>2. purgeSteps \in Seq(StepNames)
  BY <1>1, MoreNames DEF StepNames
<1>3. \A i \in 1..15 : Forth("purge", 21, 15 - i, purgeSteps[i])
  BY DEF Forth, purgeSteps
<1> QED
  BY <1>1, <1>2, <1>3 DEF ForthNames, Full

\* The removal of a CI-only unit.
LEMMA CiOffboardList == ForthNames("ci-offboard", 21, offboardCiOnlySteps)
<1>1. offboardCiOnlySteps \in Seq(RemovalNames) /\ Len(offboardCiOnlySteps) = 7
  BY DEF offboardCiOnlySteps, RemovalNames
<1>2. offboardCiOnlySteps \in Seq(StepNames)
  BY <1>1, MoreNames DEF StepNames
<1>3. \A i \in 1..7 : Forth("ci-offboard", 21, 7 - i, offboardCiOnlySteps[i])
  BY DEF Forth, offboardCiOnlySteps
<1> QED
  BY <1>1, <1>2, <1>3 DEF ForthNames, Full

\* The lists of the changes of a standing consumer.
LEMMA ChangeLists ==
    /\ ForthNames("adopt", 21, <<"adopt-attest-target", "read-pointer", "attest-live", "adopt-record-inventory">>)
    /\ \A k \in {"suspend", "resume"} :
           ForthNames(k, 21, <<"attest-app", "record-switch", "switch-registration", "watch-converged">>)
    /\ ForthNames("domain", 21, <<"attest-app", "provision-domain-record", "write-domain", "retire-previous-domain">>)
    /\ ForthNames("release", 21, <<"attest-app", "inject-release-kit", "put-release", "watch-delivery">>)
    /\ ForthNames("secrets", 21, <<"attest-app", "write-secrets", "refetch-secrets", "restart-workloads">>)
    /\ ForthNames("size", 21, <<"attest-app", "write-size">>)
    /\ ForthNames("restart", 21, <<"attest-app", "restart-workloads">>)
<1>0. ASSUME NEW L \in Seq(ChangeNames) PROVE L \in Seq(StepNames)
  BY MoreNames DEF StepNames
<1>1. ForthNames("adopt", 21, <<"adopt-attest-target", "read-pointer", "attest-live", "adopt-record-inventory">>)
  <2> DEFINE L == <<"adopt-attest-target", "read-pointer", "attest-live", "adopt-record-inventory">>
  <2>1. L \in Seq(ChangeNames) /\ Len(L) = 4 /\ \A i \in 1..4 : Forth("adopt", 21, 4 - i, L[i])
    BY DEF ChangeNames, Forth
  <2> HIDE DEF L
  <2>2. ForthNames("adopt", 21, L)
    BY <1>0, <2>1 DEF ForthNames, Full
  <2> QED
    BY <2>2 DEF L
<1>2. ASSUME NEW k \in {"suspend", "resume"}
      PROVE  ForthNames(k, 21, <<"attest-app", "record-switch", "switch-registration", "watch-converged">>)
  <2> DEFINE L == <<"attest-app", "record-switch", "switch-registration", "watch-converged">>
  <2>1. L \in Seq(ChangeNames) /\ Len(L) = 4 /\ \A i \in 1..4 : Forth(k, 21, 4 - i, L[i])
    BY DEF ChangeNames, Forth
  <2> HIDE DEF L
  <2>2. ForthNames(k, 21, L)
    BY <1>0, <2>1 DEF ForthNames, Full
  <2> QED
    BY <2>2 DEF L
<1>3. ForthNames("domain", 21, <<"attest-app", "provision-domain-record", "write-domain", "retire-previous-domain">>)
  <2> DEFINE L == <<"attest-app", "provision-domain-record", "write-domain", "retire-previous-domain">>
  <2>1. L \in Seq(ChangeNames) /\ Len(L) = 4 /\ \A i \in 1..4 : Forth("domain", 21, 4 - i, L[i])
    BY DEF ChangeNames, Forth
  <2> HIDE DEF L
  <2>2. ForthNames("domain", 21, L)
    BY <1>0, <2>1 DEF ForthNames, Full
  <2> QED
    BY <2>2 DEF L
<1>4. ForthNames("release", 21, <<"attest-app", "inject-release-kit", "put-release", "watch-delivery">>)
  <2> DEFINE L == <<"attest-app", "inject-release-kit", "put-release", "watch-delivery">>
  <2>1. L \in Seq(ChangeNames) /\ Len(L) = 4 /\ \A i \in 1..4 : Forth("release", 21, 4 - i, L[i])
    BY DEF ChangeNames, Forth
  <2> HIDE DEF L
  <2>2. ForthNames("release", 21, L)
    BY <1>0, <2>1 DEF ForthNames, Full
  <2> QED
    BY <2>2 DEF L
<1>5. ForthNames("secrets", 21, <<"attest-app", "write-secrets", "refetch-secrets", "restart-workloads">>)
  <2> DEFINE L == <<"attest-app", "write-secrets", "refetch-secrets", "restart-workloads">>
  <2>1. L \in Seq(ChangeNames) /\ Len(L) = 4 /\ \A i \in 1..4 : Forth("secrets", 21, 4 - i, L[i])
    BY DEF ChangeNames, Forth
  <2> HIDE DEF L
  <2>2. ForthNames("secrets", 21, L)
    BY <1>0, <2>1 DEF ForthNames, Full
  <2> QED
    BY <2>2 DEF L
<1>6. ForthNames("size", 21, <<"attest-app", "write-size">>)
  <2> DEFINE L == <<"attest-app", "write-size">>
  <2>1. L \in Seq(ChangeNames) /\ Len(L) = 2 /\ \A i \in 1..2 : Forth("size", 21, 2 - i, L[i])
    BY DEF ChangeNames, Forth
  <2> HIDE DEF L
  <2>2. ForthNames("size", 21, L)
    BY <1>0, <2>1 DEF ForthNames, Full
  <2> QED
    BY <2>2 DEF L
<1>7. ForthNames("restart", 21, <<"attest-app", "restart-workloads">>)
  <2> DEFINE L == <<"attest-app", "restart-workloads">>
  <2>1. L \in Seq(ChangeNames) /\ Len(L) = 2 /\ \A i \in 1..2 : Forth("restart", 21, 2 - i, L[i])
    BY DEF ChangeNames, Forth
  <2> HIDE DEF L
  <2>2. ForthNames("restart", 21, L)
    BY <1>0, <2>1 DEF ForthNames, Full
  <2> QED
    BY <2>2 DEF L
<1> QED
  BY <1>1, <1>2, <1>3, <1>4, <1>5, <1>6, <1>7

\* The CI-only onboarding.
LEMMA CiOnlyList == ForthNames("ci-only", 21, ciOnlySteps)
<1>1. ciOnlySteps \in Seq(OnboardNames) /\ Len(ciOnlySteps) = 6
  BY DEF ciOnlySteps, OnboardNames
<1>2. ciOnlySteps \in Seq(StepNames)
  BY <1>1, MoreNames DEF StepNames
<1>3. \A i \in 1..6 : Forth("ci-only", 21, 6 - i, ciOnlySteps[i])
  BY DEF Forth, ciOnlySteps
<1> QED
  BY <1>1, <1>2, <1>3 DEF ForthNames, Full

\* What a concatenation is, index by index.
LEMMA CatIs ==
    ASSUME NEW S, NEW a \in Seq(S), NEW b \in Seq(S)
    PROVE  /\ a \o b \in Seq(S) /\ Len(a \o b) = Len(a) + Len(b) /\ Len(a) \in Nat /\ Len(b) \in Nat
           /\ \A i \in 1..Len(a) : (a \o b)[i] = a[i]
           /\ \A i \in 1..(Len(a) + Len(b)) : i \in 1..Len(a) \/ (i - Len(a) \in 1..Len(b) /\ (a \o b)[i] = b[i - Len(a)])
<1>1. a \o b \in Seq(S) /\ Len(a \o b) = Len(a) + Len(b) /\ Len(a) \in Nat /\ Len(b) \in Nat
  OBVIOUS
<1>2. \A i \in 1..Len(a) : (a \o b)[i] = a[i]
  BY <1>1
<1>3. \A i \in 1..(Len(a) + Len(b)) : i \in 1..Len(a) \/ (i - Len(a) \in 1..Len(b) /\ (a \o b)[i] = b[i - Len(a)])
  BY <1>1
<1> QED
  BY <1>1, <1>2, <1>3

\* Three parts of a list of steps, each known with what comes after it.
Parts(k, h, a, b, c) ==
    /\ a \in Seq(StepNames) /\ b \in Seq(StepNames) /\ c \in Seq(StepNames)
    /\ Len(a) + Len(b) + Len(c) >= Full(k, h)
    /\ \A i \in 1..Len(a) : Forth(k, h, Len(a) + Len(b) + Len(c) - i, a[i])
    /\ \A i \in 1..Len(b) : Forth(k, h, Len(b) + Len(c) - i, b[i])
    /\ \A i \in 1..Len(c) : Forth(k, h, Len(c) - i, c[i])

\* Three parts that fit make a list of the kind.
LEMMA PartsMake ==
    ASSUME NEW k, NEW h, NEW a, NEW b, NEW c, Parts(k, h, a, b, c)
    PROVE  ForthNames(k, h, (a \o b) \o c)
<1>0. a \in Seq(StepNames) /\ b \in Seq(StepNames) /\ c \in Seq(StepNames)
  BY DEF Parts
<1> DEFINE d == a \o b
<1>1. /\ Len(d) = Len(a) + Len(b) /\ Len(a) \in Nat /\ Len(b) \in Nat /\ d \in Seq(StepNames)
      /\ \A i \in 1..Len(a) : d[i] = a[i]
      /\ \A i \in 1..(Len(a) + Len(b)) : i \in 1..Len(a) \/ (i - Len(a) \in 1..Len(b) /\ d[i] = b[i - Len(a)])
  BY <1>0, CatIs
<1> HIDE DEF d
<1>d. d \in Seq(StepNames)
  BY <1>1
<1>2. /\ Len(d \o c) = Len(d) + Len(c) /\ Len(c) \in Nat /\ d \o c \in Seq(StepNames)
      /\ \A i \in 1..Len(d) : (d \o c)[i] = d[i]
      /\ \A i \in 1..(Len(d) + Len(c)) : i \in 1..Len(d) \/ (i - Len(d) \in 1..Len(c) /\ (d \o c)[i] = c[i - Len(d)])
  BY <1>0, <1>d, CatIs
<1>3. ASSUME NEW i \in 1..(Len(d) + Len(c)) PROVE Forth(k, h, Len(a) + Len(b) + Len(c) - i, (d \o c)[i])
  <2>1. CASE i \in 1..Len(d) /\ i \in 1..Len(a)
    BY <1>1, <1>2, <2>1 DEF Parts
  <2>2. CASE i \in 1..Len(d) /\ i - Len(a) \in 1..Len(b) /\ d[i] = b[i - Len(a)]
    <3>1. Len(b) + Len(c) - (i - Len(a)) = Len(a) + Len(b) + Len(c) - i
      BY <1>1, <1>2
    <3> QED
      BY <1>2, <2>2, <3>1 DEF Parts
  <2>3. CASE i - Len(d) \in 1..Len(c) /\ (d \o c)[i] = c[i - Len(d)]
    <3>1. Len(c) - (i - Len(d)) = Len(a) + Len(b) + Len(c) - i
      BY <1>1, <1>2
    <3> QED
      BY <2>3, <3>1 DEF Parts
  <2> QED
    BY <1>1, <1>2, <2>1, <2>2, <2>3
<1>4. ForthNames(k, h, d \o c)
  BY <1>1, <1>2, <1>3 DEF ForthNames, Parts
<1> QED
  BY <1>4 DEF d

\* The lists of an onboarding that builds.
LEMMA BuildOnlyList == ForthNames("build-only", 21, buildOnlySteps)
<1> DEFINE a == <<"preflight-scopes", "check", "write-build-registration", "seed-repo-pat", "await-build-namespace",
                  "inject-release-kit", "setup-webhook">>
           b == <<"trigger-release", "watch-release-build">>
           c == <<"record-unit">>
<1>1. buildOnlySteps = (a \o b) \o c
  BY DEF buildOnlySteps, releaseSteps
<1>2. a \in Seq(OnboardNames) /\ b \in Seq(OnboardNames) /\ c \in Seq(OnboardNames)
      /\ Len(a) = 7 /\ Len(b) = 2 /\ Len(c) = 1
  BY DEF OnboardNames
<1>3. /\ \A i \in 1..7 : Forth("build-only", 21, 7 + 2 + 1 - i, a[i])
      /\ \A i \in 1..2 : Forth("build-only", 21, 2 + 1 - i, b[i])
      /\ \A i \in 1..1 : Forth("build-only", 21, 1 - i, c[i])
  BY DEF Forth
<1> HIDE DEF a, b, c
<1>4. a \in Seq(StepNames) /\ b \in Seq(StepNames) /\ c \in Seq(StepNames)
  BY <1>2, MoreNames DEF StepNames
<1>5. Parts("build-only", 21, a, b, c)
  BY <1>2, <1>3, <1>4 DEF Parts, Full
<1>6. ForthNames("build-only", 21, (a \o b) \o c)
  BY <1>5, PartsMake, Zenon
<1> QED
  BY <1>1, <1>6, Zenon

\* The standing build-only unit again.
LEMMA StandingBuildList == ForthNames("standing-build", 21, standingBuildOnlySteps)
<1> DEFINE a == <<"preflight-scopes", "check", "re-attest-builds", "inject-release-kit">>
           b == <<"trigger-release", "watch-release-build">>
           c == <<"record-unit">>
<1>1. standingBuildOnlySteps = (a \o b) \o c
  BY DEF standingBuildOnlySteps, releaseSteps
<1>2. a \in Seq(OnboardNames) /\ b \in Seq(OnboardNames) /\ c \in Seq(OnboardNames)
      /\ Len(a) = 4 /\ Len(b) = 2 /\ Len(c) = 1
  BY DEF OnboardNames
<1>3. /\ \A i \in 1..4 : Forth("standing-build", 21, 4 + 2 + 1 - i, a[i])
      /\ \A i \in 1..2 : Forth("standing-build", 21, 2 + 1 - i, b[i])
      /\ \A i \in 1..1 : Forth("standing-build", 21, 1 - i, c[i])
  BY DEF Forth
<1> HIDE DEF a, b, c
<1>4. a \in Seq(StepNames) /\ b \in Seq(StepNames) /\ c \in Seq(StepNames)
  BY <1>2, MoreNames DEF StepNames
<1>5. Parts("standing-build", 21, a, b, c)
  BY <1>2, <1>3, <1>4 DEF Parts, Full
<1>6. ForthNames("standing-build", 21, (a \o b) \o c)
  BY <1>5, PartsMake, Zenon
<1> QED
  BY <1>1, <1>6, Zenon

\* The list of a deployable onboarding, of an existing release and of a new one.
LEMMA OnboardList ==
    ForthNames("onboard", 20, deployableSteps(TRUE)) /\ ForthNames("onboard", 21, deployableSteps(FALSE))
<1> DEFINE a == <<"attest-target", "preflight-scopes", "check", "record-provisional", "clear-leftover-branch",
                  "write-registration", "seed-secrets", "seed-postgres", "seed-mongodb", "seed-redis", "seed-mariadb",
                  "seed-repo-pat", "provision-repo-credential",
                  "await-build-namespace", "provision-smtp-ops-grant", "provision-dns", "inject-release-kit",
                  "setup-webhook", "await-unit-fences">>
           b == <<"trigger-release", "watch-release-build">>
           d == <<"put-release">>
           c == <<"watch-deployment", "smoke", "record-inventory", "activate">>
<1>1. deployableSteps(TRUE) = (a \o d) \o c /\ deployableSteps(FALSE) = (a \o b) \o c
  BY DEF deployableSteps, releaseSteps
<1>2. a \in Seq(OnboardNames) /\ b \in Seq(OnboardNames) /\ c \in Seq(OnboardNames) /\ d \in Seq(OnboardNames)
      /\ Len(a) = 19 /\ Len(b) = 2 /\ Len(c) = 4 /\ Len(d) = 1
  BY DEF OnboardNames
<1>3. \A i \in 1..19 : Forth("onboard", 20, 19 + 1 + 4 - i, a[i]) /\ Forth("onboard", 21, 19 + 2 + 4 - i, a[i])
  BY DEF Forth
<1>4. ASSUME NEW h \in {20, 21}
      PROVE  /\ \A i \in 1..2 : Forth("onboard", h, 2 + 4 - i, b[i])
             /\ \A i \in 1..1 : Forth("onboard", h, 1 + 4 - i, d[i])
             /\ \A i \in 1..4 : Forth("onboard", h, 4 - i, c[i])
  BY DEF Forth
<1> HIDE DEF a, b, c, d
<1>5. a \in Seq(StepNames) /\ b \in Seq(StepNames) /\ c \in Seq(StepNames) /\ d \in Seq(StepNames)
  BY <1>2, MoreNames DEF StepNames
<1>6. Parts("onboard", 20, a, d, c) /\ Parts("onboard", 21, a, b, c)
  BY <1>2, <1>3, <1>4, <1>5 DEF Parts, Full
<1>7. ForthNames("onboard", 20, (a \o d) \o c) /\ ForthNames("onboard", 21, (a \o b) \o c)
  BY <1>6, PartsMake, Zenon
<1> QED
  BY <1>1, <1>7, Zenon

\* The cleanups an onboarding registers.
LEMMA CleanupList ==
    ASSUME NEW s \in Stages
    PROVE  /\ deployableOnboardCleanups(s) \in Seq(StepType) /\ Len(deployableOnboardCleanups(s)) = 8
           /\ \A i \in 1..8 : /\ Back("onboard", 8 - i, deployableOnboardCleanups(s)[i].s)
                              /\ deployableOnboardCleanups(s)[i].g = s
<1> DEFINE L == <<"undo-mark-removing", "undo-watch-prune", "undo-remove-registration", "undo-smtp-ops-grant",
                  "undo-repo-credential", "remove-unit-dns", "undo-webhook", "settle-provisional-row">>
<1>1. L \in Seq(UndoNames) /\ Len(L) = 8 /\ \A i \in 1..8 : Back("onboard", 8 - i, L[i])
  BY DEF UndoNames, Back
<1>2. deployableOnboardCleanups(s) = Undoing(s, L)
  BY DEF deployableOnboardCleanups
<1> HIDE DEF L
<1>3. L \in Seq(StepNames)
  BY <1>1, MoreNames DEF StepNames
<1> QED
  BY <1>1, <1>2, <1>3, UndoingIs

\* One cleanup before others: of an onboarding that has all eight, or of a change of domain.
LEMMA UndoBefore ==
    ASSUME NEW s \in Stages, NEW x \in UndoNames, NEW T \in Seq(StepType)
    PROVE  LET U == Undoing(s, <<x>>) \o T IN
           /\ U \in Seq(StepType) /\ Len(U) = Len(T) + 1 /\ Len(T) \in Nat /\ U # <<>>
           /\ U[1].s = x /\ U[1].g = s
           /\ \A i \in 1..Len(U) : i = 1 \/ (i - 1 \in 1..Len(T) /\ U[i] = T[i - 1])
<1> DEFINE L == <<x>>
           A == Undoing(s, L)
<1>1. L \in Seq(UndoNames) /\ Len(L) = 1 /\ L[1] = x
  OBVIOUS
<1> HIDE DEF L
<1>0. L \in Seq(StepNames)
  BY <1>1, MoreNames DEF StepNames
<1>2. A \in Seq(StepType) /\ Len(A) = 1 /\ A[1].s = x /\ A[1].g = s
  BY <1>0, <1>1, UndoingIs
<1> HIDE DEF A
<1>3. /\ Len(A \o T) = Len(A) + Len(T) /\ Len(T) \in Nat /\ A \o T \in Seq(StepType)
      /\ \A i \in 1..Len(A) : (A \o T)[i] = A[i]
      /\ \A i \in 1..(Len(A) + Len(T)) : i \in 1..Len(A) \/ (i - Len(A) \in 1..Len(T) /\ (A \o T)[i] = T[i - Len(A)])
  BY <1>2, CatIs
<1>4. A \o T # <<>>
  BY <1>2, <1>3
<1>5. /\ A \o T \in Seq(StepType) /\ Len(A \o T) = Len(T) + 1 /\ (A \o T)[1].s = x /\ (A \o T)[1].g = s
      /\ \A i \in 1..Len(A \o T) : i = 1 \/ (i - 1 \in 1..Len(T) /\ (A \o T)[i] = T[i - 1])
  BY <1>2, <1>3
<1> QED
  BY <1>3, <1>4, <1>5 DEF A, L

\* The cleanups of a build-only onboarding.
LEMMA BuildCleanups ==
    ASSUME NEW s \in Stages
    PROVE  LET U == Undoing(s, <<"remove-build-registration", "remove-build-webhook">>) IN
           /\ U \in Seq(StepType) /\ Len(U) = 2
           /\ \A i \in 1..2 : U[i].s \in {"remove-build-registration", "remove-build-webhook"} /\ U[i].g = s
<1> DEFINE L == <<"remove-build-registration", "remove-build-webhook">>
<1>1. L \in Seq(UndoNames) /\ Len(L) = 2 /\ \A i \in 1..2 : L[i] \in {"remove-build-registration", "remove-build-webhook"}
  BY DEF UndoNames
<1> HIDE DEF L
<1>2. L \in Seq(StepNames)
  BY <1>1, MoreNames DEF StepNames
<1>3. /\ Undoing(s, L) \in Seq(StepType) /\ Len(Undoing(s, L)) = 2
      /\ \A i \in 1..2 : Undoing(s, L)[i].s \in {"remove-build-registration", "remove-build-webhook"} /\ Undoing(s, L)[i].g = s
  BY <1>1, <1>2, UndoingIs
<1> QED
  BY <1>3 DEF L

\* What is left of a list after its first step.
LEMMA TailList ==
    ASSUME NEW T \in Seq(StepType), T # <<>>
    PROVE  /\ Tail(T) \in Seq(StepType) /\ Head(T) = T[1] /\ Head(T) \in StepType
           /\ Len(T) \in Nat /\ Len(T) >= 1 /\ Len(Tail(T)) = Len(T) - 1
           /\ \A i \in 1..Len(Tail(T)) : i + 1 \in 1..Len(T) /\ Tail(T)[i] = T[i + 1]
<1>1. Tail(T) \in Seq(StepType) /\ Head(T) = T[1] /\ Len(T) \in Nat /\ Len(T) # 0 /\ DOMAIN T = 1..Len(T)
      /\ Len(Tail(T)) = Len(T) - 1
  OBVIOUS
<1>2. \A i \in 1..(Len(T) - 1) : Tail(T)[i] = T[i + 1]
  BY <1>1
<1>3. T[1] \in StepType
  BY <1>1
<1> QED
  BY <1>1, <1>2, <1>3

-----------------------------------------------------------------------------
\* What a step does to its run: it moves on, or it stays where it stands.

Same(c, d) ==
    /\ d.p.kind = c.p.kind /\ d.p.s = c.p.s /\ d.p.from = c.p.from /\ d.p.to = c.p.to
    /\ d.claims = c.claims /\ d.undo = c.undo

Moved(r, armed) ==
    /\ run' \in [Runs -> RunType \cup {Idle}] /\ used' \in [plans : Nat, fails : Nat] /\ used'.plans = used.plans
    /\ \A q \in Runs : q # r => run'[q] = run[q]
    /\ run'[r] \in RunType /\ Same(run[r], run'[r]) /\ run'[r].armed = armed
    /\ run'[r].st \in {"running", "failed"}
    /\ run'[r].todo = Tail(run[r].todo) \/ run'[r].todo = run[r].todo

\* A slot that is used holds a run, which is told apart from one that is not.
LEMMA ActiveType ==
    ASSUME Types, NEW r \in Runs, Active(r)
    PROVE  run[r] \in RunType
BY DEF Types, Active, Idle

\* A slot that no run uses is no run.
LEMMA IdleType == Idle \notin RunType /\ \A x \in RunType : x.st \in {"planned", "running", "failed"}
BY DEF Idle, RunType

\* A record that differs from the run's in what a step may set.
LEMMA RecordMoves ==
    ASSUME Types, NEW r \in Runs, run[r].st = "running", run[r].todo # <<>>,
           NEW rec \in RunType, Same(run[r], rec), rec.st \in {"running", "failed"},
           rec.todo = Tail(run[r].todo) \/ rec.todo = run[r].todo,
           run' = [run EXCEPT ![r] = rec], used' = used \/ used' = [used EXCEPT !.fails = @ + 1]
    PROVE  Moved(r, rec.armed)
<1>1. used' \in [plans : Nat, fails : Nat] /\ used'.plans = used.plans
  BY DEF Types
<1>2. run \in [Runs -> RunType \cup {Idle}]
  BY DEF Types
<1> QED
  BY <1>1, <1>2 DEF Moved

\* A step that throws leaves its run where it stands.
LEMMA FailsMoves ==
    ASSUME Types, NEW r \in Runs, run[r].st = "running", run[r].todo # <<>>,
           NEW rec \in RunType, Same(run[r], rec), rec.todo = run[r].todo, Fails(r, rec)
    PROVE  Moved(r, rec.armed) /\ run'[r].todo = run[r].todo
<1> DEFINE out == [rec EXCEPT !.st = "failed", !.mem = {}]
<1>1. out \in RunType /\ Same(run[r], out) /\ out.armed = rec.armed /\ out.st = "failed" /\ out.todo = run[r].todo
  BY DEF RunType, Same
<1>2. run' = [run EXCEPT ![r] = out] /\ used' = [used EXCEPT !.fails = @ + 1]
  BY DEF Fails
<1> HIDE DEF out
<1>3. Moved(r, out.armed)
  BY <1>1, <1>2, RecordMoves
<1>4. run'[r] = out
  BY <1>2 DEF Types
<1> QED
  BY <1>1, <1>3, <1>4

\* A step that ends leaves its run there, or one step further.
LEMMA SettlesMoves ==
    ASSUME Types, NEW r \in Runs, run[r].st = "running", run[r].todo # <<>>,
           NEW rec \in RunType, Same(run[r], rec), rec.todo = run[r].todo, rec.st = "running", Settles(r, rec)
    PROVE  Moved(r, rec.armed)
<1>1. run[r] \in RunType /\ run[r].todo \in Seq(StepType)
  BY ActiveType DEF Active, RunType
<1>2. Tail(run[r].todo) \in Seq(StepType)
  BY <1>1, TailList
<1> DEFINE on == [rec EXCEPT !.todo = Tail(@)]
<1>3. on \in RunType /\ Same(run[r], on) /\ on.armed = rec.armed /\ on.st = "running" /\ on.todo = Tail(run[r].todo)
  BY <1>2 DEF RunType, Same
<1>4. (run' = [run EXCEPT ![r] = on] /\ used' = used) \/ Fails(r, rec)
  BY DEF Settles
<1> HIDE DEF on
<1>5. CASE run' = [run EXCEPT ![r] = on] /\ used' = used
  BY <1>3, <1>5, RecordMoves
<1> QED
  BY <1>4, <1>5, FailsMoves

\* Each way a step ends moves its run.
LEMMA DoneMoves ==
    ASSUME Types, NEW r \in Runs, run[r].st = "running", run[r].todo # <<>>
    PROVE  /\ Done(r) => Moved(r, run[r].armed)
           /\ \A c \in Seq(StepType) : DoneArmed(r, c) => Moved(r, c)
           /\ \A c \in Seq(StepType) : Fails(r, [run[r] EXCEPT !.armed = c]) => Moved(r, c)
           /\ DoneRemembering(r, "tag") => Moved(r, run[r].armed)
           /\ Fails(r, run[r]) => Moved(r, run[r].armed)
           /\ \A m \in {"wanted", "minted"} : Fails(r, [run[r] EXCEPT !.p.ck = @ \cup {m}]) => Moved(r, run[r].armed)
           /\ Settles(r, [run[r] EXCEPT !.p.ck = @ \cup {"minted"}]) => Moved(r, run[r].armed)
<1>1. run[r] \in RunType /\ Same(run[r], run[r])
  BY ActiveType DEF Active, Same
<1>2. Done(r) => Moved(r, run[r].armed)
  BY <1>1, SettlesMoves DEF Done
<1>3. ASSUME NEW c \in Seq(StepType)
      PROVE  (DoneArmed(r, c) => Moved(r, c)) /\ (Fails(r, [run[r] EXCEPT !.armed = c]) => Moved(r, c))
  <2> DEFINE rec == [run[r] EXCEPT !.armed = c]
  <2>1. rec \in RunType /\ Same(run[r], rec) /\ rec.todo = run[r].todo /\ rec.st = run[r].st /\ rec.armed = c
    BY <1>1 DEF RunType, Same
  <2>2. DoneArmed(r, c) => Settles(r, rec)
    BY DEF DoneArmed
  <2> HIDE DEF rec
  <2>3. (DoneArmed(r, c) => Moved(r, c)) /\ (Fails(r, rec) => Moved(r, c))
    BY <2>1, <2>2, SettlesMoves, FailsMoves
  <2> QED
    BY <2>3 DEF rec
<1>4. ASSUME DoneRemembering(r, "tag") PROVE Moved(r, run[r].armed)
  <2> DEFINE rec == [run[r] EXCEPT !.mem = @ \cup {"tag"}]
  <2>1. rec \in RunType /\ Same(run[r], rec) /\ rec.todo = run[r].todo /\ rec.st = run[r].st /\ rec.armed = run[r].armed
    BY <1>1 DEF RunType, Same
  <2>2. Settles(r, rec)
    BY <1>4 DEF DoneRemembering
  <2> HIDE DEF rec
  <2> QED
    BY <2>1, <2>2, SettlesMoves
<1>5. Fails(r, run[r]) => Moved(r, run[r].armed)
  BY <1>1, FailsMoves
<1>6. ASSUME NEW m \in {"wanted", "minted"}
      PROVE  /\ Fails(r, [run[r] EXCEPT !.p.ck = @ \cup {m}]) => Moved(r, run[r].armed)
             /\ Settles(r, [run[r] EXCEPT !.p.ck = @ \cup {m}]) => Moved(r, run[r].armed)
  <2> DEFINE rec == [run[r] EXCEPT !.p.ck = @ \cup {m}]
  <2>0. run[r].p \in ParamType
    BY <1>1 DEF RunType
  <2> DEFINE pp == [run[r].p EXCEPT !.ck = @ \cup {m}]
  <2>p. pp \in ParamType /\ pp.kind = run[r].p.kind /\ pp.s = run[r].p.s /\ pp.from = run[r].p.from /\ pp.to = run[r].p.to
    BY <2>0 DEF ParamType
  <2>r. rec = [run[r] EXCEPT !.p = pp]
    BY <1>1 DEF RunType
  <2> HIDE DEF pp
  <2>1. rec \in RunType /\ Same(run[r], rec) /\ rec.todo = run[r].todo /\ rec.st = run[r].st /\ rec.armed = run[r].armed
    BY <1>1, <2>p, <2>r DEF RunType, Same
  <2> HIDE DEF rec
  <2>3. (Settles(r, rec) => Moved(r, run[r].armed)) /\ (Fails(r, rec) => Moved(r, run[r].armed))
    BY <2>1, SettlesMoves, FailsMoves
  <2> QED
    BY <2>3 DEF rec
<1> QED
  BY <1>2, <1>3, <1>4, <1>5, <1>6

-----------------------------------------------------------------------------
\* What a step named x of a run of parameters p does to its stage: t before it, u after it.

Filers == Marks \cup Removes \cup {"write-registration", "switch-registration", "write-domain", "restore-domain", "write-size"}

FileSet(p, x, t, u) ==
    /\ x \notin Filers => u.file = t.file
    /\ x = "write-registration" =>
           u.file = t.file \/ (u.file.in /\ ~u.file.suspended /\ ~u.file.removing /\ u.file.fqdn = t.file.fqdn)
    /\ x \in Marks => \/ ~t.file.in /\ u.file = t.file
                      \/ t.file.in /\ u.file.in /\ u.file.removing /\ u.file.suspended = t.file.suspended
                         /\ u.file.fqdn = t.file.fqdn
    /\ x \in Removes => ~u.file.in /\ (u.file = NoFile \/ u.file = t.file)
    /\ x = "switch-registration" => /\ t.file.in /\ u.file.in /\ u.file.removing = t.file.removing
                                    /\ u.file.suspended = p.to /\ u.file.fqdn = t.file.fqdn
    /\ x \in {"write-domain", "restore-domain"} =>
           /\ t.file.in /\ u.file.in /\ u.file.removing = t.file.removing /\ u.file.suspended = t.file.suspended
           /\ u.file.fqdn = (IF x = "write-domain" THEN p.to ELSE p.from)
    /\ x = "write-size" => /\ t.file.in /\ u.file.in /\ u.file.removing = t.file.removing
                           /\ u.file.suspended = t.file.suspended /\ u.file.fqdn = t.file.fqdn

Rowers == {"record-provisional", "record-inventory", "record-offboard", "record-purge", "settle-provisional-row",
           "adopt-record-inventory", "record-switch"}

RowSet(x, t, u) ==
    /\ x \notin Rowers => u.row = t.row
    /\ x = "record-provisional" => u.row # "offboarded"
    /\ x \in {"record-inventory", "record-switch"} => u.row \in CONSUMER_LIVE_STATUS
    /\ x = "adopt-record-inventory" => t.file.in /\ u.row \in CONSUMER_LIVE_STATUS
    /\ x \in {"record-offboard", "record-purge"} => u.row \in {"none", "offboarded"}
    /\ x = "settle-provisional-row" => u.row = t.row \/ u.row = "offboarded"

Provides == {"provision-repo-credential", "provision-smtp-ops-grant", "provision-dns"}

KeptSet(x, t, u) ==
    /\ x \notin Provides => u.objects \cap Kept \subseteq t.objects
    /\ x = "undo-smtp-ops-grant" => "grant" \notin u.objects
    /\ x = "undo-repo-credential" => "credential" \notin u.objects
    /\ x = "remove-unit-dns" => "host" \notin u.objects

Valued == {"seed-secrets", "activate", "write-secrets", "remove-app-secrets", "purge-remove-app-secrets",
           "remove-ceremony-secrets", "refetch-secrets", "restart-workloads"}

ValueSet(x, t, u) ==
    /\ x \notin Valued => u.value = t.value /\ u.entry = t.entry
    /\ (t.entry = 0 => t.value.vault = 0) => (u.entry = 0 => u.value.vault = 0)
    /\ x = "refetch-secrets" => u.value.vault = t.value.vault /\ u.value.secret = 0
    /\ x = "restart-workloads" =>
           u.value.vault = t.value.vault /\ u.value.secret = t.value.secret /\ u.value.pod = 0

Change(p, x, t, u) ==
    u.app = t.app /\ FileSet(p, x, t, u) /\ RowSet(x, t, u) /\ KeptSet(x, t, u) /\ ValueSet(x, t, u)

\* What it asked before it went on.
Asking == {"watch-removal", "undo-watch-prune", "assert-no-orphans", "purge-assert-no-orphans", "attest-ci-only"}

Passed(x, t) ==
    /\ x \in {"watch-removal", "undo-watch-prune"} => ~t.app
    /\ x \in {"assert-no-orphans", "purge-assert-no-orphans"} => t.objects \cap Kept = {}
    /\ x = "attest-ci-only" => readUnitStages = {}

\* What it does to the unit, g its stage.
Registers == {"write-registration", "switch-registration"}
BuildFile == {"write-build-registration", "re-attest-builds", "remove-build-registration", "ci-remove-registration"}
SetsUpShared == {"seed-repo-pat", "inject-release-kit", "setup-webhook"}
Unitary == Registers \cup Removes \cup BuildFile \cup SetsUpShared \cup TakesShared \cup TakesCi \cup {"remove-build-webhook"}

UnitSet(p, x, g, t, u) ==
    /\ x \notin Unitary => unit' = unit
    /\ x = "write-registration" => (unit' = unit /\ u.file = t.file) \/ (unit'.build.in /\ ~unit'.build.suspended)
    /\ x = "switch-registration" =>
           /\ unit'.build.in = unit.build.in
           /\ unit.build.in => (unit'.build.suspended <=> (p.to /\ \A s \in readUnitStages \ {g} : stage[s].file.suspended))
    /\ x \in Registers \cup BuildFile \cup Removes => unit'.objects = unit.objects
    /\ x \in Removes => unit' = unit \/ readUnitStages \subseteq {g}
    /\ x \in BuildFile => \/ unit'.build.in = unit.build.in /\ unit'.build.suspended = unit.build.suspended
                          \/ readUnitStages = {}
    /\ x \in Unitary \ (Registers \cup BuildFile \cup Removes) => unit'.build = unit.build
    /\ x \in SetsUpShared => unit.objects \subseteq unit'.objects
    /\ x \in TakesShared => unit' = unit \/ readUnitStages \subseteq {g}
    /\ x = "remove-build-webhook" => unit' = unit \/ readUnitStages = {}

\* What it does to the domains.
Zoned == {"remove-dns", "purge-remove-dns", "provision-domain-record", "retire-previous-domain", "remove-new-domain-record"}

ZoneSet(p, x, g, t) ==
    /\ x \notin Zoned => zone' = zone
    /\ x \in {"remove-dns", "purge-remove-dns"} => \A d \in Domains : zone'[d] = zone[d] \/ zone[d] = g
    /\ x = "provision-domain-record" =>
           /\ p.to \in scope.zones => zone'[p.to] = g
           /\ \A d \in Domains : zone'[d] = zone[d] \/ (zone[d] = "free" /\ zone'[d] = g)
    /\ x = "retire-previous-domain" => \A d \in Domains : zone'[d] = zone[d] \/ (d # p.to /\ zone[d] = g)
    /\ x = "remove-new-domain-record" => \A d \in Domains : zone'[d] = zone[d] \/ (d # t.file.fqdn /\ zone[d] = g)

\* The cleanups it registers.
Armers == {"write-registration", "seed-secrets", "write-build-registration", "provision-domain-record", "write-domain"}

ArmedSet(x, g, c, d) ==
    /\ x \notin Armers => d = c
    /\ x = "write-registration" => d = deployableOnboardCleanups(g)
    /\ x = "seed-secrets" => d = c \/ d = Undoing(g, <<"remove-ceremony-secrets">>) \o c
    /\ x = "write-build-registration" => d = Undoing(g, <<"remove-build-registration", "remove-build-webhook">>)
    /\ x = "provision-domain-record" => d = c \/ d = Undoing(g, <<"remove-new-domain-record">>)
    /\ x = "write-domain" => d = Undoing(g, <<"restore-domain">>) \o c

Told(r) == Head(run[r].todo).s

\* A step of run r, whole.
Stepped(r) ==
    LET x == Told(r) g == On(r) p == Param(r) IN
    /\ run[r].st = "running" /\ run[r].todo # <<>>
    /\ stage' \in [Stages -> StageType] /\ unit' \in UnitType /\ zone' \in ZoneType /\ scope' = scope
    /\ \A s \in Stages : s # g => stage'[s] = stage[s]
    /\ Change(p, x, stage[g], stage'[g]) /\ Passed(x, stage[g])
    /\ UnitSet(p, x, g, stage[g], stage'[g]) /\ ZoneSet(p, x, g, stage[g])
    /\ ArmedSet(x, g, run[r].armed, run'[r].armed) /\ Moved(r, run'[r].armed)

Half2 == {20, 21}

\* The step at hand: its stage is the run's, and its place is known.
Place(r) ==
    /\ run[r] \in RunType /\ run[r].todo \in Seq(StepType) /\ run[r].armed \in Seq(StepType)
    /\ Param(r) \in ParamType /\ Planned(r) /\ Lists(r) /\ Behind(r)
    /\ On(r) = Param(r).s /\ On(r) \in Stages /\ stage[On(r)] \in StageType /\ Sound(stage[On(r)])
    /\ Left(r) \in Nat /\ Left(r) >= 1 /\ Half(Param(r)) \in Half2
    /\ ~run[r].undo => Forth(Param(r).kind, Half(Param(r)), Left(r) - 1, Told(r))
    /\ run[r].undo => Back(Param(r).kind, Left(r) - 1, Told(r)) /\ run[r].armed # <<>>

\* What the invariant says of the run whose step it is.
LEMMA StepPlace ==
    ASSUME IInv, NEW r \in Runs, run[r].st = "running", run[r].todo # <<>>
    PROVE  Place(r)
<1>1. run[r] \in RunType /\ Planned(r) /\ Lists(r) /\ Behind(r)
  BY ActiveType DEF Active, IInv
<1>2. run[r].todo \in Seq(StepType) /\ run[r].armed \in Seq(StepType) /\ Param(r) \in ParamType /\ run[r].undo \in BOOLEAN
  BY <1>1 DEF RunType, Param
<1>3. /\ Head(run[r].todo) = run[r].todo[1] /\ Head(run[r].todo) \in StepType
      /\ Len(run[r].todo) \in Nat /\ Len(run[r].todo) >= 1 /\ 1 \in 1..Len(run[r].todo)
  BY <1>2, TailList
<1>4. /\ ~run[r].undo => Forth(Param(r).kind, Half(Param(r)), Len(run[r].todo) - 1, run[r].todo[1].s)
      /\ run[r].undo => Back(Param(r).kind, Len(run[r].todo) - 1, run[r].todo[1].s) /\ run[r].armed # <<>>
      /\ run[r].todo[1].g = Param(r).s
  BY <1>1, <1>2, <1>3 DEF Lists, ForthList, BackList
<1>5. On(r) = Param(r).s /\ Param(r).s \in Stages
  BY <1>2, <1>3, <1>4 DEF On, ParamType
<1>6. stage[On(r)] \in StageType /\ Sound(stage[On(r)])
  BY <1>5 DEF IInv, Types
<1>7. Half(Param(r)) \in Half2
  BY DEF Half, Half2
<1> QED
  BY <1>1, <1>2, <1>3, <1>4, <1>5, <1>6, <1>7 DEF Place, Left, Told

\* What follows for a step that writes its stage and nothing else, and for one that writes the unit alone.
LEMMA WritesSteps ==
    ASSUME IInv, NEW r \in Runs, NEW x, At(r, x), x \notin Unitary, x \notin Zoned, x \notin Armers,
           NEW u \in StageType, Writes(r, u), Change(Param(r), x, stage[On(r)], u), Passed(x, stage[On(r)])
    PROVE  Stepped(r)
<1>1. run[r].st = "running" /\ run[r].todo # <<>> /\ Told(r) = x
  BY DEF At, Told
<1>2. On(r) \in Stages /\ Types
  BY <1>1, StepPlace DEF Place, IInv
<1>3. stage' = [stage EXCEPT ![On(r)] = u] /\ Done(r) /\ unit' = unit /\ zone' = zone /\ scope' = scope
  BY DEF Writes
<1>4. stage' \in [Stages -> StageType] /\ stage'[On(r)] = u /\ \A s \in Stages : s # On(r) => stage'[s] = stage[s]
  BY <1>2, <1>3 DEF Types
<1>5. Moved(r, run[r].armed)
  BY <1>1, <1>2, <1>3, DoneMoves
<1>6. run'[r].armed = run[r].armed /\ Moved(r, run'[r].armed)
  BY <1>5 DEF Moved
<1>7. ArmedSet(x, On(r), run[r].armed, run'[r].armed)
  BY <1>6 DEF ArmedSet, Armers
<1>8. UnitSet(Param(r), x, On(r), stage[On(r)], u)
  BY <1>3 DEF UnitSet, Unitary, Registers, BuildFile
<1>9. ZoneSet(Param(r), x, On(r), stage[On(r)])
  BY <1>3 DEF ZoneSet, Zoned
<1>10. unit' \in UnitType /\ zone' \in ZoneType
  BY <1>2, <1>3 DEF Types
<1> QED
  BY <1>1, <1>3, <1>4, <1>6, <1>7, <1>8, <1>9, <1>10 DEF Stepped

\* A step that only asks.
LEMMA PassesSteps ==
    ASSUME IInv, NEW r \in Runs, NEW x, At(r, x), x \notin Unitary, x \notin Zoned, x \notin Armers,
           Passes(r), Change(Param(r), x, stage[On(r)], stage[On(r)]), Passed(x, stage[On(r)])
    PROVE  Stepped(r)
<1>1. run[r].st = "running" /\ run[r].todo # <<>>
  BY DEF At
<1>2. On(r) \in Stages /\ stage[On(r)] \in StageType /\ stage \in [Stages -> StageType]
  BY <1>1, StepPlace DEF Place, IInv, Types
<1>3. [stage EXCEPT ![On(r)] = stage[On(r)]] = stage
  BY <1>2
<1>4. Writes(r, stage[On(r)])
  BY <1>3 DEF Passes, Writes, world
<1> QED
  BY <1>2, <1>4, WritesSteps

\* A change beside what the argument reads.
Telling == Filers \cup Rowers \cup Provides \cup Valued

Aside(t, u) ==
    /\ u.file = t.file /\ u.row = t.row /\ u.app = t.app /\ u.value = t.value /\ u.entry = t.entry
    /\ u.objects \cap Kept \subseteq t.objects

\* A write beside what the argument reads changes nothing of it.
LEMMA AsideChange ==
    ASSUME NEW p, NEW x, NEW t, NEW u, x \notin Telling, Aside(t, u),
           x \notin {"undo-smtp-ops-grant", "undo-repo-credential", "remove-unit-dns"}
    PROVE  Change(p, x, t, u)
<1> USE DEF Telling, Aside
<1>1. FileSet(p, x, t, u)
  BY DEF FileSet, Filers
<1>2. RowSet(x, t, u)
  BY DEF RowSet, Rowers
<1>3. KeptSet(x, t, u)
  BY DEF KeptSet
<1>4. ValueSet(x, t, u)
  BY DEF ValueSet, Valued
<1> QED
  BY <1>1, <1>2, <1>3, <1>4 DEF Change

\* A step that writes the unit.
LEMMA UnitSteps ==
    ASSUME IInv, NEW r \in Runs, NEW x, At(r, x), x \notin Telling, x \notin Asking, x \notin Zoned, x \notin Armers,
           unit' \in UnitType, Done(r), UNCHANGED <<stage, zone, scope>>,
           x \notin {"undo-smtp-ops-grant", "undo-repo-credential", "remove-unit-dns"},
           UnitSet(Param(r), x, On(r), stage[On(r)], stage[On(r)])
    PROVE  Stepped(r)
<1>1. run[r].st = "running" /\ run[r].todo # <<>> /\ Told(r) = x
  BY DEF At, Told
<1>2. On(r) \in Stages /\ Types
  BY <1>1, StepPlace DEF Place, IInv
<1>3. Aside(stage[On(r)], stage[On(r)])
  BY DEF Aside
<1>4. Change(Param(r), x, stage[On(r)], stage[On(r)])
  BY <1>3, AsideChange
<1>5. Passed(x, stage[On(r)])
  BY DEF Passed, Asking
<1>6. Moved(r, run[r].armed)
  BY <1>1, <1>2, DoneMoves
<1>7. run'[r].armed = run[r].armed /\ Moved(r, run'[r].armed)
  BY <1>6 DEF Moved
<1>8. ArmedSet(x, On(r), run[r].armed, run'[r].armed)
  BY <1>7 DEF ArmedSet, Armers
<1>9. ZoneSet(Param(r), x, On(r), stage[On(r)])
  BY DEF ZoneSet, Zoned
<1>10. stage' \in [Stages -> StageType] /\ zone' \in ZoneType
  BY <1>2 DEF Types
<1> QED
  BY <1>1, <1>4, <1>5, <1>7, <1>8, <1>9, <1>10 DEF Stepped

-----------------------------------------------------------------------------
\* Every action of a step is such a step.

\* The steps that read, and the steps that write beside what the argument reads.
Quiet == {"attest-target", "attest-app", "preflight-scopes", "check", "await-build-namespace", "await-unit-fences",
          "smoke", "record-unit", "purge-watch-removal", "ci-watch-removal", "ci-assert-no-orphans",
          "purge-attest-target", "adopt-attest-target", "read-pointer", "attest-live", "watch-converged",
          "watch-delivery", "watch-release-build", "put-release", "watch-deployment",
          "clear-leftover-branch", "seed-postgres", "seed-mongodb", "seed-redis",
          "seed-mariadb", "trigger-release", "delete-repo-credential", "delete-smtp-ops-grant",
          "purge-delete-repo-credential", "purge-delete-smtp-ops-grant", "delete-namespace",
          "purge-delete-namespace", "remove-database-secrets", "purge-remove-database-secrets"}

\* What such steps are not.
LEMMA QuietIs ==
    ASSUME NEW x \in Quiet \cup Asking
    PROVE  /\ x \notin Telling /\ x \notin Unitary /\ x \notin Zoned /\ x \notin Armers
           /\ x \notin {"undo-smtp-ops-grant", "undo-repo-credential", "remove-unit-dns"}
           /\ x \in Quiet => \A t : Passed(x, t)
<1> USE DEF Quiet, Asking
<1>1. x \notin Filers
  BY DEF Filers, Marks, Removes
<1>2. x \notin Rowers /\ x \notin Provides /\ x \notin Valued
  BY DEF Rowers, Provides, Valued
<1>3. x \notin Unitary
  BY DEF Unitary, Registers, Removes, BuildFile, SetsUpShared, TakesShared, TakesCi
<1>4. x \notin Zoned /\ x \notin Armers
  BY DEF Zoned, Armers
<1>5. x \in Quiet => \A t : Passed(x, t)
  BY DEF Passed
<1> QED
  BY <1>1, <1>2, <1>3, <1>4, <1>5 DEF Telling

\* The steps that ask and pass.
LEMMA ReadsStep ==
    ASSUME IInv, NEW r \in Runs
    PROVE  AttestTarget(r) \/ AttestApp(r) \/ PreflightScopes(r) \/ Check(r) \/ AwaitBuildNamespace(r)
           \/ AwaitUnitFences(r) \/ Smoke(r) \/ RecordUnit(r) \/ PurgeWatchRemoval(r) \/ CiWatchRemoval(r)
           \/ CiAssertNoOrphans(r) \/ PurgeAttestTarget(r) \/ AdoptAttestTarget(r) \/ ReadPointer(r) \/ AttestLive(r)
           \/ WatchConverged(r) \/ WatchDelivery(r) \/ WatchRemoval(r) \/ UndoWatchPrune(r) \/ AssertNoOrphans(r)
           \/ PurgeAssertNoOrphans(r) \/ AttestCiOnly(r) => Stepped(r)
<1> DEFINE t == stage[On(r)]
<1>1. ASSUME NEW x \in Quiet \cup Asking, At(r, x), Passes(r), Passed(x, t) PROVE Stepped(r)
  <2>1. Aside(t, t)
    BY DEF Aside
  <2>2. Change(Param(r), x, t, t)
    BY <2>1, QuietIs, AsideChange
  <2> QED
    BY <1>1, <2>2, QuietIs, PassesSteps
<1>2. ASSUME NEW x \in Quiet, At(r, x), Passes(r) PROVE Stepped(r)
  BY <1>1, <1>2, QuietIs
<1>3. AttestTarget(r) \/ AttestApp(r) \/ PreflightScopes(r) \/ Check(r) \/ AwaitBuildNamespace(r) => Stepped(r)
  BY <1>2 DEF AttestTarget, AttestApp, PreflightScopes, Check, AwaitBuildNamespace, Quiet
<1>4. AwaitUnitFences(r) \/ Smoke(r) \/ RecordUnit(r) \/ PurgeWatchRemoval(r) \/ CiWatchRemoval(r) => Stepped(r)
  BY <1>2 DEF AwaitUnitFences, Smoke, RecordUnit, PurgeWatchRemoval, CiWatchRemoval, Quiet
<1>5. CiAssertNoOrphans(r) \/ PurgeAttestTarget(r) \/ AdoptAttestTarget(r) \/ ReadPointer(r) \/ AttestLive(r) => Stepped(r)
  BY <1>2 DEF CiAssertNoOrphans, PurgeAttestTarget, AdoptAttestTarget, ReadPointer, AttestLive, Quiet
<1>6. WatchConverged(r) \/ WatchDelivery(r) => Stepped(r)
  BY <1>2 DEF WatchConverged, WatchDelivery, Quiet
<1>7. ASSUME NEW x \in {"watch-removal", "undo-watch-prune"}, At(r, x), Passes(r), ~stage[On(r)].app PROVE Stepped(r)
  <2>1. Passed(x, t) /\ x \in Asking
    BY <1>7 DEF Passed, Asking
  <2> QED
    BY <1>1, <1>7, <2>1
<1>8. ASSUME NEW x \in {"assert-no-orphans", "purge-assert-no-orphans"}, At(r, x), Passes(r), assertNoOrphans(On(r))
      PROVE  Stepped(r)
  <2>1. Passed(x, t) /\ x \in Asking
    BY <1>8 DEF Passed, Asking, assertNoOrphans, Kept
  <2> QED
    BY <1>1, <1>8, <2>1
<1>9. ASSUME At(r, "attest-ci-only"), Passes(r), isCiOnly PROVE Stepped(r)
  <2>1. Passed("attest-ci-only", t) /\ "attest-ci-only" \in Asking
    BY <1>9 DEF Passed, Asking, isCiOnly
  <2> QED
    BY <1>1, <1>9, <2>1
<1>10. WatchRemoval(r) \/ UndoWatchPrune(r) => Stepped(r)
  BY <1>7 DEF WatchRemoval, UndoWatchPrune
<1>11. AssertNoOrphans(r) \/ PurgeAssertNoOrphans(r) => Stepped(r)
  BY <1>8 DEF AssertNoOrphans, PurgeAssertNoOrphans
<1>12. AttestCiOnly(r) => Stepped(r)
  BY <1>9 DEF AttestCiOnly
<1> QED
  BY <1>3, <1>4, <1>5, <1>6, <1>10, <1>11, <1>12

\* The type of a stage and of the unit after a change of one field.
LEMMA StageWith ==
    ASSUME NEW t \in StageType
    PROVE  /\ \A o \in SUBSET StageObjects : [t EXCEPT !.objects = o] \in StageType
           /\ \A b \in {0} \cup Releases : [t EXCEPT !.branch = b] \in StageType /\ [t EXCEPT !.wanted = b] \in StageType
           /\ \A w \in Rows : [t EXCEPT !.row = w] \in StageType
           /\ \A f \in FileType : [t EXCEPT !.file = f] \in StageType
           /\ t.objects \in SUBSET StageObjects
BY DEF StageType

\* The steps that write beside.
LEMMA AsideStep ==
    ASSUME IInv, NEW r \in Runs
    PROVE  ClearLeftoverBranch(r) \/ SeedPostgres(r) \/ SeedMongodb(r) \/ SeedRedis(r) \/ SeedMariadb(r)
           \/ TriggerRelease(r) \/ DeleteRepoCredential(r) \/ DeleteSmtpOpsGrant(r) \/ PurgeDeleteRepoCredential(r)
           \/ PurgeDeleteSmtpOpsGrant(r) \/ DeleteNamespace(r) \/ PurgeDeleteNamespace(r)
           \/ RemoveDatabaseSecrets(r) \/ PurgeRemoveDatabaseSecrets(r) => Stepped(r)
<1> DEFINE t == stage[On(r)]
<1>0. SUFFICES ASSUME run[r].st = "running", run[r].todo # <<>> PROVE
           ClearLeftoverBranch(r) \/ SeedPostgres(r) \/ SeedMongodb(r) \/ SeedRedis(r) \/ SeedMariadb(r)
           \/ TriggerRelease(r) \/ DeleteRepoCredential(r) \/ DeleteSmtpOpsGrant(r) \/ PurgeDeleteRepoCredential(r)
           \/ PurgeDeleteSmtpOpsGrant(r) \/ DeleteNamespace(r) \/ PurgeDeleteNamespace(r)
           \/ RemoveDatabaseSecrets(r) \/ PurgeRemoveDatabaseSecrets(r) => Stepped(r)
  BY DEF ClearLeftoverBranch, SeedPostgres, SeedMongodb, SeedRedis, SeedMariadb, TriggerRelease, DeleteRepoCredential,
         DeleteSmtpOpsGrant, PurgeDeleteRepoCredential, PurgeDeleteSmtpOpsGrant, DeleteNamespace, PurgeDeleteNamespace,
         RemoveDatabaseSecrets, PurgeRemoveDatabaseSecrets, At
<1>1. Place(r) /\ t \in StageType
  BY <1>0, StepPlace DEF Place
<1>2. ASSUME NEW x \in Quiet, At(r, x), NEW u \in StageType, Writes(r, u), Aside(t, u) PROVE Stepped(r)
  <2>1. Change(Param(r), x, t, u)
    BY <1>2, QuietIs, AsideChange
  <2> QED
    BY <1>2, <2>1, QuietIs, WritesSteps
<1>3. ASSUME NEW x \in Quiet, At(r, x), Passes(r) PROVE Stepped(r)
  <2>1. Change(Param(r), x, t, t)
    BY <1>3, QuietIs, AsideChange DEF Aside
  <2> QED
    BY <1>3, <2>1, QuietIs, PassesSteps
<1>4. ASSUME NEW o, o \in SUBSET StageObjects, o \cap Kept \subseteq t.objects
      PROVE  [t EXCEPT !.objects = o] \in StageType /\ Aside(t, [t EXCEPT !.objects = o])
  <2>1. [t EXCEPT !.objects = o] \in StageType
    BY <1>1, <1>4, StageWith
  <2>2. Aside(t, [t EXCEPT !.objects = o])
    BY <1>1, <1>4 DEF StageType, Aside
  <2> QED
    BY <2>1, <2>2
<1> HIDE DEF t
<1>5. ASSUME NEW d \in Databases
      PROVE  putConsumerLeaf(t, d) \in StageType /\ Aside(t, putConsumerLeaf(t, d))
  <2>1. t.objects \cup {d} \in SUBSET StageObjects /\ (t.objects \cup {d}) \cap Kept \subseteq t.objects
    BY <1>1, StageWith DEF StageObjects, Databases, Kept
  <2> QED
    BY <1>4, <2>1 DEF putConsumerLeaf
<1>6. ASSUME NEW D PROVE [t EXCEPT !.objects = @ \ D] \in StageType /\ Aside(t, [t EXCEPT !.objects = @ \ D])
  <2>1. t.objects \ D \in SUBSET StageObjects /\ (t.objects \ D) \cap Kept \subseteq t.objects
    BY <1>1, StageWith
  <2> QED
    BY <1>4, <2>1
<1>7. /\ deleteRepoCredential(t) \in StageType /\ Aside(t, deleteRepoCredential(t))
      /\ deleteBuildRbac(t) \in StageType /\ Aside(t, deleteBuildRbac(t))
      /\ deleteNamespace(t) \in StageType /\ Aside(t, deleteNamespace(t))
      /\ deleteConsumerLeaves(t) \in StageType /\ Aside(t, deleteConsumerLeaves(t))
  BY <1>6 DEF deleteRepoCredential, deleteBuildRbac, deleteNamespace, deleteConsumerLeaves
<1>8. deleteBranch(t) \in StageType /\ Aside(t, deleteBranch(t))
  BY <1>1 DEF StageType, Aside, deleteBranch
<1>9. ASSUME At(r, "trigger-release")
      PROVE  dispatchWorkflow(t, Param(r).to) \in StageType /\ Aside(t, dispatchWorkflow(t, Param(r).to))
  <2>1. Told(r) = "trigger-release" /\ run[r].undo \in BOOLEAN
    BY <1>1, <1>9 DEF At, Told, Place, RunType
  <2>2. ~run[r].undo
    BY <1>1, <2>1 DEF Place, Back
  <2>3. Param(r).kind \in {"onboard", "build-only", "standing-build"}
    BY <1>1, <2>1, <2>2 DEF Place, Forth
  <2>4. Param(r).to \in Releases
    BY <1>1, <2>3 DEF Place, Planned
  <2> QED
    BY <1>1, <2>4 DEF StageType, Aside, dispatchWorkflow
<1>10. ClearLeftoverBranch(r) => Stepped(r)
  BY <1>2, <1>8 DEF ClearLeftoverBranch, Quiet, t
<1>11. SeedPostgres(r) \/ SeedMongodb(r) \/ SeedRedis(r) \/ SeedMariadb(r) => Stepped(r)
  BY <1>2, <1>5 DEF SeedPostgres, SeedMongodb, SeedRedis, SeedMariadb, Quiet, Databases, t
<1>12. TriggerRelease(r) => Stepped(r)
  BY <1>2, <1>9 DEF TriggerRelease, Quiet, t
<1>13. DeleteRepoCredential(r) \/ DeleteSmtpOpsGrant(r) => Stepped(r)
  BY <1>2, <1>3, <1>7 DEF DeleteRepoCredential, DeleteSmtpOpsGrant, TriesToDelete, Quiet, t
<1>14. PurgeDeleteRepoCredential(r) \/ PurgeDeleteSmtpOpsGrant(r) => Stepped(r)
  BY <1>2, <1>3, <1>7 DEF PurgeDeleteRepoCredential, PurgeDeleteSmtpOpsGrant, TriesToDelete, Quiet, t
<1>15. DeleteNamespace(r) \/ PurgeDeleteNamespace(r) \/ RemoveDatabaseSecrets(r) \/ PurgeRemoveDatabaseSecrets(r) => Stepped(r)
  BY <1>2, <1>7 DEF DeleteNamespace, PurgeDeleteNamespace, RemoveDatabaseSecrets, PurgeRemoveDatabaseSecrets, Quiet, t
<1> QED
  BY <1>10, <1>11, <1>12, <1>13, <1>14, <1>15

\* A step that writes its stage, however its run goes on.
LEMMA MovesSteps ==
    ASSUME IInv, NEW r \in Runs, NEW x, At(r, x), x \notin Unitary, x \notin Zoned,
           NEW u \in StageType, stage' = [stage EXCEPT ![On(r)] = u], UNCHANGED <<unit, zone, scope>>,
           NEW c, Moved(r, c), ArmedSet(x, On(r), run[r].armed, c),
           Change(Param(r), x, stage[On(r)], u), Passed(x, stage[On(r)])
    PROVE  Stepped(r)
<1>1. run[r].st = "running" /\ run[r].todo # <<>> /\ Told(r) = x
  BY DEF At, Told
<1>2. On(r) \in Stages /\ Types
  BY <1>1, StepPlace DEF Place, IInv
<1>4. stage' \in [Stages -> StageType] /\ stage'[On(r)] = u /\ \A s \in Stages : s # On(r) => stage'[s] = stage[s]
  BY <1>2 DEF Types
<1>6. run'[r].armed = c /\ Moved(r, run'[r].armed)
  BY DEF Moved
<1>8. UnitSet(Param(r), x, On(r), stage[On(r)], u)
  BY DEF UnitSet, Unitary, Registers, BuildFile
<1>9. ZoneSet(Param(r), x, On(r), stage[On(r)])
  BY DEF ZoneSet, Zoned
<1>10. unit' \in UnitType /\ zone' \in ZoneType
  BY <1>2 DEF Types
<1> QED
  BY <1>1, <1>4, <1>6, <1>8, <1>9, <1>10 DEF Stepped

\* The stage as it stands, written over itself.
LEMMA Unwritten ==
    ASSUME IInv, NEW r \in Runs, run[r].st = "running", run[r].todo # <<>>
    PROVE  /\ stage[On(r)] \in StageType /\ [stage EXCEPT ![On(r)] = stage[On(r)]] = stage
           /\ Types /\ Place(r) /\ run[r] \in RunType /\ run[r].p \in ParamType
<1>1. Place(r) /\ Types
  BY StepPlace DEF IInv
<1>2. On(r) \in Stages /\ stage \in [Stages -> StageType] /\ stage[On(r)] \in StageType /\ run[r] \in RunType
      /\ run[r].p \in ParamType
  BY <1>1 DEF Place, Types, Param
<1>3. [stage EXCEPT ![On(r)] = stage[On(r)]] = stage
  BY <1>2
<1> QED
  BY <1>1, <1>2, <1>3

\* The steps of a release: dispatched, awaited, watched.
LEMMA ReleaseStep ==
    ASSUME IInv, NEW r \in Runs
    PROVE  WatchReleaseBuild(r) \/ PutRelease(r) \/ WatchDeployment(r) => Stepped(r)
<1> DEFINE t == stage[On(r)]
<1>0. SUFFICES ASSUME run[r].st = "running", run[r].todo # <<>>
               PROVE  WatchReleaseBuild(r) \/ PutRelease(r) \/ WatchDeployment(r) => Stepped(r)
  BY DEF WatchReleaseBuild, PutRelease, WatchDeployment, At
<1>1. /\ t \in StageType /\ [stage EXCEPT ![On(r)] = t] = stage /\ Types /\ Place(r)
      /\ run[r] \in RunType /\ run[r].p \in ParamType
  BY <1>0, Unwritten
<1>2. ASSUME NEW x \in Quiet, At(r, x), NEW u \in StageType, stage' = [stage EXCEPT ![On(r)] = u],
             UNCHANGED <<unit, zone, scope>>, Moved(r, run[r].armed), Aside(t, u)
      PROVE  Stepped(r)
  <2>1. Change(Param(r), x, t, u)
    BY <1>2, QuietIs, AsideChange
  <2>2. ArmedSet(x, On(r), run[r].armed, run[r].armed)
    BY <1>2, QuietIs DEF ArmedSet, Armers
  <2> QED
    BY <1>2, <2>1, <2>2, QuietIs, MovesSteps
<1>3. ASSUME NEW x \in Quiet, At(r, x), UNCHANGED world, Moved(r, run[r].armed)
      PROVE  Stepped(r)
  <2>1. stage' = [stage EXCEPT ![On(r)] = t] /\ UNCHANGED <<unit, zone, scope>> /\ Aside(t, t)
    BY <1>1, <1>3 DEF world, Aside
  <2> QED
    BY <1>1, <1>2, <1>3, <2>1
<1>4. WatchReleaseBuild(r) => Stepped(r)
  BY <1>0, <1>1, <1>3, DoneMoves DEF WatchReleaseBuild, Quiet
<1>5. ASSUME WatchDeployment(r) PROVE Stepped(r)
  <2>1. At(r, "watch-deployment") /\ UNCHANGED world
    BY <1>5 DEF WatchDeployment, Passes, TimesOut
  <2>2. Done(r) \/ Fails(r, [run[r] EXCEPT !.p.ck = @ \cup {"wanted"}])
    BY <1>5 DEF WatchDeployment, Passes, TimesOut
  <2>3. Moved(r, run[r].armed)
    BY <1>0, <1>1, <2>2, DoneMoves
  <2> QED
    BY <1>3, <2>1, <2>3 DEF Quiet
<1>6. ASSUME PutRelease(r) PROVE Stepped(r)
  <2>1. At(r, "put-release")
    BY <1>6 DEF PutRelease
  <2>2. CASE "dispatched" \in Param(r).ck
    <3>1. DoneRemembering(r, "tag") /\ UNCHANGED world
      BY <1>6, <2>2 DEF PutRelease
    <3>2. Moved(r, run[r].armed)
      BY <1>0, <1>1, <3>1, DoneMoves
    <3> QED
      BY <1>3, <2>1, <3>1, <3>2 DEF Quiet
  <2>3. CASE "dispatched" \notin Param(r).ck
    <3> DEFINE u == dispatchWorkflow(t, Param(r).to)
    <3>1. stage' = [stage EXCEPT ![On(r)] = u] /\ UNCHANGED <<unit, zone, scope>>
      BY <1>6, <2>3 DEF PutRelease
    <3>2. Param(r).to \in Releases
      <4>1. Told(r) = "put-release" /\ run[r].undo \in BOOLEAN
        BY <1>1, <2>1 DEF At, Told, RunType
      <4>2. ~run[r].undo
        BY <1>1, <4>1 DEF Place, Back
      <4>3. Param(r).kind \in {"onboard", "release"}
        BY <1>1, <4>1, <4>2 DEF Place, Forth
      <4> QED
        BY <1>1, <4>3 DEF Place, Planned
    <3>3. u \in StageType /\ Aside(t, u)
      BY <1>1, <3>2 DEF StageType, Aside, dispatchWorkflow
    <3>4. CASE Fails(r, run[r])
      <4>1. Moved(r, run[r].armed)
        BY <1>0, <1>1, <3>4, DoneMoves
      <4> QED
        BY <1>2, <2>1, <3>1, <3>3, <4>1 DEF Quiet
    <3>5. CASE run' = [run EXCEPT ![r].p.ck = @ \cup {"dispatched"}] /\ UNCHANGED used
      <4> DEFINE pp == [run[r].p EXCEPT !.ck = @ \cup {"dispatched"}]
                 rec == [run[r] EXCEPT !.p = pp]
      <4>1. /\ pp \in ParamType /\ pp.kind = run[r].p.kind /\ pp.s = run[r].p.s
            /\ pp.from = run[r].p.from /\ pp.to = run[r].p.to
        BY <1>1 DEF ParamType
      <4>2. run' = [run EXCEPT ![r] = rec]
        BY <1>1, <3>5 DEF RunType, Types
      <4> HIDE DEF pp
      <4>3. rec \in RunType /\ Same(run[r], rec) /\ rec.st = "running" /\ rec.todo = run[r].todo /\ rec.armed = run[r].armed
        BY <1>0, <1>1, <4>1 DEF RunType, Same
      <4> HIDE DEF rec
      <4>4. Moved(r, rec.armed)
        BY <1>0, <1>1, <3>5, <4>2, <4>3, RecordMoves
      <4> QED
        BY <1>2, <2>1, <3>1, <3>3, <4>3, <4>4 DEF Quiet
    <3> QED
      BY <1>6, <2>3, <3>4, <3>5 DEF PutRelease
  <2> QED
    BY <2>2, <2>3
<1> QED
  BY <1>4, <1>5, <1>6

\* The steps that set up or take away what OffboardedLeftNothing names.
LEMMA KeptStep ==
    ASSUME IInv, NEW r \in Runs
    PROVE  ProvisionRepoCredential(r) \/ ProvisionSmtpOpsGrant(r) \/ ProvisionDns(r)
           \/ UndoRepoCredential(r) \/ UndoSmtpOpsGrant(r) \/ RemoveUnitDns(r) => Stepped(r)
<1> DEFINE t == stage[On(r)]
           Those == {"provision-repo-credential", "provision-smtp-ops-grant", "provision-dns", "undo-repo-credential",
                     "undo-smtp-ops-grant", "remove-unit-dns"}
<1>0. SUFFICES ASSUME run[r].st = "running", run[r].todo # <<>>
               PROVE  ProvisionRepoCredential(r) \/ ProvisionSmtpOpsGrant(r) \/ ProvisionDns(r)
                      \/ UndoRepoCredential(r) \/ UndoSmtpOpsGrant(r) \/ RemoveUnitDns(r) => Stepped(r)
  BY DEF ProvisionRepoCredential, ProvisionSmtpOpsGrant, ProvisionDns, UndoRepoCredential, UndoSmtpOpsGrant,
         RemoveUnitDns, At
<1>1. t \in StageType
  BY <1>0, Unwritten
<1>2. ASSUME NEW x \in Those, At(r, x), NEW o \in SUBSET StageObjects, Writes(r, [t EXCEPT !.objects = o]),
             KeptSet(x, t, [t EXCEPT !.objects = o])
      PROVE  Stepped(r)
  <2> DEFINE u == [t EXCEPT !.objects = o]
  <2>1. /\ x \notin Filers /\ x \notin Rowers /\ x \notin Valued /\ x \notin Zoned /\ x \notin Armers
    BY <1>2 DEF Filers, Marks, Removes, Rowers, Valued, Zoned, Armers
  <2>2. x \notin Unitary
    BY <1>2 DEF Unitary, Registers, Removes, BuildFile, SetsUpShared, TakesShared, TakesCi
  <2>3. u \in StageType /\ u.app = t.app /\ u.file = t.file /\ u.row = t.row /\ u.value = t.value /\ u.entry = t.entry
    BY <1>1, <1>2 DEF StageType
  <2>k. KeptSet(x, t, u)
    BY <1>2
  <2> HIDE DEF u, t
  <2>4. FileSet(Param(r), x, t, u)
    BY <2>1, <2>3 DEF FileSet, Filers
  <2>5. RowSet(x, t, u)
    BY <2>1, <2>3 DEF RowSet, Rowers
  <2>6. ValueSet(x, t, u)
    BY <2>1, <2>3 DEF ValueSet, Valued
  <2>7. Passed(x, t)
    BY <1>2 DEF Passed
  <2>8. Change(Param(r), x, t, u)
    BY <2>3, <2>4, <2>5, <2>6, <2>k DEF Change
  <2>9. Writes(r, u)
    BY <1>2 DEF u
  <2> QED
    BY <1>2, <2>1, <2>2, <2>3, <2>7, <2>8, <2>9, WritesSteps DEF t
<1>3. ASSUME NEW o \in SUBSET StageObjects PROVE [t EXCEPT !.objects = o].objects = o /\ t.objects \in SUBSET StageObjects
  BY <1>1 DEF StageType
<1>4. t.objects \cup {"credential"} \in SUBSET StageObjects /\ t.objects \cup {"grant"} \in SUBSET StageObjects
      /\ t.objects \cup {"host"} \in SUBSET StageObjects
  BY <1>1, StageWith DEF StageObjects
<1>5. t.objects \ {"credential"} \in SUBSET StageObjects /\ t.objects \ {"grant"} \in SUBSET StageObjects
      /\ t.objects \ {"host"} \in SUBSET StageObjects
  BY <1>1, StageWith
<1>6. ASSUME ProvisionRepoCredential(r) \/ ProvisionSmtpOpsGrant(r) \/ ProvisionDns(r) PROVE Stepped(r)
  <2>1. ASSUME NEW x \in Provides, NEW u PROVE KeptSet(x, t, u) /\ x \in Those
    BY <2>1 DEF KeptSet, Provides
  <2> HIDE DEF t, Those
  <2> QED
    BY <1>2, <1>4, <1>6, <2>1 DEF ProvisionRepoCredential, ProvisionSmtpOpsGrant, ProvisionDns, applyRepoCredential,
       applyBuildRbac, provisionUnitDns, Provides, t
<1>7. KeptSet("undo-repo-credential", t, [t EXCEPT !.objects = t.objects \ {"credential"}])
  BY <1>3, <1>5 DEF KeptSet, Provides
<1>8. KeptSet("undo-smtp-ops-grant", t, [t EXCEPT !.objects = t.objects \ {"grant"}])
  BY <1>3, <1>5 DEF KeptSet, Provides
<1>9. KeptSet("remove-unit-dns", t, [t EXCEPT !.objects = t.objects \ {"host"}])
  BY <1>3, <1>5 DEF KeptSet, Provides
<1>10. ASSUME UndoRepoCredential(r) PROVE Stepped(r)
  <2>1. At(r, "undo-repo-credential") /\ Writes(r, [t EXCEPT !.objects = t.objects \ {"credential"}])
    BY <1>10 DEF UndoRepoCredential, deleteRepoCredential
  <2> QED
    BY <1>2, <1>5, <1>7, <2>1
<1>11. ASSUME UndoSmtpOpsGrant(r) PROVE Stepped(r)
  <2>1. At(r, "undo-smtp-ops-grant") /\ Writes(r, [t EXCEPT !.objects = t.objects \ {"grant"}])
    BY <1>11 DEF UndoSmtpOpsGrant, deleteBuildRbac
  <2> QED
    BY <1>2, <1>5, <1>8, <2>1
<1>12. ASSUME RemoveUnitDns(r) PROVE Stepped(r)
  <2>1. At(r, "remove-unit-dns") /\ Writes(r, [t EXCEPT !.objects = t.objects \ {"host"}])
    BY <1>12 DEF RemoveUnitDns, removeUnitDns
  <2> QED
    BY <1>2, <1>5, <1>9, <2>1
<1> QED
  BY <1>6, <1>10, <1>11, <1>12

\* The steps that write the row.
LEMMA RowStep ==
    ASSUME IInv, NEW r \in Runs
    PROVE  RecordProvisional(r) \/ RecordInventory(r) \/ RecordOffboard(r) \/ RecordPurge(r) \/ SettleProvisionalRow(r)
           \/ AdoptRecordInventory(r) \/ RecordSwitch(r) => Stepped(r)
<1> DEFINE t == stage[On(r)]
<1>0. SUFFICES ASSUME run[r].st = "running", run[r].todo # <<>>
               PROVE  RecordProvisional(r) \/ RecordInventory(r) \/ RecordOffboard(r) \/ RecordPurge(r)
                      \/ SettleProvisionalRow(r) \/ AdoptRecordInventory(r) \/ RecordSwitch(r) => Stepped(r)
  BY DEF RecordProvisional, RecordInventory, RecordOffboard, RecordPurge, SettleProvisionalRow, AdoptRecordInventory,
         RecordSwitch, At
<1>1. t \in StageType /\ t.row \in Rows
  BY <1>0, Unwritten DEF StageType
<1>2. ASSUME NEW x \in Rowers, At(r, x), NEW w \in Rows, Writes(r, [t EXCEPT !.row = w]),
             RowSet(x, t, [t EXCEPT !.row = w])
      PROVE  Stepped(r)
  <2> DEFINE u == [t EXCEPT !.row = w]
  <2>1. /\ x \notin Filers /\ x \notin Provides /\ x \notin Valued /\ x \notin Zoned /\ x \notin Armers
    BY <1>2 DEF Filers, Marks, Removes, Rowers, Provides, Valued, Zoned, Armers
  <2>2. x \notin Unitary
    BY <1>2 DEF Unitary, Registers, Removes, BuildFile, SetsUpShared, TakesShared, TakesCi, Rowers
  <2>3. /\ u \in StageType /\ u.app = t.app /\ u.file = t.file /\ u.objects = t.objects /\ u.value = t.value
        /\ u.entry = t.entry
    BY <1>1, <1>2 DEF StageType
  <2>k. RowSet(x, t, u)
    BY <1>2
  <2> HIDE DEF u, t
  <2>4. FileSet(Param(r), x, t, u)
    BY <2>1, <2>3 DEF FileSet, Filers
  <2>5. KeptSet(x, t, u)
    BY <1>2, <2>1, <2>3 DEF KeptSet, Rowers
  <2>6. ValueSet(x, t, u)
    BY <2>1, <2>3 DEF ValueSet, Valued
  <2>7. Passed(x, t)
    BY <1>2 DEF Passed, Rowers
  <2>8. Change(Param(r), x, t, u)
    BY <2>3, <2>4, <2>5, <2>6, <2>k DEF Change
  <2>9. Writes(r, u)
    BY <1>2 DEF u
  <2> QED
    BY <1>2, <2>1, <2>2, <2>3, <2>7, <2>8, <2>9, WritesSteps DEF t
<1>3. ASSUME NEW w \in Rows PROVE [t EXCEPT !.row = w].row = w
  BY <1>1 DEF StageType
<1>4. ASSUME RecordProvisional(r) PROVE Stepped(r)
  <2> DEFINE w == upsertProvisional(t.row)
  <2>1. At(r, "record-provisional") /\ Writes(r, [t EXCEPT !.row = w]) /\ w \in Rows
    BY <1>1, <1>4 DEF RecordProvisional, upsertProvisional, Rows
  <2>2. w # "offboarded"
    BY DEF upsertProvisional
  <2> HIDE DEF w
  <2>3. RowSet("record-provisional", t, [t EXCEPT !.row = w])
    BY <1>3, <2>1, <2>2 DEF RowSet, Rowers
  <2> QED
    BY <1>2, <2>1, <2>3 DEF Rowers
<1>5. ASSUME RecordInventory(r) PROVE Stepped(r)
  <2>1. At(r, "record-inventory") /\ Writes(r, [t EXCEPT !.row = "active"]) /\ "active" \in Rows
    BY <1>5 DEF RecordInventory, Rows, CONSUMER_LIVE_STATUS
  <2>2. RowSet("record-inventory", t, [t EXCEPT !.row = "active"])
    BY <1>3, <2>1 DEF RowSet, Rowers, CONSUMER_LIVE_STATUS
  <2> QED
    BY <1>2, <2>1, <2>2 DEF Rowers
<1>6. ASSUME RecordOffboard(r) PROVE Stepped(r)
  <2>1. At(r, "record-offboard") /\ Writes(r, [t EXCEPT !.row = "offboarded"]) /\ "offboarded" \in Rows
    BY <1>6 DEF RecordOffboard, Rows
  <2>2. RowSet("record-offboard", t, [t EXCEPT !.row = "offboarded"])
    BY <1>3, <2>1 DEF RowSet, Rowers
  <2> QED
    BY <1>2, <2>1, <2>2 DEF Rowers
<1>7. ASSUME RecordPurge(r) PROVE Stepped(r)
  <2> DEFINE w == IF t.row = "none" THEN t.row ELSE "offboarded"
  <2>1. At(r, "record-purge") /\ Writes(r, [t EXCEPT !.row = w]) /\ w \in {"none", "offboarded"}
    BY <1>7 DEF RecordPurge
  <2> HIDE DEF w
  <2>2. w \in Rows
    BY <2>1 DEF Rows
  <2>3. RowSet("record-purge", t, [t EXCEPT !.row = w])
    BY <1>3, <2>1, <2>2 DEF RowSet, Rowers
  <2> QED
    BY <1>2, <2>1, <2>2, <2>3 DEF Rowers
<1>8. ASSUME SettleProvisionalRow(r) PROVE Stepped(r)
  <2> DEFINE w == IF t.row = "provisioning" THEN "offboarded" ELSE t.row
  <2>1. At(r, "settle-provisional-row") /\ Writes(r, [t EXCEPT !.row = w]) /\ (w = t.row \/ w = "offboarded")
    BY <1>8 DEF SettleProvisionalRow
  <2> HIDE DEF w
  <2>2. w \in Rows
    BY <1>1, <2>1 DEF Rows
  <2>3. RowSet("settle-provisional-row", t, [t EXCEPT !.row = w])
    BY <1>3, <2>1, <2>2 DEF RowSet, Rowers
  <2> QED
    BY <1>2, <2>1, <2>2, <2>3 DEF Rowers
<1>9. ASSUME AdoptRecordInventory(r) PROVE Stepped(r)
  <2> DEFINE w == IF t.file.suspended THEN "suspended" ELSE "active"
  <2>1. At(r, "adopt-record-inventory") /\ Writes(r, [t EXCEPT !.row = w]) /\ t.file.in
    BY <1>9 DEF AdoptRecordInventory
  <2>2. w \in CONSUMER_LIVE_STATUS /\ w \in Rows
    BY DEF Rows, CONSUMER_LIVE_STATUS
  <2> HIDE DEF w
  <2>3. RowSet("adopt-record-inventory", t, [t EXCEPT !.row = w])
    BY <1>3, <2>1, <2>2 DEF RowSet, Rowers
  <2> QED
    BY <1>2, <2>1, <2>2, <2>3 DEF Rowers
<1>10. ASSUME RecordSwitch(r) PROVE Stepped(r)
  <2> DEFINE w == IF Param(r).to THEN "suspended" ELSE "active"
  <2>1. At(r, "record-switch") /\ Writes(r, [t EXCEPT !.row = w])
    BY <1>10 DEF RecordSwitch
  <2>2. w \in CONSUMER_LIVE_STATUS /\ w \in Rows
    BY DEF Rows, CONSUMER_LIVE_STATUS
  <2> HIDE DEF w
  <2>3. RowSet("record-switch", t, [t EXCEPT !.row = w])
    BY <1>3, <2>1, <2>2 DEF RowSet, Rowers
  <2> QED
    BY <1>2, <2>1, <2>2, <2>3 DEF Rowers
<1> QED
  BY <1>4, <1>5, <1>6, <1>7, <1>8, <1>9, <1>10

\* What the calls on the Vault entry and its renders make of a stage.
Beside(t, u) ==
    /\ u.file = t.file /\ u.row = t.row /\ u.app = t.app /\ u.objects = t.objects

Filled(t, u) == (t.entry = 0 => t.value.vault = 0) => (u.entry = 0 => u.value.vault = 0)

\* The ids of runs, and the one of a run before the behaviour.
LEMMA ForeignType ==
    /\ MaxPlans \in Nat /\ Foreign \in Nat /\ Foreign \in 0..Foreign /\ 0 \in 0..Foreign
    /\ \A i \in 1..MaxPlans : i \in 0..Foreign /\ i # 0 /\ i < Foreign
BY RunChainAssumption DEF Foreign

\* What the calls on Vault, the Secret and the pods do to a stage.
LEMMA ValueCalls ==
    ASSUME NEW t \in StageType, NEW id \in 0..Foreign, id # 0
    PROVE  /\ seedApp(t, id) \in StageType /\ Beside(t, seedApp(t, id)) /\ Filled(t, seedApp(t, id))
           /\ patchApp(t, id) \in StageType /\ Beside(t, patchApp(t, id)) /\ Filled(t, patchApp(t, id))
           /\ deleteApp(t) \in StageType /\ Beside(t, deleteApp(t)) /\ Filled(t, deleteApp(t))
           /\ invoke(t) \in StageType /\ Beside(t, invoke(t)) /\ Filled(t, invoke(t))
           /\ refreshExternalSecret(t) \in StageType /\ Beside(t, refreshExternalSecret(t))
           /\ refreshExternalSecret(t).entry = t.entry
           /\ refreshExternalSecret(t).value.vault = t.value.vault /\ refreshExternalSecret(t).value.secret = 0
           /\ restartWorkloads(t) \in StageType /\ Beside(t, restartWorkloads(t)) /\ restartWorkloads(t).entry = t.entry
           /\ restartWorkloads(t).value.vault = t.value.vault /\ restartWorkloads(t).value.secret = t.value.secret
           /\ restartWorkloads(t).value.pod = 0
<1>1. t.value \in ValueType /\ t.entry \in 0..Foreign /\ 0 \in 0..Foreign
  BY ForeignType DEF StageType
<1>2. ASSUME NEW v \in 0..Foreign
      PROVE  /\ [t.value EXCEPT !.vault = v] \in ValueType /\ [t.value EXCEPT !.vault = v].vault = v
             /\ [t.value EXCEPT !.secret = v] \in ValueType /\ [t.value EXCEPT !.secret = v].vault = t.value.vault
             /\ [t.value EXCEPT !.secret = v].secret = v
             /\ [t.value EXCEPT !.pod = v] \in ValueType /\ [t.value EXCEPT !.pod = v].vault = t.value.vault
             /\ [t.value EXCEPT !.pod = v].secret = t.value.secret /\ [t.value EXCEPT !.pod = v].pod = v
  BY <1>1 DEF ValueType
<1> DEFINE W(v, e, a) == [t EXCEPT !.value = v, !.entry = e, !.admin = a]
<1>3. ASSUME NEW v \in ValueType, NEW e \in 0..Foreign, NEW a \in BOOLEAN
      PROVE  W(v, e, a) \in StageType /\ Beside(t, W(v, e, a)) /\ W(v, e, a).value = v /\ W(v, e, a).entry = e
  BY DEF StageType, Beside
<1>4. t = [file |-> t.file, row |-> t.row, app |-> t.app, shown |-> t.shown, objects |-> t.objects, entry |-> t.entry,
           admin |-> t.admin, branch |-> t.branch, wanted |-> t.wanted, value |-> t.value]
      /\ t.admin \in BOOLEAN
  BY DEF StageType
<1> DEFINE seeded == [t.value EXCEPT !.vault = id]
           w == IF t.entry = 0 THEN t.value.vault ELSE id
           patched == [t.value EXCEPT !.vault = w]
           gone == [t.value EXCEPT !.vault = 0]
           unread == [t.value EXCEPT !.secret = 0]
           fresh == [t.value EXCEPT !.pod = 0]
<1>5. /\ t.entry = 0 => seedApp(t, id) = W(seeded, id, t.admin)
      /\ patchApp(t, id) = W(patched, t.entry, t.admin)
      /\ deleteApp(t) = W(gone, 0, FALSE)
      /\ refreshExternalSecret(t) = W(unread, t.entry, t.admin)
      /\ restartWorkloads(t) = W(fresh, t.entry, t.admin)
  BY <1>4 DEF seedApp, patchApp, deleteApp, refreshExternalSecret, restartWorkloads
<1>6. /\ seeded \in ValueType /\ gone \in ValueType /\ unread \in ValueType /\ fresh \in ValueType
      /\ gone.vault = 0 /\ unread.vault = t.value.vault /\ unread.secret = 0
      /\ fresh.vault = t.value.vault /\ fresh.secret = t.value.secret /\ fresh.pod = 0
  BY <1>1, <1>2
<1>7. patched \in ValueType /\ (t.entry = 0 => patched.vault = t.value.vault)
  <2>1. t.value.vault \in 0..Foreign
    BY <1>1 DEF ValueType
  <2>2. w \in 0..Foreign /\ (t.entry = 0 => w = t.value.vault)
    BY <2>1
  <2> HIDE DEF w
  <2> QED
    BY <1>2, <2>2
<1> HIDE DEF W, w, seeded, patched, gone, unread, fresh
<1>8. seedApp(t, id) \in StageType /\ Beside(t, seedApp(t, id)) /\ Filled(t, seedApp(t, id))
  <2>1. CASE t.entry # 0
    BY <2>1 DEF seedApp, Beside, Filled
  <2>2. CASE t.entry = 0
    BY <1>3, <1>4, <1>5, <1>6, <2>2 DEF Filled
  <2> QED
    BY <2>1, <2>2
<1>9. patchApp(t, id) \in StageType /\ Beside(t, patchApp(t, id)) /\ Filled(t, patchApp(t, id))
  BY <1>1, <1>3, <1>4, <1>5, <1>7 DEF Filled
<1>10. deleteApp(t) \in StageType /\ Beside(t, deleteApp(t)) /\ Filled(t, deleteApp(t))
  <2>1. FALSE \in BOOLEAN
    OBVIOUS
  <2>2. W(gone, 0, FALSE) \in StageType /\ Beside(t, W(gone, 0, FALSE)) /\ W(gone, 0, FALSE).value = gone
    BY <1>1, <1>3, <1>6, <2>1, Zenon
  <2> QED
    BY <1>5, <1>6, <2>2 DEF Filled
<1>11. invoke(t) \in StageType /\ Beside(t, invoke(t)) /\ Filled(t, invoke(t))
  BY DEF invoke, StageType, Beside, Filled
<1>12. /\ refreshExternalSecret(t) \in StageType /\ Beside(t, refreshExternalSecret(t))
       /\ refreshExternalSecret(t).entry = t.entry
       /\ refreshExternalSecret(t).value.vault = t.value.vault /\ refreshExternalSecret(t).value.secret = 0
  BY <1>1, <1>3, <1>4, <1>5, <1>6
<1>13. /\ restartWorkloads(t) \in StageType /\ Beside(t, restartWorkloads(t)) /\ restartWorkloads(t).entry = t.entry
       /\ restartWorkloads(t).value.vault = t.value.vault /\ restartWorkloads(t).value.secret = t.value.secret
       /\ restartWorkloads(t).value.pod = 0
  BY <1>1, <1>3, <1>4, <1>5, <1>6
<1> QED
  BY <1>8, <1>9, <1>10, <1>11, <1>12, <1>13

\* The steps that write the Vault entry or have it read again.
LEMMA ValueStep ==
    ASSUME IInv, NEW r \in Runs
    PROVE  Activate(r) \/ WriteSecrets(r) \/ RemoveAppSecrets(r) \/ RemoveCeremonySecrets(r) \/ PurgeRemoveAppSecrets(r)
           \/ RefetchSecrets(r) \/ RestartWorkloads(r) \/ SeedSecrets(r) => Stepped(r)
<1> DEFINE t == stage[On(r)]
<1>0. SUFFICES ASSUME run[r].st = "running", run[r].todo # <<>>
               PROVE  Activate(r) \/ WriteSecrets(r) \/ RemoveAppSecrets(r) \/ RemoveCeremonySecrets(r)
                      \/ PurgeRemoveAppSecrets(r) \/ RefetchSecrets(r) \/ RestartWorkloads(r) \/ SeedSecrets(r) => Stepped(r)
  BY DEF Activate, WriteSecrets, RemoveAppSecrets, RemoveCeremonySecrets, PurgeRemoveAppSecrets, RefetchSecrets,
         RestartWorkloads, SeedSecrets, At
<1>1. /\ t \in StageType /\ [stage EXCEPT ![On(r)] = t] = stage /\ Types /\ Place(r)
      /\ run[r] \in RunType /\ run[r].p \in ParamType /\ On(r) \in Stages /\ stage \in [Stages -> StageType]
  BY <1>0, Unwritten DEF Place, Types
<1>2. Param(r).id \in 0..Foreign /\ Param(r).id # 0 /\ Foreign \in 0..Foreign /\ Foreign # 0
  BY <1>1, ForeignType DEF Param, ParamType
<1>3. ASSUME NEW x \in Valued, At(r, x), NEW u \in StageType, Beside(t, u), ValueSet(x, t, u),
             stage' = [stage EXCEPT ![On(r)] = u], UNCHANGED <<unit, zone, scope>>,
             NEW c, Moved(r, c), ArmedSet(x, On(r), run[r].armed, c)
      PROVE  Stepped(r)
  <2>1. x \notin Filers /\ x \notin Rowers /\ x \notin Provides /\ x \notin Zoned
    BY <1>3 DEF Filers, Marks, Removes, Rowers, Provides, Valued, Zoned
  <2>2. x \notin Unitary
    BY <1>3 DEF Unitary, Registers, Removes, BuildFile, SetsUpShared, TakesShared, TakesCi, Valued
  <2>3. u.app = t.app /\ u.file = t.file /\ u.row = t.row /\ u.objects = t.objects
    BY <1>3 DEF Beside
  <2> HIDE DEF t
  <2>4. FileSet(Param(r), x, t, u)
    BY <2>1, <2>3 DEF FileSet, Filers
  <2>5. RowSet(x, t, u)
    BY <2>1, <2>3 DEF RowSet, Rowers
  <2>6. KeptSet(x, t, u)
    BY <1>3, <2>1, <2>3 DEF KeptSet, Valued
  <2>7. Passed(x, t)
    BY <1>3 DEF Passed, Valued
  <2>8. Change(Param(r), x, t, u)
    BY <1>3, <2>3, <2>4, <2>5, <2>6 DEF Change
  <2> QED
    BY <1>3, <2>1, <2>2, <2>7, <2>8, MovesSteps DEF t
<1>4. ASSUME NEW x \in Valued, x # "seed-secrets" PROVE ArmedSet(x, On(r), run[r].armed, run[r].armed)
  BY <1>4 DEF ArmedSet, Armers, Valued
<1>5. ASSUME NEW x \in Valued, x \notin {"refetch-secrets", "restart-workloads"}, NEW u, Filled(t, u) PROVE ValueSet(x, t, u)
  BY <1>5 DEF ValueSet, Filled
<1>6. Beside(t, t) /\ Filled(t, t)
  BY DEF Beside, Filled
<1>7. Done(r) => Moved(r, run[r].armed)
  BY <1>0, <1>1, DoneMoves
<1>8. ASSUME NEW u, Writes(r, u)
      PROVE  stage' = [stage EXCEPT ![On(r)] = u] /\ UNCHANGED <<unit, zone, scope>> /\ Moved(r, run[r].armed)
  BY <1>7, <1>8 DEF Writes
<1>9. ASSUME NEW x \in Valued \ {"seed-secrets", "refetch-secrets", "restart-workloads"}, At(r, x), NEW u \in StageType, Beside(t, u), Filled(t, u),
             stage' = [stage EXCEPT ![On(r)] = u], UNCHANGED <<unit, zone, scope>>, Moved(r, run[r].armed)
      PROVE  Stepped(r)
  <2>1. x \in Valued /\ x # "seed-secrets" /\ x \notin {"refetch-secrets", "restart-workloads"}
    BY <1>9
  <2>2. ValueSet(x, t, u) /\ ArmedSet(x, On(r), run[r].armed, run[r].armed)
    BY <1>4, <1>5, <1>9, <2>1
  <2> QED
    BY <1>3, <1>9, <2>1, <2>2
<1> HIDE DEF t
<1>10. ASSUME WriteSecrets(r) PROVE Stepped(r)
  <2> DEFINE u == patchApp(t, Param(r).id)
  <2>1. At(r, "write-secrets") /\ Writes(r, u)
    BY <1>10 DEF WriteSecrets, t
  <2>2. u \in StageType /\ Beside(t, u) /\ Filled(t, u)
    BY <1>1, <1>2, ValueCalls
  <2> HIDE DEF u
  <2> QED
    BY <1>8, <1>9, <2>1, <2>2 DEF Valued
<1>11. ASSUME RemoveAppSecrets(r) \/ RemoveCeremonySecrets(r) \/ PurgeRemoveAppSecrets(r) PROVE Stepped(r)
  <2> DEFINE u == deleteApp(t)
  <2>1. Writes(r, u) /\ (At(r, "remove-app-secrets") \/ At(r, "remove-ceremony-secrets") \/ At(r, "purge-remove-app-secrets"))
    BY <1>11 DEF RemoveAppSecrets, RemoveCeremonySecrets, PurgeRemoveAppSecrets, t
  <2>2. u \in StageType /\ Beside(t, u) /\ Filled(t, u)
    BY <1>1, <1>2, ValueCalls
  <2> HIDE DEF u
  <2> QED
    BY <1>8, <1>9, <2>1, <2>2 DEF Valued
<1>12. ASSUME RefetchSecrets(r) PROVE Stepped(r)
  <2> DEFINE u == refreshExternalSecret(t)
  <2>1. At(r, "refetch-secrets") /\ Writes(r, u)
    BY <1>12 DEF RefetchSecrets, t
  <2>2. u \in StageType /\ Beside(t, u) /\ u.entry = t.entry /\ u.value.vault = t.value.vault /\ u.value.secret = 0
    BY <1>1, <1>2, ValueCalls
  <2> HIDE DEF u
  <2>3. ValueSet("refetch-secrets", t, u)
    BY <2>2 DEF ValueSet, Valued
  <2> QED
    BY <1>3, <1>4, <1>8, <2>1, <2>2, <2>3 DEF Valued
<1>13. ASSUME RestartWorkloads(r) PROVE Stepped(r)
  <2> DEFINE u == restartWorkloads(t)
  <2>1. At(r, "restart-workloads") /\ Writes(r, u)
    BY <1>13 DEF RestartWorkloads, t
  <2>2. /\ u \in StageType /\ Beside(t, u) /\ u.entry = t.entry /\ u.value.vault = t.value.vault
        /\ u.value.secret = t.value.secret /\ u.value.pod = 0
    BY <1>1, <1>2, ValueCalls
  <2> HIDE DEF u
  <2>3. ValueSet("restart-workloads", t, u)
    BY <2>2 DEF ValueSet, Valued
  <2> QED
    BY <1>3, <1>4, <1>8, <2>1, <2>2, <2>3 DEF Valued
<1>14. ASSUME Activate(r) PROVE Stepped(r)
  <2>1. At(r, "activate")
    BY <1>14 DEF Activate
  <2>2. ASSUME UNCHANGED world, Moved(r, run[r].armed) PROVE Stepped(r)
    BY <1>1, <1>6, <1>9, <2>1, <2>2 DEF world, Valued
  <2>3. CASE Passes(r)
    BY <1>7, <2>2, <2>3 DEF Passes
  <2>4. CASE TimesOut(r, "minted")
    <3>1. Moved(r, run[r].armed)
      BY <1>0, <1>1, <2>4, DoneMoves DEF TimesOut
    <3> QED
      BY <2>2, <2>4, <3>1 DEF TimesOut
  <2>5. ASSUME NEW u, u = t \/ u = rotateBootstrapToken(On(r)), stage' = [stage EXCEPT ![On(r)] = invoke(u)],
               Settles(r, [run[r] EXCEPT !.p.ck = @ \cup {"minted"}]), UNCHANGED <<unit, zone, scope>>
        PROVE  Stepped(r)
    <3>1. Moved(r, run[r].armed)
      BY <1>0, <1>1, <2>5, DoneMoves
    <3> DEFINE a == patchApp(t, Foreign)
               b == refreshExternalSecret(a)
               c == restartWorkloads(b)
    <3>2. rotateBootstrapToken(On(r)) = c
      BY DEF rotateBootstrapToken, t
    <3>3. a \in StageType /\ Beside(t, a) /\ Filled(t, a)
      BY <1>1, <1>2, ValueCalls
    <3> HIDE DEF a
    <3>4. b \in StageType /\ Beside(a, b) /\ b.entry = a.entry /\ b.value.vault = a.value.vault
      BY <1>2, <3>3, ValueCalls
    <3> HIDE DEF b
    <3>5. c \in StageType /\ Beside(b, c) /\ c.entry = b.entry /\ c.value.vault = b.value.vault
      BY <1>2, <3>4, ValueCalls
    <3> HIDE DEF c
    <3>6. u \in StageType /\ Beside(t, u) /\ Filled(t, u)
      BY <1>1, <1>6, <2>5, <3>2, <3>3, <3>4, <3>5 DEF Beside, Filled
    <3> DEFINE w == invoke(u)
    <3>7. w \in StageType /\ Beside(u, w) /\ Filled(u, w)
      BY <1>2, <3>6, ValueCalls
    <3>8. stage' = [stage EXCEPT ![On(r)] = w]
      BY <2>5
    <3> HIDE DEF w
    <3>9. Beside(t, w) /\ Filled(t, w)
      BY <3>6, <3>7 DEF Beside, Filled
    <3> QED
      BY <1>9, <2>1, <2>5, <3>1, <3>7, <3>8, <3>9 DEF Valued
  <2> QED
    BY <1>14, <2>3, <2>4, <2>5 DEF Activate, t
<1>15. ASSUME SeedSecrets(r) PROVE Stepped(r)
  <2>1. At(r, "seed-secrets")
    BY <1>15 DEF SeedSecrets
  <2>2. ArmedSet("seed-secrets", On(r), run[r].armed, run[r].armed)
        /\ ArmedSet("seed-secrets", On(r), run[r].armed, Undoing(On(r), <<"remove-ceremony-secrets">>) \o run[r].armed)
    BY DEF ArmedSet, Armers
  <2>3. CASE t.entry # 0
    <3>1. Passes(r)
      BY <1>15, <2>3 DEF SeedSecrets, t
    <3>2. ValueSet("seed-secrets", t, t)
      BY <1>5, <1>6 DEF Valued
    <3> QED
      BY <1>1, <1>3, <1>6, <1>7, <2>1, <2>2, <3>1, <3>2 DEF Passes, world, Valued
  <2>4. CASE t.entry = 0
    <3> DEFINE u == seedApp(t, Param(r).id)
               c == Undoing(On(r), <<"remove-ceremony-secrets">>) \o run[r].armed
               rec == [run[r] EXCEPT !.armed = c, !.mem = @ \cup {"token"}]
    <3>1. /\ stage' = [stage EXCEPT ![On(r)] = u] /\ UNCHANGED <<unit, zone, scope>>
          /\ Settles(r, rec) \/ Fails(r, run[r])
      BY <1>15, <2>4 DEF SeedSecrets, t
    <3>2. u \in StageType /\ Beside(t, u) /\ Filled(t, u)
      BY <1>1, <1>2, ValueCalls
    <3>3. c \in Seq(StepType)
      <4>1. "remove-ceremony-secrets" \in UndoNames
        BY DEF UndoNames
      <4>2. run[r].armed \in Seq(StepType)
        BY <1>1 DEF Place
      <4> QED
        BY <1>1, <4>1, <4>2, UndoBefore
    <3>a. ArmedSet("seed-secrets", On(r), run[r].armed, c)
      BY <2>2
    <3> HIDE DEF u, c
    <3>4. rec \in RunType /\ Same(run[r], rec) /\ rec.todo = run[r].todo /\ rec.st = "running" /\ rec.armed = c
      BY <1>0, <1>1, <3>3 DEF RunType, Same
    <3> HIDE DEF rec
    <3>5. Moved(r, c) \/ Moved(r, run[r].armed)
      BY <1>0, <1>1, <3>1, <3>4, SettlesMoves, DoneMoves
    <3>6. ValueSet("seed-secrets", t, u)
      BY <1>5, <3>2 DEF Valued
    <3>7. "seed-secrets" \in Valued
      BY DEF Valued
    <3> QED
      BY <1>3, <2>1, <2>2, <3>1, <3>2, <3>a, <3>5, <3>6, <3>7
  <2> QED
    BY <2>3, <2>4
<1> QED
  BY <1>10, <1>11, <1>12, <1>13, <1>14, <1>15

\* The file a registration writes, and none.
LEMMA NoFileType ==
    /\ NoFile \in FileType /\ NoFile.in = FALSE /\ NoFile.fqdn = 0
    /\ \A d \in Domains : /\ [File EXCEPT !.fqdn = d] \in FileType /\ [File EXCEPT !.fqdn = d].in = TRUE
                          /\ [File EXCEPT !.fqdn = d].suspended = FALSE /\ [File EXCEPT !.fqdn = d].removing = FALSE
                          /\ [File EXCEPT !.fqdn = d].fqdn = d
<1>1. 0 \in Domains
  BY ConsumersAssumption
<1>2. NoFile \in FileType /\ NoFile.in = FALSE /\ NoFile.fqdn = 0 /\ NoFile.suspended = FALSE /\ NoFile.removing = FALSE
  BY <1>1 DEF NoFile, FileType
<1>3. File \in FileType /\ File.in = TRUE /\ File.suspended = FALSE /\ File.removing = FALSE
  BY <1>2 DEF File, FileType
<1>4. ASSUME NEW d \in Domains
      PROVE  /\ [File EXCEPT !.fqdn = d] \in FileType /\ [File EXCEPT !.fqdn = d].in = TRUE
             /\ [File EXCEPT !.fqdn = d].suspended = FALSE /\ [File EXCEPT !.fqdn = d].removing = FALSE
             /\ [File EXCEPT !.fqdn = d].fqdn = d
  BY <1>3 DEF FileType
<1> QED
  BY <1>2, <1>4

\* A step that writes the file leaves the rest of its stage.
LEMMA FileChange ==
    ASSUME NEW p, NEW x \in Filers, NEW t \in StageType, NEW f \in FileType, FileSet(p, x, t, [t EXCEPT !.file = f])
    PROVE  /\ [t EXCEPT !.file = f] \in StageType /\ Change(p, x, t, [t EXCEPT !.file = f]) /\ Passed(x, t)
           /\ x \notin Zoned
<1> DEFINE u == [t EXCEPT !.file = f]
<1>1. /\ u \in StageType /\ u.app = t.app /\ u.row = t.row /\ u.objects = t.objects /\ u.value = t.value
      /\ u.entry = t.entry
  BY DEF StageType
<1>2. FileSet(p, x, t, u)
  OBVIOUS
<1> HIDE DEF u
<1> USE DEF Filers, Marks, Removes
<1>3. RowSet(x, t, u)
  BY <1>1 DEF RowSet, Rowers
<1>4. KeptSet(x, t, u)
  BY <1>1 DEF KeptSet, Provides
<1>5. ValueSet(x, t, u)
  BY <1>1 DEF ValueSet, Valued
<1>6. Passed(x, t) /\ x \notin Zoned
  BY DEF Passed, Zoned
<1>7. Change(p, x, t, u)
  BY <1>1, <1>2, <1>3, <1>4, <1>5 DEF Change
<1> QED
  BY <1>1, <1>6, <1>7 DEF u

\* A stage as a record with another file.
LEMMA FileOf ==
    ASSUME NEW t \in StageType
    PROVE  /\ t.file \in FileType /\ [t EXCEPT !.file = t.file] = t
           /\ \A f \in FileType : [t EXCEPT !.file = f].file = f
<1>1. t = [file |-> t.file, row |-> t.row, app |-> t.app, shown |-> t.shown, objects |-> t.objects, entry |-> t.entry,
           admin |-> t.admin, branch |-> t.branch, wanted |-> t.wanted, value |-> t.value]
  BY DEF StageType
<1>2. [t EXCEPT !.file = t.file] = t
  BY <1>1
<1>3. t.file \in FileType /\ \A f \in FileType : [t EXCEPT !.file = f].file = f
  BY DEF StageType
<1> QED
  BY <1>2, <1>3

\* The steps that write the file alone.
LEMMA FileStep ==
    ASSUME IInv, NEW r \in Runs
    PROVE  MarkRemoving(r) \/ PurgeMarkRemoving(r) \/ UndoMarkRemoving(r) \/ WriteSize(r) \/ RestoreDomain(r)
           \/ WriteDomain(r) => Stepped(r)
<1> DEFINE t == stage[On(r)]
<1>0. SUFFICES ASSUME run[r].st = "running", run[r].todo # <<>>
               PROVE  MarkRemoving(r) \/ PurgeMarkRemoving(r) \/ UndoMarkRemoving(r) \/ WriteSize(r) \/ RestoreDomain(r)
                      \/ WriteDomain(r) => Stepped(r)
  BY DEF MarkRemoving, PurgeMarkRemoving, UndoMarkRemoving, WriteSize, RestoreDomain, WriteDomain, At
<1>1. /\ t \in StageType /\ [stage EXCEPT ![On(r)] = t] = stage /\ Types /\ Place(r)
      /\ run[r] \in RunType /\ On(r) \in Stages /\ stage \in [Stages -> StageType]
      /\ run[r].armed \in Seq(StepType) /\ run[r].undo \in BOOLEAN
  BY <1>0, Unwritten DEF Place, Types, RunType
<1>2. ASSUME NEW x \in Filers \ (Registers \cup Removes), At(r, x), NEW f \in FileType, FileSet(Param(r), x, t, [t EXCEPT !.file = f]),
             stage' = [stage EXCEPT ![On(r)] = [t EXCEPT !.file = f]], UNCHANGED <<unit, zone, scope>>,
             NEW c, Moved(r, c), ArmedSet(x, On(r), run[r].armed, c)
      PROVE  Stepped(r)
  <2> DEFINE u == [t EXCEPT !.file = f]
  <2>1. u \in StageType /\ Change(Param(r), x, t, u) /\ Passed(x, t) /\ x \notin Zoned
    BY <1>1, <1>2, FileChange
  <2>2. x \notin Unitary
    BY <1>2 DEF Unitary, Registers, Removes, BuildFile, SetsUpShared, TakesShared, TakesCi, Filers, Marks
  <2>3. stage' = [stage EXCEPT ![On(r)] = u]
    BY <1>2
  <2> HIDE DEF u
  <2> QED
    BY <1>2, <2>1, <2>2, <2>3, MovesSteps
<1>3. t.file \in FileType /\ [t EXCEPT !.file = t.file] = t /\ \A f \in FileType : [t EXCEPT !.file = f].file = f
  BY <1>1, FileOf
<1>4. ASSUME NEW u, Writes(r, u)
      PROVE  stage' = [stage EXCEPT ![On(r)] = u] /\ UNCHANGED <<unit, zone, scope>> /\ Moved(r, run[r].armed)
  BY <1>0, <1>1, <1>4, DoneMoves DEF Writes
<1>5. ASSUME NEW x \in Marks \cup {"write-size", "restore-domain"} PROVE ArmedSet(x, On(r), run[r].armed, run[r].armed) /\ x \in Filers \ (Registers \cup Removes)
  <2>1. x \notin Armers /\ x \in Filers
    BY <1>5 DEF Armers, Marks, Filers
  <2>2. x \notin Registers /\ x \notin Removes
    BY <1>5 DEF Marks, Registers, Removes
  <2> QED
    BY <2>1, <2>2 DEF ArmedSet, Armers
<1> HIDE DEF t
<1>6. ASSUME NEW x \in Marks, At(r, x), MarksRemoving(r) PROVE Stepped(r)
  <2> DEFINE f == IF t.file.in THEN [t.file EXCEPT !.removing = TRUE] ELSE t.file
  <2>1. Writes(r, [t EXCEPT !.file = f])
    <3>1. t.file.in => [t EXCEPT !.file.removing = TRUE] = [t EXCEPT !.file = f]
      BY <1>1 DEF StageType
    <3>2. ~t.file.in => t = [t EXCEPT !.file = f]
      BY <1>3
    <3> QED
      BY <1>6, <3>1, <3>2 DEF MarksRemoving, t
  <2>2. /\ f \in FileType
        /\ \/ ~t.file.in /\ f = t.file
           \/ t.file.in /\ f.in /\ f.removing /\ f.suspended = t.file.suspended /\ f.fqdn = t.file.fqdn
    BY <1>3 DEF FileType
  <2> HIDE DEF f
  <2>3. FileSet(Param(r), x, t, [t EXCEPT !.file = f])
    <3> DEFINE u == [t EXCEPT !.file = f]
    <3>1. u.file = f
      BY <1>3, <2>2
    <3> HIDE DEF u
    <3>2. FileSet(Param(r), x, t, u)
      BY <1>6, <2>2, <3>1 DEF FileSet, Filers, Marks, Removes
    <3> QED
      BY <3>2 DEF u
  <2> QED
    BY <1>2, <1>4, <1>5, <1>6, <2>1, <2>2, <2>3
<1>7. ASSUME WriteSize(r) PROVE Stepped(r)
  <2> DEFINE f == [t.file EXCEPT !.size = Param(r).to]
  <2>1. At(r, "write-size") /\ t.file.in /\ Writes(r, [t EXCEPT !.file = f])
    <3>1. [t EXCEPT !.file.size = Param(r).to] = [t EXCEPT !.file = f]
      BY <1>1 DEF StageType
    <3> QED
      BY <1>7, <3>1 DEF WriteSize, t
  <2>2. Param(r).to \in 0..1
    <3>1. Told(r) = "write-size"
      BY <2>1 DEF At, Told
    <3>2. ~run[r].undo
      BY <1>1, <3>1 DEF Place, Back
    <3>3. Param(r).kind = "size"
      BY <1>1, <3>1, <3>2 DEF Place, Forth
    <3> QED
      BY <1>1, <3>3 DEF Place, Planned
  <2>3. f \in FileType /\ f.in = t.file.in /\ f.suspended = t.file.suspended /\ f.removing = t.file.removing /\ f.fqdn = t.file.fqdn
    BY <1>3, <2>2 DEF FileType
  <2> HIDE DEF f
  <2>4. FileSet(Param(r), "write-size", t, [t EXCEPT !.file = f])
    <3> DEFINE u == [t EXCEPT !.file = f]
    <3>1. u.file = f
      BY <1>3, <2>3
    <3> HIDE DEF u
    <3>2. FileSet(Param(r), "write-size", t, u)
      BY <2>1, <2>3, <3>1 DEF FileSet, Filers, Marks, Removes
    <3> QED
      BY <3>2 DEF u
  <2> QED
    BY <1>2, <1>4, <1>5, <2>1, <2>3, <2>4
<1>8. ASSUME NEW x \in {"write-domain", "restore-domain"}, At(r, x)
      PROVE  Param(r).to \in Domains /\ Param(r).from \in Domains
  <2>1. Told(r) = x
    BY <1>8 DEF At, Told
  <2>2. Param(r).kind = "domain"
    BY <1>1, <1>8, <2>1 DEF Place, Forth, Back
  <2> QED
    BY <1>1, <2>2 DEF Place, Planned
<1>9. ASSUME RestoreDomain(r) PROVE Stepped(r)
  <2> DEFINE f == [t.file EXCEPT !.fqdn = Param(r).from]
  <2>1. At(r, "restore-domain") /\ t.file.in /\ Writes(r, [t EXCEPT !.file = f])
    <3>1. [t EXCEPT !.file.fqdn = Param(r).from] = [t EXCEPT !.file = f]
      BY <1>1 DEF StageType
    <3> QED
      BY <1>9, <3>1 DEF RestoreDomain, t
  <2>2. Param(r).from \in Domains
    BY <1>8, <2>1
  <2>3. f \in FileType /\ f.in = t.file.in /\ f.suspended = t.file.suspended /\ f.removing = t.file.removing /\ f.fqdn = Param(r).from
    BY <1>3, <2>2 DEF FileType
  <2> HIDE DEF f
  <2>4. FileSet(Param(r), "restore-domain", t, [t EXCEPT !.file = f])
    <3> DEFINE u == [t EXCEPT !.file = f]
    <3>1. u.file = f
      BY <1>3, <2>3
    <3> HIDE DEF u
    <3>2. FileSet(Param(r), "restore-domain", t, u)
      BY <2>1, <2>3, <3>1 DEF FileSet, Filers, Marks, Removes
    <3> QED
      BY <3>2 DEF u
  <2> QED
    BY <1>2, <1>4, <1>5, <2>1, <2>3, <2>4
<1>10. ASSUME WriteDomain(r) PROVE Stepped(r)
  <2> DEFINE f == [t.file EXCEPT !.fqdn = Param(r).to]
             c == Undoing(On(r), <<"restore-domain">>) \o run[r].armed
  <2>1. At(r, "write-domain") /\ t.file.in /\ stage' = [stage EXCEPT ![On(r)].file.fqdn = Param(r).to]
        /\ DoneArmed(r, c) /\ UNCHANGED <<unit, zone, scope>>
    BY <1>10 DEF WriteDomain, t
  <2>2. Param(r).to \in Domains
    BY <1>8, <2>1
  <2>3. f \in FileType /\ f.in = t.file.in /\ f.suspended = t.file.suspended /\ f.removing = t.file.removing /\ f.fqdn = Param(r).to
    BY <1>3, <2>2 DEF FileType
  <2>4. stage' = [stage EXCEPT ![On(r)] = [t EXCEPT !.file = f]]
    BY <1>1, <2>1 DEF t, StageType
  <2>5. c \in Seq(StepType)
    <3>1. "restore-domain" \in UndoNames
      BY DEF UndoNames
    <3> QED
      BY <1>1, <3>1, UndoBefore
  <2>6. ArmedSet("write-domain", On(r), run[r].armed, c)
    BY DEF ArmedSet, Armers
  <2> HIDE DEF f, c
  <2>7. FileSet(Param(r), "write-domain", t, [t EXCEPT !.file = f])
    <3> DEFINE u == [t EXCEPT !.file = f]
    <3>1. u.file = f
      BY <1>3, <2>3
    <3> HIDE DEF u
    <3>2. FileSet(Param(r), "write-domain", t, u)
      BY <2>1, <2>3, <3>1 DEF FileSet, Filers, Marks, Removes
    <3> QED
      BY <3>2 DEF u
  <2>8. Moved(r, c)
    BY <1>0, <1>1, <2>1, <2>5, DoneMoves
  <2>9. "write-domain" \in Filers \ (Registers \cup Removes)
    BY DEF Filers, Registers, Removes
  <2> QED
    BY <1>2, <2>1, <2>3, <2>4, <2>6, <2>7, <2>8, <2>9
<1>11. MarkRemoving(r) \/ PurgeMarkRemoving(r) \/ UndoMarkRemoving(r) => Stepped(r)
  BY <1>6 DEF MarkRemoving, PurgeMarkRemoving, UndoMarkRemoving, Marks
<1> QED
  BY <1>7, <1>9, <1>10, <1>11

\* A step that writes the file and the build file with it.
LEMMA RegisterSteps ==
    ASSUME IInv, NEW r \in Runs, NEW x \in Filers, At(r, x), NEW f \in FileType,
           FileSet(Param(r), x, stage[On(r)], [stage[On(r)] EXCEPT !.file = f]),
           stage' = [stage EXCEPT ![On(r)] = [stage[On(r)] EXCEPT !.file = f]], UNCHANGED <<zone, scope>>, unit' \in UnitType,
           UnitSet(Param(r), x, On(r), stage[On(r)], [stage[On(r)] EXCEPT !.file = f]),
           NEW c, Moved(r, c), ArmedSet(x, On(r), run[r].armed, c)
    PROVE  Stepped(r)
<1> DEFINE t == stage[On(r)]
           u == [t EXCEPT !.file = f]
<1>1. run[r].st = "running" /\ run[r].todo # <<>> /\ Told(r) = x
  BY DEF At, Told
<1>2. On(r) \in Stages /\ Types /\ t \in StageType
  BY <1>1, StepPlace DEF Place, IInv
<1>3. u \in StageType /\ Change(Param(r), x, t, u) /\ Passed(x, t) /\ x \notin Zoned
  BY <1>2, FileChange
<1>4. stage' = [stage EXCEPT ![On(r)] = u] /\ UnitSet(Param(r), x, On(r), t, u)
  OBVIOUS
<1> HIDE DEF u
<1>5. stage' \in [Stages -> StageType] /\ stage'[On(r)] = u /\ \A s \in Stages : s # On(r) => stage'[s] = stage[s]
  BY <1>2, <1>3, <1>4 DEF Types
<1>6. run'[r].armed = c /\ Moved(r, run'[r].armed)
  BY DEF Moved
<1>7. ZoneSet(Param(r), x, On(r), t)
  BY <1>3 DEF ZoneSet, Zoned
<1>8. zone' \in ZoneType
  BY <1>2 DEF Types
<1> QED
  BY <1>1, <1>3, <1>4, <1>5, <1>6, <1>7, <1>8 DEF Stepped

\* The unit with another build file, and with other objects.
LEMMA UnitWith ==
    ASSUME NEW w \in UnitType
    PROVE  /\ \A b \in BuildType : [w EXCEPT !.build = b] \in UnitType /\ [w EXCEPT !.build = b].build = b
                                   /\ [w EXCEPT !.build = b].objects = w.objects
           /\ \A o \in SUBSET UnitObjects : [w EXCEPT !.objects = o] \in UnitType /\ [w EXCEPT !.objects = o].objects = o
                                            /\ [w EXCEPT !.objects = o].build = w.build
           /\ w.build \in BuildType /\ w.objects \in SUBSET UnitObjects
BY DEF UnitType

\* No build file is one that is not there.
LEMMA NoBuildType == NoBuild \in BuildType /\ NoBuild.in = FALSE
BY ForeignType DEF NoBuild, BuildType

\* The steps that write the stage file and the build file together.
LEMMA RegisterStep ==
    ASSUME IInv, NEW r \in Runs
    PROVE  WriteRegistration(r) \/ SwitchRegistration(r) \/ RemoveRegistrationStep(r) \/ PurgeRemoveRegistration(r)
           \/ UndoRemoveRegistration(r) => Stepped(r)
<1> DEFINE t == stage[On(r)]
<1>0. SUFFICES ASSUME run[r].st = "running", run[r].todo # <<>>
               PROVE  WriteRegistration(r) \/ SwitchRegistration(r) \/ RemoveRegistrationStep(r)
                      \/ PurgeRemoveRegistration(r) \/ UndoRemoveRegistration(r) => Stepped(r)
  BY DEF WriteRegistration, SwitchRegistration, RemoveRegistrationStep, PurgeRemoveRegistration, UndoRemoveRegistration, At
<1>1. /\ t \in StageType /\ [stage EXCEPT ![On(r)] = t] = stage /\ Types /\ Place(r) /\ On(r) \in Stages
      /\ stage \in [Stages -> StageType] /\ unit \in UnitType /\ run[r].armed \in Seq(StepType) /\ run[r].undo \in BOOLEAN
      /\ Param(r).id \in 0..Foreign
  <2>1. run[r] \in RunType /\ run[r].p \in ParamType
    BY <1>0, Unwritten
  <2>2. Param(r).id \in 0..Foreign
    BY <2>1, ForeignType DEF Param, ParamType
  <2> QED
    BY <1>0, <2>1, <2>2, Unwritten DEF Place, Types, RunType
<1>2. t.file \in FileType /\ [t EXCEPT !.file = t.file] = t /\ \A f \in FileType : [t EXCEPT !.file = f].file = f
  BY <1>1, FileOf
<1>3. unit.build \in BuildType /\ unit.objects \in SUBSET UnitObjects
  BY <1>1, UnitWith
<1>4. Done(r) => Moved(r, run[r].armed)
  BY <1>0, <1>1, DoneMoves
<1>5. ASSUME WriteRegistration(r) PROVE Stepped(r)
  <2> DEFINE c == deployableOnboardCleanups(On(r))
             n == [File EXCEPT !.fqdn = t.file.fqdn]
             b == [in |-> TRUE, suspended |-> FALSE, by |-> Param(r).id, builds |-> TRUE]
  <2>1. At(r, "write-registration") /\ UNCHANGED <<zone, scope>>
    BY <1>5 DEF WriteRegistration
  <2>2. c \in Seq(StepType)
    BY <1>1, CleanupList
  <2>3. ArmedSet("write-registration", On(r), run[r].armed, c)
    BY DEF ArmedSet, Armers
  <2>4. "write-registration" \in Filers /\ "write-registration" \in Registers
    BY DEF Filers, Registers
  <2>5. CASE CommitRegistration(On(r), Param(r).id) /\ DoneArmed(r, c)
    <3>1. n \in FileType /\ n.in = TRUE /\ n.suspended = FALSE /\ n.removing = FALSE /\ n.fqdn = t.file.fqdn
      <4>1. t.file.fqdn \in Domains
        BY <1>2 DEF FileType
      <4> QED
        BY <4>1, NoFileType
    <3>2. stage' = [stage EXCEPT ![On(r)] = [t EXCEPT !.file = n]] /\ unit' = [unit EXCEPT !.build = b]
      BY <2>5 DEF CommitRegistration
    <3>3. b \in BuildType /\ b.in = TRUE /\ b.suspended = FALSE
      BY <1>1 DEF BuildType
    <3> HIDE DEF n, b, t
    <3>4. unit' \in UnitType /\ unit'.build = b /\ unit'.objects = unit.objects
      BY <1>1, <3>2, <3>3, UnitWith
    <3> DEFINE u == [t EXCEPT !.file = n]
    <3>5. u.file = n
      BY <1>2, <3>1
    <3> HIDE DEF u
    <3>6. FileSet(Param(r), "write-registration", t, u)
      BY <3>1, <3>5 DEF FileSet, Filers, Marks, Removes
    <3>7. UnitSet(Param(r), "write-registration", On(r), t, u)
      BY <3>3, <3>4 DEF UnitSet, Unitary, Registers, BuildFile, Removes, SetsUpShared, TakesShared
    <3>8. Moved(r, c)
      BY <1>0, <1>1, <2>2, <2>5, DoneMoves
    <3> QED
      BY <2>1, <2>3, <2>4, <3>1, <3>2, <3>4, <3>6, <3>7, <3>8, RegisterSteps DEF u, t
  <2>6. CASE Fails(r, [run[r] EXCEPT !.armed = c]) /\ UNCHANGED <<stage, unit>>
    <3>1. Moved(r, c)
      BY <1>0, <1>1, <2>2, <2>6, DoneMoves
    <3>2. stage' = [stage EXCEPT ![On(r)] = [t EXCEPT !.file = t.file]] /\ unit' = unit
      BY <1>1, <1>2, <2>6
    <3>3. FileSet(Param(r), "write-registration", t, t)
      BY DEF FileSet, Filers, Marks, Removes
    <3>4. UnitSet(Param(r), "write-registration", On(r), t, t)
      BY <3>2 DEF UnitSet, Unitary, Registers, BuildFile, Removes, SetsUpShared, TakesShared
    <3>5. /\ FileSet(Param(r), "write-registration", t, [t EXCEPT !.file = t.file])
          /\ UnitSet(Param(r), "write-registration", On(r), t, [t EXCEPT !.file = t.file])
      BY <1>2, <3>3, <3>4
    <3> HIDE DEF c
    <3> QED
      BY <1>1, <1>2, <2>1, <2>3, <2>4, <3>1, <3>2, <3>5, RegisterSteps
  <2> QED
    BY <1>5, <2>5, <2>6 DEF WriteRegistration
<1>6. ASSUME SwitchRegistration(r) PROVE Stepped(r)
  <2> DEFINE f == [t.file EXCEPT !.suspended = Param(r).to]
             stops == Param(r).to /\ \A s \in readUnitStages \ {On(r)} : stage[s].file.suspended
             b == [unit.build EXCEPT !.suspended = stops, !.by = Param(r).id]
  <2>1. At(r, "switch-registration") /\ Done(r) /\ UNCHANGED <<zone, scope>> /\ FlipSuspended(On(r), Param(r).to, Param(r).id)
    BY <1>6 DEF SwitchRegistration
  <2>2. Param(r).to \in BOOLEAN
    <3>1. Told(r) = "switch-registration"
      BY <2>1 DEF At, Told
    <3>2. ~run[r].undo
      BY <1>1, <3>1 DEF Place, Back
    <3>3. Param(r).kind \in {"suspend", "resume"}
      BY <1>1, <3>1, <3>2 DEF Place, Forth
    <3> QED
      BY <1>1, <3>3 DEF Place, Planned
  <2>3. f \in FileType /\ f.in = t.file.in /\ f.suspended = Param(r).to /\ f.removing = t.file.removing /\ f.fqdn = t.file.fqdn
    BY <1>2, <2>2 DEF FileType
  <2>4. t.file.in /\ stage' = [stage EXCEPT ![On(r)] = [t EXCEPT !.file = f]]
    BY <1>1, <2>1 DEF FlipSuspended, StageType
  <2>5. b \in BuildType /\ b.in = unit.build.in /\ b.suspended = stops
    <3>1. stops \in BOOLEAN
      BY <2>2
    <3> HIDE DEF stops
    <3> QED
      BY <1>1, <1>3, <3>1 DEF BuildType
  <2>6. unit' = (IF ~unit.build.in \/ unit.build.suspended = stops THEN unit ELSE [unit EXCEPT !.build = b])
    <3>1. unit' = (IF ~unit.build.in \/ unit.build.suspended = stops THEN unit
                   ELSE [unit EXCEPT !.build.suspended = stops, !.build.by = Param(r).id])
      BY <2>1 DEF FlipSuspended
    <3> HIDE DEF stops
    <3>2. [unit EXCEPT !.build.suspended = stops, !.build.by = Param(r).id] = [unit EXCEPT !.build = b]
      BY <1>1 DEF UnitType
    <3> QED
      BY <3>1, <3>2
  <2>s. stops <=> (Param(r).to /\ \A s \in readUnitStages \ {On(r)} : stage[s].file.suspended)
    OBVIOUS
  <2> HIDE DEF f, b, stops, t
  <2>7. /\ unit' \in UnitType /\ unit'.objects = unit.objects /\ unit'.build.in = unit.build.in
        /\ unit.build.in => unit'.build.suspended = stops
    BY <1>1, <2>5, <2>6, UnitWith
  <2> DEFINE u == [t EXCEPT !.file = f]
  <2>8. u.file = f
    BY <1>2, <2>3
  <2> HIDE DEF u
  <2>9. FileSet(Param(r), "switch-registration", t, u)
    BY <2>3, <2>4, <2>8 DEF FileSet, Filers, Marks, Removes
  <2>10. UnitSet(Param(r), "switch-registration", On(r), t, u)
    BY <2>7, <2>s DEF UnitSet, Unitary, Registers, BuildFile, Removes, SetsUpShared, TakesShared
  <2>11. "switch-registration" \in Filers /\ ArmedSet("switch-registration", On(r), run[r].armed, run[r].armed)
    BY DEF Filers, ArmedSet, Armers
  <2> QED
    BY <1>4, <2>1, <2>3, <2>4, <2>7, <2>9, <2>10, <2>11, RegisterSteps DEF u, t
<1>7. ASSUME NEW x \in Removes, At(r, x), RemovesRegistration(r) PROVE Stepped(r)
  <2>1. Done(r) /\ UNCHANGED <<zone, scope>>
    BY <1>7 DEF RemovesRegistration
  <2>2. x \in Filers /\ ArmedSet(x, On(r), run[r].armed, run[r].armed)
    BY <1>7 DEF Filers, Removes, ArmedSet, Armers
  <2>3. x \notin Marks /\ x \notin Registers /\ x \notin BuildFile /\ x \notin SetsUpShared /\ x \notin TakesShared
        /\ x # "remove-build-webhook" /\ x \in Unitary
        /\ x \notin {"write-registration", "switch-registration", "write-domain", "restore-domain", "write-size"}
    BY <1>7 DEF Removes, Marks, Registers, BuildFile, SetsUpShared, TakesShared, Unitary
  <2>4. CASE t.file.in
    <3> DEFINE u == [t EXCEPT !.file = NoFile]
    <3>1. stage' = [stage EXCEPT ![On(r)] = u]
      BY <1>1, <1>7, <2>4 DEF RemovesRegistration, RemoveRegistration
    <3>2. unit' = unit \/ (unit' = [unit EXCEPT !.build = NoBuild] /\ readUnitStages \subseteq {On(r)})
      BY <1>7, <2>4 DEF RemovesRegistration, RemoveRegistration
    <3>3. u.file = NoFile /\ NoFile.in = FALSE /\ NoFile \in FileType
      BY <1>2, NoFileType
    <3>n. [unit EXCEPT !.build = NoBuild] \in UnitType /\ [unit EXCEPT !.build = NoBuild].objects = unit.objects
      BY <1>1, UnitWith, NoBuildType
    <3>4. unit' \in UnitType /\ unit'.objects = unit.objects
      BY <1>1, <3>2, <3>n
    <3> HIDE DEF u, t
    <3>5. FileSet(Param(r), x, t, u)
      BY <1>7, <2>2, <2>3, <3>3 DEF FileSet
    <3>6. UnitSet(Param(r), x, On(r), t, u)
      BY <2>3, <3>2, <3>4 DEF UnitSet
    <3> QED
      BY <1>4, <1>7, <2>1, <2>2, <3>1, <3>3, <3>4, <3>5, <3>6, RegisterSteps DEF u, t
  <2>5. CASE ~t.file.in
    <3>1. UNCHANGED <<stage, unit>>
      BY <1>7, <2>5 DEF RemovesRegistration
    <3>2. stage' = [stage EXCEPT ![On(r)] = [t EXCEPT !.file = t.file]] /\ unit' = unit
      BY <1>1, <1>2, <3>1
    <3>3. FileSet(Param(r), x, t, t)
      BY <1>7, <2>2, <2>3, <2>5 DEF FileSet
    <3>4. UnitSet(Param(r), x, On(r), t, t)
      BY <2>3, <3>2 DEF UnitSet
    <3>5. FileSet(Param(r), x, t, [t EXCEPT !.file = t.file]) /\ UnitSet(Param(r), x, On(r), t, [t EXCEPT !.file = t.file])
      BY <1>2, <3>3, <3>4
    <3> QED
      BY <1>1, <1>2, <1>4, <1>7, <2>1, <2>2, <3>2, <3>5, RegisterSteps
  <2> QED
    BY <2>4, <2>5
<1>8. RemoveRegistrationStep(r) \/ PurgeRemoveRegistration(r) \/ UndoRemoveRegistration(r) => Stepped(r)
  BY <1>7 DEF RemoveRegistrationStep, PurgeRemoveRegistration, UndoRemoveRegistration, Removes
<1> QED
  BY <1>5, <1>6, <1>8

\* The steps that write the unit: what it has one of, and the build file without a stage's.
LEMMA UnitStep ==
    ASSUME IInv, NEW r \in Runs
    PROVE  SeedRepoPat(r) \/ InjectReleaseKit(r) \/ SetupWebhook(r) \/ RemoveWebhook(r) \/ PurgeRemoveWebhook(r)
           \/ UndoWebhook(r) \/ RemoveReleaseKit(r) \/ PurgeRemoveReleaseKit(r) \/ RemoveRepoPat(r)
           \/ PurgeRemoveRepoPat(r) \/ CiRemoveWebhook(r) \/ CiRemoveRepoPat(r) \/ RemoveBuildWebhook(r)
           \/ CiRemoveRegistration(r) \/ RemoveBuildRegistrationCleanup(r) \/ ReAttestBuilds(r) => Stepped(r)
<1> DEFINE t == stage[On(r)]
           Beyond == SetsUpShared \cup TakesShared \cup TakesCi \cup {"remove-build-webhook"}
<1>0. SUFFICES ASSUME run[r].st = "running", run[r].todo # <<>>
               PROVE  SeedRepoPat(r) \/ InjectReleaseKit(r) \/ SetupWebhook(r) \/ RemoveWebhook(r) \/ PurgeRemoveWebhook(r)
           \/ UndoWebhook(r) \/ RemoveReleaseKit(r) \/ PurgeRemoveReleaseKit(r) \/ RemoveRepoPat(r)
           \/ PurgeRemoveRepoPat(r) \/ CiRemoveWebhook(r) \/ CiRemoveRepoPat(r) \/ RemoveBuildWebhook(r)
           \/ CiRemoveRegistration(r) \/ RemoveBuildRegistrationCleanup(r) \/ ReAttestBuilds(r) => Stepped(r)
  BY DEF SeedRepoPat, InjectReleaseKit, SetupWebhook, RemoveWebhook, PurgeRemoveWebhook, UndoWebhook, RemoveReleaseKit,
         PurgeRemoveReleaseKit, RemoveRepoPat, PurgeRemoveRepoPat, CiRemoveWebhook, CiRemoveRepoPat, RemoveBuildWebhook,
         CiRemoveRegistration, RemoveBuildRegistrationCleanup, ReAttestBuilds, At
<1>1. Place(r) /\ unit \in UnitType /\ Param(r).id \in 0..Foreign /\ unit.build \in BuildType /\ unit.objects \in SUBSET UnitObjects
  <2>1. run[r].p \in ParamType /\ Types /\ Place(r)
    BY <1>0, Unwritten
  <2>2. Param(r).id \in 0..Foreign
    BY <2>1, ForeignType DEF Param, ParamType
  <2> QED
    BY <2>1, <2>2, UnitWith DEF Types
<1>2. ASSUME NEW x \in Beyond \cup BuildFile, x # "write-build-registration"
      PROVE  /\ x \notin Telling /\ x \notin Asking /\ x \notin Zoned /\ x \notin Armers /\ x \in Unitary
             /\ x \notin {"undo-smtp-ops-grant", "undo-repo-credential", "remove-unit-dns"}
             /\ x \notin Registers /\ x \notin Removes /\ (x \in Beyond => x \notin BuildFile)
  <2> USE DEF SetsUpShared, TakesShared, TakesCi, BuildFile
  <2>1. x \notin Filers
    BY <1>2 DEF Filers, Marks, Removes
  <2>2. x \notin Rowers /\ x \notin Provides /\ x \notin Valued
    BY <1>2 DEF Rowers, Provides, Valued
  <2>3. x \notin Asking /\ x \notin Zoned /\ x \notin Armers
    BY <1>2 DEF Asking, Zoned, Armers
  <2>4. x \notin Registers /\ x \notin Removes /\ (x \in Beyond => x \notin BuildFile)
    BY <1>2 DEF Registers, Removes
  <2>5. x \in Unitary
    BY <1>2 DEF Unitary
  <2> QED
    BY <1>2, <2>1, <2>2, <2>3, <2>4, <2>5 DEF Telling
<1>3. ASSUME NEW x \in Beyond, At(r, x), Done(r), UNCHANGED <<stage, zone, scope>>,
             unit' \in UnitType, unit'.build = unit.build,
             x \in SetsUpShared => unit.objects \subseteq unit'.objects,
             x \in TakesShared => unit' = unit \/ readUnitStages \subseteq {On(r)},
             x = "remove-build-webhook" => unit' = unit \/ readUnitStages = {}
      PROVE  Stepped(r)
  <2>1. x # "write-build-registration" /\ x \notin {"write-registration", "switch-registration"}
    BY <1>3 DEF SetsUpShared, TakesShared, TakesCi
  <2> HIDE DEF Beyond
  <2>2. UnitSet(Param(r), x, On(r), t, t)
    BY <1>2, <1>3, <2>1 DEF UnitSet
  <2> QED
    BY <1>2, <1>3, <2>1, <2>2, UnitSteps
<1>4. ASSUME NEW x \in BuildFile, x # "write-build-registration", At(r, x), Done(r), UNCHANGED <<stage, zone, scope>>,
             unit' \in UnitType, unit'.objects = unit.objects,
             \/ unit'.build.in = unit.build.in /\ unit'.build.suspended = unit.build.suspended
             \/ readUnitStages = {}
      PROVE  Stepped(r)
  <2>1. x \notin {"write-registration", "switch-registration", "remove-build-webhook"} /\ x \notin TakesShared /\ x \notin SetsUpShared
    BY <1>4 DEF BuildFile, TakesShared, SetsUpShared
  <2> HIDE DEF Beyond
  <2>2. UnitSet(Param(r), x, On(r), t, t)
    BY <1>2, <1>4, <2>1 DEF UnitSet
  <2> QED
    BY <1>2, <1>4, <2>2, UnitSteps
<1> HIDE DEF t, Beyond
<1>5. \A o \in SUBSET UnitObjects : /\ [unit EXCEPT !.objects = o] \in UnitType /\ [unit EXCEPT !.objects = o].objects = o
                                   /\ [unit EXCEPT !.objects = o].build = unit.build
  BY <1>1, UnitWith
<1>6. ASSUME NEW x \in SetsUpShared, At(r, x), NEW o \in {"pat", "kit", "hook"},
             SetsUp(r, [unit EXCEPT !.objects = @ \cup {o}])
      PROVE  Stepped(r)
  <2>1. unit.objects \cup {o} \in SUBSET UnitObjects
    BY <1>1 DEF UnitObjects
  <2>2. unit' = [unit EXCEPT !.objects = unit.objects \cup {o}] /\ Done(r) /\ UNCHANGED <<stage, zone, scope>>
    BY <1>6 DEF SetsUp
  <2>3. unit' \in UnitType /\ unit'.build = unit.build /\ unit.objects \subseteq unit'.objects
    BY <1>5, <2>1, <2>2
  <2>4. x \in Beyond /\ x \notin TakesShared /\ x # "remove-build-webhook"
    BY <1>6 DEF Beyond, SetsUpShared, TakesShared
  <2> QED
    BY <1>3, <1>6, <2>2, <2>3, <2>4
<1>7. SeedRepoPat(r) \/ InjectReleaseKit(r) \/ SetupWebhook(r) => Stepped(r)
  BY <1>6 DEF SeedRepoPat, InjectReleaseKit, SetupWebhook, SetsUpShared, putBuildRepoPat, commitKit, ensureHook
<1>8. ASSUME NEW x \in Beyond \ SetsUpShared, At(r, x), NEW o, NEW stays \in BOOLEAN,
             unit' \in (IF stays THEN {unit} ELSE {unit, [unit EXCEPT !.objects = @ \ {o}]}),
             Done(r), UNCHANGED <<stage, zone, scope>>,
             x \in TakesShared => (~stays => readUnitStages \subseteq {On(r)}),
             x = "remove-build-webhook" => (~stays => readUnitStages = {})
      PROVE  Stepped(r)
  <2>1. unit.objects \ {o} \in SUBSET UnitObjects
    BY <1>1
  <2>2. unit' = unit \/ (~stays /\ unit' = [unit EXCEPT !.objects = unit.objects \ {o}])
    BY <1>8
  <2> DEFINE rest == unit.objects \ {o}
  <2>r. [unit EXCEPT !.objects = rest] \in UnitType /\ [unit EXCEPT !.objects = rest].build = unit.build
    BY <1>5, <2>1
  <2>3. unit' \in UnitType /\ unit'.build = unit.build
    BY <1>1, <2>2, <2>r
  <2> QED
    BY <1>3, <1>8, <2>2, <2>3
<1>9. ~unitStaysRegistered(On(r)) => readUnitStages \subseteq {On(r)}
  BY DEF unitStaysRegistered
<1>10. unitStaysRegistered(On(r)) \in BOOLEAN
  BY DEF unitStaysRegistered
<1>11. ASSUME NEW x \in TakesShared, At(r, x), removeConsumerWebhook(r) \/ removeReleaseKit(r)
       PROVE  Stepped(r)
  <2>1. x \in Beyond \ SetsUpShared /\ x # "remove-build-webhook"
    BY <1>11 DEF Beyond, TakesShared, SetsUpShared
  <2> DEFINE stays == unitStaysRegistered(On(r))
  <2>2. PICK o \in {"hook", "kit"} : unit' \in (IF stays THEN {unit} ELSE {unit, [unit EXCEPT !.objects = @ \ {o}]})
    BY <1>11 DEF removeConsumerWebhook, removeReleaseKit, TakesDown, deleteHook, deleteKit
  <2>3. Done(r) /\ UNCHANGED <<stage, zone, scope>>
    BY <1>11 DEF removeConsumerWebhook, removeReleaseKit, TakesDown
  <2>4. stays \in BOOLEAN /\ (~stays => readUnitStages \subseteq {On(r)})
    BY <1>9, <1>10
  <2> HIDE DEF stays
  <2> QED
    BY <1>8, <1>11, <2>1, <2>2, <2>3, <2>4
<1>12. ASSUME NEW x \in TakesShared \cup TakesCi, At(r, x), NEW stays \in BOOLEAN, RemovesRepoPat(r, stays),
              x \in TakesShared => (~stays => readUnitStages \subseteq {On(r)})
       PROVE  Stepped(r)
  <2>1. x \in Beyond \ SetsUpShared /\ x # "remove-build-webhook"
    BY <1>12 DEF Beyond, TakesShared, TakesCi, SetsUpShared
  <2>2. unit' \in (IF stays THEN {unit} ELSE {unit, [unit EXCEPT !.objects = @ \ {"pat"}]})
    BY <1>12 DEF RemovesRepoPat, deleteBuildRepoPat
  <2>3. Done(r) /\ UNCHANGED <<stage, zone, scope>>
    BY <1>12 DEF RemovesRepoPat
  <2> QED
    BY <1>8, <1>12, <2>1, <2>2, <2>3
<1>13. RemoveWebhook(r) \/ PurgeRemoveWebhook(r) \/ UndoWebhook(r) \/ RemoveReleaseKit(r) \/ PurgeRemoveReleaseKit(r) => Stepped(r)
  BY <1>11 DEF RemoveWebhook, PurgeRemoveWebhook, UndoWebhook, RemoveReleaseKit, PurgeRemoveReleaseKit, TakesShared
<1>14. RemoveRepoPat(r) \/ PurgeRemoveRepoPat(r) => Stepped(r)
  BY <1>9, <1>10, <1>12 DEF RemoveRepoPat, PurgeRemoveRepoPat, TakesShared
<1>15. ASSUME CiRemoveRepoPat(r) PROVE Stepped(r)
  <2>1. At(r, "ci-remove-repo-pat") /\ RemovesRepoPat(r, FALSE)
    BY <1>15 DEF CiRemoveRepoPat
  <2>2. "ci-remove-repo-pat" \in TakesShared \cup TakesCi /\ "ci-remove-repo-pat" \notin TakesShared
    BY DEF TakesCi, TakesShared
  <2> QED
    BY <1>12, <2>1, <2>2
<1>16. ASSUME NEW x \in {"ci-remove-webhook", "remove-build-webhook"}, At(r, x), NEW stays \in BOOLEAN,
              TakesDown(r, deleteHook(unit), stays), x = "remove-build-webhook" => (~stays => readUnitStages = {})
       PROVE  Stepped(r)
  <2>1. x \in Beyond \ SetsUpShared /\ x \notin TakesShared
    BY <1>16 DEF Beyond, TakesShared, TakesCi, SetsUpShared
  <2>2. unit' \in (IF stays THEN {unit} ELSE {unit, [unit EXCEPT !.objects = @ \ {"hook"}]})
    BY <1>16 DEF TakesDown, deleteHook
  <2>3. Done(r) /\ UNCHANGED <<stage, zone, scope>>
    BY <1>16 DEF TakesDown
  <2> QED
    BY <1>8, <1>16, <2>1, <2>2, <2>3
<1>17. CiRemoveWebhook(r) => Stepped(r)
  BY <1>16 DEF CiRemoveWebhook
<1>18. ASSUME RemoveBuildWebhook(r) PROVE Stepped(r)
  <2> DEFINE stays == unit.build.in \/ readUnitStages # {}
  <2>1. stays \in BOOLEAN /\ (~stays => readUnitStages = {})
    OBVIOUS
  <2>2. At(r, "remove-build-webhook") /\ TakesDown(r, deleteHook(unit), stays)
    BY <1>18 DEF RemoveBuildWebhook
  <2> HIDE DEF stays
  <2> QED
    BY <1>16, <2>1, <2>2
<1>19. ASSUME NEW x \in {"ci-remove-registration", "remove-build-registration"}, At(r, x), Done(r), NEW ids,
              RemoveBuildRegistration(ids), UNCHANGED <<stage, zone, scope>>
       PROVE  Stepped(r)
  <2>1. [unit EXCEPT !.build = NoBuild] \in UnitType /\ [unit EXCEPT !.build = NoBuild].objects = unit.objects
    BY <1>1, UnitWith, NoBuildType
  <2>2. unit' = unit \/ (readUnitStages = {} /\ unit' = [unit EXCEPT !.build = NoBuild])
    BY <1>19 DEF RemoveBuildRegistration
  <2>3. x \in BuildFile /\ x # "write-build-registration"
    BY <1>19 DEF BuildFile
  <2> QED
    BY <1>1, <1>4, <1>19, <2>1, <2>2, <2>3
<1>20. CiRemoveRegistration(r) \/ RemoveBuildRegistrationCleanup(r) => Stepped(r)
  BY <1>19 DEF CiRemoveRegistration, RemoveBuildRegistrationCleanup
<1>21. ASSUME ReAttestBuilds(r) PROVE Stepped(r)
  <2> DEFINE b == [unit.build EXCEPT !.builds = TRUE, !.by = Param(r).id]
  <2>1. b \in BuildType /\ b.in = unit.build.in /\ b.suspended = unit.build.suspended
    BY <1>1 DEF BuildType
  <2>2. unit' = unit \/ unit' = [unit EXCEPT !.build = b]
    BY <1>1, <1>21 DEF ReAttestBuilds, UnitType
  <2>3. At(r, "re-attest-builds") /\ Done(r) /\ UNCHANGED <<stage, zone, scope>> /\ readUnitStages = {}
    BY <1>21 DEF ReAttestBuilds, hasStandingBuildOnly
  <2> HIDE DEF b
  <2>4. [unit EXCEPT !.build = b] \in UnitType /\ [unit EXCEPT !.build = b].objects = unit.objects
    BY <1>1, <2>1, UnitWith
  <2>5. "re-attest-builds" \in BuildFile
    BY DEF BuildFile
  <2> QED
    BY <1>1, <1>4, <2>2, <2>3, <2>4, <2>5
<1> QED
  BY <1>7, <1>13, <1>14, <1>15, <1>17, <1>18, <1>20, <1>21

\* The build file of a unit without a stage.
LEMMA BuildRegistrationStep ==
    ASSUME IInv, NEW r \in Runs, WriteBuildRegistration(r)
    PROVE  Stepped(r)
<1> DEFINE t == stage[On(r)]
           x == "write-build-registration"
           c == Undoing(On(r), <<"remove-build-registration", "remove-build-webhook">>)
           b == [in |-> TRUE, suspended |-> unit.build.suspended, by |-> Param(r).id, builds |-> Param(r).kind = "build-only"]
<1>0. run[r].st = "running" /\ run[r].todo # <<>> /\ At(r, x)
  BY DEF WriteBuildRegistration, At
<1>1. /\ Types /\ Place(r) /\ On(r) \in Stages /\ stage \in [Stages -> StageType] /\ zone \in ZoneType
      /\ unit \in UnitType /\ Param(r).id \in 0..Foreign /\ unit.build \in BuildType
  <2>1. run[r].p \in ParamType /\ Types /\ Place(r)
    BY <1>0, Unwritten
  <2>2. Param(r).id \in 0..Foreign
    BY <2>1, ForeignType DEF Param, ParamType
  <2> QED
    BY <2>1, <2>2, UnitWith DEF Types, Place
<1>2. readUnitStages = {} /\ UNCHANGED <<stage, zone, scope>> /\ Told(r) = x
  BY DEF WriteBuildRegistration, At, Told
<1>3. c \in Seq(StepType) /\ ArmedSet(x, On(r), run[r].armed, c)
  BY <1>1, BuildCleanups DEF ArmedSet, Armers
<1>4. (unit' = [unit EXCEPT !.build = b] /\ DoneArmed(r, c)) \/ (unit' = unit /\ Fails(r, [run[r] EXCEPT !.armed = c]))
  BY DEF WriteBuildRegistration
<1>5. b \in BuildType
  BY <1>1 DEF BuildType
<1> HIDE DEF b, c
<1>6. Moved(r, c)
  BY <1>0, <1>1, <1>3, <1>4, DoneMoves
<1>7. [unit EXCEPT !.build = b] \in UnitType /\ [unit EXCEPT !.build = b].objects = unit.objects
  BY <1>1, <1>5, UnitWith
<1>8. unit' \in UnitType /\ unit'.objects = unit.objects
  BY <1>1, <1>4, <1>7
<1>9. UnitSet(Param(r), x, On(r), t, t)
  BY <1>2, <1>8 DEF UnitSet, Unitary, Registers, BuildFile, Removes, SetsUpShared, TakesShared, TakesCi
<1>10. Change(Param(r), x, t, t) /\ Passed(x, t) /\ ZoneSet(Param(r), x, On(r), t)
  <2>1. x \notin Filers /\ x \notin Rowers /\ x \notin Provides /\ x \notin Valued
    BY DEF Filers, Marks, Removes, Rowers, Provides, Valued
  <2>2. Change(Param(r), x, t, t)
    BY <2>1, AsideChange DEF Telling, Aside
  <2> QED
    BY <1>2, <2>2 DEF Passed, ZoneSet, Zoned
<1>11. run'[r].armed = c /\ Moved(r, run'[r].armed)
  BY <1>6 DEF Moved
<1> QED
  BY <1>0, <1>1, <1>2, <1>3, <1>8, <1>9, <1>10, <1>11 DEF Stepped

\* A step that writes the domains.
LEMMA ZoneSteps ==
    ASSUME IInv, NEW r \in Runs, NEW x \in Zoned, At(r, x), NEW u \in StageType, Aside(stage[On(r)], u),
           stage' = [stage EXCEPT ![On(r)] = u], UNCHANGED <<unit, scope>>, zone' \in ZoneType,
           ZoneSet(Param(r), x, On(r), stage[On(r)]), NEW c, Moved(r, c), ArmedSet(x, On(r), run[r].armed, c)
    PROVE  Stepped(r)
<1>1. run[r].st = "running" /\ run[r].todo # <<>> /\ Told(r) = x
  BY DEF At, Told
<1>2. On(r) \in Stages /\ Types
  BY <1>1, StepPlace DEF Place, IInv
<1>3. stage' \in [Stages -> StageType] /\ stage'[On(r)] = u /\ \A s \in Stages : s # On(r) => stage'[s] = stage[s]
  BY <1>2 DEF Types
<1>4. x \notin Telling
  <2>1. x \notin Filers
    BY DEF Zoned, Filers, Marks, Removes
  <2>2. x \notin Rowers /\ x \notin Provides /\ x \notin Valued
    BY DEF Zoned, Rowers, Provides, Valued
  <2> QED
    BY <2>1, <2>2 DEF Telling
<1>5. x \notin Unitary /\ Passed(x, stage[On(r)]) /\ x \notin {"undo-smtp-ops-grant", "undo-repo-credential", "remove-unit-dns"}
  BY DEF Zoned, Unitary, Registers, Removes, BuildFile, SetsUpShared, TakesShared, TakesCi, Passed
<1>6. Change(Param(r), x, stage[On(r)], u)
  BY <1>4, <1>5, AsideChange
<1>7. UnitSet(Param(r), x, On(r), stage[On(r)], u)
  BY <1>5 DEF UnitSet, Unitary, Registers, BuildFile
<1>8. run'[r].armed = c /\ Moved(r, run'[r].armed)
  BY DEF Moved
<1>9. unit' \in UnitType
  BY <1>2 DEF Types
<1> QED
  BY <1>1, <1>3, <1>5, <1>6, <1>7, <1>8, <1>9 DEF Stepped

\* No domain is not one the provider manages.
LEMMA Managed0 == ASSUME IInv PROVE scope.zones \subseteq Domains \ {0}
  BY ConsumersAssumption DEF IInv, Types

\* The steps that write the domains.
LEMMA ZoneStep ==
    ASSUME IInv, NEW r \in Runs
    PROVE  RemoveDns(r) \/ PurgeRemoveDns(r) \/ ProvisionDomainRecord(r) \/ RetirePreviousDomain(r)
           \/ RemoveNewDomainRecord(r) => Stepped(r)
<1> DEFINE t == stage[On(r)]
<1>0. SUFFICES ASSUME run[r].st = "running", run[r].todo # <<>>
               PROVE  RemoveDns(r) \/ PurgeRemoveDns(r) \/ ProvisionDomainRecord(r) \/ RetirePreviousDomain(r)
                      \/ RemoveNewDomainRecord(r) => Stepped(r)
  BY DEF RemoveDns, PurgeRemoveDns, ProvisionDomainRecord, RetirePreviousDomain, RemoveNewDomainRecord, At
<1>1. /\ t \in StageType /\ [stage EXCEPT ![On(r)] = t] = stage /\ Types /\ Place(r) /\ On(r) \in Stages
      /\ zone \in ZoneType /\ run[r].armed \in Seq(StepType)
  BY <1>0, Unwritten DEF Place, Types
<1>2. Aside(t, t)
  BY DEF Aside
<1>3. Done(r) => Moved(r, run[r].armed)
  BY <1>0, <1>1, DoneMoves
<1>4. ASSUME NEW x \in Zoned, x # "provision-domain-record" PROVE ArmedSet(x, On(r), run[r].armed, run[r].armed)
  BY <1>4 DEF ArmedSet, Armers, Zoned
<1>5. ASSUME NEW x \in Zoned, x # "provision-domain-record", At(r, x), Done(r), UNCHANGED <<stage, unit, scope>>,
             zone' \in ZoneType, ZoneSet(Param(r), x, On(r), t)
      PROVE  Stepped(r)
  BY <1>1, <1>2, <1>3, <1>4, <1>5, ZoneSteps
<1>6. ASSUME NEW x \in {"remove-dns", "purge-remove-dns"}, At(r, x), removeBookedRecords(r) PROVE Stepped(r)
  <2> DEFINE u == removeUnitDns(t)
  <2>1. u \in StageType /\ Aside(t, u)
    BY <1>1 DEF removeUnitDns, StageType, Aside
  <2>2. stage' = [stage EXCEPT ![On(r)] = u] /\ Done(r) /\ UNCHANGED <<unit, scope>>
    BY <1>6 DEF removeBookedRecords
  <2>3. zone' = [d \in Domains |-> IF zone[d] = On(r) THEN "free" ELSE zone[d]]
    BY <1>6 DEF removeBookedRecords
  <2>4. zone' \in ZoneType /\ \A d \in Domains : zone'[d] = zone[d] \/ zone[d] = On(r)
    BY <1>1, <2>3 DEF ZoneType
  <2>5. x \in Zoned /\ x # "provision-domain-record"
    BY <1>6 DEF Zoned
  <2>6. ZoneSet(Param(r), x, On(r), t)
    BY <1>6, <2>4, <2>5 DEF ZoneSet
  <2> HIDE DEF u
  <2> QED
    BY <1>3, <1>4, <1>6, <2>1, <2>2, <2>4, <2>5, <2>6, ZoneSteps
<1>7. ASSUME NEW x \in {"provision-domain-record", "retire-previous-domain", "remove-new-domain-record"}, At(r, x)
      PROVE  Param(r).to \in Domains /\ Param(r).from \in Domains
  <2>1. Told(r) = x
    BY <1>7 DEF At, Told
  <2>2. Param(r).kind = "domain"
    BY <1>1, <1>7, <2>1 DEF Place, Forth, Back
  <2> QED
    BY <1>1, <2>2 DEF Place, Planned
<1>8. ASSUME ProvisionDomainRecord(r) PROVE Stepped(r)
  <2> DEFINE d == Param(r).to
             c == Undoing(On(r), <<"remove-new-domain-record">>)
  <2>1. At(r, "provision-domain-record") /\ "provision-domain-record" \in Zoned
    BY <1>8 DEF ProvisionDomainRecord, Zoned
  <2>2. d \in Domains
    BY <1>7, <2>1
  <2>3. CASE d = 0
    <3>1. Done(r) /\ UNCHANGED <<stage, unit, zone, scope>>
      BY <1>8, <2>3 DEF ProvisionDomainRecord, Passes, world
    <3>2. ZoneSet(Param(r), "provision-domain-record", On(r), t)
      BY <2>3, <3>1, Managed0 DEF ZoneSet, Zoned
    <3>3. ArmedSet("provision-domain-record", On(r), run[r].armed, run[r].armed)
      BY DEF ArmedSet, Armers
    <3> QED
      BY <1>1, <1>2, <1>3, <2>1, <3>1, <3>2, <3>3, ZoneSteps
  <2>4. CASE d # 0
    <3>1. /\ \/ d \notin scope.zones /\ zone' = zone
             \/ d \in scope.zones /\ zone[d] \in {"free", On(r)} /\ zone' = [zone EXCEPT ![d] = On(r)]
          /\ DoneArmed(r, c) /\ UNCHANGED <<stage, unit, scope>>
      BY <1>8, <2>4 DEF ProvisionDomainRecord, provisionDomainRecord
    <3>2. /\ zone' \in ZoneType /\ (d \in scope.zones => zone'[d] = On(r))
          /\ \A e \in Domains : zone'[e] = zone[e] \/ (zone[e] = "free" /\ zone'[e] = On(r))
      BY <1>1, <2>2, <3>1 DEF ZoneType
    <3>3. ZoneSet(Param(r), "provision-domain-record", On(r), t)
      BY <3>2 DEF ZoneSet, Zoned
    <3>4. ArmedSet("provision-domain-record", On(r), run[r].armed, c)
      BY DEF ArmedSet, Armers
    <3>5. c \in Seq(StepType)
      <4> DEFINE L == <<"remove-new-domain-record">>
      <4>1. L \in Seq(UndoNames)
        BY DEF UndoNames
      <4> HIDE DEF L
      <4>2. L \in Seq(StepNames)
        BY <4>1, MoreNames DEF StepNames
      <4>3. Undoing(On(r), L) \in Seq(StepType)
        BY <1>1, <4>2, UndoingIs
      <4> QED
        BY <4>3 DEF L
    <3> HIDE DEF c
    <3>6. Moved(r, c)
      BY <1>0, <1>1, <3>1, <3>5, DoneMoves
    <3> QED
      BY <1>1, <1>2, <2>1, <3>1, <3>2, <3>3, <3>4, <3>6, ZoneSteps
  <2> QED
    BY <2>3, <2>4
<1>9. ASSUME RetirePreviousDomain(r) PROVE Stepped(r)
  <2> DEFINE d == Param(r).from
  <2>1. /\ At(r, "retire-previous-domain") /\ Done(r) /\ UNCHANGED <<stage, unit, scope>>
        /\ zone' = zone \/ (d # Param(r).to /\ zone[d] = On(r) /\ zone' = [zone EXCEPT ![d] = "free"])
    BY <1>9 DEF RetirePreviousDomain
  <2>2. d \in Domains
    BY <1>7, <2>1
  <2>3. zone' \in ZoneType /\ \A e \in Domains : zone'[e] = zone[e] \/ (e # Param(r).to /\ zone[e] = On(r))
    BY <1>1, <2>1, <2>2 DEF ZoneType
  <2>4. ZoneSet(Param(r), "retire-previous-domain", On(r), t) /\ "retire-previous-domain" \in Zoned
    BY <2>3 DEF ZoneSet, Zoned
  <2> QED
    BY <1>5, <2>1, <2>3, <2>4
<1>10. ASSUME RemoveNewDomainRecord(r) PROVE Stepped(r)
  <2> DEFINE d == Param(r).to
  <2>1. /\ At(r, "remove-new-domain-record") /\ Done(r) /\ UNCHANGED <<stage, unit, scope>>
        /\ zone' = zone \/ (t.file.fqdn # d /\ zone[d] = On(r) /\ zone' = [zone EXCEPT ![d] = "free"])
    BY <1>10 DEF RemoveNewDomainRecord
  <2>2. d \in Domains
    BY <1>7, <2>1
  <2>3. zone' \in ZoneType /\ \A e \in Domains : zone'[e] = zone[e] \/ (e # t.file.fqdn /\ zone[e] = On(r))
    BY <1>1, <2>1, <2>2 DEF ZoneType
  <2>4. ZoneSet(Param(r), "remove-new-domain-record", On(r), t) /\ "remove-new-domain-record" \in Zoned
    BY <2>3 DEF ZoneSet, Zoned
  <2> QED
    BY <1>5, <2>1, <2>3, <2>4
<1>11. RemoveDns(r) \/ PurgeRemoveDns(r) => Stepped(r)
  BY <1>6 DEF RemoveDns, PurgeRemoveDns
<1> QED
  BY <1>8, <1>9, <1>10, <1>11

\* All of them.
LEMMA EveryStep ==
    ASSUME IInv, NEW r \in Runs, Onboarding(r) \/ Removal(r) \/ Purging(r) \/ Undone(r) \/ Changes(r)
    PROVE  Stepped(r)
<1>1. Onboarding(r) => Stepped(r)
  BY ReadsStep, AsideStep, ReleaseStep, KeptStep, RowStep, ValueStep, FileStep, RegisterStep, UnitStep,
     BuildRegistrationStep, ZoneStep, Zenon DEF Onboarding
<1>2. Removal(r) => Stepped(r)
  BY ReadsStep, AsideStep, KeptStep, RowStep, ValueStep, FileStep, RegisterStep, UnitStep, ZoneStep, Zenon DEF Removal
<1>3. Purging(r) => Stepped(r)
  BY ReadsStep, AsideStep, KeptStep, RowStep, ValueStep, FileStep, RegisterStep, UnitStep, ZoneStep, Zenon DEF Purging
<1>4. Undone(r) => Stepped(r)
  BY ReadsStep, AsideStep, KeptStep, RowStep, ValueStep, FileStep, RegisterStep, UnitStep, ZoneStep, Zenon DEF Undone
<1>5. Changes(r) => Stepped(r)
  BY ReadsStep, AsideStep, KeptStep, RowStep, ValueStep, FileStep, RegisterStep, UnitStep, ZoneStep, Zenon DEF Changes
<1> QED
  BY <1>1, <1>2, <1>3, <1>4, <1>5

-----------------------------------------------------------------------------
\* A step keeps the invariant.

\* Two runs that hold their claims: one of them adopts, and the other writes no file, no row and no address.
LEMMA Alone ==
    ASSUME IInv, NEW q \in Runs, NEW r \in Runs, q # r, Holding(q), Holding(r)
    PROVE  \/ Param(r).kind = "adopt" /\ Param(q).kind \in Valuers
           \/ Param(q).kind = "adopt" /\ Param(r).kind \in Valuers
<1>1. run[q].claims \cap run[r].claims = {}
  BY DEF IInv, Apart
<1>2. Active(q) /\ Active(r)
  BY DEF Holding, Active
<1>3. Planned(q) /\ Planned(r)
  BY <1>2 DEF IInv
<1>4. run[q] \in RunType /\ run[r] \in RunType
  BY <1>2, ActiveType DEF IInv
<1>5. Param(q).kind \in RunKinds /\ Param(r).kind \in RunKinds
  BY <1>4 DEF RunType, ParamType, Param
<1>6. Param(q).kind = "adopt" \/ Param(r).kind = "adopt"
  BY <1>1, <1>3 DEF Planned
<1>7. Param(q).kind \notin Bookers \/ Param(r).kind \notin Bookers
  BY <1>1, <1>3 DEF Planned
<1>8. "adopt" \in Bookers
  BY DEF Bookers
<1> QED
  BY <1>5, <1>6, <1>7, <1>8 DEF RunKinds

\* What a step leaves of its run.
LEMMA After ==
    ASSUME IInv, NEW r \in Runs, Stepped(r)
    PROVE  /\ Place(r) /\ Holding(r) /\ Holding(r)' /\ Active(r)'
           /\ Param(r)'.kind = Param(r).kind /\ Param(r)'.s = Param(r).s /\ Param(r)'.from = Param(r).from
           /\ Param(r)'.to = Param(r).to /\ run'[r].claims = run[r].claims
           /\ run'[r].undo = run[r].undo /\ Half(Param(r))' = Half(Param(r))
           /\ run'[r] \in RunType /\ run'[r].todo \in Seq(StepType) /\ run'[r].armed \in Seq(StepType)
           /\ \/ Left(r)' = Left(r) /\ run'[r].todo = run[r].todo
              \/ Left(r)' = Left(r) - 1 /\ run'[r].todo = Tail(run[r].todo)
           /\ stage'[On(r)] \in StageType /\ On(r) = Param(r).s /\ On(r) = Param(r)'.s
<1>1. run[r].st = "running" /\ run[r].todo # <<>> /\ Moved(r, run'[r].armed) /\ stage' \in [Stages -> StageType]
  BY DEF Stepped
<1>2. Place(r)
  BY <1>1, StepPlace
<1>3. /\ Same(run[r], run'[r]) /\ run'[r].st \in {"running", "failed"} /\ run'[r] \in RunType
      /\ run'[r].todo = Tail(run[r].todo) \/ run'[r].todo = run[r].todo
  BY <1>1 DEF Moved
<1>4. Len(Tail(run[r].todo)) = Len(run[r].todo) - 1
  BY <1>1, <1>2, TailList DEF Place
<1>5. Half(Param(r))' = Half(Param(r))
  BY <1>3 DEF Half, Param, Same
<1>6. Holding(r) /\ Holding(r)' /\ Active(r)'
  BY <1>1, <1>3 DEF Holding, Active
<1>7. run'[r].todo \in Seq(StepType) /\ run'[r].armed \in Seq(StepType)
  BY <1>3 DEF RunType
<1>8. stage'[On(r)] \in StageType /\ On(r) = Param(r).s
  BY <1>1, <1>2 DEF Place
<1> QED
  BY <1>2, <1>3, <1>4, <1>5, <1>6, <1>7, <1>8 DEF Same, Param, Left

\* The steps of each place, as the arguments below read them.
LEMMA Where ==
    ASSUME NEW r, Place(r)
    PROVE  LET x == Told(r) p == Param(r) n == Left(r) - 1 h == Half(Param(r)) u == run[r].undo IN
           /\ x = "write-registration" => ~u /\ p.kind = "onboard" /\ n = h - 2
           /\ x \in Provides => ~u /\ p.kind = "onboard" /\ n < h - 2
           /\ x = "seed-secrets" => ~u /\ p.kind = "onboard" /\ n < h - 2
           /\ x = "write-build-registration" => ~u /\ p.kind \in {"build-only", "ci-only"}
           /\ x \in {"provision-domain-record", "write-domain"} => ~u /\ p.kind = "domain"
           /\ x \in {"record-offboard", "record-purge"} => ~u /\ p.kind \in {"offboard", "purge"} /\ n = 0
           /\ x = "settle-provisional-row" => u /\ p.kind = "onboard" /\ n = 0
<1> DEFINE x == Told(r)
           n == Left(r) - 1
           h == Half(Param(r))
           k == Param(r).kind
<1>1. /\ run[r].undo \in BOOLEAN /\ Left(r) \in Nat /\ h \in Half2
      /\ ~run[r].undo => Forth(k, h, n, x)
      /\ run[r].undo => Back(k, n, x)
  BY DEF Place, RunType
<1> HIDE DEF x, n, h, k
<1>2. x = "write-registration" => ~run[r].undo /\ k = "onboard" /\ n = h - 2
  BY <1>1 DEF Forth, Back
<1>3. x \in Provides => ~run[r].undo /\ k = "onboard" /\ n < h - 2
  BY <1>1 DEF Forth, Back, Provides
<1>4. x = "seed-secrets" => ~run[r].undo /\ k = "onboard" /\ n < h - 2
  BY <1>1 DEF Forth, Back
<1>5. x = "write-build-registration" => ~run[r].undo /\ k \in {"build-only", "ci-only"}
  BY <1>1 DEF Forth, Back
<1>6. x \in {"provision-domain-record", "write-domain"} => ~run[r].undo /\ k = "domain"
  BY <1>1 DEF Forth, Back
<1>7. x \in {"record-offboard", "record-purge"} => ~run[r].undo /\ k \in {"offboard", "purge"} /\ n = 0
  BY <1>1 DEF Forth, Back
<1>8. x = "settle-provisional-row" => run[r].undo /\ k = "onboard" /\ n = 0
  BY <1>1 DEF Forth, Back
<1> QED
  BY <1>2, <1>3, <1>4, <1>5, <1>6, <1>7, <1>8 DEF x, n, h, k

\* Every stage stays sound: a row reads offboarded only once its removal has read back what is left.
LEMMA StepSound ==
    ASSUME IInv, NEW r \in Runs, Stepped(r)
    PROVE  \A s \in Stages : Sound(stage[s])'
<1> DEFINE x == Told(r)
           g == On(r)
           t == stage[g]
           u == stage'[g]
<1>1. Place(r) /\ Holding(r) /\ g = Param(r).s /\ Sound(t) /\ Behind(r) /\ Left(r) \in Nat /\ Half(Param(r)) \in Half2
      /\ run[r].undo \in BOOLEAN /\ g \in Stages
  BY After DEF Place, RunType
<1>2. FileSet(Param(r), x, t, u) /\ RowSet(x, t, u) /\ KeptSet(x, t, u) /\ ValueSet(x, t, u)
  BY DEF Stepped, Change
<1>3. \A s \in Stages : s # g => stage'[s] = stage[s]
  BY DEF Stepped
<1>4. ~u.file.in => u.file = NoFile
  BY <1>1, <1>2 DEF Sound, FileSet, Filers
<1>5. u.entry = 0 => u.value.vault = 0
  BY <1>1, <1>2 DEF Sound, ValueSet
<1>6. x = "write-registration" \/ x \in Provides => t.row # "offboarded"
  <2>1. SUFFICES ASSUME x = "write-registration" \/ x \in Provides PROVE t.row # "offboarded"
    OBVIOUS
  <2>2. ~run[r].undo /\ Param(r).kind = "onboard" /\ Left(r) <= Half(Param(r))
    BY <1>1, <2>1, Where DEF Half2
  <2> QED
    BY <1>1, <2>2 DEF Behind, OnboardBehind, Forward
<1>7. x \in {"record-offboard", "record-purge", "settle-provisional-row"} => ~t.file.in /\ t.objects \cap Kept = {}
  <2>1. ASSUME x \in {"record-offboard", "record-purge"} PROVE ~t.file.in /\ t.objects \cap Kept = {}
    <3>1. ~run[r].undo /\ Param(r).kind \in {"offboard", "purge"} /\ Left(r) = 1
      BY <1>1, <2>1, Where
    <3> QED
      BY <1>1, <3>1 DEF Behind, RemovalBehind, Forward
  <2>2. ASSUME x = "settle-provisional-row" PROVE ~t.file.in /\ t.objects \cap Kept = {}
    <3>1. run[r].undo /\ Param(r).kind = "onboard" /\ Left(r) = 1 /\ run[r].armed # <<>>
      BY <1>1, <2>2, Where DEF Place
    <3> QED
      BY <1>1, <3>1 DEF Behind, UndoBehind, Kept
  <2> QED
    BY <2>1, <2>2
<1>8. ASSUME u.row = "offboarded" PROVE ~u.file.in /\ u.objects \cap Kept = {}
  <2>1. t.row = "offboarded" \/ x \in {"record-offboard", "record-purge", "settle-provisional-row"}
    BY <1>2, <1>8 DEF RowSet, Rowers, CONSUMER_LIVE_STATUS
  <2>2. ~t.file.in /\ t.objects \cap Kept = {}
    BY <1>1, <1>7, <2>1 DEF Sound
  <2>3. x # "write-registration" /\ x \notin Provides
    <3>1. x \in {"record-offboard", "record-purge", "settle-provisional-row"} => x # "write-registration" /\ x \notin Provides
      BY DEF Provides
    <3> QED
      BY <1>6, <2>1, <3>1
  <2>4. ~u.file.in
    BY <1>2, <2>2, <2>3 DEF FileSet, Filers
  <2> QED
    BY <1>2, <2>2, <2>3, <2>4 DEF KeptSet
<1>9. Sound(u)
  BY <1>4, <1>5, <1>8 DEF Sound
<1> QED
  BY <1>1, <1>3, <1>9 DEF IInv, Sound

\* The build file follows the stage files.
LEMMA StepBuilds ==
    ASSUME IInv, NEW r \in Runs, Stepped(r)
    PROVE  Builds'
<1> DEFINE x == Told(r)
           g == On(r)
           t == stage[g]
           u == stage'[g]
<1>1. Place(r) /\ g \in Stages /\ t \in StageType /\ t.file.suspended \in BOOLEAN
  BY After DEF Place, StageType, FileType
<1>2. FileSet(Param(r), x, t, u) /\ UnitSet(Param(r), x, g, t, u) /\ \A s \in Stages : s # g => stage'[s] = stage[s]
  BY DEF Stepped, Change
<1>3. \A s \in Stages : stage[s].file.in => unit.build.in /\ (stage[s].file.suspended \/ ~unit.build.suspended)
  BY DEF IInv, Builds
<1>4. SUFFICES ASSUME NEW s \in Stages, stage'[s].file.in
               PROVE  unit'.build.in /\ (stage'[s].file.suspended \/ ~unit'.build.suspended)
  BY DEF Builds
<1> HIDE DEF x, t, u
<1>5. CASE x = "write-registration"
  <2>1. (unit' = unit /\ u.file = t.file) \/ (unit'.build.in /\ ~unit'.build.suspended)
    BY <1>2, <1>5 DEF UnitSet
  <2> QED
    BY <1>2, <1>3, <1>4, <2>1 DEF t, u
<1>6. CASE x = "switch-registration"
  <2>1. /\ unit'.build.in = unit.build.in
        /\ unit.build.in => (unit'.build.suspended <=> (Param(r).to /\ \A q \in readUnitStages \ {g} : stage[q].file.suspended))
    BY <1>2, <1>6 DEF UnitSet
  <2>2. t.file.in /\ u.file.in /\ u.file.suspended = Param(r).to
    BY <1>2, <1>6 DEF FileSet
  <2>3. unit.build.in
    BY <1>1, <1>3, <2>2 DEF t
  <2>4. CASE s = g
    BY <2>1, <2>2, <2>3, <2>4 DEF u
  <2>5. CASE s # g
    <3>1. stage'[s] = stage[s] /\ s \in readUnitStages \ {g}
      BY <1>2, <1>4, <2>5 DEF readUnitStages
    <3> QED
      BY <2>1, <2>3, <3>1
  <2> QED
    BY <2>4, <2>5
<1>7. CASE x \notin Registers
  <2>0. x \notin {"write-registration", "switch-registration"}
    BY <1>7 DEF Registers
  <2>1. u.file.in => t.file.in /\ u.file.suspended = t.file.suspended
    BY <1>2, <2>0 DEF FileSet, Filers
  <2>2. stage[s].file.in /\ stage'[s].file.suspended = stage[s].file.suspended
    BY <1>2, <1>4, <2>1 DEF t, u
  <2>3. s \in readUnitStages
    BY <2>2 DEF readUnitStages
  <2>4. CASE x \in Removes
    <3>1. ~u.file.in
      BY <1>2, <2>4 DEF FileSet
    <3>2. s # g
      BY <1>4, <3>1 DEF u
    <3>3. unit' = unit
      BY <1>2, <2>3, <2>4, <3>2 DEF UnitSet
    <3> QED
      BY <1>3, <2>2, <3>3
  <2>5. CASE x \in BuildFile
    <3>1. unit'.build.in = unit.build.in /\ unit'.build.suspended = unit.build.suspended
      BY <1>2, <2>3, <2>5 DEF UnitSet
    <3> QED
      BY <1>3, <2>2, <3>1
  <2>6. CASE x \notin Removes /\ x \notin BuildFile
    <3>1. unit'.build = unit.build
      BY <1>2, <1>7, <2>6 DEF UnitSet
    <3> QED
      BY <1>3, <2>2, <3>1
  <2> QED
    BY <2>4, <2>5, <2>6
<1> QED
  BY <1>5, <1>6, <1>7 DEF Registers

\* What is left of a run's list is still such a list.
LEMMA TailForth ==
    ASSUME NEW p, NEW T \in Seq(StepType), T # <<>>
    PROVE  /\ ForthList(p, T) => ForthList(p, Tail(T))
           /\ BackList(p, T) => BackList(p, Tail(T))
<1>1. /\ Len(T) \in Nat /\ Len(Tail(T)) = Len(T) - 1
      /\ \A i \in 1..Len(Tail(T)) : i + 1 \in 1..Len(T) /\ Tail(T)[i] = T[i + 1]
  BY TailList
<1>2. \A i \in 1..Len(Tail(T)) : Len(Tail(T)) - i = Len(T) - (i + 1)
  BY <1>1
<1>3. ASSUME ForthList(p, T), NEW i \in 1..Len(Tail(T))
      PROVE  Forth(p.kind, Half(p), Len(Tail(T)) - i, Tail(T)[i].s) /\ Tail(T)[i].g = p.s
  <2>1. Forth(p.kind, Half(p), Len(T) - (i + 1), T[i + 1].s) /\ T[i + 1].g = p.s
    BY <1>1, <1>3 DEF ForthList
  <2> QED
    BY <1>1, <1>2, <1>3, <2>1
<1>4. ASSUME BackList(p, T), NEW i \in 1..Len(Tail(T))
      PROVE  Back(p.kind, Len(Tail(T)) - i, Tail(T)[i].s) /\ Tail(T)[i].g = p.s
  <2>1. Back(p.kind, Len(T) - (i + 1), T[i + 1].s) /\ T[i + 1].g = p.s
    BY <1>1, <1>4 DEF BackList
  <2> QED
    BY <1>1, <1>2, <1>4, <2>1
<1> QED
  BY <1>3, <1>4 DEF ForthList, BackList

\* A list of one run is a list of another with the same parameters.
LEMMA SameLists ==
    ASSUME NEW p, NEW q, q.kind = p.kind, q.s = p.s, Half(q) = Half(p), NEW T
    PROVE  (ForthList(p, T) => ForthList(q, T)) /\ (BackList(p, T) => BackList(q, T))
BY DEF ForthList, BackList

\* A list that has a length is not the empty one.
LEMMA LongList ==
    ASSUME NEW T \in Seq(StepType), Len(T) = 1 \/ Len(T) = 8
    PROVE  T # <<>>
OBVIOUS

\* The cleanups a step registers are a list of its run's.
LEMMA StepArmed ==
    ASSUME IInv, NEW r \in Runs, Stepped(r)
    PROVE  /\ BackList(Param(r), run'[r].armed)
           /\ Param(r).kind = "onboard" /\ run'[r].armed # <<>> => Len(run'[r].armed) >= 8
           /\ run[r].undo => run'[r].armed = run[r].armed
           /\ run[r].armed # <<>> => run'[r].armed # <<>>
           /\ Told(r) = "write-registration" => run'[r].armed # <<>>
<1> DEFINE x == Told(r)
           g == On(r)
           p == Param(r)
           c == run[r].armed
           d == run'[r].armed
<1>1. /\ Place(r) /\ g \in Stages /\ g = p.s /\ c \in Seq(StepType) /\ d \in Seq(StepType) /\ Left(r) \in Nat
      /\ Half(p) \in Half2 /\ run[r].undo \in BOOLEAN
  BY After DEF Place, RunType
<1>2. ArmedSet(x, g, c, d)
  BY DEF Stepped
<1>3. BackList(p, c) /\ (p.kind = "onboard" /\ c # <<>> => Len(c) >= 8)
      /\ (p.kind = "onboard" /\ ~run[r].undo /\ Left(r) <= Half(p) - 2 => c # <<>>)
  BY <1>1 DEF Place, Lists, Left
<1>w. /\ x = "write-registration" => ~run[r].undo /\ p.kind = "onboard"
      /\ x = "seed-secrets" => ~run[r].undo /\ p.kind = "onboard" /\ Left(r) - 1 < Half(p) - 2
      /\ x = "write-build-registration" => ~run[r].undo /\ p.kind \in {"build-only", "ci-only"}
      /\ x \in {"provision-domain-record", "write-domain"} => ~run[r].undo /\ p.kind = "domain"
  BY <1>1, Where
<1> HIDE DEF x, g, p, c, d
<1>4. ASSUME d = c
      PROVE  /\ BackList(p, d) /\ (p.kind = "onboard" /\ d # <<>> => Len(d) >= 8)
             /\ (c # <<>> => d # <<>>)
  BY <1>3, <1>4
<1>5. CASE x = "write-registration"
  <2>1. d = deployableOnboardCleanups(g)
    BY <1>2, <1>5 DEF ArmedSet
  <2>2. d \in Seq(StepType) /\ Len(d) = 8 /\ \A i \in 1..8 : Back("onboard", 8 - i, d[i].s) /\ d[i].g = g
    BY <1>1, <2>1, CleanupList
  <2>a. \A i \in 1..Len(d) : Back(p.kind, Len(d) - i, d[i].s) /\ d[i].g = p.s
    BY <1>1, <1>5, <1>w, <2>2
  <2>b. d # <<>>
    BY <2>2, LongList, Zenon
  <2>3. BackList(p, d) /\ d # <<>>
    BY <2>a, <2>b DEF BackList
  <2> QED
    BY <1>5, <1>w, <2>2, <2>3 DEF x, p, d, c
<1>6. CASE x = "seed-secrets"
  <2>1. d = c \/ d = Undoing(g, <<"remove-ceremony-secrets">>) \o c
    BY <1>2, <1>6 DEF ArmedSet
  <2>2. ~run[r].undo /\ p.kind = "onboard" /\ c # <<>> /\ Len(c) >= 8
    BY <1>1, <1>3, <1>6, <1>w DEF Half2
  <2>3. CASE d = Undoing(g, <<"remove-ceremony-secrets">>) \o c
    <3>1. "remove-ceremony-secrets" \in UndoNames
      BY DEF UndoNames
    <3>2. /\ Len(d) = Len(c) + 1 /\ Len(c) \in Nat /\ d # <<>> /\ d[1].s = "remove-ceremony-secrets" /\ d[1].g = g
          /\ \A i \in 1..Len(d) : i = 1 \/ (i - 1 \in 1..Len(c) /\ d[i] = c[i - 1])
      BY <1>1, <2>3, <3>1, UndoBefore
    <3>3. ASSUME NEW i \in 1..Len(d) PROVE Back(p.kind, Len(d) - i, d[i].s) /\ d[i].g = p.s
      <4>1. CASE i = 1
        <5>1. Len(d) - i > 7
          BY <2>2, <3>2, <4>1
        <5> QED
          BY <1>1, <2>2, <3>2, <4>1, <5>1 DEF Back
      <4>2. CASE i # 1
        <5>1. i - 1 \in 1..Len(c) /\ d[i] = c[i - 1] /\ Len(d) - i = Len(c) - (i - 1)
          BY <3>2, <4>2
        <5>2. Back(p.kind, Len(c) - (i - 1), c[i - 1].s) /\ c[i - 1].g = p.s
          BY <1>3, <5>1 DEF BackList
        <5> QED
          BY <5>1, <5>2
      <4> QED
        BY <4>1, <4>2
    <3>4. BackList(p, d)
      BY <3>3 DEF BackList
    <3> QED
      BY <1>6, <2>2, <3>2, <3>4 DEF x, p, d, c
  <2> QED
    BY <1>4, <1>6, <2>1, <2>2, <2>3 DEF x, p, d, c
<1>7. CASE x = "write-build-registration"
  <2>1. d = Undoing(g, <<"remove-build-registration", "remove-build-webhook">>)
    BY <1>2, <1>7 DEF ArmedSet
  <2>2. /\ d \in Seq(StepType) /\ Len(d) = 2
        /\ \A i \in 1..2 : d[i].s \in {"remove-build-registration", "remove-build-webhook"} /\ d[i].g = g
    BY <1>1, <2>1, BuildCleanups
  <2>3. BackList(p, d) /\ d # <<>>
    BY <1>1, <1>7, <1>w, <2>2 DEF BackList, Back
  <2> QED
    BY <1>7, <1>w, <2>3 DEF x, p, d, c
<1>8. CASE x \in {"provision-domain-record", "write-domain"}
  <2>0. p.kind = "domain" /\ ~run[r].undo
    BY <1>8, <1>w
  <2>1. d = c \/ d = Undoing(g, <<"remove-new-domain-record">>) \/ d = Undoing(g, <<"restore-domain">>) \o c
    BY <1>2, <1>8 DEF ArmedSet
  <2>2. CASE d = Undoing(g, <<"restore-domain">>) \o c
    <3>1. "restore-domain" \in UndoNames
      BY DEF UndoNames
    <3>2. /\ Len(d) = Len(c) + 1 /\ Len(c) \in Nat /\ d # <<>> /\ d[1].s = "restore-domain" /\ d[1].g = g
          /\ \A i \in 1..Len(d) : i = 1 \/ (i - 1 \in 1..Len(c) /\ d[i] = c[i - 1])
      BY <1>1, <2>2, <3>1, UndoBefore
    <3>3. ASSUME NEW i \in 1..Len(d) PROVE Back(p.kind, Len(d) - i, d[i].s) /\ d[i].g = p.s
      <4>1. CASE i = 1
        BY <1>1, <2>0, <3>2, <4>1 DEF Back
      <4>2. CASE i # 1
        <5>1. i - 1 \in 1..Len(c) /\ d[i] = c[i - 1] /\ Len(d) - i = Len(c) - (i - 1)
          BY <3>2, <4>2
        <5>2. Back(p.kind, Len(c) - (i - 1), c[i - 1].s) /\ c[i - 1].g = p.s
          BY <1>3, <5>1 DEF BackList
        <5> QED
          BY <5>1, <5>2
      <4> QED
        BY <4>1, <4>2
    <3>4. BackList(p, d)
      BY <3>3 DEF BackList
    <3> QED
      BY <1>8, <2>0, <3>2, <3>4 DEF x, p, d, c
  <2>3. CASE d = Undoing(g, <<"remove-new-domain-record">>)
    <3> DEFINE L == <<"remove-new-domain-record">>
    <3>1. L \in Seq(UndoNames) /\ Len(L) = 1 /\ L[1] = "remove-new-domain-record"
      BY DEF UndoNames
    <3>2. d = Undoing(g, L)
      BY <2>3
    <3> HIDE DEF L
    <3>3. L \in Seq(StepNames)
      BY <3>1, MoreNames DEF StepNames
    <3>4. d \in Seq(StepType) /\ Len(d) = 1 /\ d[1].s = "remove-new-domain-record" /\ d[1].g = g
      BY <1>1, <3>1, <3>2, <3>3, UndoingIs
    <3>a. \A i \in 1..Len(d) : i = 1
      BY <3>4
    <3>b. Back("domain", Len(d) - 1, d[1].s) /\ d[1].g = p.s
      BY <1>1, <3>4 DEF Back
    <3>c. d # <<>>
      BY <3>4, LongList, Zenon
    <3>5. BackList(p, d) /\ d # <<>>
      BY <2>0, <3>a, <3>b, <3>c DEF BackList
    <3> QED
      BY <1>8, <2>0, <3>5 DEF x, p, d, c
  <2> QED
    BY <1>4, <1>8, <2>0, <2>1, <2>2, <2>3 DEF x, p, d, c
<1>9. CASE x \notin Armers
  <2>1. d = c /\ x # "write-registration"
    BY <1>2, <1>9 DEF ArmedSet, Armers
  <2> QED
    BY <1>4, <2>1 DEF x, p, d, c
<1> QED
  BY <1>5, <1>6, <1>7, <1>8, <1>9 DEF Armers

\* A run that moves on has the rest of its lists, each step at its place.
LEMMA StepLists ==
    ASSUME IInv, NEW r \in Runs, Stepped(r)
    PROVE  Planned(r)' /\ Lists(r)'
<1> DEFINE p == Param(r)
           q == Param(r)'
           c == run[r]
           d == run'[r]
<1>1. /\ Place(r) /\ q.kind = p.kind /\ q.s = p.s /\ q.from = p.from /\ q.to = p.to /\ d.claims = c.claims /\ d.undo = c.undo
      /\ Half(q) = Half(p) /\ c.undo \in BOOLEAN /\ d.st \in {"running", "failed"}
  <2>1. Half(Param(r))' = Half(q)
    BY DEF Half
  <2>2. d.st \in {"running", "failed"}
    BY DEF Stepped, Moved
  <2> QED
    BY <2>1, <2>2, After DEF Place, RunType
<1>2. Planned(r)'
  BY <1>1 DEF Place, Planned
<1>3. Lists(r) /\ c.todo \in Seq(StepType) /\ c.todo # <<>> /\ Half(p) \in Half2 /\ Left(r) \in Nat
      /\ (c.undo => c.armed # <<>>)
  BY <1>1 DEF Place, Stepped
<1>4. d.todo = c.todo \/ d.todo = Tail(c.todo)
  BY After
<1>5. ~d.undo => ForthList(q, d.todo)
  <2>1. ~d.undo => ForthList(p, d.todo)
    BY <1>1, <1>3, <1>4, TailForth DEF Lists
  <2> QED
    BY <1>1, <2>1, SameLists
<1>6. d.undo => BackList(q, d.todo)
  <2>1. d.undo => BackList(p, d.todo)
    BY <1>1, <1>3, <1>4, TailForth DEF Lists
  <2> QED
    BY <1>1, <2>1, SameLists
<1>7. BackList(q, d.armed)
  BY <1>1, StepArmed, SameLists
<1>8. q.kind = "onboard" /\ d.armed # <<>> => Len(d.armed) >= 8
  BY <1>1, StepArmed
<1>9. d.undo => d.armed # <<>>
  BY <1>1, <1>3, StepArmed
<1>10. ASSUME q.kind = "onboard", ~d.undo, Len(d.todo) <= Half(q) - 2 PROVE d.armed # <<>>
  <2>1. CASE Left(r) <= Half(p) - 2
    BY <1>1, <1>3, <1>10, <2>1, StepArmed DEF Lists, Left
  <2>2. CASE Left(r) > Half(p) - 2
    <3>1. Len(d.todo) = Left(r) \/ Len(d.todo) = Left(r) - 1
      BY <1>3, <1>4, TailList DEF Left
    <3>2. Left(r) - 1 = Half(p) - 2
      BY <1>1, <1>3, <1>10, <2>2, <3>1 DEF Half2
    <3>3. Forth("onboard", Half(p), Half(p) - 2, Told(r))
      BY <1>1, <1>10, <3>2 DEF Place
    <3>4. Told(r) = "write-registration"
      BY <1>3, <3>3 DEF Forth, Half2
    <3> QED
      BY <3>4, StepArmed
  <2> QED
    BY <1>3, <2>1, <2>2 DEF Half2
<1>11. Lists(r)'
  <2>1. d.st # "planned"
    BY <1>1
  <2>2. /\ ~d.undo => ForthList(q, d.todo)
        /\ d.undo => BackList(q, d.todo)
        /\ BackList(q, d.armed)
        /\ q.kind = "onboard" /\ d.armed # <<>> => Len(d.armed) >= 8
        /\ d.undo /\ d.armed = <<>> => d.todo = <<>>
        /\ q.kind = "onboard" /\ ~d.undo /\ Len(d.todo) <= Half(q) - 2 => d.armed # <<>>
        /\ d.st = "planned" => ~d.undo /\ d.armed = <<>> /\ Len(d.todo) >= Full(q.kind, Half(q))
    BY <1>5, <1>6, <1>7, <1>8, <1>9, <1>10, <2>1
  <2> QED
    BY <2>2 DEF Lists, ForthList, BackList, Half
<1> QED
  BY <1>2, <1>11

\* Where a step brings its run: the facts the parts of Behind are argued from.
LEMMA Onward ==
    ASSUME IInv, NEW r \in Runs, Stepped(r)
    PROVE  /\ Left(r) \in Nat /\ Left(r) >= 1 /\ Half(Param(r)) \in Half2
           /\ Left(r)' = Left(r) \/ Left(r)' = Left(r) - 1
           /\ ~run[r].undo => Forth(Param(r).kind, Half(Param(r)), Left(r) - 1, Told(r))
           /\ run[r].undo => Back(Param(r).kind, Left(r) - 1, Told(r)) /\ run'[r].armed = run[r].armed
           /\ run[r].undo \in BOOLEAN /\ Holding(r) /\ On(r) \in Stages
           /\ FileSet(Param(r), Told(r), stage[On(r)], stage'[On(r)]) /\ RowSet(Told(r), stage[On(r)], stage'[On(r)])
           /\ KeptSet(Told(r), stage[On(r)], stage'[On(r)]) /\ ValueSet(Told(r), stage[On(r)], stage'[On(r)])
           /\ stage'[On(r)].app = stage[On(r)].app /\ Passed(Told(r), stage[On(r)])
           /\ ZoneSet(Param(r), Told(r), On(r), stage[On(r)])
<1>1. Place(r) /\ Holding(r)
  BY After
<1>2. Change(Param(r), Told(r), stage[On(r)], stage'[On(r)]) /\ Passed(Told(r), stage[On(r)])
      /\ ZoneSet(Param(r), Told(r), On(r), stage[On(r)])
  BY DEF Stepped
<1>3. run[r].undo \in BOOLEAN
  BY <1>1 DEF Place, RunType
<1> QED
  BY <1>1, <1>2, <1>3, After, StepArmed DEF Place, Change

\* The same for what is read of a run after a step.
LEMMA Later ==
    ASSUME IInv, NEW r \in Runs, Stepped(r), NEW K
    PROVE  /\ Forward(r, K)' => Forward(r, K)
           /\ Param(r)'.kind = Param(r).kind /\ Param(r)'.s = On(r) /\ Param(r).s = On(r) /\ Param(r)'.to = Param(r).to
           /\ Half(Param(r))' = Half(Param(r)) /\ run'[r].undo = run[r].undo
BY After DEF Forward

\* Behind an onboarding past its provisional row.
LEMMA StepOnboardBehind ==
    ASSUME IInv, NEW r \in Runs, Stepped(r)
    PROVE  OnboardBehind(r)'
<1> DEFINE x == Told(r)
           t == stage[On(r)]
           u == stage'[On(r)]
           h == Half(Param(r))
<1>1. SUFFICES ASSUME Forward(r, {"onboard"}), Left(r)' <= h PROVE u.row # "offboarded"
  BY Later DEF OnboardBehind
<1>2. /\ Left(r) \in Nat /\ h \in Half2 /\ (Left(r)' = Left(r) \/ Left(r)' = Left(r) - 1)
      /\ Forth("onboard", h, Left(r) - 1, x) /\ RowSet(x, t, u)
  BY <1>1, Onward DEF Forward
<1>3. Left(r) <= h => t.row # "offboarded"
  BY <1>1, Later, After DEF Place, Behind, OnboardBehind
<1> HIDE DEF x, t, u, h
<1>4. Left(r) <= h \/ x = "record-provisional"
  BY <1>1, <1>2 DEF Forth, Half2
<1>5. x \notin Rowers \/ x \in {"record-provisional", "record-inventory"}
  BY <1>2 DEF Forth, Rowers
<1> QED
  BY <1>2, <1>3, <1>4, <1>5 DEF RowSet, CONSUMER_LIVE_STATUS

\* Behind the abort of an onboarding.
LEMMA StepUndoBehind ==
    ASSUME IInv, NEW r \in Runs, Stepped(r)
    PROVE  UndoBehind(r)'
<1> DEFINE x == Told(r)
           t == stage[On(r)]
           u == stage'[On(r)]
           n == Left(r)'
<1>1. SUFFICES ASSUME run[r].undo, Param(r).kind = "onboard", run[r].armed # <<>>
               PROVE  /\ ~Live(u)
                      /\ n <= 7 => (u.file.in => u.file.removing)
                      /\ n <= 6 => ~u.app
                      /\ n <= 5 => ~u.file.in
                      /\ n <= 4 => "grant" \notin u.objects
                      /\ n <= 3 => "credential" \notin u.objects
                      /\ n <= 2 => "host" \notin u.objects
  BY Later, Onward DEF UndoBehind, Live
<1>2. /\ Left(r) \in Nat /\ (n = Left(r) \/ n = Left(r) - 1)
      /\ Back("onboard", Left(r) - 1, x) /\ RowSet(x, t, u) /\ FileSet(Param(r), x, t, u) /\ KeptSet(x, t, u)
      /\ u.app = t.app /\ Passed(x, t)
  BY <1>1, Onward
<1>3. /\ ~Live(t)
      /\ Left(r) <= 7 => (t.file.in => t.file.removing)
      /\ Left(r) <= 6 => ~t.app
      /\ Left(r) <= 5 => ~t.file.in
      /\ Left(r) <= 4 => "grant" \notin t.objects
      /\ Left(r) <= 3 => "credential" \notin t.objects
      /\ Left(r) <= 2 => "host" \notin t.objects
  BY <1>1, Later, After DEF Place, Behind, UndoBehind
<1> HIDE DEF x, t, u, n
<1>4. /\ n <= 7 => Left(r) <= 7 \/ x = "undo-mark-removing"
      /\ n <= 6 => Left(r) <= 6 \/ x = "undo-watch-prune"
      /\ n <= 5 => Left(r) <= 5 \/ x = "undo-remove-registration"
      /\ n <= 4 => Left(r) <= 4 \/ x = "undo-smtp-ops-grant"
      /\ n <= 3 => Left(r) <= 3 \/ x = "undo-repo-credential"
      /\ n <= 2 => Left(r) <= 2 \/ x = "remove-unit-dns"
  BY <1>2 DEF Back
<1>5. x \notin Provides /\ (x \notin Rowers \/ x = "settle-provisional-row")
      /\ (x \notin Filers \/ x \in {"undo-mark-removing", "undo-remove-registration"})
  BY <1>2 DEF Back, Provides, Rowers, Filers, Marks, Removes
<1>6. "undo-mark-removing" \in Marks /\ "undo-remove-registration" \in Removes
  BY DEF Marks, Removes
<1>7. u.file.in => t.file.in /\ (u.file.removing \/ u.file = t.file)
  BY <1>2, <1>5, <1>6 DEF FileSet
<1>8. u.row \in CONSUMER_LIVE_STATUS => t.row \in CONSUMER_LIVE_STATUS
  BY <1>2, <1>5 DEF RowSet, CONSUMER_LIVE_STATUS
<1>9. ~Live(u)
  BY <1>3, <1>7, <1>8 DEF Live
<1>10. n <= 7 => (u.file.in => u.file.removing)
  BY <1>2, <1>3, <1>4, <1>6, <1>7 DEF FileSet
<1>11. n <= 6 => ~u.app
  BY <1>2, <1>3, <1>4 DEF Passed
<1>12. n <= 5 => ~u.file.in
  BY <1>2, <1>3, <1>4, <1>6, <1>7 DEF FileSet
<1>13. /\ n <= 4 => "grant" \notin u.objects
       /\ n <= 3 => "credential" \notin u.objects
       /\ n <= 2 => "host" \notin u.objects
  <2>1. u.objects \cap Kept \subseteq t.objects
    BY <1>2, <1>5 DEF KeptSet
  <2> QED
    BY <1>2, <1>3, <1>4, <2>1 DEF KeptSet, Kept
<1> QED
  BY <1>9, <1>10, <1>11, <1>12, <1>13

\* Behind an offboard and a purge.
LEMMA StepRemovalBehind ==
    ASSUME IInv, NEW r \in Runs, Stepped(r)
    PROVE  OffboardBehind(r)' /\ RemovalBehind(r)'
<1> DEFINE x == Told(r)
           t == stage[On(r)]
           u == stage'[On(r)]
           n == Left(r)'
           k == Param(r).kind
           h == Half(Param(r))
<1>1. SUFFICES ASSUME Forward(r, {"offboard", "purge"})
               PROVE  /\ k = "offboard" /\ n <= 13 => (u.file.in => u.file.removing)
                      /\ k = "offboard" /\ n <= 12 => ~u.app
                      /\ n <= 11 => ~u.file.in
                      /\ n <= 1 => u.objects \cap Kept = {}
  <2>1. Forward(r, {"offboard"}) => Forward(r, {"offboard", "purge"}) /\ k = "offboard"
    BY DEF Forward
  <2> QED
    BY <2>1, Later DEF OffboardBehind, RemovalBehind
<1>2. /\ Left(r) \in Nat /\ (n = Left(r) \/ n = Left(r) - 1) /\ k \in {"offboard", "purge"}
      /\ Forth(k, h, Left(r) - 1, x) /\ FileSet(Param(r), x, t, u) /\ KeptSet(x, t, u)
      /\ u.app = t.app /\ Passed(x, t)
  BY <1>1, Onward DEF Forward
<1>2a. k \in {"offboard", "purge"}
  BY <1>1 DEF Forward
<1>3. /\ k = "offboard" /\ Left(r) <= 13 => (t.file.in => t.file.removing)
      /\ k = "offboard" /\ Left(r) <= 12 => ~t.app
      /\ Left(r) <= 11 => ~t.file.in
      /\ Left(r) <= 1 => t.objects \cap Kept = {}
  BY <1>1, Later, After DEF Place, Behind, OffboardBehind, RemovalBehind, Forward
<1> HIDE DEF x, t, u, n, k, h
<1>4. /\ n <= 13 => Left(r) <= 13 \/ x \in {"mark-removing", "purge-mark-removing"}
      /\ n <= 12 => Left(r) <= 12 \/ x \in {"watch-removal", "purge-watch-removal"}
      /\ n <= 11 => Left(r) <= 11 \/ x \in {"remove-registration", "purge-remove-registration"}
      /\ n <= 1 => Left(r) <= 1 \/ x \in {"assert-no-orphans", "purge-assert-no-orphans"}
      /\ k = "offboard" /\ n <= 12 => Left(r) <= 12 \/ x = "watch-removal"
  BY <1>2, <1>2a DEF Forth
<1>5. x \notin Provides /\ (x \notin Filers \/ x \in Marks \/ x \in Removes)
  BY <1>2, <1>2a DEF Forth, Provides, Filers, Marks, Removes
<1>6. /\ {"mark-removing", "purge-mark-removing"} \subseteq Marks
      /\ {"remove-registration", "purge-remove-registration"} \subseteq Removes
  BY DEF Marks, Removes
<1>7. u.file.in => t.file.in /\ (u.file.removing \/ u.file = t.file)
  BY <1>2, <1>5 DEF FileSet
<1>8. k = "offboard" /\ n <= 13 => (u.file.in => u.file.removing)
  BY <1>2, <1>3, <1>4, <1>6, <1>7 DEF FileSet
<1>9. k = "offboard" /\ n <= 12 => ~u.app
  BY <1>2, <1>3, <1>4 DEF Passed
<1>10. n <= 11 => ~u.file.in
  BY <1>2, <1>3, <1>4, <1>6, <1>7 DEF FileSet
<1>11. n <= 1 => u.objects \cap Kept = {}
  <2>1. u.objects \cap Kept \subseteq t.objects
    BY <1>2, <1>5 DEF KeptSet
  <2> QED
    BY <1>2, <1>3, <1>4, <2>1 DEF Passed
<1> QED
  BY <1>8, <1>9, <1>10, <1>11

\* Behind the changes of a standing consumer and the removal of a CI-only unit.
LEMMA StepChangeBehind ==
    ASSUME IInv, NEW r \in Runs, Stepped(r)
    PROVE  CiBehind(r)' /\ SwitchBehind(r)' /\ DomainBehind(r)' /\ SecretsBehind(r)'
<1> DEFINE x == Told(r)
           t == stage[On(r)]
           u == stage'[On(r)]
           n == Left(r)'
           k == Param(r).kind
           h == Half(Param(r))
           to == Param(r).to
<1>1. /\ Left(r) \in Nat /\ Left(r) >= 1 /\ (n = Left(r) \/ n = Left(r) - 1)
      /\ FileSet(Param(r), x, t, u) /\ ValueSet(x, t, u) /\ Passed(x, t) /\ ZoneSet(Param(r), x, On(r), t)
      /\ \A K : Forward(r, K) => Forth(k, h, Left(r) - 1, x)
  BY Onward DEF Forward
<1>2. Behind(r) /\ Planned(r)
  BY After DEF Place
<1> HIDE DEF x, n, h
<1>3. CiBehind(r)'
  <2>1. SUFFICES ASSUME Forward(r, {"ci-offboard"}), n <= 6 PROVE readUnitStages' = {}
    BY Later DEF CiBehind, n
  <2>2. k = "ci-offboard" /\ Forth(k, h, Left(r) - 1, x)
    BY <1>1, <2>1 DEF Forward
  <2>3. (Left(r) <= 6 => readUnitStages = {}) /\ (x = "attest-ci-only" => readUnitStages = {})
    BY <1>1, <1>2, <2>1 DEF Behind, CiBehind, Passed
  <2> HIDE DEF k
  <2>4. (Left(r) <= 6 \/ x = "attest-ci-only") /\ x \notin Filers
    BY <1>1, <2>1, <2>2 DEF Forth, Filers, Marks, Removes
  <2>5. u.file = t.file
    BY <1>1, <2>4 DEF FileSet
  <2>6. \A s \in Stages : stage'[s].file = stage[s].file
    BY <2>5 DEF Stepped
  <2> QED
    BY <2>3, <2>4, <2>6 DEF readUnitStages
<1>4. SwitchBehind(r)'
  <2>1. SUFFICES ASSUME Forward(r, {"suspend", "resume"}), n <= 1 PROVE u.file.suspended = to
    BY Later DEF SwitchBehind, n
  <2>2. k \in {"suspend", "resume"} /\ Forth(k, h, Left(r) - 1, x)
    BY <1>1, <2>1 DEF Forward
  <2>3. Left(r) <= 1 => t.file.suspended = to
    BY <1>2, <2>1, Later DEF Behind, SwitchBehind
  <2> HIDE DEF k, t, u, to
  <2>4. (Left(r) <= 1 \/ x = "switch-registration") /\ (x \notin Filers \/ x = "switch-registration")
    BY <1>1, <2>1, <2>2 DEF Forth, Filers, Marks, Removes
  <2>5. x = "switch-registration" => u.file.suspended = to
    BY <1>1 DEF FileSet, to
  <2>6. x \notin Filers => u.file = t.file
    BY <1>1 DEF FileSet
  <2> QED
    BY <2>3, <2>4, <2>5, <2>6
<1>5. DomainBehind(r)'
  <2>1. SUFFICES ASSUME Forward(r, {"domain"})
                 PROVE  (n <= 2 /\ to \in scope.zones => zone'[to] = On(r)) /\ (n <= 1 => u.file.fqdn = to)
    BY Later DEF DomainBehind, n, Stepped
  <2>2. k = "domain" /\ Forth(k, h, Left(r) - 1, x) /\ to \in Domains
    BY <1>1, <1>2, <2>1 DEF Forward, Planned
  <2>3. (Left(r) <= 2 /\ to \in scope.zones => zone[to] = On(r)) /\ (Left(r) <= 1 => t.file.fqdn = to)
    BY <1>2, <2>1, Later DEF Behind, DomainBehind
  <2> HIDE DEF k, t, u
  <2>4. /\ n <= 2 => Left(r) <= 2 \/ x = "provision-domain-record"
        /\ n <= 1 => Left(r) <= 1 \/ x = "write-domain"
    BY <1>1, <2>2 DEF Forth
  <2>5. (x \notin Filers \/ x = "write-domain") /\ (x \notin Zoned \/ x \in {"provision-domain-record", "retire-previous-domain"})
    BY <2>2 DEF Forth, Filers, Marks, Removes, Zoned
  <2>6. /\ x = "provision-domain-record" /\ to \in scope.zones => zone'[to] = On(r)
        /\ x \notin Zoned => zone' = zone
        /\ x = "retire-previous-domain" => zone'[to] = zone[to]
    BY <1>1, <2>2 DEF ZoneSet
  <2>7. x = "write-domain" => u.file.fqdn = to
    BY <1>1 DEF FileSet
  <2>8. x \notin Filers => u.file = t.file
    BY <1>1 DEF FileSet
  <2>9. n <= 2 /\ to \in scope.zones => zone'[to] = On(r)
    BY <2>3, <2>4, <2>5, <2>6
  <2> QED
    BY <2>3, <2>4, <2>5, <2>7, <2>8, <2>9
<1>6. SecretsBehind(r)'
  <2>1. SUFFICES ASSUME Forward(r, {"secrets"})
                 PROVE  (n <= 1 => u.value.secret \in {0, u.value.vault}) /\ (n <= 0 => u.value.pod \in {0, u.value.vault})
    BY Later DEF SecretsBehind, n
  <2>2. k = "secrets" /\ Forth(k, h, Left(r) - 1, x)
    BY <1>1, <2>1 DEF Forward
  <2>3. Left(r) <= 1 => t.value.secret \in {0, t.value.vault}
    BY <1>2, <2>1, Later DEF Behind, SecretsBehind
  <2> HIDE DEF k, t, u
  <2>4. /\ n <= 1 => Left(r) <= 1 \/ x = "refetch-secrets"
        /\ n <= 0 => x = "restart-workloads"
        /\ Left(r) <= 1 => x = "restart-workloads"
    BY <1>1, <2>2 DEF Forth
  <2>5. /\ x = "refetch-secrets" => u.value.secret = 0
        /\ x = "restart-workloads" => u.value.vault = t.value.vault /\ u.value.secret = t.value.secret /\ u.value.pod = 0
    BY <1>1 DEF ValueSet
  <2> QED
    BY <1>1, <2>3, <2>4, <2>5
<1> QED
  BY <1>3, <1>4, <1>5, <1>6

\* A run that a step is not of.
LEMMA Untouched ==
    ASSUME NEW q, run'[q] = run[q]
    PROVE  /\ (Planned(q) => Planned(q)') /\ (Lists(q) => Lists(q)') /\ (Active(q)' => Active(q))
           /\ (Holding(q)' <=> Holding(q)) /\ Param(q)' = Param(q) /\ Left(q)' = Left(q)
           /\ \A K : Forward(q, K)' => Forward(q, K)
<1>1. Param(q)' = Param(q) /\ Left(q)' = Left(q)
  BY DEF Param, Left
<1>2. (Holding(q)' <=> Holding(q)) /\ (Active(q)' => Active(q))
  BY DEF Holding, Active
<1>3. Planned(q) => Planned(q)'
  BY <1>1 DEF Planned
<1>4. Lists(q) => Lists(q)'
  BY <1>1 DEF Lists, ForthList, BackList, Half
<1>5. \A K : Forward(q, K)' => Forward(q, K)
  BY <1>1, <1>2 DEF Forward
<1> QED
  BY <1>1, <1>2, <1>3, <1>4, <1>5

\* A step disturbs nothing another run has behind it: what the two may write is apart.
LEMMA StepOthers ==
    ASSUME IInv, NEW r \in Runs, Stepped(r), NEW q \in Runs, q # r, Active(q)'
    PROVE  Planned(q)' /\ Lists(q)' /\ Behind(q)'
<1>1. run'[q] = run[q]
  BY DEF Stepped, Moved
<1>2. Active(q) /\ Planned(q)' /\ Lists(q)' /\ (Holding(q)' <=> Holding(q)) /\ Param(q)' = Param(q)
      /\ Behind(q) /\ run[q] \in RunType
  BY <1>1, Untouched, ActiveType DEF IInv
<1>3. CASE ~Holding(q)
  <2>1. ~Holding(q)'
    BY <1>2, <1>3
  <2>2. Behind(q)'
    <3>1. OnboardBehind(q)' /\ UndoBehind(q)' /\ OffboardBehind(q)' /\ RemovalBehind(q)'
      BY <2>1 DEF OnboardBehind, UndoBehind, OffboardBehind, RemovalBehind, Forward
    <3>2. CiBehind(q)' /\ SwitchBehind(q)' /\ DomainBehind(q)' /\ SecretsBehind(q)'
      BY <2>1 DEF CiBehind, SwitchBehind, DomainBehind, SecretsBehind, Forward
    <3> QED
      BY <3>1, <3>2 DEF Behind
  <2> QED
    BY <1>2, <2>2
<1>4. CASE Holding(q)
  <2>1. \/ Param(r).kind = "adopt" /\ Param(q).kind \in Valuers
        \/ Param(q).kind = "adopt" /\ Param(r).kind \in Valuers
    BY <1>4, After, Alone
  <2>2. Param(q).kind \in {"adopt", "release", "secrets", "restart"}
    BY <2>1 DEF Valuers
  <2>3. OnboardBehind(q)' /\ UndoBehind(q)' /\ OffboardBehind(q)' /\ RemovalBehind(q)'
    BY <1>2, <2>2 DEF OnboardBehind, UndoBehind, OffboardBehind, RemovalBehind, Forward
  <2>4. CiBehind(q)' /\ SwitchBehind(q)' /\ DomainBehind(q)'
    BY <1>2, <2>2 DEF CiBehind, SwitchBehind, DomainBehind, Forward
  <2>5. SecretsBehind(q)'
    <3>1. CASE Param(q).kind # "secrets"
      BY <1>2, <3>1 DEF SecretsBehind, Forward
    <3>2. CASE Param(q).kind = "secrets"
      <4>1. Param(r).kind = "adopt"
        BY <2>1, <3>2
      <4>2. Told(r) \notin Valued
        <5>1. ~run[r].undo => Forth("adopt", Half(Param(r)), Left(r) - 1, Told(r))
          BY <4>1, Onward
        <5>2. run[r].undo => Back("adopt", Left(r) - 1, Told(r))
          BY <4>1, Onward
        <5> QED
          BY <5>1, <5>2 DEF Forth, Back, Valued
      <4>3. stage'[On(r)].value = stage[On(r)].value
        BY <4>2, Onward DEF ValueSet
      <4>4. \A s \in Stages : stage'[s].value = stage[s].value
        BY <4>3 DEF Stepped
      <4>5. Param(q).s \in Stages
        BY <1>2 DEF RunType, ParamType, Param
      <4>6. SecretsBehind(q)
        BY <1>2 DEF Behind
      <4>7. Left(q)' = Left(q) /\ (Forward(q, {"secrets"})' => Forward(q, {"secrets"}))
        BY <1>1, Untouched
      <4> QED
        BY <1>2, <4>4, <4>5, <4>6, <4>7 DEF SecretsBehind
    <3> QED
      BY <3>1, <3>2
  <2> QED
    BY <1>2, <2>3, <2>4, <2>5 DEF Behind
<1> QED
  BY <1>3, <1>4

\* Every step of a run keeps the invariant.
LEMMA StepKeeps ==
    ASSUME IInv, NEW r \in Runs, Stepped(r)
    PROVE  IInv'
<1>1. Types'
  BY DEF Stepped, Moved, IInv, Types
<1>2. Apart'
  <2>1. SUFFICES ASSUME NEW p \in Runs, NEW q \in Runs, p # q, Holding(p)', Holding(q)'
                 PROVE  run'[p].claims \cap run'[q].claims = {}
    BY DEF Apart
  <2>2. \A o \in Runs : run'[o].claims = run[o].claims /\ (Holding(o)' => Holding(o))
    <3>1. \A o \in Runs : o # r => run'[o] = run[o]
      BY DEF Stepped, Moved
    <3> QED
      BY <3>1, After DEF Holding
  <2> QED
    BY <2>1, <2>2 DEF IInv, Apart
<1>3. Behind(r)'
  BY StepOnboardBehind, StepUndoBehind, StepRemovalBehind, StepChangeBehind DEF Behind
<1>4. \A q \in Runs : Active(q)' => Planned(q)' /\ Lists(q)' /\ Behind(q)'
  BY <1>3, StepLists, StepOthers
<1> QED
  BY <1>1, <1>2, <1>4, StepSound, StepBuilds DEF IInv

-----------------------------------------------------------------------------
\* What the environment does keeps the invariant.

Kind(t, u) ==
    LET v == t.value w == u.value IN
    /\ u.file = t.file /\ u.row = t.row /\ u.entry = t.entry /\ u.objects \cap Kept \subseteq t.objects
    /\ u.app => t.app \/ (t.file.in /\ ~t.file.removing)
    /\ w.vault = v.vault
    /\ v.secret \in {0, v.vault} => w.secret \in {0, v.vault}
    /\ v.secret \in {0, v.vault} /\ v.pod \in {0, v.vault} => w.pod \in {0, v.vault}

\* No record of a stage's goes.
Unbooked == \A d \in Domains : zone'[d] = zone[d] \/ zone[d] \notin Stages

\* And so does what changes a stage in this way only, and no domain that is a stage's.
LEMMA OutsideKeeps ==
    ASSUME IInv, UNCHANGED <<run, used, scope>>, zone' \in ZoneType, Unbooked, stage' \in [Stages -> StageType], unit' \in UnitType,
           unit'.build = unit.build, \A s \in Stages : Kind(stage[s], stage'[s])
    PROVE  IInv'
<1>1. Types'
  BY DEF IInv, Types
<1>2. Builds'
  BY DEF IInv, Builds, Kind
<1>3. Apart'
  BY DEF IInv, Apart, Holding
<1>4. \A s \in Stages : Sound(stage[s])'
  <2>1. SUFFICES ASSUME NEW s \in Stages PROVE Sound(stage'[s])
    BY DEF Sound
  <2>2. Kind(stage[s], stage'[s]) /\ Sound(stage[s])
    BY DEF IInv
  <2> QED
    BY <2>2 DEF Kind, Sound
<1>5. ASSUME NEW q \in Runs, Active(q)' PROVE Planned(q)' /\ Lists(q)' /\ Behind(q)'
  <2> DEFINE s == Param(q).s
             t == stage[s]
             u == stage'[s]
  <2>1. /\ Active(q) /\ Planned(q)' /\ Lists(q)' /\ (Holding(q)' <=> Holding(q)) /\ Param(q)' = Param(q)
        /\ Left(q)' = Left(q) /\ Behind(q) /\ run[q] \in RunType
    BY <1>5, Untouched, ActiveType DEF IInv
  <2>2. s \in Stages /\ Left(q) \in Nat
    BY <2>1 DEF RunType, ParamType, Param, Left
  <2>3. Kind(t, u)
    BY <2>2
  <2>4. Half(Param(q))' = Half(Param(q)) /\ \A K : Forward(q, K)' <=> Forward(q, K)
    BY <2>1 DEF Half, Forward
  <2>5. OnboardBehind(q)' /\ RemovalBehind(q)' /\ SwitchBehind(q)'
    BY <2>1, <2>3, <2>4 DEF Behind, OnboardBehind, RemovalBehind, SwitchBehind, Kind
  <2>10. DomainBehind(q)'
    <3>1. SUFFICES ASSUME Forward(q, {"domain"})
                   PROVE  /\ Left(q) <= 2 /\ Param(q).to \in scope.zones => zone'[Param(q).to] = s
                          /\ Left(q) <= 1 => u.file.fqdn = Param(q).to
      BY <2>1, <2>4 DEF DomainBehind
    <3>2. DomainBehind(q)
      BY <2>1 DEF Behind
    <3>3. /\ Left(q) <= 2 /\ Param(q).to \in scope.zones => zone[Param(q).to] = s
          /\ Left(q) <= 1 => t.file.fqdn = Param(q).to
      BY <3>1, <3>2 DEF DomainBehind
    <3>4. u.file.fqdn = t.file.fqdn
      BY <2>3 DEF Kind
    <3>5. Param(q).to \in scope.zones => Param(q).to \in Domains
      BY Managed0
    <3> QED
      BY <2>2, <3>3, <3>4, <3>5 DEF Unbooked
  <2>6. UndoBehind(q)'
    <3>1. SUFFICES ASSUME Holding(q), run[q].undo, Param(q).kind = "onboard", run[q].armed # <<>>
                   PROVE  /\ ~Live(u)
                          /\ Left(q) <= 7 => (u.file.in => u.file.removing)
                          /\ Left(q) <= 6 => ~u.app
                          /\ Left(q) <= 5 => ~u.file.in
                          /\ Left(q) <= 4 => "grant" \notin u.objects
                          /\ Left(q) <= 3 => "credential" \notin u.objects
                          /\ Left(q) <= 2 => "host" \notin u.objects
      BY <2>1 DEF UndoBehind, Live
    <3>2. UndoBehind(q)
      BY <2>1 DEF Behind
    <3> QED
      BY <2>2, <2>3, <3>1, <3>2 DEF UndoBehind, Kind, Live, Kept
  <2>7. OffboardBehind(q)'
    BY <2>1, <2>2, <2>3, <2>4 DEF Behind, OffboardBehind, Kind
  <2>8. CiBehind(q)'
    <3>1. readUnitStages' = readUnitStages
      BY DEF readUnitStages, Kind
    <3> QED
      BY <2>1, <2>4, <3>1 DEF Behind, CiBehind
  <2>9. SecretsBehind(q)'
    BY <2>1, <2>2, <2>3, <2>4 DEF Behind, SecretsBehind, Kind
  <2> QED
    BY <2>1, <2>5, <2>6, <2>7, <2>8, <2>9, <2>10 DEF Behind
<1> QED
  BY <1>1, <1>2, <1>3, <1>4, <1>5 DEF IInv

\* What others do at a domain where no record of ours stands.
LEMMA OtherHandsIs ==
    ASSUME IInv, NEW d \in scope.zones, OtherHands(d)
    PROVE  zone' \in ZoneType /\ Unbooked
<1>1. /\ zone \in ZoneType /\ d \in Domains /\ "free" \notin Stages /\ "other" \notin Stages
  BY Managed0, ConsumersAssumption DEF IInv, Types
<1>2. \E w \in {"free", "other"} : zone' = [zone EXCEPT ![d] = w]
  BY DEF OtherHands
<1>3. zone[d] \notin Stages
  BY <1>1 DEF OtherHands
<1> QED
  BY <1>1, <1>2, <1>3 DEF ZoneType, Unbooked

\* ArgoCD, the build plane, the operator's secret store and the other hands at a domain are such.
LEMMA OutsideStep ==
    ASSUME IInv, \/ \E s \in Stages : Argo(s) \/ Deliver(s) \/ Render(s)
                 \/ BuildArgo
                 \/ \E d \in scope.zones : OtherHands(d)
    PROVE  IInv'
<1>00. zone' = zone => zone' \in ZoneType /\ Unbooked
  BY DEF IInv, Types, Unbooked
<1>0. stage \in [Stages -> StageType] /\ unit \in UnitType /\ unit.objects \in SUBSET UnitObjects
  BY UnitWith DEF IInv, Types
<1>1. ASSUME NEW t PROVE Kind(t, t)
  BY DEF Kind
<1>2. ASSUME NEW s \in Stages, NEW u \in StageType, Kind(stage[s], u), stage' = [stage EXCEPT ![s] = u],
             UNCHANGED <<run, used, unit, zone, scope>>
      PROVE  IInv'
  <2>1. stage' \in [Stages -> StageType] /\ \A q \in Stages : Kind(stage[q], stage'[q])
    BY <1>0, <1>1, <1>2
  <2> QED
    BY <1>0, <1>00, <1>2, <2>1, OutsideKeeps
<1>3. ASSUME NEW s \in Stages, Argo(s) PROVE IInv'
  <2> DEFINE st == stage[s]
             up == st.file.in /\ ~st.file.removing
             sh == IF up THEN [rel |-> st.branch, off |-> st.file.suspended] ELSE [rel |-> 0, off |-> FALSE]
             ob == IF up THEN st.objects \cup {"namespace"} ELSE st.objects
             u == [st EXCEPT !.app = up, !.shown = sh, !.objects = ob]
  <2>1. st \in StageType /\ st.file \in FileType /\ st.branch \in {0} \cup Releases /\ st.objects \in SUBSET StageObjects
    BY <1>0 DEF StageType
  <2>2. up \in BOOLEAN /\ (up => st.file.in /\ ~st.file.removing)
    BY <2>1 DEF FileType
  <2>3. sh \in [rel : {0} \cup Releases, off : BOOLEAN] /\ ob \in SUBSET StageObjects /\ ob \cap Kept \subseteq st.objects
    BY <2>1 DEF FileType, StageObjects, Kept
  <2>4. stage' = [stage EXCEPT ![s] = u] /\ UNCHANGED <<run, used, unit, zone, scope>>
    BY <1>3 DEF Argo
  <2> HIDE DEF st, up, sh, ob
  <2>5. u \in StageType /\ u.file = st.file /\ u.row = st.row /\ u.entry = st.entry /\ u.value = st.value
        /\ u.objects = ob /\ u.app = up
    BY <2>1, <2>2, <2>3 DEF StageType
  <2> HIDE DEF u
  <2>6. Kind(st, u)
    BY <2>2, <2>3, <2>5 DEF Kind
  <2> QED
    BY <1>2, <2>4, <2>5, <2>6 DEF st
<1>4. ASSUME NEW s \in Stages, Deliver(s) PROVE IInv'
  <2> DEFINE st == stage[s]
             u == [st EXCEPT !.branch = st.wanted, !.wanted = 0]
  <2>1. st \in StageType
    BY <1>0
  <2>2. stage' = [stage EXCEPT ![s] = u] /\ UNCHANGED <<run, used, unit, zone, scope>>
    BY <1>0, <1>4 DEF Deliver
  <2> HIDE DEF st
  <2>3. u \in StageType /\ u.file = st.file /\ u.row = st.row /\ u.entry = st.entry /\ u.value = st.value
        /\ u.objects = st.objects /\ u.app = st.app
    BY <2>1 DEF StageType
  <2> HIDE DEF u
  <2>4. Kind(st, u)
    BY <2>3 DEF Kind
  <2> QED
    BY <1>2, <2>2, <2>3, <2>4 DEF st
<1>5. ASSUME NEW s \in Stages, Render(s) PROVE IInv'
  <2> DEFINE st == stage[s]
             v == st.value
             U(w) == [st EXCEPT !.value = w]
             a == [v EXCEPT !.secret = v.vault]
             b == [v EXCEPT !.pod = v.secret]
  <2>1. st \in StageType /\ v \in ValueType
    BY <1>0 DEF StageType
  <2>2. /\ \/ v.secret = 0 /\ stage' = [stage EXCEPT ![s].value.secret = v.vault]
           \/ v.pod = 0 /\ stage' = [stage EXCEPT ![s].value.pod = v.secret]
        /\ UNCHANGED <<run, used, unit, zone, scope>>
    BY <1>5 DEF Render
  <2>3. /\ [stage EXCEPT ![s].value.secret = v.vault] = [stage EXCEPT ![s] = U(a)]
        /\ [stage EXCEPT ![s].value.pod = v.secret] = [stage EXCEPT ![s] = U(b)]
    BY <1>0, <2>1 DEF StageType, ValueType
  <2>4. /\ a \in ValueType /\ a.vault = v.vault /\ a.secret = v.vault /\ a.pod = v.pod
        /\ b \in ValueType /\ b.vault = v.vault /\ b.secret = v.secret /\ b.pod = v.secret
    BY <2>1 DEF ValueType
  <2> HIDE DEF st, v, a, b
  <2>5. ASSUME NEW w \in ValueType
        PROVE  /\ U(w) \in StageType /\ U(w).file = st.file /\ U(w).row = st.row /\ U(w).entry = st.entry /\ U(w).value = w
               /\ U(w).objects = st.objects /\ U(w).app = st.app
    BY <2>1 DEF StageType
  <2>6. st.value = v
    BY DEF v
  <2>7. PICK w \in {a, b} : stage' = [stage EXCEPT ![s] = U(w)]
    BY <2>2, <2>3
  <2> DEFINE u == U(w)
  <2>8. /\ u \in StageType /\ u.file = st.file /\ u.row = st.row /\ u.entry = st.entry /\ u.value = w
        /\ u.objects = st.objects /\ u.app = st.app /\ stage' = [stage EXCEPT ![s] = u]
    BY <2>4, <2>5, <2>7
  <2> HIDE DEF u, U
  <2>9. Kind(st, u)
    BY <2>4, <2>6, <2>7, <2>8 DEF Kind
  <2> QED
    BY <1>2, <2>2, <2>8, <2>9 DEF st
<1>6. ASSUME BuildArgo PROVE IInv'
  <2> DEFINE o == IF unit.build.in THEN unit.objects \cup {"namespace"} ELSE unit.objects \ {"namespace"}
  <2>1. o \in SUBSET UnitObjects
    BY <1>0 DEF UnitObjects
  <2>2. unit' = [unit EXCEPT !.objects = o] /\ UNCHANGED <<run, used, stage, zone, scope>>
    BY <1>6 DEF BuildArgo
  <2> HIDE DEF o
  <2>3. unit' \in UnitType /\ unit'.build = unit.build
    BY <1>0, <2>1, <2>2, UnitWith
  <2> QED
    BY <1>0, <1>00, <1>1, <2>2, <2>3, OutsideKeeps
<1>7. ASSUME NEW d \in scope.zones, OtherHands(d) PROVE IInv'
  <2>1. UNCHANGED <<run, used, stage, unit, scope>>
    BY <1>7 DEF OtherHands
  <2> QED
    BY <1>0, <1>1, <1>7, <2>1, OtherHandsIs, OutsideKeeps
<1> QED
  BY <1>3, <1>4, <1>5, <1>6, <1>7

-----------------------------------------------------------------------------
\* What the operator and the executor do with a run keeps the invariant: nothing stands otherwise after it.

\* A run that is as it was has behind it what it had.
LEMMA BehindHere ==
    ASSUME UNCHANGED world, NEW q, run'[q] = run[q], Behind(q)
    PROVE  Behind(q)'
<1>1. UNCHANGED <<stage, unit, zone, scope>>
  BY DEF world
<1>2. /\ (Holding(q)' <=> Holding(q)) /\ Param(q)' = Param(q) /\ Left(q)' = Left(q) /\ readUnitStages' = readUnitStages
      /\ Half(Param(q))' = Half(Param(q)) /\ \A K : Forward(q, K)' => Forward(q, K)
  BY <1>1, Untouched DEF readUnitStages, Half
<1>3. OnboardBehind(q)' /\ UndoBehind(q)' /\ OffboardBehind(q)' /\ RemovalBehind(q)'
  BY <1>1, <1>2 DEF Behind, OnboardBehind, UndoBehind, OffboardBehind, RemovalBehind, Live
<1>4. CiBehind(q)' /\ SwitchBehind(q)' /\ DomainBehind(q)' /\ SecretsBehind(q)'
  BY <1>1, <1>2 DEF Behind, CiBehind, SwitchBehind, DomainBehind, SecretsBehind
<1> QED
  BY <1>3, <1>4 DEF Behind

\* A change of one run alone keeps the invariant where its new state fits.
LEMMA RunKeeps ==
    ASSUME IInv, UNCHANGED world, NEW r \in Runs, NEW c \in RunType \cup {Idle}, run' = [run EXCEPT ![r] = c],
           used' \in [plans : Nat, fails : Nat], used'.plans <= MaxPlans,
           c # Idle => Planned(r)' /\ Lists(r)' /\ Behind(r)',
           c # Idle /\ c.st # "planned" => \A q \in Runs \ {r} : Holding(q) => run[q].claims \cap c.claims = {}
    PROVE  IInv'
<1>0. UNCHANGED <<stage, unit, zone, scope>> /\ run \in [Runs -> RunType \cup {Idle}]
  BY DEF world, IInv, Types
<1>1. Types'
  BY <1>0 DEF IInv, Types
<1>2. Builds'
  BY <1>0 DEF IInv, Builds
<1>3. \A s \in Stages : Sound(stage[s])'
  BY <1>0 DEF IInv, Sound
<1>4. run'[r] = c /\ \A q \in Runs : q # r => run'[q] = run[q]
  BY <1>0
<1>5. \A q \in Runs : q # r => (Holding(q)' <=> Holding(q))
  BY <1>4 DEF Holding
<1>6. Holding(r)' => c # Idle /\ c.st # "planned"
  BY <1>4 DEF Holding, Idle
<1>7. Apart'
  <2>1. SUFFICES ASSUME NEW p \in Runs, NEW q \in Runs, p # q, Holding(p)', Holding(q)'
                 PROVE  run'[p].claims \cap run'[q].claims = {}
    BY DEF Apart
  <2>2. CASE p = r
    BY <1>4, <1>5, <1>6, <2>1, <2>2
  <2>3. CASE q = r
    BY <1>4, <1>5, <1>6, <2>1, <2>3
  <2>4. CASE p # r /\ q # r
    BY <1>4, <1>5, <2>1, <2>4 DEF IInv, Apart
  <2> QED
    BY <2>2, <2>3, <2>4
<1>8. ASSUME NEW q \in Runs, Active(q)' PROVE Planned(q)' /\ Lists(q)' /\ Behind(q)'
  <2>1. CASE q = r
    BY <1>4, <1>8, <2>1 DEF Active, Idle
  <2>2. CASE q # r
    <3>1. run'[q] = run[q]
      BY <1>4, <2>2
    <3>2. Planned(q) /\ Lists(q) /\ Behind(q)
      BY <1>8, <3>1, Untouched DEF IInv
    <3> QED
      BY <3>1, <3>2, Untouched, BehindHere
  <2> QED
    BY <2>1, <2>2
<1> QED
  BY <1>1, <1>2, <1>3, <1>7, <1>8 DEF IInv

\* A run that does not hold its claims has nothing behind it.
LEMMA NothingBehind ==
    ASSUME NEW q, ~Holding(q)'
    PROVE  Behind(q)'
<1>1. OnboardBehind(q)' /\ UndoBehind(q)' /\ OffboardBehind(q)' /\ RemovalBehind(q)'
  BY DEF OnboardBehind, UndoBehind, OffboardBehind, RemovalBehind, Forward
<1>2. CiBehind(q)' /\ SwitchBehind(q)' /\ DomainBehind(q)' /\ SecretsBehind(q)'
  BY DEF CiBehind, SwitchBehind, DomainBehind, SecretsBehind, Forward
<1> QED
  BY <1>1, <1>2 DEF Behind

\* The parts of Planned, of the parameters and the claims a request makes.
Proper(k, from, to, claims) ==
    /\ k \in {"onboard", "build-only", "standing-build", "release"} => to \in Releases
    /\ k \in {"suspend", "resume"} => to \in BOOLEAN
    /\ k = "domain" => from \in Domains /\ to \in Domains
    /\ k = "size" => to \in 0..1
    /\ k \in Bookers => "books" \in claims
    /\ k # "adopt" => "master-kube" \in claims

\* A request with proper parameters and a list of its kind keeps the invariant.
LEMMA AsksKeeps ==
    ASSUME IInv, NEW r \in Runs, NEW k \in RunKinds, NEW s \in Stages, NEW from \in BOOLEAN \cup Domains,
           NEW to \in BOOLEAN \cup Domains \cup Releases \cup 0..1, NEW claims \in SUBSET consumerLocks, NEW names,
           Asks(r, k, s, from, to, claims, names), Proper(k, from, to, claims),
           NEW h, h = (IF k = "onboard" /\ from = TRUE THEN 20 ELSE 21), ForthNames(k, h, names)
    PROVE  IInv'
<1> DEFINE p == [kind |-> k, s |-> s, from |-> from, to |-> to, id |-> used.plans + 1, ck |-> {}]
           c == Frozen(p, claims, Steps(s, names))
<1>1. /\ run[r].st = "idle" /\ used.plans < MaxPlans /\ run' = [run EXCEPT ![r] = c] /\ UNCHANGED world
      /\ used' = [used EXCEPT !.plans = @ + 1]
  BY DEF Asks, Plans
<1>2. used \in [plans : Nat, fails : Nat] /\ run \in [Runs -> RunType \cup {Idle}] /\ MaxPlans \in Nat
  BY ForeignType DEF IInv, Types
<1>3. used' \in [plans : Nat, fails : Nat] /\ used'.plans <= MaxPlans /\ used.plans + 1 \in 1..MaxPlans
  BY <1>1, <1>2
<1>4. names \in Seq(StepNames) /\ Len(names) >= Full(k, h) /\ \A i \in 1..Len(names) : Forth(k, h, Len(names) - i, names[i])
  BY DEF ForthNames
<1>5. /\ Steps(s, names) \in Seq(StepType) /\ Len(Steps(s, names)) = Len(names)
      /\ \A i \in 1..Len(names) : Steps(s, names)[i].s = names[i] /\ Steps(s, names)[i].g = s
  BY <1>4, StepsIs
<1>6. p \in ParamType /\ p.kind = k /\ p.s = s /\ p.from = from /\ p.to = to
  BY <1>3 DEF ParamType
<1>7. Half(p) = h
  BY <1>6 DEF Half
<1> HIDE DEF p
<1>8. /\ c.st = "planned" /\ c.p = p /\ c.claims = claims /\ c.todo = Steps(s, names) /\ c.armed = <<>>
      /\ c.undo = FALSE /\ c \in RunType
  <2>1. <<>> \in Seq(StepType)
    OBVIOUS
  <2> QED
    BY <1>5, <1>6, <2>1 DEF Frozen, RunType
<1> HIDE DEF c
<1>9. run'[r] = c
  BY <1>1, <1>2
<1>10. Planned(r)'
  BY <1>6, <1>8, <1>9 DEF Planned, Param, Proper
<1>11. Lists(r)'
  <2>1. ForthList(p, c.todo)
    BY <1>4, <1>5, <1>6, <1>7, <1>8 DEF ForthList
  <2>2. BackList(p, <<>>)
    BY DEF BackList
  <2>3. k = "onboard" => Len(c.todo) > h - 2
    <3>1. k = "onboard" => Full(k, h) = h + 4
      BY DEF Full
    <3> QED
      BY <1>4, <1>5, <1>8, <3>1
  <2>4. h \in {20, 21} /\ Len(c.todo) >= Full(k, h) /\ Len(c.todo) \in Nat
    BY <1>4, <1>5, <1>8
  <2>5. /\ ~c.undo => ForthList(p, c.todo)
        /\ c.undo => BackList(p, c.todo)
        /\ BackList(p, c.armed)
        /\ p.kind = "onboard" /\ c.armed # <<>> => Len(c.armed) >= 8
        /\ c.undo /\ c.armed = <<>> => c.todo = <<>>
        /\ p.kind = "onboard" /\ ~c.undo /\ Len(c.todo) <= Half(p) - 2 => c.armed # <<>>
        /\ c.st = "planned" => ~c.undo /\ c.armed = <<>> /\ Len(c.todo) >= Full(p.kind, Half(p))
    BY <1>6, <1>7, <1>8, <2>1, <2>2, <2>3, <2>4
  <2>6. Param(r)' = p
    BY <1>8, <1>9 DEF Param
  <2> QED
    BY <1>9, <2>5, <2>6 DEF Lists, ForthList, BackList, Half
<1>12. Behind(r)'
  BY <1>8, <1>9, NothingBehind DEF Holding
<1> QED
  BY <1>1, <1>3, <1>8, <1>10, <1>11, <1>12, RunKeeps

\* So does every plan.
LEMMA PlanKeeps ==
    ASSUME IInv, NEW r \in Runs, Plan(r)
    PROVE  IInv'
<1>1. scope.at \subseteq Stages /\ scope.rels \subseteq Releases /\ scope.forms \subseteq BOOLEAN /\ 0 \in Domains
  BY ConsumersAssumption DEF IInv, Types
<1>2. stage \in [Stages -> StageType]
  BY DEF IInv, Types
<1>3. {"master-kube"} \in SUBSET consumerLocks /\ unitLocks \in SUBSET consumerLocks /\ consumerLocks \in SUBSET consumerLocks
      /\ {"books", "cluster-branch"} \in SUBSET consumerLocks
  BY DEF consumerLocks, unitLocks
<1>4. RunKinds = {"onboard", "build-only", "standing-build", "ci-only", "offboard", "purge", "ci-offboard", "adopt",
                   "suspend", "resume", "domain", "size", "release", "secrets", "restart"}
  BY DEF RunKinds, Bookers, Valuers
<1>5. CASE PlanOnboard(r)
  <2>1. PICK s \in scope.at, rel \in scope.rels, existing \in scope.forms :
            Asks(r, "onboard", s, existing, rel, consumerLocks, deployableSteps(existing))
    BY <1>5 DEF PlanOnboard
  <2> DEFINE h == IF "onboard" = "onboard" /\ existing = TRUE THEN 20 ELSE 21
  <2>2. ForthNames("onboard", h, deployableSteps(existing))
    BY <1>1, OnboardList
  <2>3. Proper("onboard", existing, rel, consumerLocks)
    BY <1>1 DEF Proper, consumerLocks
  <2> HIDE DEF h
  <2>4. h = (IF "onboard" = "onboard" /\ existing = TRUE THEN 20 ELSE 21)
    BY DEF h
  <2>5. "onboard" \in RunKinds /\ s \in Stages /\ existing \in BOOLEAN \cup Domains /\ rel \in BOOLEAN \cup Domains \cup Releases \cup 0..1
    BY <1>1, <1>4
  <2> QED
    BY <1>3, <2>1, <2>2, <2>3, <2>4, <2>5, AsksKeeps
<1>6. ASSUME NEW k \in RunKinds \ {"onboard"}, NEW s \in Stages, NEW from \in BOOLEAN \cup Domains,
             NEW to \in BOOLEAN \cup Domains \cup Releases \cup 0..1, NEW claims \in SUBSET consumerLocks, NEW names,
             Asks(r, k, s, from, to, claims, names), Proper(k, from, to, claims), ForthNames(k, 21, names)
      PROVE  IInv'
  <2>1. 21 = (IF k = "onboard" /\ from = TRUE THEN 20 ELSE 21)
    BY <1>6
  <2> QED
    BY <1>6, <2>1, AsksKeeps
<1>7. CASE PlanBuildOnly(r)
  <2>1. PICK s \in scope.at, rel \in scope.rels :
            \/ Asks(r, "standing-build", s, FALSE, rel, unitLocks, standingBuildOnlySteps)
            \/ Asks(r, "build-only", s, FALSE, rel, unitLocks, buildOnlySteps)
    BY <1>7 DEF PlanBuildOnly
  <2>2. \A k \in {"build-only", "standing-build"} : Proper(k, FALSE, rel, unitLocks) /\ k \in RunKinds \ {"onboard"}
    BY <1>1, <1>4 DEF Proper, unitLocks
  <2>3. s \in Stages /\ FALSE \in BOOLEAN \cup Domains /\ rel \in BOOLEAN \cup Domains \cup Releases \cup 0..1
    BY <1>1
  <2>4. CASE Asks(r, "standing-build", s, FALSE, rel, unitLocks, standingBuildOnlySteps)
    BY <1>3, <1>6, <2>2, <2>3, <2>4, StandingBuildList
  <2>5. CASE Asks(r, "build-only", s, FALSE, rel, unitLocks, buildOnlySteps)
    BY <1>3, <1>6, <2>2, <2>3, <2>5, BuildOnlyList
  <2> QED
    BY <2>1, <2>4, <2>5
<1>8. CASE planCiOnly(r)
  <2>1. PICK s \in scope.at : Asks(r, "ci-only", s, FALSE, 0, unitLocks, ciOnlySteps)
    BY <1>8 DEF planCiOnly
  <2>2. Proper("ci-only", FALSE, 0, unitLocks) /\ "ci-only" \in RunKinds \ {"onboard"}
    BY <1>4 DEF Proper, unitLocks
  <2>3. s \in Stages /\ FALSE \in BOOLEAN \cup Domains /\ 0 \in BOOLEAN \cup Domains \cup Releases \cup 0..1
    BY <1>1
  <2> QED
    BY <1>3, <1>6, <2>1, <2>2, <2>3, CiOnlyList
<1>9. CASE PlanOffboard(r) \/ PlanPurge(r) \/ PlanOffboardCiOnly(r)
  <2>1. PICK s \in scope.at : \/ Asks(r, "offboard", s, 0, 0, consumerLocks, offboardSteps)
                              \/ Asks(r, "purge", s, 0, 0, consumerLocks, purgeSteps)
                              \/ Asks(r, "ci-offboard", s, 0, 0, unitLocks, offboardCiOnlySteps)
    BY <1>9 DEF PlanOffboard, PlanPurge, PlanOffboardCiOnly
  <2>2. Proper("offboard", 0, 0, consumerLocks) /\ Proper("purge", 0, 0, consumerLocks) /\ Proper("ci-offboard", 0, 0, unitLocks)
    BY DEF Proper, unitLocks, consumerLocks
  <2>3. s \in Stages /\ 0 \in BOOLEAN \cup Domains /\ 0 \in BOOLEAN \cup Domains \cup Releases \cup 0..1
        /\ {"offboard", "purge", "ci-offboard"} \subseteq RunKinds \ {"onboard"}
    BY <1>1, <1>4
  <2>4. CASE Asks(r, "offboard", s, 0, 0, consumerLocks, offboardSteps)
    BY <1>3, <1>6, <2>2, <2>3, <2>4, OffboardList
  <2>5. CASE Asks(r, "purge", s, 0, 0, consumerLocks, purgeSteps)
    BY <1>3, <1>6, <2>2, <2>3, <2>5, PurgeList
  <2>6. CASE Asks(r, "ci-offboard", s, 0, 0, unitLocks, offboardCiOnlySteps)
    BY <1>3, <1>6, <2>2, <2>3, <2>6, CiOffboardList
  <2> QED
    BY <2>1, <2>4, <2>5, <2>6
<1>10. CASE PlanAdopt(r)
  <2> DEFINE L == <<"adopt-attest-target", "read-pointer", "attest-live", "adopt-record-inventory">>
             claims == {"books", "cluster-branch"}
  <2>1. PICK s \in scope.at : Asks(r, "adopt", s, 0, 0, claims, L)
    BY <1>10 DEF PlanAdopt
  <2>2. Proper("adopt", 0, 0, claims) /\ "adopt" \in RunKinds \ {"onboard"}
    BY <1>4 DEF Proper
  <2>3. s \in Stages /\ 0 \in BOOLEAN \cup Domains /\ 0 \in BOOLEAN \cup Domains \cup Releases \cup 0..1
    BY <1>1
  <2>4. ForthNames("adopt", 21, L) /\ claims \in SUBSET consumerLocks
    BY <1>3, ChangeLists
  <2> HIDE DEF L, claims
  <2> QED
    BY <1>6, <2>1, <2>2, <2>3, <2>4
<1>11. CASE PlanSuspend(r)
  <2> DEFINE L == <<"attest-app", "record-switch", "switch-registration", "watch-converged">>
  <2>1. PICK s \in scope.at, off \in BOOLEAN : Asks(r, IF off THEN "suspend" ELSE "resume", s, 0, off, consumerLocks, L)
    BY <1>11 DEF PlanSuspend
  <2> DEFINE k == IF off THEN "suspend" ELSE "resume"
  <2>2. k \in {"suspend", "resume"}
    OBVIOUS
  <2>3. Asks(r, k, s, 0, off, consumerLocks, L)
    BY <2>1
  <2>4. ForthNames(k, 21, L)
    BY <2>2, ChangeLists
  <2> HIDE DEF L, k
  <2>5. Proper(k, 0, off, consumerLocks) /\ k \in RunKinds \ {"onboard"}
    BY <1>4, <2>2 DEF Proper, consumerLocks
  <2>6. s \in Stages /\ 0 \in BOOLEAN \cup Domains /\ off \in BOOLEAN \cup Domains \cup Releases \cup 0..1
    BY <1>1
  <2> QED
    BY <1>3, <1>6, <2>3, <2>4, <2>5, <2>6
<1>12. CASE PlanDomain(r)
  <2> DEFINE L == <<"attest-app", "provision-domain-record", "write-domain", "retire-previous-domain">>
  <2>1. PICK s \in scope.at, d \in Domains : Asks(r, "domain", s, stage[s].file.fqdn, d, consumerLocks, L)
    BY <1>12 DEF PlanDomain
  <2> DEFINE e == stage[s].file.fqdn
  <2>2. s \in Stages /\ e \in Domains
    BY <1>1, <1>2 DEF StageType, FileType
  <2>3. ForthNames("domain", 21, L)
    BY ChangeLists
  <2>4. Asks(r, "domain", s, e, d, consumerLocks, L)
    BY <2>1
  <2> HIDE DEF L, e
  <2>5. Proper("domain", e, d, consumerLocks) /\ "domain" \in RunKinds \ {"onboard"}
    BY <1>4, <2>2 DEF Proper, consumerLocks
  <2>6. e \in BOOLEAN \cup Domains /\ d \in BOOLEAN \cup Domains \cup Releases \cup 0..1
    BY <2>2
  <2> QED
    BY <1>3, <1>6, <2>2, <2>3, <2>4, <2>5, <2>6
<1>13. CASE PlanRelease(r)
  <2> DEFINE L == <<"attest-app", "inject-release-kit", "put-release", "watch-delivery">>
             claims == {"master-kube"}
  <2>1. PICK s \in scope.at, rel \in scope.rels : Asks(r, "release", s, 0, rel, claims, L)
    BY <1>13 DEF PlanRelease
  <2>2. Proper("release", 0, rel, claims) /\ "release" \in RunKinds \ {"onboard"}
    BY <1>1, <1>4 DEF Proper, Bookers
  <2>3. s \in Stages /\ 0 \in BOOLEAN \cup Domains /\ rel \in BOOLEAN \cup Domains \cup Releases \cup 0..1
    BY <1>1
  <2>4. ForthNames("release", 21, L) /\ claims \in SUBSET consumerLocks
    BY <1>3, ChangeLists
  <2> HIDE DEF L, claims
  <2> QED
    BY <1>6, <2>1, <2>2, <2>3, <2>4
<1>14. CASE PlanSecrets(r)
  <2> DEFINE L == <<"attest-app", "write-secrets", "refetch-secrets", "restart-workloads">>
             claims == {"master-kube"}
  <2>1. PICK s \in scope.at : Asks(r, "secrets", s, 0, 0, claims, L)
    BY <1>14 DEF PlanSecrets
  <2>2. Proper("secrets", 0, 0, claims) /\ "secrets" \in RunKinds \ {"onboard"}
    BY <1>1, <1>4 DEF Proper, Bookers
  <2>3. s \in Stages /\ 0 \in BOOLEAN \cup Domains /\ 0 \in BOOLEAN \cup Domains \cup Releases \cup 0..1
    BY <1>1
  <2>4. ForthNames("secrets", 21, L) /\ claims \in SUBSET consumerLocks
    BY <1>3, ChangeLists
  <2> HIDE DEF L, claims
  <2> QED
    BY <1>6, <2>1, <2>2, <2>3, <2>4
<1>15. CASE PlanSize(r)
  <2> DEFINE L == <<"attest-app", "write-size">>
  <2>1. PICK s \in scope.at, size \in 0..1 : Asks(r, "size", s, 0, size, consumerLocks, L)
    BY <1>15 DEF PlanSize
  <2>2. Proper("size", 0, size, consumerLocks) /\ "size" \in RunKinds \ {"onboard"}
    BY <1>1, <1>4 DEF Proper, consumerLocks
  <2>3. s \in Stages /\ 0 \in BOOLEAN \cup Domains /\ size \in BOOLEAN \cup Domains \cup Releases \cup 0..1
    BY <1>1
  <2>4. ForthNames("size", 21, L)
    BY ChangeLists
  <2> HIDE DEF L
  <2> QED
    BY <1>3, <1>6, <2>1, <2>2, <2>3, <2>4
<1>16. CASE PlanRestart(r)
  <2> DEFINE L == <<"attest-app", "restart-workloads">>
             claims == {"master-kube"}
  <2>1. PICK s \in scope.at : Asks(r, "restart", s, 0, 0, claims, L)
    BY <1>16 DEF PlanRestart
  <2>2. Proper("restart", 0, 0, claims) /\ "restart" \in RunKinds \ {"onboard"}
    BY <1>1, <1>4 DEF Proper, Bookers
  <2>3. s \in Stages /\ 0 \in BOOLEAN \cup Domains /\ 0 \in BOOLEAN \cup Domains \cup Releases \cup 0..1
    BY <1>1
  <2>4. ForthNames("restart", 21, L) /\ claims \in SUBSET consumerLocks
    BY <1>3, ChangeLists
  <2> HIDE DEF L, claims
  <2> QED
    BY <1>6, <2>1, <2>2, <2>3, <2>4
<1> QED
  BY <1>5, <1>7, <1>8, <1>9, <1>10, <1>11, <1>12, <1>13, <1>14, <1>15, <1>16 DEF Plan

\* The run itself after the operator's or the executor's move.
LEMMA ManagedKeeps ==
    ASSUME IInv, NEW r \in Runs, Managed(r), UNCHANGED world
    PROVE  IInv'
<1>1. run \in [Runs -> RunType \cup {Idle}] /\ used \in [plans : Nat, fails : Nat] /\ used.plans <= MaxPlans
  BY DEF IInv, Types
<1>2. Idle \in RunType \cup {Idle}
  OBVIOUS
<1>3. CASE Finish(r) \/ Delete(r)
  <2>1. run' = [run EXCEPT ![r] = Idle] /\ used' = used
    BY <1>3 DEF Finish, Delete
  <2> QED
    BY <1>1, <1>2, <2>1, RunKeeps
<1>4. ASSUME Active(r), NEW c \in RunType, run' = [run EXCEPT ![r] = c], c.st \in {"running", "failed"}, c.p = run[r].p,
             c.claims = run[r].claims, c.todo = run[r].todo, c.armed = run[r].armed, c.undo = run[r].undo,
             used' \in [plans : Nat, fails : Nat], used'.plans <= MaxPlans,
             Holding(r) \/ \A q \in Runs \ {r} : Holding(q) => run[q].claims \cap run[r].claims = {},
             ~Holding(r) => Behind(r)'
      PROVE  IInv'
  <2>1. run'[r] = c /\ Planned(r) /\ Lists(r) /\ Behind(r)
    BY <1>1, <1>4 DEF IInv
  <2>2. Param(r)' = Param(r) /\ Left(r)' = Left(r)
    BY <1>4, <2>1 DEF Param, Left
  <2>3. Planned(r)'
    BY <1>4, <2>1, <2>2 DEF Planned
  <2>4. Lists(r)'
    <3> DEFINE p == Param(r)
    <3>1. /\ ~c.undo => ForthList(p, c.todo)
          /\ c.undo => BackList(p, c.todo)
          /\ BackList(p, c.armed)
          /\ p.kind = "onboard" /\ c.armed # <<>> => Len(c.armed) >= 8
          /\ c.undo /\ c.armed = <<>> => c.todo = <<>>
          /\ p.kind = "onboard" /\ ~c.undo /\ Len(c.todo) <= Half(p) - 2 => c.armed # <<>>
      BY <1>4, <2>1 DEF Lists
    <3>2. c.st # "planned"
      BY <1>4
    <3>3. Param(r)' = p
      BY <2>2
    <3> HIDE DEF p
    <3> QED
      BY <2>1, <3>1, <3>2, <3>3 DEF Lists, ForthList, BackList, Half
  <2>5. Behind(r)'
    <3>1. CASE Holding(r)
      <4>1. UNCHANGED <<stage, unit, zone, scope>>
        BY DEF world
      <4>2. /\ readUnitStages' = readUnitStages /\ Half(Param(r))' = Half(Param(r)) /\ run'[r].undo = run[r].undo
            /\ run'[r].armed = run[r].armed /\ \A K : Forward(r, K)' => Forward(r, K)
        BY <1>4, <2>1, <2>2, <3>1, <4>1 DEF readUnitStages, Half, Forward
      <4>3. OnboardBehind(r)' /\ UndoBehind(r)' /\ OffboardBehind(r)' /\ RemovalBehind(r)'
        BY <2>1, <2>2, <3>1, <4>1, <4>2 DEF Behind, OnboardBehind, UndoBehind, OffboardBehind, RemovalBehind, Live
      <4>4. CiBehind(r)' /\ SwitchBehind(r)' /\ DomainBehind(r)' /\ SecretsBehind(r)'
        BY <2>1, <2>2, <4>1, <4>2 DEF Behind, CiBehind, SwitchBehind, DomainBehind, SecretsBehind
      <4> QED
        BY <4>3, <4>4 DEF Behind
    <3>2. CASE ~Holding(r)
      BY <1>4, <3>2
    <3> QED
      BY <3>1, <3>2
  <2>6. \A q \in Runs \ {r} : Holding(q) => run[q].claims \cap c.claims = {}
    BY <1>4 DEF IInv, Apart
  <2> QED
    BY <1>4, <2>3, <2>4, <2>5, <2>6, RunKeeps
<1>5. ASSUME Active(r), NEW x \in {"running", "failed"}, NEW m \in SUBSET {"token", "tag"},
             run' = [run EXCEPT ![r] = [run[r] EXCEPT !.st = x, !.mem = m]],
             used' \in [plans : Nat, fails : Nat], used'.plans <= MaxPlans,
             Holding(r) \/ \A q \in Runs \ {r} : Holding(q) => run[q].claims \cap run[r].claims = {},
             ~Holding(r) => Behind(r)'
      PROVE  IInv'
  <2> DEFINE c == [run[r] EXCEPT !.st = x, !.mem = m]
  <2>1. run[r] \in RunType
    BY <1>5, ActiveType DEF IInv
  <2>2. /\ c \in RunType /\ c.st = x /\ c.p = run[r].p /\ c.claims = run[r].claims /\ c.todo = run[r].todo
        /\ c.armed = run[r].armed /\ c.undo = run[r].undo
    BY <2>1 DEF RunType
  <2>3. run' = [run EXCEPT ![r] = c]
    BY <1>5
  <2> HIDE DEF c
  <2> QED
    BY <1>4, <1>5, <2>2, <2>3
<1>6. CASE Throws(r)
  <2>1. run[r].st = "running" /\ Fails(r, run[r])
    BY <1>6 DEF Throws
  <2>2. run' = [run EXCEPT ![r] = [run[r] EXCEPT !.st = "failed", !.mem = {}]] /\ used' = [used EXCEPT !.fails = @ + 1]
    BY <2>1 DEF Fails
  <2>3. used' \in [plans : Nat, fails : Nat] /\ used'.plans <= MaxPlans
    BY <1>1, <2>2
  <2>4. Active(r) /\ Holding(r)
    BY <2>1 DEF Active, Holding
  <2> DEFINE c == [run[r] EXCEPT !.st = "failed", !.mem = {}]
  <2>5. run[r] \in RunType
    BY <2>4, ActiveType DEF IInv
  <2>6. /\ c \in RunType /\ c.st = "failed" /\ c.p = run[r].p /\ c.claims = run[r].claims /\ c.todo = run[r].todo
        /\ c.armed = run[r].armed /\ c.undo = run[r].undo
    BY <2>5 DEF RunType
  <2>7. run' = [run EXCEPT ![r] = c]
    BY <2>2
  <2> HIDE DEF c
  <2> QED
    BY <1>4, <2>3, <2>4, <2>6, <2>7
<1>7. ASSUME run[r].st \in {"planned", "failed"}, run' = [run EXCEPT ![r].st = "running"]
      PROVE  /\ Active(r) /\ run[r] \in RunType /\ run[r].mem \in SUBSET {"token", "tag"}
             /\ run' = [run EXCEPT ![r] = [run[r] EXCEPT !.st = "running", !.mem = run[r].mem]]
  <2>1. Active(r) /\ run[r] \in RunType
    BY <1>7, ActiveType DEF Active, IInv
  <2>2. [run[r] EXCEPT !.st = "running"] = [run[r] EXCEPT !.st = "running", !.mem = run[r].mem]
    BY <2>1 DEF RunType
  <2>3. run' = [run EXCEPT ![r] = [run[r] EXCEPT !.st = "running"]]
    BY <1>1, <1>7
  <2> QED
    BY <2>1, <2>2, <2>3 DEF RunType
<1>8. CASE Retry(r)
  <2>1. run[r].st = "failed" /\ run' = [run EXCEPT ![r].st = "running"] /\ used' = used
    BY <1>8 DEF Retry
  <2>2. Holding(r)
    BY <2>1 DEF Holding
  <2> QED
    BY <1>1, <1>5, <1>7, <2>1, <2>2
<1>9. CASE Start(r)
  <2>1. /\ run[r].st = "planned" /\ run' = [run EXCEPT ![r].st = "running"] /\ used' = used
        /\ \A q \in Runs \ {r} : Holding(q) => run[q].claims \cap run[r].claims = {}
    BY <1>9 DEF Start
  <2>2. Active(r) /\ run[r] \in RunType /\ Lists(r) /\ ~Holding(r)
    BY <1>7, <2>1 DEF IInv, Holding
  <2>3. /\ run'[r].undo = run[r].undo /\ run'[r].todo = run[r].todo /\ run'[r].p = run[r].p
    BY <1>1, <2>1, <2>2 DEF RunType
  <2>4. ~run[r].undo /\ Left(r) >= Full(Param(r).kind, Half(Param(r))) /\ Left(r) \in Nat /\ Half(Param(r)) \in Half2
    BY <2>1, <2>2 DEF Lists, Left, RunType, Half, Half2
  <2>5. Param(r)' = Param(r) /\ Left(r)' = Left(r) /\ Half(Param(r))' = Half(Param(r)) /\ ~run'[r].undo
    BY <2>3, <2>4 DEF Param, Left, Half
  <2>6. /\ Param(r).kind = "onboard" => Left(r) > Half(Param(r))
        /\ Param(r).kind \in {"offboard", "purge"} => Left(r) > 13
        /\ Param(r).kind = "ci-offboard" => Left(r) > 6
        /\ Param(r).kind \in {"domain", "suspend", "resume", "secrets"} => Left(r) > 2
    BY <2>4 DEF Full, Half2
  <2>7. Behind(r)'
    <3>1. OnboardBehind(r)' /\ UndoBehind(r)' /\ OffboardBehind(r)' /\ RemovalBehind(r)'
      BY <2>4, <2>5, <2>6 DEF OnboardBehind, UndoBehind, OffboardBehind, RemovalBehind, Forward, Half2
    <3>2. CiBehind(r)' /\ SwitchBehind(r)' /\ DomainBehind(r)' /\ SecretsBehind(r)'
      BY <2>4, <2>5, <2>6 DEF CiBehind, SwitchBehind, DomainBehind, SecretsBehind, Forward
    <3> QED
      BY <3>1, <3>2 DEF Behind
  <2> QED
    BY <1>1, <1>5, <1>7, <2>1, <2>7
<1> QED
  BY <1>3, <1>6, <1>8, <1>9 DEF Managed

\* An abort keeps it: of an onboarding it is refused where the stage is live.
LEMMA AbortKeeps ==
    ASSUME IInv, NEW r \in Runs, Abort(r)
    PROVE  IInv'
<1> DEFINE a == run[r].armed
           c == [run[r] EXCEPT !.st = "running", !.todo = a, !.undo = TRUE]
           p == Param(r)
<1>1. /\ run[r].st = "failed" /\ UNCHANGED world /\ used' = used
      /\ a # <<>> /\ p.kind = "onboard" => assertOnboardAbortable(p.s)
      /\ run' = [run EXCEPT ![r].st = "running", ![r].todo = run[r].armed, ![r].undo = TRUE]
  BY DEF Abort, Aborts
<1>2. Active(r) /\ Holding(r) /\ run[r] \in RunType /\ Planned(r) /\ Lists(r)
  BY <1>1, ActiveType DEF Active, Holding, IInv
<1>3. run \in [Runs -> RunType \cup {Idle}] /\ used \in [plans : Nat, fails : Nat] /\ used.plans <= MaxPlans
  BY DEF IInv, Types
<1>4. /\ c \in RunType /\ c.st = "running" /\ c.p = run[r].p /\ c.claims = run[r].claims /\ c.todo = a
      /\ c.armed = a /\ c.undo = TRUE
  BY <1>2 DEF RunType
<1>5. run' = [run EXCEPT ![r] = c]
  BY <1>1, <1>2, <1>3 DEF RunType
<1> HIDE DEF c
<1>6. run'[r] = c /\ Param(r)' = p /\ Left(r)' = Len(a)
  BY <1>3, <1>4, <1>5 DEF Param, Left
<1>7. Planned(r)'
  BY <1>2, <1>4, <1>6 DEF Planned
<1>8. BackList(p, a) /\ (p.kind = "onboard" /\ a # <<>> => Len(a) >= 8)
  BY <1>2 DEF Lists
<1> HIDE DEF a, p
<1>9. Lists(r)'
  <2>1. /\ ~c.undo => ForthList(p, c.todo)
        /\ c.undo => BackList(p, c.todo)
        /\ BackList(p, c.armed)
        /\ p.kind = "onboard" /\ c.armed # <<>> => Len(c.armed) >= 8
        /\ c.undo /\ c.armed = <<>> => c.todo = <<>>
        /\ p.kind = "onboard" /\ ~c.undo /\ Len(c.todo) <= Half(p) - 2 => c.armed # <<>>
        /\ c.st # "planned"
    BY <1>4, <1>8
  <2> QED
    BY <1>6, <2>1 DEF Lists, ForthList, BackList, Half
<1>10. Behind(r)'
  <2>1. \A K : ~Forward(r, K)'
    BY <1>4, <1>6 DEF Forward
  <2>2. OnboardBehind(r)' /\ OffboardBehind(r)' /\ RemovalBehind(r)' /\ CiBehind(r)' /\ SwitchBehind(r)'
        /\ DomainBehind(r)' /\ SecretsBehind(r)'
    BY <2>1 DEF OnboardBehind, OffboardBehind, RemovalBehind, CiBehind, SwitchBehind, DomainBehind, SecretsBehind
  <2>3. UndoBehind(r)'
    <3>1. stage' = stage
      BY <1>1 DEF world
    <3>2. a # <<>> /\ p.kind = "onboard" => ~Live(stage[p.s]) /\ Len(a) >= 8
      BY <1>1, <1>8 DEF assertOnboardAbortable, Live
    <3>3. Len(a) \in Nat
      BY <1>4 DEF RunType
    <3>4. SUFFICES ASSUME Holding(r)', run'[r].undo, Param(r)'.kind = "onboard", run'[r].armed # <<>>
                   PROVE  ~Live(stage'[Param(r)'.s]) /\ ~(Left(r)' <= 7)
      BY <1>4, <1>6, <3>3 DEF UndoBehind
    <3>5. Param(r)'.s = p.s /\ p.kind = "onboard" /\ a # <<>>
      BY <1>4, <1>6, <3>4
    <3> QED
      BY <1>6, <3>1, <3>2, <3>3, <3>5
  <2> QED
    BY <2>2, <2>3 DEF Behind
<1>11. \A q \in Runs \ {r} : Holding(q) => run[q].claims \cap c.claims = {}
  BY <1>2, <1>4 DEF IInv, Apart
<1> QED
  BY <1>1, <1>3, <1>4, <1>5, <1>7, <1>9, <1>10, <1>11, RunKeeps

-----------------------------------------------------------------------------
\* The beginning.

\* There is a first release.
LEMMA FirstRelease ==
    (CHOOSE rel \in Releases : \A x \in Releases : rel <= x) \in Releases
<1>0. Releases \subseteq Nat /\ Releases # {}
  BY ConsumersAssumption
<1> DEFINE Less == {p \in Nat \X Nat : p[1] < p[2]}
<1>1. IsWellFoundedOn(Less, Nat)
  BY NatLessThanWellFounded, Zenon DEF OpToRel
<1>2. \E x \in Releases : \A y \in Releases : ~(<<y, x>> \in Less)
  BY <1>0, <1>1, WFMin, Zenon
<1>3. \E x \in Releases : \A y \in Releases : ~(y < x)
  BY <1>0, <1>2
<1>4. \E x \in Releases : \A y \in Releases : x <= y
  BY <1>0, <1>3
<1> QED
  BY <1>4

\* A stage that is nowhere, and one that stands.
LEMMA StandingType ==
    ASSUME NEW first \in Releases
    PROVE  /\ Nowhere \in StageType /\ Sound(Nowhere) /\ ~Nowhere.file.in /\ Nowhere.file.fqdn = 0
           /\ Standing(first) \in StageType /\ Sound(Standing(first)) /\ Standing(first).file.suspended = FALSE
           /\ [Standing(first) EXCEPT !.row = "none"] \in StageType /\ Sound([Standing(first) EXCEPT !.row = "none"])
           /\ [Standing(first) EXCEPT !.row = "none"].file.suspended = FALSE
           /\ Standing(first).file.fqdn = 0 /\ [Standing(first) EXCEPT !.row = "none"].file.fqdn = 0
<1> DEFINE v0 == [vault |-> 0, secret |-> 0, pod |-> 0]
           v1 == [vault |-> Foreign, secret |-> Foreign, pod |-> Foreign]
           sh0 == [rel |-> 0, off |-> FALSE]
<1>1. /\ v0 \in ValueType /\ v0.vault = 0 /\ v1 \in ValueType
      /\ sh0 \in [rel : {0} \cup Releases, off : BOOLEAN]
      /\ 0 \in 0..Foreign /\ Foreign \in 0..Foreign /\ Foreign # 0
  BY ForeignType DEF ValueType, Foreign
<1>2. /\ NoFile \in FileType /\ NoFile.in = FALSE /\ NoFile.fqdn = 0
      /\ File \in FileType /\ File.in = TRUE /\ File.suspended = FALSE /\ File.fqdn = 0
  <2>1. 0 \in Domains
    BY ConsumersAssumption
  <2>2. NoFile \in FileType /\ NoFile.in = FALSE /\ NoFile.fqdn = 0 /\ NoFile.suspended = FALSE
    BY <2>1 DEF NoFile, FileType
  <2> QED
    BY <2>2 DEF File, FileType
<1>3. Nowhere = [file |-> NoFile, row |-> "none", app |-> FALSE, shown |-> sh0, objects |-> {}, entry |-> 0,
                 admin |-> FALSE, branch |-> 0, wanted |-> 0, value |-> v0]
  BY DEF Nowhere
<1> HIDE DEF v0, v1, sh0
<1>4. Nowhere \in StageType /\ Sound(Nowhere) /\ ~Nowhere.file.in /\ Nowhere.file.fqdn = 0
  BY <1>1, <1>2, <1>3 DEF StageType, Sound, Rows
<1> DEFINE t == Standing(first)
           w == [t EXCEPT !.row = "none"]
<1>5. t \in StageType /\ t.file = File /\ t.row = "active" /\ t.entry = Foreign
  <2>1. t = [Nowhere EXCEPT !.file = File, !.row = "active", !.app = TRUE, !.shown.rel = first,
                            !.objects = StageObjects, !.entry = Foreign, !.admin = TRUE, !.branch = first, !.value = v1]
    BY DEF Standing, v1
  <2>2. "active" \in Rows /\ StageObjects \in SUBSET StageObjects
    BY DEF Rows, CONSUMER_LIVE_STATUS
  <2> HIDE DEF t
  <2> QED
    BY <1>1, <1>2, <1>4, <2>1, <2>2 DEF StageType
<1> HIDE DEF t
<1>6. w \in StageType /\ w.file = File /\ w.row = "none" /\ w.entry = Foreign
  BY <1>5 DEF StageType, Rows
<1> HIDE DEF w
<1>7. Sound(t) /\ Sound(w)
  BY <1>1, <1>2, <1>5, <1>6 DEF Sound
<1>8. /\ t.file.suspended = FALSE /\ t.file.fqdn = 0 /\ w.file.suspended = FALSE /\ w.file.fqdn = 0
  BY <1>2, <1>5, <1>6
<1> QED
  BY <1>4, <1>5, <1>6, <1>7, <1>8 DEF t, w

\* The invariant holds in the beginning, whatever stands then.
LEMMA InitInv == Init => IInv
<1> SUFFICES ASSUME Init PROVE IInv
  OBVIOUS
<1> DEFINE first == CHOOSE rel \in Releases : \A x \in Releases : rel <= x
           Lost == [Standing(first) EXCEPT !.row = "none"]
           Stood == [build |-> [in |-> TRUE, suspended |-> FALSE, by |-> Foreign, builds |-> TRUE], objects |-> UnitObjects]
           None == [build |-> NoBuild, objects |-> {}]
<1>1. PICK b \in Starts :
          /\ scope = b
          /\ stage = [s \in Stages |-> IF s \in b.lost THEN Lost ELSE IF s \in b.on THEN Standing(first) ELSE Nowhere]
          /\ unit = (IF b.on = {} THEN None ELSE Stood)
  BY DEF Init
<1>2. /\ Nowhere \in StageType /\ Sound(Nowhere) /\ ~Nowhere.file.in
      /\ Standing(first) \in StageType /\ Sound(Standing(first)) /\ Standing(first).file.suspended = FALSE
      /\ Lost \in StageType /\ Sound(Lost) /\ Lost.file.suspended = FALSE
  BY FirstRelease, StandingType
<1>3. /\ Stood \in UnitType /\ Stood.build.in = TRUE /\ Stood.build.suspended = FALSE /\ None \in UnitType
  BY NoBuildType, ForeignType DEF UnitType, BuildType
<1>4. zone = [d \in Domains |-> "free"] /\ run = [r \in Runs |-> Idle] /\ used = [plans |-> 0, fails |-> 0]
  BY DEF Init, NoRuns
<1>5. b.lost \subseteq b.on
  BY ConsumersAssumption
<1> HIDE DEF first, Lost, Stood, None
<1>6. stage \in [Stages -> StageType] /\ \A s \in Stages : Sound(stage[s]) /\ (stage[s].file.in => s \in b.on)
  BY <1>1, <1>2, <1>5
<1>7. unit \in UnitType /\ (b.on # {} => unit.build.in = TRUE /\ unit.build.suspended = FALSE)
  BY <1>1, <1>3
<1>8. Builds
  BY <1>6, <1>7 DEF Builds
<1>9. Types
  <2>1. zone \in ZoneType
    BY <1>4 DEF ZoneType
  <2>2. run \in [Runs -> RunType \cup {Idle}]
    BY <1>4
  <2>3. used \in [plans : Nat, fails : Nat] /\ used.plans <= MaxPlans
    BY <1>4, ForeignType
  <2> QED
    BY <1>1, <1>6, <1>7, <2>1, <2>2, <2>3 DEF Types
<1>10. \A r \in Runs : ~Active(r) /\ ~Holding(r)
  BY <1>4 DEF Active, Holding, Idle
<1>11. Apart
  BY <1>10 DEF Apart
<1> QED
  BY <1>6, <1>8, <1>9, <1>10, <1>11 DEF IInv

\* A step that is no run's leaves the files, the stages' domains, the build file and the shared objects as
\* they are.
Elsewhere ==
    /\ \A s \in Stages : stage'[s].file = stage[s].file
    /\ Unbooked /\ scope' = scope /\ unit'.build = unit.build /\ (unit.objects \ unit'.objects) \cap Shared = {}

\* Every step keeps the invariant, and is the whole step of a run or leaves the files, the domains and the shared things alone.
LEMMA NextIs ==
    ASSUME IInv, [Next]_vars
    PROVE  IInv' /\ ((\E r \in Runs : Stepped(r)) \/ Elsewhere)
<1>1. UNCHANGED world => Elsewhere
  BY DEF world, Elsewhere, Unbooked
<1>2. ASSUME NEW r \in Runs, Onboarding(r) \/ Removal(r) \/ Purging(r) \/ Undone(r) \/ Changes(r)
      PROVE  IInv' /\ Stepped(r)
  BY <1>2, EveryStep, StepKeeps
<1>3. ASSUME NEW r \in Runs, Plan(r) PROVE IInv' /\ UNCHANGED world
  <2>1. UNCHANGED world
    BY <1>3 DEF Plan, PlanOnboard, PlanBuildOnly, planCiOnly, PlanOffboard, PlanPurge, PlanOffboardCiOnly, PlanAdopt,
                PlanSuspend, PlanDomain, PlanRelease, PlanSecrets, PlanSize, PlanRestart, Asks
  <2> QED
    BY <1>3, <2>1, PlanKeeps
<1>4. ASSUME NEW r \in Runs, Abort(r) PROVE IInv' /\ UNCHANGED world
  BY <1>4, AbortKeeps DEF Abort
<1>5. ASSUME NEW r \in Runs, Managed(r), UNCHANGED world PROVE IInv'
  BY <1>5, ManagedKeeps
<1>6. ASSUME \/ \E s \in Stages : Argo(s) \/ Deliver(s) \/ Render(s)
             \/ BuildArgo
             \/ \E d \in scope.zones : OtherHands(d)
      PROVE  IInv' /\ Elsewhere
  <2>1. stage \in [Stages -> StageType] /\ unit \in UnitType
    BY DEF IInv, Types
  <2>2. ASSUME NEW s \in Stages, Argo(s) \/ Deliver(s) \/ Render(s) PROVE Elsewhere
    <3>1. unit' = unit /\ zone' = zone /\ scope' = scope
      BY <2>2 DEF Argo, Deliver, Render
    <3>2. \A q \in Stages : stage'[q].file = stage[q].file
      <4>1. CASE Argo(s)
        BY <2>1, <4>1 DEF Argo, StageType
      <4>2. CASE Deliver(s)
        BY <2>1, <4>2 DEF Deliver, StageType
      <4>3. CASE Render(s)
        BY <2>1, <4>3 DEF Render, StageType
      <4> QED
        BY <2>2, <4>1, <4>2, <4>3
    <3> QED
      BY <3>1, <3>2 DEF Elsewhere, Unbooked
  <2>3. ASSUME BuildArgo PROVE Elsewhere
    <3>1. stage' = stage /\ zone' = zone /\ scope' = scope
      BY <2>3 DEF BuildArgo
    <3>2. unit'.build = unit.build /\ unit.objects \ unit'.objects \subseteq {"namespace"}
      BY <2>1, <2>3 DEF BuildArgo, UnitType
    <3> QED
      BY <3>1, <3>2 DEF Elsewhere, Shared, Unbooked
  <2>4. ASSUME NEW d \in scope.zones, OtherHands(d) PROVE Elsewhere
    <3>1. Unbooked
      BY <2>4, OtherHandsIs
    <3> QED
      BY <2>4, <3>1 DEF OtherHands, Elsewhere
  <2> QED
    BY <1>6, <2>2, <2>3, <2>4, OutsideStep
<1>7. ASSUME UNCHANGED vars PROVE IInv' /\ Elsewhere
  <2>1. UNCHANGED world /\ UNCHANGED <<run, used, zone, scope>> /\ stage' = stage /\ unit' = unit
    BY <1>7 DEF vars, world
  <2>2. \A s \in Stages : Kind(stage[s], stage'[s])
    BY <2>1 DEF Kind
  <2>4. zone' \in ZoneType /\ Unbooked
    BY <2>1 DEF IInv, Types, Unbooked
  <2>3. IInv'
    BY <2>1, <2>2, <2>4, OutsideKeeps DEF IInv, Types
  <2> QED
    BY <1>1, <2>1, <2>3
<1> QED
  BY <1>1, <1>2, <1>3, <1>4, <1>5, <1>6, <1>7 DEF Next

-----------------------------------------------------------------------------
\* The theorems.

\* The inductive invariant is one.
LEMMA Invariance == Spec => []IInv
<1>1. IInv /\ [Next]_vars => IInv'
  BY NextIs
<1> QED
  BY <1>1, InitInv, PTL DEF Spec

\* For any stages, releases, domains, runs and bounds, at every step of every run, torn, repeated or
\* aborted, the unit builds while one of its stages runs, and a row that reads offboarded is the record of
\* a stage that left no file, no repository credential, no mail grant and no address.
THEOREM StagesAgree == Spec => []ConsumerInv
<1>1. IInv => ConsumerInv
  <2> SUFFICES ASSUME IInv PROVE ConsumerInv
    OBVIOUS
  <2>1. /\ stage \in [Stages -> StageType] /\ unit \in UnitType /\ zone \in ZoneType
        /\ \A s \in Stages : Sound(stage[s])
    BY DEF IInv, Types
  <2>2. RunningStageBuilds
    BY DEF IInv, Builds, RunningStageBuilds
  <2>3. OffboardedLeftNothing
    BY <2>1 DEF Sound, OffboardedLeftNothing, Kept
  <2>4. ASSUME NEW s \in Stages
        PROVE  /\ stage[s].row \in {"none", "provisioning", "offboarded"} \cup CONSUMER_LIVE_STATUS
               /\ stage[s].file.in = FALSE => stage[s].file = NoFile
               /\ stage[s].file.fqdn \in Domains /\ stage[s].file.size \in 0..1
               /\ stage[s].objects \subseteq StageObjects
               /\ {stage[s].branch, stage[s].wanted, stage[s].shown.rel} \subseteq {0} \cup Releases
               /\ {stage[s].entry, stage[s].value.vault, stage[s].value.secret, stage[s].value.pod} \subseteq 0..Foreign
               /\ stage[s].entry = 0 => stage[s].value.vault = 0
    <3>1. stage[s] \in StageType /\ Sound(stage[s])
      BY <2>1
    <3>2. /\ stage[s].row \in Rows /\ stage[s].file \in FileType /\ stage[s].objects \in SUBSET StageObjects
          /\ stage[s].branch \in {0} \cup Releases /\ stage[s].wanted \in {0} \cup Releases
          /\ stage[s].shown \in [rel : {0} \cup Releases, off : BOOLEAN]
          /\ stage[s].entry \in 0..Foreign /\ stage[s].value \in ValueType
      BY <3>1 DEF StageType
    <3>3. stage[s].shown.rel \in {0} \cup Releases /\ stage[s].file.fqdn \in Domains /\ stage[s].file.size \in 0..1
          /\ stage[s].value.vault \in 0..Foreign /\ stage[s].value.secret \in 0..Foreign /\ stage[s].value.pod \in 0..Foreign
      BY <3>2 DEF FileType, ValueType
    <3> QED
      BY <3>1, <3>2, <3>3 DEF Sound, Rows
  <2>5. unit.build.by \in 0..Foreign /\ unit.objects \subseteq UnitObjects
    BY <2>1 DEF UnitType, BuildType
  <2>6. TypeOK
    BY <2>1, <2>4, <2>5 DEF TypeOK, ZoneType
  <2> QED
    BY <2>2, <2>3, <2>6 DEF ConsumerInv
<1> QED
  BY <1>1, Invariance, PTL

\* The places of the steps that take something away, forth and back.
LEMMA Taking ==
    ASSUME NEW r, Place(r)
    PROVE  LET x == Told(r) k == Param(r).kind n == Left(r) u == run[r].undo IN
           /\ x \in Marks \cup Removes \cup TakesShared =>
                  \/ ~u /\ k \in {"offboard", "purge"}
                  \/ u /\ k = "onboard" /\ run[r].armed # <<>>
           /\ x \in Removes => \/ ~u /\ k = "purge"
                               \/ ~u /\ k = "offboard" /\ n = 12
                               \/ u /\ k = "onboard" /\ n = 6
           /\ x \in TakesCi => ~u /\ k = "ci-offboard" /\ n <= 6
           /\ x \in {"remove-dns", "purge-remove-dns"} => ~u /\ k \in {"offboard", "purge"} /\ n <= 11
           /\ x = "write-domain" => ~u /\ k = "domain" /\ n = 2
           /\ x = "retire-previous-domain" => ~u /\ k = "domain" /\ n = 1
<1> DEFINE x == Told(r)
           n == Left(r) - 1
           h == Half(Param(r))
           k == Param(r).kind
<1>1. /\ run[r].undo \in BOOLEAN /\ Left(r) \in Nat /\ h \in Half2
      /\ ~run[r].undo => Forth(k, h, n, x)
      /\ run[r].undo => Back(k, n, x) /\ run[r].armed # <<>>
  BY DEF Place, RunType
<1>2. n \in Int /\ Left(r) = n + 1
  BY <1>1
<1> HIDE DEF x, n, h, k
<1>3. x \in Marks \cup Removes \cup TakesShared =>
          \/ ~run[r].undo /\ k \in {"offboard", "purge"}
          \/ run[r].undo /\ k = "onboard" /\ run[r].armed # <<>>
  <2>1. ASSUME Forth(k, h, n, x), x \in Marks \cup Removes \cup TakesShared PROVE k \in {"offboard", "purge"}
    BY <2>1 DEF Forth, Marks, Removes, TakesShared
  <2>2. ASSUME Back(k, n, x), x \in Marks \cup Removes \cup TakesShared PROVE k = "onboard"
    BY <2>2 DEF Back, Marks, Removes, TakesShared
  <2> QED
    BY <1>1, <2>1, <2>2
<1>4. x \in Removes => \/ ~run[r].undo /\ k = "purge"
                       \/ ~run[r].undo /\ k = "offboard" /\ n = 11
                       \/ run[r].undo /\ k = "onboard" /\ n = 5
  BY <1>1 DEF Forth, Back, Removes
<1>5. x \in TakesCi => ~run[r].undo /\ k = "ci-offboard" /\ n < 6
  BY <1>1 DEF Forth, Back, TakesCi
<1>6. x \in {"remove-dns", "purge-remove-dns"} => ~run[r].undo /\ k \in {"offboard", "purge"} /\ n \in 2..10
  BY <1>1 DEF Forth, Back
<1>7. /\ x = "write-domain" => ~run[r].undo /\ k = "domain" /\ n = 1
      /\ x = "retire-previous-domain" => ~run[r].undo /\ k = "domain" /\ n = 0
  BY <1>1 DEF Forth, Back
<1>8. /\ n = 11 => Left(r) = 12
      /\ n = 5 => Left(r) = 6
      /\ n < 6 => Left(r) <= 6
      /\ n \in 2..10 => Left(r) <= 11
      /\ n = 1 => Left(r) = 2
      /\ n = 0 => Left(r) = 1
  BY <1>2
<1> QED
  BY <1>3, <1>4, <1>5, <1>6, <1>7, <1>8 DEF x, k

\* A run's step that marks a live stage's file or takes it away, or takes what the unit has one of, is the
\* step of its removal.
LEMMA StepTakes ==
    ASSUME IInv, NEW r \in Runs, Stepped(r), NEW s \in Stages
    PROVE  /\ (Live(stage[s]) /\ (\/ unit.build.in /\ ~unit'.build.in
                                 \/ (unit.objects \ unit'.objects) \cap Shared # {}))
                  => Asked(s, {"offboard", "purge"})
           /\ (stage[s].row \in CONSUMER_LIVE_STATUS /\ ~stage[s].file.removing /\ stage'[s].file.removing)
                  => Asked(s, {"offboard", "purge"})
           /\ (stage[s].file.in /\ ~stage'[s].file.in /\ stage[s].app) => Asked(s, {"purge"})
<1> DEFINE x == Told(r)
           g == On(r)
           t == stage[g]
           u == stage'[g]
           k == Param(r).kind
<1>1. /\ Place(r) /\ Holding(r) /\ g = Param(r).s /\ Behind(r) /\ run[r].st = "running"
      /\ FileSet(Param(r), x, t, u) /\ UnitSet(Param(r), x, g, t, u)
      /\ \A q \in Stages : q # g => stage'[q] = stage[q]
  BY After DEF Stepped, Change, Place
<1>2. /\ x \in Marks \cup Removes \cup TakesShared =>
             \/ ~run[r].undo /\ k \in {"offboard", "purge"}
             \/ run[r].undo /\ k = "onboard" /\ run[r].armed # <<>>
      /\ x \in Removes => \/ ~run[r].undo /\ k = "purge"
                          \/ ~run[r].undo /\ k = "offboard" /\ Left(r) = 12
                          \/ run[r].undo /\ k = "onboard" /\ Left(r) = 6
      /\ x \in TakesCi => ~run[r].undo /\ k = "ci-offboard" /\ Left(r) <= 6
  BY <1>1, Taking
<1>3. /\ run[r].undo /\ k = "onboard" /\ run[r].armed # <<>> => ~Live(t) /\ (Left(r) = 6 => ~t.app)
      /\ ~run[r].undo /\ k = "offboard" /\ Left(r) = 12 => ~t.app
      /\ ~run[r].undo /\ k = "ci-offboard" /\ Left(r) <= 6 => readUnitStages = {}
  BY <1>1 DEF Behind, UndoBehind, OffboardBehind, CiBehind, Forward
<1>4. \A ks : ~run[r].undo /\ k \in ks => Asked(g, ks)
  BY <1>1 DEF Asked
<1> HIDE DEF x, g, t, u, k
<1>5. x \in Marks \cup Removes \cup TakesShared => Asked(g, {"offboard", "purge"}) \/ ~Live(t)
  BY <1>2, <1>3, <1>4
<1>6. ASSUME Live(stage[s]), (unit.build.in /\ ~unit'.build.in) \/ (unit.objects \ unit'.objects) \cap Shared # {}
      PROVE  Asked(s, {"offboard", "purge"})
  <2>1. s \in readUnitStages /\ unit' # unit
    BY <1>6 DEF Live, readUnitStages
  <2>2. x \in Removes \cup TakesShared /\ readUnitStages \subseteq {g}
    <3>1. x \in Unitary
      BY <1>1, <2>1 DEF UnitSet
    <3>3. CASE x \in Registers
      BY <1>1, <1>6, <3>3 DEF UnitSet, Registers
    <3>4. CASE x \in BuildFile
      BY <1>1, <1>6, <2>1, <3>4 DEF UnitSet
    <3>5. CASE x \in SetsUpShared
      <4>1. x \in Unitary \ (Registers \cup BuildFile \cup Removes)
        BY <3>1, <3>5 DEF SetsUpShared, Registers, BuildFile, Removes
      <4> QED
        BY <1>1, <1>6, <3>5, <4>1 DEF UnitSet
    <3>6. CASE x \in TakesCi
      BY <1>2, <1>3, <2>1, <3>6
    <3>7. CASE x = "remove-build-webhook"
      BY <1>1, <2>1, <3>7 DEF UnitSet
    <3>8. CASE x \in Removes \cup TakesShared
      BY <1>1, <2>1, <3>8 DEF UnitSet
    <3> QED
      BY <3>1, <3>3, <3>4, <3>5, <3>6, <3>7, <3>8 DEF Unitary
  <2>3. s = g
    BY <2>1, <2>2
  <2> QED
    BY <1>5, <1>6, <2>2, <2>3 DEF t
<1>7. ASSUME stage[s].row \in CONSUMER_LIVE_STATUS, ~stage[s].file.removing, stage'[s].file.removing
      PROVE  Asked(s, {"offboard", "purge"})
  <2>1. s = g /\ t = stage[s] /\ u = stage'[s]
    BY <1>1, <1>7 DEF t, u
  <2>2. x \in Marks /\ t.file.in
    <3>0. NoFile.removing = FALSE
      BY DEF NoFile
    <3>1. u.file # t.file /\ u.file.removing /\ ~t.file.removing
      BY <1>7, <2>1
    <3>2. x \in Filers
      BY <1>1, <3>1 DEF FileSet
    <3>3. x \notin Removes /\ x \notin {"write-registration", "switch-registration", "write-domain", "restore-domain", "write-size"}
      BY <1>1, <3>0, <3>1 DEF FileSet
    <3>4. x \in Marks
      BY <3>2, <3>3 DEF Filers
    <3> QED
      BY <1>1, <3>1, <3>4 DEF FileSet
  <2> QED
    BY <1>5, <1>7, <2>1, <2>2 DEF Live
<1>8. ASSUME stage[s].file.in, ~stage'[s].file.in, stage[s].app PROVE Asked(s, {"purge"})
  <2>1. s = g /\ t = stage[s] /\ u = stage'[s]
    BY <1>1, <1>8 DEF t, u
  <2>2. x \in Removes
    <3>1. t.file.in /\ ~u.file.in /\ u.file # t.file
      BY <1>8, <2>1
    <3>2. x \in Filers
      BY <1>1, <3>1 DEF FileSet
    <3>3. x \notin Marks /\ x \notin {"write-registration", "switch-registration", "write-domain", "restore-domain", "write-size"}
      BY <1>1, <3>1 DEF FileSet
    <3> QED
      BY <3>2, <3>3 DEF Filers
  <2> QED
    BY <1>2, <1>3, <1>4, <1>8, <2>1, <2>2
<1> QED
  BY <1>6, <1>7, <1>8

\* What the unit has one of does not go from under a stage that stands: whatever runs of the unit's stages
\* are removed, aborted or repeated, in any order, a live stage loses its build file, its webhook, its
\* release kit or its repository token only while its own removal is at work.
THEOREM LiveStageKeepsItsUnit == Spec => LiveStageCanRelease
<1> DEFINE A == \A s \in Stages :
                  (Live(stage[s]) /\ (\/ unit.build.in /\ ~unit'.build.in
                                     \/ (unit.objects \ unit'.objects) \cap {"hook", "kit", "pat"} # {}))
                      => Asked(s, {"offboard", "purge"})
<1>1. IInv /\ [Next]_vars => [A]_vars
  <2> SUFFICES ASSUME IInv, [Next]_vars PROVE A
    OBVIOUS
  <2>1. ASSUME NEW r \in Runs, Stepped(r) PROVE A
    BY <2>1, StepTakes DEF Shared
  <2>2. ASSUME Elsewhere PROVE A
    BY <2>2 DEF Elsewhere, Shared
  <2> QED
    BY <2>1, <2>2, NextIs
<1> QED
  BY <1>1, Invariance, PTL DEF Spec, LiveStageCanRelease

\* Only a run with no step left ends.
LEMMA Ends ==
    ASSUME IInv, [Next]_vars, NEW r \in Runs, run[r].st = "running", run'[r].st = "idle"
    PROVE  run[r].todo = <<>>
<1>1. run \in [Runs -> RunType \cup {Idle}] /\ run[r] \in RunType
  BY ActiveType DEF IInv, Types, Active
<1>2. run' # run
  OBVIOUS
<1>3. ASSUME NEW q \in Runs, Onboarding(q) \/ Removal(q) \/ Purging(q) \/ Undone(q) \/ Changes(q) PROVE FALSE
  <2>1. Stepped(q)
    BY <1>3, EveryStep
  <2>2. run'[q].st \in {"running", "failed"} /\ (r # q => run'[r] = run[r])
    BY <2>1 DEF Stepped, Moved
  <2> QED
    BY <2>2
<1>4. ASSUME NEW q \in Runs, Plan(q) PROVE FALSE
  <2>1. PICK p, c, T : Plans(q, p, c, T)
    BY <1>4 DEF Plan, PlanOnboard, PlanBuildOnly, planCiOnly, PlanOffboard, PlanPurge, PlanOffboardCiOnly, PlanAdopt,
                PlanSuspend, PlanDomain, PlanRelease, PlanSecrets, PlanSize, PlanRestart, Asks
  <2>2. run[q].st = "idle" /\ \E w : run' = [run EXCEPT ![q] = w]
    BY <2>1 DEF Plans
  <2> QED
    BY <1>1, <2>2
<1>5. ASSUME NEW q \in Runs, Abort(q) PROVE FALSE
  <2>1. run[q].st = "failed" /\ run' = [run EXCEPT ![q].st = "running", ![q].todo = run[q].armed, ![q].undo = TRUE]
    BY <1>5 DEF Abort, Aborts
  <2> QED
    BY <1>1, <2>1
<1>6. ASSUME NEW q \in Runs, Managed(q) PROVE run[r].todo = <<>>
  <2>1. CASE Start(q)
    BY <1>1, <2>1 DEF Start
  <2>2. CASE Throws(q)
    <3>1. run' = [run EXCEPT ![q] = [run[q] EXCEPT !.st = "failed", !.mem = {}]] /\ run[q].st = "running"
      BY <2>2 DEF Throws, Fails
    <3>2. CASE q = r
      <4>1. [run[r] EXCEPT !.st = "failed", !.mem = {}].st = "failed"
        BY <1>1 DEF RunType
      <4> QED
        BY <1>1, <3>1, <3>2, <4>1
    <3> QED
      BY <1>1, <3>1, <3>2
  <2>3. CASE Retry(q)
    BY <1>1, <2>3 DEF Retry
  <2>4. CASE Finish(q)
    BY <1>1, <2>4 DEF Finish
  <2>5. CASE Delete(q)
    BY <1>1, <2>5 DEF Delete
  <2> QED
    BY <1>6, <2>1, <2>2, <2>3, <2>4, <2>5 DEF Managed
<1>7. ASSUME \/ \E s \in Stages : Argo(s) \/ Deliver(s) \/ Render(s)
             \/ BuildArgo
             \/ \E d \in scope.zones : OtherHands(d)
      PROVE  FALSE
  BY <1>2, <1>7 DEF Argo, Deliver, Render, BuildArgo, OtherHands
<1>8. ASSUME UNCHANGED vars PROVE FALSE
  BY <1>2, <1>8 DEF vars
<1> QED
  BY <1>3, <1>4, <1>5, <1>6, <1>7, <1>8 DEF Next

\* A step keeps the records under the domains the files name, but for the abort that goes back to a domain
\* which is not its stage's any more.
LEMMA StepDomains ==
    ASSUME IInv, NEW r \in Runs, Stepped(r), \A s \in Stages : Recorded(s),
           ~(At(r, "restore-domain") /\ Param(r).from \in scope.zones /\ zone[Param(r).from] # On(r)), NEW s \in Stages
    PROVE  Recorded(s)'
<1> DEFINE x == Told(r)
           g == On(r)
           t == stage[g]
           u == stage'[g]
           p == Param(r)
           f == stage[s].file.fqdn
<1>1. /\ Place(r) /\ Holding(r) /\ g = p.s /\ g \in Stages /\ Behind(r) /\ run[r].st = "running" /\ run[r].todo # <<>>
      /\ FileSet(p, x, t, u) /\ ZoneSet(p, x, g, t) /\ Sound(t) /\ Planned(r)
      /\ \A q \in Stages : q # g => stage'[q] = stage[q]
  BY After DEF Stepped, Change, Place
<1>2. /\ x \in {"remove-dns", "purge-remove-dns"} => ~run[r].undo /\ p.kind \in {"offboard", "purge"} /\ Left(r) <= 11
      /\ x = "write-domain" => ~run[r].undo /\ p.kind = "domain" /\ Left(r) = 2
      /\ x = "retire-previous-domain" => ~run[r].undo /\ p.kind = "domain" /\ Left(r) = 1
  BY <1>1, Taking
<1>3. /\ x \in {"remove-dns", "purge-remove-dns"} => ~t.file.in
      /\ x = "write-domain" => (p.to \in scope.zones => zone[p.to] = g)
      /\ x = "retire-previous-domain" => t.file.fqdn = p.to
  <2>1. RemovalBehind(r) /\ DomainBehind(r)
    BY <1>1 DEF Behind
  <2>2. ASSUME x \in {"remove-dns", "purge-remove-dns"} PROVE ~t.file.in
    BY <1>1, <1>2, <2>1, <2>2 DEF RemovalBehind, Forward
  <2>3. ASSUME x = "write-domain" PROVE p.to \in scope.zones => zone[p.to] = g
    BY <1>1, <1>2, <2>1, <2>3 DEF DomainBehind, Forward
  <2>4. ASSUME x = "retire-previous-domain" PROVE t.file.fqdn = p.to
    BY <1>1, <1>2, <2>1, <2>4 DEF DomainBehind, Forward
  <2> QED
    BY <2>2, <2>3, <2>4
<1>4. x = "restore-domain" => (p.from \in scope.zones => zone[p.from] = g)
  BY <1>1 DEF At, Told
<1>5. /\ f \in Domains /\ (f \in scope.zones => zone[f] = s) /\ "free" \notin Stages
      /\ NoFile.fqdn = 0 /\ 0 \notin scope.zones /\ scope' = scope
  <2>1. stage[s] \in StageType
    BY DEF IInv, Types
  <2>2. f \in Domains
    BY <2>1 DEF StageType, FileType
  <2> QED
    BY <2>2, ConsumersAssumption, Managed0 DEF Recorded, NoFile, Stepped
<1> HIDE DEF x, g, p, t, u, f
<1>6. CASE s # g
  <2>1. stage'[s] = stage[s]
    BY <1>1, <1>6
  <2>2. f \in scope.zones => zone'[f] = zone[f]
    BY <1>1, <1>5, <1>6 DEF ZoneSet, Zoned
  <2>3. f \in scope.zones => zone'[f] = s
    BY <1>5, <2>2
  <2> QED
    BY <1>5, <2>1, <2>3 DEF Recorded, f
<1>7. CASE s = g
  <2>1. stage[s] = t /\ stage'[s] = u /\ f = t.file.fqdn
    BY <1>7 DEF t, u, f
  <2>2. CASE x \notin Filers
    <3>1. u.file = t.file
      BY <1>1, <2>2 DEF FileSet
    <3>2. x \in {"remove-dns", "purge-remove-dns"} => f = 0
      BY <1>1, <1>3, <1>5, <2>1 DEF Sound
    <3>3. f \in scope.zones => zone'[f] = zone[f]
      BY <1>1, <1>3, <1>5, <1>7, <2>1, <3>2 DEF ZoneSet, Zoned
    <3> QED
      BY <1>5, <2>1, <3>1, <3>3 DEF Recorded
  <2>3. CASE x \in Filers
    <3>1. zone' = zone
      <4>1. x \notin Zoned
        BY <2>3 DEF Filers, Zoned, Marks, Removes
      <4> QED
        BY <1>1, <4>1 DEF ZoneSet
    <3>2. CASE x \in {"write-domain", "restore-domain"}
      <4>1. u.file.fqdn \in scope.zones => zone[u.file.fqdn] = g
        BY <1>1, <1>3, <1>4, <3>2 DEF FileSet
      <4> QED
        BY <1>5, <1>7, <2>1, <3>1, <4>1 DEF Recorded
    <3>3. CASE x \notin {"write-domain", "restore-domain"}
      <4>1. u.file.fqdn = t.file.fqdn \/ u.file.fqdn = 0
        <5>1. x \in Marks \/ x \in Removes \/ x \in {"write-registration", "switch-registration", "write-size"}
          BY <2>3, <3>3 DEF Filers
        <5> QED
          BY <1>1, <1>5, <5>1 DEF FileSet
      <4> QED
        BY <1>5, <2>1, <3>1, <4>1 DEF Recorded
    <3> QED
      BY <3>2, <3>3
  <2> QED
    BY <2>2, <2>3
<1> QED
  BY <1>6, <1>7

\* Of a live stage only the removal that was asked for takes the deployment down, and the file goes only
\* once ArgoCD has pruned the Application, save by a purge; a switch or a change of the secrets that ends
\* stands; and in the zones the DNS provider manages, which may be any, all or none, no step of any run,
\* however torn, repeated or aborted, and no record somebody else set takes the record away from under the
\* domain a file names, but for the abort that restores a domain another stage has taken since.
THEOREM RemovalsTakeTheirOwn == Spec => RemovalsAndChanges
<1> DEFINE Down == \A s \in Stages :
                      /\ (stage[s].row \in CONSUMER_LIVE_STATUS /\ ~stage[s].file.removing /\ stage'[s].file.removing)
                             => Asked(s, {"offboard", "purge"})
                      /\ (stage[s].file.in /\ ~stage'[s].file.in /\ stage[s].app) => Asked(s, {"purge"})
           Ended == \A r \in Runs : (run[r].st = "running" /\ ~run[r].undo /\ run'[r].st = "idle") =>
                      LET st == stage[Param(r).s] IN
                      /\ Param(r).kind \in {"suspend", "resume"} => st.file.suspended = Param(r).to
                      /\ Param(r).kind = "secrets" => st.value.pod \in {0, st.value.vault} /\ st.value.secret \in {0, st.value.vault}
           Kin == (\A s \in Stages : Recorded(s)) =>
                      \/ (\A s \in Stages : Recorded(s))'
                      \/ \E r \in Runs : At(r, "restore-domain") /\ Param(r).from \in scope.zones /\ zone[Param(r).from] # On(r)
<1>1. IInv /\ [Next]_vars => [Down]_vars
  <2> SUFFICES ASSUME IInv, [Next]_vars PROVE Down
    OBVIOUS
  <2>1. ASSUME NEW r \in Runs, Stepped(r) PROVE Down
    BY <2>1, StepTakes
  <2>2. ASSUME Elsewhere PROVE Down
    BY <2>2 DEF Elsewhere
  <2> QED
    BY <2>1, <2>2, NextIs
<1>2. IInv /\ [Next]_vars => [Ended]_vars
  <2> SUFFICES ASSUME IInv, [Next]_vars, NEW r \in Runs, run[r].st = "running", ~run[r].undo, run'[r].st = "idle"
               PROVE  LET st == stage[Param(r).s] IN
                      /\ Param(r).kind \in {"suspend", "resume"} => st.file.suspended = Param(r).to
                      /\ Param(r).kind = "secrets" => st.value.pod \in {0, st.value.vault} /\ st.value.secret \in {0, st.value.vault}
    OBVIOUS
  <2>1. Left(r) = 0
    BY Ends DEF Left
  <2>2. SwitchBehind(r) /\ SecretsBehind(r)
    BY DEF IInv, Active, Behind
  <2>3. Holding(r)
    BY DEF Holding
  <2> QED
    BY <2>1, <2>2, <2>3 DEF SwitchBehind, SecretsBehind, Forward
<1>3. IInv /\ [Next]_vars => [Kin]_vars
  <2> SUFFICES ASSUME IInv, [Next]_vars, \A s \in Stages : Recorded(s),
                      ~\E r \in Runs : At(r, "restore-domain") /\ Param(r).from \in scope.zones /\ zone[Param(r).from] # On(r)
               PROVE  \A s \in Stages : Recorded(s)'
    OBVIOUS
  <2>1. ASSUME NEW r \in Runs, Stepped(r), NEW s \in Stages PROVE Recorded(s)'
    BY <2>1, StepDomains
  <2>2. ASSUME Elsewhere, NEW s \in Stages PROVE Recorded(s)'
    <3>1. stage'[s].file.fqdn = stage[s].file.fqdn /\ scope' = scope
      BY <2>2 DEF Elsewhere
    <3>2. ASSUME stage[s].file.fqdn \in scope.zones PROVE zone'[stage[s].file.fqdn] = s
      <4>1. stage[s].file.fqdn \in Domains /\ zone[stage[s].file.fqdn] = s
        BY <3>2, Managed0 DEF Recorded
      <4> QED
        BY <2>2, <4>1 DEF Elsewhere, Unbooked
    <3> QED
      BY <3>1, <3>2 DEF Recorded
  <2> QED
    BY <2>1, <2>2, NextIs
<1>4. Spec => TakenDownOnlyByItsRemoval
  BY <1>1, Invariance, PTL DEF Spec, TakenDownOnlyByItsRemoval
<1>5. Spec => EndedChangeStands
  BY <1>2, Invariance, PTL DEF Spec, EndedChangeStands
<1>6. Spec => DomainKeepsItsRecord
  BY <1>3, Invariance, PTL DEF Spec, DomainKeepsItsRecord
<1> QED
  BY <1>4, <1>5, <1>6 DEF RemovalsAndChanges

=============================================================================
