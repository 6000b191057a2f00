# A TLA+ model of the Manager

The Manager (`src/server`) is the control plane of a hosting installation. Everything it does to a
machine, a cluster, a tenant or a consumer is a *run*: planned, approved by an operator, queued behind
the locks of other runs, executed step by step, and cancelled, retried, skipped, aborted or deleted by
operators while it goes. It is one Node process over one SQLite file, it is restarted often (it
deploys itself), and its runs outlive it. What the steps of a run write lies elsewhere: a git branch of
registrations ("the books"), Kubernetes, Vault, DNS, a mail service, a Storage Box, the machines. No
transaction spans two of these, so nearly everything that can go wrong is a step that died between two
writes, a plan that was right when it was made, or a way back that undoes too much or too little.

The project models the executor, the log operators watch, the run definitions over the world they
write, the validation that admits a unit, the books branch and the registry cleanup.

## 1. Inventory

| Component | Source (below `src/`) | State it keeps | Operations | What makes it correct |
|---|---|---|---|---|
| Locks, queue | `server/executor/locks.ts`, `queue*.ts` | `run_locks`, the line of queued runs | acquire, release, reconcile, walk, start | exclusion, global claims both ways, line order, no lost wake-up |
| Executor, recovery | `server/executor` | `runs`, `steps`, checkpoints; executions in memory | plan, approve, execute, cancel, discard, delete, retry, skip, abort, boot, drain | one execution per run, every started run ends, preconditions answered, cleanups complete and in reverse |
| Run log and its page | `context.ts`, `bus.ts`, `read.ts`, `domains/runs/api.ts`, `web/src/runLogFollow.ts` | `events`, counters, bus queues, cursors | emit, replay, follow, end, reconnect | no kept line skipped, the end comes last |
| Tenant lifecycle | `domains/units/create-tenant*`, `tenant-*.run.ts` | registration, row, isolation, Vault, bucket keys, DNS | create, replace, apps, suspend, offboard, purge | what stands is named somewhere, one tenant per subdomain, a purge leaves nothing |
| Changes of a tenant | `tenant-own-domain.run.ts`, `-sender-domain`, `-demo`, `-refresh-members`, `-line-move`, … | registration, row, DNS, mail bindings, Vault, what Argo renders | one run kind each, and its way back | an ended run stands everywhere, the sender's domain stays usable |
| Consumer lifecycle | `onboard*`, `offboard*`, `set-*`, `suspend-resume*`, `consumer-domain*`, … | stage files, build file, rows, Vault, hooks, keys | onboard (four forms), adopt, release, secrets, domain, size, suspend, remove | what stages share goes with the last of them |
| Relocation | `plugins/unit/server/relocation*.ts`, `backup-retention.ts`, `backup.run.ts`, `migrate.run.ts`, … | generations, marks, data per store and cluster | backup, nightly, migrate, restore, retention | a complete copy at every moment |
| Machines | `domains/runs/defs`: `*slave*`, `redeploy*`, `tailnet*`, `*key*`, `password-login*` | server and cluster rows, the machine, the master, maps, DNS | deploy, redeploy, rename, remove, doors, tailnet | machine, rows, master and books agree once settled; somebody can always log in |
| Installation domain, mail records | `defs/installation-domain.ts`, `defs/mail-*`, `domains/units/installation-domain*.ts`, `domains/mail` | zone, the book of DNS writes, issuers | move, rollback, publish, unpublish, DMARC mailbox, remove | other people's records stay, what is published is booked |
| Validation and gates | `validate*.ts`, `gates/`, `gate-runner/src`, `adapters/gate-runner` | PipelineRuns, Secrets, ConfigMaps; the plan | submit, poll, cancel, reap, sweep, admit | nothing is admitted unjudged, credentials go |
| Books branch | `adapters/git`, `registrations.ts`, `tenant-registrations.ts`, `boot/carry-deploy*` | one checkout, origin | turns: reset, write, commit, push, rebase, self-heal | an answer means published, a push carries only its own |
| Registry cleanup | `domains/registry-cleanup` | none of its own | search pins, plan, delete | a pinned image is kept |
| Timed jobs | `server/boot/*-schedule.ts` | timers | the jobs above; token refresh, tenant check | – |
| Access, inventory APIs, adapters, store, HTTP, web, tooling | the rest | – | I/O, rendering, configuration | – |

How they meet: routes and timed jobs call the executor; the executor shares `run_locks` with the
queue, calls the definition's steps (awaits), its `onTerminal` hook (synchronous) and its
`assertApprovable`/`assertAbortable` (awaits); each context and each meta line writes `events` and
publishes on the bus, which the open streams drain. A definition's steps write the books through the
git adapter's one checkout, where they queue behind each other and behind the carry of the trunk; Argo
CD follows the books when it gets to it. A consumer's onboarding goes through the validation, and its
plan carries what the validation saw.

What is hard: state read before an await and used after it; two transactions where one is meant; a
crash between any two statements; plans frozen before other runs change what they found; a step's two
writes with a failure between; a call that takes effect and loses its answer; cleanups that run
against a world that has moved; programs on a machine that outlive the step that started them; a
search whose result is stale when it is used. `PROJECT.json` lists each hazard at its line with the
properties that would notice it.

## 2. Modules

| Module | Models | State and actions |
|---|---|---|
| `RunLocks` | `locks.ts`, `queue.ts` as pure operators | `lockConflicts`, `acquireLocks`, `Startable` (the queue's walk) …; `Collide`/`Disjoint` are the reference they are measured against |
| `Leases` | the promise, abstract | who holds which claims, who works; a claim never has two owners, and who works has his claims |
| `RunExecutor` | the executor with recovery, boot and drain | below |
| `EventLog` | one run's log, its streams and pages | table, counter, bus queues, wire, cursors |
| `RunChain` | a run's life as its steps see it | frozen plan, locks, step in order, throw, retry, abort into registered cleanups, delete |
| `Tenants`, `TenantChanges`, `Consumers`, `Relocation`, `Slaves`, `DnsRecords` | the run definitions, each EXTENDS `RunChain` | the world the steps write; one action per step and per cleanup, named as in the code |
| `Gates` | what the gates compute | pure operators over an abstract checkout |
| `Validation` | submit to admission, and the first sync | EXTENDS `Gates`; units, gate jobs, registrations |
| `Books` | the one checkout of the books branch | turns of several writers, origin, outside commits |
| `RegistryCleanup` | the reaper | EXTENDS `Books`, so that pins move while it searches |
| `MC…` | – | the values TLC gives to the constants |
| `RunExecutorProofs`, `LeasesProofs`, `RecoveryProofs` | – | theorems on the executor: types, exclusion, the line; no lost wake-up; one execution, under its leases; the precondition and the cleanups |
| `EventLogProofs` | – | theorems on the log and its streams |
| `BooksProofs` | – | theorems on the turns of the books branch and on the reaper |
| `ValidationProofs` | – | theorems on what is judged, what is admitted and what is left of a gate run |
| `TenantsProofs` | – | theorems on the runs of a tenant: the places agree, a purge is complete, only its removal undeploys it |
| `ConsumersProofs` | – | theorems on the runs of a consumer: a running stage builds, what the stages share stays, removals and changes keep to their own |

**RunExecutor.** The database is `status`, `deleted`, `started`, `approvedAt` (the `runs` row), `step`,
`ordinal`, `armed` (the `steps` rows and their registered cleanups) and `held` (`run_locks`). Memory is
`active`, `planner`, `secrets`, `stopping`, `execs` (executions suspended in a step) and `waiting`
(requests suspended in an await). The world is `residue` (mutations made and not undone), `told` (what
`onTerminal` heard last) and `changed` (what a new release did to a definition).

Node runs a handler alone up to its next await. The model has that exactly: `todo` holds what the
running handler still has to do, one entry per database transaction or hook call, and while it is not
empty no request is served; but `Crash` may cut it anywhere. An entry also does the in-memory work that
follows it in the code, which only a crash could tell apart and a crash erases. So `finishRun` is
`Ends` (outcome) → `TellHook` → `ReleaseLocks` → `DispatchQueue` → `ExecuteRun` of whatever started →
its `Walk…` up to its first step. `acquireLocks` and the transaction after it are two transactions in
retry, skip and abort: done as one step, with `CrashAfterAcquire`, `RecoveryFaults` and `AbortCollides`
as the ways the second can be missing. A step's effects are abstract here: it may register cleanups
(which then stand in `residue`), resolve, reject, or reject with an AbortError.

**RunChain and its users.** A domain module does not repeat the executor. `RunChain` has what a step
can notice of it: parameters are frozen at the plan and stale at the run; the steps come in order; a
throw leaves the run failed *with its locks held*; a retry starts at the step that failed, with
everything the steps kept in closures gone (`mem`) and what they checkpointed there; an abort walks the
registered cleanups backwards and may itself fail and be retried. A step that makes several writes is
one action with, beside its whole effect, the partial effects the code can leave when it throws
between them; where the effect of a call and its answer can part, both outcomes are there. A resource
is an abstract name: two runs meet only if their `locks` in the code are disjoint.

- `Tenants`: per guid what stands of it in each place; all tenants want one subdomain, the case in
  which they get in each other's way. Argo CD prunes member by member and a removal waits only for the
  members its row named; a namespace asked to go stays `terminating` until the cluster is done with it;
  a purge without a Vault seeder or an object store passes those steps over (`unwired`).
- `TenantChanges`: a standing tenant's registration, row, rendered state, records, mail bindings and
  Vault entry. `Stands` says what each kind of run promised. `world.zones` are the zones of own domains
  the DNS provider manages, any set of them: in another zone the run writes no record, and the operator
  sets it (`SetByOperator`).
- `Consumers`: one unit over two stages, with what belongs to a stage and what to the unit. As there,
  `scope.zones` are the managed zones, and `OtherHands` is whoever else writes a record.
- `Relocation`: a unit's data as a version per store and cluster, `owed` the last version its users
  were told is kept, and the generations on the Storage Box. Any run may be aborted; `astray` remembers
  the two givings-up after which an incomplete copy can be opened.
- `Slaves`: rows, machine, master, maps and zone. Programs run detached, on the machine and on the
  master; a step follows one by the id in its checkpoint, and one whose step gave it up, or whose run
  was aborted or deleted, goes on and ends whenever it ends. A name in a zone that is not managed gets
  no records.
- `DnsRecords`: names as functions to sets of values, the book of what this installation wrote, other
  hands that write the same names, and the mail issuers. A rollback takes any move that stopped.
- `Gates`/`Validation`: a repository is a record of what the gates tell apart; a report is what ran and
  what failed. A head may move between the validation, the plan and the check of the approved run. A
  deleted gate run leaves its Secret to the cluster's collection (`Collect`).
- `Books`/`RegistryCleanup`: origin is the sequence of trees pushed; a turn resets the checkout,
  stages, commits, pushes, rebases or throws, and any of these may find a wedged worktree. The carriers
  of a pin are the pin file, the registered bundle, the build held for a tenant's members, the product's
  default on the books and on the trunk, the units and the platform.

**EventLog.** A line is its number in writing order and its sequence number (the code's plus one, so 0
means "none"). A stream subscribes and reads the rows past the cursor in one step (the code does both
before its first await), sends one line per step, and every send yields. A hop may drop a connection
with what is under way on it; the page reconnects with its cursor. Boot and crash take every context
and stream away.

## 3. What the runs check

| Run (distinct states) | Instance | Shows |
|---|---|---|
| `single` (311 k) | one run: a streamed plan, typed secrets, a precondition, two steps that each register a cleanup; a release that changes the definition; two process ends, two refused statements | types; `OneExecution`, `PreconditionAnswered`, `CleanupLeavesNothing`, `CleanupOrder`; the next boot takes up what refusals left (`NextBootTakesIt`), a started run ends |
| `races` (2.8 M) | two runs that collide through a global claim; approve and abort await; a streaming planner; one process end | exclusion, no lost wake-up, and `ImplementsLeases`: the executor refines `Leases` up to a second execution of one run |
| `live` (135 k) | two runs on one claim, retries by name, one process end | a queued run leaves the line |
| `event_log` (139 k) | one page, five lines, one ephemeral, one late, one drop, one process end | `LogInv`, the end comes after every line, every kept line arrives |
| `tenants` (760 k) | two guids, one app, six kinds of run, two at a time, three over a behaviour, two failures, purges with and without seeder and object store | `TenantInv`; a purged tenant leaves no identity; nothing but its own removal undeploys a tenant |
| `tenant_changes` (448 k) | two runs of one tenant; the groups of kinds that can meet, two failures, every choice of managed zones | `ChangesInv`; the sender's domain stays usable; an ended run stands |
| `consumers` (678 k) | one unit, two stages, two releases, two domains; eight beginnings, one with a zone that is not managed, two plans each, three or four where domains move | `ConsumerInv`; a live stage can release; removals and changes keep to their own |
| `relocation` (175 k) | consumers and tenants that move, are restored (over themselves, from nothing), are backed up, with aborts everywhere | `RelocationInv`; a frozen copy is whole; a move keeps a copy; what is deleted nobody needs |
| `slaves` (703 k) | hub and two machines, ten beginnings, one with a zone that is not managed; machines that stop or flap, programs that end late | `SlavesInv`; an aborted deployment leaves nothing; rows, machine, master and books agree |
| `validation` (362 k) | 22 repositories with one defect each, calls that fail, jobs that die, two restarts, moving heads, two units, 432 sync orders | `ValidationInv`; what is admitted was judged; a validation ends |
| `dns` (788 k) | six beginnings of moves and mail record runs, one write of another hand, two failures | `DnsInv`; what a run wrote stands and the rest too; the way back restores |
| `cleanup` (481 k) | four tags (two share a manifest), four writers, faults, outside commits, two reaps | `BooksInv`; a push publishes its own; the reaper spares what it saw pinned; turns settle |

Some properties bundle several, so that one name stands for one question: `TenantInv` is
`WhatStandsIsNamed`, `OneTenantPerSubdomain`, `SettledIsUndeployed`, `DeployedTenantHasItsKey`;
`ChangesInv` is `OwnDomainStands`, `PasswordOnlyForDemos`; `ConsumerInv` is `RunningStageBuilds`,
`OffboardedLeftNothing`; `RemovalsAndChanges` is `TakenDownOnlyByItsRemoval`, `EndedChangeStands`,
`DomainKeepsItsRecord`; `RelocationInv` is `OpenIsComplete`; `DeletesWhatNobodyNeeds` is
`ClearedOnceForgotten`, `RetentionKeepsTheNewest`, `AbortedRestoreLeavesNothing`; `SlavesInv` is
`SomebodyIsAnswered`; `MachineRunsAgree` is `FinishedIsDialled`, `RenameEndsWhole`,
`PlaneGoesAfterThePart`, `ChangesUnderItsLock`; `ValidationInv` is `NothingPassesUnjudged`,
`CredentialsGo`; `AdmittedIsJudged` is `RegisteredIsJudged`, `GatedBuildIsNew`,
`PodsFindTheirSecrets`; `DnsInv` is `ServedNameResolves`, `TenantCanSend`; `WrittenStands` is
`DomainRunEndsWhole`, `PublishedIsBooked`, `OthersRecordsStay`; `LogInv` is `SeqsGrow`,
`NoLineSkipped`; `BooksInv` is `AnsweredIsPublished`; each `…Inv` with its module's `TypeOK`.

**Refinement.** `Leases` is what operators are told of locks, without rows, queue, boot or awaits. In
`RunExecutor`, `Lease == INSTANCE Leases WITH working <- {e.run : e \in execs}` maps the executions
suspended in a step to the workers; `ImplementsLeases == Lease!Spec` is a property of `races`: every
step of the executor is a step of `Leases` or leaves it alone, crashes and boots included. It is false
once a run is executed twice at a time, because the execution that ends first returns the lease of both.
`races` therefore has `MaxExecs = 1`: a behaviour ends where a second execution would begin, among others
where an abort goes on whose run was retried while it awaited `assertAbortable` (step-recovery.ts:155).
What follows there is a finding and not checked. `ExecutedOnce` (section 4) says which three steps lead
to a second execution; the run goes past them, up to the execution itself.

**Bounds.** Two runs suffice for contention on a claim and for a stale plan; the third plan of
`tenants` and `dns` is for a removal between two others, or a rollback after a move; the four of a
consumer's domains for a stale move whose abort meets another stage. Two failures put
one in a step and one in its cleanup. In `RunExecutor`, three plan rows and two cleanups give every
order of cleanups and a failure in the middle; two process ends let a boot that gave up be followed by
another; two suspended requests of one kind make every race of a request with itself. Five log lines
allow an ephemeral line, a drop and a restart with kept lines before and after. `Starts` and
`KindGroups` choose which kinds of run share a behaviour: those that write the same things. The names
of all bounds begin with `Max`, apart from `most` of a world of `Validation` and `Budgets` of the
books. Runs are checked without a deadlock check: an installation whose runs are all settled rests.

**Fairness.** In the executor, `Handler` and `Boot` are weakly fair: Node finishes what it began, and
the supervisor restarts the process. A step's end and the drain's exit are strongly fair, because
requests of operators come in between: step adapters carry timeouts, and the drain has a deadline.
Nothing is assumed of operators; a queued run behind a failed run that keeps its locks may wait for
ever, and `QueuedRunLeaves` says so. In `EventLog` streams are served, bytes arrive and a page
reconnects. In `Validation` the polling loop and the sweep are weakly fair (they have deadlines), the
cluster's jobs are not. In `Books` each writer's turn is: every git call has a timeout. The other
domain specifications are safety only, since whether a run goes on is the executor's question.

## 4. What is proved

Each theorem holds for every value of the constants: any number of runs, claims, plan rows, pages, lines,
tags, retries, faults and crashes. The assumptions are the `ASSUME`s of the modules (`RunsAssumption`,
`ClaimsAssumption`, `StepsAssumption`, `KindsAssumption`, `BoundsAssumption` of the executor,
`BoundsAssumption` of the log, `BooksAssumption` and `CleanupAssumption` of the books, `WorldsAreBounded`
and `WorldsAreTyped` of the validation, `TenantsAssumption` of the tenants, `ConsumersAssumption` of the
consumers): typing, that run ids and rows are positive naturals, that cleanups are finitely many, that a
mutating plan has its precondition, that there is a tag, that a render is a finite list of documents whose
waves are integers, that the identity provider is no app of the catalog and that guids are finitely many
(a create lists the tenants it replaces one after another), that there is a release, and that a beginning
names stages and releases there are. Every inductive invariant was an invariant of a TLC run before it was
proved.

**RunExecutorProofs**

- `TypeCorrect`: `Spec => []TypeOK`. One lemma per group of actions, over lemmas about the work list
  (`JobTypes`, `PushTypes`, `RestTypes`).
- `Exclusion`: `Spec => []LocksExclusive`. Two lemmas carry it. `NoConflictMeansDisjoint`: what
  `lockConflicts` answers empty is disjoint from what is taken in the sense of `Collide`, global claims
  in both directions; so a retry, skip or abort that acquires stays exclusive. `StartableIsFree` and
  `LineIsTotal`: of two runs one dispatch starts, one is ahead, and the later was measured against the
  earlier's claims as well as against what is held. The inductive invariant is
  `TypeOK /\ LocksExclusive`; types are needed since the line is total only over natural ids. It
  includes streaming planners, named retries, late discards and all awaits, so no finding below ever
  costs exclusion.
- `LineOrder`: `Spec => NoOvertaking`, from the same invariant: only `DispatchQueue` moves a run from
  queued to approved, and it measured the run against everything reserved ahead of it.

- `NoLostWakeUp`: `Spec => []NoStartableRunLeftQueued`. The property speaks of the moments at which no
  handler is at work, so it is not inductive. The invariant `QueueInv` says of every state: where a run
  could start, the running handler still has a dispatch to do (`Woken`), and a handler that is about to
  release or erase claims has a dispatch after it in its list (`Covered`). `LifeInv` (a run past its
  plan never becomes planned or queued again, except by a validation still at work) is what rules out
  that a run joins the line without the dispatch that approve does. That one dispatch is enough rests
  on `WalkIsExhaustive`: once everything `Startable` is started, nothing is startable.

**LeasesProofs**, over `QueueInv`

- `ExecutedOnce`, `ExecutedUnderLocks`, `LeasesImplemented`: `OneExecution`, `ExecutingHoldsClaims` and the
  refinement of `Leases`, each as `Spec /\ [][Untouched]_vars => …`. Without `Untouched` they are false,
  and section 5 has the counterexamples. `Untouched` excludes exactly three steps: a discard of a run
  that is running, an abort that goes on after its await although its run was taken up meanwhile, and a
  boot that finds a validation the old process left. So the theorems say that the three are *all* the
  ways in which the executor runs a run twice, or without its claims: with those repaired the promise
  holds. The invariant `Alone` relates executions, their controllers, the work list (who is about to be
  executed, whose claims are about to go) and `held`; the boot is the delicate part, where `todo` is one
  of two literal lists (`BootsAlone`).

**RecoveryProofs**, over `Alone`

- `PreconditionAsked`: `~NamedRetry => (Spec /\ [][Untouched]_vars => []PreconditionAnswered)`; with named
  retries it is false (section 5). The property looks at one state, but a retry decides by ordinals, so
  the invariant says what the rows of a run look like after any chain of recoveries (`RowsFit`): the plan
  stands whole or not at all, at its own ordinals; cleanup rows stand behind a plan that is over; a
  precondition reads skipped only where the whole plan was given up. `Follow` says that an execution has
  before it exactly the rows that are not over, so that what it read at its start is not stale; `Walks`
  that the loop goes on with one execution at a time; `Wait` that what a suspended abort read still bounds
  the rows it will write behind.
- `CleanedUp`, `CleanupsInOrder`: `CleanupLeavesNothing` and `CleanupOrder`, each as
  `~NamedRetry => (Spec /\ [][UpToDate]_vars => …)`. `UpToDate` is `Untouched` and one step more: an abort
  that goes on after its await with other names than its run has registered by now. Without it both are
  false, as TLC shows (section 5). `Undoes` is the core: once a run has a cleanup row, every registered
  cleanup has one, at an ordinal in the order of undoing (`RanksInOrder`, about the cardinalities the
  ordinals are made of), and the row of a mutation that stands is not over. That a cancelled run without
  locks is clean needs the work list as well: `Releases` (a release to come is of a clean run) and `Kept`
  (until then the run holds something), which the boot's reconciliation keeps because a cancelled run
  counts as a holder.

**EventLogProofs**

- `LogKept`: `Spec => []LogInv`: the rows' numbers grow although two counters hand them out, and a page
  whose cursor passed a kept line was shown it.
- `EndAnnouncedLast`: `Spec => EndIsComplete`. The invariant follows a line through the pipe:
  whatever a stream's cursor passed is shown or on the wire, whatever it did not pass is in the backlog
  or in the bus queue, and both are closed downwards (`StreamInv`, `PageInv`); about the table it says
  that the numbers past the last row went to ephemeral lines and that a counter behind the table stands
  on a taken number (`GapsAreEphemeral`, `CounterCollides`). As in the run, a line whose number an
  ephemeral line had before it is excepted (`Reused`): section 5.

**BooksProofs**

- `AnswersArePublished`: `Spec => []BooksInv`: a writer that answers has its change on origin, between the
  commit it asked at and the one it names.
- `PushesOwnPart`: `Spec => PublishesItsOwn`. Both rest on `IInv`: the line holds each worker once and
  only its first is past its reset (`TurnsInLine`); the checkout of the turn is the branch at its base
  and on top of it the turn's own part (`Clean`); a push to come has its change in the checkout or
  already below its base (`Promised`). The lemmas `Replay`, `ReplayOwn` and `ReplayHolds` show that a
  rebase keeps both over whatever others wrote in between.
- `ImagesSpared`: `Spec /\ [][NewImages]_vars => ReapSpares`, for every carrier the code searches: the
  books branch with its pin file, bundle and product default, the trunk's default, the builds held for
  members (`approvedTags`), units and platform. `ReapInv` says that a pin unmoved since the
  reap began is on the floor once its carrier was searched, is on the list if it stands, and that no
  digest of a kept tag is doomed. `NewImages` (no build pushes a tag some carrier already pins) is
  needed: with `Keep = 0` TLC finds a pinned tag that was gone, pushed anew between list and delete and
  taken with the digest it shares.

**ValidationProofs**

- `AdmissionIsJudged`: `Spec => []ValidationInv`. The invariant `IInv` says what each phase of an onboarding
  stands for (`RunOK`: a report in hand is one the gates made of the commit the run noted, whose render
  gate misses whatever did not run), that the objects under a validation's name are its own (`Owned`,
  `Apart`), and that while no call has failed every gate run is still to be deleted by its validation or
  a sweep (`Tracked`). `SInv` says the same of the Secrets, which a run's deletion leaves behind: each is
  guarded by its validation or by the sweep of the one restart, since a sweep that takes the run of a
  live validation leaves that validation's own cancel to delete its Secret. A second restart may cut that
  short, and the property says so. `CredentialsGo` is both in a state with nothing left to do.
- `AdmittedAsJudged`: `Spec => AdmittedIsJudged`: of builds, databases and secrets. The other fields the
  registration commits (host, patterns, the sender's entry) are held against no later head by the code,
  and section 5 says so. That a registered build is new needs that one run at a time
  executes (`OneExecutes`), so that nothing is registered between a check and its commit
  (`FreshBuilds`). That pods find their Secrets needs `SyncOK`: the documents being synced are part of
  those that were judged in order, and what the waves so far were to write is written. `Lowest` shows
  that a finite family of integers has a least one, by least counterexample, which gives the next wave
  and the writer the gate compares with.

The attempt at `AdmittedAsJudged` corrected the model in three places: Argo CD skips a document marked `Skip`
whatever other hooks it names, a wave below the gates' floor is a wave like any other, and what a unit's
sync reads is what was judged for that unit. `PreconditionAsked` needed an assumption that was missing: the
plan of a mutating run begins with its precondition, which `assertGuardsArmed` (guards.ts) checks at boot.

**TenantsProofs**

- `TenantsAgree`: `Spec => []TenantInv`; `PurgeIsComplete`: `Spec => []PurgedLeavesNoIdentity`;
  `OnlyItsRemovalUndeploys`: `Spec => UndeployedOnlyByItsRemoval`, for any guids, apps, run slots, kinds
  of run, failures and mints. A create may replace any number of tenants, where the run has at most one.

All three rest on `IInv`. Every tenant run claims the same locks, so one at most is past its approval
(`OneHolder`), and a guid belongs to one create (`OwnGuid`). A tenant by itself is `Sound`: without a row
nothing of it stands, its Vault entry names a live key, and a fan without the identity provider is empty.
Of a tenant that is `Undeployed` the identity provider does not run; an app nobody waited for may. What a
run has done is not recorded anywhere; it is read off the list of steps it has left. `Lists` says that
this list is a part of the plan's steps, forth or back, in the order the definition gives them (`Order`,
`Earlier`, `Sorted`), so that a step no longer on it (`Left`) is behind the run and what it did stands:
`Creating` (the targets of a replacement are undeployed, the subdomain was found free, the row and the
keys are written), `Undoing` (an abort works on a tenant that is not live), `Purging` (once the namespaces
were asked to go the identity provider has no AppProject, and its namespace is gone or going; each key is
withdrawn or its port is `unwired`), `Offboarding` and `Adding`. `Waiting` says that a plan not yet
approved has all of these before it, and `Planned` that what a planner found is still so when the run
begins, however many other runs ran between.

The proof has three layers. The list lemmas compute, for each definition, that its list is sorted and has
the steps the invariant names (the replacement's by arithmetic on the positions, since the number of
targets is open). `EveryStep` reduces every action of a run to `Stepped`, which says field by field what
one step may change in the tenants and in the run. The `Step…` lemmas then go through the conjuncts, and
`RunKeeps`, `PlansKeep`, `StandKeeps`, `AbortKeeps` and `ArgoKeeps` collect them per action of `Next`.
To allow it `Tenants` was rewritten in one place: the steps of a replacement are given by position
(`ReplaceSteps`) instead of by recursion over the targets. TLC finds the same states.

**ConsumersProofs**

- `StagesAgree`: `Spec => []ConsumerInv`; `LiveStageKeepsItsUnit`: `Spec => LiveStageCanRelease`;
  `RemovalsTakeTheirOwn`: `Spec => RemovalsAndChanges`, for any stages, releases, domains, run slots,
  beginnings and failures.

Here runs do work side by side: a release, a change of the secrets or a restart claims the cluster alone,
an adoption the books alone, and each other kind claims both. `Alone`, from `Apart`, is what is left of
exclusion: of two runs at work one is an adoption and the other claims no books. As in `TenantsProofs`,
what a run has done is read off what it has left; but a consumer's chains have a fixed length, so a number
is enough: `Forth` and `Back` say which step stands at which distance from the end, `Lists` that every
list of a run has its steps there. `Behind` says per kind what stands once so many are left: the row of an
onboarding is not offboarded, an abort works on a stage that is not live and has taken what its steps were
to take, a removal has marked, waited, removed and read back, a move of a domain has its record before it
writes the file, where the domain's zone is managed (`scope.zones`). Other hands write only records that
are no stage's (`Unbooked`). Of a stage itself `Sound` relates file, row and objects, and `Builds` the
stage files and the build file. `EveryStep` reduces the actions of a run to `Stepped` (file, row, objects,
values, unit, domains and cleanups, each by the name of the step), `NextIs` the rest of `Next` to
`Elsewhere`, and the three theorems read what they need off these two.

The attempt showed that an earlier form of the invariant was false. `DomainHasItsRecord` held in the run
because two plans were too few; with four TLC finds the abort of section 5. It is a promise now, the run
has the four plans, and `DomainKeepsItsRecord` says what does hold: every other step keeps the records.

Only model-checked: liveness under fairness (`StartedRunEnds`, `QueuedRunLeaves`, `NextBootTakesIt`,
`EveryLineArrives`, `TurnsSettle`, `ValidationEnds`) and what a fold over data computes, which are beyond
the prover. And four domain models: `TenantChanges`, `Relocation`, `Slaves` and `DnsRecords`. What their
promises except is in the formulas themselves and their comments: the zones not managed here
(`OwnDomainStands`), a machine passed over while it was silent (`SomebodyIsAnswered`) and what a program
nobody follows any more does late (`PlaneGoesAfterThePart`, `ChangesUnderItsLock`,
`AbortedDeployLeavesNothing`), a move or restore given up half way (`OpenIsComplete`, `astray`). No module
uses RECURSIVE.

## 5. Where the code does not do what it says

`PROJECT.json` lists these as findings, each with the line and the words it contradicts. They are
behaviours of the model too, and the passing runs choose their constants around them: `single` has one
run, no named retry or late discard and no abort that awaits; `races` has `MaxExecs = 1`, which cuts a
behaviour off at a second simultaneous execution of one run (the state before it is checked). The promises
themselves are in the modules, and a reader who adds the name to a configuration gets the counterexample:

| Promise | Module | How it breaks |
|---|---|---|
| `DeletedHoldsNothing` | RunExecutor | an abort waiting in `assertAbortable` while its run is deleted takes the locks afterwards |
| `ImplementsLeases` with `MaxExecs = 2` | RunExecutor | an abort waiting in `assertAbortable` while its run is retried executes it a second time; the execution that ends first lets go of the locks of both |
| `OneExecution` with two runs and a streamed plan | RunExecutor | on boot, failing an orphaned validation dispatches a queued run, which is then resumed as well |
| `PreconditionAnswered` with `NamedRetry` | RunExecutor | abort marks a failed precondition skipped; a retry of a later step passes over it |
| `CleanupLeavesNothing`, `CleanupOrder` with `AbortChecked` not empty | RunExecutor | an abort waiting in `assertAbortable` while its run is retried and registers another cleanup schedules only those it read |
| `ExecutingHoldsClaims` with `LateDiscard` | RunExecutor | a discard of a run that has started marks it cancelled under a live execution |
| `NoSeenSeqReused` | EventLog | an ephemeral line's number is given to a kept line |
| `SettledOffboardSparesTheLive`, `SettledRunsNothing`, `PurgedLeavesNoNamespace` | Tenants | an offboard of a settled tenant removes the record a newer tenant serves on; an app registered without its row is not waited for and runs on, and makes its namespace again |
| `RowAndRegistrationAgree`, `SenderIsBound`, `DemoHasItsPassword`, `SettledPairing`, `RestoreIsAWayBack` | TenantChanges | ways back that stop between registration and row, return to an unbound domain, to a demo without password, to a bundle of another line; a restore that waits for the locks of the run it is to resolve |
| `MintedIsActivated`, `OffboardedStaysOffboarded`, `SuspendedUnitDoesNotBuild`, `DomainHasItsRecord` | Consumers | a token minted before a restart is not activated; a stale suspend revives an offboarded row; the last live stage goes and the suspended unit builds on; the abort of a stale move returns a stage to a domain another one has taken |
| `AbortReopensTheSource`, `AbortDeletesTheUnfinished` | Relocation | after repoint a tenant's source reads as the target; a generation marked failed keeps its folder |
| `AbortedRenameResolves`, `ActiveIsOperated`, `BareCanStart` | Slaves | an address removed without a way back; an active row nothing operates; a bare machine that cannot be deployed |
| `PutBackIsReachable`, `PlaneGoesLast`, `AbortedIsPutBack` | Slaves | a removal passes over the door of a silent machine and takes the key off when it answers again; a late removal program takes the plane under a part that stands again; a late program of an aborted deployment writes after the machine was put back |
| `CredentialIsFindable`, `RegisteredIsCurrent` | Validation | a reap whose `deleteSecret` failed leaves a Secret the sweep does not look for; a head that moved host, patterns or sender entry is registered as it was |
| `RepointedComesBack`, `AbortedMoveCanSend` | DnsRecords | a record moved and not booked is not moved back; an unbinding whose answer is lost is not undone |
| `PinnedStands`, `NoWriteLost` | RegistryCleanup | a pin that moves after the search is not seen; a read in one turn and a write in another take back what stood between |

## 6. What is not modelled

- Of the executor: redaction, the audit table, the wiping of secrets, `settle`/`untilLeaves` (they only
  wait). Two Managers at once are excluded by the deployment. A statement is atomic and durable.
- Of run definitions: skipping a step (`RunExecutor` has it; the operator answers for what the step was
  to do); a tenant created at several stages at once; the SMTP relay file; host-key pinning; the parts
  of a fleet redeploy side by side (they go one after another); `rename`'s early return for a name
  already taken up, which its plan excludes; `mintTag`, which nothing calls.
- In the executor a refused statement counts against the transaction it is in: that it is a log line or
  an audit row after a committed end, and that the recording of the failure is refused too, so that the
  status already written stays, is folded into the run that keeps its earlier status. Both are left to
  the next boot.
- In `DnsRecords` public DNS answers what the provider's zone holds (the mail measurement reads it there),
  the A, AAAA and TXT records that block a move at its target are not there, and another hand does not
  write between the reading of a name and the write that follows it; in `RegistryCleanup` the reaper reads
  the branch's head once per turn, as a turn does.
- In `TenantChanges` the product names its sender domain issuers, and the refresh of the external secret
  is the wait for it to have synced. In `Relocation` and `Consumers` a deleted namespace is gone at once
  (`Tenants` has it terminate).
- The routes' own guards: `POST /api/runs` reaches every definition without them, so plans are taken
  with any parameters the definition accepts.
- Timers that arm the jobs, the tenant check (it only reads), the refresh of app tokens, sessions and
  login, the inventory's single-statement APIs.
- Adapters' I/O (SSH, Kubernetes, registries, Vault, DNS providers): the models keep that a call takes
  effect or not and answers or not. YAML, Helm, encryption, rendering, tooling.

## 7. Plan

Done: locks and queue, executor with recovery, boot and drain, the abstract `Leases` and the
refinement, log and stream, tenants, their changes, consumers, relocation, machines, DNS and mail
records, gates and validation, books, registry cleanup; the theorems of section 4.

Next: theorems on `TenantChanges`, `Relocation`, `Slaves` and `DnsRecords`, along the argument of
`TenantsProofs` and `ConsumersProofs`; then token refresh against an offboard, the timers, and login
transactions.
