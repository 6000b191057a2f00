---------------------------- MODULE TenantChanges ----------------------------
(***************************************************************************)
(* The run definitions that change a standing tenant: its own domain, its  *)
(* sender domain, its name, its demo switch, its versions and its engine   *)
(* line, its websites, its size and its typed settings. Each run freezes   *)
(* the value it found and the value it wants, writes the registration      *)
(* (a git commit) and then the tenant's row, and waits until ArgoCD has    *)
(* every member render it; its cleanups write the former value back. All   *)
(* of them claim the same locks, so the hazards are plans that have gone   *)
(* stale, steps that die between the two writes, and aborts.               *)
(* The tenant is registered, on and provisioned throughout: Tenants models *)
(* the runs that create, suspend and remove it.                            *)
(***************************************************************************)
EXTENDS RunChain, FiniteSets

CONSTANTS Members,    \* the members ArgoCD renders, one Application each
          Values,     \* the own domains, the sender domains and the names; 0 is none
          Versions,   \* the released versions, bundle and engine alike; a line is its tens
          Customer,   \* the own domains at which the customer's own record stands at first
          CustomerCname, \* those of them whose record is a CNAME
          KindGroups  \* the run kinds that are planned together in one behaviour

ASSUME TenantChangesAssumption == CustomerCname \subseteq Customer /\ Values \subseteq Nat /\ 0 \in Values /\ Versions \subseteq Nat

VARIABLES reg,        \* the tenant's registration in the books branch
          row,        \* its row in the inventory
          shown,      \* per member: the registration as ArgoCD last rendered it
          record,     \* per own domain: what stands at its DNS name
          mail,       \* per sender domain: the run that booked its TXT records (0: none stands), the issuer's binding
          vault,      \* the end-to-end password and the typed settings on their way to the engines
          world,      \* what others own: another tenant's sender domain, the product's manifest, the own
                      \* domains whose zones the DNS provider manages; and the kinds of run of this behaviour
          abandoned   \* a failed run was deleted: what it left undone nobody undoes

tenantVars == <<reg, row, shown, record, mail, vault, world>>
vars == <<run, used, reg, row, shown, record, mail, vault, world, abandoned>>

versionLine(v) == v \div 10
Oldest == CHOOSE v \in Versions : \A w \in Versions : v <= w

Fresh == [domain |-> 0, sender |-> 0, name |-> 0, demo |-> FALSE, bundle |-> Oldest, engine |-> Oldest,
          members |-> 0, size |-> 0, main |-> 0, site |-> 0]

tenantLocks == {"deploy-branch", "master-kube"}
RESTART_LOCKS == {"master-kube"}

\* One type invariant: what the registration, the row and the things around them can hold.
TypeOK ==
    /\ \A e \in {reg} \cup {shown[m] : m \in Members} :
           /\ {e.domain, e.sender, e.name} \subseteq Values /\ e.demo \in BOOLEAN
           /\ {e.bundle, e.engine} \subseteq Versions /\ {e.members, e.size, e.main, e.site} \subseteq 0..1
    /\ {row.domain, row.sender, row.name} \subseteq Values /\ row.engine \in Versions /\ row.size \in 0..1
    /\ row.owner \in 0..MaxPlans
    /\ record \in [Values -> {"none", "customer", "operator", "ours"}]
    /\ mail.txt \in [{"dkim", "dmarc"} -> [Values -> 0..MaxPlans]] /\ mail.bound \subseteq Values
    /\ vault.e2e \in BOOLEAN /\ {vault.entry, vault.secret, vault.engine} \subseteq 0..MaxPlans
    /\ world.other \in Values /\ world.manifest \in 0..1 /\ world.zones \subseteq Values \ {0}
    /\ abandoned \in BOOLEAN

\* A fresh tenant. The provider manages the zones of some own domains, of all or, where none is
\* configured, of none; only the own-domain run asks for them.
Init ==
    /\ NoRuns
    /\ reg = Fresh /\ shown = [m \in Members |-> Fresh]
    /\ row = [domain |-> 0, sender |-> 0, name |-> 0, engine |-> Oldest, size |-> 0, owner |-> 0]
    /\ record = [v \in Values |-> IF v \in Customer THEN "customer" ELSE "none"]
    /\ mail = [txt |-> [k \in {"dkim", "dmarc"} |-> [v \in Values |-> 0]], bound |-> {}]
    /\ vault = [e2e |-> FALSE, entry |-> 0, secret |-> 0, engine |-> 0]
    /\ \E ks \in KindGroups, zs \in SUBSET (Values \ {0}) :
           /\ "own-domain" \in ks \/ zs = {}
           /\ world = [other |-> 0, manifest |-> 0, zones |-> zs, kinds |-> ks]
    /\ abandoned = FALSE

-----------------------------------------------------------------------------
\* Planning. A plan freezes the value found and the value asked for; p.id is the run's id.

Steps(names) == [i \in DOMAIN names |-> [s |-> names[i], g |-> "tenant", by |-> "own"]]

Asks(r, kind, from, to, claims, names) ==
    /\ kind \in world.kinds
    /\ Plans(r, [kind |-> kind, from |-> from, to |-> to, id |-> used.plans + 1], claims, Steps(names))
    /\ UNCHANGED tenantVars /\ UNCHANGED abandoned

\* The customer's own records at the domain, which the approve lets this run replace. A host in a zone
\* nobody here manages has none: its operator sets it.
recordsToReplace(to) == {v \in {to} \cap world.zones : record[v] = "customer"}

\* The own domain, another or none.
PlanOwnDomain(r) == \E to \in Values :
    Asks(r, "own-domain", [domain |-> row.domain, replacing |-> recordsToReplace(to)], to, tenantLocks,
         <<"attest-target", "check-mail-records", "provision-own-domain-record", "write-own-domain",
           "retire-previous-own-domain">>)

\* The TXT record of a kind that a sender domain lacks.
planTxtRecords(to) == {k \in {"dkim", "dmarc"} : to # 0 /\ mail.txt[k][to] = 0}

\* A sender domain no other tenant of the stage sends from.
refuseSharedSenderDomain(v) == v # 0 /\ world.other = v

PlanSenderDomain(r) == \E to \in Values :
    /\ ~refuseSharedSenderDomain(to)
    /\ Asks(r, "sender-domain", [sender |-> row.sender, txt |-> planTxtRecords(to)], to, tenantLocks,
            <<"attest-target", "publish-dkim-record", "publish-dmarc-record", "await-dkim-signing",
              "bind-issuer", "write-sender-domain", "watch-sender-domain", "unbind-previous-issuer">>)

PlanDisplayName(r) == \E to \in Values :
    Asks(r, "display-name", row.name, to, tenantLocks,
         <<"attest-target", "write-display-name", "watch-display-name">>)

PlanDemo(r) ==
    Asks(r, "demo", reg.demo, ~reg.demo, tenantLocks,
         <<"attest-target">> \o (IF reg.demo THEN <<>> ELSE <<"mint-e2e-password">>)
         \o <<"write-demo", "watch-demo">> \o (IF reg.demo THEN <<"drop-e2e-password">> ELSE <<>>))

\* The website marked main, and the site a website serves; a site moves with a bundle of the line that
\* is not older.
PlanWebsiteMain(r) ==
    Asks(r, "website-main", reg.main, 1 - reg.main, tenantLocks,
         <<"attest-target", "write-main-website", "watch-main-website">>)

PlanWebsiteSite(r) == \E b \in Versions :
    /\ b >= reg.bundle /\ versionLine(b) = versionLine(reg.engine)
    /\ Asks(r, "website-site", [site |-> reg.site, bundle |-> reg.bundle, members |-> reg.members],
            [site |-> 1 - reg.site, bundle |-> b], tenantLocks, <<"attest-target", "write-website-site">>)

PlanSize(r) == \E to \in 0..1 :
    Asks(r, "size", reg.size, to, tenantLocks, <<"attest-target", "write-size">>)

PlanGoogleTranslation(r) ==
    Asks(r, "google", 0, used.plans + 1, tenantLocks,
         <<"attest-target", "write-settings", "refresh-settings", "restart-readers">>)

PlanRestart(r) == Asks(r, "restart", 0, 0, RESTART_LOCKS, <<"attest-target", "restart-workloads">>)

\* engineLineRefusal over a move: a move that leaves the line every approval held is judged against
\* the engine line the bundle declares.
movesLine(held, next) == held = 0 \/ versionLine(held) # versionLine(next)
bundleReleaseRefusal(bundle, held, next) ==
    movesLine(held, next) /\ versionLine(next) # versionLine(bundle)

\* The Versions run: the members resolved off the manifest as it is now, and any chosen bundle and
\* engine; where the bundle is chosen every approval is judged, else only those that move.
AsksVersions(r, b, e) ==
    /\ ~bundleReleaseRefusal(b, IF b # reg.bundle THEN 0 ELSE reg.engine, e)
    /\ Asks(r, "versions", [members |-> reg.members, bundle |-> reg.bundle, engine |-> reg.engine],
            [members |-> world.manifest, bundle |-> b, engine |-> e], tenantLocks,
            <<"attest-target", "publish-issuer-record", "refresh-images", "ensure-images",
              "provision-argo-sync", "write-members", "write-versions", "watch-sync-set",
              "watch-versions">>)

PlanVersions(r) == \E b, e \in Versions : AsksVersions(r, b, e)

\* A tenant that follows releases plans the Versions run itself, inside the line its bundle runs.
movesInsideLine(v) == versionLine(v) = versionLine(reg.bundle)
queuedVersionsRun == \E q \in Runs : run[q].st = "planned" /\ run[q].p.kind = "versions"
FollowTenant(r) == \E b, e \in Versions :
    /\ ~queuedVersionsRun
    /\ <<b, e>> # <<reg.bundle, reg.engine>>
    /\ b # reg.bundle => movesInsideLine(b)
    /\ e # reg.engine => movesInsideLine(e)
    /\ AsksVersions(r, b, e)

\* The newest pairing of a newer line, or of the line that runs where it stands already.
readLineMove(v) ==
    /\ \A w \in Versions : versionLine(w) = versionLine(v) => w <= v
    /\ versionLine(v) > versionLine(reg.bundle) \/ (reg.bundle = v /\ reg.engine = v)

PlanLineMove(r) == \E v \in Versions :
    LET standing == reg.bundle = v /\ reg.engine = v IN
    /\ readLineMove(v)
    /\ Asks(r, "line-move", [bundle |-> reg.bundle, engine |-> reg.engine], [bundle |-> v, engine |-> v],
            tenantLocks,
            IF standing THEN <<"attest-target", "watch-pairing">>
            ELSE <<"attest-target", "backup", "write-pairing", "watch-pairing">>)

\* A Restore of a generation an earlier line move took, as far as the pairing goes.
PlanRestore(r) == \E v \in Versions :
    Asks(r, "restore", [bundle |-> reg.bundle, engine |-> reg.engine], [bundle |-> v, engine |-> v],
         tenantLocks, <<"attest-target", "restore-registration">>)

Plan(r) ==
    \/ PlanOwnDomain(r) \/ PlanSenderDomain(r) \/ PlanDisplayName(r) \/ PlanDemo(r)
    \/ PlanWebsiteMain(r) \/ PlanWebsiteSite(r) \/ PlanSize(r) \/ PlanGoogleTranslation(r)
    \/ PlanRestart(r) \/ PlanVersions(r) \/ FollowTenant(r) \/ PlanLineMove(r) \/ PlanRestore(r)

-----------------------------------------------------------------------------
\* The steps. Where a guard does not hold the step throws, which is RunChain's Throws.

From(r) == Param(r).from
To(r) == Param(r).to

\* ctx.registerCleanup: the last registered runs first, and a retry registers nothing twice.
Arm(r, name) ==
    IF \E i \in DOMAIN run[r].armed : run[r].armed[i].s = name THEN run[r].armed
    ELSE Steps(<<name>>) \o run[r].armed

Passes(r) == Done(r) /\ UNCHANGED tenantVars /\ UNCHANGED abandoned
Around == UNCHANGED <<shown, world, abandoned>>

\* The cleanup is armed, the registration is committed, then the row is written; the step may die
\* between any two.
Commits(r, entry, columns, cleanups) ==
    /\ \/ reg' = entry /\ row' = [columns EXCEPT !.owner = Param(r).id] /\ DoneArmed(r, cleanups)
       \/ reg' \in {reg, entry} /\ UNCHANGED row /\ Fails(r, [run[r] EXCEPT !.armed = cleanups])
    /\ UNCHANGED <<record, mail, vault>> /\ Around

\* Every member is Synced and Healthy, rendering this of the registration.
Renders(P(_)) == \A m \in Members : P(shown[m])

AttestTarget(r) == At(r, "attest-target") /\ Passes(r)
CheckMailRecords(r) == At(r, "check-mail-records") /\ Passes(r)

\* The domain's CNAME: made, adopted, or put in the place of the customer's where the plan listed it.
\* Without a provider, or where it does not manage the zone, the operator is told to set it.
provisionOwnDomainRecord(domain, replacing) ==
    \/ domain \notin world.zones /\ UNCHANGED record
    \/ /\ domain \in world.zones
       /\ record[domain] = "customer" => domain \in replacing
       /\ record' = [record EXCEPT ![domain] = "ours"]

\* A customer's record is deleted before the CNAME is made: a step that dies in between leaves neither.
ProvisionOwnDomainRecord(r) ==
    /\ At(r, "provision-own-domain-record")
    /\ \/ To(r) = 0 /\ Passes(r)
       \/ /\ To(r) # 0
          /\ \/ /\ provisionOwnDomainRecord(To(r), From(r).replacing)
                /\ DoneArmed(r, Arm(r, "remove-new-own-domain-record"))
             \/ /\ record[To(r)] = "customer" /\ To(r) \in From(r).replacing
                /\ record' = [record EXCEPT ![To(r)] = "none"]
                /\ Fails(r, [run[r] EXCEPT !.armed = Arm(r, "remove-new-own-domain-record")])
          /\ UNCHANGED <<reg, row, mail, vault>> /\ Around

\* The row must still say what the plan found, or this run's own write.
WriteOwnDomain(r) ==
    /\ At(r, "write-own-domain")
    /\ row.domain \in {From(r).domain, To(r)}
    /\ Commits(r, [reg EXCEPT !.domain = To(r)], [row EXCEPT !.domain = To(r)], Arm(r, "restore-own-domain"))

\* Mutant: the former record goes once the domain is recorded, without the wait for an answer.
MutantRetirePreviousOwnDomain(r) ==
    /\ At(r, "retire-previous-own-domain")
    /\ record' = [record EXCEPT ![row.domain] = "none"]
    /\ Done(r)
    /\ UNCHANGED <<reg, row, mail, vault>> /\ Around

\* The tenant answers at the new domain; then the former one's record goes, if this installation wrote it.
RetirePreviousOwnDomain(r) ==
    /\ At(r, "retire-previous-own-domain")
    /\ Renders(LAMBDA e : e.domain = To(r)) /\ (To(r) # 0 => record[To(r)] \in {"ours", "operator"})
    /\ record' = [v \in Values |-> IF v = From(r).domain /\ v # To(r) /\ record[v] = "ours" THEN "none"
                                   ELSE record[v]]
    /\ Done(r)
    /\ UNCHANGED <<reg, row, mail, vault>> /\ Around

RestoreOwnDomain(r) ==
    /\ At(r, "restore-own-domain")
    /\ Commits(r, [reg EXCEPT !.domain = From(r).domain], [row EXCEPT !.domain = From(r).domain], run[r].armed)

\* Only where the row does not name the domain after all: our record goes, and the customer's is written
\* back. The operator's own is not in the book, and stays.
RemoveNewOwnDomainRecord(r) ==
    /\ At(r, "remove-new-own-domain-record")
    /\ record' = IF To(r) = row.domain \/ record[To(r)] \in {"customer", "operator"} THEN record
                 ELSE [record EXCEPT ![To(r)] = IF To(r) \in From(r).replacing THEN "customer" ELSE "none"]
    /\ Done(r)
    /\ UNCHANGED <<reg, row, mail, vault>> /\ Around

OwnDomain(r) ==
    \/ CheckMailRecords(r) \/ ProvisionOwnDomainRecord(r) \/ WriteOwnDomain(r)
    \/ RetirePreviousOwnDomain(r) \/ RestoreOwnDomain(r) \/ RemoveNewOwnDomainRecord(r)

\* A TXT record the plan listed: made and booked, and only then is its removal armed. One that stands
\* by now is left as it is.
PublishTxt(r, k, cleanup) ==
    \/ (k \notin From(r).txt \/ mail.txt[k][To(r)] # 0) /\ Passes(r)
    \/ /\ k \in From(r).txt /\ mail.txt[k][To(r)] = 0
       /\ mail' = [mail EXCEPT !.txt[k][To(r)] = Param(r).id]
       /\ DoneArmed(r, Arm(r, cleanup)) \/ Fails(r, run[r])
       /\ UNCHANGED <<reg, row, record, vault>> /\ Around

RemoveTxt(r, k) ==
    /\ mail' = IF mail.txt[k][To(r)] = Param(r).id THEN [mail EXCEPT !.txt[k][To(r)] = 0] ELSE mail
    /\ Done(r)
    /\ UNCHANGED <<reg, row, record, vault>> /\ Around

PublishDkimRecord(r) == At(r, "publish-dkim-record") /\ PublishTxt(r, "dkim", "remove-dkim-record")
PublishDmarcRecord(r) == At(r, "publish-dmarc-record") /\ PublishTxt(r, "dmarc", "remove-dmarc-record")
AwaitDkimSigning(r) ==
    At(r, "await-dkim-signing") /\ (To(r) # 0 => mail.txt["dkim"][To(r)] # 0) /\ Passes(r)
RemoveDkimRecord(r) == At(r, "remove-dkim-record") /\ RemoveTxt(r, "dkim")
RemoveDmarcRecord(r) == At(r, "remove-dmarc-record") /\ RemoveTxt(r, "dmarc")

\* The mail service lets the stage's issuer send from v, or no longer.
changeStageIssuer(vs) ==
    /\ mail' = [mail EXCEPT !.bound = vs]
    /\ UNCHANGED <<reg, row, record, vault>> /\ Around

\* The unbinding is armed where the call changed something, and only after it.
BindIssuer(r) ==
    /\ At(r, "bind-issuer")
    /\ \/ To(r) \in mail.bound \cup {0} /\ Passes(r)
       \/ /\ To(r) \notin mail.bound \cup {0}
          /\ changeStageIssuer(mail.bound \cup {To(r)})
          /\ DoneArmed(r, Arm(r, "unbind-issuer")) \/ Fails(r, run[r])

\* Mutant: the plan asked whether another tenant sends from it.
MutantWriteSenderDomain(r) ==
    /\ At(r, "write-sender-domain")
    /\ row.sender \in {From(r).sender, To(r)}
    /\ Commits(r, [reg EXCEPT !.sender = To(r)], [row EXCEPT !.sender = To(r)],
               Arm(r, "restore-sender-domain"))

WriteSenderDomain(r) ==
    /\ At(r, "write-sender-domain")
    /\ row.sender \in {From(r).sender, To(r)}
    /\ ~refuseSharedSenderDomain(To(r))
    /\ Commits(r, [reg EXCEPT !.sender = To(r)], [row EXCEPT !.sender = To(r)],
               Arm(r, "restore-sender-domain"))

WatchSenderDomain(r) ==
    At(r, "watch-sender-domain") /\ Renders(LAMBDA e : e.sender = To(r)) /\ Passes(r)

UnbindPreviousIssuer(r) ==
    /\ At(r, "unbind-previous-issuer")
    /\ changeStageIssuer(mail.bound \ ({From(r).sender} \ {To(r)}))
    /\ Done(r)

\* The registration decides: it is what the members render, and the row is written second.
RestoreSenderDomain(r) ==
    /\ At(r, "restore-sender-domain")
    /\ \/ reg.sender # To(r) /\ Passes(r)
       \/ /\ reg.sender = To(r)
          /\ Commits(r, [reg EXCEPT !.sender = From(r).sender], [row EXCEPT !.sender = From(r).sender],
                     run[r].armed)

UnbindIssuer(r) == At(r, "unbind-issuer") /\ changeStageIssuer(mail.bound \ {To(r)}) /\ Done(r)

SenderDomain(r) ==
    \/ PublishDkimRecord(r) \/ PublishDmarcRecord(r) \/ AwaitDkimSigning(r) \/ BindIssuer(r)
    \/ WriteSenderDomain(r) \/ WatchSenderDomain(r) \/ UnbindPreviousIssuer(r)
    \/ RestoreSenderDomain(r) \/ UnbindIssuer(r) \/ RemoveDkimRecord(r) \/ RemoveDmarcRecord(r)

-----------------------------------------------------------------------------
\* The name, the demo switch and the websites.

WriteDisplayName(r) ==
    /\ At(r, "write-display-name")
    /\ row.name \in {From(r), To(r)}
    /\ Commits(r, [reg EXCEPT !.name = To(r)], [row EXCEPT !.name = To(r)], Arm(r, "restore-display-name"))

WatchDisplayName(r) == At(r, "watch-display-name") /\ Renders(LAMBDA e : e.name = To(r)) /\ Passes(r)

RestoreDisplayName(r) ==
    /\ At(r, "restore-display-name")
    /\ \/ reg.name # To(r) /\ Passes(r)
       \/ /\ reg.name = To(r)
          /\ Commits(r, [reg EXCEPT !.name = From(r)], [row EXCEPT !.name = From(r)], run[r].armed)

SetsE2e(r, there, cleanups) ==
    /\ vault' = [vault EXCEPT !.e2e = there]
    /\ DoneArmed(r, cleanups)
    /\ UNCHANGED <<reg, row, record, mail>> /\ Around

MintE2ePassword(r) == At(r, "mint-e2e-password") /\ SetsE2e(r, TRUE, Arm(r, "undo-e2e-password"))

\* The registration says whether the password is still needed.
dropE2ePasswordUnlessDemo(r) == SetsE2e(r, vault.e2e /\ reg.demo, run[r].armed)

DropE2ePassword(r) == At(r, "drop-e2e-password") /\ dropE2ePasswordUnlessDemo(r)
UndoE2ePassword(r) == At(r, "undo-e2e-password") /\ dropE2ePasswordUnlessDemo(r)

\* The row names this run its owner first, then the registration is written.
Owns(r, entry, cleanups) ==
    /\ row' = [row EXCEPT !.owner = Param(r).id]
    /\ \/ reg' = entry /\ DoneArmed(r, cleanups)
       \/ UNCHANGED reg /\ Fails(r, [run[r] EXCEPT !.armed = cleanups])
    /\ UNCHANGED <<record, mail, vault>> /\ Around

WriteDemo(r) ==
    /\ At(r, "write-demo")
    /\ row.owner = Param(r).id \/ reg.demo = From(r)
    /\ Owns(r, [reg EXCEPT !.demo = To(r)], Arm(r, "restore-demo"))

WatchDemo(r) ==
    At(r, "watch-demo") /\ reg.demo = To(r) /\ Renders(LAMBDA e : e.demo = To(r)) /\ Passes(r)

\* Only while the registration carries this run's switch and the row names this run.
RestoreDemo(r) ==
    /\ At(r, "restore-demo")
    /\ reg' = IF reg.demo = To(r) /\ row.owner = Param(r).id THEN [reg EXCEPT !.demo = From(r)] ELSE reg
    /\ Done(r)
    /\ UNCHANGED <<row, record, mail, vault>> /\ Around

WriteMainWebsite(r) ==
    /\ At(r, "write-main-website")
    /\ row.owner = Param(r).id \/ reg.main = From(r)
    /\ Owns(r, [reg EXCEPT !.main = To(r)], Arm(r, "restore-main-website"))

WatchMainWebsite(r) ==
    At(r, "watch-main-website") /\ reg.main = To(r) /\ Renders(LAMBDA e : e.main = To(r)) /\ Passes(r)

RestoreMainWebsite(r) ==
    /\ At(r, "restore-main-website")
    /\ reg' = IF reg.main = To(r) /\ row.owner = Param(r).id THEN [reg EXCEPT !.main = From(r)] ELSE reg
    /\ Done(r)
    /\ UNCHANGED <<row, record, mail, vault>> /\ Around

\* The site and the bundle in one commit, left alone where it stands; nothing undoes it.
WriteWebsiteSite(r) ==
    /\ At(r, "write-website-site")
    /\ \/ reg.site = To(r).site /\ reg.bundle = To(r).bundle /\ Passes(r)
       \/ /\ reg.site = From(r).site /\ reg.bundle = From(r).bundle /\ reg.members = From(r).members
          /\ Commits(r, [reg EXCEPT !.site = To(r).site, !.bundle = To(r).bundle], row, run[r].armed)

WriteSize(r) ==
    /\ At(r, "write-size")
    /\ Commits(r, [reg EXCEPT !.size = To(r)], [row EXCEPT !.size = To(r)], run[r].armed)

Settings(r) ==
    \/ WriteDisplayName(r) \/ WatchDisplayName(r) \/ RestoreDisplayName(r)
    \/ MintE2ePassword(r) \/ WriteDemo(r) \/ WatchDemo(r) \/ DropE2ePassword(r) \/ RestoreDemo(r)
    \/ UndoE2ePassword(r) \/ WriteMainWebsite(r) \/ WatchMainWebsite(r) \/ RestoreMainWebsite(r)
    \/ WriteWebsiteSite(r) \/ WriteSize(r)

\* The typed settings go into the Vault entry, External Secrets copies them, the engines read them when
\* they start.
Moves(r, v) == vault' = v /\ Done(r) /\ UNCHANGED <<reg, row, record, mail>> /\ Around

WriteSettings(r) == At(r, "write-settings") /\ Moves(r, [vault EXCEPT !.entry = To(r)])
\* Mutant: the engines are rolled while their Secret may still be the old one.
MutantRefreshSettings(r) == At(r, "refresh-settings") /\ Passes(r)

RefreshSettings(r) == At(r, "refresh-settings") /\ vault.secret = vault.entry /\ Passes(r)

RestartReaders(r) == At(r, "restart-readers") /\ Moves(r, [vault EXCEPT !.engine = vault.secret])
RestartWorkloads(r) == At(r, "restart-workloads") /\ Moves(r, [vault EXCEPT !.engine = vault.secret])

Typed(r) == WriteSettings(r) \/ RefreshSettings(r) \/ RestartReaders(r) \/ RestartWorkloads(r)

-----------------------------------------------------------------------------
\* The Versions run and the line move.

PublishIssuerRecord(r) == At(r, "publish-issuer-record") /\ Passes(r)
TenantImages(r) == (At(r, "refresh-images") \/ At(r, "ensure-images")) /\ Passes(r)
ProvisionArgoSync(r) == At(r, "provision-argo-sync") /\ Passes(r)

ownBundleTag(r) == reg.bundle \in {From(r).bundle, To(r).bundle}
ownMembers(r) == reg.members \in {From(r).members, To(r).members}

\* The member entries and the bundle's tag, over what the plan found or this run's own.
WriteMembers(r) ==
    /\ At(r, "write-members")
    /\ ownMembers(r) /\ ownBundleTag(r)
    /\ Commits(r, [reg EXCEPT !.members = To(r).members, !.bundle = To(r).bundle], row,
               Arm(r, "restore-members"))

\* The approvals held, with the chosen ones moved.
withChosenVersions(r) == IF To(r).engine = From(r).engine THEN reg.engine ELSE To(r).engine

\* The approvals: the chosen ones over what the registration holds now, judged again against the
\* bundle it names now. The cleanup is armed before the judgement.
WriteVersions(r) ==
    /\ At(r, "write-versions")
    /\ LET next == withChosenVersions(r) IN
       \/ /\ ~bundleReleaseRefusal(reg.bundle, reg.engine, next)
          /\ Commits(r, [reg EXCEPT !.engine = next], [row EXCEPT !.engine = next],
                     Arm(r, "restore-versions"))
       \/ /\ bundleReleaseRefusal(reg.bundle, reg.engine, next)
          /\ Fails(r, [run[r] EXCEPT !.armed = Arm(r, "restore-versions")])
          /\ UNCHANGED tenantVars /\ UNCHANGED abandoned

WatchSyncSet(r) ==
    At(r, "watch-sync-set") /\ Renders(LAMBDA e : e.members = To(r).members) /\ Passes(r)
WatchVersions(r) ==
    At(r, "watch-versions") /\ Renders(LAMBDA e : e.engine = reg.engine) /\ Passes(r)

\* The versions as they stood when this was planned.
RestoreVersions(r) ==
    /\ At(r, "restore-versions")
    /\ Commits(r, [reg EXCEPT !.engine = From(r).engine], [row EXCEPT !.engine = From(r).engine], run[r].armed)

\* Entries another run wrote since are that run's, and stay.
RestoreMembers(r) ==
    /\ At(r, "restore-members")
    /\ \/ ~(ownMembers(r) /\ ownBundleTag(r)) /\ Passes(r)
       \/ /\ ownMembers(r) /\ ownBundleTag(r)
          /\ Commits(r, [reg EXCEPT !.members = From(r).members, !.bundle = From(r).bundle], row, run[r].armed)

carries(e, pairing) == e.bundle = pairing.bundle /\ e.engine = pairing.engine

\* A member renders something of the new pairing already.
rendersAnyOfTarget(r) == \E m \in Members :
    \/ To(r).bundle # From(r).bundle /\ shown[m].bundle = To(r).bundle
    \/ To(r).engine # From(r).engine /\ shown[m].engine = To(r).engine

Backup(r) == At(r, "backup") /\ Passes(r)

SetLinePairing(r, pairing, cleanups) ==
    Commits(r, [reg EXCEPT !.bundle = pairing.bundle, !.engine = pairing.engine],
            [row EXCEPT !.engine = pairing.engine], cleanups)

\* The bundle and the engine in one commit, over the pairing the plan found or this run's own.
WritePairing(r) ==
    /\ At(r, "write-pairing")
    /\ carries(reg, From(r)) \/ carries(reg, To(r))
    /\ SetLinePairing(r, To(r), Arm(r, "restore-pairing"))

WatchPairing(r) ==
    At(r, "watch-pairing") /\ carries(reg, To(r)) /\ Renders(LAMBDA e : carries(e, To(r))) /\ Passes(r)

RestorePairing(r) ==
    /\ At(r, "restore-pairing")
    /\ \/ ~carries(reg, To(r)) /\ Passes(r)
       \/ carries(reg, To(r)) /\ ~rendersAnyOfTarget(r) /\ SetLinePairing(r, From(r), run[r].armed)

\* The registration as it was dumped; the row is told no version.
RestoreRegistration(r) ==
    /\ At(r, "restore-registration")
    /\ Commits(r, [reg EXCEPT !.bundle = To(r).bundle, !.engine = To(r).engine], row, run[r].armed)

VersionMoves(r) ==
    \/ PublishIssuerRecord(r) \/ TenantImages(r) \/ ProvisionArgoSync(r) \/ WriteMembers(r)
    \/ WriteVersions(r) \/ WatchSyncSet(r) \/ WatchVersions(r) \/ RestoreVersions(r) \/ RestoreMembers(r)
    \/ Backup(r) \/ WritePairing(r) \/ WatchPairing(r) \/ RestorePairing(r) \/ RestoreRegistration(r)

-----------------------------------------------------------------------------
\* assertAbortable of the kinds that have one: asked before the cleanups are scheduled.
ownDomainAbortable(r) ==
    \/ From(r).domain \in {0, To(r)} \/ From(r).domain \notin world.zones
    \/ record[From(r).domain] = "ours"
    \/ record[From(r).domain] = "customer" /\ From(r).domain \in CustomerCname
websiteSiteAbortable(r) == reg.site # To(r).site
refreshAbortable(r) ==
    \/ From(r).members = To(r).members \/ reg.members # To(r).members
    \/ ~Renders(LAMBDA e : e.members = To(r).members)
lineMoveAbortable(r) == From(r) = To(r) \/ ~carries(reg, To(r)) \/ ~rendersAnyOfTarget(r)

Abortable(r) ==
    CASE Param(r).kind = "own-domain" -> ownDomainAbortable(r)
      [] Param(r).kind = "website-site" -> websiteSiteAbortable(r)
      [] Param(r).kind = "versions" -> refreshAbortable(r)
      [] Param(r).kind = "line-move" -> lineMoveAbortable(r)
      [] OTHER -> TRUE

Abort(r) ==
    /\ run[r].st = "failed" /\ Abortable(r)
    /\ Aborts(r)
    /\ UNCHANGED tenantVars /\ UNCHANGED abandoned

Operate(r) ==
    /\ Managed(r)
    /\ abandoned' = (abandoned \/ (run[r].st = "failed" /\ run'[r].st = "idle"))
    /\ UNCHANGED tenantVars

\* External: ArgoCD renders a member at the registration as it is now.
Argo(m) ==
    /\ shown[m] # reg
    /\ shown' = [shown EXCEPT ![m] = reg]
    /\ UNCHANGED <<run, used, reg, row, record, mail, vault, world, abandoned>>

\* External: External Secrets copies the entry into the members' Secrets.
Eso ==
    /\ vault.secret # vault.entry
    /\ vault' = [vault EXCEPT !.secret = vault.entry]
    /\ UNCHANGED <<run, used, reg, row, shown, record, mail, world, abandoned>>

\* External: where nobody here manages a domain's zone its operator points it at the tenant, or away.
SetByOperator ==
    /\ "own-domain" \in world.kinds
    /\ \E v \in Values \ (world.zones \cup {0}) :
           record' = [record EXCEPT ![v] = IF record[v] = "operator" THEN "none" ELSE "operator"]
    /\ UNCHANGED <<run, used, reg, row, shown, mail, vault, world, abandoned>>

\* Another tenant of the stage takes a sender domain, by the same rule and under the same locks; the
\* product's manifest moves.
Elsewhere ==
    /\ \/ /\ "sender-domain" \in world.kinds
          /\ \A r \in Runs : ~Holding(r)
          /\ \E v \in Values : v # world.other /\ (v = 0 \/ reg.sender # v) /\ world' = [world EXCEPT !.other = v]
       \/ "versions" \in world.kinds /\ world.manifest = 0 /\ world' = [world EXCEPT !.manifest = 1]
    /\ UNCHANGED <<run, used, reg, row, shown, record, mail, vault, abandoned>>

Next ==
    \/ \E r \in Runs : Plan(r) \/ Operate(r) \/ Abort(r) \/ AttestTarget(r)
                       \/ OwnDomain(r) \/ SenderDomain(r) \/ Settings(r) \/ Typed(r) \/ VersionMoves(r)
    \/ \E m \in Members : Argo(m)
    \/ Eso \/ SetByOperator \/ Elsewhere

Spec == Init /\ [][Next]_vars

-----------------------------------------------------------------------------
\* The properties.

\* No run is under way, and every one that failed was retried or aborted to its end.
Settled == ~abandoned /\ \A r \in Runs : ~Holding(r)

\* What the cleanups promise: the former name, sender domain and versions on the registration AND the
\* row again. Where a cleanup writes back only while the registration carries the run's value, one that
\* died between its two writes does nothing when it is retried.
RowAndRegistrationAgree ==
    Settled => row.sender = reg.sender /\ row.name = reg.name /\ row.engine = reg.engine

\* An own domain the tenant is recorded under, in a zone the provider manages, always has its DNS
\* record, whatever was retired, aborted or deleted on the way; in any other zone the record is its
\* operator's. And when all is settled the registration names the row's domain too, and no other domain
\* has a record of ours.
OwnDomainStands ==
    /\ row.domain \in world.zones => record[row.domain] = "ours"
    /\ Settled => reg.domain = row.domain /\ \A v \in Values : record[v] = "ours" => v = row.domain

\* The claim of tenant-sender-domain.run.ts: an abort has the tenant send as its former domain again.
\* So whatever domain the registration names, the mail service lets the stage's issuer send from it.
SenderIsBound == reg.sender # 0 => reg.sender \in mail.bound

\* The issuer may send from the domain, mail from it is signed, and no other tenant of the stage has it.
CanSend(v) == v \in mail.bound /\ mail.txt["dkim"][v] # 0 /\ world.other # v

\* A run puts the members on a domain they can send from, and no step of any run, abort or other tenant
\* takes that away while the registration names it. Only the write-back of an abort is left out: it
\* names the domain the plan found, whatever became of it (SenderIsBound).
SenderCanSend ==
    [][\A v \in Values \ {0} : reg'.sender = v =>
        \/ CanSend(v)'
        \/ IF reg.sender = v THEN ~CanSend(v) ELSE \E r \in Runs : At(r, "restore-sender-domain")]_vars

\* Once settled, nothing signs in with an end-to-end password to a tenant that is no demo.
PasswordOnlyForDemos == Settled => (vault.e2e => reg.demo)

\* The claim of tenant-demo.run.ts: the password is there before the registration says demo, because a
\* demo's ExternalSecret fails its sync while the entry is missing.
DemoHasItsPassword == Settled => (reg.demo => vault.e2e)

\* Once settled the bundle runs beside an engine of its own line, over stale plans, two-commit moves and
\* aborts in any order.
SettledPairing == Settled => versionLine(reg.bundle) = versionLine(reg.engine)

\* What a run was asked for stands.
Stands(p) ==
    CASE p.kind = "own-domain" -> {reg.domain, row.domain} = {p.to} /\ Renders(LAMBDA e : e.domain = p.to)
      [] p.kind = "sender-domain" -> {reg.sender, row.sender} = {p.to} /\ p.from.sender \notin mail.bound \ {p.to}
      [] p.kind = "display-name" -> {reg.name, row.name} = {p.to}
      [] p.kind = "demo" -> reg.demo = p.to /\ vault.e2e = p.to
      [] p.kind = "google" -> vault.engine = p.to
      [] p.kind = "versions" -> reg.bundle = p.to.bundle /\ row.engine = reg.engine
      [] p.kind = "line-move" -> carries(reg, p.to)
      [] OTHER -> TRUE

\* A run that ends without an abort leaves what it was asked for: on the registration and the row, in
\* DNS and at the mail service, at the engines, and rendered where it waits for it.
EndedRunStands ==
    [][\A r \in Runs : Finish(r) /\ ~run[r].undo => Stands(Param(r))]_vars

\* The claim of tenant-line-move.run.ts: where its abort is refused the Restore of the backup is the way
\* back, after which the abort closes the run. So a Restore that is planned beside such a run can start.
RestoreIsAWayBack ==
    \A q, r \in Runs :
        (run[q].st = "failed" /\ Param(q).kind = "line-move" /\ ~lineMoveAbortable(q)
            /\ run[r].st = "planned" /\ Param(r).kind = "restore")
        => run[q].claims \cap run[r].claims = {}

\* What stands of a tenant's settings at every step, and once every change is settled.
ChangesInv == TypeOK /\ OwnDomainStands /\ PasswordOnlyForDemos

=============================================================================
