------------------------------- MODULE Slaves -------------------------------
(***************************************************************************)
(* The machines of an installation: deploying a slave, redeploying one or  *)
(* all, renaming one, removing one, and the runs on a machine's doors (key *)
(* line, password login, operator keys, private network). A machine's own  *)
(* deployment programs run DETACHED on it (env.fl): a step starts one,     *)
(* keeps its id in its checkpoint and follows it; a step that gives up     *)
(* leaves it going, and so does the abort of its run. The master's side of *)
(* a slave is built and taken down by such programs on the master.         *)
(* Addresses of the private network are numbers, 0 none.                   *)
(* External: the engine on a machine, the coordinator, ArgoCD, resolvers.  *)
(***************************************************************************)
EXTENDS RunChain, FiniteSets
LOCAL INSTANCE SequencesExt

CONSTANTS Machines,   \* the machines the inventory lists
          hub,        \* the one that carries the master part
          Fqdns,      \* the names a cluster can stand at
          Label,      \* the machine named by a name's first label
          Starts      \* how a behaviour begins (see Init)

ASSUME SlavesAssumption == hub \in Machines /\ Label \in [Fqdns -> Machines]

VARIABLES row,      \* per machine: its server row, its cluster row, the credentials sealed for it
          box,      \* per machine: its doors, what the platform placed on it, its address
          master,   \* per machine: the nodes the coordinator lists, the plane on the master
          books,    \* per name: the cluster map on the books branch
          zone,     \* DNS: wildcards, address records, and where each machine's unit records point
          env,      \* which machines answer, machine runs in flight, the marks steps keep of them; and what
                    \* the properties need to know of the past (late, hit, passed)
          scope     \* how this behaviour began

vars == <<run, used, row, box, master, books, zone, env, scope>>

Slaves == Machines \ {hub}
Layers == {"deploy-host", "deploy-cluster", "deploy-platform-services"}
NoFqdn == "none"
NoMap == [of |-> NoFqdn, part |-> FALSE, addr |-> 0]
NoMark == [step |-> "none", st |-> "none"]
Elsewhere == "elsewhere"   \* where a unit record points that is not this cluster's to move
MasterPrograms == {"create-mgmt", "remove-slave"}

\* The resources a plan can claim.
Host(m) == <<"host", m>>
GitBranch(f) == <<"git-branch", f>>
masterVault == <<"master-vault", "m">>
masterKube == <<"master-kube", "m">>

\* A machine as the hosting provider hands it over: a password door, nothing of ours.
FreshBox == [door |-> TRUE, line |-> FALSE, grant |-> FALSE, op |-> FALSE, engine |-> "none", layers |-> {}, tail |-> 0]

\* A server row nothing was deployed to.
BareRow == [st |-> "bare", adopted |-> FALSE, addr |-> 0, key |-> FALSE, boot |-> TRUE, gone |-> FALSE,
            cst |-> "none", fqdn |-> NoFqdn, ord |-> 0, pst |-> "absent", sealed |-> FALSE]

DeployedBox == [FreshBox EXCEPT !.door = FALSE, !.line = TRUE, !.engine = "pinned", !.layers = Layers, !.tail = 1]

DeployedRow(f, n) ==
    [BareRow EXCEPT !.st = "healthy", !.adopted = TRUE, !.addr = 1, !.key = TRUE, !.boot = FALSE,
                    !.cst = "active", !.fqdn = f, !.ord = n, !.pst = "ready", !.sealed = TRUE]

\* One type invariant: what the rows, the machines and the books can say.
TypeOK ==
    /\ \A m \in Machines :
           /\ row[m].st \in {"bare", "ready", "provisioning", "healthy", "undeployed"}
           /\ row[m].cst \in {"none", "planned", "provisioning", "active", "removing", "removed"}
           /\ (row[m].cst = "none") <=> (row[m].fqdn = NoFqdn)
           /\ row[m].pst \in {"absent", "creating", "verifying", "ready"}
           /\ box[m].engine \in {"none", "pinned"} /\ box[m].layers \subseteq Layers
           /\ master[m].plane => row[m].cst # "none"
    /\ \A f \in Fqdns : books[f].of \in Machines \cup {NoFqdn} /\ (books[f].part => books[f].of # NoFqdn)
    /\ \A m, n \in Machines : row[m].fqdn = row[n].fqdn /\ row[m].fqdn # NoFqdn => m = n
    /\ \A x \in env.fl : x.g \in Machines

-----------------------------------------------------------------------------
(* Reaching a machine, and ending a step. *)

\* ctx.ssh(): this manager's key opens a session.
Reaches(m) == m \in env.up /\ row[m].key /\ box[m].line

Fleet(r) == Param(r).kind = "redeploy-slaves"

\* The key where one is held and taken, the run's password where none is. A run over every slave opens
\* no password door, and no session on a machine that is not among the targets of its plan.
openDoor(r) ==
    LET g == On(r)
    IN IF Fleet(r) THEN Reaches(g) /\ Host(g) \in run[r].claims ELSE g \in env.up /\ (Reaches(g) \/ box[g].door)

\* A failed deployment frees its server and parks its cluster row, keeping the ordinal.
onTerminal(r, rows) ==
    IF Param(r).kind # "deploy" THEN rows
    ELSE [rows EXCEPT ![Param(r).g] =
             [@ EXCEPT !.st = IF @ = "provisioning" THEN "ready" ELSE @,
                       !.cst = IF @ = "provisioning" THEN "planned" ELSE @]]

\* The step of one slave threw: the run over every slave goes on with the others' (redeploy-slaves).
OneOfTheFleetFailed(r) ==
    /\ used.fails < MaxFails
    /\ used' = [used EXCEPT !.fails = @ + 1]
    /\ run' = [run EXCEPT ![r].todo = Tail(@), ![r].mem = @ \cup {"failed"}]

\* The step's effect stands, with the rows it leaves; it may have thrown after it.
EndsAs(r, rec, rows) ==
    \/ run' = [run EXCEPT ![r] = [rec EXCEPT !.todo = Tail(@)]] /\ row' = rows /\ UNCHANGED used
    \/ ~Fleet(r) /\ Fails(r, rec) /\ row' = onTerminal(r, rows)
    \/ Fleet(r) /\ OneOfTheFleetFailed(r) /\ row' = rows

Ends(r, rows) == EndsAs(r, run[r], rows)

\* The step throws, with the rows it leaves.
Stops(r, rows) ==
    \/ ~Fleet(r) /\ Fails(r, run[r]) /\ row' = onTerminal(r, rows)
    \/ Fleet(r) /\ OneOfTheFleetFailed(r) /\ row' = rows

\* ctx.registerCleanup: an abort runs them newest first.
HasArmed(r, name) == \E i \in DOMAIN run[r].armed : run[r].armed[i].s = name

Armed(r, name) ==
    IF HasArmed(r, name) THEN run[r]
    ELSE [run[r] EXCEPT !.armed = <<[s |-> name, g |-> On(r), by |-> "undo"]>> \o @]

\* A redeploy arms none of the cleanups of the steps it shares with the deployment and the door runs.
Arming(r, name) == IF By(r) \in {"deploy", "own"} THEN Armed(r, name) ELSE run[r]

\* The name the run acts at: stated by a deployment, read off the live row by every other run.
Domain(r) == IF Param(r).kind = "deploy" THEN Param(r).fqdn ELSE row[On(r)].fqdn
activeClusterTarget(r) == Param(r).kind = "deploy" \/ row[On(r)].cst = "active"

\* Two maps under one name stop every reading of the books.
indexMarkings == \A f, h \in Fqdns : books[f].of = books[h].of /\ books[f].of # NoFqdn => f = h

keep(v) == UNCHANGED v

-----------------------------------------------------------------------------
(* First contact: the steps that make a machine take this manager's key. *)

\* Which rows a deployment may start on: a cluster row to resume, or a machine with none.
attestAdmits(g, f, mode) ==
    LET byDomain == {m \in Machines : row[m].fqdn = f}
        redeployActive == mode = "redeploy" /\ row[g].fqdn = f /\ row[g].cst = "active"
        resume == byDomain # {}
    IN /\ resume \/ Label[f] = g
       /\ row[g].fqdn \in {f, NoFqdn} /\ byDomain \subseteq {g}
       /\ resume => row[g].cst \in {"planned", "provisioning"} \/ redeployActive
       /\ row[g].st \in (IF redeployActive THEN {"healthy", "ready", "provisioning"}
                         ELSE IF resume THEN {"ready", "provisioning"} ELSE {"bare", "ready"})

NextOrdinal == 1 + Cardinality({m \in Slaves : row[m].ord # 0})

attestTarget(r) ==
    /\ At(r, "attest-target") /\ activeClusterTarget(r) /\ ~row[On(r)].gone
    /\ LET g == On(r) f == Domain(r)
           fresh == row[g].cst = "none"
       IN /\ attestAdmits(g, f, By(r)) /\ openDoor(r) /\ f \in zone.wild /\ f \in zone.names
          /\ IF By(r) = "redeploy" THEN Ends(r, row)
             ELSE Ends(r, [row EXCEPT ![g] = [@ EXCEPT
                      !.cst = "provisioning", !.fqdn = f, !.ord = IF fresh THEN NextOrdinal ELSE @,
                      !.st = IF fresh \/ @ = "ready" THEN "provisioning" ELSE @]])
    /\ keep(<<box, master, books, zone, env, scope>>)

\* A live cluster is attested by its machine alone (the master's redeploy).
attestCluster(r) ==
    /\ At(r, "attest-cluster") /\ activeClusterTarget(r) /\ openDoor(r)
    /\ Ends(r, row) /\ keep(<<box, master, books, zone, env, scope>>)

proveElevation(r) ==
    /\ At(r, "prove-elevation") /\ openDoor(r)
    /\ Ends(r, row) /\ keep(<<box, master, books, zone, env, scope>>)

generateKey(r) ==
    /\ At(r, "generate-key")
    /\ Ends(r, [row EXCEPT ![On(r)].key = TRUE]) /\ keep(<<box, master, books, zone, env, scope>>)

\* Armed only where the line was absent: an abort takes off what this run put on.
installKey(r) ==
    /\ At(r, "install-key") /\ openDoor(r) /\ row[On(r)].key
    /\ EndsAs(r, IF box[On(r)].line THEN run[r] ELSE Arming(r, "remove-manager-key"), row)
    /\ box' = [box EXCEPT ![On(r)].line = TRUE]
    /\ keep(<<master, books, zone, env, scope>>)

verifyKeyLogin(r) ==
    /\ At(r, "verify-key-login") /\ Reaches(On(r))
    /\ Ends(r, [row EXCEPT ![On(r)].adopted = TRUE]) /\ keep(<<box, master, books, zone, env, scope>>)

enableNtp(r) ==
    /\ At(r, "enable-ntp") /\ openDoor(r)
    /\ Ends(r, row) /\ keep(<<box, master, books, zone, env, scope>>)

removeSudoers(r) ==
    /\ At(r, "remove-sudoers") /\ openDoor(r)
    /\ Ends(r, row) /\ box' = [box EXCEPT ![On(r)].grant = FALSE]
    /\ keep(<<master, books, zone, env, scope>>)

slavePreflight(r) ==
    /\ At(r, "slave-preflight") /\ Reaches(On(r))
    /\ Ends(r, row) /\ keep(<<box, master, books, zone, env, scope>>)

\* Mutant: the shut door is not armed to go back on.
MutantDisablePasswordLogin(r) ==
    /\ At(r, "disable-password-login") /\ Reaches(On(r))
    /\ Ends(r, row) /\ box' = [box EXCEPT ![On(r)].door = FALSE]
    /\ keep(<<master, books, zone, env, scope>>)

\* Armed unless the door was measured shut; the script refuses where no key would be taken.
disablePasswordLogin(r) ==
    /\ At(r, "disable-password-login") /\ Reaches(On(r))
    /\ EndsAs(r, IF box[On(r)].door THEN Arming(r, "restore-password-login") ELSE run[r], row)
    /\ box' = [box EXCEPT ![On(r)].door = FALSE]
    /\ keep(<<master, books, zone, env, scope>>)

enablePasswordLogin(r) ==
    /\ At(r, "enable-password-login") /\ Reaches(On(r))
    /\ Ends(r, row) /\ box' = [box EXCEPT ![On(r)].door = TRUE]
    /\ keep(<<master, books, zone, env, scope>>)

purgeBootstrapPassword(r) ==
    /\ At(r, "purge-bootstrap-password")
    /\ Ends(r, [row EXCEPT ![On(r)].boot = FALSE]) /\ keep(<<box, master, books, zone, env, scope>>)

-----------------------------------------------------------------------------
(* The machine layer: the engine, and the programs that run on the machine. *)

\* The map carries the address the row has when it is written; the name is the server's.
serializeMarking(m) == [of |-> m, part |-> TRUE, addr |-> row[m].addr]
writeClusterMarking(f, m) == books' = [books EXCEPT ![f] = serializeMarking(m)]

markSlave(r) ==
    /\ At(r, "mark-slave") /\ activeClusterTarget(r) /\ Reaches(On(r))
    /\ indexMarkings /\ row[On(r)].fqdn = Domain(r)
    /\ \A f \in Fqdns \ {Domain(r)} : books[f].of # On(r)
    /\ EndsAs(r, Arming(r, "remove-slave-marking"), row)
    /\ writeClusterMarking(Domain(r), On(r))
    /\ keep(<<box, master, zone, env, scope>>)

\* Mutant: the first thing written on the machine is armed by nobody.
MutantPlaceAnsiwise(r) ==
    /\ At(r, "place-ansiwise") /\ Reaches(On(r))
    /\ Ends(r, row) /\ box' = [box EXCEPT ![On(r)].engine = "pinned"]
    /\ keep(<<master, books, zone, env, scope>>)

placeAnsiwise(r) ==
    /\ At(r, "place-ansiwise") /\ Reaches(On(r))
    /\ EndsAs(r, Arming(r, "leave-host"), row)
    /\ box' = [box EXCEPT ![On(r)].engine = "pinned"]
    /\ keep(<<master, books, zone, env, scope>>)

\* What was installed does not hash to its stated digest: it is taken off the path again.
placedAndTakenOff(r) ==
    /\ At(r, "place-ansiwise") /\ Reaches(On(r)) /\ box[On(r)].engine # "pinned"
    /\ Stops(r, row) /\ keep(<<box, master, books, zone, env, scope>>)

placeAnsiwiseOnMaster(r) ==
    /\ At(r, "place-ansiwise-master") /\ hub \in env.up
    /\ Ends(r, row) /\ keep(<<box, master, books, zone, env, scope>>)

\* The mark this step keeps of its machine run; another step's mark is not its own.
Mark(r) ==
    LET c == env.cp[<<r, On(r)>>] IN IF c.step = Head(run[r].todo).s THEN c.st ELSE "none"

\* The machine takes a run on, and it outlives the conversation that started it.
startRun(g, s, r, addr) == env.fl \cup {[g |-> g, step |-> s, by |-> r, addr |-> addr]}

\* A finished run that failed is not watched again: a fresh one is started.
Launches(r, addr) ==
    LET g == On(r) s == Head(run[r].todo).s
    IN /\ Mark(r) \in {"none", "bad"}
       /\ env' = [env EXCEPT !.cp[<<r, g>>] = [step |-> s, st |-> "going"], !.fl = startRun(g, s, r, addr)]

MachineStep(r) == run[r].st = "running" /\ run[r].todo # <<>> /\
                  Head(run[r].todo).s \in Layers \cup {"tailnet-disconnect", "tailnet-reconnect"}

startProgram(r) ==
    /\ MachineStep(r) /\ activeClusterTarget(r) /\ Reaches(On(r)) /\ box[On(r)].engine = "pinned"
    /\ Launches(r, 0)
    /\ keep(<<run, used, row, box, master, books, zone, scope>>)

\* The record ended green: the step is done. One that timed out re-attaches to the same run.
followProgram(r) ==
    /\ run[r].st = "running" /\ run[r].todo # <<>> /\ On(r) \in Machines /\ Mark(r) = "ok" /\ Reaches(On(r))
    /\ Head(run[r].todo).s \notin MasterPrograms
    /\ Ends(r, row) /\ keep(<<box, master, books, zone, env, scope>>)

Fresh(m) == env.given[m] + 1
NoPlane == [nodes |-> {}, plane |-> FALSE, dials |-> 0]

\* What a program leaves on its machine, or on the master, when it ends green.
Lands(x) ==
    /\ box' = CASE x.step \in Layers -> [box EXCEPT ![x.g].layers = @ \cup {x.step}]
                [] x.step \in {"rejoin", "join-if-absent"} -> [box EXCEPT ![x.g].tail = Fresh(x.g)]
                [] x.step = "tailnet-disconnect" -> [box EXCEPT ![x.g].tail = 0]
                [] x.step = "tailnet-reconnect" ->
                       [box EXCEPT ![x.g].tail = IF env.given[x.g] \in master[x.g].nodes THEN env.given[x.g] ELSE @]
                [] OTHER -> box
    /\ master' = CASE x.step \in {"rejoin", "join-if-absent"} -> [master EXCEPT ![x.g].nodes = @ \cup {Fresh(x.g)}]
                   [] x.step = "create-mgmt" -> [master EXCEPT ![x.g].plane = TRUE, ![x.g].dials = x.addr]
                   [] x.step = "remove-slave" -> [master EXCEPT ![x.g] = NoPlane]
                   [] OTHER -> master

\* The programs that ended on a machine, or for it on the master, with no step following them any more
\* and no cleanup after them; and the runs that were at work on the machine when one did.
LateAfter(x) ==
    (IF x.step = "remove-slave" THEN env.late \ {<<x.g, "create-mgmt">>} ELSE env.late)
    \cup (IF x.by = "nobody" THEN {<<x.g, x.step>>} ELSE {})

HitBy(x) == IF x.by = "nobody" THEN {r \in Runs : Holding(r) /\ Host(x.g) \in run[r].claims} ELSE {}

\* The record carries the end of the machine run; only the step that started it reads it.
MarkOf(x, st) ==
    IF x.by \in Runs /\ env.cp[<<x.by, x.g>>].step = x.step
    THEN [env.cp EXCEPT ![<<x.by, x.g>>].st = st] ELSE env.cp

\* A machine run ends green.
machineRunEnds(x) ==
    /\ Lands(x)
    /\ env' = [env EXCEPT !.fl = @ \ {x}, !.cp = MarkOf(x, "ok"), !.late = LateAfter(x), !.hit = @ \cup HitBy(x),
                          !.given[x.g] = IF x.step \in {"rejoin", "join-if-absent"} THEN @ + 1 ELSE @]
    /\ keep(<<run, used, row, books, zone, scope>>)

\* It fails; a rejoin may have logged the host out before it failed to join it.
machineRunFails(x) ==
    /\ used.fails < MaxFails /\ used' = [used EXCEPT !.fails = @ + 1]
    /\ env' = [env EXCEPT !.fl = @ \ {x}, !.cp = MarkOf(x, "bad"), !.hit = @ \cup HitBy(x)]
    /\ box' = IF x.step \in {"rejoin", "join-if-absent"} THEN [box EXCEPT ![x.g].tail = 0] ELSE box
    /\ keep(<<run, row, master, books, zone, scope>>)

\* Nobody follows the machine runs this run started; they go on.
LetGo(r) == {[x EXCEPT !.by = IF @ = r THEN "nobody" ELSE @] : x \in env.fl}

\* The abort or the deletion of a run forgets its marks.
Orphaned(r) ==
    env' = [env EXCEPT !.cp = [k \in Runs \X Machines |-> IF k[1] = r THEN NoMark ELSE @[k]], !.fl = LetGo(r)]

-----------------------------------------------------------------------------
(* The private network, and the master's side of a slave. *)

\* The old node goes at the coordinator first, then the host logs out and joins again.
startRejoin(r) ==
    /\ run[r].st = "running" /\ run[r].todo # <<>> /\ Head(run[r].todo).s \in {"rejoin", "join-if-absent"}
    /\ activeClusterTarget(r) /\ Reaches(On(r)) /\ box[On(r)].engine = "pinned"
    /\ At(r, "join-if-absent") => box[On(r)].tail = 0
    /\ books[Domain(r)].of # NoFqdn /\ indexMarkings
    /\ master' = [master EXCEPT ![On(r)].nodes = {}]
    /\ run' = [run EXCEPT ![r] = IF At(r, "rejoin") THEN Arming(r, "remove-slave") ELSE run[r]]
    /\ Launches(r, 0)
    /\ keep(<<used, row, box, books, zone, scope>>)

\* The nodes are dropped and the mint fails: the host was not touched.
mintFails(r) ==
    /\ run[r].st = "running" /\ run[r].todo # <<>> /\ Head(run[r].todo).s \in {"rejoin", "join-if-absent"}
    /\ Reaches(On(r)) /\ Mark(r) \in {"none", "bad"}
    /\ At(r, "join-if-absent") => box[On(r)].tail = 0
    /\ master' = [master EXCEPT ![On(r)].nodes = {}]
    /\ Stops(r, row) /\ keep(<<box, books, zone, env, scope>>)

\* A host that reports its client running keeps its address: nothing is minted.
joinIfAbsent(r) ==
    /\ At(r, "join-if-absent") /\ Mark(r) = "none" /\ Reaches(On(r)) /\ box[On(r)].tail # 0
    /\ Ends(r, row) /\ keep(<<box, master, books, zone, env, scope>>)

readMembership(r) ==
    /\ At(r, "read-membership") /\ Reaches(On(r))
    /\ Ends(r, row) /\ keep(<<box, master, books, zone, env, scope>>)

alignMapAddress(f, addr) == books' = [books EXCEPT ![f].addr = addr]

\* The coordinator lists exactly one node: the row is brought to its address, then the map.
declareTailnetAddress(r) ==
    /\ At(r, "declare-tailnet-address") /\ activeClusterTarget(r)
    /\ LET nodes == master[On(r)].nodes
       IN /\ Cardinality(nodes) = 1
          /\ \E a \in nodes :
                 \/ books[Domain(r)].of # NoFqdn /\ indexMarkings
                    /\ Ends(r, [row EXCEPT ![On(r)].addr = a]) /\ alignMapAddress(Domain(r), a)
                 \/ Stops(r, [row EXCEPT ![On(r)].addr = a]) /\ keep(books)
    /\ keep(<<box, master, zone, env, scope>>)

\* The slave emits its credentials, which are sealed; the master's program is then started with the
\* address the row has.
createMgmt(r) ==
    /\ At(r, "create-mgmt") /\ activeClusterTarget(r) /\ Reaches(On(r)) /\ box[On(r)].engine = "pinned"
    /\ row' = [row EXCEPT ![On(r)].pst = "creating", ![On(r)].sealed = TRUE]
    /\ Launches(r, row[On(r)].addr)
    /\ keep(<<run, used, box, master, books, zone, scope>>)

createMgmtEnds(r) ==
    /\ At(r, "create-mgmt") /\ Mark(r) = "ok"
    /\ Ends(r, row) /\ keep(<<box, master, books, zone, env, scope>>)

\* The slave part of the map makes the master's ApplicationSet generate the slave's instance.
Generated(m) == \E f \in Fqdns : books[f].of = m /\ books[f].part

gitopsHandoff(r) ==
    /\ At(r, "gitops-handoff") /\ activeClusterTarget(r) /\ Generated(On(r))
    /\ Ends(r, row) /\ keep(<<box, master, books, zone, env, scope>>)

\* The instance dials the slave at the address of the map, with the credentials the plane was given.
verifySlave(r) ==
    /\ At(r, "verify-slave") /\ activeClusterTarget(r) /\ Reaches(On(r))
    /\ Generated(On(r)) /\ master[On(r)].plane /\ books[Domain(r)].addr = box[On(r)].tail
    /\ Ends(r, [row EXCEPT ![On(r)].pst = "verifying"])
    /\ keep(<<box, master, books, zone, env, scope>>)

register(r) ==
    /\ At(r, "register") /\ activeClusterTarget(r) /\ row[On(r)].sealed
    /\ Ends(r, [row EXCEPT ![On(r)].cst = "active", ![On(r)].pst = "ready", ![On(r)].st = "healthy"])
    /\ keep(<<box, master, books, zone, env, scope>>)

headlampContexts(r) ==
    /\ At(r, "headlamp-contexts")
    /\ Ends(r, row) /\ keep(<<box, master, books, zone, env, scope>>)

argocdFollow(r) ==
    /\ At(r, "argocd-follow") /\ activeClusterTarget(r)
    /\ Ends(r, row) /\ keep(<<box, master, books, zone, env, scope>>)

-----------------------------------------------------------------------------
(* One run over every slave: each step is taken on all of them before the next one starts. The parts *)
(* that the code runs at once touch one machine each, so here they come one after the other.         *)

activeSlaves == {m \in Slaves : row[m].cst = "active"}

\* The slaves are read anew at the start of every pass.
PassMemory(r) == IF Fleet(r) THEN activeSlaves ELSE {}

Chain(names, g, by) == [i \in DOMAIN names |-> [s |-> names[i], g |-> g, by |-> by]]

fleetStepBegins(r) ==
    /\ At(r, "each-slave")
    /\ LET parts == SetToSeq(run[r].mem)
       IN run' = [run EXCEPT ![r].todo = [i \in DOMAIN parts |-> [s |-> By(r), g |-> parts[i], by |-> "redeploy"]]
                                         \o <<[s |-> "all-slaves", g |-> "fleet", by |-> By(r)]>> \o Tail(@)]
    /\ keep(<<used, row, box, master, books, zone, env, scope>>)

\* Every slave's part of a step is behind the run: it goes on, or fails as a whole.
fleetStepEnds(r) ==
    /\ At(r, "all-slaves")
    /\ IF Remembers(r, "failed")
       THEN run' = [run EXCEPT ![r].st = "failed", ![r].mem = {}, ![r].todo[1].s = "each-slave"]
       ELSE run' = [run EXCEPT ![r].todo = Tail(@)]
    /\ keep(<<used, row, box, master, books, zone, env, scope>>)

-----------------------------------------------------------------------------
(* Taking a slave out: the cleanups of a deployment, and the run that removes a slave. *)

dropPart(f) == [books EXCEPT ![f].part = FALSE, ![f].addr = 0]

Removing(r) == IF By(r) = "removal" THEN [row EXCEPT ![On(r)].cst = "removing"] ELSE row

attestRemoval(r) ==
    /\ At(r, "attest-removal") /\ row[On(r)].cst # "none" /\ hub \in env.up
    /\ Ends(r, row) /\ keep(<<box, master, books, zone, env, scope>>)

\* The map's slave part first, so that the generated instance goes before its project; then a program
\* on the master is started that takes the plane and the membership off it. The step follows it and
\* keeps no checkpoint: a retry, or a second abort, starts a fresh one beside the first.
takeSlavePlaneDown(r) ==
    /\ At(r, "remove-slave") /\ ~Remembers(r, "following") /\ indexMarkings /\ books' = dropPart(Domain(r))
    /\ \/ /\ hub \in env.up /\ row' = Removing(r) /\ UNCHANGED used
          /\ run' = [run EXCEPT ![r].mem = @ \cup {"following"}]
          /\ env' = [env EXCEPT !.cp[<<r, On(r)>>] = [step |-> "remove-slave", st |-> "going"],
                                !.fl = LetGo(r) \cup {[g |-> On(r), step |-> "remove-slave", by |-> r, addr |-> 0]}]
       \/ Stops(r, Removing(r)) /\ keep(env)
    /\ keep(<<box, master, zone, scope>>)

planeIsDown(r) ==
    /\ At(r, "remove-slave") /\ Remembers(r, "following") /\ Mark(r) = "ok"
    /\ Ends(r, row) /\ keep(<<box, master, books, zone, env, scope>>)

removeSlaveMarking(r) ==
    /\ At(r, "remove-slave-marking") /\ indexMarkings
    /\ Ends(r, row) /\ books' = dropPart(Domain(r))
    /\ keep(<<box, master, zone, env, scope>>)

leaveHost(r) ==
    /\ At(r, "leave-host") /\ Reaches(On(r)) /\ Ends(r, row)
    /\ box' = [box EXCEPT ![On(r)].engine = "none", ![On(r)].layers = {}, ![On(r)].tail = 0]
    /\ env' = [env EXCEPT !.late = {l \in @ : l[1] # On(r) \/ l[2] \in MasterPrograms}]
    /\ keep(<<master, books, zone, scope>>)

restorePasswordLogin(r) ==
    /\ At(r, "restore-password-login") /\ Reaches(On(r))
    /\ Ends(r, row) /\ box' = [box EXCEPT ![On(r)].door = TRUE]
    /\ keep(<<master, books, zone, env, scope>>)

\* The line comes off the machine, then the key out of the store; a step that stops between the two
\* holds a key the machine no longer takes.
removeManagerKey(r) ==
    /\ At(r, "remove-manager-key") /\ Reaches(On(r))
    /\ box' = [box EXCEPT ![On(r)].line = FALSE]
    /\ \/ Ends(r, [row EXCEPT ![On(r)].key = FALSE, ![On(r)].st = "bare", ![On(r)].adopted = FALSE])
       \/ Stops(r, row)
    /\ keep(<<master, books, zone, env, scope>>)

\* Only the removal passes over the machine's side; whether it answers is measured by each step anew.
machineDoesNotAnswer(r) ==
    /\ run[r].st = "running" /\ run[r].todo # <<>> /\ By(r) = "removal"
    /\ Head(run[r].todo).s \in {"leave-host", "restore-password-login", "remove-manager-key"}
    /\ ~Reaches(On(r)) /\ Ends(r, row)
    /\ env' = [env EXCEPT !.passed = IF At(r, "restore-password-login") THEN @ \cup {On(r)} ELSE @]
    /\ keep(<<box, master, books, zone, scope>>)

dropClusterMap(r) ==
    /\ At(r, "drop-cluster-map") /\ indexMarkings
    /\ Ends(r, row) /\ books' = [books EXCEPT ![row[On(r)].fqdn] = NoMap]
    /\ keep(<<box, master, zone, env, scope>>)

\* The server stands as its machine was left: bare where the key was taken off.
retireRows(r) ==
    /\ At(r, "retire-rows")
    /\ Ends(r, [row EXCEPT ![On(r)] = [@ EXCEPT !.cst = "removed", !.pst = "absent",
                                               !.st = IF @ = "bare" THEN @ ELSE "undeployed"]])
    /\ keep(<<box, master, books, zone, env, scope>>)

-----------------------------------------------------------------------------
(* Renaming a slave: the name it stands at moves, the machine stays. *)

attestRename(r) ==
    /\ At(r, "attest-rename") /\ row[On(r)].cst = "active" /\ row[On(r)].fqdn = Param(r).fqdn
    /\ \A m \in Machines : row[m].fqdn # Param(r).to
    /\ books[Param(r).to] = NoMap
    /\ Ends(r, row) /\ keep(<<box, master, books, zone, env, scope>>)

\* The row moves where it stands at one name, to the other.
MovesRow(g, from, to) == [row EXCEPT ![g].fqdn = IF @ = from THEN to ELSE @]

repointIdentity(r) ==
    /\ At(r, "repoint-identity")
    /\ EndsAs(r, Armed(r, "restore-identity"), MovesRow(On(r), Param(r).fqdn, Param(r).to))
    /\ keep(<<box, master, books, zone, env, scope>>)

restoreIdentity(r) ==
    /\ At(r, "restore-identity") /\ Ends(r, MovesRow(On(r), Param(r).to, Param(r).fqdn))
    /\ keep(<<box, master, books, zone, env, scope>>)

\* A name in no zone this installation manages is not written: the attestation measures that it resolves.
ensureWildcard(r) ==
    /\ At(r, "ensure-wildcard") /\ Ends(r, row)
    /\ zone' = [zone EXCEPT !.wild = @ \cup ({Param(r).to} \cap scope.zones)]
    /\ keep(<<box, master, books, env, scope>>)

\* One commit; nothing to move is fine only where the move was made before.
moveClusterMarking(from, to) ==
    /\ indexMarkings
    /\ \/ books[from] = NoMap /\ books[to] # NoMap /\ books' = books
       \/ books[from] # NoMap /\ books[to] = NoMap /\ books' = [books EXCEPT ![to] = books[from], ![from] = NoMap]

\* Mutant: the moved map is not armed to go back.
MutantMoveMap(r) ==
    /\ At(r, "move-map") /\ moveClusterMarking(Param(r).fqdn, Param(r).to)
    /\ Ends(r, row) /\ keep(<<box, master, zone, env, scope>>)

moveMap(r) ==
    /\ At(r, "move-map") /\ moveClusterMarking(Param(r).fqdn, Param(r).to)
    /\ EndsAs(r, Armed(r, "move-map-back"), row) /\ keep(<<box, master, zone, env, scope>>)

moveMapBack(r) ==
    /\ At(r, "move-map-back") /\ moveClusterMarking(Param(r).to, Param(r).fqdn)
    /\ Ends(r, row) /\ keep(<<box, master, zone, env, scope>>)

\* The records of the cluster's units move one by one: a step that stops leaves them at both names.
\* One that points at neither is left as it stands.
unitRecords(r, rec, from, to) ==
    LET at == zone.units[On(r)]
    IN \/ EndsAs(r, rec, row) /\ zone' = [zone EXCEPT !.units[On(r)] = (@ \ {from}) \cup (IF from \in at THEN {to} ELSE {})]
       \/ from \in at /\ Fails(r, rec) /\ row' = row /\ zone' = [zone EXCEPT !.units[On(r)] = @ \cup {to}]

repointUnitRecords(r) ==
    /\ At(r, "repoint-unit-records")
    /\ unitRecords(r, Armed(r, "repoint-unit-records-back"), Param(r).fqdn, Param(r).to)
    /\ keep(<<box, master, books, env, scope>>)

repointUnitRecordsBack(r) ==
    /\ At(r, "repoint-unit-records-back") /\ unitRecords(r, run[r], Param(r).to, Param(r).fqdn)
    /\ keep(<<box, master, books, env, scope>>)

\* The wildcard goes first, the address of the name after it; in a zone of somebody else's both stay.
removeOldRecords(r) ==
    /\ At(r, "remove-old-records")
    /\ LET old == {Param(r).fqdn} \cap scope.zones
           gone == [zone EXCEPT !.wild = @ \ old]
       IN \/ Ends(r, row) /\ zone' = [gone EXCEPT !.names = @ \ old]
          \/ Stops(r, row) /\ zone' = gone
    /\ keep(<<box, master, books, env, scope>>)

verifyApplications(r) ==
    /\ At(r, "verify-applications") /\ Generated(On(r)) /\ master[On(r)].plane
    /\ Ends(r, row) /\ keep(<<box, master, books, zone, env, scope>>)

-----------------------------------------------------------------------------
(* The keys of operators. *)

\* A run on a machine's doors reaches it over this manager's key alone.
attestMachine(r) ==
    /\ At(r, "attest-machine-key") /\ Reaches(On(r))
    /\ Ends(r, row) /\ keep(<<box, master, books, zone, env, scope>>)

placeOperatorKey(r) ==
    /\ At(r, "place-operator-key") /\ Reaches(On(r))
    /\ EndsAs(r, IF box[On(r)].op THEN run[r] ELSE Armed(r, "remove-operator-key"), row)
    /\ box' = [box EXCEPT ![On(r)].op = TRUE]
    /\ keep(<<master, books, zone, env, scope>>)

removeOperatorKey(r) ==
    /\ At(r, "remove-operator-key") /\ Reaches(On(r))
    /\ Ends(r, row) /\ box' = [box EXCEPT ![On(r)].op = FALSE]
    /\ keep(<<master, books, zone, env, scope>>)

readAuthorizedKeys(r) ==
    /\ At(r, "read-authorized-keys") /\ Reaches(On(r))
    /\ Ends(r, row) /\ keep(<<box, master, books, zone, env, scope>>)

-----------------------------------------------------------------------------
(* What an operator can ask for. *)

Asks(r, kind, g, f, to, claims, steps) ==
    /\ kind \in scope.kinds
    /\ Plans(r, [kind |-> kind, g |-> g, fqdn |-> f, to |-> to], claims, steps)
    /\ keep(<<row, box, master, books, zone, env, scope>>)

booksBranch == GitBranch(row[hub].fqdn)
masterSide == {booksBranch, masterVault, masterKube}

firstContactSteps ==
    <<"prove-elevation", "generate-key", "install-key", "verify-key-login", "enable-ntp", "remove-sudoers">>

deploySlaveSteps(mode) ==
    firstContactSteps \o
    <<"slave-preflight", "disable-password-login", "purge-bootstrap-password", "mark-slave", "place-ansiwise",
      "deploy-host", "deploy-cluster", "deploy-platform-services", "place-ansiwise-master",
      IF mode = "deploy" THEN "rejoin" ELSE "join-if-absent", "read-membership", "declare-tailnet-address",
      "create-mgmt", "gitops-handoff", "verify-slave", "register", "headlamp-contexts">>

planDeploy(r) == \E g \in scope.on, f \in Fqdns :
    /\ g # hub /\ ~row[g].gone
    /\ Asks(r, "deploy", g, f, f, {Host(g)} \cup masterSide,
            Chain(<<"attest-target">> \o deploySlaveSteps("deploy"), g, "deploy"))

planRedeploy(r) == \E g \in scope.on :
    /\ row[g].cst = "active"
    /\ IF g = hub
       THEN Asks(r, "redeploy", g, row[g].fqdn, row[g].fqdn, {Host(g), GitBranch(row[g].fqdn), masterKube},
                 Chain(<<"attest-cluster">> \o firstContactSteps \o
                       <<"place-ansiwise", "deploy-host", "deploy-cluster", "deploy-platform-services", "argocd-follow">>,
                       g, "redeploy"))
       ELSE Asks(r, "redeploy", g, row[g].fqdn, row[g].fqdn, {Host(g), GitBranch(row[g].fqdn)} \cup masterSide,
                 Chain(<<"attest-target">> \o deploySlaveSteps("redeploy"), g, "redeploy"))

planRedeploySlaves(r) ==
    /\ activeSlaves # {}
    /\ Asks(r, "redeploy-slaves", hub, NoFqdn, NoFqdn,
            {Host(m) : m \in activeSlaves} \cup {GitBranch(row[m].fqdn) : m \in activeSlaves} \cup masterSide,
            LET names == <<"attest-target">> \o deploySlaveSteps("redeploy")
            IN [i \in DOMAIN names |-> [s |-> "each-slave", g |-> "fleet", by |-> names[i]]])

planRename(r) == \E g \in scope.on, to \in Fqdns :
    /\ g # hub /\ row[g].cst = "active" /\ \A m \in Machines : row[m].fqdn # to
    /\ Asks(r, "rename", g, row[g].fqdn, to, {Host(g), GitBranch(row[g].fqdn), GitBranch(to)} \cup masterSide,
            Chain(<<"attest-rename", "repoint-identity", "ensure-wildcard", "attest-target", "move-map",
                    "repoint-unit-records">> \o deploySlaveSteps("redeploy") \o
                  <<"remove-old-records", "verify-applications">>, g, "redeploy"))

planRemove(r) == \E g \in scope.on :
    /\ g # hub /\ row[g].cst # "none"
    /\ Asks(r, "remove", g, row[g].fqdn, row[g].fqdn, {Host(g), Host(hub), booksBranch, masterKube},
            Chain(<<"attest-removal", "place-ansiwise-master", "remove-slave", "leave-host", "restore-password-login",
                    "remove-manager-key", "drop-cluster-map", "retire-rows", "headlamp-contexts">>, g, "removal"))

\* The acts on a machine's doors are refused where no key of this manager's is held.
planDoor(r, kind, steps) == \E g \in scope.on :
    /\ row[g].key /\ ~row[g].gone
    /\ Asks(r, kind, g, NoFqdn, NoFqdn, {Host(g)}, Chain(<<"attest-machine-key">> \o steps, g, "own"))

planPasswordLogin(r) ==
    \/ planDoor(r, "password-off", <<"verify-key-login", "disable-password-login", "purge-bootstrap-password">>)
    \/ planDoor(r, "password-on", <<"enable-password-login">>)

planOperatorKey(r) ==
    \/ planDoor(r, "key-place", <<"place-operator-key">>)
    \/ planDoor(r, "key-remove", <<"remove-operator-key">>)

planAuthorizedKeysRead(r) == planDoor(r, "key-read", <<"read-authorized-keys">>)

\* The master keeps its membership: every instance on it dials its slave over it.
planTailnet(r) == \E g \in scope.on :
    \/ /\ row[g].cst = "active"
       /\ Asks(r, "tailnet-rejoin", g, NoFqdn, NoFqdn, {Host(g), masterKube},
               Chain(<<"attest-machine-key", "place-ansiwise", "place-ansiwise-master", "rejoin", "read-membership">>,
                     g, "standalone"))
    \/ \E act \in {"tailnet-disconnect", "tailnet-reconnect"} :
          /\ ~row[g].gone /\ (act = "tailnet-disconnect" => g # hub)
          /\ Asks(r, act, g, NoFqdn, NoFqdn, {Host(g)} \cup (IF g = hub THEN {masterKube} ELSE {}),
                  Chain(<<"attest-machine-key", "place-ansiwise", act, "read-membership">>, g, "standalone"))
    \/ /\ ~row[g].gone
       /\ Asks(r, "tailnet-read", g, NoFqdn, NoFqdn, {Host(g)},
               Chain(<<"attest-machine-key", "read-membership">>, g, "standalone"))

\* A row without a cluster may be deleted, its credentials with it, and the machine listed again.
deleteServer(m) ==
    /\ "delete-server" \in scope.kinds /\ m \in scope.on \ {hub} /\ ~row[m].gone /\ row[m].cst = "none"
    /\ row' = [row EXCEPT ![m].gone = TRUE, ![m].key = FALSE, ![m].boot = FALSE]
    /\ keep(<<run, used, box, master, books, zone, env, scope>>)

createServer(m) ==
    /\ row[m].gone /\ row' = [row EXCEPT ![m] = BareRow]
    /\ keep(<<run, used, box, master, books, zone, env, scope>>)

-----------------------------------------------------------------------------
(* The machines themselves, and the specification. *)

fallsSilent(m) ==
    /\ scope.outage /\ m \in env.up \ {hub} /\ env' = [env EXCEPT !.up = @ \ {m}]
    /\ keep(<<run, used, row, box, master, books, zone, scope>>)

answersAgain(m) ==
    /\ m \notin env.up /\ env' = [env EXCEPT !.up = @ \cup {m}]
    /\ keep(<<run, used, row, box, master, books, zone, scope>>)

\* A machine no run is working on is reinstalled at the hosting provider.
reinstalled(m) ==
    /\ scope.reinstall /\ m # hub /\ \A r \in Runs : Holding(r) => Host(m) \notin run[r].claims
    /\ box' = [box EXCEPT ![m] = FreshBox]
    /\ env' = [env EXCEPT !.fl = {x \in @ : x.g # m \/ x.step \in MasterPrograms}, !.passed = @ \ {m}]
    /\ keep(<<run, used, row, master, books, zone, scope>>)

Home(m) == CHOOSE f \in Fqdns : Label[f] = m

Init ==
    /\ NoRuns /\ scope \in Starts
    /\ row = [m \in Machines |-> IF m \in scope.live THEN DeployedRow(Home(m), IF m = hub THEN 0 ELSE 1) ELSE BareRow]
    /\ box = [m \in Machines |-> IF m \in scope.live THEN DeployedBox ELSE FreshBox]
    /\ master = [m \in Machines |-> IF m \notin scope.live THEN NoPlane
                                    ELSE [nodes |-> {1}, plane |-> m # hub, dials |-> IF m = hub THEN 0 ELSE 1]]
    /\ books = [f \in Fqdns |-> IF Label[f] \in scope.live THEN [of |-> Label[f], part |-> TRUE, addr |-> 1] ELSE NoMap]
    /\ zone = [wild |-> {f \in Fqdns : Label[f] \in scope.on \cup scope.live} \cup (Fqdns \ scope.zones), names |-> Fqdns,
               units |-> [m \in Machines |-> IF m \in scope.live THEN {Home(m), Elsewhere} ELSE {}]]
    /\ env = [up |-> Machines, cp |-> [k \in Runs \X Machines |-> NoMark], fl |-> {}, late |-> {}, hit |-> {}, passed |-> {},
              given |-> [m \in Machines |-> IF m \in scope.live THEN 1 ELSE 0]]

\* Approved, and every claim is free: a failed run holds its claims too.
approved(r) ==
    /\ run[r].st = "planned"
    /\ \A q \in Runs \ {r} : Holding(q) => run[q].claims \cap run[r].claims = {}
    /\ run' = [run EXCEPT ![r].st = "running", ![r].mem = PassMemory(r)]
    /\ env' = [env EXCEPT !.hit = @ \ {r}]
    /\ keep(<<used, row, box, master, books, zone, scope>>)

stepThrows(r) ==
    /\ run[r].st = "running" /\ run[r].todo # <<>> /\ On(r) # "fleet"
    /\ Stops(r, row) /\ keep(<<box, master, books, zone, env, scope>>)

retried(r) ==
    /\ run[r].st = "failed" /\ run' = [run EXCEPT ![r].st = "running", ![r].mem = PassMemory(r)]
    /\ keep(<<used, row, box, master, books, zone, env, scope>>)

aborted(r) ==
    /\ Aborts(r) /\ ~run[r].undo /\ Orphaned(r)
    /\ keep(<<row, box, master, books, zone, scope>>)

finished(r) ==
    /\ Finish(r) /\ Orphaned(r)
    /\ keep(<<row, box, master, books, zone, scope>>)

deleted(r) ==
    /\ Delete(r) /\ Orphaned(r)
    /\ keep(<<row, box, master, books, zone, scope>>)

Planning(r) ==
    /\ run[r].st = "idle" /\ used.plans < MaxPlans
    /\ \/ planDeploy(r) \/ planRedeploy(r) \/ planRedeploySlaves(r) \/ planRename(r) \/ planRemove(r)
       \/ planPasswordLogin(r) \/ planOperatorKey(r) \/ planAuthorizedKeysRead(r) \/ planTailnet(r)

FirstContact(r) ==
    \/ attestTarget(r) \/ attestCluster(r) \/ proveElevation(r) \/ generateKey(r) \/ installKey(r)
    \/ verifyKeyLogin(r) \/ enableNtp(r) \/ removeSudoers(r) \/ slavePreflight(r) \/ disablePasswordLogin(r)
    \/ enablePasswordLogin(r) \/ purgeBootstrapPassword(r) \/ markSlave(r) \/ placeAnsiwise(r) \/ placedAndTakenOff(r)
    \/ placeAnsiwiseOnMaster(r)

Layering(r) ==
    \/ startProgram(r) \/ followProgram(r) \/ startRejoin(r) \/ mintFails(r) \/ joinIfAbsent(r) \/ readMembership(r)
    \/ declareTailnetAddress(r) \/ createMgmt(r) \/ createMgmtEnds(r) \/ gitopsHandoff(r) \/ verifySlave(r)
    \/ register(r) \/ headlampContexts(r) \/ argocdFollow(r) \/ fleetStepBegins(r) \/ fleetStepEnds(r)

Leaving(r) ==
    \/ attestRemoval(r) \/ takeSlavePlaneDown(r) \/ planeIsDown(r) \/ removeSlaveMarking(r) \/ leaveHost(r) \/ restorePasswordLogin(r)
    \/ removeManagerKey(r) \/ machineDoesNotAnswer(r) \/ dropClusterMap(r) \/ retireRows(r)

Renaming(r) ==
    \/ attestRename(r) \/ repointIdentity(r) \/ restoreIdentity(r) \/ ensureWildcard(r) \/ moveMap(r) \/ moveMapBack(r)
    \/ repointUnitRecords(r) \/ repointUnitRecordsBack(r) \/ removeOldRecords(r) \/ verifyApplications(r)

Doors(r) == attestMachine(r) \/ placeOperatorKey(r) \/ removeOperatorKey(r) \/ readAuthorizedKeys(r)

Next ==
    \/ \E r \in Runs :
          \/ Planning(r) \/ FirstContact(r) \/ Layering(r) \/ Leaving(r) \/ Renaming(r) \/ Doors(r)
          \/ approved(r) \/ stepThrows(r) \/ retried(r) \/ aborted(r) \/ finished(r) \/ deleted(r)
    \/ \E x \in env.fl : machineRunEnds(x) \/ machineRunFails(x)
    \/ \E m \in Machines : deleteServer(m) \/ createServer(m) \/ fallsSilent(m) \/ answersAgain(m) \/ reinstalled(m)

Spec == Init /\ [][Next]_vars

-----------------------------------------------------------------------------
(* Properties. *)

\* Whatever a run left half done, every machine still answers somebody: its password door is open or it
\* takes this manager's key. Shutting the door, putting it back and taking the line off are steps of
\* runs that fail, are aborted, deleted and deployed again (disablePasswordLogin, removeManagerKey). The
\* one way to lose a machine: a removal passed over putting its door back while it was silent, and found
\* it answering again at a later step (PutBackIsReachable below).
SomebodyIsAnswered == \A m \in Machines : box[m].door \/ box[m].line \/ m \in env.passed

\* A program ends that no step follows any more: its run was aborted or deleted, or a fresh one started.
EndsUnfollowed(m, steps) == \E x \in env.fl \ env'.fl : x.g = m /\ x.by = "nobody" /\ x.step \in steps

\* The master's plane of a slave is destroyed only once no map makes the master generate an instance for
\* it (the remove-slave program's own contract, deploy-slave.mgmt.ts), unless by a removal whose step gave
\* it up earlier: that one ends whenever it ends (PlaneGoesLast below).
PlaneGoesAfterThePart ==
    [][\A m \in Slaves : master[m].plane /\ ~master'[m].plane =>
           \/ \A f \in Fqdns : books'[f].of = m => ~books'[f].part
           \/ EndsUnfollowed(m, {"remove-slave"})]_vars

EndsNow(r, undone) == run[r].st = "running" /\ run'[r].st = "idle" /\ run[r].undo = undone

\* An aborted deployment that had put this manager's key on the machine leaves the machine as the hosting
\* provider handed it over and nothing of it on the master (the five cleanups of deploy-slave); the abort
\* does not wait for a program its run left going, so what such a program put there AFTER the cleanup
\* that takes it off (env.late) is all that may be found.
AbortedDeployLeavesNothing ==
    [][\A r \in Runs :
           LET g == run[r].p.g
           IN EndsNow(r, TRUE) /\ run[r].p.kind = "deploy" /\ HasArmed(r, "remove-manager-key")
              => /\ box[g].door /\ ~box[g].line /\ box[g].engine = "none" /\ ~Generated(g) /\ ~row[g].key
                 /\ \A s \in box[g].layers : <<g, s>> \in env.late
                 /\ box[g].tail # 0 => <<g, "rejoin">> \in env.late
                 /\ master[g].plane => <<g, "create-mgmt">> \in env.late]_vars

\* When a deployment, a redeploy or a rename ends, the address the machine has on the private network is
\* the one the row, the map and the master's plane name (declare-tailnet-address before create-mgmt),
\* unless a program an earlier run left going ended for this machine while the run was at work.
FinishedIsDialled ==
    [][\A r \in Runs :
           LET g == run[r].p.g
           IN EndsNow(r, FALSE) /\ run[r].p.kind \in {"deploy", "redeploy", "rename"} /\ g # hub
              => \/ box[g].tail = row[g].addr /\ books[row[g].fqdn].addr = row[g].addr /\ master[g].dials = row[g].addr
                 \/ r \in env.hit]_vars

\* A run changes a machine, or starts a program on it, only under that machine's host lock: the slaves of
\* a run over all of them are read again when it starts, and one deployed since its plan is none of its
\* targets. A program left going by a run that was aborted or deleted is under nobody's lock.
ChangesUnderItsLock ==
    [][\A m \in Machines : box'[m] # box[m] \/ (\E x \in env'.fl \ env.fl : x.g = m /\ x.by \in Runs) =>
           \/ \E r \in Runs : Holding(r) /\ Host(m) \in run[r].claims
           \/ EndsUnfollowed(m, {x.step : x \in env.fl})
           \/ box'[m] = FreshBox]_vars

\* A rename that ended, carried through or undone after it came to the unit records, leaves the row, the
\* map and every record of the units that was the cluster's at one and the same name, and the others
\* where they pointed (the three compensations of rename-slave).
RenameEndsWhole ==
    [][\A r \in Runs :
           LET g == run[r].p.g f == IF run[r].undo THEN run[r].p.fqdn ELSE run[r].p.to
           IN (EndsNow(r, FALSE) \/ (EndsNow(r, TRUE) /\ HasArmed(r, "repoint-unit-records-back"))) /\ run[r].p.kind = "rename"
              => row[g].fqdn = f /\ books[f].of = g /\ books[f].part /\ zone.units[g] = {f, Elsewhere}]_vars

-----------------------------------------------------------------------------
(* What the comments say and the code does not keep. *)

\* An aborted rename goes back to a name that still resolves (rename-slave.ts: "every compensation of an
\* abort goes back to it").
AbortedRenameResolves ==
    [][\A r \in Runs : EndsNow(r, TRUE) /\ run[r].p.kind = "rename" => run[r].p.fqdn \in zone.names]_vars

\* A machine that leaves is put back: its door is open again before the key comes off (remove-slave.ts:
\* "then the password door goes back on; then the key line comes off, LAST").
PutBackIsReachable == \A m \in Machines : box[m].door \/ box[m].line

\* The plane goes only once the slave part is gone (deploy-slave.mgmt.ts: "The map's slave part is dropped
\* FIRST, which is the program's own contract").
PlaneGoesLast ==
    [][\A m \in Slaves : master[m].plane /\ ~master'[m].plane =>
           \A f \in Fqdns : books'[f].of = m => ~books'[f].part]_vars

\* An aborted deployment leaves nothing of it on the machine (leave-host.kit.ts: "putting it back to the
\* state first contact found it in").
AbortedIsPutBack ==
    [][\A r \in Runs : EndsNow(r, TRUE) /\ run[r].p.kind = "deploy" /\ HasArmed(r, "leave-host")
           => box[run[r].p.g].layers = {} /\ box[run[r].p.g].tail = 0]_vars

\* The inventory calls a cluster active only while the master operates it.
ActiveIsOperated == \A m \in Slaves : row[m].cst = "active" => master[m].plane /\ Generated(m)

\* A machine put back to bare can be deployed again, at some name, or listed anew (remove-slave.ts:
\* "a fresh first contact reads `bare` as the state to start from").
BareCanStart ==
    \A m \in Slaves : row[m].st = "bare" /\ (\A r \in Runs : run[r].st = "idle") =>
        row[m].gone \/ row[m].cst = "none" \/ \E f \in Fqdns : attestAdmits(m, f, "deploy")

-----------------------------------------------------------------------------
\* The state has its type, and every machine answers somebody, or was passed over while it was silent.
SlavesInv == TypeOK /\ SomebodyIsAnswered

\* The machine, the row, the map, the records and the master's plane agree when a run is through, and
\* change under the lock and in the order that keeps them together on the way; each part says what a
\* program nobody follows any more may do to it.
MachineRunsAgree == FinishedIsDialled /\ RenameEndsWhole /\ PlaneGoesAfterThePart /\ ChangesUnderItsLock

=============================================================================
