----------------------------- MODULE MCValidation -----------------------------
(* The instances of Validation that TLC checks: one unit over repositories with one thing wrong each,
   two units whose onboardings meet, and tenant bundles over every small sync order. *)
EXTENDS Validation

Doc == [env |-> "prod", kind |-> "Workload", wave |-> 0, hooks |-> {}, writes |-> "", reads |-> {}, images |-> {},
        options |-> {}, server |-> "", roles |-> {}, refs |-> {}, name |-> "", unit |-> "", stage |-> "", policy |-> "",
        path |-> "", properties |-> {}, member |-> "", ns |-> "own", claim |-> "", items |-> {}, replicas |-> 1,
        strategy |-> "Recreate", surge |-> 0, surgePercent |-> FALSE, main |-> 1, init |-> 0, declared |-> TRUE]

Writer(kind, s, w) == [Doc EXCEPT !.kind = kind, !.writes = s, !.wave = w, !.policy = "OnChange", !.path = "own",
                                  !.properties = {"key"}]
Reader(w, reads, hooks) == [Doc EXCEPT !.wave = w, !.reads = reads, !.hooks = hooks, !.images = {"digest"}]
Store == [Doc EXCEPT !.kind = "SecretStore", !.server = "chain", !.roles = {"consumer-eso"}, !.refs = {"eso"}]
Account == [Doc EXCEPT !.kind = "ServiceAccount", !.name = "eso", !.unit = "a", !.stage = "prod"]
Claim == [Doc EXCEPT !.kind = "PersistentVolumeClaim", !.options = {"Prune=false", "Delete=false"}]
In(env, docs) == [i \in DOMAIN docs |-> [docs[i] EXCEPT !.env = env]]

CleanDocs == <<Store, Account, Claim, Writer("ServiceClaim", "db", -5), Writer("ExternalSecret", "app", -4),
               Reader(0, {"db", "app"}, {}), Reader(0, {"db"}, {"PostSync"})>>

Repo == [manifest |-> "valid", name |-> "a", repo |-> "a", chart |-> TRUE, chartYaml |-> "named", envs |-> {"prod"},
         base |-> TRUE, overlays |-> {"prod"}, tokens |-> {"comment"}, lock |-> "none",
         deps |-> {[local |-> TRUE, exact |-> TRUE, vendored |-> TRUE]}, render |-> [e \in {"prod", "dev"} |-> "ok"],
         docs |-> CleanDocs, secrets |-> {"key"}, fromStore |-> {"smtp"}, host |-> "www", builds |-> {"b1"}, pins |-> {"b1", "b2"},
         workflow |-> "kit", ownData |-> FALSE, smtp |-> FALSE,
         claim |-> [shared |-> TRUE, databases |-> {"shop"}, redis |-> FALSE, patterns |-> {}]]

Target(n) == [name |-> n, stage |-> "prod", chartPath |-> TRUE, apex |-> TRUE, vault |-> TRUE, size |-> 1, apiHost |-> TRUE]
Net == [declared |-> TRUE, targets |-> {"vault", "registry"}, open |-> {"allowed"}]

\* One thing wrong each, gate by gate; then two envs at once.
With(i, d) == [Repo EXCEPT !.docs = [@ EXCEPT ![i] = d]]
Defects ==
    <<[Repo EXCEPT !.manifest = "absent"], [Repo EXCEPT !.repo = "b"], [Repo EXCEPT !.overlays = {}],
      [Repo EXCEPT !.tokens = {"action"}], [Repo EXCEPT !.lock = "unlocked"],
      [Repo EXCEPT !.deps = {[local |-> FALSE, exact |-> TRUE, vendored |-> TRUE]}],
      [Repo EXCEPT !.render = [e \in {"prod", "dev"} |-> "missing-value"]],
      With(1, [Store EXCEPT !.refs = {"other"}]), With(2, [Account EXCEPT !.unit = "b"]),
      With(3, [Claim EXCEPT !.options = {"Prune=false"}]), With(4, Writer("ServiceClaim", "db", -11)),
      With(5, [Writer("ExternalSecret", "app", -4) EXCEPT !.properties = {"other"}]),
      With(6, [Reader(0, {}, {}) EXCEPT !.images = {"latest"}]), With(6, Reader(-5, {"db"}, {})),
      With(6, Reader(0, {"db"}, {"PreSync"})),
      [Repo EXCEPT !.host = "taken"], [Repo EXCEPT !.workflow = "own"], [Repo EXCEPT !.pins = {"unreadable"}],
      [Repo EXCEPT !.smtp = TRUE], [Repo EXCEPT !.fromStore = {"other"}], [Repo EXCEPT !.chart = FALSE],
      [Repo EXCEPT !.envs = {"prod", "dev"}, !.overlays = {"prod", "dev"}, !.docs = In("dev", CleanDocs) \o CleanDocs]>>

BuildOnly(u) == [Repo EXCEPT !.name = u, !.repo = u, !.chart = FALSE, !.chartYaml = "absent", !.docs = <<>>, !.host = u, !.builds = {u}]
Other == [Repo EXCEPT !.name = "b", !.repo = "b", !.builds = {"b2"}, !.host = "shop", !.docs = <<>>, !.claim.databases = {"other"}]

\* 1 is clean; 2 and 3 belong to the second unit, 3 with the first's build; 4 and 5 have no chart; 6 is
\* the first unit's with the second's build.
Clean == 1
TheContent == <<Repo, Other, [Other EXCEPT !.builds = {"b1", "b2"}], BuildOnly("a"), BuildOnly("b"), [Repo EXCEPT !.builds = {"b1", "b2"}]>> \o Defects

Never == [b \in Bounds |-> 0]
World == [targets |-> [u \in {"a"} |-> Target("a")], heads |-> [u \in Units |-> Clean], books |-> [u \in Units |-> None],
          pushed |-> {}, net |-> Net, zone |-> "free", subdomains |-> {"taken"}, reserved |-> {"api"}, platformUnit |-> "none",
          stored |-> {"smtp"}, bundle |-> None, most |-> Never]

\* Calls that fail, gate runs that die, restarts.
Troubled == <<[World EXCEPT !.most.restarts = 2], [World EXCEPT !.most.faults = 2, !.most.deaths = 1], [World EXCEPT !.most.restarts = 1, !.most.faults = 1]>>

\* A fence that does not hold, a zone that answers another's, a name that is not to be had.
Elsewhere == <<[World EXCEPT !.net.open = {"allowed", "vault"}], [World EXCEPT !.zone = "another"],
               [World EXCEPT !.targets = [u \in {"a"} |-> [Target("a") EXCEPT !.name = "api"]]]>>

\* A registration that stands already.
Beside == [World EXCEPT !.heads.a = 6, !.pushed = {Clean}, !.most.moves = 1,
                        !.books.b = [builds |-> {"b2"}, host |-> "shop", claim |-> Other.claim, secrets |-> {}, smtp |-> TRUE,
                                     stage |-> "prod", gated |-> TRUE]]

\* Two units, the second's head moving to the first's build; and the platform's own unit, planned with
\* no gate, beside one that is gated.
Two == [World EXCEPT !.targets = [u \in Units |-> Target(u)], !.heads = [u \in Units |-> IF u = "a" THEN Clean ELSE 2],
                     !.pushed = {3}, !.most.moves = 1]
Platform == [World EXCEPT !.targets = [u \in Units |-> [Target(u) EXCEPT !.chartPath = FALSE]], !.platformUnit = "a",
                          !.heads = [u \in Units |-> IF u = "a" THEN 4 ELSE 5]]

\* Every order of two Secrets' writers and a reader, and each way a member falls out of its gates.
Member(docs) == [i \in DOMAIN docs |-> [docs[i] EXCEPT !.member = "web"]]
App(n) == [name |-> n, folder |-> "shop", site |-> "", chosen |-> {}]
Bundle(docs) ==
    [manifest |-> "valid", block |-> TRUE, members |-> {"web"}, render |-> [m \in {"web"} |-> TRUE], docs |-> Member(docs),
     catalog |-> [f \in {"shop"} |-> [sites |-> {}, selections |-> {}]], standingMembers |-> {}, solver |-> 1,
     quota |-> [figure |-> 4, pods |-> 3], apps |-> <<App("web")>>]
Tenant(tb) == [World EXCEPT !.bundle = tb, !.targets = <<>>]
Hooks == <<{}, {"PreSync"}, {"PostSync"}, {"Sync"}, {"PreSync", "Skip"}, {"PreSync", "PostSync"}>>
\* The digits of n choose the writers' waves, the reader's wave and hooks, and what the second writes.
SyncOrder(n) ==
    LET second == IF n \div 216 = 0 THEN "db" ELSE "app" IN
    Tenant(Bundle(<<Writer("ServiceClaim", "db", (n % 3) - 1),
                    Reader(((n \div 9) % 4) - 1, {"db", "app"}, Hooks[((n \div 36) % 6) + 1]),
                    Writer("ExternalSecret", second, ((n \div 3) % 3) - 1)>>))
SyncOrders == [n \in 1 .. 432 |-> SyncOrder(n - 1)]
Big(surge) == [Doc EXCEPT !.kind = "Deployment", !.strategy = "RollingUpdate", !.surge = surge, !.surgePercent = TRUE]
Bundles == <<Tenant(Bundle(<<Big(25)>>)), Tenant(Bundle(<<Big(101)>>)),
             Tenant(Bundle(<<[Doc EXCEPT !.items = {[Doc EXCEPT !.kind = "Role"]}]>>)),
            Tenant([Bundle(<<>>) EXCEPT !.apps = <<App("web"), App("web")>>])>>

TheWorlds ==
    Troubled \o Elsewhere \o <<Beside, Two, Platform>>
        \o [i \in 1 .. Len(Defects) |-> [World EXCEPT !.heads = [u \in Units |-> Len(TheContent) - Len(Defects) + i]]]
        \o SyncOrders \o Bundles
==============================================================================
