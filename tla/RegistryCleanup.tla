--------------------------- MODULE RegistryCleanup ---------------------------
(***************************************************************************)
(* The registry reaper beside the books it reads: once a day it searches   *)
(* every carrier of an image pin, plans which tags of a repository age     *)
(* out, resolves their digests and deletes manifests by digest             *)
(* (server/domains/registry-cleanup, shared/registry-retention.ts).        *)
(* Builds push new tags and pins move while it works.                      *)
(*                                                                         *)
(* One repository of ours is modelled; a multi-segment name is never       *)
(* listed as ours.  The carriers are a unit's chart (its own repository),  *)
(* the product's default on the trunk and on the books branch, the pin     *)
(* file, the tenant's bundle and what its members are held at on the       *)
(* books branch, and the platform's own app.                               *)
(***************************************************************************)
EXTENDS Books

CONSTANTS
    Stable,        \* the tags on the stable channel; the rest share the non-stable pot
    Digest,        \* the manifest a tag names: two tags may share one
    Keep,          \* keepStable and keepNonStable
    ChartTag,      \* the default a version of the product's values.yaml names; 0: none
    PlatformTag,   \* what the platform's own app pins on the install branch; 0: its path is empty
    FirstTags      \* the tags standing in the registry at the start

ASSUME CleanupAssumption ==
    /\ Stable \subseteq Tags /\ FirstTags \subseteq Tags
    /\ Keep \in Nat
    /\ ChartTag \in [0..MaxTrunk + 1 -> Tags \cup {0}]
    /\ DOMAIN Digest = Tags /\ PlatformTag \in Tags \cup {0}

VARIABLES
    standing,   \* the tags the registry carries
    unitPin,    \* the tag a unit's chart pins on its delivery branch
    reaper,     \* [pc, left, floor, listed, kept, doomed]
    steady      \* the carriers' pins unmoved since the reap began

cleanupVars == <<standing, unitPin, reaper, steady>>
vars == <<booksVars, cleanupVars>>

IdleReaper == [pc |-> "idle", left |-> {}, floor |-> {}, listed |-> {}, kept |-> {}, doomed |-> {}]
Pinned(t) == t # 0

\* A held build no chart's pin file names any more renders nowhere.
Approved(tree) == IF tree.reg.there /\ Pinned(tree.pin) THEN tree.reg.held ELSE 0

\* Every carrier with the tag it pins now.
OnBooks(tree) ==
    {<<"pins", tree.pin>>, <<"bundle", tree.reg.bundle>>, <<"default", ChartTag[tree.chart]>>, <<"held", Approved(tree)>>}
CarrierPins ==
    LET books == IF origin = <<>> THEN {} ELSE OnBooks(Tip.tree)
    IN {c \in books \cup {<<"unit", unitPin>>, <<"platform", PlatformTag>>, <<"trunk", ChartTag[trunk]>>} : Pinned(c[2])}

-----------------------------------------------------------------------------
(* shared/registry-retention.ts *)

classifyImageTag(t) == IF t \in Stable THEN "stable" ELSE "non-stable"
byNewestFirst(tags) == SetToSortSeq(tags, LAMBDA a, b : a > b)
Newest(tags, klass) ==
    LET pot == byNewestFirst({t \in tags : classifyImageTag(t) = klass})
    IN {pot[i] : i \in 1..(IF Len(pot) < Keep THEN Len(pot) ELSE Keep)}
keptByCount(tags) == Newest(tags, "stable") \cup Newest(tags, "non-stable")

\* The floor is held first, then the newest of each pot.
planRetention(tags, referenced) == (referenced \cap tags) \cup keptByCount(tags)

-----------------------------------------------------------------------------
(* reap(): every read before the first delete; a read that fails ends it. *)

At(pc) == reaper.pc = pc
To(pc) == reaper' = [reaper EXCEPT !.pc = pc]
Found(tags, pc) == reaper' = [reaper EXCEPT !.floor = @ \cup {t \in tags : Pinned(t)}, !.pc = pc]

StartReap ==
    /\ At("idle") /\ Can("reaps") /\ Spend("reaps")
    /\ reaper' = [IdleReaper EXCEPT !.pc = "units"]
    /\ UNCHANGED <<origin, trunk, line, job, wt, standing, unitPin>>

Reading == UNCHANGED <<booksVars, standing, unitPin>>

\* Class (a): a registered unit's pin file must be readable; one that is not aborts the search.
searchUnitCharts == At("units") /\ Found({unitPin}, "branches") /\ Reading
\* Classes (b) and (d): every branch of the deploy repository, each in a turn of its own on the
\* reaper's checkout, which never creates one.
listBranches ==
    /\ At("branches")
    /\ reaper' = [reaper EXCEPT !.pc = "deploy", !.left = {"trunk"} \cup (IF origin = <<>> THEN {} ELSE {"books"})]
    /\ Reading
globPins(branch) ==
    IF branch = "trunk" THEN {ChartTag[trunk]} ELSE {Tip.tree.pin, ChartTag[Tip.tree.chart], Tip.tree.reg.bundle}
searchDeploy(branch) ==
    /\ At("deploy") /\ branch \in reaper.left
    /\ reaper' = [reaper EXCEPT !.floor = @ \cup {t \in globPins(branch) : Pinned(t)}, !.left = @ \ {branch}]
    /\ Reading
\* Class (c): a platform repository that carries nothing under its apps is refused.
searchPlatformApps ==
    /\ At("deploy") /\ reaper.left = {}
    /\ IF PlatformTag = 0 THEN To("failed") ELSE Found({PlatformTag}, "held")
    /\ Reading

MutantHeldTags(tree) == {tree.reg.bundle}
\* What a registration holds: its members' approved tags, and its bundle.
HeldTags(tree) == {Approved(tree), tree.reg.bundle}

\* What the tenants hold: the registrations are listed (one that cannot be read refuses the reap), and
\* each is read in a turn of its own (one that is gone by then refuses it too).
listTenantPointers ==
    /\ At("held")
    /\ \/ origin # <<>> /\ Tip.tree.reg.there /\ (To("members") \/ To("failed"))
       \/ (origin # <<>> => ~Tip.tree.reg.there) /\ To("floor")
    /\ Reading
tenantHeldPins ==
    /\ At("members")
    /\ IF Tip.tree.reg.there THEN Found(HeldTags(Tip.tree), "floor") ELSE To("failed")
    /\ Reading
\* An empty floor aborts.
checkFloor ==
    /\ At("floor")
    /\ IF reaper.floor = {} THEN To("failed") ELSE To("list")
    /\ Reading

\* The registry's adapter: every page of the tag list, the digest a tag names, and a delete by
\* digest, which takes every tag naming it.
listTagPages == standing
resolveDigest(t) == Digest[t]
manifestDelete(d) == standing' = {t \in standing : Digest[t] # d}

listTags ==
    /\ At("list")
    /\ reaper' = [reaper EXCEPT !.pc = "resolve", !.listed = listTagPages, !.kept = planRetention(listTagPages, reaper.floor)]
    /\ Reading

\* Phase 3: a delete tag whose digest a kept tag shares is skipped; a tag that is gone throws.
Unshared(tags, kept) == {resolveDigest(t) : t \in tags} \ {resolveDigest(t) : t \in kept}
resolveDigests ==
    /\ At("resolve")
    /\ IF reaper.listed \subseteq standing
       THEN reaper' = [reaper EXCEPT !.pc = "delete", !.doomed = Unshared(reaper.listed \ reaper.kept, reaper.kept)]
       ELSE To("failed")
    /\ Reading

\* Phase 4: one manifest after the other, each with every tag that names it.
deleteManifest(d) ==
    /\ At("delete") /\ d \in reaper.doomed
    /\ manifestDelete(d)
    /\ reaper' = [reaper EXCEPT !.doomed = @ \ {d}]
    /\ UNCHANGED <<booksVars, unitPin>>

EndReap ==
    /\ At("failed") \/ (At("delete") /\ reaper.doomed = {})
    /\ reaper' = IdleReaper
    /\ Reading

\* A dry run stops before the deletes; a failed read, a failed delete and the end of the process stop it anywhere.
ReapStops ==
    /\ ~At("idle") /\ ~At("failed") /\ Can("faults") /\ Spend("faults")
    /\ To("failed")
    /\ UNCHANGED <<origin, trunk, line, job, wt, standing, unitPin>>

-----------------------------------------------------------------------------
(* Builds and units outside. *)

\* A build pushes the next tag.
PushImage(t) ==
    /\ t \in Tags /\ \A s \in FirstTags \cup standing : s < t
    /\ \A s \in Tags : s < t => s \in FirstTags \cup standing
    /\ Can("images") /\ Spend("images")
    /\ standing' = standing \cup {t}
    /\ UNCHANGED <<origin, trunk, line, job, wt, unitPin, reaper>>

\* A release of the unit, or a roll-back of it, names a tag that stands.
BumpUnit(t) ==
    /\ t \in standing /\ t # unitPin
    /\ Can("outside") /\ Spend("outside")
    /\ unitPin' = t
    /\ UNCHANGED <<origin, trunk, line, job, wt, standing, reaper>>

-----------------------------------------------------------------------------
Init ==
    /\ BooksInit
    /\ standing = FirstTags
    /\ unitPin = Min(Tags)
    /\ reaper = IdleReaper
    /\ steady = {}

Around == UNCHANGED <<standing, unitPin, reaper>>

BooksStep ==
    \/ AskRun(standing) \/ AskDatabases \/ AskCarry \/ AskRead
    \/ \E w \in Workers : Forget(w) \/ TurnStep(w) \/ TurnFault(w)
    \/ \E t \in standing : BumpPin(t) \/ BumpBundle(t)
    \/ Hand \/ TrunkMoves \/ Crash

ReapStep ==
    \/ StartReap \/ searchUnitCharts \/ listBranches \/ (\E branch \in {"trunk", "books"} : searchDeploy(branch))
    \/ searchPlatformApps \/ listTenantPointers \/ tenantHeldPins \/ checkFloor
    \/ listTags \/ resolveDigests \/ EndReap \/ ReapStops
    \/ \E d \in {Digest[t] : t \in Tags} : deleteManifest(d)

Next ==
    /\ \/ BooksStep /\ Around
       \/ ReapStep
       \/ \E t \in Tags : PushImage(t) \/ BumpUnit(t)
    /\ steady' = IF StartReap THEN CarrierPins' ELSE IF At("idle") THEN {} ELSE steady \cap CarrierPins'

\* Every call to git settles, by an answer, a failure or its timeout.
Fairness == \A w \in Workers : WF_vars(TurnStep(w) /\ Around /\ steady' = IF At("idle") THEN {} ELSE steady \cap CarrierPins')
Spec == Init /\ [][Next]_vars /\ Fairness

-----------------------------------------------------------------------------
\* Every tree of origin and of the clone, the line of turns and the books of the reaper are well typed.
TypeOK ==
    /\ \A i \in 1..Len(origin) : origin[i].tree \in Trees
    /\ wt.tree \in Trees /\ wt.base \in 0..Len(origin)
    /\ line \in Seq(Workers)
    /\ standing \subseteq Tags /\ unitPin \in Tags
    /\ \A w \in Workers : job[w].commit \in 0..Len(origin)

\* A tree holds what the job was to write.  Of a pairing it is the members' half: where the bundle's
\* line stood at the target already, a rebase takes what the pipeline made of it meanwhile.
Holds(tree, j) ==
    CASE j.op = "commit"    -> tree.reg.there /\ tree.reg.bundle = j.tag
      [] j.op \in {"set", "flip"} -> tree.reg.flag # j.seen.flag
      [] j.op = "pin"       -> tree.reg.bundle = j.tag
      [] j.op \in {"hold", "pair"} -> tree.reg.held = j.tag
      [] j.op = "remove"    -> ~tree.reg.there
      [] j.op = "databases" -> tree.reg.dbs
      [] OTHER -> TRUE

\* A writer that answers its run has its change on origin: between the moment it asked and the
\* commit it names, some state of the branch holds what it was asked to write.  (A reset inside
\* another's staging answered the head from before the write: adapters/git/port.ts.)
AnsweredIsPublished ==
    \A w \in {"run", "databases"} : job[w].answer = "ok" =>
        /\ job[w].commit \in 1..Len(origin)
        /\ \E i \in 1..job[w].commit : i >= job[w].from /\ Holds(origin[i].tree, job[w])

\* What a writer's push may change of the tree.
OwnPart(w, op, before, after) ==
    CASE w = "carry"     -> after.reg = before.reg /\ after.pin = before.pin
      [] w = "databases" -> after = [before EXCEPT !.reg.dbs = TRUE]
      [] w = "run"       -> /\ after.pin = before.pin /\ after.chart = before.chart
                            /\ op = "flip" => after.reg = PatchFields(before.reg)
                            /\ op = "set" => after.reg.flag # before.reg.flag
                            /\ op \in {"pin", "hold", "pair"} => after.reg.flag = before.reg.flag

\* A push publishes what its turn wrote and nothing else: the leavings of a turn that failed or
\* died, another writer's staging, an older pin file or product's file never ride along.  (A setter
\* of two turns writes the registration as its first turn read it: see NoWriteLost.)
PublishesItsOwn ==
    [][\A w \in Workers \ {"reader"} :
         Len(origin') > Len(origin) /\ origin # <<>> /\ origin'[Len(origin')].by = w
            => OwnPart(w, job[w].op, Tip.tree, Tip.tree')]_vars

\* A turn that was asked for settles, whatever the turns before it did.
TurnsSettle == \A w \in Workers : job[w].pc = "reset" ~> job[w].pc \in {"settled", "idle"}

\* The reaper takes no image whose pin has stood since before its search, on any of its carriers, and
\* none of the newest of a pot it listed.  (It may take a tag it never listed: a rebuild pushed after
\* the listing goes with the aged tag whose manifest it shares.)
ReapSpares ==
    [][At("delete") /\ standing' # standing =>
         LET gone == standing \ standing'
         IN /\ \A c \in steady : c[2] \notin gone
            /\ keptByCount(reaper.listed) \cap gone = {}]_vars

\* The promise of the reaper's header: an image a carrier pins is never deleted.
PinnedStands == \A c \in CarrierPins : c[2] \in standing

\* setAppDatabases says why it reads and writes in one turn: so that no other write lands between
\* them to be overwritten.  No run's write takes back what the pipeline or the boot job wrote.
NoWriteLost ==
    [][Len(origin') > Len(origin) /\ origin # <<>> /\ origin'[Len(origin')].by = "run" /\ job["run"].op = "set"
         => Tip.tree.reg.bundle = Tip.tree'.reg.bundle]_vars

\* The books' types, and a writer that answers has its change on origin.
BooksInv == TypeOK /\ AnsweredIsPublished

=============================================================================
