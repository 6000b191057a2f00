----------------------------- MODULE DnsRecords -----------------------------
(***************************************************************************)
(* The DNS records this installation writes and the book it keeps of them: *)
(* the move of the units from one domain to another with its abort and its *)
(* rollback, the runs that publish and unpublish mail records, the change  *)
(* of a DMARC report mailbox, and the removal of a single record.          *)
(* A name is <<what, domain>>, the domains being 1 (the move's source) and *)
(* 2 (its target), 0 where the domain does not move. A content is          *)
(* <<kind, value>>: TXT of a mail record is <<"own", v>>, or <<"hand", v>> *)
(* where somebody's own record was merged into, and <<"note", 0>> is any   *)
(* other TXT of the name. A run's id is the number of its plan.            *)
(* External: the provider's zone, the publish programs on the master, the  *)
(* product's mail service that holds the issuers, ArgoCD.                  *)
(***************************************************************************)
EXTENDS RunChain, FiniteSets
LOCAL INSTANCE SequencesExt

CONSTANTS Starts,     \* how a behaviour begins (see Init)
          MaxHands    \* bound: the records somebody else writes during a behaviour

ASSUME DnsAssumption == MaxHands \in Nat /\ \A s \in Starts : s.domain \in {1, 2}

VARIABLES zone,     \* per name: the contents that stand at the provider
          book,     \* per name: the live row of the book of DNS writes
          books,    \* the unit apex of the cluster maps, the one before it, the registrations' domain
          issuers,  \* the issuers bound at the sender domain, and the one the tenant signs with
          ck,       \* per run: the checkpoint its step keeps
          ended,    \* the domain moves that have ended, or were deleted failed: each [id, st, snap]
          hands,    \* the names somebody else wrote to
          past,     \* history: the zone when a run started, and the runs another one interfered with
          scope     \* how this behaviour began

vars == <<run, used, zone, book, books, issuers, ck, ended, hands, past, scope>>

Domains == {1, 2}
MailRecords == {"spf", "dkim", "dmarc"}
PlatformNames == {<<"env", 0>>, <<"pdkim", 0>>}
MailNames == (MailRecords \X Domains) \cup PlatformNames
Names == MailNames \cup ({"host", "mark"} \X Domains) \cup {<<"own", 0>>}

None == <<"none", 0>>
NoRow == [c |-> None, owner |-> "none", by |-> 0]
NoCk == [before |-> [n \in {} |-> None], after |-> [n \in {} |-> None], stood |-> None, next |-> None]
Theirs == <<"theirs", 0>>

\* One type invariant: what the zone, the book and the books can say.
TypeOK ==
    /\ DOMAIN zone = Names /\ DOMAIN book = Names
    /\ \A n \in Names : (book[n] = NoRow) <=> (book[n].owner = "none")
    /\ \A n \in Names : n[1] \in {"host", "own"} => Cardinality(zone[n]) <= 1
    /\ books.apex \in Domains /\ books.prev \in {0, 1} /\ books.regs \in Domains
    /\ issuers.bound \subseteq Domains /\ issuers.signs \in Domains
    /\ books.prev = 1 => books.apex = 2
    /\ \A m \in ended : m.id \in 1..MaxPlans /\ m.st \in {"succeeded", "cancelled", "failed"}

-----------------------------------------------------------------------------
(* The provider and the book. *)

\* The record at the head is rewritten and every other of the name goes; none is created.
upsertRecord(n, c) == zone' = [zone EXCEPT ![n] = {c}]

\* A record beside those of the name.
createRecord(n, c) == zone' = [zone EXCEPT ![n] = @ \cup {c}]

deleteRecords(n, cs) == zone' = [zone EXCEPT ![n] = @ \ cs]

\* One live row per name: a later write takes the place of the one before it.
recordDnsWrite(n, c, owner, id) == book' = [book EXCEPT ![n] = [c |-> c, owner |-> owner, by |-> id]]

forgetDnsWrite(n) == book' = [book EXCEPT ![n] = NoRow]

findDnsWrite(n) == book[n]

-----------------------------------------------------------------------------
(* Steps. *)

St(s, g) == [s |-> s, g |-> g]
Id(r) == Param(r).id
Of(r, kinds) == run[r].st # "idle" /\ Param(r).kind \in kinds

Forth == <<St("record", <<"rec", 1>>), St("record", <<"rec", 2>>), St("record", <<"rec", 3>>),
             St("regs", None), St("maps", None)>>

\* Mutant: the way back takes the records first.
MutantWayBack == <<St("validate", None), St("unrecord", <<"rec", 3>>), St("unrecord", <<"rec", 2>>),
                   St("unrecord", <<"rec", 1>>), St("unmaps", None), St("unregs", None)>>

WayBack == <<St("validate", None), St("unmaps", None), St("unregs", None),
             St("unrecord", <<"rec", 3>>), St("unrecord", <<"rec", 2>>), St("unrecord", <<"rec", 1>>)>>
Booked(ns) == <<St("before", None)>> \o [i \in 1..Len(ns) |-> St("program", ns[i])] \o <<St("after", None), St("enter", None)>>

\* The entries that are one step of the code: when it throws, a retry runs it from its first entry.
OneStep == <<{"record", "regs", "maps"}, {"validate", "unmaps", "unregs", "unrecord"},
             {"before", "program", "after", "enter"}, {"dmarc-intent", "dmarc-write"}>>

StepNames(e) == UNION {OneStep[i] : i \in {j \in DOMAIN OneStep : e.s \in OneStep[j]}}

\* What is left of the run once its step at hand is to be run again.
FromItsStart(r) ==
    LET e == Head(run[r].todo)
        rest == SelectSeq(run[r].todo, LAMBDA x : x.s \notin StepNames(e))
    IN CASE e.s \in OneStep[1] -> Forth \o rest
         [] e.s \in OneStep[2] -> WayBack \o rest
         [] e.s \in OneStep[3] -> Booked(Param(r).names) \o rest
         [] e.s \in OneStep[4] -> <<St("dmarc-intent", None), St("dmarc-write", None)>> \o rest
         [] OTHER -> run[r].todo

Again(r, rec) == Fails(r, [rec EXCEPT !.todo = FromItsStart(r)])

\* The entry's effect stands; the step may throw after it.
Ends(r, rec) == (run' = [run EXCEPT ![r] = [rec EXCEPT !.todo = Tail(@)]] /\ UNCHANGED used) \/ Again(r, rec)

EndsSo(r) == Ends(r, run[r])

StepThrows(r) ==
    /\ run[r].st = "running" /\ run[r].todo # <<>>
    /\ Again(r, run[r])
    /\ UNCHANGED <<zone, book, books, issuers, ck, ended>>

-----------------------------------------------------------------------------
(* The move of the units to another domain: what its plan freezes. *)

Rec(n, t, type, before, after, owner) ==
    [name |-> n, target |-> t, type |-> type, before |-> before, after |-> after, owner |-> owner]

\* A unit's host, which the cluster's own name answers for on both sides; the mark of a tenant's identity
\* provider, whose content is the issuer; a domain of the tenant's own, which keeps its name and is re-pointed.
Records == <<Rec(<<"host", 1>>, <<"host", 2>>, "CNAME", <<"cluster", 0>>, <<"cluster", 0>>, "tenant"),
             Rec(<<"mark", 1>>, <<"mark", 2>>, "TXT", <<"issuer", 1>>, <<"issuer", 2>>, "tenant"),
             Rec(<<"own", 0>>, <<"own", 0>>, "CNAME", <<"zone", 1>>, <<"zone", 2>>, "tenant")>>

Repoint(x) == x.name = x.target
Occupied(x, before, cur) == x.type = "CNAME" /\ \E v \in cur : v # x.after /\ ~(Repoint(x) /\ v = before)

\* addRecord: what stands at the record's two names, and what the book says of them.
addRecord(x) ==
    LET before == IF x.before \notin zone[x.name] /\ x.after \in zone[x.name] THEN x.after ELSE x.before
    IN [before |-> before, had |-> x.after \in zone[x.target], book |-> book[x.target],
        blocked |-> before \notin zone[x.name] \/ Occupied(x, before, zone[x.target])
                    \/ (x.type = "TXT" /\ book[x.name] = NoRow)]

\* The book contradicts the registration: no plan is made.
Disagrees(x, f) ==
    \/ book[x.name] # NoRow /\ (book[x.name].owner # x.owner \/ book[x.name].c # f.before)
    \/ book[x.target] # NoRow /\ (book[x.target].owner # x.owner
           \/ (book[x.target].c # x.after /\ ~(Repoint(x) /\ book[x.target].c = f.before)))

readInstallationDomain == [i \in DOMAIN Records |-> addRecord(Records[i])]

Readable == books.apex = 1 /\ \A i \in DOMAIN Records : ~Disagrees(Records[i], readInstallationDomain[i])

Blocked(snap) == \E i \in DOMAIN snap : snap[i].blocked

DomainClaims == {"books", "master-kube", "server"}

moveSteps(dry) ==
    IF dry THEN <<St("attest", None)>>
    ELSE <<St("attest", None), St("bind", <<"issuer", 2>>)>> \o Forth
         \o <<St("watch", <<"issuer", 2>>), St("unbind", <<"issuer", 1>>)>>

rollbackSteps(dry) ==
    IF dry THEN <<St("attest-inverse", None)>>
    ELSE <<St("attest-inverse", None), St("bind", <<"issuer", 1>>)>> \o WayBack
         \o <<St("watch", <<"issuer", 1>>), St("unbind", <<"issuer", 2>>)>>

planMove(r) ==
    \E dry \in BOOLEAN :
        /\ "move" \in scope.kinds /\ Readable
        /\ LET p == [kind |-> "move", id |-> used.plans + 1, src |-> used.plans + 1, snap |-> readInstallationDomain, dry |-> dry]
           IN Plans(r, p, DomainClaims, moveSteps(dry))
        /\ UNCHANGED <<zone, book, books, issuers, ck, ended>>

\* A move that changes something, and what is kept of it.
Moves(r) == Of(r, {"move"}) /\ ~Param(r).dry
Stopped(r, st) == [id |-> Id(r), st |-> st, snap |-> Param(r).snap]

\* Any move that stopped is rolled back, by its own recorded plan: one that ended, however long ago, or
\* one that failed, deleted since or not. That it stopped is asked again when the rollback attests; the
\* locks both take answer it.
planRollback(r) ==
    \E dry \in BOOLEAN, m \in ended \cup {Stopped(q, "failed") : q \in {q \in Runs : run[q].st = "failed" /\ Moves(q)}} :
        /\ "rollback" \in scope.kinds
        /\ LET p == [kind |-> "rollback", id |-> used.plans + 1, src |-> m.id, snap |-> m.snap, dry |-> dry]
           IN Plans(r, p, DomainClaims, rollbackSteps(dry))
        /\ UNCHANGED <<zone, book, books, issuers, ck, ended>>

\* assertApprovable: a plan with blockers is only run dry.
Approvable(r) == Param(r).kind = "move" /\ ~Param(r).dry => ~Blocked(Param(r).snap)

\* Read again: the plan is run only while nothing it recorded has changed.
attestMove(r) ==
    /\ At(r, "attest") /\ Of(r, {"move"})
    /\ Readable /\ readInstallationDomain = Param(r).snap
    /\ EndsSo(r) /\ UNCHANGED <<zone, book, books, issuers, ck, ended>>

-----------------------------------------------------------------------------
(* The issuers at the tenant's sender domain. *)

Undoing(r) == run[r].st # "idle" /\ run[r].undo

\* Bound at the mail service. A forward move arms the unbind where the call says it bound; a call whose
\* answer is lost bound it and armed nothing, and the retry finds it bound.
bindIssuers(r) ==
    /\ At(r, "bind")
    /\ LET d == On(r)[2]
           arms == Of(r, {"move"}) /\ ~Undoing(r) /\ d \notin issuers.bound
           rec == IF arms THEN [run[r] EXCEPT !.armed = <<St("unbind", On(r))>> \o @] ELSE run[r]
       IN /\ Ends(r, rec) \/ Again(r, run[r])
          /\ issuers' = [issuers EXCEPT !.bound = @ \cup {d}]
    /\ UNCHANGED <<zone, book, books, ck, ended>>

\* Every member renders the zone: its identity provider signs with that side's issuer.
watchTenantZones(r) ==
    /\ At(r, "watch") /\ issuers.signs = On(r)[2]
    /\ EndsSo(r) /\ UNCHANGED <<zone, book, books, issuers, ck, ended>>

\* Taken from the mail service. A forward move arms the rebind where the call says it took one.
unbindIssuers(r) ==
    /\ At(r, "unbind")
    /\ LET d == On(r)[2]
           arms == Of(r, {"move"}) /\ ~Undoing(r) /\ d \in issuers.bound
           rec == IF arms THEN [run[r] EXCEPT !.armed = <<St("bind", On(r))>> \o @] ELSE run[r]
       IN /\ Ends(r, rec) \/ Again(r, run[r])
          /\ issuers' = [issuers EXCEPT !.bound = @ \ {d}]
    /\ UNCHANGED <<zone, book, books, ck, ended>>

\* ArgoCD renders what the maps say.
Render ==
    /\ issuers.signs # books.apex
    /\ issuers' = [issuers EXCEPT !.signs = books.apex]
    /\ UNCHANGED <<run, used, zone, book, books, ck, ended>>

-----------------------------------------------------------------------------
(* Moving the recorded records, registrations and maps, and the way back. *)

Noted(r, i) == Param(r).snap[i]

\* The record was taken over by another owner, or its name by another content, since the plan.
ForwardRefuses(r, i) ==
    LET x == Records[i]
        f == Noted(r, i)
        bk == book[x.target]
    IN \/ bk # NoRow /\ (bk.owner # x.owner \/ bk.c \notin {f.before, x.after})
       \/ Occupied(x, f.before, zone[x.target])

\* The cleanup is registered as the step begins, before its first write.
ArmedRestore(r) ==
    IF \E i \in DOMAIN run[r].armed : run[r].armed[i].s = "validate" THEN run[r] ELSE [run[r] EXCEPT !.armed = WayBack \o @]

\* One record at its new name. The provider has it before the book has: the step may throw between.
writeRecord(r) ==
    /\ At(r, "record")
    /\ LET i == On(r)[2]
           x == Records[i]
       IN /\ ~ForwardRefuses(r, i)
          /\ \/ x.after \in zone[x.target] /\ UNCHANGED zone
             \/ x.after \notin zone[x.target] /\ x.type = "TXT" /\ createRecord(x.target, x.after)
             \/ x.after \notin zone[x.target] /\ x.type = "CNAME" /\ upsertRecord(x.target, x.after)
          /\ \/ recordDnsWrite(x.target, x.after, x.owner, Id(r)) /\ Ends(r, ArmedRestore(r))
             \/ UNCHANGED book /\ Again(r, ArmedRestore(r))
    /\ UNCHANGED <<books, issuers, ck, ended>>

\* Each registration's domain fields are compared and set in a commit of their own.
writeRegistrations(r) ==
    /\ At(r, "regs") /\ EndsSo(r)
    /\ books' = [books EXCEPT !.regs = 2]
    /\ UNCHANGED <<zone, book, issuers, ck, ended>>

\* The maps last, with the apex they leave beside the new one: the units are served under it from here on.
writeMaps(r) ==
    /\ At(r, "maps") /\ EndsSo(r)
    /\ books' = [books EXCEPT !.apex = 2, !.prev = IF books.apex = 1 THEN 1 ELSE @]
    /\ UNCHANGED <<zone, book, issuers, ck, ended>>

\* A row of the book from a run that is neither the move nor this one.
NewerWriter(r, i) == LET bk == book[Records[i].target] IN bk # NoRow /\ bk.by \notin {Param(r).src, Id(r)}

\* The newer row is the one the plan found: the record was never moved.
NeverMoved(r, i) == NewerWriter(r, i) /\ Noted(r, i).book # NoRow /\ book[Records[i].target] = Noted(r, i).book

\* Mutant: a record that stood before the move is taken for one the move inserted.
MutantInserted(r, i) == LET x == Records[i] IN ~Repoint(x) /\ x.after \in zone[x.target]

Inserted(r, i) == LET x == Records[i] IN ~Repoint(x) /\ ~Noted(r, i).had /\ x.after \in zone[x.target]

\* The inverse refuses whatever it cannot prove the move wrote.
ReverseRefuses(r, i) ==
    LET x == Records[i]
        cur == zone[x.target]
        bk == book[x.target]
    IN \/ Occupied(x, Noted(r, i).before, cur)
       \/ NewerWriter(r, i) /\ ~NeverMoved(r, i)
       \/ ~NeverMoved(r, i) /\ Repoint(x) /\ Cardinality(cur) > 1
       \/ ~NeverMoved(r, i) /\ Inserted(r, i) /\ (bk = NoRow \/ bk.by # Param(r).src)

\* Every known conflict is refused before the first inverse write.
validateInverse(r) ==
    /\ At(r, "validate") \/ (At(r, "attest-inverse") /\ Of(r, {"rollback"}))
    /\ \A i \in DOMAIN Records : ~ReverseRefuses(r, i)
    /\ EndsSo(r) /\ UNCHANGED <<zone, book, books, issuers, ck, ended>>

restoreMaps(r) ==
    /\ At(r, "unmaps") /\ EndsSo(r)
    /\ books' = [books EXCEPT !.apex = 1, !.prev = IF books.apex = 2 THEN 0 ELSE @]
    /\ UNCHANGED <<zone, book, issuers, ck, ended>>

restoreRegistrations(r) ==
    /\ At(r, "unregs") /\ EndsSo(r)
    /\ books' = [books EXCEPT !.regs = 1]
    /\ UNCHANGED <<zone, book, issuers, ck, ended>>

\* One record back: re-pointed where it kept its name, deleted where the move inserted it.
restoreRecord(r) ==
    /\ At(r, "unrecord")
    /\ LET i == On(r)[2]
           x == Records[i]
           f == Noted(r, i)
       IN /\ ~ReverseRefuses(r, i)
          /\ \/ NeverMoved(r, i) /\ UNCHANGED <<zone, book>> /\ EndsSo(r)
             \/ /\ ~NeverMoved(r, i)
                /\ \/ Repoint(x) /\ upsertRecord(x.target, f.before)
                   \/ Inserted(r, i) /\ deleteRecords(x.target, {x.after})
                   \/ ~Repoint(x) /\ ~Inserted(r, i) /\ UNCHANGED zone
                /\ \/ book' = [book EXCEPT ![x.target] = f.book] /\ EndsSo(r)
                   \/ UNCHANGED book /\ Again(r, run[r])
    /\ UNCHANGED <<books, issuers, ck, ended>>

-----------------------------------------------------------------------------
(* What the DNS inventory says: the records this installation owns, and what stands at them. *)

Tagged(c) == c[1] \in {"own", "hand"}
Standing(n) == IF \E c \in zone[n] : Tagged(c) THEN CHOOSE c \in zone[n] : Tagged(c) ELSE None

\* The mail measurement: an SPF must name the host mail leaves by, the platform's key must be the
\* sender's; of the relay's key and of a DMARC policy one record must stand, whatever it says.
mailRowOk(n) ==
    /\ Cardinality({c \in zone[n] : Tagged(c)}) = 1
    /\ n[1] \in {"spf", "env", "pdkim"} => Standing(n)[2] = 1

\* The names it derives: the unit apex's mail records, the platform's two, and the records of the units.
MailRows == {<<rec, books.apex>> : rec \in MailRecords} \cup PlatformNames
UnitRows == {<<"host", books.apex>>, <<"own", 0>>}
MarkRows == {n \in {"mark"} \X Domains : book[n].owner = "tenant"}

readDnsInventory == MailRows \cup UnitRows \cup MarkRows

\* A record whose name the inventory no longer derives is taken back on the strength of its row.
withBookedRows(n) == n \in readDnsInventory \/ book[n] # NoRow

Nothing == [by |-> "content", cs |-> {}]

\* What taking a record back deletes at the provider: the booked content where it stands; unbooked, the
\* tagged record the measurement judged this platform's, or every record of a unit's name.
providerRemoval(n) ==
    IF book[n] # NoRow THEN [by |-> "content", cs |-> {book[n].c} \cap zone[n]]
    ELSE IF n \notin MailNames THEN [by |-> "name", cs |-> zone[n]]
    ELSE IF mailRowOk(n) THEN [by |-> "content", cs |-> {Standing(n)}]
    ELSE Nothing

-----------------------------------------------------------------------------
(* The runs on mail records and on single records. *)

\* The platform's own mail service keeps the apex records of the platform domain: none of these runs does.
senderDomain == books.apex

\* The address mail leaves from and the host its reverse DNS names.
requireMailEgress == scope.egress

\* The stage's mail sender and the public key it signs with.
signerKeyOf == scope.signer

MailRun(kind, n, mb, names) == [kind |-> kind, id |-> used.plans + 1, d |-> n[2], n |-> n, mb |-> mb, names |-> names]

\* A run of one program on the master that writes these names.
Publishes(r, kind, mb, names) ==
    /\ kind \in scope.kinds
    /\ Plans(r, MailRun(kind, <<"spf", senderDomain>>, mb, names), {"server"}, <<St("attest-cluster", None)>> \o Booked(names))
    /\ UNCHANGED <<zone, book, books, issuers, ck, ended>>

senderDomainTxt(d) == <<<<"spf", d>>, <<"dkim", d>>, <<"dmarc", d>>>>

planPublish(r) == requireMailEgress /\ \E mb \in {1, 2} : Publishes(r, "publish", mb, senderDomainTxt(senderDomain))

planDkim(r) == signerKeyOf /\ Publishes(r, "dkim", 1, <<<<"pdkim", 0>>>>)

planEnvelope(r) == requireMailEgress /\ Publishes(r, "envelope", 1, <<<<"env", 0>>>>)

attestCluster(r) ==
    /\ At(r, "attest-cluster") /\ EndsSo(r)
    /\ UNCHANGED <<zone, book, books, issuers, ck, ended>>

\* Mutant: a retry reads anew what stood before the program.
MutantReadBefore(r) ==
    /\ At(r, "before") /\ EndsSo(r)
    /\ ck' = [ck EXCEPT ![r].before = [n \in ToSet(Param(r).names) |-> Standing(n)]]
    /\ UNCHANGED <<zone, book, books, issuers, ended>>

\* What stood before the program, read once and kept over a retry.
readBefore(r) ==
    /\ At(r, "before") /\ EndsSo(r)
    /\ LET names == ToSet(Param(r).names)
       IN ck' = IF DOMAIN ck[r].before = names THEN ck ELSE [ck EXCEPT ![r].before = [n \in names |-> Standing(n)]]
    /\ UNCHANGED <<zone, book, books, issuers, ended>>

\* The program on the master writes one record: an SPF is merged into the one that stands, a key and a
\* policy are set. Its answers are composed as it starts: a domain that is no sender any more is refused.
program(r) ==
    /\ At(r, "program") /\ (IF Of(r, {"dkim"}) THEN signerKeyOf ELSE requireMailEgress)
    /\ Of(r, {"publish"}) => Param(r).d = senderDomain
    /\ LET n == On(r)
           stood == Standing(n)
           c == CASE n[1] \in {"spf", "env"} -> <<IF stood = None THEN "own" ELSE stood[1], 1>>
                  [] n[1] = "dmarc" -> <<"own", Param(r).mb>>
                  [] OTHER -> <<"own", 1>>
       IN zone' = [zone EXCEPT ![n] = (@ \ {x \in @ : Tagged(x)}) \cup {c}]
    /\ EndsSo(r)
    /\ UNCHANGED <<book, books, issuers, ck, ended>>

readAfter(r) ==
    /\ At(r, "after") /\ EndsSo(r)
    /\ ck' = [ck EXCEPT ![r].after = [n \in ToSet(Param(r).names) |-> Standing(n)]]
    /\ UNCHANGED <<zone, book, books, issuers, ended>>

\* What the program changed goes into the book.
bookedTxtProgramStep(r) ==
    /\ At(r, "enter") /\ EndsSo(r)
    /\ book' = [n \in Names |->
                   IF n \in DOMAIN ck[r].after /\ ck[r].after[n] \notin {None, ck[r].before[n]}
                   THEN [c |-> ck[r].after[n], owner |-> "mail", by |-> Id(r)] ELSE book[n]]
    /\ UNCHANGED <<zone, books, issuers, ck, ended>>

\* Only a record the book says a run here published, standing alone, with one report mailbox.
bookedDmarc(d) == book[<<"dmarc", d>>].owner = "mail"

readStandingDmarc(d) ==
    /\ Cardinality(zone[<<"dmarc", d>>]) = 1
    /\ Standing(<<"dmarc", d>>) # None /\ Standing(<<"dmarc", d>>)[2] # 0

withReportMailbox(c, mb) == <<c[1], mb>>

planDmarc(r) ==
    \E d \in Domains, mb \in {1, 2} :
        /\ "dmarc" \in scope.kinds /\ bookedDmarc(d) /\ readStandingDmarc(d)
        /\ Plans(r, MailRun("dmarc", <<"dmarc", d>>, mb, <<>>), {},
                 <<St("attest-dmarc", None), St("dmarc-intent", None), St("dmarc-write", None)>>)
        /\ UNCHANGED <<zone, book, books, issuers, ck, ended>>

attestDmarc(r) ==
    /\ At(r, "attest-dmarc") /\ bookedDmarc(Param(r).d) /\ readStandingDmarc(Param(r).d)
    /\ EndsSo(r) /\ UNCHANGED <<zone, book, books, issuers, ck, ended>>

\* The change is put down, and its cleanup registered, before the write. A retry that finds its own
\* write keeps what stood before it. No definition carries the cleanup: an abort ends at it.
dmarcIntent(r) ==
    /\ At(r, "dmarc-intent") /\ readStandingDmarc(Param(r).d)
    /\ LET standing == Standing(<<"dmarc", Param(r).d>>)
           stood == IF ck[r].next = standing THEN ck[r].stood ELSE standing
           next == withReportMailbox(stood, Param(r).mb)
       IN \/ /\ stood = next /\ UNCHANGED <<ck, used>>
             /\ run' = [run EXCEPT ![r].todo = Tail(Tail(@))]
          \/ /\ stood # next
             /\ ck' = [ck EXCEPT ![r].stood = stood, ![r].next = next]
             /\ Ends(r, [run[r] EXCEPT !.armed = <<St("restore-dmarc", None)>>])
    /\ UNCHANGED <<zone, book, books, issuers, ended>>

dmarcWrite(r) ==
    /\ At(r, "dmarc-write")
    /\ LET n == <<"dmarc", Param(r).d>>
       IN /\ upsertRecord(n, ck[r].next)
          /\ \/ recordDnsWrite(n, ck[r].next, "mail", Id(r)) /\ EndsSo(r)
             \/ UNCHANGED book /\ Again(r, run[r])
    /\ UNCHANGED <<books, issuers, ck, ended>>

\* A domain this installation does not send as is refused, the platform's own included.
publishedRecordsOf(d) == d = senderDomain

planUnpublish(r) ==
    /\ "unpublish" \in scope.kinds
    /\ \E n \in scope.takes :
        /\ n = <<"spf", senderDomain>>
        /\ Plans(r, MailRun("unpublish", n, 0, <<>>), {},
                 <<St("attest-rows", None)>> \o [i \in 1 .. 3 |-> St("take", senderDomainTxt(n[2])[i])])
    /\ UNCHANGED <<zone, book, books, issuers, ck, ended>>

planRemoval(r) ==
    /\ "remove" \in scope.kinds
    /\ \E n \in scope.takes :
        withBookedRows(n) /\ Plans(r, MailRun("remove", n, 0, <<>>), {}, <<St("attest-rows", None), St("take", n)>>)
    /\ UNCHANGED <<zone, book, books, issuers, ck, ended>>

\* The inventory says whose the records are: unpublish by the domain it sends as, remove by the name.
Owned(r) == IF Of(r, {"unpublish"}) THEN publishedRecordsOf(Param(r).d) ELSE withBookedRows(Param(r).n)

attestRows(r) ==
    /\ At(r, "attest-rows") /\ Owned(r)
    /\ EndsSo(r) /\ UNCHANGED <<zone, book, books, issuers, ck, ended>>

\* Read, judged again, deleted by content, and forgotten by the book whatever stood there.
deleteRecord(r) ==
    /\ At(r, "take") /\ Owned(r)
    /\ LET n == On(r)
       IN /\ deleteRecords(n, providerRemoval(n).cs)
          /\ \/ forgetDnsWrite(n) /\ EndsSo(r)
             \/ UNCHANGED book /\ Fails(r, run[r])
    /\ UNCHANGED <<books, issuers, ck, ended>>

-----------------------------------------------------------------------------
(* The specification. *)

UnitZone == [n \in Names |-> CASE n = <<"host", 1>> -> {<<"cluster", 0>>} [] n = <<"mark", 1>> -> {<<"issuer", 1>>}
                               [] n = <<"own", 0>> -> {<<"zone", 1>>} [] OTHER -> {}]
UnitBook == [n \in Names |-> IF UnitZone[n] = {} THEN NoRow
                             ELSE [c |-> CHOOSE c \in UnitZone[n] : TRUE, owner |-> "tenant", by |-> 0]]

Init ==
    /\ NoRuns /\ scope \in Starts
    /\ zone = [n \in Names |-> IF n \in DOMAIN scope.stands THEN scope.stands[n] ELSE UnitZone[n]]
    /\ book = [n \in Names |-> IF n \in scope.unbooked THEN NoRow ELSE UnitBook[n]]
    /\ books = [apex |-> scope.domain, prev |-> 0, regs |-> scope.domain]
    /\ issuers = [bound |-> {scope.domain}, signs |-> scope.domain]
    /\ ck = [r \in Runs |-> NoCk] /\ ended = {} /\ hands = {}
    /\ past = [at |-> [r \in Runs |-> UnitZone], other |-> {}, aborted |-> FALSE]

\* Somebody else's record at a name the move wants, while no unit is served under it.
Hand ==
    /\ Cardinality(hands) < MaxHands
    /\ \E n \in scope.taken : zone[n] = {} /\ zone' = [zone EXCEPT ![n] = {Theirs}] /\ hands' = hands \cup {n}
    /\ UNCHANGED <<run, used, book, books, issuers, ck, ended>>

StartRun(r) == Start(r) /\ Approvable(r) /\ ck' = [ck EXCEPT ![r] = NoCk] /\ UNCHANGED <<zone, book, books, issuers, ended>>

RetryRun(r) == Retry(r) /\ UNCHANGED <<zone, book, books, issuers, ck, ended>>

\* Nothing registered: the abort settles the run at once, and a move ends cancelled.
AbortRun(r) ==
    /\ ~Undoing(r) /\ Aborts(r)
    /\ UNCHANGED <<zone, book, books, issuers, ck, ended>>

Keeps(r, st) == ended' = IF Moves(r) THEN ended \cup {Stopped(r, st)} ELSE ended

FinishRun(r) ==
    /\ Finish(r)
    /\ Keeps(r, IF Undoing(r) THEN "cancelled" ELSE "succeeded")
    /\ UNCHANGED <<zone, book, books, issuers, ck>>

\* A deleted run is still read by its id.
DeleteRun(r) ==
    /\ Delete(r)
    /\ IF run[r].st = "failed" THEN Keeps(r, "failed") ELSE UNCHANGED ended
    /\ UNCHANGED <<zone, book, books, issuers, ck>>

Planning(r) ==
    /\ used.plans < scope.plans
    /\ planMove(r) \/ planRollback(r) \/ planPublish(r) \/ planDkim(r) \/ planEnvelope(r) \/ planDmarc(r) \/ planUnpublish(r) \/ planRemoval(r)

DomainStep(r) ==
    \/ attestMove(r) \/ bindIssuers(r) \/ writeRecord(r) \/ writeRegistrations(r) \/ writeMaps(r)
    \/ watchTenantZones(r) \/ unbindIssuers(r) \/ validateInverse(r) \/ restoreMaps(r)
    \/ restoreRegistrations(r) \/ restoreRecord(r)

MailStep(r) ==
    \/ attestCluster(r) \/ readBefore(r) \/ program(r) \/ readAfter(r) \/ bookedTxtProgramStep(r)
    \/ attestDmarc(r) \/ dmarcIntent(r) \/ dmarcWrite(r) \/ attestRows(r) \/ deleteRecord(r)

OfRun(r) ==
    \/ Planning(r) \/ DomainStep(r) \/ MailStep(r) \/ StepThrows(r)
    \/ StartRun(r) \/ RetryRun(r) \/ AbortRun(r) \/ FinishRun(r) \/ DeleteRun(r)

\* The history: the zone a run found, and the runs whose records another one wrote meanwhile.
Remembering(r) ==
    past' = [aborted |-> past.aborted \/ Undoing(r),
             at |-> IF run[r].st = "planned" /\ run'[r].st = "running" THEN [past.at EXCEPT ![r] = zone] ELSE past.at,
             other |-> IF zone' = zone THEN past.other \ {q \in {r} : run'[q].st = "idle"} ELSE past.other \cup (Runs \ {r})]

Next ==
    \/ \E r \in Runs : OfRun(r) /\ Remembering(r) /\ UNCHANGED <<hands, scope>>
    \/ Render /\ UNCHANGED <<hands, past, scope>>
    \/ Hand /\ UNCHANGED <<past, scope>>

Spec == Init /\ [][Next]_vars

-----------------------------------------------------------------------------
(* Properties. *)

\* The name the maps serve the units under answers: writeRecords runs before writeMaps on the way there, and
\* after it on the way back (applyInstallationDomain), so no failure in between leaves an apex without hosts.
ServedNameResolves ==
    (<<"host", books.apex>> \notin hands /\ "remove" \notin scope.kinds) =>
        <<"cluster", 0>> \in zone[<<"host", books.apex>>] /\ zone[<<"own", 0>>] # {}

\* The tenant's mail is accepted: the issuer its identity provider signs with is bound at its sender domain, at
\* every moment of a move and of a rollback, whatever fails and is retried. The abort of a move is left out:
\* it unbinds without waiting for the members (installation-domain-issuers.ts).
TenantCanSend == ~past.aborted /\ (\A r \in Runs : ~Undoing(r)) => issuers.signs \in issuers.bound

\* "A forward move arms the rebind where it took one": an aborted move leaves the issuer it returns to bound. A
\* call whose answer was lost took the issuer and armed nothing, and the abort rebinds nothing.
AbortedMoveCanSend ==
    [][\A r \in Runs : run[r].st = "running" /\ run'[r].st = "idle" /\ Moves(r) /\ Undoing(r) => 1 \in issuers.bound]_vars

Ending(r) == run[r].st = "running" /\ run'[r].st = "idle"

\* A move or a rollback that ends has carried everything over: the maps, the registrations, each record of the
\* plan standing and booked or taken back with its row, and the issuers (installation-domain.ts, 78-88, 120-128).
DomainRunEndsWhole ==
    [][\A r \in Runs : Ending(r) /\ Of(r, {"move", "rollback"}) /\ ~Param(r).dry /\ ~Undoing(r) =>
          LET d == IF Of(r, {"move"}) THEN 2 ELSE 1 IN
          /\ books.apex = d /\ books.regs = d /\ issuers.bound = {d}
          /\ d = 2 => \A i \in DOMAIN Records :
                 Records[i].after \in zone[Records[i].target] /\ book[Records[i].target].c = Records[i].after]_vars

\* The way back leaves what the plan found, by an abort's cleanup and by the rollback of a move that went through:
\* each target name carries what it carried, and its row of the book is the one before ("restore only its recorded
\* values"); a row the plan found with no record behind it is the case RepointedComesBack is about. The rollback of a
\* cancelled or failed move is left out: a move that never got past its attestation may carry rows another abort has
\* forgotten since, and the inverse enters them again.
WayBackRestores ==
    [][\A r \in Runs : Ending(r) /\ Of(r, {"move", "rollback"}) /\ ~Param(r).dry
                       /\ (Of(r, {"move"}) => Undoing(r) /\ run[r].armed # <<>>)
                       /\ (Of(r, {"rollback"}) => ~Undoing(r) /\ \E m \in ended : m.st = "succeeded" /\ m.id = Param(r).src) =>
          /\ books.apex = 1 /\ books.regs = 1
          /\ \A i \in DOMAIN Records :
                LET x == Records[i] IN
                /\ book[x.target] = Noted(r, i).book
                /\ ~Repoint(x) /\ (Noted(r, i).book = NoRow \/ Noted(r, i).had) =>
                      ((x.after \in zone[x.target]) = Noted(r, i).had)]_vars

\* A record that kept its name is pointed back as well, when an abort's cleanups have run: "restore this run's
\* unit domain fields and new records". A move that throws after the provider took the new target and before the
\* book took the row is not undone: the row still is the one the plan found, and the inverse skips the record.
RepointedComesBack ==
    [][\A r \in Runs : Ending(r) /\ Moves(r) /\ Undoing(r) =>
          \A i \in DOMAIN Records : Repoint(Records[i]) => zone[Records[i].target] = {Param(r).snap[i].before}]_vars

\* What a publish changed is in the book when it ends, over every retry of its program, unless another run wrote
\* at the same time: what stood before is read once and kept (bookedTxtProgramStep, mail-dns-publish.ts).
PublishedIsBooked ==
    [][\A r \in Runs : Ending(r) /\ Of(r, {"publish", "dkim", "envelope"}) /\ ~Undoing(r) /\ r \notin past.other =>
          \A n \in ToSet(Param(r).names) :
              zone[n] # past.at[r][n] => book[n].c = Standing(n)]_vars

\* Nothing of another hand is taken from the zone: the other TXT of a name stays, an SPF that does not name this
\* platform's host is only ever merged into, and somebody's record at a unit's new name is left alone.
OthersRecordsStay ==
    [][\A n \in Names :
          /\ <<"note", 0>> \in zone[n] => <<"note", 0>> \in zone'[n]
          /\ Theirs \in zone[n] /\ "remove" \notin scope.kinds => Theirs \in zone'[n]
          /\ n[1] = "spf" /\ <<"hand", 0>> \in zone[n] => <<"hand", 0>> \in zone'[n] \/ <<"hand", 1>> \in zone'[n]]_vars

\* The served name answers and the tenant's mail is accepted, at every step of a move.
DnsInv == TypeOK /\ ServedNameResolves /\ TenantCanSend

\* What a run wrote stands and is booked when it ends, and nothing of another hand is taken.
WrittenStands == DomainRunEndsWhole /\ PublishedIsBooked /\ OthersRecordsStay

=============================================================================
