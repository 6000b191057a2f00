------------------------------- MODULE Books -------------------------------
(***************************************************************************)
(* The books: the branch of the deploy repository this installation keeps  *)
(* its tenant registrations on, and the one checkout of it the Manager     *)
(* writes through (server/adapters/git).  A writer takes a turn on the     *)
(* checkout, is reset to what origin carries, commits, pushes, and rebases *)
(* when somebody else was faster.  Others write the same branch without a  *)
(* turn: the release pipeline pins a new image, a person corrects a file,  *)
(* a second process.  Any call may fail, and a push may land although its  *)
(* answer is lost.                                                         *)
(*                                                                         *)
(* The tree is abstracted to one tenant's registration (a field its run    *)
(* writes, the bundle tag the pipeline pins, the tag its members are held  *)
(* at, the list the boot job fills), the chart's pin file and the          *)
(* product's own file.                                                     *)
(***************************************************************************)
EXTENDS Naturals, Sequences, FiniteSets, SequencesExt

CONSTANTS
    Tags,            \* image tags, numbered by the time they were minted; 0 is no tag
    CarriesTrunk,    \* carriesTrunkToBooksBranch: may this process create and advance the branch?
    MaxRetries,      \* rebase-retries of a rejected push
    MaxTrunk,        \* product versions the trunk reaches
    Budgets          \* how many faults, outside writes, asks, reaps and images a behaviour may have

ASSUME BooksAssumption ==
    /\ Tags \subseteq Nat \ {0} /\ Tags # {}
    /\ {MaxRetries, MaxTrunk} \subseteq Nat
    /\ Budgets \subseteq [{"faults", "outside", "asks", "reaps", "images"} -> Nat]
    /\ CarriesTrunk \in BOOLEAN

VARIABLES
    origin,     \* the branch on origin, oldest commit first: [tree, by, carried]
    trunk,      \* the product's version on the trunk
    line,       \* the turn queue of the checkout's directory: workers, the first one has the turn
    job,        \* what each worker asked for and how far it is
    wt,         \* the checkout: [tree, base, ahead]
    bounds      \* what is left of the behaviour's budget

booksVars == <<origin, trunk, line, job, wt, bounds>>

\* The run holding the tenant's lock; the boot job that fills in the database lists; the carry of the
\* trunk; a reader.
Workers == {"run", "databases", "carry", "reader"}
\* A registration: appsImageTag is its bundle, approvedTags what its members are held at.
NoReg == [flag |-> FALSE, bundle |-> 0, held |-> 0, dbs |-> FALSE, there |-> FALSE]
Fresh(t) == [flag |-> FALSE, bundle |-> t, held |-> t, dbs |-> FALSE, there |-> TRUE]
Trees == [reg : [flag : BOOLEAN, bundle : Tags \cup {0}, held : Tags \cup {0}, dbs : BOOLEAN, there : BOOLEAN],
          pin : Tags \cup {0}, chart : 0..MaxTrunk + 1]
ByHand == MaxTrunk + 1                    \* the product's file, changed on the branch itself

Tip == origin[Len(origin)]
IdleJob == [op |-> "none", pc |-> "idle", seen |-> NoReg, tag |-> 0, tries |-> 0, from |-> 0, answer |-> "none", commit |-> 0]

Can(what) == bounds[what] > 0
Spend(what) == bounds' = [bounds EXCEPT ![what] = @ - 1]

Commit(tree, by, carried) == origin' = Append(origin, [tree |-> tree, by |-> by, carried |-> carried])

-----------------------------------------------------------------------------
(* Asking for a turn. *)

\* The operations that write: commitTenant writes a whole registration; setTenantSuspended and its
\* like (set), setTenantAppsRepo (pin), setApprovedTags (hold), setLinePairing (pair: both tags in
\* one commit) and removeTenant read in one turn and write in a second; a unit's flip and
\* setAppDatabases read and write in one.
RunOps == {"commit", "set", "pin", "hold", "pair", "remove", "flip"}
TwoTurns(op) == op \in {"set", "pin", "hold", "pair", "remove"}
OneTurn(op) == op \in {"flip", "databases"}

withBranch(w) == line' = Append(line, w)

Ask(w, op, t) ==
    /\ job[w].pc = "idle" /\ Can("asks") /\ Spend("asks")
    /\ withBranch(w)
    /\ job' = [job EXCEPT ![w] = [IdleJob EXCEPT !.op = op, !.pc = "reset", !.tag = t, !.from = Len(origin)]]
    /\ UNCHANGED <<origin, trunk, wt>>

AskRun(built) == \E op \in RunOps, t \in built : (op \in {"set", "remove", "flip"} => t = Min(built)) /\ Ask("run", op, t)
AskDatabases == Ask("databases", "databases", 0)
\* The timer: a tick that finds the last carry in flight does nothing.
AskCarry == CarriesTrunk /\ Ask("carry", "carry", 0)
\* A read through the read-only view, or a scan in an ordinary turn.
AskRead == \E op \in {"read", "scan"} : Ask("reader", op, 0)

\* The caller has its answer and may ask again; the timer's act is no longer in flight.
Forget(w) ==
    /\ job[w].pc = "settled"
    /\ job' = [job EXCEPT ![w] = IdleJob]
    /\ UNCHANGED <<origin, trunk, line, wt, bounds>>

-----------------------------------------------------------------------------
(* One turn. *)

HasTurn(w) == line # <<>> /\ line[1] = w

Turn(w, pc) == job[w].pc = pc /\ HasTurn(w)

MutantRelease(w) == IF job[w].pc = "push" THEN UNCHANGED line ELSE line' = Tail(line)
\* A turn that settles either way releases the directory to the next one.
Release(w) == line[1] = w /\ line' = Tail(line)

Settle(w, answer, commit) ==
    /\ job' = [job EXCEPT ![w].pc = "settled", ![w].answer = answer, ![w].commit = commit]
    /\ Release(w)

Throws(w) == Settle(w, "failed", 0)

Checkout(tree, base) == wt' = [tree |-> tree, base |-> base, ahead |-> FALSE, landed |-> FALSE]

MutantSyncWorktree == IF wt.base = Len(origin) THEN UNCHANGED wt ELSE Checkout(Tip.tree, Len(origin))
\* Fetch, checkout -f, reset --hard, clean: whatever a turn before this one left is gone.
syncWorktree == Checkout(Tip.tree, Len(origin))

\* Origin carries no such branch.  A read-only turn never creates it; where the trunk is carried the
\* branch is minted at its head, elsewhere its absence is raised.
MayCreate(w) == CarriesTrunk /\ job[w].op # "read"
createBooksBranch ==
    LET tree == [reg |-> NoReg, pin |-> 0, chart |-> trunk]
    IN /\ Commit(tree, "carry", trunk)
       /\ Checkout(tree, 1)

ResetToOrigin(w) ==
    /\ Turn(w, "reset")
    /\ \/ /\ origin # <<>>
          /\ syncWorktree /\ UNCHANGED origin
          /\ job' = [job EXCEPT ![w].pc = "body"] /\ UNCHANGED line
       \/ /\ origin = <<>> /\ MayCreate(w)
          /\ createBooksBranch
          /\ job' = [job EXCEPT ![w].pc = "body"] /\ UNCHANGED line
       \/ /\ origin = <<>> /\ ~MayCreate(w)
          /\ Throws(w) /\ UNCHANGED <<origin, wt>>
    /\ UNCHANGED <<trunk, bounds>>

\* A checkout that cannot be brought to origin is rebuilt once; a remote that does not answer throws.
ResetFails(w) ==
    /\ Turn(w, "reset") /\ Can("faults") /\ Spend("faults")
    /\ Throws(w)
    /\ UNCHANGED <<origin, trunk, wt>>

ReadTurn(w) ==
    /\ Turn(w, "body") /\ job[w].op \in {"read", "scan"}
    /\ Settle(w, "ok", 0)
    /\ UNCHANGED <<origin, trunk, wt, bounds>>

\* The first of two turns: the registration is read, and the write queues behind whoever waits.
ReadFirst(w) ==
    /\ Turn(w, "body") /\ TwoTurns(job[w].op) /\ ~job[w].seen.there
    /\ \/ /\ ~wt.tree.reg.there /\ Throws(w)
       \/ /\ wt.tree.reg.there
          /\ job' = [job EXCEPT ![w].seen = wt.tree.reg, ![w].pc = "reset"]
          /\ line' = Append(Tail(line), w)
    /\ UNCHANGED <<origin, trunk, wt, bounds>>

\* The setters hand the whole registration on with their own fields changed, so that no partial
\* rewrite drops a field.
PatchFields(reg) == [reg EXCEPT !.flag = ~@]
PatchBundle(reg, t) == [reg EXCEPT !.bundle = t]
PatchHeld(reg, t) == [reg EXCEPT !.held = t]
FillDatabases(reg) == [reg EXCEPT !.dbs = TRUE]

\* What the turn writes, out of what its caller read: in the turn before, or in this one.
Written(w) ==
    LET j == job[w]
    IN CASE j.op = "commit"    -> Fresh(j.tag)
         [] j.op = "set"       -> PatchFields(j.seen)
         [] j.op = "pin"       -> PatchBundle(j.seen, j.tag)
         [] j.op = "hold"      -> PatchHeld(j.seen, j.tag)
         [] j.op = "pair"      -> PatchHeld(PatchBundle(j.seen, j.tag), j.tag)
         [] j.op = "remove"    -> NoReg
         [] j.op = "flip"      -> PatchFields(wt.tree.reg)
         [] j.op = "databases" -> FillDatabases(wt.tree.reg)

WriteBody(w) == Turn(w, "body") /\ job[w].op \in RunOps \cup {"databases"} /\ (TwoTurns(job[w].op) => job[w].seen.there)

\* Nothing stands to be changed: a flip throws, the boot job passes the tenant over.
NothingStands(w) ==
    /\ WriteBody(w) /\ OneTurn(job[w].op) /\ ~wt.tree.reg.there
    /\ IF job[w].op = "flip" THEN Throws(w) ELSE Settle(w, "none", 0)
    /\ UNCHANGED <<origin, trunk, wt, bounds>>

\* Staged bytes equal to HEAD: no commit, no push, the answer is HEAD.
CommitNothing(w) ==
    /\ WriteBody(w) /\ (OneTurn(job[w].op) => wt.tree.reg.there)
    /\ Written(w) = wt.tree.reg
    /\ Settle(w, "ok", wt.base)
    /\ UNCHANGED <<origin, trunk, wt, bounds>>

CommitIn(w) ==
    /\ WriteBody(w)
    /\ OneTurn(job[w].op) => wt.tree.reg.there
    /\ Written(w) # wt.tree.reg
    /\ wt' = [wt EXCEPT !.tree.reg = Written(w), !.ahead = TRUE]
    /\ job' = [job EXCEPT ![w].pc = "push", ![w].seen = IF TwoTurns(job[w].op) THEN @ ELSE wt.tree.reg]
    /\ UNCHANGED <<origin, trunk, line, bounds>>

-----------------------------------------------------------------------------
(* The push. *)

CarriedBy(w) == IF job[w].op = "carry" THEN job[w].tag ELSE Tip.carried

Pushed(w) == Commit(wt.tree, w, CarriedBy(w))

PushLands(w) ==
    /\ Turn(w, "push") /\ wt.base = Len(origin)
    /\ \/ wt.ahead /\ Pushed(w) /\ Settle(w, "ok", Len(origin'))
          /\ wt' = [wt EXCEPT !.ahead = FALSE, !.base = Len(origin')]
       \/ ~wt.ahead /\ UNCHANGED <<origin, wt>> /\ Settle(w, "ok", wt.base)
    /\ UNCHANGED <<trunk, bounds>>

\* A turn with a retry left rebases and pushes again; the carry of the trunk never does.
MayRetry(w) == job[w].op # "carry" /\ job[w].tries < MaxRetries
Retries(w) == job' = [job EXCEPT ![w].pc = "rebase"] /\ UNCHANGED line

\* The push landed and its answer did not come back.  git's own words for a broken connection may
\* read "failed to push" (the loop goes on and rebases onto itself) or not (the turn throws).
PushAnswerLost(w) ==
    /\ Turn(w, "push") /\ wt.ahead /\ wt.base = Len(origin) /\ Pushed(w)
    /\ Can("faults") /\ Spend("faults")
    /\ wt' = [wt EXCEPT !.landed = TRUE]
    /\ \/ Throws(w)
       \/ MayRetry(w) /\ Retries(w)
    /\ UNCHANGED trunk

\* Nothing landed, in words that read like a rejected push or not.
PushFails(w) ==
    /\ Turn(w, "push") /\ Can("faults") /\ Spend("faults")
    /\ \/ Throws(w)
       \/ MayRetry(w) /\ Retries(w)
    /\ UNCHANGED <<origin, trunk, wt>>

\* Somebody else was faster.
PushRejected(w) ==
    /\ Turn(w, "push") /\ wt.base < Len(origin)
    /\ IF MayRetry(w) THEN Retries(w) ELSE Throws(w)
    /\ UNCHANGED <<origin, trunk, wt, bounds>>

\* pull --rebase: the turn's own change replayed on what origin carries now, line by line.  b is the
\* registration the turn began on, o the one it wrote, t the one origin carries.
Took(b, o, t) == IF o # b THEN o ELSE t
Clash(b, o, t) == o # b /\ t # b /\ o # t
Differ(x, y) == x.flag # y.flag \/ x.bundle # y.bundle \/ x.held # y.held \/ x.dbs # y.dbs
Clashes(b, o, t) ==
    \/ Clash(b.flag, o.flag, t.flag) \/ Clash(b.bundle, o.bundle, t.bundle)
    \/ Clash(b.held, o.held, t.held) \/ Clash(b.dbs, o.dbs, t.dbs) \/ Clash(b.there, o.there, t.there)
    \/ ~o.there /\ Differ(t, b)
    \/ ~t.there /\ Differ(o, b)
\* Lines next to each other may clash although they differ.
MayClash(b, o, t) == Differ(o, b) /\ Differ(t, b)
Replayed(b, o, t) ==
    [flag |-> Took(b.flag, o.flag, t.flag), bundle |-> Took(b.bundle, o.bundle, t.bundle),
     held |-> Took(b.held, o.held, t.held), dbs |-> Took(b.dbs, o.dbs, t.dbs), there |-> Took(b.there, o.there, t.there)]

Base == origin[wt.base].tree.reg

Rebase(w) ==
    /\ Turn(w, "rebase")
    /\ \/ /\ wt.landed
          /\ Checkout(Tip.tree, Len(origin))
          /\ job' = [job EXCEPT ![w].pc = "push", ![w].tries = @ + 1] /\ UNCHANGED line
       \/ /\ ~wt.landed /\ ~Clashes(Base, wt.tree.reg, Tip.tree.reg)
          /\ LET reg == Replayed(Base, wt.tree.reg, Tip.tree.reg)
             IN wt' = [tree |-> [Tip.tree EXCEPT !.reg = reg], base |-> Len(origin), ahead |-> reg # Tip.tree.reg, landed |-> FALSE]
          /\ job' = [job EXCEPT ![w].pc = "push", ![w].tries = @ + 1] /\ UNCHANGED line
       \/ /\ ~wt.landed
          /\ Clashes(Base, wt.tree.reg, Tip.tree.reg) \/ MayClash(Base, wt.tree.reg, Tip.tree.reg)
          /\ Throws(w) /\ UNCHANGED wt
    /\ UNCHANGED <<origin, trunk, bounds>>

RebaseFails(w) ==
    /\ Turn(w, "rebase") /\ Can("faults") /\ Spend("faults")
    /\ Throws(w)
    /\ UNCHANGED <<origin, trunk, wt>>

-----------------------------------------------------------------------------
(* The trunk carried into the books branch: a merge, never a reset. *)

BothWrote == trunk # origin[wt.base].carried /\ wt.tree.chart # origin[wt.base].carried /\ wt.tree.chart # trunk
MutantMerged == [reg |-> NoReg, pin |-> 0, chart |-> trunk]
Merged == IF wt.tree.chart = origin[wt.base].carried THEN [wt.tree EXCEPT !.chart = trunk] ELSE wt.tree

\* The product's version that was merged stays with the job until the push.
CarryTrunk(w) ==
    /\ Turn(w, "body") /\ job[w].op = "carry"
    /\ \/ BothWrote /\ Throws(w) /\ UNCHANGED wt
       \/ /\ ~BothWrote
          /\ wt' = [wt EXCEPT !.tree = Merged, !.ahead = trunk # origin[wt.base].carried]
          /\ job' = [job EXCEPT ![w].pc = "push", ![w].tag = trunk] /\ UNCHANGED line
    /\ UNCHANGED <<origin, trunk, bounds>>

-----------------------------------------------------------------------------
(* The others. *)

Outside(tree) ==
    /\ origin # <<>>
    /\ Can("outside") /\ Spend("outside")
    /\ tree # Tip.tree
    /\ Commit(tree, "outside", Tip.carried)
    /\ UNCHANGED <<trunk, line, job, wt>>

\* The release pipeline's bump: the chart's pin file, or the bundle of the registrations that name it;
\* what a tenant's members are held at it never moves.
BumpPin(t) == Outside([Tip.tree EXCEPT !.pin = t])
BumpBundle(t) == origin # <<>> /\ Tip.tree.reg.there /\ Outside([Tip.tree EXCEPT !.reg.bundle = t])
\* A person settles a file of the product on the branch itself.
Hand == Outside([Tip.tree EXCEPT !.chart = ByHand])

TrunkMoves ==
    /\ trunk < MaxTrunk /\ trunk' = trunk + 1
    /\ Can("outside") /\ Spend("outside")
    /\ UNCHANGED <<origin, line, job, wt>>

\* The process ends: turns and answers are gone, the checkout stays as it lies.
Crash ==
    /\ Can("faults") /\ Spend("faults")
    /\ line # <<>>
    /\ line' = <<>> /\ job' = [w \in Workers |-> IdleJob]
    /\ UNCHANGED <<origin, trunk, wt>>

-----------------------------------------------------------------------------
BooksInit ==
    /\ trunk = 0
    \* a new installation, or one with a tenant registered
    /\ origin \in {<<>>, <<[tree |-> [reg |-> Fresh(Min(Tags)), pin |-> Min(Tags), chart |-> 0],
                           by |-> "outside", carried |-> 0]>>}
    /\ line = <<>>
    /\ job = [w \in Workers |-> IdleJob]
    /\ wt = [tree |-> [reg |-> NoReg, pin |-> 0, chart |-> 0], base |-> 0, ahead |-> FALSE, landed |-> FALSE]
    /\ bounds \in Budgets

TurnStep(w) ==
    \/ ResetToOrigin(w) \/ ReadTurn(w) \/ ReadFirst(w) \/ NothingStands(w) \/ CommitNothing(w) \/ CommitIn(w)
    \/ PushLands(w) \/ PushRejected(w) \/ Rebase(w) \/ CarryTrunk(w)

TurnFault(w) == ResetFails(w) \/ PushAnswerLost(w) \/ PushFails(w) \/ RebaseFails(w)
=============================================================================
