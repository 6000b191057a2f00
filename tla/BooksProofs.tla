---------------------------- MODULE BooksProofs ----------------------------
(***************************************************************************)
(* What the turns on the books branch promise, for any tags, retries,      *)
(* faults, outside writes and asks: a writer that answers has its change   *)
(* on origin, a push publishes its turn's own part and nothing else, and   *)
(* the reaper takes no image whose pin stood.                              *)
(***************************************************************************)
EXTENDS RegistryCleanup, SequenceTheorems, WellFoundedInduction, TLAPS

-----------------------------------------------------------------------------
\* The inductive invariant.

Regs == [flag : BOOLEAN, bundle : Tags \cup {0}, held : Tags \cup {0}, dbs : BOOLEAN, there : BOOLEAN]
Commits == [tree : Trees, by : Workers \cup {"outside"}, carried : Nat]
Jobs == [op : RunOps \cup {"none", "databases", "carry", "read", "scan"},
         pc : {"idle", "reset", "body", "push", "rebase", "settled"},
         seen : Regs, tag : Nat, tries : Nat, from : Nat, answer : {"none", "ok", "failed"}, commit : Nat]

\* The asks that name a tag.
Tagged == {"commit", "pin", "hold", "pair"}

Types ==
    /\ origin \in Seq(Commits) /\ trunk \in 0..MaxTrunk
    /\ line \in Seq(Workers) /\ job \in [Workers -> Jobs]
    /\ wt \in [tree : Trees, base : Nat, ahead : BOOLEAN, landed : BOOLEAN]
    /\ wt.base <= Len(origin)
    /\ standing \subseteq Tags /\ unitPin \in Tags

\* Who asks for what.
AsksOwn ==
    /\ job["run"].op \in RunOps \cup {"none"} /\ job["databases"].op \in {"databases", "none"}
    /\ job["carry"].op \in {"carry", "none"} /\ job["reader"].op \in {"read", "scan", "none"}
    /\ \A w \in Workers : job[w].op \in Tagged => job[w].tag \in Tags

InTurn(w) == job[w].pc \in {"body", "push", "rebase"}

\* The line holds the workers that asked, each once, and only its first one is past its reset.
TurnsInLine ==
    /\ \A i, k \in 1..Len(line) : line[i] = line[k] => i = k
    /\ \A i \in 1..Len(line) : (job[line[i]].pc = "reset" \/ InTurn(line[i])) /\ job[line[i]].op # "none"
    /\ \A w \in Workers : InTurn(w) => line # <<>> /\ line[1] = w

\* A registration that is not there has no fields left.
RegOK(reg) == ~reg.there => reg = NoReg
BranchOK == \A i \in 1..Len(origin) : RegOK(origin[i].tree.reg)

\* What nobody but a turn of the run or of the boot job changes of a registration.
SameBut(x, y) == x.flag = y.flag /\ x.dbs = y.dbs /\ x.there = y.there

\* The checkout c of worker w's job j in its turn, over the branch o: what origin carried at the
\* turn's base, and on top of it the turn's own part.
CleanAt(w, j, c, o) ==
    /\ c.base \in 1..Len(o) /\ j.from <= c.base
    /\ RegOK(c.tree.reg)
    /\ j.pc # "rebase" => ~c.landed
    /\ j.pc = "rebase" => j.op # "carry"
    /\ j.pc = "body" => ~c.ahead
    /\ w = "reader" => j.pc = "body"
    /\ ~c.landed =>
          /\ SameBut(o[Len(o)].tree.reg, o[c.base].tree.reg)
          /\ ~c.ahead => c.tree = o[c.base].tree
          /\ c.ahead => OwnPart(w, j.op, o[c.base].tree, c.tree)

Clean == \A w \in Workers : InTurn(w) => CleanAt(w, job[w], wt, origin)

\* What a run read in its first turn stands until it writes.
StandsAt(j, o) ==
    j.seen.there /\ j.pc \in {"reset", "body"} =>
        o # <<>> /\ o[Len(o)].tree.reg.there /\ o[Len(o)].tree.reg.flag = j.seen.flag

SeenStands == StandsAt(job["run"], origin)

\* Some state of the branch, from the ask up to the n-th commit, holds what the job was to write.
HeldBy(j, o, n) == \E i \in 1..n : i >= j.from /\ Holds(o[i].tree, j)

PromisedAt(w, j, c, o) ==
    /\ j.from <= Len(o) /\ j.commit <= Len(o)
    /\ j.pc # "settled" => j.answer = "none"
    /\ w \in {"run", "databases"} =>
          /\ j.pc \in {"push", "rebase"} => Holds(c.tree, j) \/ HeldBy(j, o, c.base)
          /\ j.pc = "rebase" /\ c.landed => HeldBy(j, o, Len(o))
          /\ j.answer = "ok" => j.commit >= 1 /\ HeldBy(j, o, j.commit)

Promised == \A w \in Workers : PromisedAt(w, job[w], wt, origin)

IInv == Types /\ AsksOwn /\ TurnsInLine /\ BranchOK /\ Clean /\ SeenStands /\ Promised

\* The reaper: what has stood pinned since it began is on its floor once it searched there.
ReaperShape ==
    reaper = [pc |-> reaper.pc, left |-> reaper.left, floor |-> reaper.floor, listed |-> reaper.listed, kept |-> reaper.kept, doomed |-> reaper.doomed]

OnBranch == {"pins", "bundle", "default"}
Classes == {"unit", "trunk", "platform", "held"} \cup OnBranch
Read == {"list", "resolve", "delete"}
Searched == {"held", "members", "floor"} \cup Read

FloorHolds ==
    \A c \in steady :
        /\ c \in CarrierPins
        /\ reaper.pc \in {"branches", "deploy"} \cup Searched /\ c[1] = "unit" => c[2] \in reaper.floor
        /\ reaper.pc = "deploy" /\ c[1] = "trunk" => "trunk" \in reaper.left \/ c[2] \in reaper.floor
        /\ reaper.pc = "deploy" /\ c[1] \in OnBranch => "books" \in reaper.left \/ c[2] \in reaper.floor
        /\ reaper.pc \in Searched /\ c[1] \in OnBranch \cup {"trunk", "platform"} => c[2] \in reaper.floor
        /\ reaper.pc \in {"floor"} \cup Read /\ c[1] = "held" => c[2] \in reaper.floor
        /\ reaper.pc \in {"resolve", "delete"} /\ c[2] \in standing => c[2] \in reaper.listed

PlanHolds ==
    /\ reaper.pc \in {"resolve", "delete"} => reaper.kept = planRetention(reaper.listed, reaper.floor)
    /\ reaper.pc = "delete" => \A t \in reaper.kept : Digest[t] \notin reaper.doomed

ReapInv == ReaperShape /\ FloorHolds /\ PlanHolds

-----------------------------------------------------------------------------
\* The start.

LEMMA FirstTag == Min(Tags) \in Tags
<1>1. Tags \subseteq Nat /\ Tags # {}
  BY BooksAssumption
<1> DEFINE Less == {p \in Nat \X Nat : p[1] < p[2]}
<1>l. IsWellFoundedOn(Less, Nat)
  BY NatLessThanWellFounded, Zenon DEF OpToRel
<1>2. \E x \in Tags : \A y \in Tags : ~(<<y, x>> \in Less)
  BY <1>1, <1>l, WFMin, Zenon
<1>3. \E x \in Tags : \A y \in Tags : ~(y < x)
  BY <1>1, <1>2
<1>4. \E x \in Tags : \A y \in Tags : x <= y
  BY <1>1, <1>3
<1> QED
  BY <1>4 DEF Min

LEMMA NoRegTyped == NoReg \in Regs /\ RegOK(NoReg) /\ \A t \in Tags : Fresh(t) \in Regs /\ RegOK(Fresh(t))
BY DEF NoReg, Regs, RegOK, Fresh

LEMMA IdleJobTyped == IdleJob \in Jobs
BY NoRegTyped DEF IdleJob, Jobs, RunOps

LEMMA IInit == Init => IInv
<1> SUFFICES ASSUME Init PROVE IInv
  OBVIOUS
<1>1. MaxTrunk \in Nat /\ 0 \in 0..MaxTrunk /\ 0 \in 0..MaxTrunk + 1 /\ NoReg \in Regs
  BY BooksAssumption, NoRegTyped
<1>2. ASSUME NEW x, x = [tree |-> [reg |-> Fresh(Min(Tags)), pin |-> Min(Tags), chart |-> 0], by |-> "outside", carried |-> 0]
      PROVE  x \in Commits /\ RegOK(x.tree.reg)
  <2>1. Fresh(Min(Tags)) \in Regs /\ RegOK(Fresh(Min(Tags)))
    BY FirstTag, NoRegTyped
  <2> QED
    BY <1>1, <1>2, <2>1, FirstTag DEF Commits, Trees, Regs
<1>3. origin \in Seq(Commits) /\ BranchOK
  <2>1. CASE origin = <<>>
    BY <2>1 DEF BranchOK
  <2>2. CASE origin # <<>>
    <3>1. PICK x : origin = <<x>> /\ x = [tree |-> [reg |-> Fresh(Min(Tags)), pin |-> Min(Tags), chart |-> 0], by |-> "outside", carried |-> 0]
      BY <2>2 DEF Init, BooksInit
    <3>2. x \in Commits /\ RegOK(x.tree.reg)
      BY <3>1, <1>2
    <3> QED
      BY <3>1, <3>2 DEF BranchOK
  <2> QED
    BY <2>1, <2>2
<1>4. job = [w \in Workers |-> IdleJob] /\ line = <<>>
  BY DEF Init, BooksInit
<1>5. \A w \in Workers : job[w] = IdleJob /\ job[w].pc = "idle" /\ job[w].op = "none" /\ job[w].from = 0 /\ job[w].commit = 0
                           /\ job[w].answer = "none" /\ ~job[w].seen.there
  BY <1>4 DEF IdleJob, NoReg
<1>6. Types
  <2>1. wt \in [tree : Trees, base : Nat, ahead : BOOLEAN, landed : BOOLEAN] /\ wt.base = 0
    BY <1>1 DEF Init, BooksInit, Trees, Regs
  <2>2. job \in [Workers -> Jobs]
    BY <1>4, IdleJobTyped
  <2>3. Len(origin) \in Nat
    BY <1>3
  <2> QED
    BY <1>1, <1>3, <2>1, <2>2, <2>3, FirstTag, CleanupAssumption DEF Types, Init, BooksInit
<1>7. AsksOwn /\ Clean /\ SeenStands
  BY <1>5 DEF AsksOwn, Clean, InTurn, SeenStands, StandsAt, Workers, Tagged
<1>8. TurnsInLine
  BY <1>4, <1>5 DEF TurnsInLine, InTurn
<1>9. Promised
  <2>1. Len(origin) \in Nat
    BY <1>3
  <2> QED
    BY <1>5, <2>1 DEF Promised, PromisedAt
<1> QED
  BY <1>3, <1>6, <1>7, <1>8, <1>9 DEF IInv

-----------------------------------------------------------------------------
\* The branch only grows.

Grown == origin' = origin \/ \E x \in Commits : RegOK(x.tree.reg) /\ origin' = Append(origin, x)

LEMMA Appended ==
    ASSUME NEW o \in Seq(Commits), NEW x \in Commits, NEW p, p = Append(o, x)
    PROVE  /\ p \in Seq(Commits) /\ Len(o) \in Nat /\ Len(p) = Len(o) + 1 /\ p # <<>> /\ p[Len(p)] = x
           /\ \A i \in 1..Len(o) : p[i] = o[i]
BY DEF Commits

LEMMA GrownFacts ==
    ASSUME Types, BranchOK, Grown
    PROVE  /\ origin' \in Seq(Commits) /\ Len(origin) \in Nat /\ Len(origin') \in Nat /\ Len(origin') >= Len(origin)
           /\ \A i \in 1..Len(origin) : origin'[i] = origin[i] /\ i \in 1..Len(origin')
           /\ BranchOK'
<1>1. CASE origin' = origin
  BY <1>1 DEF Types, BranchOK
<1>2. ASSUME NEW x \in Commits, RegOK(x.tree.reg), origin' = Append(origin, x)
      PROVE  /\ origin' \in Seq(Commits) /\ Len(origin) \in Nat /\ Len(origin') \in Nat /\ Len(origin') >= Len(origin)
             /\ \A i \in 1..Len(origin) : origin'[i] = origin[i] /\ i \in 1..Len(origin')
             /\ BranchOK'
  <2>1. /\ origin' \in Seq(Commits) /\ Len(origin) \in Nat /\ Len(origin') = Len(origin) + 1 /\ origin'[Len(origin')] = x
        /\ \A i \in 1..Len(origin) : origin'[i] = origin[i]
    BY <1>2, Appended DEF Types
  <2>2. \A i \in 1..Len(origin') : i \in 1..Len(origin) \/ i = Len(origin')
    BY <2>1
  <2>3. BranchOK'
    BY <1>2, <2>1, <2>2 DEF BranchOK
  <2> QED
    BY <2>1, <2>3
<1> QED
  BY <1>1, <1>2 DEF Grown

LEMMA HeldStays ==
    ASSUME NEW j, NEW o, NEW p, NEW n, NEW m, n \in Nat, m \in Nat, n <= m, \A i \in 1..n : p[i] = o[i], HeldBy(j, o, n)
    PROVE  HeldBy(j, p, m)
<1>1. PICK i \in 1..n : i >= j.from /\ Holds(o[i].tree, j)
  BY DEF HeldBy
<1>2. i \in 1..m /\ p[i] = o[i]
  OBVIOUS
<1> QED
  BY <1>1, <1>2 DEF HeldBy

\* A worker that is not in its turn keeps what it was promised.
LEMMA OthersKeep ==
    ASSUME IInv, Grown, NEW v \in Workers, ~InTurn(v), job'[v] = job[v]
    PROVE  PromisedAt(v, job[v], wt', origin')
<1>1. /\ Len(origin) \in Nat /\ Len(origin') \in Nat /\ Len(origin') >= Len(origin)
      /\ \A i \in 1..Len(origin) : origin'[i] = origin[i]
  BY GrownFacts DEF IInv
<1>2. PromisedAt(v, job[v], wt, origin) /\ job[v] \in Jobs
  BY DEF IInv, Promised, Types
<1>3. job[v].from \in Nat /\ job[v].commit \in Nat
  BY <1>2 DEF Jobs
<1>4. job[v].pc \notin {"push", "rebase"}
  BY DEF InTurn
<1>5. ASSUME HeldBy(job[v], origin, job[v].commit), job[v].commit <= Len(origin)
      PROVE  HeldBy(job[v], origin', job[v].commit)
  <2>1. \A i \in 1..job[v].commit : origin'[i] = origin[i]
    BY <1>1, <1>3, <1>5
  <2> QED
    BY <1>3, <1>5, <2>1, HeldStays
<1> QED
  BY <1>1, <1>2, <1>3, <1>4, <1>5 DEF PromisedAt

\* The line after its first worker left, or went to its end.
LEMMA TailOfLine ==
    ASSUME NEW S, NEW s \in Seq(S), s # <<>>, \A i, k \in 1..Len(s) : s[i] = s[k] => i = k, NEW t, t = Tail(s)
    PROVE  /\ t \in Seq(S) /\ \A i, k \in 1..Len(t) : t[i] = t[k] => i = k
           /\ \A i \in 1..Len(t) : t[i] # s[1] /\ \E k \in 1..Len(s) : t[i] = s[k]
<1>1. /\ t \in Seq(S) /\ Len(s) \in Nat /\ Len(t) = Len(s) - 1 /\ 1 \in 1..Len(s)
      /\ \A i \in 1..Len(t) : t[i] = s[i + 1] /\ i + 1 \in 1..Len(s) /\ i + 1 # 1
  OBVIOUS
<1>2. ASSUME NEW i \in 1..Len(t), NEW k \in 1..Len(t), t[i] = t[k] PROVE i = k
  <2>1. i + 1 = k + 1
    BY <1>1, <1>2
  <2> QED
    BY <2>1
<1> QED
  BY <1>1, <1>2

LEMMA AddedToLine ==
    ASSUME NEW S, NEW s \in Seq(S), NEW w \in S, \A i, k \in 1..Len(s) : s[i] = s[k] => i = k,
           \A i \in 1..Len(s) : s[i] # w, NEW t, t = Append(s, w)
    PROVE  /\ t \in Seq(S) /\ \A i, k \in 1..Len(t) : t[i] = t[k] => i = k
           /\ \A i \in 1..Len(t) : t[i] = w \/ \E k \in 1..Len(s) : t[i] = s[k]
           /\ t # <<>> /\ (s # <<>> => t[1] = s[1])
<1>1. /\ t \in Seq(S) /\ Len(s) \in Nat /\ Len(t) = Len(s) + 1 /\ t[Len(t)] = w
      /\ \A i \in 1..Len(s) : t[i] = s[i]
  OBVIOUS
<1>2. \A i \in 1..Len(t) : i \in 1..Len(s) \/ i = Len(t)
  BY <1>1
<1>3. s # <<>> => 1 \in 1..Len(s)
  OBVIOUS
<1>4. t # <<>>
  BY <1>1
<1> QED
  BY <1>1, <1>2, <1>3, <1>4

LEMMA OnlyOneTurn ==
    ASSUME IInv, NEW w \in Workers, HasTurn(w), NEW v \in Workers, v # w
    PROVE  ~InTurn(v)
BY DEF IInv, TurnsInLine, HasTurn

\* What a turn's end leaves: nobody is in a turn, so that only what was answered and what the run read
\* are at stake.
LEMMA SettleKeeps ==
    ASSUME IInv, NEW w \in Workers, HasTurn(w), NEW a \in {"none", "ok", "failed"}, NEW n \in Nat,
           Settle(w, a, n), Grown, n <= Len(origin'),
           wt' \in [tree : Trees, base : Nat, ahead : BOOLEAN, landed : BOOLEAN], wt'.base <= Len(origin'),
           UNCHANGED <<trunk, standing, unitPin>>,
           w \in {"run", "databases"} /\ a = "ok" => n >= 1 /\ HeldBy(job[w], origin', n),
           w # "run" /\ origin # <<>> =>
               /\ origin' # <<>> /\ origin'[Len(origin')].tree.reg.there = Tip.tree.reg.there
               /\ origin'[Len(origin')].tree.reg.flag = Tip.tree.reg.flag
    PROVE  IInv'
<1>t. Types /\ job \in [Workers -> Jobs] /\ job[w] \in Jobs /\ line \in Seq(Workers) /\ line # <<>> /\ line[1] = w
  BY DEF IInv, Types, HasTurn
<1>g. /\ origin' \in Seq(Commits) /\ Len(origin) \in Nat /\ Len(origin') \in Nat /\ Len(origin') >= Len(origin) /\ BranchOK'
  BY <1>t, GrownFacts DEF IInv
<1>1. /\ job' = [job EXCEPT ![w].pc = "settled", ![w].answer = a, ![w].commit = n] /\ line' = Tail(line)
  BY DEF Settle, Release
<1>2. /\ job'[w] = [job[w] EXCEPT !.pc = "settled", !.answer = a, !.commit = n]
      /\ \A v \in Workers : v # w => job'[v] = job[v]
  BY <1>t, <1>1
<1>3. /\ job'[w] \in Jobs /\ job'[w].op = job[w].op /\ job'[w].seen = job[w].seen /\ job'[w].tag = job[w].tag
      /\ job'[w].from = job[w].from /\ job'[w].pc = "settled" /\ job'[w].answer = a /\ job'[w].commit = n
  BY <1>t, <1>2 DEF Jobs
<1>4. job' \in [Workers -> Jobs]
  <2>1. job' = [v \in Workers |-> job'[v]]
    BY <1>t, <1>1
  <2>2. \A v \in Workers : job'[v] \in Jobs
    BY <1>t, <1>2, <1>3
  <2> QED
    BY <2>1, <2>2
<1>5. \A v \in Workers : ~(InTurn(v)')
  BY <1>2, <1>3, OnlyOneTurn DEF InTurn
<1>6. /\ line' \in Seq(Workers) /\ \A i, k \in 1..Len(line') : line'[i] = line'[k] => i = k
      /\ \A i \in 1..Len(line') : line'[i] # line[1] /\ \E k \in 1..Len(line) : line'[i] = line[k]
  <2>1. \A i, k \in 1..Len(line) : line[i] = line[k] => i = k
    BY DEF IInv, TurnsInLine
  <2>2. line' = Tail(line)
    BY <1>1
  <2> HIDE DEF IInv
  <2> QED
    BY <1>t, <2>1, <2>2, TailOfLine
<1>7. TurnsInLine'
  <2>1. ASSUME NEW i \in 1..Len(line') PROVE job'[line'[i]].pc = "reset" /\ job'[line'[i]].op # "none"
    <3>1. PICK k \in 1..Len(line) : line'[i] = line[k] /\ line'[i] # w
      BY <1>6, <1>t
    <3>2. line'[i] \in Workers /\ ~InTurn(line'[i])
      BY <1>t, <3>1, OnlyOneTurn
    <3> QED
      BY <1>2, <3>1, <3>2 DEF IInv, TurnsInLine
  <2> QED
    BY <1>5, <1>6, <2>1 DEF TurnsInLine
<1>8. Types'
  BY <1>t, <1>g, <1>4, <1>6 DEF Types
<1>9. AsksOwn'
  <2>1. \A v \in Workers : job'[v].op = job[v].op /\ job'[v].tag = job[v].tag
    BY <1>2, <1>3
  <2> QED
    BY <2>1 DEF IInv, AsksOwn, Workers
<1>10. SeenStands'
  <2>1. CASE w = "run"
    BY <1>3, <2>1 DEF SeenStands, StandsAt
  <2>2. CASE w # "run"
    BY <1>2, <2>2 DEF IInv, SeenStands, StandsAt, Tip, Workers
  <2> QED
    BY <2>1, <2>2
<1>11. Promised'
  <2>1. ASSUME NEW v \in Workers, v # w PROVE PromisedAt(v, job'[v], wt', origin')
    BY <1>2, <2>1, OnlyOneTurn, OthersKeep
  <2>2. PromisedAt(w, job'[w], wt', origin')
    <3>1. job[w].from <= Len(origin) /\ job[w].from \in Nat
      BY <1>t DEF IInv, Promised, PromisedAt, Jobs
    <3>2. HeldBy(job[w], origin', n) => HeldBy(job'[w], origin', n)
      BY <1>3 DEF HeldBy, Holds
    <3> QED
      BY <1>3, <1>g, <3>1, <3>2 DEF PromisedAt
  <2> QED
    BY <2>1, <2>2 DEF Promised
<1>12. Clean'
  BY <1>5 DEF Clean
<1> QED
  BY <1>g, <1>7, <1>8, <1>9, <1>10, <1>11, <1>12 DEF IInv

\* A step inside a turn: the rest of the state is as it was.
LEMMA TurnKeeps ==
    ASSUME IInv, NEW w \in Workers, HasTurn(w), NEW j \in Jobs, job' = [job EXCEPT ![w] = j], j.pc \in {"body", "push", "rebase"},
           j.op = job[w].op, j.op \in Tagged => j.tag = job[w].tag, Grown,
           wt' \in [tree : Trees, base : Nat, ahead : BOOLEAN, landed : BOOLEAN],
           UNCHANGED <<line, trunk, standing, unitPin>>,
           CleanAt(w, j, wt', origin'), PromisedAt(w, j, wt', origin'),
           w = "run" => StandsAt(j, origin'),
           w # "run" /\ origin # <<>> =>
               /\ origin' # <<>> /\ origin'[Len(origin')].tree.reg.there = Tip.tree.reg.there
               /\ origin'[Len(origin')].tree.reg.flag = Tip.tree.reg.flag
    PROVE  IInv'
<1>t. Types /\ job \in [Workers -> Jobs] /\ line \in Seq(Workers) /\ line # <<>> /\ line[1] = w
  BY DEF IInv, Types, HasTurn
<1>g. /\ origin' \in Seq(Commits) /\ Len(origin) \in Nat /\ Len(origin') \in Nat /\ Len(origin') >= Len(origin) /\ BranchOK'
  BY <1>t, GrownFacts DEF IInv
<1>2. job'[w] = j /\ job' \in [Workers -> Jobs] /\ \A v \in Workers : v # w => job'[v] = job[v]
  BY <1>t
<1>3. \A v \in Workers : v # w => ~InTurn(v) /\ ~(InTurn(v)')
  BY <1>2, OnlyOneTurn DEF InTurn
<1>4. TurnsInLine'
  <2>1. ASSUME NEW i \in 1..Len(line) PROVE (job'[line[i]].pc = "reset" \/ InTurn(line[i])') /\ job'[line[i]].op # "none"
    <3>1. line[i] \in Workers /\ (job[line[i]].pc = "reset" \/ InTurn(line[i])) /\ job[line[i]].op # "none"
      BY <1>t DEF IInv, TurnsInLine
    <3> QED
      BY <1>2, <3>1 DEF InTurn
  <2> QED
    BY <1>t, <1>3, <2>1 DEF IInv, TurnsInLine
<1>5. Types'
  <2>1. wt'.base <= Len(origin')
    BY <1>g DEF CleanAt
  <2> QED
    BY <1>t, <1>g, <1>2, <2>1 DEF Types
<1>6. AsksOwn'
  <2>1. \A v \in Workers : job'[v].op = job[v].op /\ (job[v].op \in Tagged => job'[v].tag = job[v].tag)
    BY <1>2
  <2> QED
    BY <2>1 DEF IInv, AsksOwn, Workers
<1>7. SeenStands'
  <2>1. CASE w = "run"
    BY <1>2, <2>1 DEF SeenStands
  <2>2. CASE w # "run"
    BY <1>2, <2>2 DEF IInv, SeenStands, StandsAt, Tip, Workers
  <2> QED
    BY <2>1, <2>2
<1>8. Promised'
  <2>1. ASSUME NEW v \in Workers, v # w PROVE PromisedAt(v, job'[v], wt', origin')
    BY <1>2, <1>3, <2>1, OthersKeep
  <2> QED
    BY <1>2, <2>1 DEF Promised
<1>9. Clean'
  BY <1>2, <1>3 DEF Clean
<1> QED
  BY <1>g, <1>4, <1>5, <1>6, <1>7, <1>8, <1>9 DEF IInv

-----------------------------------------------------------------------------
\* The steps outside a turn.

\* A worker outside its turn gets another job, while the branch and the checkout stand still.
LEMMA JobKeeps ==
    ASSUME IInv, NEW w \in Workers, ~InTurn(w), NEW j \in Jobs, job' = [job EXCEPT ![w] = j], j.pc \in {"idle", "reset"},
           ~j.seen.there, j.from <= Len(origin), j.commit = 0, j.pc = "reset" => j.op # "none", j.answer = "none",
           w = "run" => j.op \in RunOps \cup {"none"}, w = "databases" => j.op \in {"databases", "none"},
           w = "carry" => j.op \in {"carry", "none"}, w = "reader" => j.op \in {"read", "scan", "none"},
           j.op \in Tagged => j.tag \in Tags,
           line' \in Seq(Workers), \A i, k \in 1..Len(line') : line'[i] = line'[k] => i = k,
           \A i \in 1..Len(line') : (line'[i] = w /\ j.pc = "reset") \/ (line'[i] # w /\ \E k \in 1..Len(line) : line'[i] = line[k]),
           line # <<>> => line' # <<>> /\ line'[1] = line[1],
           UNCHANGED <<origin, trunk, wt, standing, unitPin>>
    PROVE  IInv'
<1>t. Types /\ job \in [Workers -> Jobs] /\ line \in Seq(Workers) /\ Len(origin) \in Nat
  BY DEF IInv, Types
<1>2. job'[w] = j /\ job' \in [Workers -> Jobs] /\ \A v \in Workers : v # w => job'[v] = job[v]
  BY <1>t
<1>3. \A v \in Workers : InTurn(v)' => v # w /\ InTurn(v)
  BY <1>2 DEF InTurn
<1>4. TurnsInLine'
  <2>1. ASSUME NEW i \in 1..Len(line') PROVE job'[line'[i]].pc \in {"reset", "body", "push", "rebase"} /\ job'[line'[i]].op # "none"
    <3>1. CASE line'[i] = w /\ j.pc = "reset"
      BY <1>2, <3>1
    <3>2. ASSUME NEW k \in 1..Len(line), line'[i] = line[k], line'[i] # w PROVE job'[line'[i]].pc \in {"reset", "body", "push", "rebase"} /\ job'[line'[i]].op # "none"
      <4>1. line[k] \in Workers /\ (job[line[k]].pc = "reset" \/ InTurn(line[k])) /\ job[line[k]].op # "none"
        BY <1>t DEF IInv, TurnsInLine
      <4>2. job'[line[k]] = job[line[k]]
        BY <1>2, <3>2, <4>1
      <4> QED
        BY <3>2, <4>1, <4>2 DEF InTurn
    <3> QED
      BY <3>1, <3>2
  <2>2. ASSUME NEW v \in Workers, InTurn(v)' PROVE line' # <<>> /\ line'[1] = v
    BY <1>3, <2>2 DEF IInv, TurnsInLine
  <2> QED
    BY <2>1, <2>2 DEF TurnsInLine, InTurn
<1>5. Types' /\ BranchOK'
  BY <1>t, <1>2 DEF Types, IInv, BranchOK
<1>6. AsksOwn'
  BY <1>2 DEF IInv, AsksOwn, Workers
<1>7. SeenStands'
  <2>1. CASE w = "run"
    BY <1>2, <2>1 DEF SeenStands, StandsAt
  <2>2. CASE w # "run"
    BY <1>2, <2>2 DEF IInv, SeenStands, StandsAt, Workers
  <2> QED
    BY <2>1, <2>2
<1>8. Promised'
  <2>1. PromisedAt(w, j, wt, origin)
    BY <1>t DEF PromisedAt
  <2> QED
    BY <1>2, <2>1 DEF IInv, Promised
<1>9. Clean'
  BY <1>2, <1>3 DEF IInv, Clean
<1> QED
  BY <1>4, <1>5, <1>6, <1>7, <1>8, <1>9 DEF IInv

LEMMA AskKeeps ==
    ASSUME IInv, NEW w \in Workers, NEW op, NEW t \in Nat, Ask(w, op, t), UNCHANGED <<standing, unitPin>>,
           w = "run" => op \in RunOps, w = "databases" => op = "databases",
           w = "carry" => op = "carry", w = "reader" => op \in {"read", "scan"},
           op \in Tagged => t \in Tags
    PROVE  IInv'
<1>t. job \in [Workers -> Jobs] /\ line \in Seq(Workers) /\ Len(origin) \in Nat
  BY DEF IInv, Types
<1> DEFINE j == [IdleJob EXCEPT !.op = op, !.pc = "reset", !.tag = t, !.from = Len(origin)]
<1>1. /\ job[w].pc = "idle" /\ job' = [job EXCEPT ![w] = j] /\ line' = Append(line, w) /\ UNCHANGED <<origin, trunk, wt>>
  BY DEF Ask, withBranch
<1>2. /\ j \in Jobs /\ j.pc = "reset" /\ ~j.seen.there /\ j.from = Len(origin) /\ j.commit = 0 /\ j.answer = "none"
      /\ j.op = op /\ j.tag = t
  BY <1>t, NoRegTyped DEF Jobs, IdleJob, NoReg, Workers
<1>3. ~InTurn(w)
  BY <1>1 DEF InTurn
<1>4. \A i \in 1..Len(line) : line[i] # w
  BY <1>1 DEF IInv, TurnsInLine, InTurn
<1>5. \A i, k \in 1..Len(line) : line[i] = line[k] => i = k
  BY DEF IInv, TurnsInLine
<1> HIDE DEF j, IInv
<1>6. /\ line' \in Seq(Workers) /\ \A i, k \in 1..Len(line') : line'[i] = line'[k] => i = k
      /\ \A i \in 1..Len(line') : line'[i] = w \/ \E k \in 1..Len(line) : line'[i] = line[k]
      /\ line' # <<>> /\ (line # <<>> => line'[1] = line[1])
  BY <1>t, <1>1, <1>4, <1>5, AddedToLine
<1>7. \A i \in 1..Len(line') : (line'[i] = w /\ j.pc = "reset") \/ (line'[i] # w /\ \E k \in 1..Len(line) : line'[i] = line[k])
  BY <1>2, <1>6
<1>8. /\ j.from <= Len(origin)
      /\ w = "run" => j.op \in RunOps \cup {"none"}
      /\ w = "databases" => j.op \in {"databases", "none"}
      /\ w = "carry" => j.op \in {"carry", "none"}
      /\ w = "reader" => j.op \in {"read", "scan", "none"}
      /\ j.op \in Tagged => j.tag \in Tags
  BY <1>t, <1>2
<1>10. j.op # "none"
  BY <1>2 DEF Workers, RunOps
<1>9. j.pc \in {"idle", "reset"}
  BY <1>2
<1> QED
  BY <1>1, <1>2, <1>3, <1>6, <1>7, <1>8, <1>9, <1>10, JobKeeps

LEMMA AsksKeep ==
    ASSUME IInv, AskRun(standing) \/ AskDatabases \/ AskCarry \/ AskRead, Around
    PROVE  IInv'
<1>1. UNCHANGED <<standing, unitPin>> /\ standing \subseteq Tags /\ Tags \subseteq Nat
  BY BooksAssumption DEF Around, IInv, Types
<1>2. "run" \in Workers /\ "databases" \in Workers /\ "carry" \in Workers /\ "reader" \in Workers
  BY DEF Workers
<1>3. CASE AskRun(standing)
  <2>1. PICK op \in RunOps, t \in standing : Ask("run", op, t)
    BY <1>3 DEF AskRun
  <2> QED
    BY <1>1, <1>2, <2>1, AskKeeps
<1>4. CASE AskDatabases
  BY <1>1, <1>2, <1>4, AskKeeps DEF AskDatabases, Tagged
<1>5. CASE AskCarry
  BY <1>1, <1>2, <1>5, AskKeeps DEF AskCarry, Tagged
<1>6. CASE AskRead
  <2>1. PICK op \in {"read", "scan"} : Ask("reader", op, 0)
    BY <1>6 DEF AskRead
  <2> QED
    BY <1>1, <1>2, <2>1, AskKeeps DEF Tagged
<1> QED
  BY <1>3, <1>4, <1>5, <1>6

LEMMA ForgetKeeps == ASSUME IInv, NEW w \in Workers, Forget(w), Around PROVE IInv'
<1>t. job \in [Workers -> Jobs] /\ line \in Seq(Workers) /\ Len(origin) \in Nat
  BY DEF IInv, Types
<1>1. /\ job[w].pc = "settled" /\ job' = [job EXCEPT ![w] = IdleJob] /\ UNCHANGED <<origin, trunk, line, wt, standing, unitPin>>
  BY DEF Forget, Around
<1>2. /\ IdleJob \in Jobs /\ IdleJob.pc = "idle" /\ ~IdleJob.seen.there /\ IdleJob.from = 0 /\ IdleJob.commit = 0
      /\ IdleJob.answer = "none" /\ IdleJob.op = "none"
  BY IdleJobTyped DEF IdleJob, NoReg
<1>3. ~InTurn(w) /\ \A i \in 1..Len(line) : line[i] # w
  BY <1>1 DEF InTurn, IInv, TurnsInLine
<1>4. \A i, k \in 1..Len(line') : line'[i] = line'[k] => i = k
  BY <1>1 DEF IInv, TurnsInLine
<1>5. \A i \in 1..Len(line') : line'[i] # w /\ \E k \in 1..Len(line) : line'[i] = line[k]
  BY <1>1, <1>3
<1>6. IdleJob.from <= Len(origin)
  BY <1>t, <1>2
<1> QED
  BY <1>t, <1>1, <1>2, <1>3, <1>4, <1>5, <1>6, JobKeeps DEF Tagged

LEMMA CrashKeeps == ASSUME IInv, Crash, Around PROVE IInv'
<1>1. line' = <<>> /\ job' = [w \in Workers |-> IdleJob] /\ UNCHANGED <<origin, trunk, wt, standing, unitPin>>
  BY DEF Crash, Around
<1>2. \A w \in Workers : job'[w] = IdleJob /\ job'[w].pc = "idle" /\ job'[w].op = "none" /\ job'[w].from = 0
                           /\ job'[w].commit = 0 /\ job'[w].answer = "none" /\ ~job'[w].seen.there
  BY <1>1 DEF IdleJob, NoReg
<1>3. Types' /\ BranchOK' /\ Len(origin) \in Nat
  <2>1. job' \in [Workers -> Jobs]
    BY <1>1, IdleJobTyped
  <2>2. line' \in Seq(Workers)
    BY <1>1
  <2> QED
    BY <1>1, <2>1, <2>2 DEF IInv, Types, BranchOK
<1>4. AsksOwn' /\ Clean' /\ SeenStands'
  BY <1>2 DEF AsksOwn, Clean, InTurn, SeenStands, StandsAt, Workers, Tagged
<1>5. TurnsInLine'
  BY <1>1, <1>2 DEF TurnsInLine, InTurn
<1>6. Promised'
  BY <1>1, <1>2, <1>3 DEF Promised, PromisedAt
<1> QED
  BY <1>3, <1>4, <1>5, <1>6 DEF IInv

LEMMA TrunkKeeps == ASSUME IInv, TrunkMoves, Around PROVE IInv'
<1>1. trunk < MaxTrunk /\ trunk' = trunk + 1 /\ UNCHANGED <<origin, line, job, wt, standing, unitPin>>
  BY DEF TrunkMoves, Around
<1>2. Types'
  BY <1>1, BooksAssumption DEF IInv, Types
<1>3. AsksOwn' /\ BranchOK' /\ SeenStands' /\ Promised'
  BY <1>1 DEF IInv, AsksOwn, BranchOK, SeenStands, Promised
<1>4. TurnsInLine' /\ Clean'
  BY <1>1 DEF IInv, TurnsInLine, Clean, InTurn
<1> QED
  BY <1>2, <1>3, <1>4 DEF IInv

\* A commit from outside touches neither a job nor the checkout.
LEMMA PromiseGrows ==
    ASSUME Types, BranchOK, Grown, NEW w \in Workers, NEW j \in Jobs, NEW c, c.base \in Nat, c.base <= Len(origin),
           PromisedAt(w, j, c, origin)
    PROVE  PromisedAt(w, j, c, origin')
<1>1. /\ Len(origin) \in Nat /\ Len(origin') \in Nat /\ Len(origin') >= Len(origin)
      /\ \A i \in 1..Len(origin) : origin'[i] = origin[i]
  BY GrownFacts
<1>2. j.from \in Nat /\ j.commit \in Nat /\ j.from <= Len(origin) /\ j.commit <= Len(origin)
  BY DEF Jobs, PromisedAt
<1>3. ASSUME NEW n \in Nat, NEW m \in Nat, n <= Len(origin), n <= m, HeldBy(j, origin, n) PROVE HeldBy(j, origin', m)
  <2>1. \A i \in 1..n : origin'[i] = origin[i]
    BY <1>1, <1>3
  <2> QED
    BY <1>3, <2>1, HeldStays
<1>4. HeldBy(j, origin, c.base) => HeldBy(j, origin', c.base)
  BY <1>3
<1>5. HeldBy(j, origin, Len(origin)) => HeldBy(j, origin', Len(origin'))
  BY <1>1, <1>3
<1>6. HeldBy(j, origin, j.commit) => HeldBy(j, origin', j.commit)
  BY <1>2, <1>3
<1> QED
  BY <1>1, <1>2, <1>4, <1>5, <1>6 DEF PromisedAt

LEMMA TipTyped ==
    ASSUME Types, BranchOK, origin # <<>>
    PROVE  /\ Tip \in Commits /\ Tip.tree \in Trees /\ Tip.tree.reg \in Regs /\ RegOK(Tip.tree.reg)
           /\ Len(origin) \in Nat \ {0} /\ Len(origin) \in 1..Len(origin) /\ Tip.carried \in Nat
<1>1. Len(origin) \in Nat \ {0} /\ Len(origin) \in 1..Len(origin) /\ Tip \in Commits
  BY DEF Types, Tip
<1>2. Tip.tree \in Trees /\ Tip.carried \in Nat
  BY <1>1 DEF Commits
<1>3. Tip.tree.reg \in Regs
  BY <1>2 DEF Trees, Regs
<1> QED
  BY <1>1, <1>2, <1>3 DEF BranchOK, Tip

LEMMA OutsideKeeps ==
    ASSUME IInv, NEW tree \in Trees, Outside(tree), RegOK(tree.reg), SameBut(tree.reg, Tip.tree.reg), Around
    PROVE  IInv'
<1> DEFINE x == [tree |-> tree, by |-> "outside", carried |-> Tip.carried]
<1>1. /\ origin # <<>> /\ origin' = Append(origin, x) /\ UNCHANGED <<trunk, line, job, wt, standing, unitPin>>
  BY DEF Outside, Commit, Around
<1>t. Types /\ BranchOK /\ origin \in Seq(Commits) /\ job \in [Workers -> Jobs] /\ wt.base \in Nat /\ wt.base <= Len(origin)
  BY DEF IInv, Types
<1>2. x \in Commits /\ x.tree = tree
  BY <1>t, <1>1, TipTyped DEF Commits
<1> HIDE DEF x
<1>3. Grown
  BY <1>1, <1>2 DEF Grown
<1>4. /\ origin' \in Seq(Commits) /\ Len(origin) \in Nat /\ Len(origin') = Len(origin) + 1 /\ origin'[Len(origin')] = x
      /\ origin' # <<>> /\ \A i \in 1..Len(origin) : origin'[i] = origin[i]
  BY <1>t, <1>1, <1>2, Appended
<1>5. Types' /\ BranchOK'
  BY <1>t, <1>1, <1>3, <1>4, GrownFacts DEF Types
<1>6. AsksOwn' /\ TurnsInLine'
  BY <1>1 DEF IInv, AsksOwn, TurnsInLine, InTurn
<1>7. SeenStands'
  BY <1>1, <1>2, <1>4 DEF IInv, SeenStands, StandsAt, SameBut, Tip
<1>8. Promised'
  <2> SUFFICES ASSUME NEW w \in Workers PROVE PromisedAt(w, job[w], wt, origin')
    BY <1>1 DEF Promised
  <2>1. job[w] \in Jobs /\ PromisedAt(w, job[w], wt, origin)
    BY <1>t DEF IInv, Promised
  <2> QED
    BY <1>t, <1>3, <2>1, PromiseGrows
<1>9. Clean'
  <2> SUFFICES ASSUME NEW w \in Workers, InTurn(w) PROVE CleanAt(w, job[w], wt, origin')
    BY <1>1 DEF Clean, InTurn
  <2>1. CleanAt(w, job[w], wt, origin)
    BY DEF IInv, Clean
  <2>2. wt.base \in 1..Len(origin) /\ wt.base \in 1..Len(origin') /\ origin'[wt.base] = origin[wt.base]
    BY <1>4, <2>1 DEF CleanAt
  <2>3. SameBut(Tip.tree.reg, origin[wt.base].tree.reg) => SameBut(x.tree.reg, origin[wt.base].tree.reg)
    BY <1>2 DEF SameBut
  <2> QED
    BY <1>4, <2>1, <2>2, <2>3 DEF CleanAt, Tip
<1> QED
  BY <1>5, <1>6, <1>7, <1>8, <1>9 DEF IInv

LEMMA OthersWrite ==
    ASSUME IInv, Around, Hand \/ \E t \in standing : BumpPin(t) \/ BumpBundle(t)
    PROVE  IInv'
<1>1. origin # <<>>
  BY DEF Hand, BumpPin, BumpBundle, Outside
<1>2. Tip.tree \in Trees /\ Tip.tree.reg \in Regs /\ RegOK(Tip.tree.reg) /\ standing \subseteq Tags /\ MaxTrunk \in Nat
  BY <1>1, TipTyped, BooksAssumption DEF IInv, Types
<1>3. CASE Hand
  <2> DEFINE tree == [Tip.tree EXCEPT !.chart = ByHand]
  <2>1. tree \in Trees /\ tree.reg = Tip.tree.reg
    BY <1>2 DEF Trees, ByHand
  <2>2. RegOK(tree.reg) /\ SameBut(tree.reg, Tip.tree.reg) /\ Outside(tree)
    BY <1>2, <1>3, <2>1 DEF SameBut, Hand
  <2> QED
    BY <2>1, <2>2, OutsideKeeps
<1>4. ASSUME NEW t \in standing, BumpPin(t) PROVE IInv'
  <2> DEFINE tree == [Tip.tree EXCEPT !.pin = t]
  <2>1. tree \in Trees /\ tree.reg = Tip.tree.reg
    BY <1>2 DEF Trees
  <2>2. RegOK(tree.reg) /\ SameBut(tree.reg, Tip.tree.reg) /\ Outside(tree)
    BY <1>2, <1>4, <2>1 DEF SameBut, BumpPin
  <2> QED
    BY <2>1, <2>2, OutsideKeeps
<1>5. ASSUME NEW t \in standing, BumpBundle(t) PROVE IInv'
  <2> DEFINE tree == [Tip.tree EXCEPT !.reg.bundle = t]
  <2>0. Tip.tree.reg.there /\ Outside(tree)
    BY <1>5 DEF BumpBundle
  <2>1. tree = [Tip.tree EXCEPT !.reg = [Tip.tree.reg EXCEPT !.bundle = t]]
    OBVIOUS
  <2>2. tree \in Trees /\ tree.reg = [Tip.tree.reg EXCEPT !.bundle = t]
    BY <1>2, <2>1 DEF Trees, Regs
  <2>3. SameBut(tree.reg, Tip.tree.reg) /\ tree.reg.there = Tip.tree.reg.there
    BY <1>2, <2>2 DEF SameBut, Regs
  <2>4. RegOK(tree.reg)
    BY <2>0, <2>3 DEF RegOK
  <2> QED
    BY <2>0, <2>2, <2>3, <2>4, OutsideKeeps
<1> QED
  BY <1>3, <1>4, <1>5

-----------------------------------------------------------------------------
\* The three-way merge of a registration.

LEMMA Replay ==
    ASSUME NEW b \in Regs, NEW o \in Regs, NEW t \in Regs, RegOK(b), RegOK(o), RegOK(t), SameBut(t, b), ~Clashes(b, o, t),
           NEW r, r = Replayed(b, o, t)
    PROVE  /\ r \in Regs /\ RegOK(r)
           /\ r.flag = (IF o.flag # b.flag THEN o.flag ELSE t.flag) /\ r.bundle = (IF o.bundle # b.bundle THEN o.bundle ELSE t.bundle)
           /\ r.held = (IF o.held # b.held THEN o.held ELSE t.held)
           /\ r.dbs = (IF o.dbs # b.dbs THEN o.dbs ELSE t.dbs) /\ r.there = (IF o.there # b.there THEN o.there ELSE t.there)
           /\ o.there # b.there \/ (o.bundle = b.bundle /\ o.held = b.held) \/ t.there
<1>1. /\ r = [flag |-> Took(b.flag, o.flag, t.flag), bundle |-> Took(b.bundle, o.bundle, t.bundle),
              held |-> Took(b.held, o.held, t.held), dbs |-> Took(b.dbs, o.dbs, t.dbs), there |-> Took(b.there, o.there, t.there)]
      /\ r.flag = (IF o.flag # b.flag THEN o.flag ELSE t.flag) /\ r.bundle = (IF o.bundle # b.bundle THEN o.bundle ELSE t.bundle)
      /\ r.held = (IF o.held # b.held THEN o.held ELSE t.held)
      /\ r.dbs = (IF o.dbs # b.dbs THEN o.dbs ELSE t.dbs) /\ r.there = (IF o.there # b.there THEN o.there ELSE t.there)
  BY DEF Replayed, Took
<1>2. r \in Regs
  BY <1>1 DEF Regs, Took
<1>3. ASSUME ~r.there PROVE ~r.flag /\ r.bundle = 0 /\ r.held = 0 /\ ~r.dbs
  <2>1. CASE ~b.there
    <3>1. ~o.there /\ ~t.there
      BY <1>1, <1>3, <2>1 DEF Regs, SameBut
    <3>2. o = NoReg /\ t = NoReg
      BY <3>1 DEF RegOK
    <3> QED
      BY <1>1, <3>2 DEF NoReg
  <2>2. CASE b.there
    <3>1. ~o.there /\ t.there
      BY <1>1, <1>3, <2>2 DEF Regs, SameBut
    <3>2. o = NoReg /\ ~Differ(t, b)
      BY <3>1 DEF RegOK, Clashes
    <3> QED
      BY <1>1, <3>2 DEF NoReg, Differ
  <2> QED
    BY <2>1, <2>2
<1>4. RegOK(r)
  <2> SUFFICES ASSUME ~r.there PROVE r = NoReg
    BY DEF RegOK
  <2> QED
    BY <1>2, <1>3 DEF Regs, NoReg
<1>5. o.there # b.there \/ (o.bundle = b.bundle /\ o.held = b.held) \/ t.there
  BY DEF Clashes, Differ
<1> QED
  BY <1>1, <1>2, <1>4, <1>5

\* A merge keeps to the turn's own part.
LEMMA ReplayOwn ==
    ASSUME NEW b \in Trees, NEW o \in Trees, NEW t \in Trees, RegOK(b.reg), RegOK(o.reg), RegOK(t.reg), SameBut(t.reg, b.reg),
           ~Clashes(b.reg, o.reg, t.reg), NEW w \in {"run", "databases"}, NEW op, OwnPart(w, op, b, o),
           NEW n, n = [t EXCEPT !.reg = Replayed(b.reg, o.reg, t.reg)]
    PROVE  OwnPart(w, op, t, n)
<1> DEFINE r == Replayed(b.reg, o.reg, t.reg)
<1>t. b.reg \in Regs /\ o.reg \in Regs /\ t.reg \in Regs
  BY DEF Trees, Regs
<1>1. /\ r \in Regs
      /\ r.flag = (IF o.reg.flag # b.reg.flag THEN o.reg.flag ELSE t.reg.flag)
      /\ r.bundle = (IF o.reg.bundle # b.reg.bundle THEN o.reg.bundle ELSE t.reg.bundle)
      /\ r.held = (IF o.reg.held # b.reg.held THEN o.reg.held ELSE t.reg.held)
      /\ r.dbs = (IF o.reg.dbs # b.reg.dbs THEN o.reg.dbs ELSE t.reg.dbs)
      /\ r.there = (IF o.reg.there # b.reg.there THEN o.reg.there ELSE t.reg.there)
  BY <1>t, Replay
<1>2. n.reg = r /\ n.pin = t.pin /\ n.chart = t.chart /\ n = [t EXCEPT !.reg = r]
  BY DEF Trees
<1> HIDE DEF r
<1>3. CASE w = "databases"
  <2>1. o = [b EXCEPT !.reg.dbs = TRUE]
    BY <1>3 DEF OwnPart
  <2>2. o.reg = [b.reg EXCEPT !.dbs = TRUE]
    BY <2>1 DEF Trees
  <2>3. o.reg.flag = b.reg.flag /\ o.reg.bundle = b.reg.bundle /\ o.reg.held = b.reg.held /\ o.reg.there = b.reg.there /\ o.reg.dbs = TRUE
    BY <1>t, <2>2 DEF Regs
  <2>4. r.flag = t.reg.flag /\ r.bundle = t.reg.bundle /\ r.held = t.reg.held /\ r.there = t.reg.there /\ r.dbs = TRUE
    BY <1>t, <1>1, <2>3 DEF SameBut, Regs
  <2>5. r = [t.reg EXCEPT !.dbs = TRUE]
    BY <1>t, <1>1, <2>4 DEF Regs
  <2>6. n = [t EXCEPT !.reg.dbs = TRUE]
    BY <1>2, <2>5
  <2> QED
    BY <1>3, <2>6 DEF OwnPart
<1>4. CASE w = "run"
  <2>1. /\ op = "flip" => o.reg = PatchFields(b.reg)
        /\ op = "set" => o.reg.flag # b.reg.flag
        /\ op \in {"pin", "hold", "pair"} => o.reg.flag = b.reg.flag
    BY <1>4 DEF OwnPart
  <2>2. ASSUME op = "flip" PROVE r = PatchFields(t.reg)
    <3>1. o.reg.flag = ~b.reg.flag /\ o.reg.bundle = b.reg.bundle /\ o.reg.held = b.reg.held /\ o.reg.there = b.reg.there /\ o.reg.dbs = b.reg.dbs
      BY <1>t, <2>1, <2>2 DEF PatchFields, Regs
    <3>2. r.flag = ~t.reg.flag /\ r.bundle = t.reg.bundle /\ r.held = t.reg.held /\ r.there = t.reg.there /\ r.dbs = t.reg.dbs
      BY <1>t, <1>1, <3>1 DEF SameBut, Regs
    <3> QED
      BY <1>t, <1>1, <3>2 DEF PatchFields, Regs
  <2>3. op = "set" => r.flag # t.reg.flag
    BY <1>t, <1>1, <2>1 DEF SameBut
  <2>4. op \in {"pin", "hold", "pair"} => r.flag = t.reg.flag
    BY <1>1, <2>1
  <2> QED
    BY <1>2, <1>4, <2>2, <2>3, <2>4 DEF OwnPart
<1> QED
  BY <1>3, <1>4

\* What was to be written is in the merged tree, unless it was in the one the turn began on.
LEMMA ReplayHolds ==
    ASSUME NEW b \in Trees, NEW o \in Trees, NEW t \in Trees, RegOK(b.reg), RegOK(o.reg), RegOK(t.reg), SameBut(t.reg, b.reg),
           ~Clashes(b.reg, o.reg, t.reg), NEW j \in Jobs, j.op \in Tagged => j.tag \in Tags, Holds(o, j),
           NEW n, n = [t EXCEPT !.reg = Replayed(b.reg, o.reg, t.reg)]
    PROVE  Holds(n, j) \/ Holds(b, j)
<1> DEFINE r == Replayed(b.reg, o.reg, t.reg)
<1>t. b.reg \in Regs /\ o.reg \in Regs /\ t.reg \in Regs
  BY DEF Trees, Regs
<1>1. /\ r \in Regs
      /\ r.flag = (IF o.reg.flag # b.reg.flag THEN o.reg.flag ELSE t.reg.flag)
      /\ r.bundle = (IF o.reg.bundle # b.reg.bundle THEN o.reg.bundle ELSE t.reg.bundle)
      /\ r.held = (IF o.reg.held # b.reg.held THEN o.reg.held ELSE t.reg.held)
      /\ r.dbs = (IF o.reg.dbs # b.reg.dbs THEN o.reg.dbs ELSE t.reg.dbs)
      /\ r.there = (IF o.reg.there # b.reg.there THEN o.reg.there ELSE t.reg.there)
      /\ o.reg.there # b.reg.there \/ (o.reg.bundle = b.reg.bundle /\ o.reg.held = b.reg.held) \/ t.reg.there
  BY <1>t, Replay
<1>2. n.reg = r
  BY DEF Trees
<1> HIDE DEF r
<1>3. CASE j.op = "commit"
  <2>1. o.reg.there /\ o.reg.bundle = j.tag /\ j.tag # 0
    BY <1>3, BooksAssumption DEF Holds, Tagged
  <2>2. ~b.reg.there => b.reg.bundle = 0
    BY DEF RegOK, NoReg
  <2>3. (r.there /\ r.bundle = j.tag) \/ (b.reg.there /\ b.reg.bundle = j.tag)
    BY <1>t, <1>1, <2>1, <2>2 DEF Regs
  <2> QED
    BY <1>2, <1>3, <2>3 DEF Holds
<1>4. CASE j.op \in {"set", "flip"}
  BY <1>1, <1>2, <1>4 DEF Holds
<1>5. CASE j.op = "pin"
  BY <1>1, <1>2, <1>5 DEF Holds
<1>9. CASE j.op \in {"hold", "pair"}
  BY <1>1, <1>2, <1>9 DEF Holds
<1>6. CASE j.op = "remove"
  BY <1>t, <1>1, <1>2, <1>6 DEF Holds, Regs
<1>7. CASE j.op = "databases"
  BY <1>t, <1>1, <1>2, <1>7 DEF Holds, Regs
<1>8. CASE j.op \notin {"commit", "set", "flip", "pin", "hold", "pair", "remove", "databases"}
  BY <1>8 DEF Holds
<1> QED
  BY <1>3, <1>4, <1>5, <1>6, <1>7, <1>8, <1>9

-----------------------------------------------------------------------------
\* The steps of a turn.

Checkouts == [tree : Trees, base : Nat, ahead : BOOLEAN, landed : BOOLEAN]

\* What a step of the worker whose turn it is starts from.
LEMMA TurnFacts ==
    ASSUME IInv, NEW w \in Workers, HasTurn(w)
    PROVE  /\ Types /\ BranchOK /\ job \in [Workers -> Jobs] /\ job[w] \in Jobs /\ wt \in Checkouts /\ wt.base <= Len(origin)
           /\ Len(origin) \in Nat /\ origin \in Seq(Commits) /\ trunk \in 0..MaxTrunk
           /\ job[w].from \in Nat /\ job[w].from <= Len(origin) /\ job[w].commit \in Nat /\ job[w].commit <= Len(origin)
           /\ job[w].tries \in Nat /\ job[w].seen \in Regs /\ PromisedAt(w, job[w], wt, origin)
           /\ InTurn(w) => CleanAt(w, job[w], wt, origin)
<1>1. /\ Types /\ BranchOK /\ job \in [Workers -> Jobs] /\ job[w] \in Jobs /\ wt \in Checkouts /\ wt.base <= Len(origin)
      /\ Len(origin) \in Nat /\ origin \in Seq(Commits) /\ trunk \in 0..MaxTrunk
  BY DEF IInv, Types, Checkouts
<1>2. PromisedAt(w, job[w], wt, origin) /\ (InTurn(w) => CleanAt(w, job[w], wt, origin))
  BY DEF IInv, Promised, Clean
<1>3. job[w].from \in Nat /\ job[w].commit \in Nat /\ job[w].tries \in Nat /\ job[w].seen \in Regs
  BY <1>1 DEF Jobs
<1>4. job[w].from <= Len(origin) /\ job[w].commit <= Len(origin)
  BY <1>2 DEF PromisedAt
<1> QED
  BY <1>1, <1>2, <1>3, <1>4

LEMMA ThrowsKeep ==
    ASSUME IInv, NEW w \in Workers, HasTurn(w), Throws(w), UNCHANGED <<origin, trunk, wt, standing, unitPin>>
    PROVE  IInv'
<1>1. Grown /\ Settle(w, "failed", 0) /\ "failed" \in {"none", "ok", "failed"} /\ 0 \in Nat
  BY DEF Grown, Throws
<1>2. wt' \in Checkouts /\ wt'.base <= Len(origin') /\ 0 <= Len(origin')
  BY TurnFacts
<1> QED
  BY <1>1, <1>2, SettleKeeps DEF Tip, Checkouts

LEMMA ResetKeeps == ASSUME IInv, NEW w \in Workers, ResetToOrigin(w) \/ ResetFails(w), Around PROVE IInv'
<1>0. HasTurn(w) /\ job[w].pc = "reset" /\ UNCHANGED <<standing, unitPin, trunk>>
  BY DEF ResetToOrigin, ResetFails, Turn, Around
<1>t. /\ Types /\ BranchOK /\ job \in [Workers -> Jobs] /\ job[w] \in Jobs /\ Len(origin) \in Nat /\ origin \in Seq(Commits)
      /\ trunk \in 0..MaxTrunk /\ job[w].from \in Nat /\ job[w].from <= Len(origin) /\ job[w].commit <= Len(origin)
      /\ job[w].commit \in Nat /\ PromisedAt(w, job[w], wt, origin)
  BY <1>0, TurnFacts
<1> DEFINE j == [job[w] EXCEPT !.pc = "body"]
<1>j. /\ j \in Jobs /\ j.pc = "body" /\ j.op = job[w].op /\ j.tag = job[w].tag /\ j.seen = job[w].seen /\ j.from = job[w].from
      /\ j.commit = job[w].commit /\ j.answer = "none"
  BY <1>t, <1>0 DEF Jobs, PromisedAt
<1>1. CASE /\ origin # <<>> /\ syncWorktree /\ UNCHANGED origin
           /\ job' = [job EXCEPT ![w].pc = "body"] /\ UNCHANGED line
  <2>1. Tip.tree \in Trees /\ RegOK(Tip.tree.reg) /\ Len(origin) \in 1..Len(origin)
    BY <1>t, <1>1, TipTyped
  <2>2. wt' = [tree |-> Tip.tree, base |-> Len(origin), ahead |-> FALSE, landed |-> FALSE]
    BY <1>1 DEF syncWorktree, Checkout
  <2>3. wt' \in Checkouts /\ wt'.tree = Tip.tree /\ wt'.base = Len(origin) /\ ~wt'.ahead /\ ~wt'.landed
    BY <1>t, <2>1, <2>2 DEF Checkouts
  <2>4. CleanAt(w, j, wt', origin')
    BY <1>1, <1>t, <1>j, <2>1, <2>3 DEF CleanAt, SameBut, Tip
  <2>5. PromisedAt(w, j, wt', origin')
    BY <1>1, <1>t, <1>j DEF PromisedAt
  <2>6. w = "run" => StandsAt(j, origin')
    BY <1>0, <1>1, <1>j DEF IInv, SeenStands, StandsAt
  <2>7. job' = [job EXCEPT ![w] = j] /\ Grown
    BY <1>1 DEF Grown
  <2> HIDE DEF j
  <2>8. w # "run" /\ origin # <<>> => /\ origin' # <<>> /\ origin'[Len(origin')].tree.reg.there = Tip.tree.reg.there
                                      /\ origin'[Len(origin')].tree.reg.flag = Tip.tree.reg.flag
    BY <1>1 DEF Tip
  <2> QED
    BY <1>0, <1>1, <1>j, <2>3, <2>4, <2>5, <2>6, <2>7, <2>8, TurnKeeps DEF Checkouts
<1>2. CASE /\ origin = <<>> /\ createBooksBranch
           /\ job' = [job EXCEPT ![w].pc = "body"] /\ UNCHANGED line
  <2> DEFINE tree == [reg |-> NoReg, pin |-> 0, chart |-> trunk]
             x == [tree |-> tree, by |-> "carry", carried |-> trunk]
  <2>1. tree \in Trees /\ RegOK(tree.reg) /\ x \in Commits /\ x.tree = tree
    BY <1>t, NoRegTyped, BooksAssumption DEF Trees, Regs, Commits, Workers
  <2>2. origin' = Append(origin, x) /\ wt' = [tree |-> tree, base |-> 1, ahead |-> FALSE, landed |-> FALSE]
    BY <1>2 DEF createBooksBranch, Commit, Checkout
  <2> HIDE DEF x, tree
  <2>3. wt' \in Checkouts /\ wt'.tree = tree /\ wt'.base = 1 /\ ~wt'.ahead /\ ~wt'.landed
    BY <2>1, <2>2 DEF Checkouts
  <2>4. origin' \in Seq(Commits) /\ Len(origin') = 1 /\ origin'[1] = x /\ job[w].from = 0 /\ job[w].commit = 0 /\ origin' # <<>>
    <3>1. Len(origin) = 0
      BY <1>2
    <3>2. origin' \in Seq(Commits) /\ Len(origin') = Len(origin) + 1 /\ origin'[Len(origin')] = x /\ origin' # <<>>
      BY <1>t, <2>1, <2>2, Appended
    <3> QED
      BY <1>t, <3>1, <3>2
  <2>5. CleanAt(w, j, wt', origin')
    BY <1>j, <2>1, <2>3, <2>4 DEF CleanAt, SameBut
  <2>6. PromisedAt(w, j, wt', origin')
    BY <1>j, <2>4 DEF PromisedAt
  <2>7. w = "run" => StandsAt(j, origin')
    BY <1>0, <1>2, <1>j DEF IInv, SeenStands, StandsAt
  <2>8. job' = [job EXCEPT ![w] = j] /\ Grown
    BY <1>2, <2>1, <2>2 DEF Grown
  <2> HIDE DEF j
  <2> QED
    BY <1>0, <1>2, <1>j, <2>3, <2>5, <2>6, <2>7, <2>8, TurnKeeps DEF Checkouts
<1>3. CASE Throws(w) /\ UNCHANGED <<origin, wt>>
  BY <1>0, <1>3, ThrowsKeep
<1> QED
  BY <1>1, <1>2, <1>3 DEF ResetToOrigin, ResetFails

LEMMA ReadKeeps == ASSUME IInv, NEW w \in Workers, ReadTurn(w), Around PROVE IInv'
<1>1. HasTurn(w) /\ Settle(w, "ok", 0) /\ job[w].op \in {"read", "scan"} /\ UNCHANGED <<origin, trunk, wt, standing, unitPin>>
  BY DEF ReadTurn, Turn, Around
<1>2. w \notin {"run", "databases"}
  BY <1>1 DEF IInv, AsksOwn, RunOps
<1>3. wt' \in Checkouts /\ wt'.base <= Len(origin') /\ 0 <= Len(origin') /\ Grown
  BY <1>1, TurnFacts DEF Grown
<1> QED
  BY <1>1, <1>2, <1>3, SettleKeeps DEF Tip, Checkouts

LEMMA NothingKeeps == ASSUME IInv, NEW w \in Workers, NothingStands(w), Around PROVE IInv'
<1>1. HasTurn(w) /\ (Throws(w) \/ Settle(w, "none", 0)) /\ UNCHANGED <<origin, trunk, wt, standing, unitPin>>
  BY DEF NothingStands, WriteBody, Turn, Around
<1>2. wt' \in Checkouts /\ wt'.base <= Len(origin') /\ 0 <= Len(origin') /\ Grown
  BY <1>1, TurnFacts DEF Grown
<1>3. CASE Settle(w, "none", 0)
  BY <1>1, <1>2, <1>3, SettleKeeps DEF Tip, Checkouts
<1> QED
  BY <1>1, <1>3, ThrowsKeep

\* What a turn is about to write.
LEMMA WrittenFacts ==
    ASSUME IInv, NEW w \in Workers, WriteBody(w), OneTurn(job[w].op) => wt.tree.reg.there
    PROVE  /\ w \in {"run", "databases"} /\ (w = "databases" <=> job[w].op = "databases") /\ CleanAt(w, job[w], wt, origin)
           /\ HasTurn(w) /\ job[w].pc = "body"
           /\ ~wt.landed /\ ~wt.ahead /\ wt.tree = origin[wt.base].tree /\ wt.tree.reg \in Regs /\ RegOK(wt.tree.reg)
           /\ Written(w) \in Regs /\ RegOK(Written(w))
           /\ job[w].op = "commit" => Written(w).there /\ Written(w).bundle = job[w].tag
           /\ job[w].op = "set" => Written(w).flag # job[w].seen.flag /\ Written(w).flag # wt.tree.reg.flag
           /\ job[w].op = "pin" => Written(w).bundle = job[w].tag /\ Written(w).flag = wt.tree.reg.flag
           /\ job[w].op \in {"hold", "pair"} => Written(w).held = job[w].tag /\ Written(w).flag = wt.tree.reg.flag
           /\ job[w].op = "remove" => ~Written(w).there
           /\ job[w].op = "flip" => Written(w) = PatchFields(wt.tree.reg) /\ Written(w).flag # wt.tree.reg.flag
           /\ job[w].op = "databases" => Written(w) = FillDatabases(wt.tree.reg) /\ Written(w).dbs
<1>0. HasTurn(w) /\ job[w].pc = "body" /\ job[w].op \in RunOps \cup {"databases"} /\ (TwoTurns(job[w].op) => job[w].seen.there)
  BY DEF WriteBody, Turn
<1>1. CleanAt(w, job[w], wt, origin) /\ wt \in Checkouts /\ job[w].seen \in Regs /\ Len(origin) \in Nat
  BY <1>0, TurnFacts DEF InTurn
<1>2. w \in {"run", "databases"} /\ (w = "databases" <=> job[w].op = "databases")
  BY <1>0 DEF IInv, AsksOwn, RunOps, Workers
<1>3. ~wt.landed /\ ~wt.ahead /\ wt.tree = origin[wt.base].tree /\ RegOK(wt.tree.reg) /\ wt.base \in 1..Len(origin)
      /\ SameBut(Tip.tree.reg, wt.tree.reg)
  BY <1>0, <1>1 DEF CleanAt, Tip
<1>4. wt.tree.reg \in Regs
  BY <1>1 DEF Checkouts, Trees, Regs
<1>5. ASSUME TwoTurns(job[w].op) PROVE job[w].seen.there /\ wt.tree.reg.flag = job[w].seen.flag
  <2>1. w = "run"
    BY <1>2, <1>5 DEF TwoTurns
  <2> QED
    BY <1>0, <1>3, <1>5, <2>1 DEF IInv, SeenStands, StandsAt, SameBut, Tip
<1>6. CASE job[w].op = "commit"
  <2>1. job[w].tag \in Tags
    BY <1>6 DEF IInv, AsksOwn, Tagged
  <2>2. Written(w) = Fresh(job[w].tag)
    BY <1>6 DEF Written
  <2> QED
    BY <1>0, <1>1, <1>2, <1>3, <1>4, <1>6, <2>1, <2>2, NoRegTyped DEF Fresh
<1>7. CASE job[w].op = "set"
  <2>1. Written(w) = [job[w].seen EXCEPT !.flag = ~@] /\ job[w].seen.there /\ wt.tree.reg.flag = job[w].seen.flag
    BY <1>5, <1>7 DEF Written, PatchFields, TwoTurns
  <2>2. Written(w) \in Regs /\ Written(w).there /\ Written(w).flag # job[w].seen.flag
    BY <1>1, <2>1 DEF Regs
  <2> QED
    BY <1>0, <1>1, <1>2, <1>3, <1>4, <1>7, <2>1, <2>2 DEF RegOK
<1>8. CASE job[w].op = "pin"
  <2>1. job[w].tag \in Tags
    BY <1>8 DEF IInv, AsksOwn, Tagged
  <2>2. Written(w) = [job[w].seen EXCEPT !.bundle = job[w].tag] /\ job[w].seen.there /\ wt.tree.reg.flag = job[w].seen.flag
    BY <1>5, <1>8 DEF Written, PatchBundle, TwoTurns
  <2>3. Written(w) \in Regs /\ Written(w).there /\ Written(w).flag = job[w].seen.flag /\ Written(w).bundle = job[w].tag
    BY <1>1, <2>1, <2>2 DEF Regs
  <2> QED
    BY <1>0, <1>1, <1>2, <1>3, <1>4, <1>8, <2>2, <2>3 DEF RegOK
<1>12. CASE job[w].op \in {"hold", "pair"}
  <2>1. job[w].tag \in Tags
    BY <1>12 DEF IInv, AsksOwn, Tagged
  <2>2. job[w].seen.there /\ wt.tree.reg.flag = job[w].seen.flag
    BY <1>5, <1>12 DEF TwoTurns
  <2>3. \/ Written(w) = [job[w].seen EXCEPT !.held = job[w].tag]
        \/ Written(w) = [[job[w].seen EXCEPT !.bundle = job[w].tag] EXCEPT !.held = job[w].tag]
    BY <1>12 DEF Written, PatchHeld, PatchBundle
  <2>4. Written(w) \in Regs /\ Written(w).there /\ Written(w).flag = job[w].seen.flag /\ Written(w).held = job[w].tag
    BY <1>1, <2>1, <2>2, <2>3 DEF Regs
  <2> QED
    BY <1>0, <1>1, <1>2, <1>3, <1>4, <1>12, <2>2, <2>4 DEF RegOK
<1>9. CASE job[w].op = "remove"
  <2>1. Written(w) = NoReg
    BY <1>9 DEF Written
  <2> QED
    BY <1>0, <1>1, <1>2, <1>3, <1>4, <1>9, <2>1, NoRegTyped DEF NoReg
<1>10. CASE job[w].op = "flip"
  <2>1. Written(w) = PatchFields(wt.tree.reg) /\ wt.tree.reg.there
    BY <1>10 DEF Written, OneTurn
  <2>2. Written(w) = [wt.tree.reg EXCEPT !.flag = ~@]
    BY <2>1 DEF PatchFields
  <2>3. Written(w) \in Regs /\ Written(w).there /\ Written(w).flag # wt.tree.reg.flag
    BY <1>4, <2>1, <2>2 DEF Regs
  <2> QED
    BY <1>0, <1>1, <1>2, <1>3, <1>4, <1>10, <2>1, <2>3 DEF RegOK
<1>11. CASE job[w].op = "databases"
  <2>1. Written(w) = FillDatabases(wt.tree.reg) /\ wt.tree.reg.there
    BY <1>11 DEF Written, OneTurn
  <2>2. Written(w) = [wt.tree.reg EXCEPT !.dbs = TRUE]
    BY <2>1 DEF FillDatabases
  <2>3. Written(w) \in Regs /\ Written(w).there /\ Written(w).dbs
    BY <1>4, <2>1, <2>2 DEF Regs
  <2> QED
    BY <1>0, <1>1, <1>2, <1>3, <1>4, <1>11, <2>1, <2>3 DEF RegOK
<1> QED
  BY <1>0, <1>6, <1>7, <1>8, <1>9, <1>10, <1>11, <1>12 DEF RunOps

LEMMA CommitNothingKeeps == ASSUME IInv, NEW w \in Workers, CommitNothing(w), Around PROVE IInv'
<1>0. /\ WriteBody(w) /\ (OneTurn(job[w].op) => wt.tree.reg.there) /\ Written(w) = wt.tree.reg /\ Settle(w, "ok", wt.base)
      /\ UNCHANGED <<origin, trunk, wt, standing, unitPin>>
  BY DEF CommitNothing, Around
<1>1. /\ HasTurn(w) /\ CleanAt(w, job[w], wt, origin) /\ wt.tree = origin[wt.base].tree /\ job[w].op # "flip"
      /\ job[w].op = "commit" => Written(w).there /\ Written(w).bundle = job[w].tag
      /\ job[w].op = "set" => Written(w).flag # job[w].seen.flag
      /\ job[w].op = "pin" => Written(w).bundle = job[w].tag
      /\ job[w].op \in {"hold", "pair"} => Written(w).held = job[w].tag
      /\ job[w].op = "remove" => ~Written(w).there
      /\ job[w].op = "databases" => Written(w).dbs
  BY <1>0, WrittenFacts
<1>2. wt \in Checkouts /\ wt.base <= Len(origin) /\ wt.base \in Nat /\ wt.base \in 1..Len(origin) /\ job[w].from <= wt.base
  BY <1>1, TurnFacts DEF CleanAt, Checkouts
<1>3. Holds(origin[wt.base].tree, job[w])
  BY <1>0, <1>1 DEF Holds
<1>4. HeldBy(job[w], origin, wt.base) /\ wt.base >= 1
  BY <1>2, <1>3 DEF HeldBy
<1>5. Grown
  BY <1>0 DEF Grown
<1> QED
  BY <1>0, <1>1, <1>2, <1>4, <1>5, SettleKeeps DEF Tip, Checkouts

LEMMA CommitInKeeps == ASSUME IInv, NEW w \in Workers, CommitIn(w), Around PROVE IInv'
<1>0. /\ WriteBody(w) /\ (OneTurn(job[w].op) => wt.tree.reg.there) /\ wt' = [wt EXCEPT !.tree.reg = Written(w), !.ahead = TRUE]
      /\ job' = [job EXCEPT ![w].pc = "push", ![w].seen = IF TwoTurns(job[w].op) THEN @ ELSE wt.tree.reg]
      /\ UNCHANGED <<origin, trunk, line, standing, unitPin>>
  BY DEF CommitIn, Around
<1>1. /\ w \in {"run", "databases"} /\ (w = "databases" <=> job[w].op = "databases") /\ CleanAt(w, job[w], wt, origin)
      /\ HasTurn(w) /\ job[w].pc = "body"
      /\ ~wt.landed /\ ~wt.ahead /\ wt.tree = origin[wt.base].tree /\ wt.tree.reg \in Regs /\ RegOK(wt.tree.reg)
      /\ Written(w) \in Regs /\ RegOK(Written(w))
      /\ job[w].op = "commit" => Written(w).there /\ Written(w).bundle = job[w].tag
      /\ job[w].op = "set" => Written(w).flag # job[w].seen.flag /\ Written(w).flag # wt.tree.reg.flag
      /\ job[w].op = "pin" => Written(w).bundle = job[w].tag /\ Written(w).flag = wt.tree.reg.flag
      /\ job[w].op \in {"hold", "pair"} => Written(w).held = job[w].tag /\ Written(w).flag = wt.tree.reg.flag
      /\ job[w].op = "remove" => ~Written(w).there
      /\ job[w].op = "flip" => Written(w) = PatchFields(wt.tree.reg) /\ Written(w).flag # wt.tree.reg.flag
      /\ job[w].op = "databases" => Written(w) = FillDatabases(wt.tree.reg) /\ Written(w).dbs
  BY <1>0, WrittenFacts
<1>t. /\ job \in [Workers -> Jobs] /\ job[w] \in Jobs /\ wt \in Checkouts /\ Len(origin) \in Nat /\ PromisedAt(w, job[w], wt, origin)
  BY <1>1, TurnFacts
<1> DEFINE j == [job[w] EXCEPT !.pc = "push", !.seen = IF TwoTurns(job[w].op) THEN @ ELSE wt.tree.reg]
<1>j. /\ j \in Jobs /\ j.pc = "push" /\ j.op = job[w].op /\ j.tag = job[w].tag /\ j.from = job[w].from
      /\ j.seen = (IF TwoTurns(job[w].op) THEN job[w].seen ELSE wt.tree.reg)
      /\ j.commit = job[w].commit /\ j.answer = job[w].answer
  BY <1>t, <1>1 DEF Jobs
<1>2. job' = [job EXCEPT ![w] = j] /\ Grown
  BY <1>0, <1>t DEF Grown
<1> HIDE DEF j
<1>3. /\ wt' \in Checkouts /\ wt'.tree = [wt.tree EXCEPT !.reg = Written(w)] /\ wt'.base = wt.base /\ wt'.ahead = TRUE
      /\ wt'.landed = wt.landed
  <2>1. wt' = [wt EXCEPT !.tree = [wt.tree EXCEPT !.reg = Written(w)], !.ahead = TRUE]
    BY <1>0
  <2>2. [wt.tree EXCEPT !.reg = Written(w)] \in Trees
    BY <1>t, <1>1 DEF Checkouts, Trees, Regs
  <2> QED
    BY <1>t, <2>1, <2>2 DEF Checkouts
<1>4. wt'.tree.reg = Written(w) /\ wt'.tree.pin = wt.tree.pin /\ wt'.tree.chart = wt.tree.chart
  BY <1>3, <1>t DEF Checkouts, Trees
<1>5. OwnPart(w, j.op, wt.tree, wt'.tree)
  <2>1. CASE w = "databases"
    <3>1. wt'.tree = [wt.tree EXCEPT !.reg.dbs = TRUE]
      BY <1>1, <1>3, <2>1 DEF FillDatabases
    <3> QED
      BY <2>1, <3>1 DEF OwnPart
  <2>2. CASE w = "run"
    BY <1>1, <1>4, <1>j, <2>2 DEF OwnPart
  <2> QED
    BY <1>1, <2>1, <2>2
<1>6. CleanAt(w, j, wt', origin')
  BY <1>0, <1>1, <1>3, <1>4, <1>5, <1>j DEF CleanAt
<1>7. Holds(wt'.tree, j)
  BY <1>1, <1>4, <1>j DEF Holds, TwoTurns
<1>8. PromisedAt(w, j, wt', origin')
  BY <1>0, <1>t, <1>1, <1>7, <1>j DEF PromisedAt
<1>9. StandsAt(j, origin')
  BY <1>j DEF StandsAt
<1>10. w # "run" /\ origin # <<>> => /\ origin' # <<>> /\ origin'[Len(origin')].tree.reg.there = Tip.tree.reg.there
                                     /\ origin'[Len(origin')].tree.reg.flag = Tip.tree.reg.flag
  BY <1>0 DEF Tip
<1> QED
  BY <1>0, <1>1, <1>2, <1>3, <1>6, <1>8, <1>9, <1>10, <1>j, TurnKeeps DEF Checkouts

\* The first of two turns ends with its worker at the end of the line, and nobody in a turn.
LEMMA ReadFirstKeeps == ASSUME IInv, NEW w \in Workers, ReadFirst(w), Around PROVE IInv'
<1>0. /\ HasTurn(w) /\ job[w].pc = "body" /\ TwoTurns(job[w].op) /\ UNCHANGED <<origin, trunk, wt, standing, unitPin>>
      /\ Throws(w) \/ /\ wt.tree.reg.there /\ job' = [job EXCEPT ![w].seen = wt.tree.reg, ![w].pc = "reset"]
                      /\ line' = Append(Tail(line), w)
  BY DEF ReadFirst, Turn, Around
<1>1. CASE Throws(w)
  BY <1>0, <1>1, ThrowsKeep
<1>2. ASSUME wt.tree.reg.there, job' = [job EXCEPT ![w].seen = wt.tree.reg, ![w].pc = "reset"], line' = Append(Tail(line), w)
      PROVE  IInv'
  <2>t. /\ Types /\ BranchOK /\ job \in [Workers -> Jobs] /\ job[w] \in Jobs /\ wt \in Checkouts /\ wt.base <= Len(origin)
        /\ Len(origin) \in Nat /\ PromisedAt(w, job[w], wt, origin) /\ CleanAt(w, job[w], wt, origin)
    BY <1>0, TurnFacts DEF InTurn
  <2>1. w = "run"
    BY <1>0 DEF IInv, AsksOwn, TwoTurns, Workers
  <2>2. wt.tree.reg \in Regs
    BY <2>t DEF Checkouts, Trees, Regs
  <2> DEFINE j == [job[w] EXCEPT !.seen = wt.tree.reg, !.pc = "reset"]
  <2>3. /\ j \in Jobs /\ j.pc = "reset" /\ j.op = job[w].op /\ j.tag = job[w].tag /\ j.from = job[w].from
        /\ j.seen = wt.tree.reg /\ j.commit = job[w].commit /\ j.answer = job[w].answer
    BY <2>t, <2>2 DEF Jobs
  <2>4. job'[w] = j /\ job' = [job EXCEPT ![w] = j] /\ \A v \in Workers : v # w => job'[v] = job[v]
    BY <1>2, <2>t
  <2> HIDE DEF j
  <2>5. job' \in [Workers -> Jobs]
    BY <2>t, <2>3, <2>4
  <2>6. \A v \in Workers : ~(InTurn(v)')
    BY <1>0, <2>3, <2>4, OnlyOneTurn DEF InTurn
  <2>7. /\ line \in Seq(Workers) /\ line # <<>> /\ line[1] = w /\ \A i, k \in 1..Len(line) : line[i] = line[k] => i = k
    BY <1>0, <2>t DEF IInv, Types, TurnsInLine, HasTurn
  <2> DEFINE t == Tail(line)
  <2>8. /\ t \in Seq(Workers) /\ \A i, k \in 1..Len(t) : t[i] = t[k] => i = k
        /\ \A i \in 1..Len(t) : t[i] # w /\ \E k \in 1..Len(line) : t[i] = line[k]
    BY <2>7, TailOfLine
  <2>9. line' = Append(t, w)
    BY <1>2
  <2> HIDE DEF t, IInv
  <2>10. /\ line' \in Seq(Workers) /\ \A i, k \in 1..Len(line') : line'[i] = line'[k] => i = k
         /\ \A i \in 1..Len(line') : line'[i] = w \/ \E k \in 1..Len(t) : line'[i] = t[k]
    BY <2>8, <2>9, AddedToLine
  <2>11. \A i \in 1..Len(line') : job'[line'[i]].pc = "reset" /\ job'[line'[i]].op # "none"
    <3> SUFFICES ASSUME NEW i \in 1..Len(line'), line'[i] # w PROVE job'[line'[i]].pc = "reset" /\ job'[line'[i]].op # "none"
      BY <1>0, <2>3, <2>4 DEF TwoTurns
    <3>1. PICK k \in 1..Len(line) : line'[i] = line[k]
      BY <2>8, <2>10
    <3>2. line[k] \in Workers /\ ~InTurn(line[k])
      BY <1>0, <2>7, <3>1, OnlyOneTurn
    <3>3. (job[line[k]].pc = "reset" \/ InTurn(line[k])) /\ job[line[k]].op # "none"
      BY DEF IInv, TurnsInLine
    <3> QED
      BY <2>4, <3>1, <3>2, <3>3
  <2>12. TurnsInLine'
    BY <2>6, <2>10, <2>11 DEF TurnsInLine
  <2>13. Types' /\ BranchOK'
    BY <1>0, <2>t, <2>5, <2>10 DEF Types, BranchOK
  <2>14. AsksOwn'
    <3>1. \A v \in Workers : job'[v].op = job[v].op /\ job'[v].tag = job[v].tag
      BY <2>3, <2>4
    <3> QED
      BY <3>1 DEF IInv, AsksOwn, Workers
  <2>15. SeenStands'
    <3>1. /\ ~wt.landed /\ ~wt.ahead /\ wt.base \in 1..Len(origin) /\ wt.tree = origin[wt.base].tree
          /\ SameBut(origin[Len(origin)].tree.reg, origin[wt.base].tree.reg)
      BY <1>0, <2>t DEF CleanAt
    <3>2. origin # <<>>
      BY <2>t, <3>1
    <3> QED
      BY <1>0, <1>2, <2>1, <2>3, <2>4, <3>1, <3>2 DEF SeenStands, StandsAt, SameBut
  <2>16. Promised'
    <3>1. PromisedAt(w, j, wt, origin)
      BY <1>0, <2>t, <2>3 DEF PromisedAt
    <3> QED
      BY <1>0, <2>4, <3>1 DEF IInv, Promised
  <2>17. Clean'
    BY <2>6 DEF Clean
  <2> QED
    BY <2>12, <2>13, <2>14, <2>15, <2>16, <2>17 DEF IInv
<1> QED
  BY <1>0, <1>1, <1>2

\* What the turn at its push, or after it, is about to publish.
LEMMA PushFacts ==
    ASSUME IInv, NEW w \in Workers, Turn(w, "push"), wt.base = Len(origin), wt.ahead, Pushed(w)
    PROVE  /\ Grown /\ origin # <<>> /\ origin' # <<>> /\ Len(origin') = Len(origin) + 1 /\ Len(origin) \in Nat
           /\ origin'[Len(origin')] = [tree |-> wt.tree, by |-> w, carried |-> CarriedBy(w)]
           /\ \A i \in 1..Len(origin) : origin'[i] = origin[i]
           /\ w # "reader" /\ ~wt.landed /\ OwnPart(w, job[w].op, Tip.tree, wt.tree)
           /\ w # "run" => /\ origin'[Len(origin')].tree.reg.there = Tip.tree.reg.there
                           /\ origin'[Len(origin')].tree.reg.flag = Tip.tree.reg.flag
           /\ w \in {"run", "databases"} => HeldBy(job[w], origin', Len(origin'))
<1>0. HasTurn(w) /\ job[w].pc = "push"
  BY DEF Turn
<1>1. /\ Types /\ BranchOK /\ job[w] \in Jobs /\ wt \in Checkouts /\ Len(origin) \in Nat /\ origin \in Seq(Commits)
      /\ job[w].from \in Nat /\ job[w].from <= Len(origin) /\ PromisedAt(w, job[w], wt, origin) /\ CleanAt(w, job[w], wt, origin)
  BY <1>0, TurnFacts DEF InTurn
<1>2. /\ wt.base \in 1..Len(origin) /\ w # "reader" /\ ~wt.landed /\ OwnPart(w, job[w].op, Tip.tree, wt.tree) /\ RegOK(wt.tree.reg)
      /\ origin # <<>>
  BY <1>0, <1>1 DEF CleanAt, Tip
<1> DEFINE x == [tree |-> wt.tree, by |-> w, carried |-> CarriedBy(w)]
<1>3. x \in Commits /\ x.tree = wt.tree
  <2>1. CarriedBy(w) \in Nat
    BY <1>1, <1>2, TipTyped DEF CarriedBy, Jobs
  <2> QED
    BY <1>1, <2>1 DEF Commits, Checkouts
<1>4. origin' = Append(origin, x)
  BY DEF Pushed, Commit
<1>h. HeldBy(job[w], origin, wt.base) \/ Holds(x.tree, job[w]) \/ w \notin {"run", "databases"}
  BY <1>0, <1>1, <1>3 DEF PromisedAt
<1> HIDE DEF x
<1>5. /\ Len(origin') = Len(origin) + 1 /\ origin'[Len(origin')] = x /\ origin' # <<>>
      /\ \A i \in 1..Len(origin) : origin'[i] = origin[i]
  BY <1>1, <1>3, <1>4, Appended
<1>6. Grown
  BY <1>2, <1>3, <1>4 DEF Grown
<1>7. ASSUME w # "run"
      PROVE  wt.tree.reg.there = Tip.tree.reg.there /\ wt.tree.reg.flag = Tip.tree.reg.flag
  <2>1. Tip.tree.reg \in Regs /\ Tip.tree \in Trees
    BY <1>1, <1>2, TipTyped
  <2>2. CASE w = "carry"
    BY <1>2, <2>2 DEF OwnPart
  <2>3. CASE w = "databases"
    <3>1. wt.tree = [Tip.tree EXCEPT !.reg.dbs = TRUE]
      BY <1>2, <2>3 DEF OwnPart
    <3>2. wt.tree.reg = [Tip.tree.reg EXCEPT !.dbs = TRUE]
      BY <2>1, <3>1 DEF Trees
    <3> QED
      BY <2>1, <3>2 DEF Regs
  <2> QED
    BY <1>2, <1>7, <2>2, <2>3 DEF Workers
<1>8. HeldBy(job[w], origin', Len(origin')) \/ w \notin {"run", "databases"}
  <2>1. CASE Holds(x.tree, job[w])
    <3>1. Len(origin') \in 1..Len(origin') /\ Len(origin') >= job[w].from
      BY <1>1, <1>5
    <3> QED
      BY <1>5, <2>1, <3>1 DEF HeldBy
  <2>2. CASE HeldBy(job[w], origin, wt.base)
    <3>1. Len(origin) <= Len(origin') /\ Len(origin') \in Nat
      BY <1>1, <1>5
    <3> QED
      BY <1>1, <1>5, <2>2, <3>1, HeldStays
  <2> QED
    BY <1>h, <2>1, <2>2
<1> QED
  BY <1>1, <1>2, <1>3, <1>5, <1>6, <1>7, <1>8 DEF x

LEMMA PushLandsKeeps == ASSUME IInv, NEW w \in Workers, PushLands(w), Around PROVE IInv'
<1>0. Turn(w, "push") /\ HasTurn(w) /\ job[w].pc = "push" /\ wt.base = Len(origin) /\ UNCHANGED <<trunk, standing, unitPin>>
  BY DEF PushLands, Turn, Around
<1>t. /\ wt \in Checkouts /\ Len(origin) \in Nat /\ PromisedAt(w, job[w], wt, origin) /\ CleanAt(w, job[w], wt, origin)
  BY <1>0, TurnFacts DEF InTurn
<1>1. CASE wt.ahead /\ Pushed(w) /\ Settle(w, "ok", Len(origin')) /\ wt' = [wt EXCEPT !.ahead = FALSE, !.base = Len(origin')]
  <2>1. /\ Grown /\ origin # <<>> /\ origin' # <<>> /\ Len(origin') = Len(origin) + 1
        /\ w # "run" => /\ origin'[Len(origin')].tree.reg.there = Tip.tree.reg.there
                        /\ origin'[Len(origin')].tree.reg.flag = Tip.tree.reg.flag
        /\ w \in {"run", "databases"} => HeldBy(job[w], origin', Len(origin'))
    BY <1>0, <1>1, PushFacts
  <2>2. Len(origin') \in Nat /\ Len(origin') >= 1
    BY <1>t, <2>1
  <2>3. wt' \in Checkouts /\ wt'.base <= Len(origin')
    <3> DEFINE n == Len(origin')
    <3>1. n \in Nat /\ wt' = [wt EXCEPT !.ahead = FALSE, !.base = n]
      BY <1>1, <2>2
    <3> HIDE DEF n
    <3>2. wt' \in Checkouts /\ wt'.base = n
      BY <1>t, <3>1 DEF Checkouts
    <3>3. wt'.base <= n
      BY <3>1, <3>2
    <3> QED
      BY <3>2, <3>3 DEF n
  <2> QED
    BY <1>0, <1>1, <2>1, <2>2, <2>3, SettleKeeps DEF Checkouts
<1>2. CASE ~wt.ahead /\ UNCHANGED <<origin, wt>> /\ Settle(w, "ok", wt.base)
  <2>1. wt.base \in Nat /\ wt.base \in 1..Len(origin) /\ wt.base >= 1 /\ ~wt.landed /\ wt.tree = origin[wt.base].tree
          /\ job[w].from <= wt.base
    BY <1>0, <1>2, <1>t DEF CleanAt
  <2>2. w \in {"run", "databases"} => HeldBy(job[w], origin, wt.base)
    BY <1>0, <1>t, <2>1 DEF PromisedAt, HeldBy
  <2>3. Grown /\ wt' \in Checkouts
    BY <1>2, <1>t DEF Grown
  <2> QED
    BY <1>0, <1>2, <1>t, <2>1, <2>2, <2>3, SettleKeeps DEF Tip, Checkouts
<1> QED
  BY <1>1, <1>2 DEF PushLands

LEMMA AnswerLostKeeps == ASSUME IInv, NEW w \in Workers, PushAnswerLost(w), Around PROVE IInv'
<1>0. /\ Turn(w, "push") /\ HasTurn(w) /\ job[w].pc = "push" /\ wt.ahead /\ wt.base = Len(origin) /\ Pushed(w)
      /\ wt' = [wt EXCEPT !.landed = TRUE] /\ UNCHANGED <<trunk, standing, unitPin>>
      /\ Throws(w) \/ (job[w].op # "carry" /\ job' = [job EXCEPT ![w].pc = "rebase"] /\ UNCHANGED line)
  BY DEF PushAnswerLost, MayRetry, Retries, Turn, Around
<1>t. /\ job \in [Workers -> Jobs] /\ job[w] \in Jobs /\ wt \in Checkouts /\ Len(origin) \in Nat
      /\ PromisedAt(w, job[w], wt, origin) /\ CleanAt(w, job[w], wt, origin) /\ Types /\ BranchOK
  BY <1>0, TurnFacts DEF InTurn
<1>1. /\ Grown /\ origin # <<>> /\ origin' # <<>> /\ Len(origin') = Len(origin) + 1
      /\ w # "reader"
      /\ w # "run" => /\ origin'[Len(origin')].tree.reg.there = Tip.tree.reg.there
                      /\ origin'[Len(origin')].tree.reg.flag = Tip.tree.reg.flag
      /\ w \in {"run", "databases"} => HeldBy(job[w], origin', Len(origin'))
  BY <1>0, PushFacts
<1>2. wt' \in Checkouts /\ wt'.tree = wt.tree /\ wt'.base = wt.base /\ wt'.ahead = wt.ahead /\ wt'.landed /\ wt.base \in Nat
  BY <1>0, <1>t DEF Checkouts
<1>3. CASE Throws(w)
  <2>1. Settle(w, "failed", 0) /\ 0 <= Len(origin') /\ wt'.base <= Len(origin') /\ "failed" \in {"none", "ok", "failed"} /\ 0 \in Nat
    BY <1>0, <1>1, <1>2, <1>3, <1>t DEF Throws
  <2> QED
    BY <1>0, <1>1, <1>2, <2>1, SettleKeeps DEF Checkouts
<1>4. CASE job[w].op # "carry" /\ job' = [job EXCEPT ![w].pc = "rebase"] /\ UNCHANGED line
  <2> DEFINE j == [job[w] EXCEPT !.pc = "rebase"]
  <2>1. /\ j \in Jobs /\ j.pc = "rebase" /\ j.op = job[w].op /\ j.tag = job[w].tag /\ j.from = job[w].from
        /\ j.seen = job[w].seen /\ j.commit = job[w].commit /\ j.answer = job[w].answer
    BY <1>t DEF Jobs
  <2>2. job' = [job EXCEPT ![w] = j]
    BY <1>4
  <2> HIDE DEF j
  <2>3. PromisedAt(w, job[w], wt, origin')
    BY <1>0, <1>t, <1>1, <1>2, PromiseGrows
  <2>4. \A n : HeldBy(job[w], origin', n) => HeldBy(j, origin', n)
    BY <2>1 DEF HeldBy, Holds
  <2>5. Holds(wt.tree, job[w]) => Holds(wt'.tree, j)
    BY <1>2, <2>1 DEF Holds
  <2>6. PromisedAt(w, j, wt', origin')
    BY <1>0, <1>1, <1>2, <2>1, <2>3, <2>4, <2>5 DEF PromisedAt
  <2>7. CleanAt(w, j, wt', origin')
    <3>1. wt.base \in 1..Len(origin) /\ job[w].from <= wt.base /\ RegOK(wt.tree.reg)
      BY <1>t DEF CleanAt
    <3>2. wt'.base \in 1..Len(origin')
      BY <1>t, <1>1, <1>2, <3>1
    <3> QED
      BY <1>1, <1>2, <1>4, <2>1, <3>1, <3>2 DEF CleanAt
  <2>8. StandsAt(j, origin')
    BY <2>1 DEF StandsAt
  <2> QED
    BY <1>0, <1>1, <1>2, <1>4, <2>1, <2>2, <2>6, <2>7, <2>8, TurnKeeps DEF Checkouts
<1> QED
  BY <1>0, <1>3, <1>4

LEMMA RejectedKeeps == ASSUME IInv, NEW w \in Workers, PushRejected(w) \/ PushFails(w), Around PROVE IInv'
<1>0. /\ HasTurn(w) /\ job[w].pc = "push" /\ UNCHANGED <<origin, trunk, wt, standing, unitPin>>
      /\ Throws(w) \/ (job[w].op # "carry" /\ job' = [job EXCEPT ![w].pc = "rebase"] /\ UNCHANGED line)
  BY DEF PushRejected, PushFails, MayRetry, Retries, Turn, Around
<1>t. /\ job \in [Workers -> Jobs] /\ job[w] \in Jobs /\ wt \in Checkouts
      /\ PromisedAt(w, job[w], wt, origin) /\ CleanAt(w, job[w], wt, origin)
  BY <1>0, TurnFacts DEF InTurn
<1>1. CASE Throws(w)
  BY <1>0, <1>1, ThrowsKeep
<1>2. CASE job[w].op # "carry" /\ job' = [job EXCEPT ![w].pc = "rebase"] /\ UNCHANGED line
  <2> DEFINE j == [job[w] EXCEPT !.pc = "rebase"]
  <2>1. /\ j \in Jobs /\ j.pc = "rebase" /\ j.op = job[w].op /\ j.tag = job[w].tag /\ j.from = job[w].from
        /\ j.seen = job[w].seen /\ j.commit = job[w].commit /\ j.answer = job[w].answer
    BY <1>t DEF Jobs
  <2>2. job' = [job EXCEPT ![w] = j] /\ Grown
    BY <1>0, <1>2 DEF Grown
  <2> HIDE DEF j
  <2>3. \A n : HeldBy(job[w], origin, n) => HeldBy(j, origin, n)
    BY <2>1 DEF HeldBy, Holds
  <2>4. Holds(wt.tree, job[w]) => Holds(wt.tree, j)
    BY <2>1 DEF Holds
  <2>5. ~wt.landed /\ w # "reader"
    BY <1>0, <1>t DEF CleanAt
  <2>6. PromisedAt(w, j, wt', origin')
    BY <1>0, <1>t, <2>1, <2>3, <2>4, <2>5 DEF PromisedAt
  <2>7. CleanAt(w, j, wt', origin')
    BY <1>0, <1>t, <1>2, <2>1, <2>5 DEF CleanAt
  <2>8. StandsAt(j, origin')
    BY <2>1 DEF StandsAt
  <2>9. w # "run" /\ origin # <<>> => /\ origin' # <<>> /\ origin'[Len(origin')].tree.reg.there = Tip.tree.reg.there
                                      /\ origin'[Len(origin')].tree.reg.flag = Tip.tree.reg.flag
    BY <1>0 DEF Tip
  <2>10. wt' \in Checkouts
    BY <1>0, <1>t
  <2> QED
    BY <1>0, <1>2, <2>1, <2>2, <2>6, <2>7, <2>8, <2>9, <2>10, TurnKeeps DEF Checkouts
<1> QED
  BY <1>0, <1>1, <1>2

LEMMA FaultsKeep == ASSUME IInv, NEW w \in Workers, RebaseFails(w), Around PROVE IInv'
<1>1. HasTurn(w) /\ Throws(w) /\ UNCHANGED <<origin, trunk, wt, standing, unitPin>>
  BY DEF RebaseFails, Turn, Around
<1> QED
  BY <1>1, ThrowsKeep

LEMMA RebaseKeeps == ASSUME IInv, NEW w \in Workers, Rebase(w), Around PROVE IInv'
<1>0. /\ HasTurn(w) /\ job[w].pc = "rebase" /\ UNCHANGED <<origin, trunk, standing, unitPin>>
  BY DEF Rebase, Turn, Around
<1>t. /\ job \in [Workers -> Jobs] /\ job[w] \in Jobs /\ wt \in Checkouts /\ Len(origin) \in Nat /\ Types /\ BranchOK
      /\ PromisedAt(w, job[w], wt, origin) /\ CleanAt(w, job[w], wt, origin) /\ job[w].tries \in Nat /\ origin \in Seq(Commits)
  BY <1>0, TurnFacts DEF InTurn
<1>c. /\ wt.base \in 1..Len(origin) /\ job[w].from <= wt.base /\ RegOK(wt.tree.reg) /\ job[w].op # "carry" /\ w # "reader"
  BY <1>0, <1>t DEF CleanAt
<1>o. origin # <<>>
  BY <1>t, <1>c
<1>p. Tip.tree \in Trees /\ Tip.tree.reg \in Regs /\ RegOK(Tip.tree.reg) /\ Len(origin) \in 1..Len(origin)
  BY <1>t, <1>o, TipTyped
<1>b. origin[wt.base].tree \in Trees /\ RegOK(Base) /\ Base \in Regs
  <2>1. origin[wt.base] \in Commits
    BY <1>t, <1>c
  <2>2. origin[wt.base].tree \in Trees
    BY <2>1 DEF Commits
  <2>3. Base \in Regs
    BY <2>2 DEF Base, Trees, Regs
  <2> QED
    BY <1>t, <1>c, <2>2, <2>3 DEF BranchOK, Base
<1> DEFINE m == job[w].tries + 1
           j == [job[w] EXCEPT !.pc = "push", !.tries = m]
<1>m. m \in Nat
  BY <1>t
<1>k. job' = [job EXCEPT ![w].pc = "push", ![w].tries = @ + 1] => job' = [job EXCEPT ![w] = j]
  OBVIOUS
<1> HIDE DEF m
<1>j. /\ j \in Jobs /\ j.pc = "push" /\ j.op = job[w].op /\ j.tag = job[w].tag /\ j.from = job[w].from
      /\ j.seen = job[w].seen /\ j.commit = job[w].commit /\ j.answer = job[w].answer
  BY <1>t, <1>m DEF Jobs
<1>h. /\ \A n : HeldBy(job[w], origin, n) => HeldBy(j, origin, n)
      /\ \A tree : Holds(tree, job[w]) => Holds(tree, j)
  BY <1>j DEF HeldBy, Holds
<1> HIDE DEF j
<1>s. StandsAt(j, origin')
  BY <1>j DEF StandsAt
<1>g. Grown
  BY <1>0 DEF Grown
<1>9. w # "run" /\ origin # <<>> => /\ origin' # <<>> /\ origin'[Len(origin')].tree.reg.there = Tip.tree.reg.there
                                    /\ origin'[Len(origin')].tree.reg.flag = Tip.tree.reg.flag
  BY <1>0 DEF Tip
<1>1. CASE /\ wt.landed /\ Checkout(Tip.tree, Len(origin))
           /\ job' = [job EXCEPT ![w].pc = "push", ![w].tries = @ + 1] /\ UNCHANGED line
  <2>1. /\ wt' \in Checkouts /\ wt'.tree = Tip.tree /\ wt'.base = Len(origin) /\ ~wt'.ahead /\ ~wt'.landed
    BY <1>1, <1>p, <1>t DEF Checkout, Checkouts
  <2>2. CleanAt(w, j, wt', origin')
    <3>1. j.from <= Len(origin)
      BY <1>t, <1>j DEF PromisedAt
    <3> QED
      BY <1>0, <1>c, <1>p, <1>j, <2>1, <3>1 DEF CleanAt, SameBut, Tip
  <2>3. PromisedAt(w, j, wt', origin')
    BY <1>0, <1>1, <1>t, <1>j, <1>h, <2>1 DEF PromisedAt
  <2> QED
    BY <1>0, <1>1, <1>j, <1>k, <1>s, <1>g, <1>9, <2>1, <2>2, <2>3, TurnKeeps DEF Checkouts
<1>2. CASE /\ ~wt.landed /\ ~Clashes(Base, wt.tree.reg, Tip.tree.reg)
           /\ LET reg == Replayed(Base, wt.tree.reg, Tip.tree.reg)
              IN wt' = [tree |-> [Tip.tree EXCEPT !.reg = reg], base |-> Len(origin), ahead |-> reg # Tip.tree.reg, landed |-> FALSE]
           /\ job' = [job EXCEPT ![w].pc = "push", ![w].tries = @ + 1] /\ UNCHANGED line
  <2> DEFINE b == origin[wt.base].tree
             o == wt.tree
             t == Tip.tree
             r == Replayed(b.reg, o.reg, t.reg)
             n == [t EXCEPT !.reg = r]
  <2>1. /\ b \in Trees /\ o \in Trees /\ t \in Trees /\ b.reg \in Regs /\ o.reg \in Regs /\ t.reg \in Regs
        /\ RegOK(b.reg) /\ RegOK(o.reg) /\ RegOK(t.reg) /\ ~Clashes(b.reg, o.reg, t.reg)
    BY <1>2, <1>t, <1>c, <1>b, <1>p DEF Base, Checkouts, Trees, Regs
  <2>2. SameBut(t.reg, b.reg) /\ (~wt.ahead => o = b) /\ (wt.ahead => OwnPart(w, job[w].op, b, o))
    BY <1>2, <1>t DEF CleanAt, Tip
  <2>3. wt' = [tree |-> n, base |-> Len(origin), ahead |-> r # t.reg, landed |-> FALSE]
    BY <1>2 DEF Base
  <2>4. w \in {"run", "databases"}
    <3>1. line[1] = w /\ 1 \in 1..Len(line)
      BY <1>0, <1>t DEF HasTurn, Types
    <3>2. job[w].op # "none"
      BY <3>1 DEF IInv, TurnsInLine
    <3> QED
      BY <1>0, <1>c, <3>2 DEF IInv, AsksOwn, Workers
  <2>5. Holds(o, job[w]) \/ HeldBy(job[w], origin, wt.base)
    BY <1>0, <1>t, <2>4 DEF PromisedAt
  <2>6. origin[wt.base].tree = b
    OBVIOUS
  <2>7. origin[Len(origin)].tree = t
    BY DEF Tip
  <2> HIDE DEF b, o, t
  <2>8. /\ r \in Regs /\ RegOK(r)
        /\ r.flag = (IF o.reg.flag # b.reg.flag THEN o.reg.flag ELSE t.reg.flag)
        /\ r.bundle = (IF o.reg.bundle # b.reg.bundle THEN o.reg.bundle ELSE t.reg.bundle)
        /\ r.held = (IF o.reg.held # b.reg.held THEN o.reg.held ELSE t.reg.held)
        /\ r.dbs = (IF o.reg.dbs # b.reg.dbs THEN o.reg.dbs ELSE t.reg.dbs)
        /\ r.there = (IF o.reg.there # b.reg.there THEN o.reg.there ELSE t.reg.there)
    BY <2>1, <2>2, Replay
  <2>9. wt.ahead => OwnPart(w, job[w].op, t, n)
    BY <2>1, <2>2, <2>4, ReplayOwn
  <2>10. Holds(o, job[w]) => Holds(n, job[w]) \/ Holds(b, job[w])
    <3>1. job[w].op \in Tagged => job[w].tag \in Tags
      BY DEF IInv, AsksOwn
    <3> QED
      BY <1>t, <2>1, <2>2, <3>1, ReplayHolds
  <2> HIDE DEF r
  <2>11. n \in Trees /\ n.reg = r
    BY <2>1, <2>8 DEF Trees, Regs
  <2>12. ~wt.ahead => r = t.reg
    BY <2>1, <2>2, <2>8 DEF Regs
  <2>13. r = t.reg => n = t
    BY <2>1 DEF Trees
  <2> HIDE DEF n
  <2>14. wt' \in Checkouts /\ wt'.tree = n /\ wt'.base = Len(origin) /\ ~wt'.landed /\ (wt'.ahead <=> r # t.reg)
    BY <1>t, <2>3, <2>11 DEF Checkouts
  <2>15. CleanAt(w, j, wt', origin')
    <3>1. j.from <= Len(origin)
      BY <1>t, <1>j DEF PromisedAt
    <3>2. ~wt'.ahead => wt'.tree = t
      BY <2>13, <2>14
    <3>3. wt'.ahead => OwnPart(w, j.op, t, wt'.tree)
      BY <1>j, <2>9, <2>12, <2>14
    <3>4. RegOK(wt'.tree.reg)
      BY <2>8, <2>11, <2>14
    <3> QED
      BY <1>0, <1>c, <1>p, <1>j, <2>7, <2>14, <3>1, <3>2, <3>3, <3>4 DEF CleanAt, SameBut
  <2>16. Holds(wt'.tree, j) \/ HeldBy(j, origin, Len(origin))
    <3>1. CASE Holds(n, job[w])
      BY <1>h, <2>14, <3>1
    <3>2. CASE Holds(b, job[w])
      <4>1. wt.base \in 1..Len(origin) /\ wt.base >= job[w].from
        BY <1>c, <1>t DEF Jobs
      <4>2. HeldBy(job[w], origin, Len(origin))
        BY <2>6, <3>2, <4>1 DEF HeldBy
      <4> QED
        BY <1>h, <4>2
    <3>3. CASE HeldBy(job[w], origin, wt.base)
      <4>1. wt.base \in Nat /\ wt.base <= Len(origin)
        BY <1>c, <1>t
      <4>2. HeldBy(job[w], origin, Len(origin))
        BY <1>t, <3>3, <4>1, HeldStays
      <4> QED
        BY <1>h, <4>2
    <3> QED
      BY <2>5, <2>10, <3>1, <3>2, <3>3
  <2>17. PromisedAt(w, j, wt', origin')
    BY <1>0, <1>t, <1>j, <2>14, <2>16 DEF PromisedAt
  <2> QED
    BY <1>0, <1>2, <1>j, <1>k, <1>s, <1>g, <1>9, <2>14, <2>15, <2>17, TurnKeeps DEF Checkouts
<1>3. CASE Throws(w) /\ UNCHANGED wt
  BY <1>0, <1>3, ThrowsKeep
<1> QED
  BY <1>1, <1>2, <1>3 DEF Rebase

LEMMA CarryKeeps == ASSUME IInv, NEW w \in Workers, CarryTrunk(w), Around PROVE IInv'
<1>0. /\ HasTurn(w) /\ job[w].pc = "body" /\ job[w].op = "carry" /\ UNCHANGED <<origin, trunk, standing, unitPin>>
      /\ \/ Throws(w) /\ UNCHANGED wt
         \/ /\ wt' = [wt EXCEPT !.tree = Merged, !.ahead = trunk # origin[wt.base].carried]
            /\ job' = [job EXCEPT ![w].pc = "push", ![w].tag = trunk] /\ UNCHANGED line
  BY DEF CarryTrunk, Turn, Around
<1>t. /\ job \in [Workers -> Jobs] /\ job[w] \in Jobs /\ wt \in Checkouts /\ trunk \in 0..MaxTrunk /\ MaxTrunk \in Nat
      /\ PromisedAt(w, job[w], wt, origin) /\ CleanAt(w, job[w], wt, origin)
  BY <1>0, TurnFacts, BooksAssumption DEF InTurn
<1>1. w = "carry"
  BY <1>0 DEF IInv, AsksOwn, RunOps, Workers
<1>2. CASE Throws(w) /\ UNCHANGED wt
  BY <1>0, <1>2, ThrowsKeep
<1>3. CASE /\ wt' = [wt EXCEPT !.tree = Merged, !.ahead = trunk # origin[wt.base].carried]
           /\ job' = [job EXCEPT ![w].pc = "push", ![w].tag = trunk] /\ UNCHANGED line
  <2> DEFINE j == [job[w] EXCEPT !.pc = "push", !.tag = trunk]
  <2>0. trunk \in Nat
    BY <1>t
  <2>1. /\ j \in Jobs /\ j.pc = "push" /\ j.op = job[w].op /\ j.from = job[w].from
        /\ j.seen = job[w].seen /\ j.commit = job[w].commit /\ j.answer = job[w].answer
    <3>1. job[w] \in Jobs
      BY <1>t
    <3> QED
      BY <2>0, <3>1 DEF Jobs
  <2>2. job' = [job EXCEPT ![w] = j] /\ Grown
    BY <1>0, <1>3 DEF Grown
  <2> HIDE DEF j
  <2>3. /\ Merged \in Trees /\ Merged.reg = wt.tree.reg /\ Merged.pin = wt.tree.pin
        /\ trunk = origin[wt.base].carried => Merged = wt.tree
    BY <1>t DEF Merged, Trees, Checkouts
  <2>4. /\ wt' \in Checkouts /\ wt'.tree = Merged /\ wt'.base = wt.base /\ wt'.landed = wt.landed
        /\ wt'.ahead <=> trunk # origin[wt.base].carried
    BY <1>3, <1>t, <2>3 DEF Checkouts
  <2>5. /\ wt.base \in 1..Len(origin) /\ job[w].from <= wt.base /\ RegOK(wt.tree.reg) /\ ~wt.landed /\ ~wt.ahead
        /\ wt.tree = origin[wt.base].tree /\ SameBut(origin[Len(origin)].tree.reg, origin[wt.base].tree.reg)
    BY <1>0, <1>t DEF CleanAt
  <2>6. OwnPart(w, j.op, origin[wt.base].tree, wt'.tree)
    BY <1>1, <2>3, <2>4, <2>5 DEF OwnPart
  <2>7. CleanAt(w, j, wt', origin')
    BY <1>0, <1>1, <2>1, <2>3, <2>4, <2>5, <2>6 DEF CleanAt
  <2>8. PromisedAt(w, j, wt', origin')
    BY <1>0, <1>1, <1>t, <2>1 DEF PromisedAt
  <2>9. w # "run" /\ origin # <<>> => /\ origin' # <<>> /\ origin'[Len(origin')].tree.reg.there = Tip.tree.reg.there
                                      /\ origin'[Len(origin')].tree.reg.flag = Tip.tree.reg.flag
    BY <1>0 DEF Tip
  <2>10. j.op \notin Tagged /\ j.pc \in {"body", "push", "rebase"} /\ w # "run"
    BY <1>0, <1>1, <2>1 DEF Tagged
  <2> QED
    BY <1>0, <1>3, <2>1, <2>2, <2>4, <2>7, <2>8, <2>9, <2>10, TurnKeeps DEF Checkouts
<1> QED
  BY <1>0, <1>2, <1>3

-----------------------------------------------------------------------------
\* All steps.

LEMMA BooksStepKeeps == ASSUME IInv, BooksStep, Around PROVE IInv'
<1>1. CASE \E w \in Workers : Forget(w) \/ TurnStep(w) \/ TurnFault(w)
  <2>1. PICK w \in Workers : Forget(w) \/ TurnStep(w) \/ TurnFault(w)
    BY <1>1
  <2>2. CASE Forget(w)
    BY <2>2, ForgetKeeps
  <2>3. CASE TurnStep(w)
    BY <2>3, ResetKeeps, ReadKeeps, ReadFirstKeeps, NothingKeeps, CommitNothingKeeps, CommitInKeeps, PushLandsKeeps,
       RejectedKeeps, RebaseKeeps, CarryKeeps DEF TurnStep
  <2>4. CASE TurnFault(w)
    BY <2>4, ResetKeeps, AnswerLostKeeps, RejectedKeeps, FaultsKeep DEF TurnFault
  <2> QED
    BY <2>1, <2>2, <2>3, <2>4
<1>2. CASE AskRun(standing) \/ AskDatabases \/ AskCarry \/ AskRead
  BY <1>2, AsksKeep
<1>3. CASE Hand \/ \E t \in standing : BumpPin(t) \/ BumpBundle(t)
  BY <1>3, OthersWrite
<1>4. CASE TrunkMoves \/ Crash
  BY <1>4, TrunkKeeps, CrashKeeps
<1> QED
  BY <1>1, <1>2, <1>3, <1>4 DEF BooksStep

LEMMA BooksStand ==
    ASSUME IInv, UNCHANGED <<origin, trunk, line, job, wt>>, standing' \subseteq Tags, unitPin' \in Tags
    PROVE  IInv'
<1>1. Types'
  BY DEF IInv, Types
<1>2. AsksOwn' /\ BranchOK' /\ SeenStands' /\ Promised'
  BY DEF IInv, AsksOwn, BranchOK, SeenStands, Promised
<1>3. TurnsInLine' /\ Clean'
  BY DEF IInv, TurnsInLine, Clean, InTurn
<1> QED
  BY <1>1, <1>2, <1>3 DEF IInv

\* What a step that is none of the books' leaves of them.
LEMMA ReapBooks ==
    ASSUME IInv, ReapStep \/ \E t \in Tags : PushImage(t) \/ BumpUnit(t)
    PROVE  UNCHANGED <<origin, trunk, line, job, wt>> /\ standing' \subseteq Tags /\ unitPin' \in Tags
<1>t. standing \subseteq Tags /\ unitPin \in Tags
  BY DEF IInv, Types
<1>1. CASE StartReap \/ searchUnitCharts \/ listBranches \/ (\E branch \in {"trunk", "books"} : searchDeploy(branch))
             \/ searchPlatformApps \/ listTenantPointers \/ tenantHeldPins \/ checkFloor \/ listTags \/ resolveDigests \/ EndReap \/ ReapStops
  BY <1>1, <1>t DEF StartReap, searchUnitCharts, listBranches, searchDeploy, searchPlatformApps, listTenantPointers, tenantHeldPins, checkFloor, listTags, resolveDigests,
                    EndReap, ReapStops, Reading, booksVars
<1>2. ASSUME NEW d, deleteManifest(d) PROVE UNCHANGED <<origin, trunk, line, job, wt>> /\ standing' \subseteq Tags /\ unitPin' \in Tags
  BY <1>2, <1>t DEF deleteManifest, manifestDelete, booksVars
<1>3. ASSUME NEW t \in Tags, PushImage(t) \/ BumpUnit(t)
      PROVE  UNCHANGED <<origin, trunk, line, job, wt>> /\ standing' \subseteq Tags /\ unitPin' \in Tags
  BY <1>3, <1>t DEF PushImage, BumpUnit
<1> QED
  BY <1>1, <1>2, <1>3 DEF ReapStep

LEMMA INext == IInv /\ [Next]_vars => IInv'
<1> SUFFICES ASSUME IInv, [Next]_vars PROVE IInv'
  OBVIOUS
<1>1. CASE BooksStep /\ Around
  BY <1>1, BooksStepKeeps
<1>2. CASE ReapStep \/ \E t \in Tags : PushImage(t) \/ BumpUnit(t)
  BY <1>2, ReapBooks, BooksStand
<1>3. CASE UNCHANGED vars
  <2>1. UNCHANGED <<origin, trunk, line, job, wt, standing, unitPin>>
    BY <1>3 DEF vars, booksVars, cleanupVars
  <2>2. standing \subseteq Tags /\ unitPin \in Tags
    BY DEF IInv, Types
  <2> QED
    BY <2>1, <2>2, BooksStand
<1> QED
  BY <1>1, <1>2, <1>3 DEF Next

LEMMA IInvImplies == IInv => BooksInv
<1> SUFFICES ASSUME IInv PROVE BooksInv
  OBVIOUS
<1>t. Types /\ Len(origin) \in Nat /\ origin \in Seq(Commits) /\ \A w \in Workers : job[w] \in Jobs /\ PromisedAt(w, job[w], wt, origin)
  BY DEF IInv, Types, Promised
<1>n. \A w \in Workers : job[w].commit \in Nat /\ job[w].commit <= Len(origin)
  BY <1>t DEF Jobs, PromisedAt
<1>1. TypeOK
  <2>1. \A i \in 1..Len(origin) : origin[i].tree \in Trees
    <3>1. \A i \in 1..Len(origin) : origin[i] \in Commits
      BY <1>t
    <3> QED
      BY <3>1 DEF Commits
  <2>2. wt.tree \in Trees /\ wt.base \in 0..Len(origin)
    <3>1. wt.tree \in Trees /\ wt.base \in Nat /\ wt.base <= Len(origin)
      BY <1>t DEF Types
    <3> QED
      BY <1>t, <3>1
  <2>3. \A w \in Workers : job[w].commit \in 0..Len(origin)
    BY <1>t, <1>n
  <2> QED
    BY <1>t, <2>1, <2>2, <2>3 DEF TypeOK, Types
<1>2. AnsweredIsPublished
  <2> SUFFICES ASSUME NEW w \in {"run", "databases"}, job[w].answer = "ok"
               PROVE  /\ job[w].commit \in 1..Len(origin)
                      /\ \E i \in 1..job[w].commit : i >= job[w].from /\ Holds(origin[i].tree, job[w])
    BY DEF AnsweredIsPublished
  <2>1. w \in Workers
    BY DEF Workers
  <2>2. job[w].commit >= 1 /\ HeldBy(job[w], origin, job[w].commit)
    BY <1>t, <2>1 DEF PromisedAt
  <2> QED
    BY <1>n, <1>t, <2>1, <2>2 DEF HeldBy
<1> QED
  BY <1>1, <1>2 DEF BooksInv

-----------------------------------------------------------------------------
\* The theorems on the turns.

\* Whatever fails, dies, lands unanswered or is written from outside between two turns: a writer that
\* answers its run has its change on origin, between the moment it asked and the commit it names
\* (commitPushIn, its empty-diff answer, its rebases).
THEOREM AnswersArePublished == Spec => []BooksInv
<1>1. Spec => []IInv
  BY IInit, INext, PTL DEF Spec
<1> QED
  BY <1>1, IInvImplies, PTL

OwnPublished ==
    \A w \in Workers \ {"reader"} :
        Len(origin') > Len(origin) /\ origin # <<>> /\ origin'[Len(origin')].by = w
            => OwnPart(w, job[w].op, Tip.tree, Tip.tree')

LEMMA PublishStep == IInv /\ [Next]_vars => OwnPublished
<1> SUFFICES ASSUME IInv, [Next]_vars, NEW w \in Workers \ {"reader"}, Len(origin') > Len(origin), origin # <<>>,
                    origin'[Len(origin')].by = w
             PROVE  OwnPart(w, job[w].op, Tip.tree, Tip.tree')
  BY DEF OwnPublished
<1>0. Len(origin) \in Nat /\ origin' # origin /\ origin \in Seq(Commits)
  BY DEF IInv, Types
<1>1. BooksStep
  <2>1. ~UNCHANGED vars
    BY <1>0 DEF vars, booksVars
  <2> QED
    BY <1>0, <2>1, ReapBooks DEF Next
<1>2. ~(AskRun(standing) \/ AskDatabases \/ AskCarry \/ AskRead \/ TrunkMoves \/ Crash)
  BY <1>0 DEF AskRun, AskDatabases, AskCarry, AskRead, Ask, TrunkMoves, Crash
<1>3. ASSUME NEW tree, Outside(tree) PROVE FALSE
  <2> DEFINE x == [tree |-> tree, by |-> "outside", carried |-> Tip.carried]
  <2>1. origin' = Append(origin, x) /\ x.by = "outside"
    BY <1>3 DEF Outside, Commit
  <2> HIDE DEF x
  <2>2. origin'[Len(origin')] = x
    BY <1>0, <2>1
  <2> QED
    BY <2>1, <2>2 DEF Workers
<1>4. ~Hand /\ \A t \in standing : ~BumpPin(t) /\ ~BumpBundle(t)
  BY <1>3 DEF Hand, BumpPin, BumpBundle
<1>5. PICK v \in Workers : Forget(v) \/ TurnStep(v) \/ TurnFault(v)
  BY <1>1, <1>2, <1>4 DEF BooksStep
<1>6. Turn(v, "push") /\ wt.base = Len(origin) /\ wt.ahead /\ Pushed(v)
  <2>1. ~Forget(v) /\ ~ReadTurn(v) /\ ~ReadFirst(v) /\ ~NothingStands(v) /\ ~CommitNothing(v) /\ ~CommitIn(v)
    BY <1>0 DEF Forget, ReadTurn, ReadFirst, NothingStands, CommitNothing, CommitIn
  <2>2. ~PushRejected(v) /\ ~Rebase(v) /\ ~CarryTrunk(v) /\ ~ResetFails(v) /\ ~PushFails(v) /\ ~RebaseFails(v)
    BY <1>0 DEF PushRejected, Rebase, CarryTrunk, ResetFails, PushFails, RebaseFails
  <2>3. ~ResetToOrigin(v)
    BY <1>0 DEF ResetToOrigin
  <2>4. PushLands(v) \/ PushAnswerLost(v)
    BY <1>5, <2>1, <2>2, <2>3 DEF TurnStep, TurnFault
  <2> QED
    BY <1>0, <2>4 DEF PushLands, PushAnswerLost
<1>7. /\ origin'[Len(origin')] = [tree |-> wt.tree, by |-> v, carried |-> CarriedBy(v)]
      /\ OwnPart(v, job[v].op, Tip.tree, wt.tree)
  BY <1>6, PushFacts
<1>8. v = w /\ Tip.tree' = wt.tree
  BY <1>7 DEF Tip
<1> QED
  BY <1>7, <1>8

\* A push publishes its turn's own part of the tree and nothing else: no leavings of a turn that
\* failed or died, no older state of somebody's file (syncWorktree, the rebase, the merge of the trunk).
THEOREM PushesOwnPart == Spec => PublishesItsOwn
<1>1. Spec => []IInv
  BY IInit, INext, PTL DEF Spec
<1>2. IInv /\ [Next]_vars => [OwnPublished]_vars
  BY PublishStep
<1> QED
  BY <1>1, <1>2, PTL DEF Spec, PublishesItsOwn, OwnPublished

-----------------------------------------------------------------------------
\* The reaper.

\* No build pushes a tag some carrier pins already: a pin is written once its image stands.
NewImages == \A t \in Tags : PushImage(t) => \A c \in CarrierPins : c[2] # t

LEMMA PinFacts ==
    \A c \in CarrierPins :
        /\ c[2] # 0
        /\ \/ c[1] = "unit" /\ c[2] = unitPin
           \/ c[1] = "platform" /\ c[2] = PlatformTag
           \/ c[1] = "pins" /\ origin # <<>> /\ c[2] = Tip.tree.pin
           \/ c[1] = "trunk" /\ c[2] = ChartTag[trunk]
           \/ c[1] = "bundle" /\ origin # <<>> /\ c[2] = Tip.tree.reg.bundle
           \/ c[1] = "default" /\ origin # <<>> /\ c[2] = ChartTag[Tip.tree.chart]
           \/ c[1] = "held" /\ origin # <<>> /\ c[2] = Approved(Tip.tree)
BY DEF CarrierPins, Pinned, OnBooks

\* What was pinned when the reap began and is no more is given up.
LEMMA SteadyShrinks ==
    ASSUME Next, ~StartReap
    PROVE  steady' \subseteq CarrierPins' /\ steady' \subseteq steady
BY DEF Next

LEMMA FloorStays ==
    ASSUME FloorHolds, steady' \subseteq CarrierPins', steady' \subseteq steady, reaper' = reaper,
           \A c \in steady : c[2] \in standing' => c[2] \in standing
    PROVE  FloorHolds'
BY DEF FloorHolds

\* What an assignment to the reaper leaves of it.
LEMMA MovedTo ==
    ASSUME ReaperShape, NEW p, reaper' = [reaper EXCEPT !.pc = p]
    PROVE  ReaperShape' /\ reaper'.pc = p
BY DEF ReaperShape

LEMMA FoundMore ==
    ASSUME ReaperShape, NEW p, NEW f, reaper' = [reaper EXCEPT !.floor = f, !.pc = p]
    PROVE  ReaperShape' /\ reaper'.pc = p /\ reaper'.floor = f
BY DEF ReaperShape

LEMMA ListedAll ==
    ASSUME ReaperShape, NEW p, NEW l, NEW k, reaper' = [reaper EXCEPT !.pc = p, !.listed = l, !.kept = k]
    PROVE  ReaperShape' /\ reaper'.pc = p /\ reaper'.listed = l /\ reaper'.kept = k /\ reaper'.floor = reaper.floor
BY DEF ReaperShape

LEMMA DoomedSome ==
    ASSUME ReaperShape, NEW p, NEW m, reaper' = [reaper EXCEPT !.pc = p, !.doomed = m] \/ (p = reaper.pc /\ reaper' = [reaper EXCEPT !.doomed = m])
    PROVE  /\ ReaperShape' /\ reaper'.pc = p /\ reaper'.doomed = m
           /\ reaper'.listed = reaper.listed /\ reaper'.kept = reaper.kept /\ reaper'.floor = reaper.floor
BY DEF ReaperShape

LEMMA ReapStarts == ASSUME ReaperShape, Next, StartReap PROVE ReapInv'
<1>1. reaper' = [pc |-> "units", left |-> {}, floor |-> {}, listed |-> {}, kept |-> {}, doomed |-> {}]
  BY DEF StartReap, IdleReaper
<1>2. steady' = CarrierPins'
  BY DEF Next
<1>3. reaper'.pc = "units" /\ ReaperShape'
  BY <1>1 DEF ReaperShape
<1> QED
  BY <1>2, <1>3 DEF ReapInv, FloorHolds, PlanHolds, Searched, Read

LEMMA ReapSearches ==
    ASSUME ReapInv, Next, ~StartReap,
           \/ searchUnitCharts \/ listBranches \/ searchPlatformApps \/ listTenantPointers \/ tenantHeldPins \/ checkFloor
           \/ \E branch \in {"trunk", "books"} : searchDeploy(branch)
    PROVE  ReapInv'
<1>0. steady' \subseteq CarrierPins' /\ steady' \subseteq steady
  BY SteadyShrinks
<1>f. FloorHolds /\ ReaperShape
  BY DEF ReapInv
<1>1. CASE reaper' = [reaper EXCEPT !.pc = "failed"]
  <2>1. reaper'.pc = "failed" /\ ReaperShape'
    BY <1>1, <1>f, MovedTo
  <2> QED
    BY <1>0, <2>1 DEF ReapInv, FloorHolds, PlanHolds, Searched, Read
<1>2. ASSUME NEW T, NEW p, p \in {"branches", "held", "floor"}, Found(T, p) PROVE
        /\ ReaperShape' /\ PlanHolds' /\ reaper'.pc = p /\ reaper.floor \subseteq reaper'.floor
        /\ \A t \in T : t # 0 => t \in reaper'.floor
  <2>1. reaper' = [reaper EXCEPT !.floor = reaper.floor \cup {t \in T : Pinned(t)}, !.pc = p]
    BY <1>2 DEF Found
  <2>2. reaper'.pc = p /\ reaper'.floor = reaper.floor \cup {t \in T : Pinned(t)} /\ ReaperShape'
    BY <1>f, <2>1, FoundMore
  <2>3. PlanHolds'
    BY <1>2, <2>2 DEF PlanHolds
  <2> QED
    BY <2>2, <2>3 DEF Pinned
<1>7. ASSUME NEW p, p \in {"members", "floor", "list"}, To(p) PROVE
        ReaperShape' /\ PlanHolds' /\ reaper'.pc = p /\ reaper'.floor = reaper.floor
  <2>1. ReaperShape' /\ reaper'.pc = p /\ reaper'.floor = reaper.floor
    BY <1>f, <1>7 DEF To, ReaperShape
  <2> QED
    BY <1>7, <2>1 DEF PlanHolds
<1>c. \A c \in steady : c \in CarrierPins
  BY <1>f DEF FloorHolds
<1>3. CASE searchUnitCharts
  <2>1. reaper.pc = "units" /\ Found({unitPin}, "branches") /\ UNCHANGED <<origin, unitPin, standing>>
    BY <1>3 DEF searchUnitCharts, At, Reading, booksVars
  <2>2. /\ ReaperShape' /\ PlanHolds' /\ reaper'.pc = "branches" /\ reaper.floor \subseteq reaper'.floor
        /\ unitPin # 0 => unitPin \in reaper'.floor
    BY <1>2, <2>1
  <2>3. \A c \in steady : c[1] = "unit" => c[2] \in reaper'.floor
    BY <1>c, <2>2, PinFacts
  <2>4. FloorHolds'
    BY <1>0, <2>2, <2>3 DEF FloorHolds, Searched, Read
  <2> QED
    BY <2>2, <2>4 DEF ReapInv
<1>8. CASE listBranches
  <2> DEFINE l == {"trunk"} \cup (IF origin = <<>> THEN {} ELSE {"books"})
  <2>1. reaper.pc = "branches" /\ reaper' = [reaper EXCEPT !.pc = "deploy", !.left = l]
    BY <1>8 DEF listBranches, At
  <2>2. ReaperShape' /\ reaper'.pc = "deploy" /\ reaper'.left = l /\ reaper'.floor = reaper.floor
    BY <1>f, <2>1 DEF ReaperShape
  <2>3. \A c \in steady : c[1] = "unit" => c[2] \in reaper.floor
    BY <1>f, <2>1 DEF FloorHolds
  <2>4. \A c \in steady : c[1] \in OnBranch => origin # <<>>
    BY <1>c, PinFacts DEF OnBranch
  <2>5. FloorHolds'
    BY <1>0, <2>2, <2>3, <2>4 DEF FloorHolds, Searched, Read
  <2>6. PlanHolds'
    BY <2>2 DEF PlanHolds
  <2> QED
    BY <2>2, <2>5, <2>6 DEF ReapInv
<1>4. ASSUME NEW branch \in {"trunk", "books"}, searchDeploy(branch) PROVE ReapInv'
  <2> DEFINE f == reaper.floor \cup {t \in globPins(branch) : Pinned(t)}
             l == reaper.left \ {branch}
  <2>1. reaper.pc = "deploy" /\ reaper' = [reaper EXCEPT !.floor = f, !.left = l]
    BY <1>4 DEF searchDeploy, At
  <2>2. ReaperShape' /\ reaper'.pc = "deploy" /\ reaper'.left = l /\ reaper'.floor = f
    BY <1>f, <2>1 DEF ReaperShape
  <2>3. \A c \in steady :
           /\ c[1] = "unit" => c[2] \in reaper.floor
           /\ c[1] = "trunk" => "trunk" \in reaper.left \/ c[2] \in reaper.floor
           /\ c[1] \in OnBranch => "books" \in reaper.left \/ c[2] \in reaper.floor
    BY <1>f, <2>1 DEF FloorHolds
  <2>4. \A c \in steady :
           /\ branch = "trunk" /\ c[1] = "trunk" => c[2] \in f
           /\ branch = "books" /\ c[1] \in OnBranch => c[2] \in f
    BY <1>c, PinFacts DEF globPins, OnBranch, Pinned
  <2>5. \A c \in steady :
           /\ c[1] = "unit" => c[2] \in f
           /\ c[1] = "trunk" => "trunk" \in l \/ c[2] \in f
           /\ c[1] \in OnBranch => "books" \in l \/ c[2] \in f
    BY <2>3, <2>4
  <2> HIDE DEF f, l
  <2>6. FloorHolds'
    BY <1>0, <2>2, <2>5 DEF FloorHolds, Searched, Read
  <2>7. PlanHolds'
    BY <2>2 DEF PlanHolds
  <2> QED
    BY <2>2, <2>6, <2>7 DEF ReapInv
<1>5. CASE searchPlatformApps
  <2>1. /\ reaper.pc = "deploy" /\ reaper.left = {} /\ UNCHANGED <<origin, unitPin, standing>>
        /\ reaper' = [reaper EXCEPT !.pc = "failed"] \/ Found({PlatformTag}, "held")
    BY <1>5 DEF searchPlatformApps, At, To, Reading, booksVars
  <2>2. CASE Found({PlatformTag}, "held")
    <3>1. /\ ReaperShape' /\ PlanHolds' /\ reaper'.pc = "held" /\ reaper.floor \subseteq reaper'.floor
          /\ PlatformTag # 0 => PlatformTag \in reaper'.floor
      BY <1>2, <2>2
    <3>2. \A c \in steady : c[1] \in OnBranch \cup {"unit", "trunk"} => c[2] \in reaper.floor
      BY <1>f, <2>1 DEF FloorHolds
    <3>3. \A c \in steady : c[1] = "platform" => c[2] \in reaper'.floor
      BY <1>c, <3>1, PinFacts
    <3>4. FloorHolds'
      BY <1>0, <3>1, <3>2, <3>3 DEF FloorHolds, Searched, Read
    <3> QED
      BY <3>1, <3>4 DEF ReapInv
  <2> QED
    BY <1>1, <2>1, <2>2
<1>s. ASSUME reaper.pc \in {"held", "members", "floor"}
      PROVE  \A c \in steady : c[1] \in OnBranch \cup {"unit", "trunk", "platform"} => c[2] \in reaper.floor
  BY <1>f, <1>s DEF FloorHolds, Searched, Read
<1>6. CASE listTenantPointers
  <2>1. /\ reaper.pc = "held"
        /\ reaper' = [reaper EXCEPT !.pc = "failed"] \/ To("members") \/ ((origin # <<>> => ~Tip.tree.reg.there) /\ To("floor"))
    BY <1>6 DEF listTenantPointers, At, To
  <2>2. CASE To("members")
    <3>1. ReaperShape' /\ PlanHolds' /\ reaper'.pc = "members" /\ reaper'.floor = reaper.floor
      BY <1>7, <2>2
    <3>2. FloorHolds'
      BY <1>0, <1>s, <2>1, <3>1 DEF FloorHolds, Searched, Read
    <3> QED
      BY <3>1, <3>2 DEF ReapInv
  <2>3. CASE (origin # <<>> => ~Tip.tree.reg.there) /\ To("floor")
    <3>1. ReaperShape' /\ PlanHolds' /\ reaper'.pc = "floor" /\ reaper'.floor = reaper.floor
      BY <1>7, <2>3
    <3>2. \A c \in steady : c[1] # "held"
      BY <1>c, <2>3, PinFacts DEF Approved
    <3>3. FloorHolds'
      BY <1>0, <1>s, <2>1, <3>1, <3>2 DEF FloorHolds, Searched, Read
    <3> QED
      BY <3>1, <3>3 DEF ReapInv
  <2> QED
    BY <1>1, <2>1, <2>2, <2>3
<1>9. CASE tenantHeldPins
  <2>1. /\ reaper.pc = "members"
        /\ reaper' = [reaper EXCEPT !.pc = "failed"] \/ Found(HeldTags(Tip.tree), "floor")
    BY <1>9 DEF tenantHeldPins, At, To
  <2>2. CASE Found(HeldTags(Tip.tree), "floor")
    <3>1. /\ ReaperShape' /\ PlanHolds' /\ reaper'.pc = "floor" /\ reaper.floor \subseteq reaper'.floor
          /\ Approved(Tip.tree) # 0 => Approved(Tip.tree) \in reaper'.floor
      BY <1>2, <2>2 DEF HeldTags
    <3>2. \A c \in steady : c[1] = "held" => c[2] \in reaper'.floor
      BY <1>c, <3>1, PinFacts
    <3>3. FloorHolds'
      BY <1>0, <1>s, <2>1, <3>1, <3>2 DEF FloorHolds, Searched, Read
    <3> QED
      BY <3>1, <3>3 DEF ReapInv
  <2> QED
    BY <1>1, <2>1, <2>2
<1>10. CASE checkFloor
  <2>1. reaper.pc = "floor" /\ (reaper' = [reaper EXCEPT !.pc = "failed"] \/ To("list"))
    BY <1>10 DEF checkFloor, At, To
  <2>2. CASE To("list")
    <3>1. ReaperShape' /\ PlanHolds' /\ reaper'.pc = "list" /\ reaper'.floor = reaper.floor
      BY <1>7, <2>2
    <3>2. \A c \in steady : c[1] = "held" => c[2] \in reaper.floor
      BY <1>f, <2>1 DEF FloorHolds
    <3>3. FloorHolds'
      BY <1>0, <1>s, <2>1, <3>1, <3>2 DEF FloorHolds, Searched, Read
    <3> QED
      BY <3>1, <3>3 DEF ReapInv
  <2> QED
    BY <1>1, <2>1, <2>2
<1> QED
  BY <1>3, <1>4, <1>5, <1>6, <1>8, <1>9, <1>10

\* The list holds every steady pin that stands, and the plan keeps what it lists of the floor.
LEMMA ReapLists ==
    ASSUME ReapInv, Next, ~StartReap, listTags
    PROVE  ReapInv'
<1>0. steady' \subseteq CarrierPins' /\ steady' \subseteq steady
  BY SteadyShrinks
<1>1. /\ reaper.pc = "list" /\ standing' = standing
      /\ reaper' = [reaper EXCEPT !.pc = "resolve", !.listed = standing, !.kept = planRetention(standing, reaper.floor)]
  BY DEF listTags, At, Reading, listTagPages
<1>2. /\ ReaperShape' /\ reaper'.pc = "resolve" /\ reaper'.listed = standing /\ reaper'.floor = reaper.floor
      /\ reaper'.kept = planRetention(standing, reaper.floor)
  BY <1>1, ListedAll DEF ReapInv
<1>3. \A c \in steady : c[1] \in Classes => c[2] \in reaper.floor
  BY <1>1 DEF ReapInv, FloorHolds, Classes, Searched, Read
<1>4. FloorHolds'
  BY <1>0, <1>1, <1>2, <1>3 DEF FloorHolds, Classes, Searched, Read
<1>5. PlanHolds'
  BY <1>2 DEF PlanHolds
<1> QED
  BY <1>2, <1>4, <1>5 DEF ReapInv

\* No digest of a kept tag is doomed.
LEMMA ReapResolves ==
    ASSUME ReapInv, Next, ~StartReap, resolveDigests
    PROVE  ReapInv'
<1>0. steady' \subseteq CarrierPins' /\ steady' \subseteq steady
  BY SteadyShrinks
<1>1. /\ reaper.pc = "resolve" /\ standing' = standing
      /\ \/ reaper' = [reaper EXCEPT !.pc = "delete", !.doomed = Unshared(reaper.listed \ reaper.kept, reaper.kept)]
         \/ reaper' = [reaper EXCEPT !.pc = "failed"]
  BY DEF resolveDigests, At, To, Reading
<1>2. CASE reaper' = [reaper EXCEPT !.pc = "failed"]
  <2>1. reaper'.pc = "failed" /\ ReaperShape'
    BY <1>2, MovedTo DEF ReapInv
  <2> QED
    BY <1>0, <2>1 DEF ReapInv, FloorHolds, PlanHolds, Searched, Read
<1>3. CASE reaper' = [reaper EXCEPT !.pc = "delete", !.doomed = Unshared(reaper.listed \ reaper.kept, reaper.kept)]
  <2>1. /\ ReaperShape' /\ reaper'.pc = "delete" /\ reaper'.doomed = Unshared(reaper.listed \ reaper.kept, reaper.kept)
        /\ reaper'.listed = reaper.listed /\ reaper'.kept = reaper.kept /\ reaper'.floor = reaper.floor
    BY <1>3, DoomedSome DEF ReapInv
  <2>2. FloorHolds'
    BY <1>0, <1>1, <2>1 DEF ReapInv, FloorHolds, Searched, Read
  <2>3. \A t \in reaper.kept : Digest[t] \notin Unshared(reaper.listed \ reaper.kept, reaper.kept)
    BY DEF Unshared, resolveDigest
  <2>4. PlanHolds'
    BY <1>1, <2>1, <2>3 DEF ReapInv, PlanHolds
  <2> QED
    BY <2>1, <2>2, <2>4 DEF ReapInv
<1> QED
  BY <1>1, <1>2, <1>3

LEMMA ReapDeletes ==
    ASSUME ReapInv, Next, ~StartReap, NEW d, deleteManifest(d)
    PROVE  ReapInv'
<1>0. steady' \subseteq CarrierPins' /\ steady' \subseteq steady
  BY SteadyShrinks
<1>1. /\ reaper.pc = "delete" /\ standing' \subseteq standing
      /\ reaper' = [reaper EXCEPT !.doomed = reaper.doomed \ {d}]
  BY DEF deleteManifest, manifestDelete, At
<1>2. /\ ReaperShape' /\ reaper'.pc = "delete" /\ reaper'.doomed = reaper.doomed \ {d}
      /\ reaper'.listed = reaper.listed /\ reaper'.kept = reaper.kept /\ reaper'.floor = reaper.floor
  BY <1>1, DoomedSome DEF ReapInv
<1>3. FloorHolds'
  BY <1>0, <1>1, <1>2 DEF ReapInv, FloorHolds, Searched, Read
<1>4. PlanHolds'
  BY <1>1, <1>2 DEF ReapInv, PlanHolds
<1> QED
  BY <1>2, <1>3, <1>4 DEF ReapInv

LEMMA ReapEnds ==
    ASSUME ReapInv, Next, ~StartReap, EndReap \/ ReapStops
    PROVE  ReapInv'
<1>0. steady' \subseteq CarrierPins' /\ steady' \subseteq steady
  BY SteadyShrinks
<1>1. ReaperShape' /\ reaper'.pc \in {"idle", "failed"}
  <2>1. CASE EndReap
    BY <2>1 DEF EndReap, IdleReaper, ReaperShape
  <2>2. CASE ReapStops
    BY <2>2, MovedTo DEF ReapStops, To, ReapInv
  <2> QED
    BY <2>1, <2>2
<1> QED
  BY <1>0, <1>1 DEF ReapInv, FloorHolds, PlanHolds, Searched, Read

\* Nothing the others do takes a pin out of the floor or a tag out of the plan.
LEMMA ReapStands ==
    ASSUME ReapInv, NewImages, Next, ~StartReap, Around \/ \E t \in Tags : PushImage(t) \/ BumpUnit(t)
    PROVE  ReapInv'
<1>0. steady' \subseteq CarrierPins' /\ steady' \subseteq steady
  BY SteadyShrinks
<1>1. reaper' = reaper
  BY DEF Around, PushImage, BumpUnit
<1>2. \A c \in steady : c[2] \in standing' => c[2] \in standing
  <2>1. CASE Around \/ \E t \in Tags : BumpUnit(t)
    BY <2>1 DEF Around, BumpUnit
  <2>2. ASSUME NEW t \in Tags, PushImage(t) PROVE \A c \in steady : c[2] \in standing' => c[2] \in standing
    <3>1. standing' = standing \cup {t}
      BY <2>2 DEF PushImage
    <3>2. \A c \in steady : c[2] # t
      BY <2>2 DEF NewImages, ReapInv, FloorHolds
    <3> QED
      BY <3>1, <3>2
  <2> QED
    BY <2>1, <2>2
<1>3. FloorHolds'
  BY <1>0, <1>1, <1>2, FloorStays DEF ReapInv
<1>4. ReaperShape' /\ PlanHolds'
  BY <1>1 DEF ReapInv, ReaperShape, PlanHolds
<1> QED
  BY <1>3, <1>4 DEF ReapInv

LEMMA ReapNext == ReapInv /\ [Next]_vars /\ [NewImages]_vars => ReapInv'
<1> SUFFICES ASSUME ReapInv, [Next]_vars, [NewImages]_vars PROVE ReapInv'
  OBVIOUS
<1>1. CASE UNCHANGED vars
  <2>1. reaper' = reaper /\ steady' = steady /\ standing' = standing /\ origin' = origin /\ unitPin' = unitPin /\ trunk' = trunk
    BY <1>1 DEF vars, booksVars, cleanupVars
  <2>2. CarrierPins' = CarrierPins
    BY <2>1 DEF CarrierPins, OnBooks, Approved, Tip
  <2>3. steady \subseteq CarrierPins
    BY DEF ReapInv, FloorHolds
  <2>4. FloorHolds'
    BY <2>1, <2>2, <2>3, FloorStays DEF ReapInv
  <2> QED
    BY <2>1, <2>4 DEF ReapInv, ReaperShape, PlanHolds
<1>2. CASE ~UNCHANGED vars
  <2>0. Next /\ NewImages
    BY <1>2
  <2>1. CASE StartReap
    BY <2>0, <2>1, ReapStarts DEF ReapInv
  <2>2. CASE ~StartReap
    <3>1. CASE \/ searchUnitCharts \/ listBranches \/ searchPlatformApps \/ listTenantPointers \/ tenantHeldPins \/ checkFloor
               \/ \E branch \in {"trunk", "books"} : searchDeploy(branch)
      BY <2>0, <2>2, <3>1, ReapSearches
    <3>2. CASE listTags \/ resolveDigests
      BY <2>0, <2>2, <3>2, ReapLists, ReapResolves
    <3>3. CASE \E d \in {Digest[t] : t \in Tags} : deleteManifest(d)
      BY <2>0, <2>2, <3>3, ReapDeletes
    <3>4. CASE EndReap \/ ReapStops
      BY <2>0, <2>2, <3>4, ReapEnds
    <3>5. CASE Around \/ \E t \in Tags : PushImage(t) \/ BumpUnit(t)
      BY <2>0, <2>2, <3>5, ReapStands
    <3> QED
      BY <2>0, <2>2, <3>1, <3>2, <3>3, <3>4, <3>5 DEF Next, ReapStep
  <2> QED
    BY <2>1, <2>2
<1> QED
  BY <1>1, <1>2

LEMMA ReapInit == Init => ReapInv
<1> SUFFICES ASSUME Init PROVE ReapInv
  OBVIOUS
<1>1. steady = {} /\ reaper = [pc |-> "idle", left |-> {}, floor |-> {}, listed |-> {}, kept |-> {}, doomed |-> {}]
  BY DEF Init, IdleReaper
<1>2. ReaperShape /\ reaper.pc = "idle"
  BY <1>1 DEF ReaperShape
<1> QED
  BY <1>1, <1>2 DEF ReapInv, FloorHolds, PlanHolds

Spares ==
    At("delete") /\ standing' # standing =>
        LET gone == standing \ standing'
        IN /\ \A c \in steady : c[2] \notin gone
           /\ keptByCount(reaper.listed) \cap gone = {}

LEMMA ReapStepSpares == ReapInv /\ [Next]_vars => Spares
<1> SUFFICES ASSUME ReapInv, [Next]_vars, reaper.pc = "delete", NEW t \in standing, t \notin standing'
             PROVE  t \notin keptByCount(reaper.listed) /\ \A c \in steady : c[2] # t
  BY DEF Spares, At
<1>1. PICK d : deleteManifest(d)
  <2>1. standing' # standing
    OBVIOUS
  <2>2. ~UNCHANGED vars /\ ~Around
    BY <2>1 DEF vars, cleanupVars, Around
  <2>3. ~(StartReap \/ searchUnitCharts \/ listBranches \/ (\E branch \in {"trunk", "books"} : searchDeploy(branch))
            \/ searchPlatformApps \/ listTenantPointers \/ tenantHeldPins \/ checkFloor \/ listTags \/ resolveDigests \/ EndReap \/ ReapStops)
    BY <2>1 DEF StartReap, searchUnitCharts, listBranches, searchDeploy, searchPlatformApps, listTenantPointers, tenantHeldPins, checkFloor, listTags, resolveDigests,
                EndReap, ReapStops, Reading
  <2>4. \A s \in Tags : ~PushImage(s) /\ ~BumpUnit(s)
    BY <2>1 DEF PushImage, BumpUnit
  <2> QED
    BY <2>2, <2>3, <2>4 DEF Next, ReapStep
<1>2. d \in reaper.doomed /\ Digest[t] = d
  BY <1>1 DEF deleteManifest, manifestDelete
<1>3. /\ reaper.kept = planRetention(reaper.listed, reaper.floor)
      /\ \A s \in reaper.kept : Digest[s] \notin reaper.doomed
  BY DEF ReapInv, PlanHolds
<1>4. t \notin reaper.kept
  BY <1>2, <1>3
<1>5. t \notin keptByCount(reaper.listed) /\ ~(t \in reaper.floor /\ t \in reaper.listed)
  BY <1>3, <1>4 DEF planRetention
<1>6. ASSUME NEW c \in steady, c[2] = t PROVE FALSE
  <2>1. c \in CarrierPins /\ (c[1] \in Classes => c[2] \in reaper.floor) /\ c[2] \in reaper.listed
    BY <1>6 DEF ReapInv, FloorHolds, Classes, Searched, Read
  <2>2. c[1] \in Classes
    BY <2>1, PinFacts DEF Classes, OnBranch
  <2> QED
    BY <1>5, <1>6, <2>1, <2>2
<1> QED
  BY <1>5, <1>6

\* However pins move and builds push beside it, the reaper takes no image whose pin has stood since before
\* its search - on a unit's chart, on the trunk, on the books branch, held by a tenant's members or by the
\* platform - and none of the newest of a pot it listed (searchImageFloor, planRetention, the shared digests
\* of phase 3), as long as no build pushes a tag that some carrier pins already.
THEOREM ImagesSpared == Spec /\ [][NewImages]_vars => ReapSpares
<1>1. ReapInv /\ [Next]_vars => [Spares]_vars
  BY ReapStepSpares
<1>2. Spec /\ [][NewImages]_vars => []ReapInv
  BY ReapInit, ReapNext, PTL DEF Spec
<1> QED
  BY <1>1, <1>2, PTL DEF Spec, ReapSpares, Spares

=============================================================================
