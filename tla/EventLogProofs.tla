--------------------------- MODULE EventLogProofs ---------------------------
(***************************************************************************)
(* No kept line of a run's log is passed over by a page that follows it,   *)
(* and the end of a stream is announced only to a page that was sent every *)
(* kept line: for any number of pages, lines, dropped connections and ends *)
(* of the process.                                                         *)
(***************************************************************************)
EXTENDS EventLog, FiniteSetTheorems, SequenceTheorems, TLAPS

-----------------------------------------------------------------------------
\* The inductive invariant.

Published == Rows \cup ephemeral

\* The kept lines the theorems speak of.
Kept == {l \in Rows : ~Reused(l)}

\* A sequence number somebody was sent.
Known(n) == n = 0 \/ \E l \in Published : l.seq = n

\* Every earlier row has the smaller number, and none is 0.
RowsGrow ==
    /\ \A i, k \in 1..Len(table) : i < k => table[i].seq < table[k].seq
    /\ \A i \in 1..Len(table) : table[i].seq > 0

\* The numbers past the table's last row that were handed out went to ephemeral lines.
GapsAreEphemeral ==
    /\ \A e \in ephemeral : \A n \in MaxSeq + 1 .. e.seq : \E f \in ephemeral : f.seq = n
    /\ ctx # 0 => \A n \in MaxSeq + 1 .. ctx - 1 : \E f \in ephemeral : f.seq = n

\* A context that fell behind the table stands on a number that is taken.
CounterCollides == ctx # 0 => \A n \in ctx .. MaxSeq : Taken(n)

TableInv == RowsGrow /\ GapsAreEphemeral /\ CounterCollides /\ IsFiniteSet(ephemeral)

\* A page was shown what its cursor passed, and what it is to be sent comes in an order that keeps it so.
PageInv(c) ==
    /\ Known(after[c])
    /\ \A l \in Kept : l.seq <= after[c] => l.id \in seen[c]
    /\ \A i \in 1..Len(wire[c]) : wire[c][i] \in Published \cup {EndLine}
    /\ \A i \in 1..Len(wire[c]) : \A l \in Kept :
          l.seq <= wire[c][i].seq => l.id \in seen[c] \/ \E k \in 1..i : wire[c][k] = l

InWire(c, l) == \E k \in 1..Len(wire[c]) : wire[c][k] = l
InQueue(c, l) == \E k \in 1..Len(queue[c]) : queue[c][k] = l

\* A stream sent everything up to its cursor and holds everything past it, the replay ahead of the
\* live lines and both in order.
StreamInv(c) ==
    /\ Known(last[c])
    /\ backlog[c] \subseteq Rows
    /\ \A i \in 1..Len(queue[c]) : queue[c][i] \in Published
    /\ \A i \in 1..Len(wire[c]) : wire[c][i] # EndLine
    /\ \A l \in Kept : l.seq <= last[c] => l.id \in seen[c] \/ InWire(c, l)
    /\ \A l \in Kept : l.seq > last[c] => l \in backlog[c] \/ InQueue(c, l)
    /\ \A b \in backlog[c] : \A l \in Kept : last[c] < l.seq /\ l.seq <= b.seq => l \in backlog[c]
    /\ \A i \in 1..Len(queue[c]) : \A l \in Kept :
          last[c] < l.seq /\ l.seq <= queue[c][i].seq => l \in backlog[c] \/ \E k \in 1..i : queue[c][k] = l

PipeInv == \A c \in Clients : PageInv(c) /\ (c \in streaming => StreamInv(c))

IInv == TypeOK /\ TableInv /\ PipeInv

-----------------------------------------------------------------------------
\* The table.

LEMMA RowFacts ==
    ASSUME table \in Seq(Line), RowsGrow
    PROVE  /\ MaxSeq \in Nat
           /\ \A l \in Rows : l \in Line /\ l.seq \in Nat /\ l.seq > 0 /\ l.seq <= MaxSeq
           /\ \A l, m \in Rows : l.seq = m.seq => l = m
<1>0. Len(table) \in Nat /\ \A i \in 1..Len(table) : table[i] \in Line
  OBVIOUS
<1>1. Len(table) \in Nat /\ \A i \in 1..Len(table) : table[i] \in Line /\ table[i].seq \in Nat
  BY <1>0 DEF Line
<1>2. table = <<>> <=> Len(table) = 0
  OBVIOUS
<1>3. MaxSeq \in Nat
  BY <1>1, <1>2 DEF MaxSeq
<1>4. ASSUME NEW i \in 1..Len(table) PROVE table[i].seq > 0 /\ table[i].seq <= MaxSeq
  <2>1. i <= Len(table) /\ Len(table) \in 1..Len(table) /\ MaxSeq = table[Len(table)].seq
    BY <1>1, <1>2 DEF MaxSeq
  <2>2. i < Len(table) => table[i].seq < MaxSeq
    BY <2>1 DEF RowsGrow
  <2> QED
    BY <1>1, <2>1, <2>2 DEF RowsGrow
<1>5. ASSUME NEW i \in 1..Len(table), NEW k \in 1..Len(table), table[i].seq = table[k].seq PROVE table[i] = table[k]
  <2>1. ~(i < k) /\ ~(k < i)
    BY <1>1, <1>5 DEF RowsGrow
  <2> QED
    BY <2>1
<1> QED
  BY <1>1, <1>3, <1>4, <1>5 DEF Rows

LEMMA NextIdIsNat == ASSUME table \in Seq(Line), IsFiniteSet(ephemeral) PROVE NextId \in Nat \ {0}
<1>1. Cardinality(ephemeral) \in Nat /\ Len(table) \in Nat
  BY FS_CardinalityType
<1> QED
  BY <1>1 DEF NextId

\* A line added to the table with a number past every row's.
LEMMA RowAdded ==
    ASSUME TypeOK, TableInv, NEW s \in Nat, s > MaxSeq, NEW x, x = [id |-> NextId, seq |-> s], NextId <= MaxLines,
           table' = Append(table, x), ephemeral' = ephemeral
    PROVE  /\ x \in Line /\ table' \in Seq(Line) /\ RowsGrow' /\ MaxSeq' = s
           /\ Rows' = Rows \cup {x} /\ Published' = Published \cup {x} /\ Kept' \subseteq Kept \cup {x}
           /\ x \in Kept' => \A l \in Published : l.seq < s
<1>1. NextId \in Nat \ {0} /\ MaxSeq \in Nat /\ table \in Seq(Line) /\ ephemeral \subseteq Line
  BY NextIdIsNat, RowFacts DEF TypeOK, TableInv
<1>2. x \in Line /\ x.seq = s /\ table' \in Seq(Line)
  BY <1>1, BoundsAssumption DEF Line
<1>3. /\ Len(table') = Len(table) + 1 /\ Len(table) \in Nat /\ table'[Len(table) + 1] = x
      /\ \A i \in 1..Len(table) : table'[i] = table[i]
  BY <1>1, <1>2
<1>4. \A i \in 1..Len(table) : table[i] \in Rows
  BY DEF Rows
<1>5. \A i \in 1..Len(table) : table[i].seq \in Nat /\ table[i].seq < s
  BY <1>1, <1>4, RowFacts DEF TableInv
<1>6. \A i \in 1..Len(table') : i \in 1..Len(table) \/ i = Len(table) + 1
  BY <1>3
<1>7. RowsGrow'
  <2>1. ASSUME NEW i \in 1..Len(table'), NEW k \in 1..Len(table'), i < k PROVE table'[i].seq < table'[k].seq
    <3>1. i \in 1..Len(table)
      BY <1>3, <2>1
    <3>2. CASE k = Len(table) + 1
      BY <1>2, <1>3, <1>5, <3>1, <3>2
    <3>3. CASE k \in 1..Len(table)
      BY <1>3, <2>1, <3>1, <3>3 DEF TableInv, RowsGrow
    <3> QED
      BY <1>6, <3>2, <3>3
  <2>2. ASSUME NEW i \in 1..Len(table') PROVE table'[i].seq > 0
    BY <1>1, <1>2, <1>3, <1>6 DEF TableInv, RowsGrow
  <2> QED
    BY <2>1, <2>2 DEF RowsGrow
<1>8. MaxSeq' = s
  <2>1. table' # <<>>
    BY <1>2, <1>3
  <2> QED
    BY <1>2, <1>3, <2>1 DEF MaxSeq
<1>9. Rows' = Rows \cup {x}
  <2>1. \A i \in 1..Len(table') : table'[i] \in Rows \cup {x}
    BY <1>3, <1>4, <1>6
  <2>2. \A i \in 1..Len(table) : table[i] \in Rows'
    BY <1>3 DEF Rows
  <2>3. x \in Rows'
    BY <1>3 DEF Rows
  <2> QED
    BY <2>1, <2>2, <2>3 DEF Rows
<1>10. Published' = Published \cup {x} /\ Kept' \subseteq Kept \cup {x}
  BY <1>9 DEF Published, Kept, Reused
<1>11. ASSUME x \in Kept', NEW l \in Published PROVE l.seq < s
  <2>1. CASE l \in Rows
    BY <1>1, <2>1, RowFacts DEF TableInv
  <2>2. CASE l \in ephemeral
    <3>1. ~\E e \in ephemeral : e.seq = s
      BY <1>2, <1>11 DEF Kept, Reused
    <3>2. l.seq \in Nat
      BY <1>1, <2>2 DEF Line
    <3>3. s \notin MaxSeq + 1 .. l.seq
      BY <2>2, <3>1 DEF TableInv, GapsAreEphemeral
    <3> QED
      BY <1>1, <3>2, <3>3
  <2> QED
    BY <2>1, <2>2 DEF Published
<1> QED
  BY <1>2, <1>7, <1>8, <1>9, <1>10, <1>11

-----------------------------------------------------------------------------
\* The pipe of a page.

LEMMA PublishedTypes ==
    ASSUME TypeOK PROVE Published \subseteq Line /\ \A l \in Published : l.seq \in Nat
<1>1. Rows \subseteq Line
  BY DEF TypeOK, Rows
<1>2. Published \subseteq Line
  BY <1>1 DEF Published, TypeOK
<1> QED
  BY <1>2 DEF Line

\* A new line at the end of every stream's queue.
LEMMA PipePublished ==
    ASSUME TypeOK, PipeInv, NEW x \in Line,
           Rows \subseteq Rows', Published' = Published \cup {x}, Kept' \subseteq Kept \cup {x},
           x \in Kept' => x.seq > 0 /\ \A l \in Published : l.seq < x.seq,
           Publish(x), UNCHANGED <<streaming, backlog, last, wire, client>>
    PROVE  PipeInv' /\ queue' \in [Clients -> Seq(Line)]
<1>1. UNCHANGED <<streaming, backlog, last, wire, after, seen>>
  BY DEF client
<1>q. queue' \in [Clients -> Seq(Line)]
  BY DEF Publish, TypeOK
<1>p. x.seq \in Nat /\ \A l \in Published : l.seq \in Nat
  BY PublishedTypes DEF Line
<1>2. ASSUME NEW c \in Clients PROVE PageInv(c)'
  <2>1. PageInv(c)
    BY DEF PipeInv
  <2>2. ASSUME x \in Kept' PROVE x.seq > after[c] /\ \A i \in 1..Len(wire[c]) : x.seq > wire[c][i].seq
    <3>1. x.seq > after[c]
      BY <1>p, <2>1, <2>2 DEF PageInv, Known
    <3>2. ASSUME NEW i \in 1..Len(wire[c]) PROVE x.seq > wire[c][i].seq
      <4>1. wire[c][i] \in Published \/ wire[c][i] = EndLine
        BY <2>1 DEF PageInv
      <4> QED
        BY <1>p, <2>2, <4>1 DEF EndLine
    <3> QED
      BY <3>1, <3>2
  <2>3. Known(after[c])' /\ \A i \in 1..Len(wire'[c]) : wire'[c][i] \in Published' \cup {EndLine}
    BY <1>1, <2>1 DEF PageInv, Known
  <2>n. after[c] \in Nat /\ \A i \in 1..Len(wire[c]) : wire[c][i].seq \in Nat
    <3>1. \A i \in 1..Len(wire[c]) : wire[c][i] \in Published \/ wire[c][i] = EndLine
      BY <2>1 DEF PageInv
    <3>2. EndLine.seq \in Nat /\ after[c] \in Nat
      BY DEF EndLine, TypeOK
    <3> QED
      BY <1>p, <3>1, <3>2
  <2>4. \A l \in Kept' : l.seq <= after'[c] => l.id \in seen'[c]
    <3> SUFFICES ASSUME NEW l \in Kept', l.seq <= after'[c] PROVE l.id \in seen'[c]
      OBVIOUS
    <3>1. l # x
      BY <1>1, <1>p, <2>2, <2>n
    <3> QED
      BY <1>1, <2>1, <3>1 DEF PageInv
  <2>5. \A i \in 1..Len(wire'[c]) : \A l \in Kept' :
          l.seq <= wire'[c][i].seq => l.id \in seen'[c] \/ \E k \in 1..i : wire'[c][k] = l
    <3> SUFFICES ASSUME NEW i \in 1..Len(wire[c]), NEW l \in Kept', l.seq <= wire[c][i].seq
                 PROVE  l.id \in seen[c] \/ \E k \in 1..i : wire[c][k] = l
      BY <1>1
    <3>1. l # x
      BY <1>p, <2>2, <2>n
    <3> QED
      BY <2>1, <3>1 DEF PageInv
  <2> QED
    BY <2>3, <2>4, <2>5 DEF PageInv
<1>3. ASSUME NEW c \in Clients, c \in streaming PROVE StreamInv(c)'
  <2> DEFINE p == queue[c]
             q == queue'[c]
  <2>1. StreamInv(c) /\ p \in Seq(Line) /\ q = Append(p, x)
    BY <1>3 DEF PipeInv, Publish, TypeOK
  <2>2. /\ Len(q) = Len(p) + 1 /\ Len(p) \in Nat /\ q[Len(p) + 1] = x
        /\ \A i \in 1..Len(p) : q[i] = p[i]
    BY <2>1
  <2>d. /\ \A i \in 1..Len(p) : p[i] \in Published
        /\ \A l \in Kept : l.seq > last[c] => l \in backlog[c] \/ \E k \in 1..Len(p) : p[k] = l
        /\ \A i \in 1..Len(p) : \A l \in Kept :
              last[c] < l.seq /\ l.seq <= p[i].seq => l \in backlog[c] \/ \E k \in 1..i : p[k] = l
    BY <2>1 DEF StreamInv, InQueue
  <2>e. last[c] \in Nat /\ Known(last[c]) /\ backlog[c] \subseteq Rows /\ \A b \in backlog[c] : b \in Published
    BY <2>1 DEF StreamInv, TypeOK, Published
  <2> HIDE DEF p, q
  <2>3. ASSUME x \in Kept' PROVE x.seq > last[c] /\ \A i \in 1..Len(p) : x.seq > p[i].seq
    BY <1>p, <2>3, <2>d, <2>e DEF Known
  <2>4. \A i \in 1..Len(q) : i \in 1..Len(p) \/ i = Len(p) + 1
    BY <2>2
  <2>5. Known(last[c])' /\ backlog'[c] \subseteq Rows' /\ \A i \in 1..Len(wire'[c]) : wire'[c][i] # EndLine
    BY <1>1, <2>1, <2>e DEF StreamInv, Known
  <2>6. \A i \in 1..Len(q) : q[i] \in Published'
    BY <2>2, <2>4, <2>d
  <2>7. \A l \in Kept' : l.seq <= last'[c] => l.id \in seen'[c] \/ InWire(c, l)'
    <3> SUFFICES ASSUME NEW l \in Kept', l.seq <= last'[c] PROVE l.id \in seen'[c] \/ InWire(c, l)'
      OBVIOUS
    <3>1. l # x
      BY <1>1, <1>p, <2>3, <2>e
    <3> QED
      BY <1>1, <2>1, <3>1 DEF StreamInv, InWire
  <2>8. \A l \in Kept' : l.seq > last'[c] => l \in backlog'[c] \/ \E k \in 1..Len(q) : q[k] = l
    <3> SUFFICES ASSUME NEW l \in Kept', l.seq > last[c] PROVE l \in backlog[c] \/ \E k \in 1..Len(q) : q[k] = l
      BY <1>1
    <3>1. CASE l = x
      BY <2>2, <3>1
    <3>2. CASE l # x
      <4>1. l \in Kept /\ (l \in backlog[c] \/ \E k \in 1..Len(p) : p[k] = l)
        BY <2>d, <3>2
      <4> QED
        BY <2>2, <4>1
    <3> QED
      BY <3>1, <3>2
  <2>9. \A b \in backlog'[c] : \A l \in Kept' : last'[c] < l.seq /\ l.seq <= b.seq => l \in backlog'[c]
    <3> SUFFICES ASSUME NEW b \in backlog[c], NEW l \in Kept', last[c] < l.seq, l.seq <= b.seq
                 PROVE  l \in backlog[c]
      BY <1>1
    <3>1. l # x
      BY <1>p, <2>e
    <3> QED
      BY <2>1, <3>1 DEF StreamInv
  <2>10. \A i \in 1..Len(q) : \A l \in Kept' :
            last'[c] < l.seq /\ l.seq <= q[i].seq => l \in backlog'[c] \/ \E k \in 1..i : q[k] = l
    <3> SUFFICES ASSUME NEW i \in 1..Len(q), NEW l \in Kept', last[c] < l.seq, l.seq <= q[i].seq
                 PROVE  l \in backlog[c] \/ \E k \in 1..i : q[k] = l
      BY <1>1
    <3>1. CASE i = Len(p) + 1
      BY <1>1, <2>2, <2>8, <3>1
    <3>2. CASE i \in 1..Len(p)
      <4>1. p[i].seq \in Nat /\ l.seq <= p[i].seq /\ l # x
        BY <1>p, <2>2, <2>3, <2>d, <3>2
      <4>2. l \in backlog[c] \/ \E k \in 1..i : p[k] = l
        BY <2>d, <3>2, <4>1
      <4> QED
        BY <2>2, <3>2, <4>2
    <3> QED
      BY <2>4, <3>1, <3>2
  <2> QED
    BY <2>5, <2>6, <2>7, <2>8, <2>9, <2>10 DEF StreamInv, InQueue, q
<1> QED
  BY <1>1, <1>q, <1>2, <1>3 DEF PipeInv

-----------------------------------------------------------------------------
\* Every step keeps the invariant.

LEMMA IInit == Init => IInv
<1> SUFFICES ASSUME Init PROVE IInv
  OBVIOUS
<1>1. Rows = {} /\ Kept = {} /\ Len(table) = 0 /\ MaxSeq = 0
  BY DEF Init, Rows, Kept, MaxSeq
<1>s. <<>> \in Seq(Line) /\ <<>> \in Seq(Line \cup {EndLine}) /\ "waiting" \in Status
  BY EmptySeq DEF Status
<1>2. TypeOK
  BY <1>s DEF Init, TypeOK
<1>3. TableInv
  BY <1>1, FS_EmptySet DEF Init, TableInv, RowsGrow, GapsAreEphemeral, CounterCollides
<1>4. PipeInv
  BY <1>1 DEF Init, PipeInv, PageInv, Known
<1> QED
  BY <1>2, <1>3, <1>4 DEF IInv

\* The counters' types, and what a step that writes leaves of the rest.
Sane == status' \in Status /\ deleted' \in BOOLEAN /\ ctx' \in Nat /\ late' \in Nat
           /\ up' \in BOOLEAN /\ restarts' \in Nat /\ drops' \in Nat

LEMMA NothingBetween == \A a, s \in Nat : \A n \in s + 1 .. a - 1 : a # s + 1
OBVIOUS

LEMMA RowWritten ==
    ASSUME IInv, NEW s \in Nat, s > MaxSeq, Write(s), Sane,
           ctx' = 0 \/ ctx' = s + 1 \/ (ctx' = ctx /\ s = MaxSeq + 1),
           UNCHANGED <<ephemeral, streaming, backlog, last, wire, client>>
    PROVE  IInv'
<1>i. TypeOK /\ TableInv /\ PipeInv
  BY DEF IInv
<1> DEFINE x == [id |-> NextId, seq |-> s]
<1>1. NextId <= MaxLines /\ table' = Append(table, x) /\ Publish(x) /\ x.seq = s
  BY DEF Write
<1>2. x = [id |-> NextId, seq |-> s]
  OBVIOUS
<1> HIDE DEF x
<1>3. /\ x \in Line /\ table' \in Seq(Line) /\ RowsGrow' /\ MaxSeq' = s
      /\ Rows' = Rows \cup {x} /\ Published' = Published \cup {x} /\ Kept' \subseteq Kept \cup {x}
      /\ x \in Kept' => \A l \in Published : l.seq < s
  BY <1>i, <1>1, <1>2, RowAdded
<1>m. MaxSeq \in Nat
  BY <1>i, RowFacts DEF TypeOK, TableInv
<1>4. PipeInv' /\ queue' \in [Clients -> Seq(Line)]
  <2>1. x.seq > 0 /\ Rows \subseteq Rows'
    BY <1>1, <1>3, <1>m
  <2> QED
    BY <1>i, <1>1, <1>3, <2>1, PipePublished
<1>5. GapsAreEphemeral'
  <2>0. ephemeral \subseteq Line /\ ctx \in Nat /\ ctx' \in Nat /\ ephemeral' = ephemeral /\ \A e \in ephemeral : e.seq \in Nat
    BY <1>i DEF TypeOK, Sane, Line
  <2>1. ASSUME NEW e \in ephemeral, NEW n \in s + 1 .. e.seq PROVE \E f \in ephemeral : f.seq = n
    <3>1. n \in MaxSeq + 1 .. e.seq
      BY <1>m, <2>0
    <3> QED
      BY <1>i, <3>1 DEF TableInv, GapsAreEphemeral
  <2>2. ASSUME ctx' # 0, NEW n \in s + 1 .. ctx' - 1 PROVE \E f \in ephemeral : f.seq = n
    <3>0. ctx' # s + 1
      BY <2>0, NothingBetween
    <3>1. ctx' = ctx /\ s = MaxSeq + 1
      BY <2>2, <3>0
    <3>2. n \in MaxSeq + 1 .. ctx - 1
      BY <1>m, <2>0, <2>2, <3>1
    <3> QED
      BY <1>i, <2>2, <3>1, <3>2 DEF TableInv, GapsAreEphemeral
  <2> QED
    BY <1>3, <2>0, <2>1, <2>2 DEF GapsAreEphemeral
<1>6. CounterCollides'
  <2>0. ctx \in Nat /\ ctx' \in Nat
    BY <1>i DEF TypeOK, Sane
  <2>1. ASSUME ctx' # 0, NEW n \in ctx' .. s PROVE \E l \in Rows' : l.seq = n
    <3>1. ctx' = ctx /\ s = MaxSeq + 1
      BY <2>0, <2>1
    <3>2. CASE n = s
      BY <1>1, <1>3, <3>2
    <3>3. CASE n # s
      <4>1. n \in ctx .. MaxSeq
        BY <1>m, <2>0, <2>1, <3>1, <3>3
      <4>2. Taken(n)
        BY <1>i, <2>1, <3>1, <4>1 DEF TableInv, CounterCollides
      <4> QED
        BY <1>3, <4>2 DEF Taken
    <3> QED
      BY <3>2, <3>3
  <2> QED
    BY <1>3, <2>1 DEF CounterCollides, Taken
<1>7. TableInv'
  BY <1>i, <1>3, <1>5, <1>6 DEF TableInv
<1>8. TypeOK'
  BY <1>i, <1>3, <1>4 DEF TypeOK, Sane, client
<1> QED
  BY <1>4, <1>7, <1>8 DEF IInv

\* A context whose number is free is past the table.
LEMMA FreeIsPast == ASSUME IInv, ctx # 0, ~Taken(ctx) PROVE ctx \in Nat /\ ctx > MaxSeq
<1>1. ctx \in Nat /\ MaxSeq \in Nat
  BY RowFacts DEF IInv, TypeOK, TableInv
<1>2. ctx \notin ctx .. MaxSeq
  BY DEF IInv, TableInv, CounterCollides
<1> QED
  BY <1>1, <1>2

LEMMA WritesKeep ==
    ASSUME IInv, Begin \/ Emit \/ EmitCollides \/ End \/ FailRun \/ MetaLine \/ LateMeta
    PROVE  IInv'
<1>t. TypeOK /\ MaxSeq \in Nat /\ MaxSeq + 1 \in Nat /\ MaxSeq + 1 > MaxSeq
  BY RowFacts DEF IInv, TypeOK, TableInv
<1>1. CASE Begin
  <2>1. Write(MaxSeq + 1) /\ ctx' = (MaxSeq + 1) + 1 /\ UNCHANGED <<ephemeral, streaming, backlog, last, wire, client>>
    BY <1>1, <1>t DEF Begin
  <2>2. Sane
    BY <1>1, <1>t DEF Begin, Sane, TypeOK, Status
  <2> QED
    BY <1>t, <2>1, <2>2, RowWritten
<1>2. CASE Emit
  <2>1. Write(ctx) /\ ctx' = ctx + 1 /\ UNCHANGED <<ephemeral, streaming, backlog, last, wire, client>>
    BY <1>2 DEF Emit
  <2>2. Sane
    BY <1>2, <1>t DEF Emit, Sane, TypeOK
  <2>3. ctx \in Nat /\ ctx > MaxSeq
    BY <1>2, FreeIsPast DEF Emit
  <2> QED
    BY <2>1, <2>2, <2>3, RowWritten
<1>3. CASE End
  <2>1. Write(ctx) /\ ctx' = 0 /\ UNCHANGED <<ephemeral, streaming, backlog, last, wire, client>>
    BY <1>3 DEF End
  <2>2. Sane
    BY <1>3, <1>t DEF End, Sane, TypeOK
  <2>3. ctx \in Nat /\ ctx > MaxSeq
    BY <1>3, FreeIsPast DEF End
  <2> QED
    BY <2>1, <2>2, <2>3, RowWritten
<1>4. CASE EmitCollides \/ FailRun
  <2>1. Write(MaxSeq + 1) /\ ctx' = 0 /\ UNCHANGED <<ephemeral, streaming, backlog, last, wire, client>>
    BY <1>4 DEF EmitCollides, FailRun, appendRunMeta
  <2>2. Sane
    BY <1>4, <1>t DEF EmitCollides, FailRun, Sane, TypeOK, Status
  <2> QED
    BY <1>t, <2>1, <2>2, RowWritten
<1>5. CASE MetaLine \/ LateMeta
  <2>1. Write(MaxSeq + 1) /\ ctx' = ctx /\ UNCHANGED <<ephemeral, streaming, backlog, last, wire, client>>
    BY <1>5 DEF MetaLine, LateMeta, appendRunMeta
  <2>2. Sane
    BY <1>5, <1>t DEF MetaLine, LateMeta, Sane, TypeOK, Status
  <2> QED
    BY <1>t, <2>1, <2>2, RowWritten
<1> QED
  BY <1>1, <1>2, <1>3, <1>4, <1>5

LEMMA EphemeralKeeps == ASSUME IInv, EmitEphemeral PROVE IInv'
<1>i. TypeOK /\ TableInv /\ PipeInv
  BY DEF IInv
<1> DEFINE x == [id |-> NextId, seq |-> ctx]
<1>1. /\ NextId <= MaxLines /\ ephemeral' = ephemeral \cup {x} /\ Publish(x) /\ x.seq = ctx
      /\ ctx # 0 /\ ctx' = ctx + 1
      /\ UNCHANGED <<status, deleted, table, late, up, restarts, drops, streaming, backlog, last, wire, client>>
  BY DEF EmitEphemeral
<1>2. x \in Line
  <2>1. NextId \in Nat \ {0} /\ ctx \in Nat
    BY <1>i, NextIdIsNat DEF TypeOK, TableInv
  <2> QED
    BY <1>1, <2>1, BoundsAssumption DEF Line
<1> HIDE DEF x
<1>3. Rows' = Rows /\ MaxSeq' = MaxSeq
  BY <1>1 DEF Rows, MaxSeq
<1>4. Published' = Published \cup {x} /\ Kept' \subseteq Kept /\ x \notin Kept'
  BY <1>1, <1>3 DEF Published, Kept, Reused
<1>5. PipeInv' /\ queue' \in [Clients -> Seq(Line)]
  BY <1>i, <1>1, <1>2, <1>3, <1>4, PipePublished
<1>m. MaxSeq \in Nat /\ ctx \in Nat /\ \A e \in ephemeral : e.seq \in Nat
  BY <1>i, RowFacts DEF TypeOK, TableInv, Line
<1>6. ASSUME NEW n \in MaxSeq + 1 .. ctx PROVE \E f \in ephemeral' : f.seq = n
  <2>1. CASE n = ctx
    BY <1>1, <2>1
  <2>2. CASE n # ctx
    <3>1. n \in MaxSeq + 1 .. ctx - 1
      BY <1>m, <2>2
    <3> QED
      BY <1>i, <1>1, <3>1 DEF TableInv, GapsAreEphemeral
  <2> QED
    BY <2>1, <2>2
<1>7. GapsAreEphemeral'
  <2>1. ASSUME NEW e \in ephemeral', NEW n \in MaxSeq + 1 .. e.seq PROVE \E f \in ephemeral' : f.seq = n
    <3>1. CASE e = x
      BY <1>1, <1>6, <3>1
    <3>2. CASE e # x
      BY <1>i, <1>1, <3>2 DEF TableInv, GapsAreEphemeral
    <3> QED
      BY <3>1, <3>2
  <2>2. ctx' - 1 = ctx
    BY <1>1, <1>m
  <2> QED
    BY <1>3, <1>6, <2>1, <2>2 DEF GapsAreEphemeral
<1>8. CounterCollides'
  <2>1. \A n \in ctx + 1 .. MaxSeq : n \in ctx .. MaxSeq
    BY <1>m
  <2> QED
    BY <1>i, <1>1, <1>3, <2>1 DEF TableInv, CounterCollides, Taken
<1>9. IsFiniteSet(ephemeral') /\ RowsGrow'
  BY <1>i, <1>1, FS_AddElement DEF TableInv, RowsGrow
<1>10. TypeOK'
  BY <1>i, <1>1, <1>2, <1>5 DEF TypeOK, client
<1> QED
  BY <1>5, <1>7, <1>8, <1>9, <1>10 DEF IInv, TableInv

\* A step that is not about page d leaves its pipe alone, or closes its stream.
SameFor(d) ==
    /\ wire'[d] = wire[d] /\ after'[d] = after[d] /\ seen'[d] = seen[d]
    /\ d \in streaming' => d \in streaming /\ last'[d] = last[d] /\ backlog'[d] = backlog[d] /\ queue'[d] = queue[d]

LEMMA SameTable ==
    ASSUME UNCHANGED <<table, ephemeral>>
    PROVE  Rows' = Rows /\ Published' = Published /\ Kept' = Kept /\ MaxSeq' = MaxSeq /\ \A n : Known(n)' <=> Known(n)
<1>1. Rows' = Rows /\ MaxSeq' = MaxSeq
  BY DEF Rows, MaxSeq
<1>2. Published' = Published /\ Kept' = Kept
  BY <1>1 DEF Published, Kept, Reused
<1> QED
  BY <1>1, <1>2 DEF Known

LEMMA OtherPages ==
    ASSUME PipeInv, UNCHANGED <<table, ephemeral>>, NEW d \in Clients, SameFor(d)
    PROVE  PageInv(d)' /\ (d \in streaming' => StreamInv(d)')
<1>1. Rows' = Rows /\ Published' = Published /\ Kept' = Kept
  BY SameTable
<1>2. PageInv(d)'
  BY <1>1 DEF PipeInv, PageInv, Known, SameFor
<1>3. ASSUME d \in streaming' PROVE StreamInv(d)'
  <2>1. StreamInv(d) /\ last'[d] = last[d] /\ backlog'[d] = backlog[d] /\ queue'[d] = queue[d] /\ wire'[d] = wire[d]
          /\ seen'[d] = seen[d]
    BY <1>3 DEF PipeInv, SameFor
  <2> QED
    BY <1>1, <2>1 DEF StreamInv, Known, InWire, InQueue
<1> QED
  BY <1>2, <1>3

LEMMA TableKept ==
    ASSUME TableInv, UNCHANGED <<table, ephemeral>>, ctx' = ctx \/ ctx' = 0
    PROVE  TableInv'
<1>1. Rows' = Rows /\ MaxSeq' = MaxSeq
  BY SameTable
<1> QED
  BY <1>1 DEF TableInv, RowsGrow, GapsAreEphemeral, CounterCollides, Taken

LEMMA RunKeeps == ASSUME IInv, Discard \/ Delete \/ Crash PROVE IInv'
<1>i. TypeOK /\ TableInv /\ PipeInv
  BY DEF IInv
<1>1. UNCHANGED <<table, ephemeral, late, drops, last, wire, client>> /\ (ctx' = ctx \/ ctx' = 0)
  BY DEF Discard, Delete, Crash, stream
<1>2. \A d \in Clients : SameFor(d)
  BY DEF Discard, Delete, Crash, stream, client, SameFor
<1>3. PipeInv'
  BY <1>i, <1>1, <1>2, OtherPages DEF PipeInv
<1>4. TableInv'
  BY <1>i, <1>1, TableKept
<1>5. TypeOK'
  <2>1. CASE Discard \/ Delete
    BY <1>i, <2>1 DEF Discard, Delete, stream, client, TypeOK, Status
  <2>2. CASE Crash
    <3>1. <<>> \in Seq(Line)
      BY EmptySeq
    <3>2. queue' \in [Clients -> Seq(Line)]
      BY <2>2, <3>1 DEF Crash
    <3>3. backlog' \in [Clients -> SUBSET Line] /\ streaming' \subseteq Clients
      BY <2>2 DEF Crash
    <3>5. up' \in BOOLEAN /\ ctx' \in Nat /\ restarts' \in Nat
      <4>1. up' = FALSE /\ ctx' = 0 /\ restarts' = restarts + 1
        BY <2>2 DEF Crash
      <4>2. restarts \in Nat /\ FALSE \in BOOLEAN
        BY <1>i DEF TypeOK
      <4>3. up' \in BOOLEAN
        BY <4>1, <4>2, Zenon
      <4> QED
        BY <4>1, <4>2, <4>3
    <3>4. UNCHANGED <<status, deleted, table, ephemeral, late, drops, last, wire, after, seen, stopped>>
      BY <2>2 DEF Crash, client
    <3> QED
      BY <1>i, <3>2, <3>3, <3>4, <3>5 DEF TypeOK
  <2> QED
    BY <2>1, <2>2
<1> QED
  BY <1>3, <1>4, <1>5 DEF IInv

LEMMA BootKeeps == ASSUME IInv, Boot PROVE IInv'
<1>i. TypeOK /\ TableInv /\ PipeInv /\ MaxSeq \in Nat /\ MaxSeq + 1 \in Nat /\ MaxSeq + 1 > MaxSeq
  BY RowFacts DEF IInv, TypeOK, TableInv
<1>1. CASE Write(MaxSeq + 1) /\ (ctx' = MaxSeq + 2 \/ ctx' = 0) /\ status' \in {"live", "failed"}
  <2>1. ctx' = (MaxSeq + 1) + 1 \/ ctx' = 0
    BY <1>1, <1>i
  <2>2. Sane
    BY <1>1, <1>i DEF Boot, Sane, TypeOK, Status
  <2>3. UNCHANGED <<ephemeral, streaming, backlog, last, wire, client>>
    BY DEF Boot
  <2> QED
    BY <1>1, <1>i, <2>1, <2>2, <2>3, RowWritten
<1>2. CASE UNCHANGED <<status, deleted, table, ctx, queue>>
  <2>1. UNCHANGED <<table, ephemeral, ctx, streaming, backlog, queue, last, wire, after, seen>>
    BY <1>2 DEF Boot, client
  <2>2. \A d \in Clients : SameFor(d)
    BY <2>1 DEF SameFor
  <2>3. PipeInv'
    BY <1>i, <2>1, <2>2, OtherPages DEF PipeInv
  <2>4. TableInv'
    BY <1>i, <2>1, TableKept
  <2>5. TypeOK'
    BY <1>2, <1>i DEF Boot, client, TypeOK
  <2> QED
    BY <2>3, <2>4, <2>5 DEF IInv
<1> QED
  BY <1>1, <1>2 DEF Boot

\* What the steps of one page have in common.
LEMMA PageStep ==
    ASSUME IInv, NEW c \in Clients, UNCHANGED run, TypeOK',
           \A d \in Clients \ {c} : SameFor(d),
           PageInv(c)', c \in streaming' => StreamInv(c)'
    PROVE  IInv'
<1>1. UNCHANGED <<table, ephemeral, ctx>>
  BY DEF run
<1>2. TableInv'
  BY <1>1, TableKept DEF IInv
<1>3. PipeInv'
  BY <1>1, OtherPages DEF IInv, PipeInv
<1> QED
  BY <1>2, <1>3 DEF IInv

LEMMA OpenKeeps == ASSUME IInv, NEW c \in Clients, Open(c) PROVE IInv'
<1>i. TypeOK /\ TableInv /\ PipeInv /\ PageInv(c)
  BY DEF IInv, PipeInv
<1>1. /\ wire[c] = <<>> /\ streaming' = streaming \cup {c} /\ UNCHANGED <<run, up, restarts, drops, wire, client>>
      /\ \A d \in Clients : /\ backlog'[d] = IF d = c THEN readEvents(after[c]) ELSE backlog[d]
                            /\ queue'[d] = IF d = c THEN <<>> ELSE queue[d]
                            /\ last'[d] = IF d = c THEN after[c] ELSE last[d]
  BY <1>i DEF Open, TypeOK
<1>2. UNCHANGED <<table, ephemeral, after, seen, wire>>
  BY <1>1 DEF run, client
<1>3. Rows' = Rows /\ Published' = Published /\ Kept' = Kept /\ \A n : Known(n)' <=> Known(n)
  BY <1>2, SameTable
<1>4. \A d \in Clients \ {c} : SameFor(d)
  BY <1>1, <1>2 DEF SameFor
<1>5. PageInv(c)'
  BY <1>i, <1>2, <1>3 DEF PageInv, Known
<1>6. StreamInv(c)'
  <2>1. Len(wire[c]) = 0 /\ Len(queue'[c]) = 0 /\ after[c] \in Nat
    BY <1>i, <1>1 DEF TypeOK
  <2>2. backlog'[c] = {l \in Rows : l.seq > after[c]} /\ last'[c] = after[c]
    BY <1>1 DEF readEvents
  <2>3. \A l \in Kept : l \in Rows
    BY DEF Kept
  <2>4. Known(last[c])' /\ backlog'[c] \subseteq Rows'
    BY <1>i, <1>2, <1>3, <2>2 DEF PageInv, Known
  <2>5. \A l \in Kept' : l.seq <= last'[c] => l.id \in seen'[c]
    BY <1>i, <1>2, <1>3, <2>2 DEF PageInv
  <2>6. \A l \in Kept' : l.seq > last'[c] => l \in backlog'[c]
    BY <1>3, <2>2, <2>3
  <2>7. \A l \in Kept' : last'[c] < l.seq => l \in backlog'[c]
    <3>1. \A l \in Rows : l.seq \in Nat
      BY <1>i, PublishedTypes DEF Published
    <3> QED
      BY <1>3, <2>1, <2>2, <2>3, <3>1
  <2>8. \A i \in 1..Len(wire'[c]) : FALSE
    BY <1>2, <2>1
  <2>9. \A i \in 1..Len(queue'[c]) : FALSE
    BY <2>1
  <2> QED
    BY <2>4, <2>5, <2>6, <2>7, <2>8, <2>9 DEF StreamInv
<1>7. TypeOK'
  <2>1. <<>> \in Seq(Line) /\ readEvents(after[c]) \subseteq Line
    BY <1>i, EmptySeq, PublishedTypes DEF readEvents, Published
  <2>2. /\ backlog' = [backlog EXCEPT ![c] = readEvents(after[c])] /\ queue' = [queue EXCEPT ![c] = <<>>]
        /\ last' = [last EXCEPT ![c] = after[c]]
    BY DEF Open
  <2> QED
    BY <1>i, <1>1, <2>1, <2>2 DEF TypeOK, run, client
<1> QED
  BY <1>1, <1>4, <1>5, <1>6, <1>7, PageStep

\* A line that is the next in the pipe, sent once or passed over.
LEMMA LineSent ==
    ASSUME IInv, NEW c \in Clients, c \in streaming, NEW l \in Published, SendOnce(c, l),
           UNCHANGED <<table, ephemeral, after, seen>>,
           \A m \in Kept : last[c] < m.seq /\ m.seq <= l.seq => m = l,
           backlog'[c] \subseteq Rows, \A i \in 1..Len(queue'[c]) : queue'[c][i] \in Published,
           \A m \in Kept : m.seq > last[c] /\ m # l => m \in backlog'[c] \/ \E k \in 1..Len(queue'[c]) : queue'[c][k] = m,
           \A b \in backlog'[c] : \A m \in Kept : last[c] < m.seq /\ m.seq <= b.seq /\ m # l => m \in backlog'[c],
           \A i \in 1..Len(queue'[c]) : \A m \in Kept :
              last[c] < m.seq /\ m.seq <= queue'[c][i].seq /\ m # l => m \in backlog'[c] \/ \E k \in 1..i : queue'[c][k] = m
    PROVE  PageInv(c)' /\ StreamInv(c)' /\ last'[c] \in Nat
<1>i. TypeOK /\ PageInv(c) /\ StreamInv(c)
  BY DEF IInv, PipeInv
<1>1. Rows' = Rows /\ Published' = Published /\ Kept' = Kept /\ \A n : Known(n)' <=> Known(n)
  BY SameTable
<1>2. l.seq \in Nat /\ last[c] \in Nat /\ l \in Line /\ \A m \in Kept : m.seq \in Nat
  BY <1>i, PublishedTypes DEF TypeOK, Kept, Published
<1>w. /\ \A i \in 1..Len(wire[c]) : wire[c][i] \in Published \cup {EndLine}
      /\ \A i \in 1..Len(wire[c]) : \A m \in Kept :
            m.seq <= wire[c][i].seq => m.id \in seen[c] \/ \E k \in 1..i : wire[c][k] = m
      /\ \A i \in 1..Len(wire[c]) : wire[c][i] # EndLine
      /\ \A m \in Kept : m.seq <= last[c] => m.id \in seen[c] \/ \E k \in 1..Len(wire[c]) : wire[c][k] = m
      /\ Known(after[c]) /\ \A m \in Kept : m.seq <= after[c] => m.id \in seen[c]
      /\ Known(last[c])
  BY <1>i DEF PageInv, StreamInv, InWire
<1>3. CASE l.seq <= last[c]
  <2>1. last'[c] = last[c] /\ wire'[c] = wire[c]
    BY <1>3 DEF SendOnce
  <2>2. PageInv(c)'
    BY <1>w, <1>1, <2>1 DEF PageInv, Known
  <2>3. \A m \in Kept : m.seq > last[c] => m # l
    BY <1>2, <1>3
  <2>n. \A m \in Kept : last[c] < m.seq <=> m.seq > last[c]
    BY <1>2
  <2>4. StreamInv(c)'
    <3>1. Known(last[c])' /\ backlog'[c] \subseteq Rows' /\ \A i \in 1..Len(queue'[c]) : queue'[c][i] \in Published'
      BY <1>w, <1>1, <2>1 DEF Known
    <3>2. /\ \A i \in 1..Len(wire'[c]) : wire'[c][i] # EndLine
          /\ \A m \in Kept' : m.seq <= last'[c] => m.id \in seen'[c] \/ InWire(c, m)'
      BY <1>w, <1>1, <2>1 DEF InWire
    <3>3. \A m \in Kept' : m.seq > last'[c] => m \in backlog'[c] \/ InQueue(c, m)'
      BY <1>1, <2>1, <2>3 DEF InQueue
    <3>4. \A b \in backlog'[c] : \A m \in Kept' : last'[c] < m.seq /\ m.seq <= b.seq => m \in backlog'[c]
      BY <1>1, <2>1, <2>3, <2>n
    <3>5. \A i \in 1..Len(queue'[c]) : \A m \in Kept' :
              last'[c] < m.seq /\ m.seq <= queue'[c][i].seq => m \in backlog'[c] \/ \E k \in 1..i : queue'[c][k] = m
      BY <1>1, <2>1, <2>3, <2>n
    <3> QED
      BY <3>1, <3>2, <3>3, <3>4, <3>5 DEF StreamInv
  <2> QED
    BY <1>2, <2>1, <2>2, <2>4
<1>4. CASE ~(l.seq <= last[c])
  <2> DEFINE w == wire[c]
             v == wire'[c]
  <2>1. last'[c] = l.seq /\ v = Append(w, l) /\ w \in Seq(Line \cup {EndLine}) /\ l.seq > last[c]
    BY <1>i, <1>2, <1>4 DEF SendOnce, TypeOK
  <2>2. /\ Len(v) = Len(w) + 1 /\ Len(w) \in Nat /\ v[Len(w) + 1] = l
        /\ \A i \in 1..Len(w) : v[i] = w[i]
    BY <1>2, <2>1
  <2>3. \A i \in 1..Len(v) : i \in 1..Len(w) \/ i = Len(w) + 1
    BY <2>2
  <2>4. /\ \A i \in 1..Len(w) : w[i] \in Published \cup {EndLine}
        /\ \A i \in 1..Len(w) : \A m \in Kept : m.seq <= w[i].seq => m.id \in seen[c] \/ \E k \in 1..i : w[k] = m
        /\ \A i \in 1..Len(w) : w[i] # EndLine
        /\ \A m \in Kept : m.seq <= last[c] => m.id \in seen[c] \/ \E k \in 1..Len(w) : w[k] = m
    BY <1>w
  <2>e. l # EndLine
    <3>1. EndLine.id = 0 /\ l.id \in 1..MaxLines
      BY <1>2 DEF EndLine, Line
    <3> QED
      BY <3>1
  <2> HIDE DEF w, v
  <2>5. ASSUME NEW m \in Kept, m.seq <= l.seq PROVE m.id \in seen[c] \/ \E k \in 1..Len(v) : v[k] = m
    <3>1. CASE m.seq <= last[c]
      BY <2>2, <2>4, <3>1
    <3>2. CASE ~(m.seq <= last[c])
      <4>1. m = l
        BY <1>2, <2>5, <3>2
      <4> QED
        BY <2>2, <4>1
    <3> QED
      BY <3>1, <3>2
  <2>6. PageInv(c)'
    <3>1. \A i \in 1..Len(v) : v[i] \in Published' \cup {EndLine}
      BY <1>1, <2>2, <2>3, <2>4
    <3>2. ASSUME NEW i \in 1..Len(v), NEW m \in Kept, m.seq <= v[i].seq
          PROVE  m.id \in seen[c] \/ \E k \in 1..i : v[k] = m
      <4>1. CASE i = Len(w) + 1
        BY <2>2, <2>5, <3>2, <4>1
      <4>2. CASE i \in 1..Len(w)
        <5>1. m.id \in seen[c] \/ \E k \in 1..i : w[k] = m
          BY <2>2, <2>4, <3>2, <4>2
        <5> QED
          BY <2>2, <4>2, <5>1
      <4> QED
        BY <2>3, <4>1, <4>2
    <3>3. Known(after[c])' /\ \A m \in Kept' : m.seq <= after'[c] => m.id \in seen'[c]
      BY <1>w, <1>1 DEF Known
    <3> QED
      BY <1>1, <3>1, <3>2, <3>3 DEF PageInv, v
  <2>7. \A m \in Kept : m.seq > l.seq => m # l /\ m.seq > last[c] /\ last[c] < m.seq
    BY <1>2, <2>1
  <2>n. \A m \in Kept : l.seq < m.seq <=> m.seq > l.seq
    BY <1>2
  <2>8. StreamInv(c)'
    <3>1. Known(last[c])' /\ backlog'[c] \subseteq Rows' /\ \A i \in 1..Len(queue'[c]) : queue'[c][i] \in Published'
      BY <1>1, <2>1 DEF Known
    <3>2. \A i \in 1..Len(v) : v[i] # EndLine
      BY <2>2, <2>3, <2>4, <2>e
    <3>3. \A m \in Kept' : m.seq <= last'[c] => m.id \in seen'[c] \/ \E k \in 1..Len(v) : v[k] = m
      BY <1>1, <2>1, <2>5
    <3>4. \A m \in Kept' : m.seq > last'[c] => m \in backlog'[c] \/ InQueue(c, m)'
      BY <1>1, <2>1, <2>7 DEF InQueue
    <3>5. \A b \in backlog'[c] : \A m \in Kept' : last'[c] < m.seq /\ m.seq <= b.seq => m \in backlog'[c]
      BY <1>1, <2>1, <2>7, <2>n
    <3>6. \A i \in 1..Len(queue'[c]) : \A m \in Kept' :
              last'[c] < m.seq /\ m.seq <= queue'[c][i].seq => m \in backlog'[c] \/ \E k \in 1..i : queue'[c][k] = m
      BY <1>1, <2>1, <2>7, <2>n
    <3> QED
      BY <3>1, <3>2, <3>3, <3>4, <3>5, <3>6 DEF StreamInv, InWire, v
  <2> QED
    BY <1>2, <2>1, <2>6, <2>8
<1> QED
  BY <1>3, <1>4

LEMMA SendTypes ==
    ASSUME TypeOK, NEW c \in Clients, NEW l \in Line, SendOnce(c, l)
    PROVE  /\ last' \in [Clients -> Nat] /\ wire' \in [Clients -> Seq(Line \cup {EndLine})]
           /\ \A d \in Clients \ {c} : last'[d] = last[d] /\ wire'[d] = wire[d]
<1>1. l.seq \in Nat /\ l \in Line \cup {EndLine}
  BY DEF Line
<1>2. CASE UNCHANGED <<last, wire>>
  BY <1>2 DEF TypeOK
<1>3. CASE last' = [last EXCEPT ![c] = l.seq] /\ wire' = [wire EXCEPT ![c] = Append(wire[c], l)]
  <2>1. wire[c] \in Seq(Line \cup {EndLine}) /\ wire \in [Clients -> Seq(Line \cup {EndLine})] /\ last \in [Clients -> Nat]
    BY DEF TypeOK
  <2>2. Append(wire[c], l) \in Seq(Line \cup {EndLine})
    BY <1>1, <2>1
  <2> QED
    BY <1>1, <1>3, <2>1, <2>2
<1> QED
  BY <1>2, <1>3 DEF SendOnce

LEMMA ReplayKeeps == ASSUME IInv, NEW c \in Clients, Replay(c) PROVE IInv'
<1>i. TypeOK /\ TableInv /\ PipeInv /\ c \in streaming /\ StreamInv(c)
  BY DEF IInv, PipeInv, Replay
<1>1. PICK l \in backlog[c] : /\ \A m \in backlog[c] : l.seq <= m.seq
                              /\ SendOnce(c, l)
                              /\ backlog' = [backlog EXCEPT ![c] = @ \ {l}]
  BY DEF Replay
<1>2. UNCHANGED <<run, up, restarts, drops, streaming, queue, client, table, ephemeral, after, seen>>
  BY DEF Replay, run, client
<1>3. backlog'[c] = backlog[c] \ {l} /\ \A d \in Clients \ {c} : backlog'[d] = backlog[d]
  BY <1>1, <1>i DEF TypeOK
<1>4. l \in Rows /\ l \in Published /\ l \in Line /\ backlog[c] \subseteq Rows
  BY <1>i, PublishedTypes DEF StreamInv, Published
<1>5. /\ last' \in [Clients -> Nat] /\ wire' \in [Clients -> Seq(Line \cup {EndLine})]
      /\ \A d \in Clients \ {c} : last'[d] = last[d] /\ wire'[d] = wire[d]
  BY <1>i, <1>1, <1>4, SendTypes
<1>6. \A m \in Kept : last[c] < m.seq /\ m.seq <= l.seq => m = l
  <2> SUFFICES ASSUME NEW m \in Kept, last[c] < m.seq, m.seq <= l.seq PROVE m = l
    OBVIOUS
  <2>1. m \in backlog[c] /\ m \in Rows
    BY <1>i DEF StreamInv, Kept
  <2>2. m.seq \in Nat /\ l.seq \in Nat /\ l.seq <= m.seq
    BY <1>i, <1>1, <1>4, <2>1, RowFacts DEF TypeOK, TableInv
  <2> QED
    BY <1>i, <1>4, <2>1, <2>2, RowFacts DEF TypeOK, TableInv
<1>7. PageInv(c)' /\ StreamInv(c)'
  <2>1. backlog'[c] \subseteq Rows /\ \A i \in 1..Len(queue'[c]) : queue'[c][i] \in Published
    BY <1>i, <1>2, <1>3, <1>4 DEF StreamInv
  <2>2. \A m \in Kept : m.seq > last[c] /\ m # l => m \in backlog'[c] \/ \E k \in 1..Len(queue'[c]) : queue'[c][k] = m
    BY <1>i, <1>2, <1>3 DEF StreamInv, InQueue
  <2>3. \A b \in backlog'[c] : \A m \in Kept : last[c] < m.seq /\ m.seq <= b.seq /\ m # l => m \in backlog'[c]
    BY <1>i, <1>3 DEF StreamInv
  <2>4. \A i \in 1..Len(queue'[c]) : \A m \in Kept :
              last[c] < m.seq /\ m.seq <= queue'[c][i].seq /\ m # l => m \in backlog'[c] \/ \E k \in 1..i : queue'[c][k] = m
    BY <1>i, <1>2, <1>3 DEF StreamInv
  <2> QED
    BY <1>i, <1>1, <1>2, <1>4, <1>6, <2>1, <2>2, <2>3, <2>4, LineSent
<1>8. \A d \in Clients \ {c} : SameFor(d)
  BY <1>2, <1>3, <1>5 DEF SameFor
<1>9. TypeOK'
  <2>1. backlog' \in [Clients -> SUBSET Line]
    BY <1>i, <1>1 DEF TypeOK
  <2> QED
    BY <1>i, <1>2, <1>5, <2>1 DEF TypeOK, run, client
<1> QED
  BY <1>2, <1>7, <1>8, <1>9, PageStep

LEMMA TailFacts ==
    ASSUME NEW S, NEW s \in Seq(S), s # <<>>, NEW t, t = Tail(s), NEW x, x = Head(s)
    PROVE  /\ Len(s) \in Nat /\ Len(t) = Len(s) - 1 /\ x = s[1] /\ 1 \in 1..Len(s)
           /\ \A i \in 1..Len(t) : t[i] = s[i + 1] /\ i + 1 \in 1..Len(s)
OBVIOUS

LEMMA FollowKeeps == ASSUME IInv, NEW c \in Clients, Follow(c) PROVE IInv'
<1>i. TypeOK /\ TableInv /\ PipeInv /\ c \in streaming /\ StreamInv(c) /\ backlog[c] = {}
  BY DEF IInv, PipeInv, Follow
<1> DEFINE p == queue[c]
           q == queue'[c]
           l == Head(queue[c])
<1>1. /\ SendOnce(c, l) /\ p # <<>> /\ queue' = [queue EXCEPT ![c] = Tail(p)]
      /\ UNCHANGED <<run, up, restarts, drops, streaming, backlog, client, table, ephemeral, after, seen>>
  BY DEF Follow, run, client
<1>2. p \in Seq(Line) /\ q = Tail(p) /\ Tail(p) \in Seq(Line) /\ \A d \in Clients \ {c} : queue'[d] = queue[d]
  BY <1>i, <1>1 DEF TypeOK
<1>h. l = Head(p)
  OBVIOUS
<1>d. /\ \A i \in 1..Len(p) : p[i] \in Published
      /\ \A m \in Kept : m.seq > last[c] => \E k \in 1..Len(p) : p[k] = m
      /\ \A i \in 1..Len(p) : \A m \in Kept : last[c] < m.seq /\ m.seq <= p[i].seq => \E k \in 1..i : p[k] = m
  BY <1>i DEF StreamInv, InQueue
<1>q. queue' \in [Clients -> Seq(Line)]
  BY <1>i, <1>1, <1>2 DEF TypeOK
<1> HIDE DEF p, q, l
<1>3. /\ Len(p) \in Nat /\ Len(q) = Len(p) - 1 /\ l = p[1] /\ 1 \in 1..Len(p)
      /\ \A i \in 1..Len(q) : q[i] = p[i + 1] /\ i + 1 \in 1..Len(p)
  BY <1>1, <1>2, <1>h, TailFacts
<1>4. l \in Published /\ l \in Line
  BY <1>i, <1>3, <1>d, PublishedTypes
<1>5. /\ last' \in [Clients -> Nat] /\ wire' \in [Clients -> Seq(Line \cup {EndLine})]
      /\ \A d \in Clients \ {c} : last'[d] = last[d] /\ wire'[d] = wire[d]
  BY <1>i, <1>1, <1>4, SendTypes
<1>6. \A m \in Kept : last[c] < m.seq /\ m.seq <= l.seq => m = l
  BY <1>3, <1>d
<1>7. \A k \in 1..Len(p) : k # 1 => k - 1 \in 1..Len(q) /\ q[k - 1] = p[k]
  <2> SUFFICES ASSUME NEW k \in 1..Len(p), k # 1 PROVE k - 1 \in 1..Len(q) /\ q[k - 1] = p[k]
    OBVIOUS
  <2>1. k - 1 \in 1..Len(q) /\ (k - 1) + 1 = k
    BY <1>3
  <2> QED
    BY <1>3, <2>1
<1>8. PageInv(c)' /\ StreamInv(c)'
  <2>1. backlog'[c] \subseteq Rows /\ \A i \in 1..Len(q) : q[i] \in Published
    BY <1>i, <1>1, <1>3, <1>d
  <2>2. ASSUME NEW m \in Kept, m.seq > last[c], m # l PROVE \E k \in 1..Len(q) : q[k] = m
    <3>1. PICK k \in 1..Len(p) : p[k] = m
      BY <1>d, <2>2
    <3> QED
      BY <1>3, <1>7, <2>2, <3>1
  <2>3. \A b \in backlog'[c] : \A m \in Kept : last[c] < m.seq /\ m.seq <= b.seq /\ m # l => m \in backlog'[c]
    BY <1>i, <1>1
  <2>4. ASSUME NEW i \in 1..Len(q), NEW m \in Kept, last[c] < m.seq, m.seq <= q[i].seq, m # l
        PROVE  \E k \in 1..i : q[k] = m
    <3>1. i + 1 \in 1..Len(p) /\ m.seq <= p[i + 1].seq
      BY <1>3, <2>4
    <3>2. PICK k \in 1..(i + 1) : p[k] = m
      BY <1>d, <2>4, <3>1
    <3>3. k # 1 /\ k \in 1..Len(p) /\ k - 1 \in 1..i
      BY <1>3, <2>4, <3>1, <3>2
    <3> QED
      BY <1>7, <3>2, <3>3
  <2>5. /\ \A i \in 1..Len(queue'[c]) : queue'[c][i] \in Published
        /\ \A m \in Kept : m.seq > last[c] /\ m # l => m \in backlog'[c] \/ \E k \in 1..Len(queue'[c]) : queue'[c][k] = m
        /\ \A i \in 1..Len(queue'[c]) : \A m \in Kept :
              last[c] < m.seq /\ m.seq <= queue'[c][i].seq /\ m # l => m \in backlog'[c] \/ \E k \in 1..i : queue'[c][k] = m
    BY <2>1, <2>2, <2>4 DEF q
  <2> QED
    BY <1>i, <1>1, <1>4, <1>6, <2>1, <2>3, <2>5, LineSent
<1>9. \A d \in Clients \ {c} : SameFor(d)
  BY <1>1, <1>2, <1>5 DEF SameFor
<1>10. TypeOK'
  BY <1>i, <1>1, <1>5, <1>q DEF TypeOK, run, client
<1> QED
  BY <1>1, <1>8, <1>9, <1>10, PageStep

LEMMA EndStreamKeeps == ASSUME IInv, NEW c \in Clients, EndStream(c) PROVE IInv'
<1>i. TypeOK /\ TableInv /\ PipeInv /\ PageInv(c)
  BY DEF IInv, PipeInv
<1> DEFINE w == wire[c]
           v == wire'[c]
<1>1. /\ wire' = [wire EXCEPT ![c] = Append(w, EndLine)] /\ streaming' = streaming \ {c}
      /\ UNCHANGED <<run, up, restarts, drops, backlog, queue, last, client, table, ephemeral, after, seen>>
  BY DEF EndStream, run, client
<1>2. w \in Seq(Line \cup {EndLine}) /\ v = Append(w, EndLine) /\ \A d \in Clients \ {c} : wire'[d] = wire[d]
  BY <1>i, <1>1 DEF TypeOK
<1>3. Append(w, EndLine) \in Seq(Line \cup {EndLine})
  BY <1>2
<1>4. /\ Len(v) = Len(w) + 1 /\ Len(w) \in Nat /\ v[Len(w) + 1] = EndLine /\ \A i \in 1..Len(w) : v[i] = w[i]
      /\ \A i \in 1..Len(v) : i \in 1..Len(w) \/ i = Len(w) + 1
  BY <1>2
<1>5. Rows' = Rows /\ Published' = Published /\ Kept' = Kept
  BY <1>1, SameTable
<1>6. PageInv(c)'
  <2>1. /\ \A i \in 1..Len(w) : w[i] \in Published \cup {EndLine}
        /\ \A i \in 1..Len(w) : \A m \in Kept : m.seq <= w[i].seq => m.id \in seen[c] \/ \E k \in 1..i : w[k] = m
    BY <1>i DEF PageInv
  <2>2. EndLine.seq = 0 /\ \A m \in Kept : m.seq \in Nat /\ m.seq > 0
    BY <1>i, RowFacts DEF EndLine, Kept, TypeOK, TableInv
  <2> HIDE DEF w, v
  <2>3. \A i \in 1..Len(v) : v[i] \in Published' \cup {EndLine}
    BY <1>4, <1>5, <2>1
  <2>4. ASSUME NEW i \in 1..Len(v), NEW m \in Kept, m.seq <= v[i].seq
        PROVE  m.id \in seen[c] \/ \E k \in 1..i : v[k] = m
    <3>1. i \in 1..Len(w)
      BY <1>4, <2>2, <2>4
    <3>2. m.id \in seen[c] \/ \E k \in 1..i : w[k] = m
      BY <1>4, <2>1, <2>4, <3>1
    <3> QED
      BY <1>4, <3>1, <3>2
  <2>5. Known(after[c])' /\ \A m \in Kept' : m.seq <= after'[c] => m.id \in seen'[c]
    BY <1>i, <1>1, <1>5 DEF PageInv, Known
  <2> QED
    BY <1>1, <1>5, <2>3, <2>4, <2>5 DEF PageInv, v
<1>7. \A d \in Clients \ {c} : SameFor(d)
  BY <1>1, <1>2 DEF SameFor
<1>8. TypeOK'
  BY <1>i, <1>1, <1>3 DEF TypeOK, run, client
<1> QED
  BY <1>1, <1>6, <1>7, <1>8, PageStep

LEMMA DropKeeps == ASSUME IInv, NEW c \in Clients, Drop(c) PROVE IInv'
<1>i. TypeOK /\ PageInv(c)
  BY DEF IInv, PipeInv
<1>1. /\ wire' = [wire EXCEPT ![c] = <<>>] /\ streaming' = streaming \ {c}
      /\ backlog' = [backlog EXCEPT ![c] = {}] /\ queue' = [queue EXCEPT ![c] = <<>>]
      /\ drops' = drops + 1
      /\ UNCHANGED <<run, up, restarts, last, client, table, ephemeral, after, seen>>
  BY DEF Drop, run, client
<1>2. \A d \in Clients \ {c} : SameFor(d)
  BY <1>i, <1>1 DEF SameFor, TypeOK
<1>3. PageInv(c)'
  <2>1. Rows' = Rows /\ Published' = Published /\ Kept' = Kept
    BY <1>1, SameTable
  <2>2. \A i \in 1..Len(wire'[c]) : FALSE
    BY <1>i, <1>1 DEF TypeOK
  <2>3. Known(after[c])' /\ \A m \in Kept' : m.seq <= after'[c] => m.id \in seen'[c]
    BY <1>i, <1>1, <2>1 DEF PageInv, Known
  <2> QED
    BY <2>2, <2>3 DEF PageInv
<1>4. TypeOK'
  <2>1. <<>> \in Seq(Line) /\ <<>> \in Seq(Line \cup {EndLine})
    BY EmptySeq
  <2>2. wire' \in [Clients -> Seq(Line \cup {EndLine})] /\ queue' \in [Clients -> Seq(Line)]
    BY <1>i, <1>1, <2>1 DEF TypeOK
  <2>3. backlog' \in [Clients -> SUBSET Line] /\ drops' \in Nat /\ streaming' \subseteq Clients
    BY <1>i, <1>1 DEF TypeOK
  <2> QED
    BY <1>i, <1>1, <2>2, <2>3 DEF TypeOK, run, client
<1> QED
  BY <1>1, <1>2, <1>3, <1>4, PageStep

LEMMA ReceiveKeeps == ASSUME IInv, NEW c \in Clients, Receive(c) PROVE IInv'
<1>i. TypeOK /\ TableInv /\ PipeInv /\ PageInv(c)
  BY DEF IInv, PipeInv
<1> DEFINE w == wire[c]
           v == wire'[c]
           x == Head(wire[c])
<1>1. /\ w # <<>> /\ wire' = [wire EXCEPT ![c] = Tail(w)]
      /\ UNCHANGED <<run, up, restarts, drops, stream, table, ephemeral, streaming, backlog, queue, last>>
  BY DEF Receive, run, stream
<1>2. w \in Seq(Line \cup {EndLine}) /\ Tail(w) \in Seq(Line \cup {EndLine}) /\ v = Tail(w)
        /\ \A d \in Clients \ {c} : wire'[d] = wire[d]
  BY <1>i, <1>1 DEF TypeOK
<1>h. x = Head(w)
  OBVIOUS
<1>4. \/ x = EndLine /\ stopped' = stopped \cup {c} /\ UNCHANGED <<after, seen>>
      \/ x # EndLine /\ x.seq <= after[c] /\ UNCHANGED <<after, seen, stopped>>
      \/ /\ x # EndLine /\ ~(x.seq <= after[c]) /\ after' = [after EXCEPT ![c] = x.seq]
         /\ seen' = [seen EXCEPT ![c] = @ \cup {x.id}] /\ UNCHANGED stopped
  BY DEF Receive, client
<1>d. /\ \A i \in 1..Len(w) : w[i] \in Published \cup {EndLine}
      /\ \A i \in 1..Len(w) : \A m \in Kept : m.seq <= w[i].seq => m.id \in seen[c] \/ \E k \in 1..i : w[k] = m
      /\ Known(after[c]) /\ \A m \in Kept : m.seq <= after[c] => m.id \in seen[c]
  BY <1>i DEF PageInv
<1>s. c \in streaming => StreamInv(c) /\ \A m \in Kept : m.seq <= last[c] => m.id \in seen[c] \/ \E k \in 1..Len(w) : w[k] = m
  BY <1>i DEF PipeInv, StreamInv, InWire
<1>e. c \in streaming => \A i \in 1..Len(w) : w[i] # EndLine
  BY <1>i DEF PipeInv, StreamInv
<1>t. wire' \in [Clients -> Seq(Line \cup {EndLine})]
  BY <1>i, <1>1, <1>2 DEF TypeOK
<1> HIDE DEF w, v, x
<1>3. /\ Len(w) \in Nat /\ Len(v) = Len(w) - 1 /\ x = w[1] /\ 1 \in 1..Len(w)
      /\ \A i \in 1..Len(v) : v[i] = w[i + 1] /\ i + 1 \in 1..Len(w)
  BY <1>1, <1>2, <1>h, TailFacts
<1>5. Rows' = Rows /\ Published' = Published /\ Kept' = Kept
  BY <1>1, SameTable
<1>6. \A k \in 1..Len(w) : k # 1 => k - 1 \in 1..Len(v) /\ v[k - 1] = w[k]
  <2> SUFFICES ASSUME NEW k \in 1..Len(w), k # 1 PROVE k - 1 \in 1..Len(v) /\ v[k - 1] = w[k]
    OBVIOUS
  <2>1. k - 1 \in 1..Len(v) /\ (k - 1) + 1 = k
    BY <1>3
  <2> QED
    BY <1>3, <2>1
<1>n. /\ after[c] \in Nat /\ EndLine.seq = 0 /\ EndLine.id = 0
      /\ \A m \in Kept : m.seq \in Nat /\ m.seq > 0
      /\ x # EndLine => x \in Published /\ x \in Line /\ x.seq \in Nat /\ x.id \in 1..MaxLines
  <2>1. \A m \in Kept : m.seq \in Nat /\ m.seq > 0
    BY <1>i, RowFacts DEF Kept, TypeOK, TableInv
  <2>2. x # EndLine => x \in Published /\ x \in Line
    BY <1>i, <1>3, <1>d, PublishedTypes
  <2>3. x # EndLine => x.seq \in Nat /\ x.id \in 1..MaxLines
    BY <2>2 DEF Line
  <2>4. after[c] \in Nat /\ EndLine.seq = 0 /\ EndLine.id = 0
    BY <1>i DEF TypeOK, EndLine
  <2> QED
    BY <2>1, <2>2, <2>3, <2>4
<1>7. /\ seen[c] \subseteq seen'[c] /\ Known(after[c])' /\ after'[c] \in Nat
      /\ \A m \in Kept : m.seq <= after'[c] => m.id \in seen'[c]
      /\ \A m \in Kept : m = x => m.id \in seen'[c]
      /\ \A d \in Clients \ {c} : after'[d] = after[d] /\ seen'[d] = seen[d]
      /\ after' \in [Clients -> Nat] /\ seen' \in [Clients -> SUBSET (1..MaxLines)] /\ stopped' \subseteq Clients
  <2>t. after \in [Clients -> Nat] /\ seen \in [Clients -> SUBSET (1..MaxLines)] /\ stopped \subseteq Clients
    BY <1>i DEF TypeOK
  <2>1. CASE x = EndLine /\ stopped' = stopped \cup {c} /\ UNCHANGED <<after, seen>>
    BY <1>5, <1>d, <1>n, <2>1, <2>t DEF Known
  <2>2. CASE x # EndLine /\ x.seq <= after[c] /\ UNCHANGED <<after, seen, stopped>>
    BY <1>5, <1>d, <1>n, <2>2, <2>t DEF Known
  <2>3. CASE /\ x # EndLine /\ ~(x.seq <= after[c]) /\ after' = [after EXCEPT ![c] = x.seq]
             /\ seen' = [seen EXCEPT ![c] = @ \cup {x.id}] /\ UNCHANGED stopped
    <3>1. after'[c] = x.seq /\ seen'[c] = seen[c] \cup {x.id}
      BY <2>3, <2>t
    <3>2. \A m \in Kept : m.seq <= x.seq => m.id \in seen[c] \/ m = x
      BY <1>3, <1>d
    <3>3. Known(after[c])'
      BY <1>5, <1>n, <2>3, <3>1 DEF Known
    <3>4. after' \in [Clients -> Nat] /\ seen' \in [Clients -> SUBSET (1..MaxLines)]
            /\ \A d \in Clients \ {c} : after'[d] = after[d] /\ seen'[d] = seen[d]
      BY <1>n, <2>3, <2>t
    <3> QED
      BY <1>n, <2>3, <2>t, <3>1, <3>2, <3>3, <3>4
  <2> QED
    BY <1>4, <2>1, <2>2, <2>3
<1>8. ASSUME NEW i \in 1..Len(w), NEW m \in Kept, m.id \in seen[c] \/ \E k \in 1..i : w[k] = m
      PROVE  m.id \in seen'[c] \/ \E k \in 1..(i - 1) : v[k] = m
  <2>1. CASE m.id \in seen[c]
    BY <1>7, <2>1
  <2>2. CASE \E k \in 1..i : w[k] = m
    <3>1. PICK k \in 1..i : w[k] = m
      BY <2>2
    <3>2. k = 1 => m.id \in seen'[c]
      BY <1>3, <1>7, <3>1
    <3>3. k # 1 => k - 1 \in 1..(i - 1) /\ k \in 1..Len(w)
      BY <1>3
    <3> QED
      BY <1>6, <3>1, <3>2, <3>3
  <2> QED
    BY <1>8, <2>1, <2>2
<1>9. PageInv(c)'
  <2>1. \A i \in 1..Len(v) : v[i] \in Published' \cup {EndLine}
    BY <1>3, <1>5, <1>d
  <2>2. ASSUME NEW i \in 1..Len(v), NEW m \in Kept, m.seq <= v[i].seq
        PROVE  m.id \in seen'[c] \/ \E k \in 1..i : v[k] = m
    <3>1. i + 1 \in 1..Len(w) /\ m.seq <= w[i + 1].seq /\ (i + 1) - 1 = i
      BY <1>3, <2>2
    <3>2. m.id \in seen[c] \/ \E k \in 1..(i + 1) : w[k] = m
      BY <1>d, <3>1
    <3>3. m.id \in seen'[c] \/ \E k \in 1..((i + 1) - 1) : v[k] = m
      BY <1>8, <3>1, <3>2
    <3> QED
      BY <3>1, <3>3
  <2> QED
    BY <1>5, <1>7, <2>1, <2>2 DEF PageInv, v
<1>10. ASSUME c \in streaming' PROVE StreamInv(c)'
  <2>0. c \in streaming /\ StreamInv(c) /\ last'[c] = last[c] /\ backlog'[c] = backlog[c] /\ queue'[c] = queue[c]
    BY <1>1, <1>10, <1>s
  <2>1. \A i \in 1..Len(v) : v[i] # EndLine
    BY <1>3, <1>e, <2>0
  <2>2. \A m \in Kept : m.seq <= last[c] => m.id \in seen'[c] \/ \E k \in 1..Len(v) : v[k] = m
    <3> SUFFICES ASSUME NEW m \in Kept, m.seq <= last[c] PROVE m.id \in seen'[c] \/ \E k \in 1..Len(v) : v[k] = m
      OBVIOUS
    <3>1. m.id \in seen[c] \/ \E k \in 1..Len(w) : w[k] = m
      BY <1>s, <2>0
    <3>2. Len(w) \in 1..Len(w) /\ Len(v) = Len(w) - 1
      BY <1>3
    <3> QED
      BY <1>8, <3>1, <3>2
  <2>3. Known(last[c])' /\ backlog'[c] \subseteq Rows' /\ \A i \in 1..Len(queue'[c]) : queue'[c][i] \in Published'
    BY <1>5, <2>0 DEF StreamInv, Known
  <2>4. /\ \A m \in Kept' : m.seq > last'[c] => m \in backlog'[c] \/ InQueue(c, m)'
        /\ \A b \in backlog'[c] : \A m \in Kept' : last'[c] < m.seq /\ m.seq <= b.seq => m \in backlog'[c]
        /\ \A i \in 1..Len(queue'[c]) : \A m \in Kept' :
              last'[c] < m.seq /\ m.seq <= queue'[c][i].seq => m \in backlog'[c] \/ \E k \in 1..i : queue'[c][k] = m
    BY <1>5, <2>0 DEF StreamInv, InQueue
  <2> QED
    BY <1>5, <2>0, <2>1, <2>2, <2>3, <2>4 DEF StreamInv, InWire, v
<1>11. \A d \in Clients \ {c} : SameFor(d)
  BY <1>1, <1>2, <1>7 DEF SameFor
<1>12. TypeOK'
  BY <1>i, <1>1, <1>7, <1>t DEF TypeOK, run, stream
<1> QED
  BY <1>1, <1>9, <1>10, <1>11, <1>12, PageStep

LEMMA INext == IInv /\ [Next]_vars => IInv'
<1> SUFFICES ASSUME IInv, [Next]_vars PROVE IInv'
  OBVIOUS
<1>1. CASE Writes
  BY <1>1, WritesKeep, EphemeralKeeps, RunKeeps DEF Writes
<1>2. CASE Crash \/ Boot
  BY <1>2, RunKeeps, BootKeeps
<1>3. ASSUME NEW c \in Clients, Serves(c) \/ Drop(c) PROVE IInv'
  BY <1>3, OpenKeeps, ReplayKeeps, FollowKeeps, EndStreamKeeps, ReceiveKeeps, DropKeeps DEF Serves
<1>4. CASE UNCHANGED vars
  <2>1. UNCHANGED <<status, deleted, table, ephemeral, ctx, late, up, restarts, drops, streaming, backlog, queue, last,
                    wire, after, seen, stopped>>
    BY <1>4 DEF vars, run, stream, client
  <2>2. \A d \in Clients : SameFor(d)
    BY <2>1 DEF SameFor
  <2>3. PipeInv'
    BY <2>1, <2>2, OtherPages DEF IInv, PipeInv
  <2>4. TableInv'
    BY <2>1, TableKept DEF IInv
  <2>5. TypeOK'
    BY <2>1 DEF IInv, TypeOK
  <2> QED
    BY <2>3, <2>4, <2>5 DEF IInv
<1> QED
  BY <1>1, <1>2, <1>3, <1>4 DEF Next

LEMMA IInvImplies == IInv => LogInv
<1> SUFFICES ASSUME IInv PROVE LogInv
  OBVIOUS
<1>1. SeqsGrow
  <2> SUFFICES ASSUME NEW i \in 1..Len(table) - 1 PROVE table[i].seq < table[i + 1].seq
    BY DEF SeqsGrow
  <2>1. Len(table) \in Nat
    BY DEF IInv, TypeOK
  <2>2. i \in 1..Len(table) /\ i + 1 \in 1..Len(table) /\ i < i + 1
    BY <2>1
  <2> QED
    BY <2>2 DEF IInv, TableInv, RowsGrow
<1>2. NoLineSkipped
  BY DEF IInv, PipeInv, PageInv, Kept, NoLineSkipped
<1> QED
  BY <1>1, <1>2 DEF LogInv, IInv

-----------------------------------------------------------------------------
\* The theorems.

\* Whatever the number of pages, lines, dropped connections and restarts: the rows carry strictly
\* growing numbers although two counters hand them out, and a page whose cursor passed a kept line was
\* shown it (subscribe before replay, the cursors of the stream and of the page).
THEOREM LogKept == Spec => []LogInv
<1>1. Spec => []IInv
  BY IInit, INext, PTL DEF Spec
<1> QED
  BY <1>1, IInvImplies, PTL

\* What a step that ends a stream with `end' on the wire owes the page.
EndComplete ==
    \A c \in Clients :
        c \in streaming /\ c \notin streaming' /\ wire'[c] # <<>> /\ wire'[c][Len(wire'[c])] = EndLine =>
            \A l \in Rows : \/ l.id \in seen[c] \/ Reused(l)
                            \/ \E i \in 1..Len(wire[c]) : wire[c][i].id = l.id

LEMMA EndStep == IInv /\ [Next]_vars => EndComplete
<1> SUFFICES ASSUME IInv, [Next]_vars, NEW c \in Clients, c \in streaming, c \notin streaming', wire'[c] # <<>>,
                    wire'[c][Len(wire'[c])] = EndLine, NEW l \in Rows, ~Reused(l)
             PROVE  l.id \in seen[c] \/ \E i \in 1..Len(wire[c]) : wire[c][i].id = l.id
  BY DEF EndComplete
<1>1. StreamInv(c) /\ wire[c] \in Seq(Line \cup {EndLine}) /\ l \in Kept /\ last[c] \in Nat /\ l.seq \in Nat
  <2>1. l.seq \in Nat
    BY RowFacts DEF IInv, TypeOK, TableInv
  <2> QED
    BY <2>1 DEF IInv, PipeInv, TypeOK, Kept
<1>2. wire'[c] # wire[c]
  <2> SUFFICES ASSUME wire'[c] = wire[c] PROVE FALSE
    OBVIOUS
  <2>1. Len(wire[c]) \in 1..Len(wire[c])
    BY <1>1
  <2> QED
    BY <1>1, <2>1 DEF StreamInv
<1>3. PICK d \in Clients : EndStream(d) \/ Drop(d)
  <2>1. ~Crash /\ ~Boot /\ ~Writes
    BY <1>2 DEF Crash, Boot, Writes, Begin, Emit, EmitEphemeral, EmitCollides, End, FailRun, MetaLine, LateMeta,
                Discard, Delete
  <2>2. ~UNCHANGED vars
    BY <1>2 DEF vars
  <2>3. ASSUME NEW d \in Clients PROVE ~Open(d) /\ ~Replay(d) /\ ~Follow(d) /\ ~Receive(d)
    BY DEF Open, Replay, Follow, Receive, stream
  <2> QED
    BY <2>1, <2>2, <2>3 DEF Next, Serves
<1>4. d = c
  BY <1>3 DEF EndStream, Drop
<1>5. ~Drop(c)
  BY DEF Drop, IInv, TypeOK
<1>6. backlog[c] = {} /\ queue[c] = <<>>
  BY <1>3, <1>4, <1>5 DEF EndStream
<1>7. ~InQueue(c, l)
  BY <1>6 DEF InQueue
<1>8. l.seq <= last[c]
  BY <1>1, <1>6, <1>7 DEF StreamInv
<1>9. l.id \in seen[c] \/ InWire(c, l)
  BY <1>1, <1>8 DEF StreamInv
<1> QED
  BY <1>9 DEF InWire

\* The end of a stream is announced only to a page that was sent every kept line, whatever was
\* written, dropped and restarted before: nothing is queued past the cursor when `end' goes out.
THEOREM EndAnnouncedLast == Spec => EndIsComplete
<1>1. Spec => []IInv
  BY IInit, INext, PTL DEF Spec
<1>2. IInv /\ [Next]_vars => [EndComplete]_vars
  BY EndStep
<1> QED
  BY <1>1, <1>2, PTL DEF Spec, EndIsComplete, EndComplete

=============================================================================
