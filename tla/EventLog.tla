------------------------------ MODULE EventLog ------------------------------
(***************************************************************************)
(* One run's log and the pages that follow it: RunContext's sequence       *)
(* counter, appendRunMeta, the events table, the bus, the event stream of  *)
(* GET /api/runs/:id/events and the browser's followRunLog, over dropped   *)
(* connections and ends of the process.                                    *)
(*                                                                         *)
(* A sequence number is the code's plus one, so that 0 is "no line yet".   *)
(* A line is its number in the order of writing and its sequence number;   *)
(* its text is left out.  What the run does is only its status as the log  *)
(* and the stream meet it.                                                 *)
(***************************************************************************)
EXTENDS Naturals, Sequences, FiniteSets

CONSTANTS
    Clients,       \* the pages that follow the run's log
    MaxLines,      \* bound: lines written
    MaxEphemeral,  \* bound: lines of the ephemeral stream among them
    MaxLate,       \* bound: meta lines written beside a live context
    MaxDrops,      \* bound: connections a hop closes
    MaxRestarts    \* bound: process ends

ASSUME BoundsAssumption ==
    MaxLines \in Nat /\ MaxEphemeral \in Nat /\ MaxLate \in Nat /\ MaxDrops \in Nat
        /\ MaxRestarts \in Nat

VARIABLES
    status,     \* the run: "waiting" (planned, queued), "live", "paused" or its outcome
    deleted,    \* whether its row is marked deleted
    table,      \* the run's rows of events, in the order of their insertion
    ephemeral,  \* the lines published and not persisted
    ctx,        \* the next sequence number of the live RunContext, 0 for none
    late,       \* meta lines written beside a live context
    up, restarts, drops,
    streaming,  \* the clients with a stream the server serves
    backlog,    \* per stream, the rows readEvents answered and that are not sent yet
    queue,      \* per stream, what the bus delivered and is not sent yet
    last,       \* per stream, the last sequence number sent
    wire,       \* per client, what was sent and has not arrived
    after,      \* per client, its cursor
    seen,       \* per client, the lines it was shown
    stopped     \* the clients told `end'

run == <<status, deleted, table, ephemeral, ctx, late>>
stream == <<streaming, backlog, queue, last>>
client == <<after, seen, stopped>>
vars == <<run, up, restarts, drops, stream, wire, client>>

Status == {"waiting", "live", "paused", "failed", "cancelled", "succeeded"}
Line == [id : 1..MaxLines, seq : Nat]
EndLine == [id |-> 0, seq |-> 0]

\* Every variable keeps its type: no cursor, of a stream or a page, falls below "no line yet".
TypeOK ==
    /\ status \in Status /\ deleted \in BOOLEAN
    /\ table \in Seq(Line)
    /\ ephemeral \subseteq Line
    /\ ctx \in Nat /\ late \in Nat
    /\ up \in BOOLEAN /\ restarts \in Nat /\ drops \in Nat
    /\ streaming \subseteq Clients
    /\ backlog \in [Clients -> SUBSET Line]
    /\ queue \in [Clients -> Seq(Line)]
    /\ last \in [Clients -> Nat]
    /\ wire \in [Clients -> Seq(Line \cup {EndLine})]
    /\ after \in [Clients -> Nat]
    /\ seen \in [Clients -> SUBSET (1..MaxLines)]
    /\ stopped \subseteq Clients

-----------------------------------------------------------------------------
\* The table.  Rows are inserted in the order of their sequence numbers.

Rows == {table[i] : i \in 1..Len(table)}

MaxSeq == IF table = <<>> THEN 0 ELSE table[Len(table)].seq

Taken(seq) == \E l \in Rows : l.seq = seq

\* The rows past a cursor; Replay takes them in the order of their sequence numbers.
readEvents(cursor) == {l \in Rows : l.seq > cursor}

Over == status \in {"succeeded", "cancelled"} \/ deleted

\* The next line's number; writing stops at the bound.
NextId == 1 + Len(table) + Cardinality(ephemeral)

Publish(l) ==
    queue' = [c \in Clients |-> IF c \in streaming THEN Append(queue[c], l) ELSE queue[c]]

\* One line inserted, then published to every stream of the run.
Write(seq) ==
    /\ NextId <= MaxLines
    /\ table' = Append(table, [id |-> NextId, seq |-> seq])
    /\ Publish([id |-> NextId, seq |-> seq])

\* Outside a context: the sequence goes on after the table's last row.
appendRunMeta == Write(MaxSeq + 1)

Init ==
    /\ status = "waiting" /\ deleted = FALSE /\ table = <<>> /\ ephemeral = {} /\ ctx = 0 /\ late = 0
    /\ up = TRUE /\ restarts = 0 /\ drops = 0
    /\ streaming = {}
    /\ backlog = [c \in Clients |-> {}] /\ queue = [c \in Clients |-> <<>>]
    /\ last = [c \in Clients |-> 0]
    /\ wire = [c \in Clients |-> <<>>]
    /\ after = [c \in Clients |-> 0]
    /\ seen = [c \in Clients |-> {}]
    /\ stopped = {}

-----------------------------------------------------------------------------
\* The run writes.

\* A RunContext is built, its counter read from the table, and its first line written: a start, the
\* start of a streaming plan, or the retry, skip or abort of a run that stopped.
Begin ==
    /\ up
    /\ ctx = 0 /\ ~deleted
    /\ status \in {"waiting", "failed", "cancelled"}
    /\ Write(MaxSeq + 1)
    /\ ctx' = MaxSeq + 2
    /\ status' = "live"
    /\ UNCHANGED <<deleted, ephemeral, late, up, restarts, drops, streaming, backlog, last, wire, client>>

\* RunContext.emit of a line that is kept.
Emit ==
    /\ up
    /\ ctx # 0
    /\ ~Taken(ctx)
    /\ Write(ctx)
    /\ ctx' = ctx + 1
    /\ UNCHANGED <<status, deleted, ephemeral, late, up, restarts, drops, streaming, backlog, last, wire, client>>

\* RunContext.emit of a line for the live watcher alone; its sequence number is consumed.
EmitEphemeral ==
    /\ up
    /\ ctx # 0
    /\ NextId <= MaxLines /\ Cardinality(ephemeral) < MaxEphemeral
    /\ ephemeral' = ephemeral \cup {[id |-> NextId, seq |-> ctx]}
    /\ Publish([id |-> NextId, seq |-> ctx])
    /\ ctx' = ctx + 1
    /\ UNCHANGED <<status, deleted, table, late, up, restarts, drops, streaming, backlog, last, wire, client>>

\* The insert of a sequence number the table holds already throws out of emit, and the run fails with
\* a line of its own: the catch of execute, or of the step, whose line takes the next number.
EmitCollides ==
    /\ up
    /\ ctx # 0
    /\ Taken(ctx)
    /\ appendRunMeta
    /\ ctx' = 0
    /\ status' = "failed"
    /\ UNCHANGED <<deleted, ephemeral, late, up, restarts, drops, streaming, backlog, last, wire, client>>

\* A context ends with its last line: a run's outcome, a plan that is ready, the drain's pause.
End ==
    /\ up
    /\ ctx # 0
    /\ ~Taken(ctx)
    /\ Write(ctx)
    /\ ctx' = 0
    /\ status' \in Status \ {"live"}
    /\ UNCHANGED <<deleted, ephemeral, late, up, restarts, drops, streaming, backlog, last, wire, client>>

\* failRun: execute's catch-all lets the context go and writes beside it.
FailRun ==
    /\ up
    /\ ctx # 0
    /\ appendRunMeta
    /\ ctx' = 0
    /\ status' = "failed"
    /\ UNCHANGED <<deleted, ephemeral, late, up, restarts, drops, streaming, backlog, last, wire, client>>

\* A line for a run without a context: the place in the queue, a skip, a failed hook; a cancel of a
\* run the drain paused ends it too.
MetaLine ==
    /\ up
    /\ ctx = 0
    /\ appendRunMeta
    /\ status' = IF status = "paused" THEN "cancelled" ELSE status
    /\ UNCHANGED <<deleted, ephemeral, ctx, late, up, restarts, drops, streaming, backlog, last, wire, client>>

\* The second of two requests that typed a queued run's secrets again: it writes to a run the first
\* has started meanwhile.
LateMeta ==
    /\ up
    /\ ctx # 0
    /\ late < MaxLate
    /\ late' = late + 1
    /\ appendRunMeta
    /\ UNCHANGED <<status, deleted, ephemeral, ctx, up, restarts, drops, streaming, backlog, last, wire, client>>

\* discard: the row reads cancelled with no line, and a planner or an execution keeps writing.
Discard ==
    /\ up
    /\ status \in {"waiting", "live"}
    /\ status' = "cancelled"
    /\ UNCHANGED <<deleted, table, ephemeral, ctx, late, up, restarts, drops, stream, wire, client>>

\* deleteRun of a run that is settled.
Delete ==
    /\ up
    /\ status \in {"waiting", "failed", "cancelled", "succeeded"}
    /\ deleted' = TRUE
    /\ UNCHANGED <<status, table, ephemeral, ctx, late, up, restarts, drops, stream, wire, client>>

\* The process ends: the context and every stream are gone, what is on the wire may still arrive.
Crash ==
    /\ up
    /\ restarts < MaxRestarts
    /\ restarts' = restarts + 1
    /\ up' = FALSE
    /\ ctx' = 0
    /\ streaming' = {}
    /\ backlog' = [c \in Clients |-> {}] /\ queue' = [c \in Clients |-> <<>>]
    /\ UNCHANGED <<status, deleted, table, ephemeral, late, drops, last, wire, client>>

\* resumeOnBoot: a run in flight goes on in a new context, a validation in flight fails.
Boot ==
    /\ ~up
    /\ up' = TRUE
    /\ \/ /\ status \in {"live", "paused"}
          /\ Write(MaxSeq + 1)
          /\ \/ ctx' = MaxSeq + 2 /\ status' = "live"
             \/ ctx' = 0 /\ status' = "failed"
       \/ /\ status \notin {"live", "paused"} \/ NextId > MaxLines
          /\ UNCHANGED <<status, deleted, table, ctx, queue>>
    /\ UNCHANGED <<deleted, ephemeral, late, restarts, drops, streaming, backlog, last, wire, client>>

-----------------------------------------------------------------------------
\* The event stream of one client.

\* Mutant: nothing is replayed.
MutantOpenWithoutReplay(c) ==
    /\ up
    /\ c \notin streaming \cup stopped
    /\ wire[c] = <<>>
    /\ streaming' = streaming \cup {c}
    /\ backlog' = [backlog EXCEPT ![c] = {}]
    /\ queue' = [queue EXCEPT ![c] = <<>>]
    /\ last' = [last EXCEPT ![c] = after[c]]
    /\ UNCHANGED <<run, up, restarts, drops, wire, client>>

\* connect: subscribed to the bus first, then the rows past the cursor are read.
Open(c) ==
    /\ up
    /\ c \notin streaming \cup stopped
    /\ wire[c] = <<>>
    /\ streaming' = streaming \cup {c}
    /\ backlog' = [backlog EXCEPT ![c] = readEvents(after[c])]
    /\ queue' = [queue EXCEPT ![c] = <<>>]
    /\ last' = [last EXCEPT ![c] = after[c]]
    /\ UNCHANGED <<run, up, restarts, drops, wire, client>>

\* sendOnce: what was sent already is passed over; the send yields to everything else.
SendOnce(c, l) ==
    IF l.seq <= last[c] THEN UNCHANGED <<last, wire>>
    ELSE /\ last' = [last EXCEPT ![c] = l.seq]
         /\ wire' = [wire EXCEPT ![c] = Append(@, l)]

Replay(c) ==
    /\ c \in streaming
    /\ \E l \in backlog[c] :
           /\ \A m \in backlog[c] : l.seq <= m.seq
           /\ SendOnce(c, l)
           /\ backlog' = [backlog EXCEPT ![c] = @ \ {l}]
    /\ UNCHANGED <<run, up, restarts, drops, streaming, queue, client>>

\* Mutant: live lines go out before the replay is through.
MutantFollowEarly(c) ==
    /\ c \in streaming
    /\ queue[c] # <<>>
    /\ SendOnce(c, Head(queue[c]))
    /\ queue' = [queue EXCEPT ![c] = Tail(@)]
    /\ UNCHANGED <<run, up, restarts, drops, streaming, backlog, client>>

Follow(c) ==
    /\ c \in streaming
    /\ backlog[c] = {} /\ queue[c] # <<>>
    /\ SendOnce(c, Head(queue[c]))
    /\ queue' = [queue EXCEPT ![c] = Tail(@)]
    /\ UNCHANGED <<run, up, restarts, drops, streaming, backlog, client>>

\* Mutant: the end is announced over what is still queued.
MutantEndEarly(c) ==
    /\ c \in streaming
    /\ backlog[c] = {}
    /\ Over
    /\ wire' = [wire EXCEPT ![c] = Append(@, EndLine)]
    /\ streaming' = streaming \ {c}
    /\ UNCHANGED <<run, up, restarts, drops, backlog, queue, last, client>>

\* The run reads terminal with nothing queued: the close is announced.
EndStream(c) ==
    /\ c \in streaming
    /\ backlog[c] = {} /\ queue[c] = <<>>
    /\ Over
    /\ wire' = [wire EXCEPT ![c] = Append(@, EndLine)]
    /\ streaming' = streaming \ {c}
    /\ UNCHANGED <<run, up, restarts, drops, backlog, queue, last, client>>

\* A hop closes the connection; what was under way on it is lost.
Drop(c) ==
    /\ drops < MaxDrops
    /\ c \in streaming \/ wire[c] # <<>>
    /\ drops' = drops + 1
    /\ streaming' = streaming \ {c}
    /\ backlog' = [backlog EXCEPT ![c] = {}] /\ queue' = [queue EXCEPT ![c] = <<>>]
    /\ wire' = [wire EXCEPT ![c] = <<>>]
    /\ UNCHANGED <<run, up, restarts, last, client>>

\* followRunLog's listeners: a line past the cursor is shown, `end' stops the page.
Receive(c) ==
    /\ wire[c] # <<>>
    /\ wire' = [wire EXCEPT ![c] = Tail(@)]
    /\ LET l == Head(wire[c]) IN
       IF l = EndLine THEN stopped' = stopped \cup {c} /\ UNCHANGED <<after, seen>>
       ELSE IF l.seq <= after[c] THEN UNCHANGED client
       ELSE /\ after' = [after EXCEPT ![c] = l.seq]
            /\ seen' = [seen EXCEPT ![c] = @ \cup {l.id}]
            /\ UNCHANGED stopped
    /\ UNCHANGED <<run, up, restarts, drops, stream>>

-----------------------------------------------------------------------------
Writes == Begin \/ Emit \/ EmitEphemeral \/ EmitCollides \/ End \/ FailRun \/ MetaLine \/ LateMeta
              \/ Discard \/ Delete

Serves(c) == Open(c) \/ Replay(c) \/ Follow(c) \/ EndStream(c) \/ Receive(c)

Next ==
    \/ Writes \/ Crash \/ Boot
    \/ \E c \in Clients : Serves(c) \/ Drop(c)

\* A stream is served, its bytes arrive, a dropped page reconnects and the supervisor restarts the
\* process.  Nothing is assumed of the run, and hops close finitely many connections.
Fairness == WF_vars(Boot) /\ \A c \in Clients : WF_vars(Serves(c))

Spec == Init /\ [][Next]_vars /\ Fairness

-----------------------------------------------------------------------------
\* Correctness.

\* The rows of the table carry strictly growing sequence numbers, though two counters, the context's
\* in memory and the table's maximum, hand them out (events_run_seq_uq; the replay is in that order).
SeqsGrow == \A i \in 1..Len(table) - 1 : table[i].seq < table[i + 1].seq

\* Two lines written share a sequence number only where the first was ephemeral.
Reused(l) == \E e \in ephemeral : e.seq = l.seq

\* A page whose cursor passed a kept line was shown it, over any drop, reconnect, replay and restart,
\* but for a line that took the number of an ephemeral one (the subscription before the replay, the
\* cursor of the stream, the cursor of the page).
NoLineSkipped ==
    \A c \in Clients : \A l \in Rows : l.seq <= after[c] /\ ~Reused(l) => l.id \in seen[c]

\* The server announces the end only to a page that was sent every kept line.
EndIsComplete ==
    [][\A c \in Clients :
          c \in streaming /\ c \notin streaming' /\ wire'[c] # <<>> /\ wire'[c][Len(wire'[c])] = EndLine =>
              \A l \in Rows : \/ l.id \in seen[c] \/ Reused(l)
                              \/ \E i \in 1..Len(wire[c]) : wire[c][i].id = l.id]_vars

\* A page that keeps following is shown every kept line sooner or later.
EveryLineArrives ==
    \A c \in Clients, n \in 1..MaxLines :
        (\E l \in Rows : l.id = n /\ ~Reused(l)) ~> (n \in seen[c] \/ c \in stopped)

\* emit's comment on the ephemeral stream: "a persisted line never reuses a seq an SSE client already
\* saw (the reconnect cursor filters on seq and would silently drop that line)".
NoSeenSeqReused ==
    \A c \in Clients : \A l \in Rows : l.seq <= after[c] => l.id \in seen[c]

\* The log's invariants in one: its types, growing numbers, and no kept line passed over by a page.
LogInv == TypeOK /\ SeqsGrow /\ NoLineSkipped

=============================================================================
