----------------------------- MODULE TraceIngest -----------------------------
(***************************************************************************)
(* The ingest service (apps/api/.../services/ingest.py): each delivery of  *)
(* a batch is one PostgreSQL transaction at READ COMMITTED, several run at *)
(* once, and a client that timed out delivers the same batch again.        *)
(*                                                                         *)
(* The model follows one trace.  A committed table is a variable; what a   *)
(* transaction has written and not committed shows in the row locks        *)
(* (`owner`, `rowOwner`) and in its own fields, and only itself sees it.   *)
(* What a stored span holds is named by two batches: the one that inserted *)
(* it, whose data stay in the columns the upsert's SET list leaves out,    *)
(* and the last one that wrote the others.  An event row is named by the   *)
(* delivery that inserted it.  Batches follow                              *)
(* otlp/receiver.py: a batch that holds the root span declares the trace,  *)
(* from the earliest start among its spans; any other batch is stubbed.    *)
(***************************************************************************)
EXTENDS Integers, FiniteSets, FiniteSetsExt, Sequences

CONSTANTS
  Spans,        \* the spans of the trace
  Root,         \* its root span
  Start,        \* Start[s]: the span's started_at
  Batches,      \* the batches clients send
  SpansOf,      \* SpansOf[b]: the spans batch b carries
  EventsOf,     \* EventsOf[b]: those among them it carries events for
  ErrorsOf,     \* ErrorsOf[b]: those among them with status "error"
  Deliveries,   \* requests: a batch may be delivered several times
  Absent,       \* no stored span
  NoRow,        \* no trace row
  Nobody        \* an unlocked row

ASSUME BatchAssumption ==
  /\ SpansOf \in [Batches -> SUBSET Spans]
  /\ EventsOf \in [Batches -> SUBSET Spans]
  /\ ErrorsOf \in [Batches -> SUBSET Spans]
  /\ \A b \in Batches : /\ SpansOf[b] # {}
                        /\ EventsOf[b] \subseteq SpansOf[b]
                        /\ ErrorsOf[b] \subseteq SpansOf[b]
ASSUME SpanAssumption == Start \in [Spans -> Nat] /\ IsFiniteSet(Spans)

Row == [declared : BOOLEAN, status : {"ok", "error"}, count : Nat]
ASSUME NameAssumption ==
  Absent \notin Batches /\ Nobody \notin Deliveries /\ NoRow \notin Row

VARIABLES
  spans,     \* spans[s]: the batch whose version of s is stored, or Absent
  first,     \* first[s]: the batch that inserted s: its parent, type, model, tool, prompt and
             \* completion tokens, error type and sequence index are that batch's
  events,    \* events[s]: the deliveries whose event rows for s are stored
  rows,      \* rows[k]: the trace row with started_at = k, or NoRow
  owner,     \* owner[s]: the transaction holding the row lock on span s
  rowOwner,  \* rowOwner[k]: the transaction holding the lock on trace row k
  pc,        \* where each delivery is in IngestService.ingest
  batch,     \* batch[d]: what it carries (chosen when it is received)
  deleted,   \* deleted[d][s]: the event rows its DELETE removed
  rollup,    \* rollup[d]: what _recompute_rollups read
  newRow,    \* newRow[d]: the trace row it has upserted, with its key
  log,       \* ghost: the batches in the order they were committed
  overlapped \* ghost: two requests have been in flight at once

tables == <<spans, first, events, rows>>
locks == <<owner, rowOwner>>
vars == <<spans, first, events, rows, owner, rowOwner, pc, batch, deleted, rollup, newRow, log, overlapped>>

Starts == {Start[s] : s \in Spans}
Active == {"spans", "delete", "insert", "rollup", "row", "commit"}
Pcs == Active \cup {"new", "done", "failed"}
InFlight == {d \in Deliveries : pc[d] \in Active}

Init ==
  /\ spans = [s \in Spans |-> Absent]
  /\ first = [s \in Spans |-> Absent]
  /\ events = [s \in Spans |-> {}]
  /\ rows = [k \in Starts |-> NoRow]
  /\ owner = [s \in Spans |-> Nobody]
  /\ rowOwner = [k \in Starts |-> Nobody]
  /\ pc = [d \in Deliveries |-> "new"]
  /\ batch \in [Deliveries -> Batches]
  /\ deleted = [d \in Deliveries |-> [s \in Spans |-> {}]]
  /\ rollup = [d \in Deliveries |-> [count |-> 0, errors |-> 0, earliest |-> 0]]
  /\ newRow = [d \in Deliveries |-> [key |-> 0, row |-> NoRow]]
  /\ log = <<>>
  /\ overlapped = FALSE

Goto(d, label) == pc' = [pc EXCEPT ![d] = label]

Receive(d) ==
  /\ pc[d] = "new"
  /\ Goto(d, "spans")
  /\ overlapped' = (overlapped \/ InFlight # {})
  /\ UNCHANGED <<tables, locks, batch, deleted, rollup, newRow, log>>

(***************************************************************************)
(* _upsert_spans: INSERT ... ON CONFLICT DO UPDATE locks its rows one by   *)
(* one, waits for the transaction that holds one of them, and keeps every  *)
(* lock to the end of the transaction.                                     *)
(***************************************************************************)
Missing(d) == {s \in SpansOf[batch[d]] : owner[s] # d}

SpanFree(d, s) == owner[s] = Nobody

UpsertSpan(d, s) ==
  /\ pc[d] = "spans"
  /\ s \in Missing(d)
  /\ SpanFree(d, s)
  /\ owner' = [owner EXCEPT ![s] = d]
  /\ UNCHANGED <<tables, rowOwner, pc, batch, deleted, rollup, newRow, log, overlapped>>

SpansUpserted(d) ==
  /\ pc[d] = "spans"
  /\ Missing(d) = {}
  /\ Goto(d, "delete")
  /\ UNCHANGED <<tables, locks, batch, deleted, rollup, newRow, log, overlapped>>

(***************************************************************************)
(* _insert_events: delete then insert, for the spans that carry events.    *)
(***************************************************************************)
\* Mutant: a replay inserts its events again.
BugNoDelete(d) == [s \in Spans |-> {}]
\* Mutant: it deletes what the same batch inserted before, not what other batches did.
BugDeleteOwn(d) == [s \in Spans |-> {e \in events[s] : batch[e] = batch[d] /\ s \in EventsOf[batch[d]]}]
Deletes(d) == [s \in Spans |-> IF s \in EventsOf[batch[d]] THEN events[s] ELSE {}]

DeleteEvents(d) ==
  /\ pc[d] = "delete"
  /\ deleted' = [deleted EXCEPT ![d] = Deletes(d)]
  /\ Goto(d, "insert")
  /\ UNCHANGED <<tables, locks, batch, rollup, newRow, log, overlapped>>

\* The inserted rows are visible to others at the commit.
InsertEvents(d) ==
  /\ pc[d] = "insert"
  /\ Goto(d, "rollup")
  /\ UNCHANGED <<tables, locks, batch, deleted, rollup, newRow, log, overlapped>>

(***************************************************************************)
(* _recompute_rollups: one aggregate over the spans the transaction sees,  *)
(* the committed ones and its own.                                         *)
(***************************************************************************)
SeenVersion(d, s) == IF owner[s] = d THEN batch[d] ELSE spans[s]
Seen(d) == {s \in Spans : SeenVersion(d, s) # Absent}

Erroneous(d) == {s \in Seen(d) : s \in ErrorsOf[SeenVersion(d, s)]}
Totals(d) == [count    |-> Cardinality(Seen(d)),
              errors   |-> Cardinality(Erroneous(d)),
              earliest |-> Min({Start[s] : s \in Seen(d)})]

RecomputeRollups(d) ==
  /\ pc[d] = "rollup"
  /\ rollup' = [rollup EXCEPT ![d] = Totals(d)]
  /\ Goto(d, "row")
  /\ UNCHANGED <<tables, locks, batch, deleted, newRow, log, overlapped>>

(***************************************************************************)
(* _upsert_traces: the row's key is (project, trace_id, started_at).       *)
(***************************************************************************)
Declares(b) == Root \in SpansOf[b]
RowKey(d) ==
  IF Declares(batch[d]) THEN Min({Start[s] : s \in SpansOf[batch[d]]}) ELSE rollup[d].earliest

\* Mutant: count = count + excluded.count.
BugAccumulate(d) ==
  [declared |-> TRUE, status |-> "ok",
   count |-> Cardinality(SpansOf[batch[d]])
             + IF rows[RowKey(d)] = NoRow THEN 0 ELSE rows[RowKey(d)].count]
DeclaredRow(d) ==
  [declared |-> TRUE,
   status   |-> IF Root \in ErrorsOf[batch[d]] THEN "error" ELSE "ok",
   count    |-> rollup[d].count]

\* A stub updates the totals, escalates to "error" and keeps the description.
StubRow(d, old) ==
  [declared |-> old # NoRow /\ old.declared,
   status   |-> IF rollup[d].errors > 0 THEN "error"
                ELSE IF old = NoRow THEN "ok" ELSE old.status,
   count    |-> rollup[d].count]

Upserted(d) == IF Declares(batch[d]) THEN DeclaredRow(d) ELSE StubRow(d, rows[RowKey(d)])
UpsertTrace(d) ==
  /\ pc[d] = "row"
  /\ rowOwner[RowKey(d)] = Nobody
  /\ rowOwner' = [rowOwner EXCEPT ![RowKey(d)] = d]
  /\ newRow' = [newRow EXCEPT ![d] = [key |-> RowKey(d), row |-> Upserted(d)]]
  /\ Goto(d, "commit")
  /\ UNCHANGED <<tables, owner, batch, deleted, rollup, log, overlapped>>

(***************************************************************************)
(* The end of the transaction.                                             *)
(***************************************************************************)
\* Mutant: a rolled-back transaction whose connection is never returned.
BugRelease(d) == UNCHANGED locks
Release(d) ==
  /\ owner' = [s \in Spans |-> IF owner[s] = d THEN Nobody ELSE owner[s]]
  /\ rowOwner' = [k \in Starts |-> IF rowOwner[k] = d THEN Nobody ELSE rowOwner[k]]

\* The columns the SET list leaves out are those of the batch that inserted the row.
First(d, s) == IF first[s] = Absent THEN batch[d] ELSE first[s]

\* What is in the tables when the locks are released is what the upsert wrote under them.
Commit(d) ==
  /\ pc[d] = "commit"
  /\ first' = [s \in Spans |-> IF s \in SpansOf[batch[d]] THEN First(d, s) ELSE first[s]]
  /\ spans' = [s \in Spans |-> IF s \in SpansOf[batch[d]] THEN batch[d] ELSE spans[s]]
  /\ events' = [s \in Spans |-> (events[s] \ deleted[d][s])
                                  \cup (IF s \in EventsOf[batch[d]] THEN {d} ELSE {})]
  /\ rows' = [rows EXCEPT ![newRow[d].key] = newRow[d].row]
  /\ log' = Append(log, batch[d])
  /\ Release(d)
  /\ Goto(d, "done")
  /\ UNCHANGED <<batch, deleted, rollup, newRow, overlapped>>

\* A crash, a lost connection, a statement error: the transaction rolls back.
Abort(d) ==
  /\ pc[d] \in Active
  /\ Release(d)
  /\ Goto(d, "failed")
  /\ UNCHANGED <<tables, batch, deleted, rollup, newRow, log, overlapped>>

\* PostgreSQL's deadlock detector: d is one of a set of transactions each of which
\* needs only rows that the set holds.  It ends one of them.
Deadlocked(d) ==
  \E C \in SUBSET {e \in Deliveries : pc[e] = "spans" /\ Missing(e) # {}} :
    d \in C /\ \A e \in C : \A s \in Missing(e) : owner[s] \in C
BreakDeadlock(d) == Deadlocked(d) /\ Abort(d)

Progress(d) ==
  \/ \E s \in Spans : UpsertSpan(d, s)
  \/ SpansUpserted(d) \/ DeleteEvents(d) \/ InsertEvents(d)
  \/ RecomputeRollups(d) \/ UpsertTrace(d) \/ Commit(d)

Next == \E d \in Deliveries : Receive(d) \/ Progress(d) \/ Abort(d)

Spec == Init /\ [][Next]_vars

\* Requests are served and the database detects deadlocks; nothing is assumed of aborts.
FairSpec == Spec /\ \A d \in Deliveries : WF_vars(Progress(d)) /\ WF_vars(BreakDeadlock(d))

(***************************************************************************)
(* Properties                                                              *)
(***************************************************************************)
\* Every variable stays in its range.
TypeOK ==
  /\ spans \in [Spans -> Batches \cup {Absent}]
  /\ first \in [Spans -> Batches \cup {Absent}]
  /\ events \in [Spans -> SUBSET Deliveries]
  /\ rows \in [Starts -> Row \cup {NoRow}]
  /\ owner \in [Spans -> Deliveries \cup {Nobody}]
  /\ rowOwner \in [Starts -> Deliveries \cup {Nobody}]
  /\ pc \in [Deliveries -> Pcs]
  /\ batch \in [Deliveries -> Batches]
  /\ deleted \in [Deliveries -> [Spans -> SUBSET Deliveries]]
  /\ DOMAIN rollup = Deliveries /\ \A d \in Deliveries : rollup[d].count \in Nat
  /\ DOMAIN newRow = Deliveries /\ \A d \in Deliveries : newRow[d].row \in Row \cup {NoRow}

\* The strengthening behind the event properties: past its upsert a transaction holds
\* every span it carries, so its totals count at least those and what its DELETE
\* removed stays all there is to remove.
Holding == {"delete", "insert", "rollup", "row", "commit"}
LocksHeld == \A d \in Deliveries : pc[d] \in Holding => Missing(d) = {}
KeysExist == \A d \in Deliveries : pc[d] = "row" => RowKey(d) \in Starts
DeletesCurrent ==
  \A d \in Deliveries : pc[d] \in Holding \ {"delete"} => deleted[d] = Deletes(d)
Strengthening == LocksHeld /\ KeysExist /\ DeletesCurrent

\* "Delete-then-insert per span keeps replay idempotent": however many deliveries of a
\* batch run at once, at most one of them leaves its event rows on a span.
EventsOnce == \A s \in Spans : \A d, e \in events[s] : d = e

\* The stored events of a span are those of the batch whose version of the span is
\* stored, whenever that batch carried events for it: two concurrent versions of a span
\* never mix.
EventsMatchSpan ==
  \A s \in Spans : \A b \in Batches :
    spans[s] = b /\ s \in EventsOf[b] => \E d \in Deliveries : events[s] = {d} /\ batch[d] = b

\* "A re-sent span updates rather than duplicates.  Later data wins": the stored span is the
\* one that was sent last.  It is not: what was sent first stays in ten of its columns.
LaterDataWins == \A s \in Spans : first[s] = spans[s]

\* The events stored with a span are exactly those of one delivery of the batch whose
\* version of it is stored, through retries, overlaps and aborts.
EventsExact == EventsOnce /\ EventsMatchSpan

\* Concurrent, retried and aborted deliveries leave the spans and events that some
\* one-at-a-time order of the committed batches leaves.
Store == INSTANCE TraceStore WITH
  version <- spans, origin <- [s \in Spans |-> {batch[d] : d \in events[s]}]
Serializable == Store!Spec

\* "The SDK can retry a batch as often as it likes and the result is identical": the
\* commit of the batch that was committed last changes no span, no trace row and no
\* event, its event rows' identities apart, when requests come one at a time.
ReplayIsNoop ==
  \A b \in Batches :
    (~overlapped /\ log # <<>> /\ log[Len(log)] = b /\ log' = Append(log, b))
      => /\ spans' = spans /\ first' = first
         /\ rows' = rows
         /\ \A s \in Spans : (events[s] = {}) = (events'[s] = {})

Stored == {s \in Spans : spans[s] # Absent}
Quiet == InFlight = {}

\* "Correct for replays, partial batches, and out-of-order arrival alike": when no
\* request is in flight, a trace row counts exactly the spans stored.
RollupExact ==
  Quiet /\ Stored # {} => \E k \in Starts : rows[k] # NoRow /\ rows[k].count = Cardinality(Stored)

\* The same for requests that come one at a time, in any order, replayed or aborted.
RollupExactAlone == ~overlapped => RollupExact

\* "Re-sending a trace updates rather than duplicates": a trace has one row.
OneRow == \A j, k \in Starts : rows[j] # NoRow /\ rows[k] # NoRow => j = k

\* A batch without the root span neither undoes the description an earlier or a
\* concurrent batch declared nor turns the trace's "error" into "ok".
StubsOnlyAdd ==
  \A d \in Deliveries, k \in Starts :
    (pc[d] = "commit" /\ pc'[d] = "done" /\ ~Declares(batch[d]) /\ rows[k] # NoRow)
      => /\ rows[k].declared => rows'[k].declared
         /\ rows[k].status = "error" => rows'[k].status = "error"

\* "The SDK can retry a batch as often as it likes": requests that come one at a time leave
\* exact totals and change nothing when they are replayed, and no batch without the root,
\* alone or not, takes anything back.
RedeliverySafe == [][RollupExactAlone' /\ ReplayIsNoop /\ StubsOnlyAdd]_vars

\* Every request ends: lock waits and deadlocks between batches are always resolved.
EveryDeliveryEnds == \A d \in Deliveries : pc[d] \in Active ~> pc[d] \in {"done", "failed"}
=============================================================================
