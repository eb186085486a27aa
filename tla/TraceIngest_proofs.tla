------------------------- MODULE TraceIngest_proofs -------------------------
(***************************************************************************)
(* Proofs about TraceIngest, for any spans, batches and deliveries: types, *)
(* the two event invariants and that the service implements TraceStore.    *)
(***************************************************************************)
EXTENDS TraceIngest, FiniteSetTheorems, WellFoundedInduction, TLAPS

\* A span that is stored was inserted by some batch, and only then.
FirstOK == \A s \in Spans : first[s] = Absent <=> spans[s] = Absent

IInv ==
  TypeOK /\ FirstOK /\ LocksHeld /\ KeysExist /\ DeletesCurrent /\ EventsOnce /\ EventsMatchSpan

\* A non-empty set of start times has a least one, which Min picks.
LEMMA MinInSet ==
  ASSUME NEW T \in SUBSET Nat, T # {}
  PROVE  Min(T) \in T
<1> DEFINE R == OpToRel(<, Nat)
<1>1. \E x \in T : \A y \in T : ~ (<<y, x>> \in R)
  BY NatLessThanWellFounded, WFMin
<1>2. ASSUME NEW x \in T, NEW y \in T, y < x PROVE <<y, x>> \in R
  BY <1>2 DEF OpToRel
<1>3. \E x \in T : \A y \in T : x <= y
  <2>1. PICK x \in T : \A y \in T : ~ (<<y, x>> \in R)
    BY <1>1
  <2>2. \A y \in T : ~ (y < x)
    BY <2>1, <1>2
  <2> QED BY <2>2
<1> QED BY <1>3 DEF Min

\* The totals a transaction reads are natural numbers: it sees finitely many spans.
LEMMA SeenCounted ==
  ASSUME NEW d \in Deliveries
  PROVE  Cardinality(Seen(d)) \in Nat
<1>1. Seen(d) \in SUBSET Spans
  BY DEF Seen
<1>2. IsFiniteSet(Seen(d))
  BY <1>1, FS_Subset, SpanAssumption
<1> QED BY <1>2, FS_CardinalityType

\* A transaction that holds its spans sees at least one, so its row has a key.
LEMMA SeenKey ==
  ASSUME NEW d \in Deliveries, batch[d] \in Batches, Missing(d) = {}
  PROVE  /\ Min({Start[s] : s \in Seen(d)}) \in Starts
         /\ Min({Start[s] : s \in SpansOf[batch[d]]}) \in Starts
<1>1. PICK s0 \in SpansOf[batch[d]] : s0 \in Spans /\ owner[s0] = d
  BY BatchAssumption DEF Missing
<1>2. s0 \in Seen(d)
  BY <1>1, NameAssumption DEF Seen, SeenVersion
<1>3. {Start[s] : s \in Seen(d)} \in SUBSET Nat /\ {Start[s] : s \in Seen(d)} # {}
  BY <1>2, SpanAssumption DEF Seen
<1>4. {Start[s] : s \in SpansOf[batch[d]]} \in SUBSET Nat /\ {Start[s] : s \in SpansOf[batch[d]]} # {}
  BY <1>1, SpanAssumption, BatchAssumption
<1>5. Min({Start[s] : s \in Seen(d)}) \in {Start[s] : s \in Seen(d)}
  BY <1>3, MinInSet
<1>6. Min({Start[s] : s \in SpansOf[batch[d]]}) \in {Start[s] : s \in SpansOf[batch[d]]}
  BY <1>4, MinInSet
<1> QED BY <1>5, <1>6, BatchAssumption DEF Starts, Seen

\* Before any request the tables, locks and local fields are in their ranges.
LEMMA TypeInit == Init => TypeOK
BY BatchAssumption DEF Init, TypeOK, Pcs

\* No statement of any request takes a variable out of its range.
LEMMA TypeNext == TypeOK /\ KeysExist /\ [Next]_vars => TypeOK'
<1> SUFFICES ASSUME TypeOK, KeysExist, [Next]_vars PROVE TypeOK'
  OBVIOUS
<1> USE DEF TypeOK, tables, locks
<1>1. ASSUME NEW d \in Deliveries, Receive(d) PROVE TypeOK'
  BY <1>1 DEF Receive, Goto, Pcs, Active
<1>2. ASSUME NEW d \in Deliveries, NEW s \in Spans, UpsertSpan(d, s) PROVE TypeOK'
  BY <1>2 DEF UpsertSpan
<1>3. ASSUME NEW d \in Deliveries, SpansUpserted(d) PROVE TypeOK'
  BY <1>3 DEF SpansUpserted, Goto, Pcs, Active
<1>4. ASSUME NEW d \in Deliveries, DeleteEvents(d) PROVE TypeOK'
  BY <1>4 DEF DeleteEvents, Deletes, Goto, Pcs, Active
<1>5. ASSUME NEW d \in Deliveries, InsertEvents(d) PROVE TypeOK'
  BY <1>5 DEF InsertEvents, Goto, Pcs, Active
<1>6. ASSUME NEW d \in Deliveries, RecomputeRollups(d) PROVE TypeOK'
  BY <1>6, SeenCounted DEF RecomputeRollups, Totals, Goto, Pcs, Active
<1>7. ASSUME NEW d \in Deliveries, UpsertTrace(d) PROVE TypeOK'
  <2>1. rowOwner' \in [Starts -> Deliveries \cup {Nobody}]
    BY <1>7 DEF UpsertTrace
  <2>2. DeclaredRow(d) \in Row
    BY DEF DeclaredRow, Row
  <2>3. StubRow(d, rows[RowKey(d)]) \in Row
    <3>1. rows[RowKey(d)] \in Row \cup {NoRow}
      BY <1>7 DEF UpsertTrace, KeysExist
    <3> QED BY <3>1 DEF StubRow, Row
  <2>4. pc' \in [Deliveries -> Pcs]
    BY <1>7 DEF UpsertTrace, Goto, Pcs, Active
  <2>5. DOMAIN newRow' = Deliveries /\ \A e \in Deliveries : newRow'[e].row \in Row \cup {NoRow}
    BY <1>7, <2>2, <2>3 DEF UpsertTrace, Upserted
  <2> QED BY <1>7, <2>1, <2>4, <2>5 DEF UpsertTrace
<1>8. ASSUME NEW d \in Deliveries, Commit(d) PROVE TypeOK'
  <2>1. spans' \in [Spans -> Batches \cup {Absent}]
    BY <1>8 DEF Commit
  <2>2. events' \in [Spans -> SUBSET Deliveries]
    BY <1>8 DEF Commit
  <2>3. rows' \in [Starts -> Row \cup {NoRow}]
    BY <1>8 DEF Commit
  <2>4. first' \in [Spans -> Batches \cup {Absent}]
    BY <1>8 DEF Commit, First
  <2>5. /\ owner' \in [Spans -> Deliveries \cup {Nobody}]
        /\ rowOwner' \in [Starts -> Deliveries \cup {Nobody}]
    BY <1>8 DEF Commit, Release
  <2> QED BY <1>8, <2>1, <2>2, <2>3, <2>4, <2>5 DEF Commit, Goto, Pcs, Active
<1>9. ASSUME NEW d \in Deliveries, Abort(d) PROVE TypeOK'
  BY <1>9 DEF Abort, Release, Goto, Pcs, Active
<1>10. CASE UNCHANGED vars
  BY <1>10 DEF vars
<1> QED BY <1>1, <1>2, <1>3, <1>4, <1>5, <1>6, <1>7, <1>8, <1>9, <1>10 DEF Next, Progress

\* A commit inserts what is not there and updates what is.
LEMMA FirstNext == TypeOK /\ FirstOK /\ [Next]_vars => FirstOK'
<1> SUFFICES ASSUME TypeOK, FirstOK, [Next]_vars PROVE FirstOK'
  OBVIOUS
<1>1. ASSUME NEW d \in Deliveries, Commit(d) PROVE FirstOK'
  <2>1. batch[d] \in Batches /\ batch[d] # Absent
    BY NameAssumption DEF TypeOK
  <2> SUFFICES ASSUME NEW s \in Spans PROVE first'[s] = Absent <=> spans'[s] = Absent
    BY DEF FirstOK
  <2>2. first'[s] = IF s \in SpansOf[batch[d]] THEN First(d, s) ELSE first[s]
    BY <1>1 DEF Commit
  <2>3. spans'[s] = IF s \in SpansOf[batch[d]] THEN batch[d] ELSE spans[s]
    BY <1>1 DEF Commit
  <2> QED BY <2>1, <2>2, <2>3 DEF First, FirstOK
<1>2. ASSUME ~ \E d \in Deliveries : Commit(d) PROVE first' = first /\ spans' = spans
  BY <1>2 DEF Next, Progress, Receive, UpsertSpan, SpansUpserted, DeleteEvents, InsertEvents,
              RecomputeRollups, UpsertTrace, Abort, vars, tables
<1> QED BY <1>1, <1>2 DEF FirstOK

(***************************************************************************)
(* Row locks: who holds a span keeps it to the end of its transaction.     *)
(***************************************************************************)
\* _upsert_spans keeps its row locks to the end of the transaction.
LEMMA LocksNext == TypeOK /\ LocksHeld /\ [Next]_vars => LocksHeld'
<1> SUFFICES ASSUME TypeOK, LocksHeld, [Next]_vars,
                    NEW e \in Deliveries, pc'[e] \in Holding
             PROVE  Missing(e)' = {}
  BY DEF LocksHeld
<1> USE DEF Missing, Holding
<1>1. batch' = batch
  BY DEF Next, Receive, Progress, UpsertSpan, SpansUpserted, DeleteEvents, InsertEvents,
         RecomputeRollups, UpsertTrace, Commit, Abort, vars
<1>2. ASSUME NEW d \in Deliveries, NEW s \in Spans, UpsertSpan(d, s) PROVE Missing(e)' = {}
  <2>1. pc[e] \in Holding /\ e # d
    BY <1>2 DEF UpsertSpan
  <2>2. owner[s] # e
    BY <1>2, NameAssumption DEF UpsertSpan, SpanFree
  <2>3. s \notin SpansOf[batch[e]]
    BY <2>1, <2>2 DEF LocksHeld
  <2> QED BY <1>1, <1>2, <2>1, <2>3 DEF UpsertSpan, LocksHeld, TypeOK
<1>3. ASSUME NEW d \in Deliveries, SpansUpserted(d) PROVE Missing(e)' = {}
  BY <1>1, <1>3 DEF SpansUpserted, Goto, LocksHeld, TypeOK, locks
<1>4. ASSUME NEW d \in Deliveries, Commit(d) \/ Abort(d) PROVE Missing(e)' = {}
  <2>1. pc[e] \in Holding /\ e # d
    BY <1>4 DEF Commit, Abort, Goto, TypeOK
  <2>2. \A s \in Spans : owner[s] = e => owner'[s] = e
    BY <1>4, <2>1 DEF Commit, Abort, Release
  <2>3. \A s \in SpansOf[batch[e]] : s \in Spans /\ owner[s] = e
    BY <2>1, BatchAssumption DEF LocksHeld, TypeOK
  <2> QED BY <1>1, <2>2, <2>3
<1>5. ASSUME NEW d \in Deliveries,
             Receive(d) \/ DeleteEvents(d) \/ InsertEvents(d) \/ RecomputeRollups(d) \/ UpsertTrace(d)
      PROVE  Missing(e)' = {}
  <2>1. pc[e] \in Holding
    BY <1>5 DEF Receive, DeleteEvents, InsertEvents, RecomputeRollups, UpsertTrace, Goto, TypeOK
  <2>2. owner' = owner
    BY <1>5 DEF Receive, DeleteEvents, InsertEvents, RecomputeRollups, UpsertTrace, locks
  <2> QED BY <1>1, <2>1, <2>2 DEF LocksHeld
<1>6. CASE UNCHANGED vars
  BY <1>6 DEF vars, LocksHeld
<1> QED BY <1>2, <1>3, <1>4, <1>5, <1>6 DEF Next, Progress

\* Two transactions past their upserts carry no span in common.
LEMMA DisjointHolders ==
  ASSUME LocksHeld, NEW d \in Deliveries, NEW e \in Deliveries, d # e,
         pc[d] \in Holding, pc[e] \in Holding
  PROVE  SpansOf[batch[d]] \cap SpansOf[batch[e]] = {}
BY DEF LocksHeld, Missing

\* The key a transaction is about to upsert its trace row under is some span's start.
LEMMA KeysNext == TypeOK /\ LocksHeld /\ KeysExist /\ [Next]_vars => KeysExist'
<1> SUFFICES ASSUME TypeOK, LocksHeld, KeysExist, [Next]_vars,
                    NEW e \in Deliveries, pc'[e] = "row"
             PROVE  RowKey(e)' \in Starts
  BY DEF KeysExist, Starts
<1>1. batch' = batch
  BY DEF Next, Receive, Progress, UpsertSpan, SpansUpserted, DeleteEvents, InsertEvents,
         RecomputeRollups, UpsertTrace, Commit, Abort, vars
<1>2. CASE RecomputeRollups(e)
  <2>1. Missing(e) = {} /\ batch[e] \in Batches
    BY <1>2 DEF RecomputeRollups, LocksHeld, Holding, TypeOK
  <2>2. rollup'[e].earliest = Min({Start[s] : s \in Seen(e)})
    BY <1>2 DEF RecomputeRollups, Totals, TypeOK
  <2> QED BY <1>1, <2>1, <2>2, SeenKey DEF RowKey
<1>3. CASE ~RecomputeRollups(e)
  <2>1. ASSUME NEW d \in Deliveries, RecomputeRollups(d)
        PROVE  pc[e] = "row" /\ rollup'[e] = rollup[e]
    BY <1>3, <2>1 DEF RecomputeRollups, Goto, TypeOK
  <2>2. ASSUME NEW d \in Deliveries,
               Receive(d) \/ SpansUpserted(d) \/ DeleteEvents(d) \/ InsertEvents(d)
               \/ UpsertTrace(d) \/ Commit(d) \/ Abort(d)
        PROVE  pc[e] = "row" /\ rollup'[e] = rollup[e]
    BY <2>2 DEF Receive, SpansUpserted, DeleteEvents, InsertEvents, UpsertTrace, Commit, Abort,
                Goto, TypeOK
  <2>3. ASSUME NEW d \in Deliveries, NEW s \in Spans, UpsertSpan(d, s)
        PROVE  pc[e] = "row" /\ rollup'[e] = rollup[e]
    BY <2>3 DEF UpsertSpan
  <2>4. pc[e] = "row" /\ rollup'[e] = rollup[e]
    BY <2>1, <2>2, <2>3 DEF Next, Progress, vars
  <2> QED BY <1>1, <2>4 DEF KeysExist, RowKey
<1> QED BY <1>2, <1>3

(***************************************************************************)
(* Events.                                                                 *)
(***************************************************************************)
\* What a commit leaves: exactly its own event rows on the spans it carries events
\* for, and every other span's events as they were.
LEMMA CommitEvents ==
  ASSUME TypeOK, DeletesCurrent, NEW d \in Deliveries, Commit(d), NEW s \in Spans
  PROVE  events'[s] = IF s \in EventsOf[batch[d]] THEN {d} ELSE events[s]
<1>1. deleted[d] = Deletes(d)
  BY DEF DeletesCurrent, Commit, Holding
<1>2. events'[s] = (events[s] \ deleted[d][s]) \cup (IF s \in EventsOf[batch[d]] THEN {d} ELSE {})
  BY DEF Commit
<1> QED BY <1>1, <1>2 DEF Deletes

\* What a transaction's DELETE removed stays all there is to remove until it commits.
LEMMA DeletesNext == TypeOK /\ LocksHeld /\ DeletesCurrent /\ [Next]_vars => DeletesCurrent'
<1> SUFFICES ASSUME TypeOK, LocksHeld, DeletesCurrent, [Next]_vars,
                    NEW e \in Deliveries, pc'[e] \in Holding \ {"delete"}
             PROVE  deleted'[e] = Deletes(e)'
  BY DEF DeletesCurrent
<1> USE DEF Holding
<1>1. batch' = batch
  BY DEF Next, Receive, Progress, UpsertSpan, SpansUpserted, DeleteEvents, InsertEvents,
         RecomputeRollups, UpsertTrace, Commit, Abort, vars
<1>2. ASSUME NEW d \in Deliveries, Commit(d) PROVE deleted'[e] = Deletes(e)'
  <2>1. pc[e] \in Holding \ {"delete"} /\ pc[d] \in Holding /\ e # d
    BY <1>2 DEF Commit, Goto, TypeOK
  <2>2. SpansOf[batch[d]] \cap SpansOf[batch[e]] = {}
    BY <2>1, DisjointHolders
  <2>3. ASSUME NEW s \in Spans, s \in EventsOf[batch[e]] PROVE events'[s] = events[s]
    <3>1. s \notin EventsOf[batch[d]]
      BY <2>2, <2>3, BatchAssumption DEF TypeOK
    <3>2. events'[s] = IF s \in EventsOf[batch[d]] THEN {d} ELSE events[s]
      BY <1>2, CommitEvents
    <3> QED BY <3>1, <3>2
  <2>4. deleted'[e] = deleted[e]
    BY <1>2 DEF Commit
  <2>5. deleted[e] = Deletes(e)
    BY <2>1 DEF DeletesCurrent
  <2> QED BY <1>1, <2>3, <2>4, <2>5 DEF Deletes
<1>3. ASSUME NEW d \in Deliveries, DeleteEvents(d) PROVE deleted'[e] = Deletes(e)'
  <2>1. events' = events
    BY <1>3 DEF DeleteEvents, tables
  <2>2. CASE e = d
    BY <1>1, <1>3, <2>1, <2>2 DEF DeleteEvents, Deletes, TypeOK
  <2>3. CASE e # d
    <3>1. pc[e] \in Holding \ {"delete"} /\ deleted'[e] = deleted[e]
      BY <1>3, <2>3 DEF DeleteEvents, Goto, TypeOK
    <3> QED BY <1>1, <2>1, <3>1 DEF DeletesCurrent, Deletes
  <2> QED BY <2>2, <2>3
<1>4. CASE ~ \E d \in Deliveries : Commit(d) \/ DeleteEvents(d)
  <2>1. pc[e] \in Holding \ {"delete"} /\ events' = events /\ deleted' = deleted
    BY <1>4 DEF Next, Receive, Progress, UpsertSpan, SpansUpserted, InsertEvents,
         RecomputeRollups, UpsertTrace, Abort, vars, tables, Goto, TypeOK
  <2> QED BY <1>1, <2>1 DEF DeletesCurrent, Deletes
<1> QED BY <1>2, <1>3, <1>4

\* Only a commit touches the committed tables.
LEMMA TablesOnlyByCommit ==
  ASSUME [Next]_vars, ~ \E d \in Deliveries : Commit(d)
  PROVE  spans' = spans /\ first' = first /\ events' = events /\ batch' = batch
BY DEF Next, Receive, Progress, UpsertSpan, SpansUpserted, DeleteEvents, InsertEvents,
       RecomputeRollups, UpsertTrace, Abort, vars, tables

\* No step duplicates events or mixes those of two versions of a span.
LEMMA EventsNext ==
  IInv /\ [Next]_vars => EventsOnce' /\ EventsMatchSpan'
<1> SUFFICES ASSUME IInv, [Next]_vars PROVE EventsOnce' /\ EventsMatchSpan'
  OBVIOUS
<1> USE DEF IInv
<1>1. ASSUME NEW d \in Deliveries, Commit(d) PROVE EventsOnce' /\ EventsMatchSpan'
  <2>1. \A s \in Spans : events'[s] = IF s \in EventsOf[batch[d]] THEN {d} ELSE events[s]
    BY <1>1, CommitEvents
  <2>2. \A s \in Spans : spans'[s] = IF s \in SpansOf[batch[d]] THEN batch[d] ELSE spans[s]
    BY <1>1 DEF Commit
  <2>3. batch' = batch /\ EventsOf[batch[d]] \subseteq SpansOf[batch[d]]
    BY <1>1, BatchAssumption DEF Commit, TypeOK
  <2>4. EventsOnce'
    BY <2>1 DEF EventsOnce
  <2>5. ASSUME NEW s \in Spans, NEW b \in Batches, spans'[s] = b, s \in EventsOf[b]
        PROVE  \E e \in Deliveries : events'[s] = {e} /\ batch'[e] = b
    <3>1. CASE s \in SpansOf[batch[d]]
      BY <2>1, <2>2, <2>3, <2>5, <3>1
    <3>2. CASE s \notin SpansOf[batch[d]]
      BY <2>1, <2>2, <2>3, <2>5, <3>2 DEF EventsMatchSpan
    <3> QED BY <3>1, <3>2
  <2> QED BY <2>4, <2>5 DEF EventsMatchSpan
<1>2. CASE ~ \E d \in Deliveries : Commit(d)
  BY <1>2, TablesOnlyByCommit DEF EventsOnce, EventsMatchSpan
<1> QED BY <1>1, <1>2

\* The inductive invariant holds before any request.
LEMMA IInvInit == Init => IInv
<1> SUFFICES ASSUME Init PROVE IInv
  OBVIOUS
<1>1. TypeOK
  BY TypeInit
<1>2. FirstOK /\ LocksHeld /\ KeysExist /\ DeletesCurrent
  BY DEF Init, FirstOK, LocksHeld, KeysExist, DeletesCurrent, Holding
<1>3. EventsOnce /\ EventsMatchSpan
  BY NameAssumption DEF Init, EventsOnce, EventsMatchSpan
<1> QED BY <1>1, <1>2, <1>3 DEF IInv

\* Every step preserves the inductive invariant.
LEMMA IInvNext == IInv /\ [Next]_vars => IInv'
BY TypeNext, FirstNext, LocksNext, KeysNext, DeletesNext, EventsNext DEF IInv

\* The inductive invariant holds of every behaviour of the ingest service.
THEOREM IInvAlways == Spec => []IInv
BY IInvInit, IInvNext, PTL DEF Spec

\* Every variable stays in its range, for every set of spans, batches and deliveries.
THEOREM TypeCorrect == Spec => []TypeOK
<1>1. IInv => TypeOK
  BY DEF IInv
<1> QED BY <1>1, IInvAlways, PTL

\* However many deliveries of however many batches run at once, a span's event rows
\* come from one delivery, and from one of the batch whose version of the span is stored.
THEOREM EventsFollowSpan == Spec => []EventsExact
<1>1. IInv => EventsExact
  BY DEF IInv, EventsExact
<1> QED BY <1>1, IInvAlways, PTL

(***************************************************************************)
(* Refinement: a commit is one Ingest of TraceStore, all else stutters.    *)
(***************************************************************************)
Mapped == [s \in Spans |-> {batch[d] : d \in events[s]}]

\* An empty database is the empty store.
LEMMA StoreInit == Init => Store!Init
BY DEF Init, Store!Init

\* A commit is one Ingest of the store, every other step changes nothing it shows.
LEMMA StoreNext == IInv /\ [Next]_vars => [Store!Next]_<<first, spans, Mapped>>
<1> SUFFICES ASSUME IInv, [Next]_vars PROVE [Store!Next]_<<first, spans, Mapped>>
  OBVIOUS
<1>1. ASSUME NEW d \in Deliveries, Commit(d) PROVE Store!Ingest(batch[d])
  <2>1. batch' = batch /\ batch[d] \in Batches
    BY <1>1 DEF Commit, IInv, TypeOK
  <2>2. spans' = [s \in Spans |-> IF s \in SpansOf[batch[d]] THEN batch[d] ELSE spans[s]]
    BY <1>1 DEF Commit
  <2>3. \A s \in Spans : events'[s] = IF s \in EventsOf[batch[d]] THEN {d} ELSE events[s]
    BY <1>1, CommitEvents DEF IInv
  <2>4. \A s \in Spans : {batch'[e] : e \in events'[s]}
                          = IF s \in EventsOf[batch[d]] THEN {batch[d]} ELSE Mapped[s]
    BY <2>1, <2>3 DEF Mapped
  <2>5. Mapped' = [s \in Spans |-> IF s \in EventsOf[batch[d]] THEN {batch[d]} ELSE Mapped[s]]
    BY <2>4 DEF Mapped
  <2>6. first' = [s \in Spans |-> IF s \in SpansOf[batch[d]] /\ first[s] = Absent THEN batch[d]
                                    ELSE first[s]]
    BY <1>1 DEF Commit, First
  <2> QED BY <2>2, <2>5, <2>6 DEF Store!Ingest, Mapped
<1>2. CASE ~ \E d \in Deliveries : Commit(d)
  BY <1>2, TablesOnlyByCommit DEF Mapped
<1>3. ASSUME NEW d \in Deliveries, Commit(d) PROVE Store!Next
  <2>1. batch[d] \in Batches
    BY DEF IInv, TypeOK
  <2>2. Store!Ingest(batch[d])
    BY <1>1, <1>3
  <2> QED BY <2>1, <2>2 DEF Store!Next, Store!Ingest
<1> QED BY <1>2, <1>3

\* The concurrent service implements the one-batch-at-a-time store.
THEOREM IngestSerializable == Spec => Serializable
<1>1. Init => Store!Init
  BY StoreInit
<1>2. IInv /\ [Next]_vars => [Store!Next]_<<first, spans, [s \in Spans |-> {batch[d] : d \in events[s]}]>>
  BY StoreNext DEF Mapped
<1> QED BY <1>1, <1>2, IInvAlways, PTL DEF Spec, Serializable, Store!Spec

(***************************************************************************)
(* Redeliveries.  The row lock keeps what a transaction is about to leave  *)
(* in its trace row true of that row until it commits; when requests come  *)
(* one at a time the totals it read stay true as well, so the row of the   *)
(* batch committed last always describes the spans that are stored, and    *)
(* committing the same batch again can only rewrite what is there.         *)
(***************************************************************************)
\* A transaction locks only spans it carries.
LocksOwn == \A s \in Spans, d \in Deliveries : owner[s] = d => s \in SpansOf[batch[d]]

\* From its upsert to its commit a transaction holds its trace row, and what it will
\* leave there is still what that row and its totals ask for.
RowHeld(d) ==
  /\ RowKey(d) \in Starts
  /\ rowOwner[RowKey(d)] = d
  /\ newRow[d] = [key |-> RowKey(d), row |-> Upserted(d)]
RowsHeld == \A d \in Deliveries : pc[d] = "commit" => RowHeld(d)

\* While requests come one at a time there is one in flight, and the totals it read stay
\* the totals of what it sees.
Alone == ~overlapped => \A d, e \in InFlight : d = e
TotalsCurrent ==
  ~overlapped => \A d \in Deliveries : pc[d] \in {"row", "commit"} => rollup[d] = Totals(d)

\* The row the batch committed last wrote, and what it says of what is stored.
Failing == {s \in Stored : s \in ErrorsOf[spans[s]]}
DeclaredOK(b) ==
  rows[Min({Start[s] : s \in SpansOf[b]})]
    = [declared |-> TRUE, status |-> IF Root \in ErrorsOf[b] THEN "error" ELSE "ok",
       count |-> Cardinality(Stored)]
StubSays(r) ==
  /\ r \in Row
  /\ r.count = Cardinality(Stored)
  /\ Cardinality(Failing) > 0 => r.status = "error"
StubOK == StubSays(rows[Min({Start[s] : s \in Stored})])
LastOK ==
  IF log = <<>> THEN Stored = {}
  ELSE LET b == log[Len(log)] IN
         /\ \A s \in SpansOf[b] : spans[s] = b
         /\ ~overlapped => IF Declares(b) THEN DeclaredOK(b) ELSE StubOK

\* The ghosts stay in their ranges.
RedeliveryRanges == log \in Seq(Batches) /\ overlapped \in BOOLEAN

RedeliveryInv ==
  /\ RedeliveryRanges
  /\ LocksOwn /\ RowsHeld /\ Alone /\ TotalsCurrent /\ LastOK

\* A transaction sees the version it will leave of every span.
LEMMA CommitSpans ==
  ASSUME TypeOK, LocksHeld, LocksOwn, NEW d \in Deliveries, Commit(d)
  PROVE  /\ \A s \in Spans : spans'[s] = SeenVersion(d, s)
         /\ Stored' = Seen(d)
         /\ Failing' = Erroneous(d)
<1>1. \A s \in Spans : owner[s] = d <=> s \in SpansOf[batch[d]]
  BY DEF LocksHeld, LocksOwn, Missing, Holding, Commit
<1>2. spans' = [s \in Spans |-> IF s \in SpansOf[batch[d]] THEN batch[d] ELSE spans[s]]
  BY DEF Commit
<1>3. \A s \in Spans : spans'[s] = SeenVersion(d, s)
  BY <1>1, <1>2 DEF SeenVersion
<1>4. Stored' = Seen(d)
  BY <1>3 DEF Stored, Seen
<1> QED BY <1>3, <1>4 DEF Failing, Erroneous, Stored, Seen

\* What the totals of a transaction depend on: the stored versions and who holds them.
LEMMA TotalsFrame ==
  ASSUME NEW e \in Deliveries, batch' = batch, spans' = spans, owner' = owner
  PROVE  Totals(e)' = Totals(e)
<1>1. Seen(e)' = Seen(e) /\ Erroneous(e)' = Erroneous(e)
  BY DEF Seen, Erroneous, SeenVersion
<1> QED BY <1>1 DEF Totals

\* What Upserted depends on.
LEMMA UpsertedFrame ==
  ASSUME NEW e \in Deliveries, batch' = batch, rollup'[e] = rollup[e],
         rows'[RowKey(e)] = rows[RowKey(e)]
  PROVE  RowKey(e)' = RowKey(e) /\ Upserted(e)' = Upserted(e)
<1>1. RowKey(e)' = RowKey(e)
  BY DEF RowKey
<1>2. DeclaredRow(e)' = DeclaredRow(e)
  BY DEF DeclaredRow
<1>3. (rows[RowKey(e)])' = rows[RowKey(e)]
  BY <1>1
<1>4. StubRow(e, rows[RowKey(e)])' = StubRow(e, rows[RowKey(e)])
  BY <1>3 DEF StubRow
<1> QED BY <1>1, <1>2, <1>4 DEF Upserted

\* What a transaction is about to leave in its trace row is a row.
LEMMA UpsertedType ==
  ASSUME TypeOK, NEW d \in Deliveries, RowKey(d) \in Starts
  PROVE  Upserted(d) \in Row
<1>1. rollup[d].count \in Nat /\ rows[RowKey(d)] \in Row \cup {NoRow}
  BY DEF TypeOK
<1>2. DeclaredRow(d) \in Row
  BY <1>1 DEF DeclaredRow, Row
<1>3. StubRow(d, rows[RowKey(d)]) \in Row
  BY <1>1 DEF StubRow, Row
<1> QED BY <1>2, <1>3 DEF Upserted

\* A transaction only ever locks what it carries.
LEMMA LocksOwnNext == TypeOK /\ LocksOwn /\ [Next]_vars => LocksOwn'
<1> SUFFICES ASSUME TypeOK, LocksOwn, [Next]_vars,
                    NEW s \in Spans, NEW e \in Deliveries, owner'[s] = e
             PROVE  s \in SpansOf[batch[e]]' 
  BY DEF LocksOwn
<1>1. batch' = batch
  BY DEF Next, Receive, Progress, UpsertSpan, SpansUpserted, DeleteEvents, InsertEvents,
         RecomputeRollups, UpsertTrace, Commit, Abort, vars
<1>2. ASSUME NEW d \in Deliveries, NEW t \in Spans, UpsertSpan(d, t)
      PROVE  owner[s] = e \/ s \in SpansOf[batch[e]]
  BY <1>2 DEF UpsertSpan, Missing, TypeOK
<1>3. ASSUME NEW d \in Deliveries, Commit(d) \/ Abort(d) PROVE owner[s] = e
  BY <1>3, NameAssumption DEF Commit, Abort, Release
<1>4. ASSUME NEW d \in Deliveries,
             Receive(d) \/ SpansUpserted(d) \/ DeleteEvents(d) \/ InsertEvents(d)
             \/ RecomputeRollups(d) \/ UpsertTrace(d)
      PROVE  owner[s] = e
  BY <1>4 DEF Receive, SpansUpserted, DeleteEvents, InsertEvents, RecomputeRollups,
              UpsertTrace, locks
<1>5. owner[s] = e \/ s \in SpansOf[batch[e]]
  BY <1>2, <1>3, <1>4 DEF Next, Progress, vars
<1> QED BY <1>1, <1>5 DEF LocksOwn

\* From its upsert to its commit a transaction's row, key and totals stay as they are.
LEMMA RowsHeldNext == TypeOK /\ KeysExist /\ RowsHeld /\ [Next]_vars => RowsHeld'
<1> SUFFICES ASSUME TypeOK, KeysExist, RowsHeld, [Next]_vars,
                    NEW e \in Deliveries, pc'[e] = "commit"
             PROVE  RowHeld(e)'
  BY DEF RowsHeld
<1>1. batch' = batch
  BY DEF Next, Receive, Progress, UpsertSpan, SpansUpserted, DeleteEvents, InsertEvents,
         RecomputeRollups, UpsertTrace, Commit, Abort, vars
<1>2. ASSUME UpsertTrace(e) PROVE RowHeld(e)'
  <2>1. RowKey(e) \in Starts
    BY <1>2 DEF UpsertTrace, KeysExist
  <2>2. rollup' = rollup /\ rows' = rows
    BY <1>2 DEF UpsertTrace, tables
  <2>3. RowKey(e)' = RowKey(e) /\ Upserted(e)' = Upserted(e)
    BY <1>1, <2>2, UpsertedFrame
  <2>4. rowOwner'[RowKey(e)] = e
    BY <1>2, <2>1 DEF UpsertTrace, TypeOK
  <2>5. newRow'[e] = [key |-> RowKey(e), row |-> Upserted(e)]
    BY <1>2 DEF UpsertTrace, TypeOK
  <2> QED BY <2>1, <2>3, <2>4, <2>5 DEF RowHeld
<1>3. ASSUME pc[e] = "commit", newRow'[e] = newRow[e], rollup'[e] = rollup[e],
             rowOwner'[RowKey(e)] = e, rows'[RowKey(e)] = rows[RowKey(e)]
      PROVE  RowHeld(e)'
  <2>1. RowHeld(e)
    BY <1>3 DEF RowsHeld
  <2>2. RowKey(e)' = RowKey(e) /\ Upserted(e)' = Upserted(e)
    BY <1>1, <1>3, UpsertedFrame
  <2> QED BY <1>3, <2>1, <2>2 DEF RowHeld
<1>4. ASSUME pc[e] = "commit", NEW d \in Deliveries, d # e, Commit(d) \/ Abort(d)
      PROVE  RowHeld(e)'
  <2>1. RowHeld(e)
    BY <1>4 DEF RowsHeld
  <2>2. newRow' = newRow /\ rollup' = rollup
    BY <1>4 DEF Commit, Abort
  <2>3. rowOwner'[RowKey(e)] = e
    BY <1>4, <2>1 DEF Commit, Abort, Release, RowHeld
  <2>4. CASE Abort(d)
    <3>1. rows' = rows
      BY <2>4 DEF Abort, tables
    <3> QED BY <1>3, <1>4, <2>2, <2>3, <3>1
  <2>5. CASE Commit(d)
    <3>1. RowHeld(d)
      BY <2>5 DEF Commit, RowsHeld
    <3>2. newRow[d].key # RowKey(e)
      BY <1>4, <2>1, <3>1 DEF RowHeld
    <3>3. rows'[RowKey(e)] = rows[RowKey(e)]
      BY <2>1, <2>5, <3>2 DEF Commit, RowHeld, TypeOK
    <3> QED BY <1>3, <1>4, <2>2, <2>3, <3>3
  <2> QED BY <1>4, <2>4, <2>5
<1>5. ASSUME NEW d \in Deliveries, d # e, UpsertTrace(d) PROVE RowHeld(e)'
  <2>1. pc[e] = "commit"
    BY <1>5 DEF UpsertTrace, Goto, TypeOK
  <2>2. RowHeld(e)
    BY <2>1 DEF RowsHeld
  <2>3. RowKey(d) # RowKey(e)
    BY <1>5, <2>2, NameAssumption DEF UpsertTrace, RowHeld
  <2>4. rowOwner'[RowKey(e)] = e
    BY <1>5, <2>2, <2>3 DEF UpsertTrace, RowHeld, TypeOK
  <2>5. newRow'[e] = newRow[e] /\ rollup' = rollup /\ rows' = rows
    BY <1>5 DEF UpsertTrace, tables, TypeOK
  <2> QED BY <1>3, <2>1, <2>4, <2>5
<1>6. ASSUME NEW d \in Deliveries, RecomputeRollups(d) PROVE RowHeld(e)'
  <2>1. pc[e] = "commit" /\ d # e
    BY <1>6 DEF RecomputeRollups, Goto, TypeOK
  <2>2. rollup'[e] = rollup[e] /\ newRow' = newRow /\ rows' = rows /\ rowOwner' = rowOwner
    BY <1>6, <2>1 DEF RecomputeRollups, tables, locks, TypeOK
  <2>3. RowHeld(e)
    BY <2>1 DEF RowsHeld
  <2> QED BY <1>3, <2>1, <2>2, <2>3 DEF RowHeld
<1>7. ASSUME pc[e] = "commit", newRow' = newRow, rollup' = rollup, rows' = rows, rowOwner' = rowOwner
      PROVE  RowHeld(e)'
  <2>1. RowHeld(e)
    BY <1>7 DEF RowsHeld
  <2> QED BY <1>3, <1>7, <2>1 DEF RowHeld
<1>8. ASSUME NEW d \in Deliveries,
             Receive(d) \/ SpansUpserted(d) \/ DeleteEvents(d) \/ InsertEvents(d)
             \/ \E s \in Spans : UpsertSpan(d, s)
      PROVE  RowHeld(e)'
  <2>1. pc[e] = "commit"
    BY <1>8 DEF Receive, SpansUpserted, DeleteEvents, InsertEvents, UpsertSpan, Goto, TypeOK
  <2>2. newRow' = newRow /\ rollup' = rollup /\ rows' = rows /\ rowOwner' = rowOwner
    BY <1>8 DEF Receive, SpansUpserted, DeleteEvents, InsertEvents, UpsertSpan, tables, locks
  <2> QED BY <1>7, <2>1, <2>2
<1>9. ASSUME NEW d \in Deliveries, Commit(d) \/ Abort(d) PROVE pc[e] = "commit" /\ d # e
  BY <1>9 DEF Commit, Abort, Goto, TypeOK
<1>10. CASE UNCHANGED vars
  BY <1>7, <1>10 DEF vars
<1> QED BY <1>2, <1>4, <1>5, <1>6, <1>8, <1>9, <1>10 DEF Next, Progress

\* The log is a sequence of batches and a request that finds another one ends Alone.
LEMMA AloneNext == RedeliveryRanges /\ TypeOK /\ Alone /\ [Next]_vars
                     => RedeliveryRanges' /\ Alone' /\ (overlapped => overlapped')
<1> SUFFICES ASSUME RedeliveryRanges, TypeOK, Alone, [Next]_vars
             PROVE  RedeliveryRanges' /\ Alone' /\ (overlapped => overlapped')
  OBVIOUS
<1>1. ASSUME NEW d \in Deliveries, Receive(d)
      PROVE  RedeliveryRanges' /\ Alone' /\ (overlapped => overlapped')
  <2>1. RedeliveryRanges' /\ (overlapped => overlapped')
    BY <1>1 DEF Receive, RedeliveryRanges
  <2>2. ASSUME ~overlapped', NEW e \in InFlight' PROVE e = d
    <3>1. InFlight = {}
      BY <1>1, <2>2 DEF Receive
    <3>2. \A f \in Deliveries : f # d => pc'[f] = pc[f]
      BY <1>1 DEF Receive, Goto, TypeOK
    <3> QED BY <3>1, <3>2 DEF InFlight
  <2> QED BY <2>1, <2>2 DEF Alone
<1>2. ASSUME NEW d \in Deliveries, Progress(d) \/ Abort(d)
      PROVE  RedeliveryRanges' /\ Alone' /\ (overlapped => overlapped')
  <2>1. overlapped' = overlapped
    BY <1>2 DEF Progress, UpsertSpan, SpansUpserted, DeleteEvents, InsertEvents,
                RecomputeRollups, UpsertTrace, Commit, Abort
  <2>2. log' = log \/ log' = Append(log, batch[d])
    BY <1>2 DEF Progress, UpsertSpan, SpansUpserted, DeleteEvents, InsertEvents,
                RecomputeRollups, UpsertTrace, Commit, Abort
  <2>3. batch[d] \in Batches
    BY DEF TypeOK
  <2>4. RedeliveryRanges'
    BY <2>1, <2>2, <2>3 DEF RedeliveryRanges
  <2>5. \A e \in Deliveries : pc'[e] \in Active => pc[e] \in Active
    BY <1>2 DEF Progress, UpsertSpan, SpansUpserted, DeleteEvents, InsertEvents,
                RecomputeRollups, UpsertTrace, Commit, Abort, Goto, TypeOK, Active
  <2> QED BY <2>1, <2>4, <2>5 DEF Alone, InFlight
<1>3. CASE UNCHANGED vars
  BY <1>3 DEF vars, RedeliveryRanges, Alone, InFlight
<1> QED BY <1>1, <1>2, <1>3 DEF Next

\* Alone, nothing a transaction has counted changes before it commits.
LEMMA TotalsNext ==
  TypeOK /\ RedeliveryRanges /\ Alone /\ TotalsCurrent /\ [Next]_vars => TotalsCurrent'
<1> SUFFICES ASSUME TypeOK, RedeliveryRanges, Alone, TotalsCurrent, [Next]_vars, ~overlapped',
                    NEW e \in Deliveries, pc'[e] \in {"row", "commit"}
             PROVE  rollup'[e] = Totals(e)'
  BY DEF TotalsCurrent
<1>1. batch' = batch
  BY DEF Next, Receive, Progress, UpsertSpan, SpansUpserted, DeleteEvents, InsertEvents,
         RecomputeRollups, UpsertTrace, Commit, Abort, vars
<1>2. ~overlapped
  BY AloneNext
<1>3. ASSUME NEW d \in Deliveries, pc[d] \in Active, d # e, pc'[e] = pc[e] PROVE FALSE
  <2>1. d \in InFlight /\ e \in InFlight
    BY <1>3 DEF InFlight, Active
  <2> QED BY <1>2, <1>3, <2>1 DEF Alone
<1>4. ASSUME RecomputeRollups(e) PROVE rollup'[e] = Totals(e)'
  <2>1. spans' = spans /\ owner' = owner
    BY <1>4 DEF RecomputeRollups, tables, locks
  <2>2. rollup'[e] = Totals(e)
    BY <1>4 DEF RecomputeRollups, TypeOK
  <2> QED BY <1>1, <2>1, <2>2, TotalsFrame
<1>5. ASSUME pc[e] \in {"row", "commit"}, rollup' = rollup, spans' = spans, owner' = owner
      PROVE  rollup'[e] = Totals(e)'
  <2>1. rollup[e] = Totals(e)
    BY <1>2, <1>5 DEF TotalsCurrent
  <2> QED BY <1>1, <1>5, <2>1, TotalsFrame
<1>6. ASSUME UpsertTrace(e) PROVE rollup'[e] = Totals(e)'
  BY <1>5, <1>6 DEF UpsertTrace, tables
<1>7. ASSUME NEW d \in Deliveries, Receive(d) PROVE rollup'[e] = Totals(e)'
  <2>1. pc[e] \in {"row", "commit"}
    BY <1>7 DEF Receive, Goto, TypeOK
  <2> QED BY <1>5, <1>7, <2>1 DEF Receive, tables, locks
<1>8. ASSUME NEW d \in Deliveries, d # e, Progress(d) \/ Abort(d) PROVE FALSE
  <2>1. pc[d] \in Active
    BY <1>8 DEF Progress, UpsertSpan, SpansUpserted, DeleteEvents, InsertEvents,
                RecomputeRollups, UpsertTrace, Commit, Abort, Active
  <2>2. pc'[e] = pc[e]
    BY <1>8 DEF Progress, UpsertSpan, SpansUpserted, DeleteEvents, InsertEvents,
                RecomputeRollups, UpsertTrace, Commit, Abort, Goto, TypeOK
  <2> QED BY <1>3, <1>8, <2>1, <2>2
<1>9. ASSUME NEW s \in Spans, UpsertSpan(e, s) PROVE FALSE
  BY <1>9 DEF UpsertSpan
<1>10. ASSUME SpansUpserted(e) \/ DeleteEvents(e) \/ InsertEvents(e) \/ Commit(e) \/ Abort(e) PROVE FALSE
  BY <1>10 DEF SpansUpserted, DeleteEvents, InsertEvents, Commit, Abort, Goto, TypeOK
<1>11. CASE UNCHANGED vars
  BY <1>5, <1>11 DEF vars
<1> QED BY <1>4, <1>6, <1>7, <1>8, <1>9, <1>10, <1>11 DEF Next, Progress

\* A commit, made alone, leaves the row its batch asks for.
LEMMA CommitLast ==
  ASSUME IInv, RedeliveryInv, NEW d \in Deliveries, Commit(d)
  PROVE  LastOK'
<1> USE DEF IInv, RedeliveryInv
<1>1. PICK b \in Batches : b = batch[d]
  BY DEF TypeOK
<1>2. log' # <<>> /\ log'[Len(log')] = b
  <2>1. log \in Seq(Batches) /\ log' = Append(log, b)
    BY <1>1 DEF RedeliveryRanges, Commit
  <2> QED BY <2>1
<1>3. \A s \in SpansOf[b] : spans'[s] = b
  BY <1>1, BatchAssumption DEF Commit, TypeOK
<1>4. ASSUME ~overlapped' PROVE IF Declares(b) THEN DeclaredOK(b)' ELSE StubOK'
  <2>1. rollup[d] = Totals(d)
    BY <1>4 DEF Commit, TotalsCurrent
  <2>2. Stored' = Seen(d) /\ Failing' = Erroneous(d)
    BY CommitSpans
  <2>3. RowHeld(d)
    BY DEF Commit, RowsHeld
  <2>4. rows'[RowKey(d)] = Upserted(d) /\ Upserted(d) \in Row
    <3>1. Upserted(d) \in Row
      BY <2>3, UpsertedType DEF RowHeld
    <3> QED BY <2>3, <3>1 DEF Commit, RowHeld, TypeOK
  <2>5. CASE Declares(b)
    <3>1. RowKey(d) = Min({Start[s] : s \in SpansOf[b]})
      BY <1>1, <2>5 DEF RowKey
    <3>2. Upserted(d) = DeclaredRow(d)
      BY <1>1, <2>5 DEF Upserted
    <3>3. rollup[d].count = Cardinality(Stored')
      BY <2>1, <2>2 DEF Totals
    <3>4. DeclaredOK(b)'
      BY <1>1, <2>4, <3>1, <3>2, <3>3 DEF DeclaredOK, DeclaredRow
    <3> QED BY <2>5, <3>4
  <2>6. CASE ~Declares(b)
    <3>1. RowKey(d) = Min({Start[s] : s \in Stored'})
      BY <1>1, <2>1, <2>2, <2>6 DEF RowKey, Totals
    <3>2. Upserted(d) = StubRow(d, rows[RowKey(d)])
      BY <1>1, <2>6 DEF Upserted
    <3>3. rollup[d].count = Cardinality(Stored') /\ rollup[d].errors = Cardinality(Failing')
      BY <2>1, <2>2 DEF Totals
    <3>4. /\ Upserted(d).count = Cardinality(Stored')
          /\ Cardinality(Failing') > 0 => Upserted(d).status = "error"
      BY <3>2, <3>3 DEF StubRow
    <3>5. StubOK'
      BY <2>4, <3>1, <3>4 DEF StubOK, StubSays
    <3> QED BY <2>6, <3>5
  <2> QED BY <2>5, <2>6
<1>5. \A c : Declares(c)' = Declares(c)
  BY DEF Declares
<1> QED BY <1>2, <1>3, <1>4, <1>5 DEF LastOK

\* The row of the batch committed last stays true of the store.
LEMMA LastNext == IInv /\ RedeliveryInv /\ [Next]_vars => LastOK'
<1> SUFFICES ASSUME IInv, RedeliveryInv, [Next]_vars PROVE LastOK'
  OBVIOUS
<1>1. ASSUME NEW d \in Deliveries, Commit(d) PROVE LastOK'
  BY <1>1, CommitLast
<1>2. ASSUME ~ \E d \in Deliveries : Commit(d) PROVE LastOK'
  <2>1. spans' = spans /\ rows' = rows /\ log' = log
    BY <1>2 DEF Next, Receive, Progress, UpsertSpan, SpansUpserted, DeleteEvents, InsertEvents,
                RecomputeRollups, UpsertTrace, Abort, vars, tables
  <2>2. overlapped => overlapped'
    BY AloneNext DEF RedeliveryInv, IInv
  <2>3. Stored' = Stored /\ Failing' = Failing
    BY <2>1 DEF Stored, Failing
  <2>4. StubOK' = StubOK /\ \A b : DeclaredOK(b)' = DeclaredOK(b)
    BY <2>1, <2>3 DEF StubOK, StubSays, DeclaredOK
  <2>5. LastOK
    BY DEF RedeliveryInv
  <2> QED BY <2>1, <2>2, <2>3, <2>4, <2>5 DEF LastOK
<1> QED BY <1>1, <1>2

\* Before any request nothing is stored and nobody holds a row.
LEMMA RedeliveryInit == Init => RedeliveryInv
<1> SUFFICES ASSUME Init PROVE RedeliveryInv
  OBVIOUS
<1>1. RedeliveryRanges
  <2>1. log = <<>> /\ overlapped = FALSE
    BY DEF Init
  <2>2. << >> \in Seq(Batches)
    OBVIOUS
  <2> QED BY <2>1, <2>2 DEF RedeliveryRanges
<1>2. LocksOwn
  BY NameAssumption DEF Init, LocksOwn
<1>3. RowsHeld /\ Alone /\ TotalsCurrent
  BY DEF Init, RowsHeld, Alone, TotalsCurrent, InFlight, Active
<1>4. LastOK
  BY DEF Init, LastOK, Stored
<1> QED BY <1>1, <1>2, <1>3, <1>4 DEF RedeliveryInv

\* The row locks, the totals and the last row are true together of every behaviour.
THEOREM RedeliveryAlways == Spec => [](IInv /\ RedeliveryInv)
<1>1. Init => IInv /\ RedeliveryInv
  BY IInvInit, RedeliveryInit
<1>2. IInv /\ RedeliveryInv /\ [Next]_vars => IInv' /\ RedeliveryInv'
  BY IInvNext, LocksOwnNext, RowsHeldNext, AloneNext, TotalsNext, LastNext DEF IInv, RedeliveryInv
<1> QED BY <1>1, <1>2, PTL DEF Spec

\* Between requests that come one at a time the row counts exactly the stored spans.
LEMMA ExactAlone == IInv /\ RedeliveryInv => RollupExactAlone
<1> SUFFICES ASSUME IInv, RedeliveryInv, ~overlapped, Stored # {}
             PROVE  \E k \in Starts : rows[k] # NoRow /\ rows[k].count = Cardinality(Stored)
  BY DEF RollupExactAlone, RollupExact
<1> USE DEF IInv, RedeliveryInv
<1> DEFINE b == log[Len(log)]
<1>1. log # <<>>
  BY DEF LastOK
<1>2. b \in Batches
  BY <1>1 DEF RedeliveryRanges
<1>3. IF Declares(b) THEN DeclaredOK(b) ELSE StubOK
  BY <1>1 DEF LastOK
<1>4. IsFiniteSet(Stored) /\ Cardinality(Stored) \in Nat
  BY SpanAssumption, FS_Subset, FS_CardinalityType DEF Stored
<1>5. ASSUME NEW T \in SUBSET Spans, T # {} PROVE Min({Start[s] : s \in T}) \in Starts
  <2>1. {Start[s] : s \in T} \in SUBSET Nat /\ {Start[s] : s \in T} # {}
    BY <1>5, SpanAssumption
  <2>2. Min({Start[s] : s \in T}) \in {Start[s] : s \in T}
    BY <2>1, MinInSet
  <2> QED BY <2>2 DEF Starts
<1>6. CASE Declares(b)
  <2> DEFINE k == Min({Start[s] : s \in SpansOf[b]})
  <2>1. k \in Starts
    BY <1>2, <1>5, BatchAssumption
  <2>2. rows[k] = [declared |-> TRUE, status |-> IF Root \in ErrorsOf[b] THEN "error" ELSE "ok",
                   count |-> Cardinality(Stored)]
    BY <1>3, <1>6 DEF DeclaredOK
  <2>3. rows[k].count = Cardinality(Stored) /\ rows[k] \in Row
    <3> HIDE DEF k, b
    <3> QED BY <1>4, <2>2 DEF Row
  <2> QED BY <2>1, <2>3, NameAssumption
<1>7. CASE ~Declares(b)
  <2> DEFINE k == Min({Start[s] : s \in Stored})
  <2>1. k \in Starts
    BY <1>5 DEF Stored
  <2>2. rows[k] \in Row /\ rows[k].count = Cardinality(Stored)
    BY <1>3, <1>7 DEF StubOK, StubSays
  <2> QED BY <2>1, <2>2, NameAssumption
<1> QED BY <1>6, <1>7

\* Committing, alone, the batch committed last rewrites what is there.
LEMMA ReplayStep == IInv /\ RedeliveryInv /\ [Next]_vars => ReplayIsNoop
<1> SUFFICES ASSUME IInv, RedeliveryInv, [Next]_vars, NEW b \in Batches,
                    ~overlapped, log # <<>>, log[Len(log)] = b, log' = Append(log, b)
             PROVE  /\ spans' = spans /\ first' = first
                    /\ rows' = rows
                    /\ \A s \in Spans : (events[s] = {}) = (events'[s] = {})
  BY DEF ReplayIsNoop
<1> USE DEF IInv, RedeliveryInv
<1>1. log' # log
  <2>1. log \in Seq(Batches)
    BY DEF RedeliveryRanges
  <2>2. Len(Append(log, b)) = Len(log) + 1 /\ Len(log) \in Nat
    BY <2>1
  <2> QED BY <2>2
<1>2. PICK d \in Deliveries : Commit(d)
  BY <1>1 DEF Next, Receive, Progress, UpsertSpan, SpansUpserted, DeleteEvents, InsertEvents,
              RecomputeRollups, UpsertTrace, Abort, vars
<1>3. batch[d] = b
  <2>1. log \in Seq(Batches) /\ batch[d] \in Batches
    BY DEF RedeliveryRanges, TypeOK
  <2>2. Append(log, batch[d]) = Append(log, b)
    BY <1>2 DEF Commit
  <2>3. Append(log, batch[d])[Len(log) + 1] = batch[d] /\ Append(log, b)[Len(log) + 1] = b
    BY <2>1
  <2> QED BY <2>2, <2>3
<1>4. /\ \A s \in SpansOf[b] : spans[s] = b
      /\ IF Declares(b) THEN DeclaredOK(b) ELSE StubOK
  BY DEF LastOK
<1>5. spans' = spans
  BY <1>2, <1>3, <1>4 DEF Commit, TypeOK
<1>6. Seen(d) = Stored /\ Erroneous(d) = Failing
  BY <1>2, <1>5, CommitSpans DEF Stored, Failing
<1>7. rollup[d] = Totals(d)
  BY <1>2 DEF Commit, TotalsCurrent
<1>8. RowHeld(d)
  BY <1>2 DEF Commit, RowsHeld
<1>9. Upserted(d) = rows[RowKey(d)]
  <2>1. CASE Declares(b)
    <3>1. RowKey(d) = Min({Start[s] : s \in SpansOf[b]}) /\ Upserted(d) = DeclaredRow(d)
      BY <1>3, <2>1 DEF RowKey, Upserted
    <3>2. rollup[d].count = Cardinality(Stored)
      BY <1>6, <1>7 DEF Totals
    <3> QED BY <1>3, <1>4, <2>1, <3>1, <3>2 DEF DeclaredOK, DeclaredRow
  <2>2. CASE ~Declares(b)
    <3> DEFINE r == rows[RowKey(d)]
    <3>1. RowKey(d) = Min({Start[s] : s \in Stored}) /\ Upserted(d) = StubRow(d, r)
      BY <1>3, <1>6, <1>7, <2>2 DEF RowKey, Upserted, Totals
    <3>2. rollup[d].count = Cardinality(Stored) /\ rollup[d].errors = Cardinality(Failing)
      BY <1>6, <1>7 DEF Totals
    <3>3. r \in Row /\ r.count = Cardinality(Stored)
          /\ (Cardinality(Failing) > 0 => r.status = "error")
      BY <1>4, <2>2, <3>1 DEF StubOK, StubSays
    <3>4. r # NoRow /\ r = [declared |-> r.declared, status |-> r.status, count |-> r.count]
          /\ r.declared \in BOOLEAN
      BY <3>3, NameAssumption DEF Row
    <3>5. StubRow(d, r) = [declared |-> r.declared, status |-> r.status, count |-> r.count]
      <4> HIDE DEF r
      <4> QED BY <3>2, <3>3, <3>4 DEF StubRow
    <3> QED BY <3>1, <3>4, <3>5
  <2> QED BY <2>1, <2>2
<1>10. rows' = rows
  <2>1. rows' = [rows EXCEPT ![RowKey(d)] = Upserted(d)]
    BY <1>2, <1>8 DEF Commit, RowHeld
  <2> QED BY <1>8, <1>9, <2>1 DEF RowHeld, TypeOK
<1>11. ASSUME NEW s \in Spans PROVE (events[s] = {}) = (events'[s] = {})
  <2>1. events'[s] = IF s \in EventsOf[b] THEN {d} ELSE events[s]
    BY <1>2, <1>3, CommitEvents
  <2>2. ASSUME s \in EventsOf[b] PROVE events[s] # {}
    <3>1. spans[s] = b
      BY <1>4, <2>2, BatchAssumption
    <3> QED BY <2>2, <3>1 DEF EventsMatchSpan
  <2> QED BY <2>1, <2>2
<1>12. first' = first
  <2>1. \A s \in SpansOf[b] : first[s] # Absent
    <3>1. b # Absent /\ SpansOf[b] \subseteq Spans
      BY BatchAssumption, NameAssumption
    <3> QED BY <1>4, <3>1 DEF FirstOK
  <2> QED BY <1>2, <1>3, <2>1 DEF Commit, First, TypeOK
<1> QED BY <1>5, <1>10, <1>11, <1>12

\* A stub leaves a row declared that was, and "error" where it was.
LEMMA StubStep == IInv /\ RedeliveryInv /\ [Next]_vars => StubsOnlyAdd
<1> SUFFICES ASSUME IInv, RedeliveryInv, [Next]_vars, NEW d \in Deliveries, NEW k \in Starts,
                    pc[d] = "commit", pc'[d] = "done", ~Declares(batch[d]), rows[k] # NoRow
             PROVE  /\ rows[k].declared => rows'[k].declared
                    /\ rows[k].status = "error" => rows'[k].status = "error"
  BY DEF StubsOnlyAdd
<1> USE DEF IInv, RedeliveryInv
<1>1. Commit(d)
  <2>1. ASSUME NEW e \in Deliveries, Next, e # d, Receive(e) \/ Progress(e) \/ Abort(e)
        PROVE  pc'[d] = pc[d]
    BY <2>1 DEF Receive, Progress, UpsertSpan, SpansUpserted, DeleteEvents, InsertEvents,
                RecomputeRollups, UpsertTrace, Commit, Abort, Goto, TypeOK
  <2>2. ASSUME Receive(d) \/ Progress(d) \/ Abort(d) PROVE Commit(d)
    BY <2>2 DEF Receive, Progress, UpsertSpan, SpansUpserted, DeleteEvents, InsertEvents,
                RecomputeRollups, UpsertTrace, Abort, Goto, TypeOK
  <2> QED BY <2>1, <2>2 DEF Next, vars
<1>2. RowHeld(d)
  BY DEF RowsHeld
<1>3. rows' = [rows EXCEPT ![RowKey(d)] = StubRow(d, rows[RowKey(d)])]
  BY <1>1, <1>2 DEF Commit, RowHeld, Upserted
<1>4. CASE k = RowKey(d)
  <2>1. rows'[k] = StubRow(d, rows[k])
    BY <1>3, <1>4 DEF TypeOK
  <2>2. rows[k] \in Row
    BY DEF TypeOK
  <2>3. /\ StubRow(d, rows[k]).declared = rows[k].declared
        /\ rows[k].status = "error" => StubRow(d, rows[k]).status = "error"
    BY <2>2 DEF StubRow, Row
  <2> QED BY <2>1, <2>3
<1>5. CASE k # RowKey(d)
  BY <1>3, <1>5 DEF TypeOK
<1> QED BY <1>4, <1>5

\* However often a client retries a batch, requests that come one at a time leave exact
\* totals and change nothing when they are replayed, and no batch without the root,
\* alone or not, undoes a description or an error.
THEOREM RedeliveriesAreSafe == Spec => RedeliverySafe
<1>1. IInv /\ RedeliveryInv /\ (IInv /\ RedeliveryInv)' /\ [Next]_vars
        => [RollupExactAlone' /\ ReplayIsNoop /\ StubsOnlyAdd]_vars
  <2>1. (IInv /\ RedeliveryInv)' => RollupExactAlone'
    BY ExactAlone, PTL
  <2> QED BY <2>1, ReplayStep, StubStep
<1> QED BY <1>1, RedeliveryAlways, PTL DEF Spec, RedeliverySafe
=============================================================================
