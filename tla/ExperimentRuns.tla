---------------------------- MODULE ExperimentRuns ----------------------------
(***************************************************************************)
(* The runs of one experiment (apps/api/.../services/experiments.py):      *)
(* results arrive in chunks, a run is completed or cancelled, which rolls  *)
(* its scores up into metrics, and clients add the metrics that the server *)
(* cannot compute.                                                         *)
(*                                                                         *)
(* A request is one transaction at READ COMMITTED, a step one statement.   *)
(* A metric the server computed is modelled by the results it covers; a    *)
(* statement that inserts several metrics takes all their keys at once.    *)
(***************************************************************************)
EXTENDS Naturals, Sequences, FiniteSets, SequencesExt

CONSTANTS
  MaxAttempts, \* bound on the runs of the experiment
  Chunks,      \* the lists of example ids clients upload, without repetition
  ScoredBy,    \* ScoredBy[e]: the metrics that example e has scores for
  Submitted,   \* the sets of metric keys clients submit
  Ends,        \* the statuses clients complete a run with
  Requests,    \* transactions
  Nobody       \* an unlocked run row

Examples == UNION {ToSet(c) : c \in Chunks}
Keys == UNION ({ScoredBy[e] : e \in Examples} \cup Submitted)
Attempts == 1 .. MaxAttempts

ASSUME AttemptAssumption == MaxAttempts \in Nat \ {0} /\ Nobody \notin Requests
ASSUME EndAssumption == Ends \subseteq {"succeeded", "failed", "partial"}

VARIABLES
  run,     \* run[a]: status ("none": not opened) and completed_examples
  results, \* results[a]: the examples with a committed experiment_results row
  metrics, \* metrics[a][k]: the committed aggregate_metrics row
  owner,   \* owner[a]: who has written the row of a and not committed
  req      \* req[r]: the local state of a request

vars == <<run, results, metrics, owner, req>>

NoMetric == [from |-> "none", of |-> {}]
Client == [from |-> "client", of |-> {}]
Server(S) == [from |-> "server", of |-> S]
KeysOf(S) == UNION {ScoredBy[e] : e \in S}

Fresh == [pc |-> "new", op |-> "append", a |-> 1, status |-> "none", loaded |-> 0,
          chunk |-> <<>>, todo |-> {}, mine |-> {}, lost |-> {}, total |-> 0,
          computed |-> {}, deletes |-> {}, offers |-> {}, puts |-> {}]
Running == {"insertRun", "existing", "insert", "totals", "status", "load", "replace",
            "metrics", "submit", "commit"}
Opened == {a \in Attempts : run[a].status # "none"}
At(r, pc) == req[r].pc = pc

\* One run has been opened; open_run of it is a request like any other.
Init ==
  /\ run = [a \in Attempts |-> [status |-> IF a = 1 THEN "running" ELSE "none", completed |-> 0]]
  /\ results = [a \in Attempts |-> {}]
  /\ metrics = [a \in Attempts |-> [k \in Keys |-> NoMetric]]
  /\ owner = [a \in Attempts |-> Nobody]
  /\ req = [r \in Requests |-> Fresh]

Release(r) == owner' = [a \in Attempts |-> IF owner[a] = r THEN Nobody ELSE owner[a]]
Fail(r) ==
  /\ req' = [req EXCEPT ![r] = [Fresh EXCEPT !.pc = "failed"]]
  /\ Release(r)
  /\ UNCHANGED <<run, results, metrics>>
Local(r, s) == req' = [req EXCEPT ![r] = s] /\ UNCHANGED <<run, results, metrics, owner>>
\* An UPDATE of the run's row waits for whoever has written it.
LockRun(r, pc) ==
  /\ owner[req[r].a] = Nobody
  /\ owner' = [owner EXCEPT ![req[r].a] = r]
  /\ req' = [req EXCEPT ![r].pc = pc]
  /\ UNCHANGED <<run, results, metrics>>

(***************************************************************************)
(* open_run: the next attempt, under uq_experiment_runs_attempt.           *)
(***************************************************************************)
NextAttempt(last) == last + 1

BeginOpen(r) ==
  /\ At(r, "new")
  /\ Cardinality(Opened) < MaxAttempts
  /\ Local(r, [Fresh EXCEPT !.pc = "insertRun", !.op = "open",
                             !.a = NextAttempt(CHOOSE a \in Opened : \A b \in Opened : b <= a)])

InsertRun(r) ==
  /\ At(r, "insertRun")
  /\ \/ req[r].a \in Opened /\ owner[req[r].a] = Nobody /\ Fail(r)
     \/ req[r].a \notin Opened /\ LockRun(r, "commit")

(***************************************************************************)
(* append_results                                                          *)
(***************************************************************************)
BeginAppend(r) ==
  \E a \in Opened, chunk \in Chunks :
    /\ At(r, "new")
    /\ IF run[a].status \in {"succeeded", "cancelled"}
       THEN Fail(r)
       ELSE Local(r, [Fresh EXCEPT !.pc = "existing", !.a = a, !.chunk = chunk,
                                   !.loaded = run[a].completed])

\* Mutant: a row another upload has in flight counts as stored.
BugExisting(r, e) == \E q \in Requests \ {r} : e \in req[q].mine
Existing(r, e) == e \in results[req[r].a]

ReadExisting(r) ==
  /\ At(r, "existing")
  /\ Local(r, [req[r] EXCEPT !.pc = "insert",
                             !.todo = {e \in ToSet(req[r].chunk) : ~Existing(r, e)}])

\* The rows are inserted in the order of the chunk.
Place(r, e) == CHOOSE i \in DOMAIN req[r].chunk : req[r].chunk[i] = e
First(r, e) == e \in req[r].todo /\ \A f \in req[r].todo : Place(r, e) <= Place(r, f)

\* The other requests that have inserted a row that this one is about to insert.
Holders(r, e) == {q \in Requests \ {r} : req[q].a = req[r].a /\ e \in req[q].mine}

\* One row and one flush at a time, under uq_experiment_results_example.
InsertResult(r) ==
  \E e \in req[r].todo :
    /\ At(r, "insert")
    /\ First(r, e)
    /\ Holders(r, e) = {}
    /\ IF e \in results[req[r].a]
       THEN Fail(r)
       ELSE Local(r, [req[r] EXCEPT !.mine = @ \cup {e}, !.todo = @ \ {e}])

Total(r) == Cardinality(results[req[r].a] \cup req[r].mine)

\* An unchanged total is not written.
RefreshTotals(r) ==
  /\ At(r, "insert")
  /\ req[r].todo = {}
  /\ Local(r, [req[r] EXCEPT !.total = Total(r),
                             !.pc = IF Total(r) = req[r].loaded THEN "commit" ELSE "totals"])

UpdateTotals(r) == At(r, "totals") /\ LockRun(r, "commit")

(***************************************************************************)
(* complete_run and cancel_run                                             *)
(***************************************************************************)
\* A status equal to the one the session loaded is left out of the UPDATE.
BeginEnd(r, a, op, status) ==
  /\ At(r, "new")
  /\ Local(r, [Fresh EXCEPT !.pc = "status", !.op = op, !.a = a,
                             !.status = IF status = run[a].status THEN "unchanged" ELSE status])

\* Whatever the run's status is.
BeginComplete(r) == \E a \in Opened, status \in Ends : BeginEnd(r, a, "complete", status)

BeginCancel(r) ==
  \E a \in Opened :
    IF run[a].status \in {"succeeded", "failed"}
    THEN At(r, "new") /\ Fail(r)
    ELSE BeginEnd(r, a, "cancel", "cancelled")

\* _recompute_aggregates.  Its first select flushes the status, so that from here on the
\* request holds the run's row.
UpdateStatus(r) == At(r, "status") /\ LockRun(r, "load")

LoadResults(r) ==
  /\ At(r, "load")
  /\ Local(r, [req[r] EXCEPT !.pc = "replace", !.computed = results[req[r].a]])

Stored(a) == {k \in Keys : metrics[a][k].from # "none"}

DeleteMetrics(r) ==
  /\ At(r, "replace")
  /\ Local(r, [req[r] EXCEPT !.pc = "metrics", !.deletes = Stored(req[r].a)])

\* uq_aggregate_metrics_key: the keys other requests have inserted or deleted.
InFlight(r) ==
  UNION {req[q].puts \cup req[q].deletes :
           q \in {q \in Requests \ {r} : req[q].a = req[r].a}}

InsertMetrics(r) ==
  LET wanted == KeysOf(req[r].computed) IN
  /\ At(r, "metrics")
  /\ wanted \cap InFlight(r) = {}
  /\ IF wanted \cap (Stored(req[r].a) \ req[r].deletes) # {}
     THEN Fail(r)
     ELSE Local(r, [req[r] EXCEPT !.pc = "commit", !.puts = wanted])

(***************************************************************************)
(* submit_metrics: INSERT ... ON CONFLICT DO NOTHING.                      *)
(***************************************************************************)
BeginSubmit(r) ==
  \E a \in Opened, wanted \in Submitted :
    /\ At(r, "new")
    /\ Local(r, [Fresh EXCEPT !.pc = "submit", !.op = "submit", !.a = a, !.offers = wanted])

\* Mutant: ON CONFLICT DO UPDATE.
BugKept(a, k) == TRUE
Kept(a, k) == k \notin Stored(a)

SubmitMetrics(r) ==
  /\ At(r, "submit")
  /\ req[r].offers \cap InFlight(r) = {}
  /\ Local(r, [req[r] EXCEPT !.pc = "commit", !.puts = {k \in req[r].offers : Kept(req[r].a, k)}])

(***************************************************************************)
(* The end of the transaction.  At "commit" the answer has been sent:      *)
(* get_session commits when the handler is over, and may fail.             *)
(***************************************************************************)
Metric(r, k) ==
  LET old == metrics[req[r].a][k] IN
  CASE k \in req[r].puts -> IF req[r].op = "submit" THEN Client ELSE Server(req[r].computed)
    [] k \in req[r].deletes \ req[r].puts -> NoMetric
    [] OTHER -> old

Row(r) ==
  LET old == run[req[r].a] IN
  IF owner[req[r].a] # r THEN old
  ELSE CASE req[r].op = "open" -> [status |-> "running", completed |-> 0]
         [] req[r].op = "append" -> [old EXCEPT !.completed = req[r].total]
         [] OTHER -> IF req[r].status = "unchanged" THEN old
                     ELSE [old EXCEPT !.status = req[r].status]

Commit(r) ==
  LET a == req[r].a IN
  /\ At(r, "commit")
  /\ run' = [run EXCEPT ![a] = Row(r)]
  /\ results' = [results EXCEPT ![a] = @ \cup req[r].mine]
  /\ metrics' = [metrics EXCEPT ![a] = [k \in Keys |-> Metric(r, k)]]
  /\ Release(r)
  /\ req' = [req EXCEPT ![r] = [Fresh EXCEPT !.pc = "done", !.op = req[r].op, !.a = a,
                                             !.chunk = req[r].chunk]]

\* What the request inserted is lost, and its client has the answer.
CommitFails(r) ==
  /\ At(r, "commit")
  /\ req' = [req EXCEPT ![r] = [Fresh EXCEPT !.pc = "undone", !.op = req[r].op, !.a = req[r].a,
                                             !.chunk = req[r].chunk, !.lost = req[r].mine]]
  /\ Release(r)
  /\ UNCHANGED <<run, results, metrics>>

Abort(r) == req[r].pc \in Running \ {"commit"} /\ Fail(r)

\* Two uploads of the same examples in different orders wait for each other.
Deadlocked(r) ==
  \E q \in Requests \ {r} :
    /\ At(r, "insert") /\ \E e \in req[r].todo : First(r, e) /\ q \in Holders(r, e)
    /\ At(q, "insert") /\ \E e \in req[q].todo : First(q, e) /\ r \in Holders(q, e)
BreakDeadlock(r) == Deadlocked(r) /\ Fail(r)

Begin(r) == BeginOpen(r) \/ BeginAppend(r) \/ BeginComplete(r) \/ BeginCancel(r) \/ BeginSubmit(r)
Progress(r) ==
  \/ InsertRun(r) \/ ReadExisting(r) \/ InsertResult(r) \/ RefreshTotals(r) \/ UpdateTotals(r)
  \/ UpdateStatus(r) \/ LoadResults(r) \/ DeleteMetrics(r) \/ InsertMetrics(r)
  \/ SubmitMetrics(r) \/ Commit(r)
Next ==
  \E r \in Requests : Begin(r) \/ Progress(r) \/ CommitFails(r) \/ Abort(r) \/ BreakDeadlock(r)

Spec == Init /\ [][Next]_vars

\* A request that has begun is served and deadlocks are detected; nobody has to begin.
FairSpec == Spec /\ \A r \in Requests : WF_vars(Progress(r) \/ BreakDeadlock(r))

(***************************************************************************)
(* Properties                                                              *)
(***************************************************************************)
\* Every variable stays in its range.
TypeOK ==
  /\ run \in [Attempts -> [status : {"none", "running", "cancelled"} \cup Ends, completed : Nat]]
  /\ results \in [Attempts -> SUBSET Examples]
  /\ metrics \in [Attempts -> [Keys -> [from : {"none", "client", "server"},
                                        of : SUBSET Examples]]]
  /\ owner \in [Attempts -> Requests \cup {Nobody}]
  /\ \A r \in Requests : /\ req[r].pc \in Running \cup {"new", "done", "failed", "undone"}
                         /\ req[r].a \in Attempts
                         /\ req[r].mine \subseteq Examples

\* The metrics the server computed for a run all come from one pass over its stored
\* results, complete: completions, cancellations and submissions in flight together
\* neither mix two passes nor put a client's number where the server has its own.
AggregatesWhole ==
  \A a \in Attempts : \E S \in SUBSET results[a] : \A k \in Keys :
    IF k \in KeysOf(S) THEN metrics[a][k] = Server(S) ELSE metrics[a][k].from # "server"

Acknowledged(r) == req[r].pc \in {"commit", "done", "undone"} /\ req[r].op = "append"

\* "A chunk that half-succeeded must be re-sendable": each example of an acknowledged upload is
\* stored, or was inserted by that upload, whose own commit is to come or has failed.  An
\* example it skipped is never lost with the upload of somebody else.
AcknowledgedStored ==
  \A r \in Requests :
    Acknowledged(r) => ToSet(req[r].chunk) \subseteq results[req[r].a] \cup req[r].mine \cup req[r].lost

\* What a client takes the answer for.
AcknowledgedIsFinal ==
  \A r \in Requests : Acknowledged(r) => ToSet(req[r].chunk) \subseteq results[req[r].a]

\* completed_examples, which uploads overwrite with what each of them can see, never counts
\* an example that is not stored, and is never zero beside stored ones.
TotalsHonest ==
  \A a \in Attempts :
    /\ run[a].completed <= Cardinality(results[a])
    /\ results[a] # {} => run[a].completed > 0

\* What a run reports about itself is backed by the results it holds.
ReportBacked == AggregatesWhole /\ TotalsHonest

\* "Run is already succeeded; results cannot be added to a finished run."
FinishedRunsKeepResults ==
  [][\A a \in Attempts : run[a].status \in {"succeeded", "cancelled"}
                            => results'[a] = results[a]]_vars

\* Requests that wait for each other's runs, results and metrics all end.
EveryRequestEnds == \A r \in Requests : req[r].pc \in Running ~> req[r].pc \in {"done", "failed", "undone"}
=============================================================================
