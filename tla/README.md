# proofstep in TLA+

ProofStep is a quality gate and observability service for AI agents. An agent
instrumented with the Python SDK sends traces to a FastAPI service that keeps
them in PostgreSQL; people and policies turn traces into datasets; the CLI
evaluates an agent on a dataset, gates a pull request on the outcome and
publishes the run; a worker evaluates production traces with online rules and
puts the failing ones in front of a reviewer; a Next.js dashboard shows it all
through a proxy of its own.

This directory models that system: the parts whose correctness depends on the
order in which threads, tasks, transactions and processes take their steps, as
state machines; the parts that only decide (gates, calibration, trajectory
policies, evaluators, translations), as operators that are asked questions. TLC
checks the models on small instances. TLAPS proves for every instance the safety of
each state machine: recorder and exporter, ingestion, the review queue and online
evaluation, dataset versions, experiment runs, the evaluation runner, publishing,
accounts and sessions, the background worker with its retention, and the gateway;
and of the decisions, what a passing gate and a certified judge have earned.

Throughout, `API` is `apps/api/src/proofstep_api`, `SDK` is
`packages/python-sdk/src/proofstep`, `CORE` is
`packages/evaluation-core/src/proofstep_core`, `TYPES` is
`packages/shared-types/src/proofstep_types`, `TRAJ` is
`packages/trajectory-engine/src/proofstep_trajectory`, `CLI` is
`packages/cli/src/proofstep_cli`, `WEB` is `apps/web/src`.

## 1. Inventory

### How the parts interact

```
host application --spans--> SDK recorder --trace--> SDK queue --HTTP, retried--> API ingest
other exporters  --OTLP---> API receiver --batch--------------------------------> API ingest
API ingest --spans, events, trace rows, payload rows--> PostgreSQL (month partitions)
worker (arq, cron) --run_batch--> online_evaluations, review_assignments
                   --maintain_partitions, sweep_retention--> partitions, payload rows
                   --release_expired_leases--> review_assignments
reviewers --claim / complete / promote--> review_assignments, dataset_versions
CLI (CI job) --evaluation runner, gates--> exit code
             --dataset version, lock, open run, results, complete, metrics, compare--> API
browser --session proxy, refresh--> API credential, budget, tenant, permission --> handler
```

Every request and every job of the service is one database transaction at READ
COMMITTED, opened by `session_scope` (`API/db/session.py`) and committed when the
handler returns. Nothing in the service takes an explicit lock except
`claim_next` (FOR UPDATE SKIP LOCKED). What two requests may do to each other
is therefore decided by row locks, unique indexes, ON CONFLICT clauses and the
triggers of the schema: these are what the models of the service are made of.

### Components

| Component | State | Operations | What is hard | What makes it correct |
|---|---|---|---|---|
| SDK recorder (`SDK/context.py`, `client.py`, `recorder.py`) | context variables, open blocks, traces being gathered | trace and span blocks, tasks, sampling, hand-over | tasks that outlive their parent, tasks without its context, the span cap, failures a call swallows half-way | every span that was recorded is in its trace when it is handed over, or counted |
| SDK exporter (`SDK/exporter.py`) | bounded queue, thread, `_idle` and `_stopping` events, counters | submit, flush, shutdown; daemon loop with batches, retries, spool | unlocked checks between threads, a full queue, restart after shutdown | never blocks the host; no trace sent twice or lost uncounted; a successful flush emptied the queue |
| OTLP receiver (`API/otlp`) | none | translate a request, reject, limit | spellings of three conventions, a trace in pieces, limits | every span is stored, counted as refused, or failed with its request |
| Trace ingestion (`API/services/ingest.py`) | spans, events, trace rows, payload rows | ingest of a batch | batches of one trace in parallel, re-sent, out of order, overlapping | as if one batch at a time; replay changes nothing; totals are those of the stored spans |
| Trace reading (`API/api/routes/traces.py`) | a cursor in the client | list pages, search | rows change between pages | each row that stays is listed once |
| Online evaluation (`API/services/online_eval.py`) | rules, decisions per trace and rule | run_batch from cron and by hand | two batches at once, one transaction over all projects, limits and caps | each decision taken once; failing traces, and only those, are queued; the backlog shrinks |
| Trajectory engine (`TRAJ`) | none | normalise a trace, match rules, evaluate predicates | clock skew, overlap, absent spans, absent fields | concurrent events have no order; absence is not a violation |
| Review queue (`API/services/review.py`) | assignments with status, assignee, lease | enqueue, claim, release expired, complete | claims in parallel with lease recovery | one holder per live claim; finished stays finished; abandoned comes back |
| Dataset versions (`API/services/datasets.py`, `review.py` promote) | versions with status, hash, count; examples | create, append, lock, clone, promote | statements of concurrent requests, triggers that read stale status | a locked version never changes and its hash covers it |
| Evaluation runner (`CORE/runner.py`) | queue of examples, workers, judge slots, spend, journal | pull, invoke, retry, judge, journal, report, resume | tasks finish in any order, kills tear the journal, the budget is asked before the cost is known | one owner per example; bounded overspend; a verdict is about the whole dataset |
| Evaluators (`CORE/evaluators`, `paths.py`) | none | score an example, roll up a corpus, combine judge votes | missing fields, empty corpora, ties | a score is the measure it is named for |
| Gate engine (`CORE/gates.py`, `aggregate.py`, `significance.py`, `compare.py`) | none | verdict and exit code from results and baseline | missing metrics, small samples, several tests at once | never passes on absent evidence; doing worse never helps |
| Calibration (`CORE/calibration.py`, `CLI/calibration*.py`) | records on disk | calibrate, check a requirement | degenerate labellings, scales | a judge that cannot tell apart is never certified |
| CLI publisher (`CLI/publish.py`) | what the API keeps of a publish | ensure dataset, version, open, upload, complete, compare | a crash or a second publisher between any two requests | a publish can be repeated; what is on record is whole |
| Registries of the API (`API/api/routes/evaluation.py`) | evaluators, policies, gate sets, numbered versions | register, create a version | read before insert, unique index as the only guard | one configuration, one version |
| Experiment runs (`API/services/experiments.py`) | runs, results, aggregate metrics | open, append, complete, cancel, submit metrics | chunks in parallel with completion, retries of a chunk | metrics of one whole pass; an acknowledged chunk is stored |
| Worker (`API/worker`) | job attempts, dead letters | cron jobs, retry, record | which attempt is the last one; cancellation; kills | each exhausted job is recorded once; every run ends |
| Retention (`API/services/retention.py`, `db/partitions.py`) | partitions, payload rows | maintain, sweep, drop | shared payloads, projects with different windows, DEFAULT | nothing inside a window is deleted; tomorrow has a partition |
| Accounts and sessions (`API/api/routes/auth.py`, `accounts.py`) | users, memberships, refresh families, invitations, reset links, the browser's cookie | sign up, in and out, refresh, reset, invite, accept, change role, remove | a refresh repeated in parallel, handlers that read before another commits | what ended stays ended; members were invited; an owner remains |
| Gateway (`WEB` proxy, `API/api/dependencies.py`, `security`) | keys, windows of the limiter, tenant of the transaction | resolve, charge, bind, permit, handle | authority that changes while a call is under way, limiter outage | a call acts only where its caller could; a budget belongs to a credential |
| Web dashboard (`WEB/lib/spans.ts`) | none | waterfall, self time | orphans, cycles, overlapping children | every span has one row under its parent |

Listed and not modelled: suite loading and the CI adapters, redaction and
configuration of the SDK, annotations, the site, evals, examples and scripts
(section 6). `PROJECT.json` lists every component with its sources and what of
it is left out.

## 2. The models

### Conventions

Of a service: a committed table is a variable. What a transaction has written
and not committed is in its own record (or function component) and in the row
locks (`owner`, `holder`), so a step of another transaction cannot read it, which
is READ COMMITTED. One action is one SQL statement, or the run of statements
between two that others can observe. Where PostgreSQL makes a statement wait (a
locked row, an uncommitted equal key) the action is not enabled; where it raises,
the request fails and rolls back. `Abort`, `Die`, `Kill`, `Crash`, `RequestFails`
are a crash, a lost connection or a timeout, at any point. The deadlock detector
is an action that ends one member of a cycle of waiters, and only such a one.

Of threads and asyncio tasks: one action per step between two points at which
another may run. Of pure code: one operator per function of the source, numbers
as integers or exact fractions; `Decisions` asks the questions.

Variables called history or ghost (`fate`, `scope`, `by`, `before`, `written`,
`could`, `covered`, ...) are compared with nothing the code does. `Bug...` and
the comments "Mutant" mark plausible mistakes; section 8 says what they are for.
The `MC*` modules give the constants a `.cfg` cannot write down.

### Telemetry: recorder, exporter, receiver, ingestion, reading

**`Recorder`** (`SDK/context.py`, `client.py`, `recorder.py`). A program is a
record of tasks, their context variables, open blocks, traces and spans; each
operator is a call it makes: `OpenTrace`, `OpenSpan` (a span outside every trace
gets one of its own), `Close`, `Spawn` with or without the parent's context.
`Register` refuses beyond the span cap, `Emit` takes the snapshot that goes to
the exporter. What `never_raises` swallows is a choice of the call: a trace that
cannot be started (`OpenNothing`), a span that fails after its own trace was set
(`known` is FALSE: `SpanType(...)` raised) and a snapshot that fails (`frozen` is
FALSE). A trace such a failure costs is `lost`; one that nobody ends is a `Stray`.
`Step` is any call of one task, `ProgramSpec` interleaves the tasks of one process
after another; `Decisions` runs one such program at a time.

**`SdkExporter`** (`SDK/exporter.py`). `SubmitBegin` and `ReadAlive` are the two
unlocked reads of `self._thread` in `_ensure_started`, `StartThread` its locked
part, `ClearIdle`, `PutNowait`, `EvictOldest` and `PutAgain` the rest of
`submit`. `LoopTest`, `Get`, `GetTimesOut`, `IdleCheck`, `SetIdle` and `Exit`
are `_run`; `EncodeFails` (`_encode` returns None), `DumpRaises` (it raises, and
the thread dies of it), `StopBreaksRetry`, `PostReturns` and `PostRaises` are
`_send_batch` with its encoder, retry loop and spool. `FlushBegin`,
`FlushSeesEmpty`, `FlushReadsIdle` and `FlushTimesOut` are `flush`, whose first
test returns True at once without a live thread; `StopWorker`, `SwapThread`,
`ReadSwapped` (the `is_alive()` of the thread it swapped out) and `WakeWorker` are
the rest of `shutdown`. `Workers` are the daemon threads that may ever be started.
Ghosts: `fate[t]` says what became of a trace, `scope` which traces the current
flush owes, `ctl.waited` that it found a thread to wait for, `ctl.shut` that a
shutdown() has been called. A trace has one span, so a batch is full at
`BatchSize` traces; `due` abstracts the clock against `flush_interval_s`.

**`Otlp`** (`API/otlp/mapping.py`, `receiver.py`). `MapSpan` maps attributes (one
spelling of each convention stands for its group), `Problem` rejects, `ToSpanIn`
and `ToTraceIn` build the batch, `Translate` is the whole request with its limit. A
span that does not fit (`fits`: a status message or an event list too long for the
schema, a token count or cost that is not finite) raises out of `translate` and
fails the request with everything in it. `Response` is the partial success:
`rejected_spans` adds the payloads that the service stored shortened or not at all
(`cut`) to the spans that were refused, so it is more than the spans missing.

**`TraceStore`** is the abstract specification of ingestion: spans and the origin
of their events, with one atomic `Ingest(b)`. **`TraceIngest`**
(`API/services/ingest.py`, with the choice of declared traces of
`API/otlp/receiver.py`) is the transaction: `UpsertSpan` takes the row lock of
one span, in the order the batch lists them or any other, `DeleteEvents` and
`InsertEvents` are `_insert_events`, `RecomputeRollups` reads what the
transaction can see, `UpsertTrace` writes the declared or the stub row under the
key (trace, started_at), `Commit` publishes. A stored span is named by two
batches, the one whose version the updated columns (times, status, payloads,
attributes, cost) are and the one that first inserted it, whose version the
columns ON CONFLICT leaves alone are (`first`); an event row is named by the
delivery that wrote it. That is all the properties tell apart. `Serializable`
instantiates `TraceStore` under the mapping "version is `spans`, first is
`first`, origin is the batches of `events`".

**`TraceViews`**, the list (`API/api/routes/traces.py`, the query in `services/ingest.py`): `Fetched` is the
query after a cursor, `Page` and `NextCursor` the answer, `ReadPage` one request;
`Change` replaces the rows between two.

### Policies, online evaluation, review

**`Values`** are what Python finds in JSON, an `Error` among them.
**`Trajectory`**
(`TRAJ/normalize.py`, `matchers.py`, `evaluator.py`, `engine.py`, `schema.py`,
`predicates.py`): `Clamped`,
`Ordered` and `ParallelGroup` lower spans to events, `FinalState` merges what was
written to the workflow state, one operator per rule kind matches them, `Guarded` and `Inconclusive` are the third verdict, `PolicyLoads`
the validators; of a predicate, `Accepted` is the syntax check at load time and
`Eval` the evaluator with its short circuits.

**`ReviewQueue`** (`API/services/review.py`, and the job
`release_expired_leases`): `ReleaseExpired`, `Pick` and `EndTransaction` are one
`claim_next`; `CompleteReads` and `CompleteWrites` are the read and the later
write of `complete`; a lease runs out at any time. **`OnlineEval`**
(`API/services/online_eval.py`) EXTENDS it and composes the two: a batch of the
cron job or of `POST /online-rules/run` is a transaction that goes rule by rule
(`NextRule`, in any order because `active_rules` orders nothing), trace by trace
(`Apply`), inserts the decision under its unique index and the review item under
the queue's (`Enqueue`), and commits once for all of it (`CommitRun`). The
verdict a policy reaches on a trace is an input there; sampling, budget,
escalation cap and batch limit are modelled.

### Datasets, evaluation, gates, publishing

**`DatasetVersions`** (`API/services/datasets.py`, `promote_trace` and
`_draft_version` of `API/services/review.py`, the triggers
`proofstep_reject_locked_example` and `proofstep_reject_relock`, and the unique
indexes on label, ordinal and external id). The five operations share their
statements as the code shares its helpers: `ReadMax`, `ReadSeen`,
`InsertExamples`, `UpdateCount` are `append_examples` whoever calls it;
`LoadExamples` and `LockVersion` are `lock`; `CopyExamples` is `clone`;
`ChooseLabel` and `InsertVersion` are the label `v{count + 1}` and its index.
A label somebody has taken by hand fails every promotion until somebody opens a
draft: what ends that is a person, so no property speaks of it.
`held` is the `example_count` the session loaded: a count equal to it is not
written, so an append may leave the version's row alone. The
content hash is an injective function of the examples, so it is modelled as the
set of rows it was computed from.

**`EvalRun`** (`CORE/runner.py`). A worker goes `Pull`, `Invoke`, `Backoff`,
`EnterGate`, `LeaveGate`, `Write`; `Report` ends the run; `Kill` may tear the
journal line being written, in a line or in a character. `WriteFails` and
`ReportFails` are what raises outside every `try` (a result that cannot be summed
up or serialised, a full disk, an evaluator's corpus metric, a gate): the process
ends with Python's exit code 1. `Resume` and `ResumeStopped` read the journal,
append to a torn line, and fail on bytes that are not UTF-8.
The queue is the set of the examples not yet taken, which workers take in dataset
order. An example's scores are abstracted to their cost.

**`Values`** and **`Evaluators`** (`CORE/evaluators/deterministic.py`, `paths.py`,
and the corpus metrics of `evaluators/statistical.py`): one operator per check, per
metric and per step of a field path; texts are sequences of letters and only the
classes of letters that checks tell apart exist. **`Calibration`**
(`CORE/calibration.py`, `calibration_runner.py`, `CLI/calibration*.py`): matrix,
kappa, rates, ceiling, bias, `CheckRequirement`, the votes of a judge, and the
choice of a stored record; `JudgeSpec` asks it about any ratings and ballots. A
vote is an integer or a float, in parts (`Grain`) of a rubric point, because
`str(raw)` tells `4` from `4.0` (`Spells`).
**`Metrics`** (`CORE/aggregate.py`, `TYPES`, and
`CORE/significance.py`: pairing, exact McNemar, power, Holm;
the bootstrap's p-value is an input) and **`GateEngine`** (`CORE/gates.py`,
`compare.py`, the gate set as the CLI builds, sends and the server stores it):
`EvaluateGates` is the decision in CI, `ServerVerdict` the one on the server;
`GateSpec` asks for both, about any scores, gate set and baseline. A rule whose
check raises (a drop beyond its limit with too few pairs for a test: the message
formats a p-value that is not there) is "raised", and with it the whole verdict.

**`Registry`** (`API/api/routes/evaluation.py`): `CheckName` and `InsertName` are
"create what has a slug", `FindConfig`, `ReadHighest`, `InsertVersion` "create a
version". **`Publishing`** EXTENDS it: a client is a CI job of `proofstep eval`
whose steps are requests, in the order of `CLI/main.py`, `runner.py` and
`publish.py` (`FetchBaseline`, `Run`, `EnsureDataset`, `Resolve`,
`CreateVersion`, `Upload`, `Lock`, the rows of the registry,
`CreateExperiment`, `OpenRun`, `SendResults`, `Complete`, `SubmitMetrics`,
`Compare`, `Exit`), or a person who promotes a baseline or registers a
definition. A job has a `share` of the results: `--limit` runs the first
examples, and publishes against the whole dataset. `RequestFails` is a request
whose answer is lost, before or after it took effect, `Die` a job killed between
two. **`ExperimentRuns`**
(`API/services/experiments.py`) is the same service a level below, statement by
statement: `BeginOpen`/`InsertRun`; `BeginAppend`, `ReadExisting`,
`InsertResult`, `RefreshTotals`, `UpdateTotals`; `BeginComplete` and
`BeginCancel` with `UpdateStatus`, `LoadResults`, `DeleteMetrics`,
`InsertMetrics`; `SubmitMetrics` is ON CONFLICT DO NOTHING. What an upload has
yet to insert is a set taken in the chunk's order, and a status or total equal to
the one loaded is not written. At `commit` the handler is over and the answer
sent; `Commit` or `CommitFails` follows, as `get_session` has it. A metric the
server computed is modelled by the set of results it covers.

### People, calls, upkeep

**`Accounts`** holds the tables of `API/db/models/identity.py`, the browser's
cookie and the life of a request; **`Sessions`** (`API/api/routes/auth.py`, the
proxy's refresh in `WEB/app/api/ps/[...path]/route.ts`) and **`Workspaces`**
(`API/api/routes/accounts.py`, sign-up) are the handlers, each two or three
steps: what it reads and decides, and the commit that applies it to whatever is
committed by then. **`Identity`** composes them.

**`Gateway`** (`WEB/app/api/ps`, `proxy-policy.ts`, `API/api/dependencies.py`,
`API/security/ratelimit.py`, `permissions.py`, `API/db/rls.py`): a call made directly or from a
browser goes `Authenticate`, `Charge` (`Counted` is the INCR on the window),
`BindKey` or `BindUser`, `Run`, `Commit`, `Return`; the proxy refreshes once, may
give up and may not reach the API (`Unreachable`, its 502). Around it memberships and keys change, the limiter fails, windows
end. `could` records in which projects the caller held which permission since the
call was made.

**`Retention`** (`API/db/partitions.py`, `services/retention.py`, `_offload` of
ingestion): days and months are numbers, a row goes to its month or to DEFAULT,
payload rows are shared by digest, `MaintainPartitions` and `SweepRetention` are
the two jobs. **`Upkeep`** (`API/worker/main.py`, `deadletter.py`) runs them:
`Start` counts an attempt, `Raise`, `Record`, `GiveBack` and `Reraise` are a
failure, `Cancel` the job timeout, `Kill` and `Restart` the process.

### The dashboard

**`TraceViews`**, the waterfall (`WEB/lib/spans.ts`): `BuildWaterfall` walks the sorted spans
with an explicit stack, `Collapsed` hides what is below a row, `SelfTime`
subtracts the union of the children.

### Where they meet

`OnlineEval` EXTENDS `ReviewQueue`; `Publishing` EXTENDS `Registry`; `Identity`
EXTENDS `Sessions` and `Workspaces` over `Accounts`; `Upkeep` EXTENDS
`Retention`; `Decisions` EXTENDS `Recorder` and `Calibration`, which EXTENDS `GateEngine`,
which EXTENDS `Metrics`, and instantiates the other pure modules; it
asks questions that need several of them: the
gate set as sent against the gate set as stored, the policy on the trace as the
SDK recorded it against the trace as the worker loads it, the order of the
waterfall against the order the policies were checked in. `Publishing` works
at the level of requests and takes the checked properties of `DatasetVersions`
and `ExperimentRuns` for granted.

## 3. The runs

| Run | Instance | Distinct states | What it shows |
|---|---|---|---|
| `exporter` | 2 traces, 1 caller, 2 daemons, queue of 1, batches of 2, 2 attempts, a flush() or shutdown() at any moment, posts that return or raise, batches that fit, are refused or cannot be dumped, no spool | 1,263,030 | `LosesVisibly`: each trace is in one place until it has one fate, the counters add up, before a shutdown no batch is given up before its last attempt and none vanishes uncounted but one that does not encode. `DrainedIsEmpty`: a flush that waited and returned True emptied the queue, a shutdown whose flush did and whose daemons are gone left nothing it owed. `EverySettles`: in the end submit has returned and, unless a shutdown was called or the daemon died of a batch and nobody started another, all traces are settled |
| `ingest_requests` | spans root, kid, late (which starts later); batches whole = {root, kid}, kids = {kid, late} with an error on late, again = {late}; 3 deliveries | 67,487 | ingestion implements `TraceStore` (`Serializable`); events are those of the stored span version, once (`EventsExact`); without overlap totals are exact and a replay changes nothing, and never does a stub take back a declaration (`RedeliverySafe`); every delivery ends |
| `dataset_versions` | 3 requests, labels v1 to v4, lists of 1 and 2 examples, one promotable trace | 87,906 | drafts are dense and counted, and the hash of a locked version covers its first examples, which are all of them or as many as its `example_count` says (`DigestSound`); a locked version is frozen (`LockedFrozen`); every request ends |
| `review_queue` | 2 items, 2 reviewers, the lease job | 48,909 | finished items stay finished, live claims are exclusive, abandoned claims return |
| `online_review` | 2 traces, 3 rules (2 of policies, 1 judge), limit 1, 1 escalation, 1 crash, cron and a manual batch | 287,546 | the queue holds exactly the failing traces that were decided (`QueueMirrorsFailures`); every trace gets its decisions |
| `experiment_runs` | 2 attempts, 2 examples uploaded in both orders, 3 requests | 94,592 | metrics come from one whole pass and totals never overcount (`ReportBacked`); an acknowledged example is stored unless its own upload's commit is to come or failed (`AcknowledgedStored`) |
| `eval_run` | 3 examples, 2 workers, 1 judge slot, 1 retry, a cap of 3 with costs 2 and 3, error ceiling 1/2, 3 starts | 104,422 | no example is in two hands and the budget is passed by less than what is in flight (`OverspendBounded`); an exit code of 0 or 1 reported is about the whole dataset (`VerdictIsWhole`); every run ends in a report or an error (`EveryRunStops`) |
| `publishing` | 3 clients, one of which may have published earlier; 2 contents, 2 configurations, 2 parts, shares of 1 or 2 of them, qualities 0 and 1 | 2,031,677 | what is published has all the results its job has, on the whole dataset, and so has each baseline (`RecordIsWhole`); the exit code is the job's own verdict and the server's is the same when it saw the same baseline (`VerdictsHold`); one configuration gets one version (`OneVersionPerConfig`) |
| `identity` | 2 people, 2 organizations, 3 requests, 4 tokens, 2 links, 2 invitations, 1 lapse | 523,717 | tokens, links and invitations are spent once but for overlapping requests (`OnceButForRaces`); what a reset or sign-out ended stays so (`EndedStaysEnded`); members were invited at their address; an organization keeps an owner |
| `upkeep` | 2 projects with different windows, months of 2 days, a calendar of 5 days, late spans, 1 payload each, 2 tries, 2 runs | 333,226 | a failure leaves at most one letter and no letter is about a run that succeeded; partitions stay ahead; nothing inside a window is deleted (`NothingKeptIsDropped`); every run ends |
| `gateway` | 2 calls, 1 person, 2 keys, projects P and Q, limit 1 per class, row-level security on, 1 event | 442,102 | a call acts only in projects and by permissions its caller held at some moment since it was made, and a refused one did nothing (`ActsWithinAuthority`); only a credential's own valid requests use up its budget (`BudgetIsPerCredential`) |
| `decisions` | below | 1,122,436 | one question at a time to the code that only decides, and to two objects taken a call at a time |

`decisions` asks: three-example scorings against 7 gate sets and 4 baselines
(`GatesSound`: a pass is earned, counted from the results one by one, a drop being
excused only by a test that was made; and the gate set as stored gives, on the aggregates, the verdict the CLI gave without its noise
tests and calibration; `WorseNeverPasses`: doing worse never turns a block into a
pass); p-value ladders of
four metrics, the corpora, rankings and point sets of up to 3, 3 and 4 elements,
and 18 checks in 112 contexts (`StatisticsSound`: Holm's adjustment is the
step-down procedure, classification, ranking and AUC are their definitions,
scores measure what they are named for); raters of four examples and ballots of 1
or 3 votes, integers and floats to half a point, on scales of 2, 4 and 5
(`CalibrationSound`: a constant judge is never certified, the way through the
normalised score ends at the rubric point nearest to the median vote); traces of 3
spans, some with a `state_update` event, against 10 rules, two of them about the
workflow state, 19 predicates with their conjunctions and disjunctions on
complete and partial namespaces (`PoliciesSound`: concurrent events have no
order, a required order is missed only if no embedding exists, the worker's
verdict on the loaded trace is the recorder's when starts differ and nothing that
is not loaded was read, an absent field is no error); exports of 3 spans,
one of them perhaps one that raises or loses payloads, and of 5 over a limit of 4,
forests of 3 spans and a list of 4 traces two to a page
while rows come, change and go (`DashboardComplete`); a program of 2 tasks with up
to 2 traces and 3 spans, a cap of 2, 3 open blocks of which one may be a no-op, one
span refused or trace lost (`RecordingKept`: a trace that is over is handed over once
if it is kept, unless its snapshot failed, with the spans that are over; who has left
all blocks leaves nothing open but the trace of a span of its own that failed).

Why the bounds are enough to be interesting. A queue of one is full as soon as
two submits meet a busy daemon; two attempts have a first, a last and a stop
between them; a second daemon is what a submit after a shutdown starts, with the
first one possibly alive. One control call meets every state of the threads;
what a second one meets (no thread, an exited one, a queue nobody reads) is in
the theorems of section 5, which hold for any number of calls. Three deliveries
of three batches give two versions of a span, a replay overlapping its original,
a stub before, beside and after a declaration, and every order of lock
acquisition that deadlocks. Three requests on one dataset reach an append or a
promotion on either side of a lock and a second lock, a clone of a version that
is being changed, and a label taken by someone else. Two reviewers and the job
are the three parties that can want one expired item. One trace more than the
batch limit is a backlog; two rules that fail one trace compete for one queue
item; two batches are enough for each conflict on the decision index. Three
requests on runs reach two uploads, or an upload and a submission, under a
completion. Three examples and two workers have one example queued, one in
flight and one done when the cap trips; three starts are a kill, a torn line,
and a second resume that reads over it. Two clients beside a past one race for
each unique index while a baseline exists, moves or is half recorded. Three
requests give a refresh, its replay and a sign-out or reset between their reads
and commits, and an acceptance, a removal and a re-invitation. Two months of two
days and windows that differ reach a month that one project has outlived and the
other has not, and a span late enough for DEFAULT. One event is one change of
authority inside a call. Two traces and three spans of two tasks nest a trace in a
span, fill a trace, outlive a parent and follow a failure. Three spans are the smallest trace with two overlapping
siblings, or a chain, or an orphan beside a tree.

`SYMMETRY` is used where no property is temporal under fairness and the permuted
constants are interchangeable: two clients, the contents and the configurations of
`publishing`, the calls of `gateway`, the requests of `identity`.

`CHECK_DEADLOCK FALSE` stands where the program stops: the clients of an
instance send a fixed number of requests, a shut-down exporter rests, a calendar
and a run of an evaluation end. `review_queue`, `online_review` and `decisions`
never stop and check it.

Fairness is weak fairness per thread, task or request, and strong only where
something is retried. Exporter: threads that can run are scheduled and posts
end (`export_timeout_s`); nothing obliges the host to flush or shut down.
Ingestion, datasets, experiments: a request that has been received is served to
its end or waits for a row another one holds, and PostgreSQL detects deadlocks
(`deadlock_timeout`); no request has to be sent and none has to abort. Review
queue: the clock passes leases, the job runs every five minutes, and its commit
does not fail each time it is tried (strong fairness, because a claim can
disable it in between); no reviewer has to act. Online evaluation: only the cron
job is fair, ingestion and manual batches are not, and `EveryTraceDecided` is
stated for a future in which people stop starting batches by hand, since two
batches started for ever in opposite rule orders may make the cron job the
deadlock victim each time. Evaluation runner: the event loop schedules tasks that
can run, timeouts bound the calls, and somebody resumes a killed run; kills are
bounded by `MaxStarts` and owed to nobody. Upkeep: the worker works on what it
has taken up and the container is restarted (`restart: unless-stopped`); no job
has to be scheduled, and kills are bounded by the attempts. `identity`,
`publishing`, `gateway` and `decisions` are about safety and assume nothing.

## 4. Statements the model refutes

While modelling, sentences of the repository turned out to be stronger than the
code. Each is a definition in its module that no configuration checks. To see
the counterexample, add the definition to the configuration named (INVARIANT, or
PROPERTY for one that starts with `[][`) and run it.

| Definition (configuration) | The sentence | What the code does |
|---|---|---|
| `TrueMeansEmpty` (exporter, with `MaxControls = 2`) | "Wait for the queue to drain. Returns False on timeout." (`SDK/exporter.py:110`) | without a live thread it returns True at once (`:111`), also when a submit that met a shutdown left its trace in the queue and nobody is there to send it |
| `FlushDrains` (exporter) | the same, of a flush that had a thread to wait for | the daemon tests "nothing batched and queue empty", then sets `_idle` (`:157`); a submit in between is overwritten and its trace is unsent when flush returns True |
| `NothingVanishes` (exporter) | "**Lose visibly.** Drops increment a counter" (`SDK/exporter.py:9`) | a batch that is too large or does not serialise is only logged (`:263-275`), one whose values `model_dump` refuses takes the daemon with it (`:246-249`, outside the try), and a submit that meets a shutdown may lose its trace in `never_raises`; nothing counts any of them |
| `AllSettle` (exporter) | every trace is sent, spooled or dropped in the end | the same exception leaves the queue without a daemon until somebody submits again |
| `LaterDataWins` (ingest_requests) | "A re-sent span updates rather than duplicates. Later data wins" (`API/services/ingest.py:359`) | the update leaves parent, type, model, provider, prompt and completion tokens, tool name, error type, sequence index and redaction count as the first delivery had them (`:362-377`) |
| `RollupExact` (ingest_requests) | "correct for replays, partial batches, and out-of-order arrival alike" (`API/services/ingest.py:105-112`) | concurrent batches of a trace compute the totals without the other's uncommitted spans; the second writer's number stays (`:400`). `RedeliverySafe` says what holds without overlap |
| `OneRow` (ingest_requests) | "re-sending a trace updates rather than duplicates" (`API/db/models/traces.py:109`) | `started_at` is in the key and a stub uses its own earliest start: children before their root leave two rows (`API/services/ingest.py:534`), which a read of the trace by id cannot choose from |
| `HashMatches` (dataset_versions) | "Should be impossible while the trigger holds" (`API/services/datasets.py:161`) | `lock` computes the hash before it holds the row (`:148`); an append that commits between passes both triggers. `DigestSound` says how far the damage goes: the hash is of a prefix, and `example_count` is the length of either |
| `AcknowledgedIsFinal` (experiment_runs) | "A chunk that half-succeeded must be re-sendable", idempotent per example (`API/services/experiments.py:108-114`) | `get_session` commits when the handler is over and its answer sent; when that commit fails the rows are gone and the client, told they were accepted, has no reason to send them again (`API/api/dependencies.py:42-49`) |
| `FinishedRunsKeepResults` (experiment_runs) | "results cannot be added to a finished run" (`API/services/experiments.py:120-122`) | the status is the one read at the start, nothing is locked (`:119`) |
| `ReplayEndsFamily` (identity) | "a token presented twice revokes every token in its family" (`API/api/routes/auth.py:393`) | the revocation is in the transaction that the 401 rolls back (`:408`) |
| `ClearsOnlyDead` (identity) | the session is cleared because it is over (`WEB/app/api/ps/[...path]/route.ts:138`) | a refused refresh clears it for a rate limit, an outage or a token another tab has just rotated |
| `JournaledNotRerun` (eval_run) | "a crash at example 190/200 loses nothing" (`CORE/runner.py:10`) | a resumed run appends to a torn line, and what it appended is unreadable to the next resume |
| `OneIsBlocking` (eval_run) | "Exit code: 0 pass/warn, 1 blocking fail, 2 execution error" (`docs/EVALUATION_ENGINE.md:265`) | an exception outside every `try` (`trace.total_cost` and the journal's `model_dump_json`, `CORE/runner.py:294,458`, the corpus metrics, the gates) ends the command with Python's own exit code, which is 1 |
| `TornLineExpected` (eval_run) | "A torn final line from a hard kill is expected, not exceptional" (`CORE/runner.py:479`) | a line torn inside a character raises where the file is read (`:474`), outside the `suppress`, at every resume |
| `VersionReturnedLocked` (publishing) | "A locked dataset version whose content hash matches the local data" (`CLI/publish.py:184`) | the version of a publish that died before its lock is returned as a draft |
| `SameBaseline` (publishing) | "both sides see the same baseline and must agree" (`CLI/publish.py:481`) | the baseline is resolved once before the run and again at the comparison |
| `BaselineHasMetrics` (publishing) | "The run a candidate would be compared against, with its metrics" (`API/api/routes/evaluation.py:790`) | a run completes before its metrics are submitted, and is a baseline from then on |
| `MatchMeansSameData` (publishing) | "every downstream comparison silently becomes a comparison across different data" (`CLI/publish.py:224`) is what the content hash is there to prevent | `--limit` runs part of the dataset and records it, as succeeded, against the hash of all of it (`CLI/main.py:258`, `CLI/runner.py:307`): a run of the first examples matches, and may be the baseline of, a run of all |
| `FailureRecorded` (upkeep) | "a failure may not be silent" (`API/worker/deadletter.py:3`) | a cancelled last attempt, a killed one, and a record that could not be stored leave nothing |
| `NothingOutstays` (upkeep) | "the moment day 31 arrives with the rows still there" (`API/services/retention.py:5`) | what is in DEFAULT is never dropped |
| `FreshReferenceResolves` (upkeep) | payload rows live as long as their project's window | a payload found by its hash keeps the age of the first span that stored it (`API/services/ingest.py`, `_offload`) |
| `MaintenanceNeverWedged` (upkeep) | maintenance is idempotent and can be run again | one row in DEFAULT has the partition of its month refused in every later run |
| `BoundReadersSeeTheirRows` (gateway) | "Give a signed-in user a project to act in" (`API/api/dependencies.py:226`) | the tenant of the transaction is set before the project is bound (`:106`): under row-level security such a reader sees nothing |
| `MintedKeyExists` (gateway) | a key is handed out once it is stored | the answer leaves before the commit that stores it |
| `VerdictsAgree` (decisions) | "from the same numbers, so they must agree" (`CLI/publish.py:26`) | a suite's gate set is sent without its noise tests, and the server knows no judge's calibration |
| `EveryMissIsSeen` (decisions) | "a rare-class collapse should at minimum be visible" (`CORE/evaluators/statistical.py:32`) | a prediction outside the labels a suite lists is in no cell, and the recall does not see it |
| `UndecidableIsAState` (decisions) | "An undecidable test must never read as a pass or a failure; the gate engine handles it as an explicit third state" (`CORE/significance.py:131`) | with too few pairs there is no p-value, and the message of a pass formats it (`CORE/gates.py:528-541`): a `TypeError`, and no report |
| `EveryRubricPointRecovered` (decisions) | the verdict that is calibrated is the one the judge gave | without normalisation, several votes or a single float such as `4.0`, whose text is no label (`CORE/calibration_runner.py:287`), are clamped into [0, 1] and read as a fraction of the scale |
| `EvidenceStands` (decisions) | observing a forbidden action is valid evidence regardless of what is missing (`TRAJ/matchers.py:26`) | `forbidden_before` is not among the rules that need a complete trace (`:29`): it reports a violation when the span that had to come first is the one that was lost |
| `SameOrderAsPolicies` (decisions) | "mirror the trajectory engine's normalization exactly" (`WEB/lib/spans.ts:10`) | the engine moves a child that starts before its parent, the waterfall does not |
| `NothingLeftCurrent` (decisions) | without it "the span is recorded into a trace nobody ever ends, and the data vanishes silently — the exact failure mode the SDK promises to avoid" (`SDK/client.py:171-175`) | a span outside every trace sets the one made for it (`:111`) and then fails on a type it does not know (`:117`); the exception is swallowed, the block is a no-op that closes nothing, and the spans that follow in the thread go into that trace |
| `ParentsInTrace` (decisions) | a span's parent is in its trace | a nested trace leaves the outer span current (`SDK/client.py:113`) |
| `BrokenSpanAlone` (decisions) | "Rejecting the span rather than the request keeps one broken span from discarding the valid ones around it" (`API/otlp/receiver.py:145`) | a status message over 4000 characters or more than 500 events raise in `SpanIn`, outside the route's `try` (`API/api/routes/otlp.py:91`): the request fails |
| `NothingThrownAway` (decisions) | "Every attribute that is not promoted to a column stays" (`API/otlp/mapping.py:26`) | the other spellings of a group go with the winner, also when the winner cannot be read |
| `OnlineAgreesAlways` (decisions) | "exactly the same verdict" (`API/services/online_eval.py:446`) | a loaded trace has no sequence counter, no offloaded arguments and no events (`API/services/online_eval.py:536`), hence no `state_update` |
| `AcceptedNeverFails` (decisions) | a predicate that only fails when a particular trace arrives "silently stops protecting you" (`TRAJ/parser.py:156`) | `abs` and `len` of a missing field raise; load time cannot see it |
| `MissingNeverScores` (decisions) | "A missing field is an error, not a zero" (`CORE/evaluators/deterministic.py:42`) | a segment named like a method of Python's text resolves to the method (`CORE/paths.py:54`) |

Other behaviours the models have that contradict no sentence are hazards with a
note in `PROJECT.json` or remarks beside the model: an append of an empty list may
leave the count of a draft behind its examples, a
promotion whose chosen label is taken fails each time, a completion may
overwrite a cancellation, a review may be finished by someone whose lease ran
out, concurrent refreshes fork a session, the limiter lets requests through
while its store is away, a resumed run starts its budget at zero and skips
examples that had failed, an errored task produces no score to gate on.

## 5. What is proved

Eight modules hold the theorems. Each states its inductive invariant as a
conjunction of named parts, proves `Init => IInv` and `IInv /\ [Next]_vars =>
IInv'` action by action, and reads the properties off it; TLC checked each `IInv`
on the instance of section 3 first, but for the recorder's, which speaks of places
that TLC cannot enumerate. The constants are arbitrary but for the assumptions
named, which TLC evaluates in the runs.

| Module, about | Theorems (with the property they state) |
|---|---|
| `SdkExporter_proofs`: any finite set of traces, any callers and daemons, sizes of queue and batch, retries, number of flush() and shutdown() calls; any tasks, and any cap on the spans of a trace | `TypeCorrect`; `OnePlaceAndCounted`; `LosesVisiblyAlways` (`LosesVisibly`); `DrainedAlways` (`DrainedIsEmpty`). Of the recorder, `RecordingIsKept` (`RecordingKept`) |
| `TraceIngest_proofs`: any set of spans, batches and deliveries | `IInvAlways`, `TypeCorrect`; `EventsFollowSpan` (`EventsExact`); `IngestSerializable` (`Serializable`); `RedeliveriesAreSafe` (`RedeliverySafe`) |
| `ReviewQueue_proofs`: any number of items, reviewers, outcomes; any rules, traces and batches of online evaluation | `IInvAlways`, `TypeCorrect`, `LocksKept`; `OneHolder` (`ClaimsExclusive`); `FinishedForGood` (`FinishedStays`); `OnlineInvariant`, `OnlineTypeCorrect`; `QueueAlwaysMirrors` (`QueueMirrorsFailures`); `VerdictsAreFinal` (`VerdictsFinal`) |
| `DatasetVersions_proofs`: any requests, labels and lists | `InductiveInvariant`, `TypeCorrect`; `DigestsSound` (`DigestSound`); `LockedVersionsAreFrozen` (`LockedFrozen`) |
| `ExperimentRuns_proofs`: any examples, chunks, metrics, attempts and requests | `InductiveInvariant`, `TypeCorrect`; `AcknowledgedIsStored` (`AcknowledgedStored`); `ReportsAreBacked` (`ReportBacked`) |
| `EvalCommand_proofs`: any dataset, workers, budget, costs and restarts; any clients, contents, qualities and requests; any gate sets, scores and baselines; any ratings, requirements, scales and ballots | of the runner, `InductiveInvariant`, `TypeCorrect`, `OverspendAlwaysBounded` (`OverspendBounded`), `VerdictsAreWhole` (`VerdictIsWhole`); of publishing, `Invariance`, `WholeRecords` (`RecordIsWhole`), `VerdictsStand` (`VerdictsHold`), `OneVersion` (`OneVersionPerConfig`); `GatesAreSound` (`GatesSound`); `CalibrationIsSound` (`CalibrationSound`) |
| `Platform_proofs`: any people, organizations, requests, tokens, links and invitations; any calendar, projects, windows, runs and attempts | of identity, `Invariance`, `TypesHold`, `UsedOnce` (`OnceButForRaces`), `EndedForGood` (`EndedStaysEnded`), `Admission` (`MembersWereInvited`), `Ownership` (`OwnerKept`); of the worker, `UpkeepInvariance`, `OneLetter` (`OneLetterPerFailure`), `PartitionsStayAhead` (`PartitionsAhead`), `KeptIsNotDropped` (`NothingKeptIsDropped`) |
| `Gateway_proofs`: any calls, people, keys, projects and limits | `InductiveInvariant`, `TypeCorrect`; `ActedWithinAuthority` (`ActsWithinAuthority`); `BudgetsArePerCredential` (`BudgetIsPerCredential`) |

**Exporter.** `SizeAssumption` (sizes are positive, finitely many traces),
`SentinelAssumption` (the sentinel and the two "none"s are no traces or threads),
`ChoiceAssumption`. That a trace is in one place is about three collections at
once, so the invariant says each holds it once (`HandsOK`, `QueueOK`,
`BatchesOK`), that no two of them do (`Apart`), and that the pending traces are
those in one of them (`PendingOK`): a submit moves a trace from a hand to the
queue, `Get` from the queue to a batch, a send out of the batch. `CountersOK`
adds what bounds `dropped_traces` from above: the sentinels in the queue and the
one a shutdown() under way owes are accounted for, as eviction may count them
later; `FailuresOK` bounds `failures` from below by the attempts under way.
`ScopeOK` and `DoneWorkersOK` carry what a flush saw to the end of the
shutdown. No theorem assumes anything of the host or the spool (`spool_dir` is
unset by default); `LosesVisiblyAlways` has `Unshut` beside the invariant: before
a shutdown() nothing stops or swaps a daemon, so no retry is cut short.

**Recorder.** The state is one program, so the invariant `Recorded` and the
operations are about a program `s`, and the proof has two halves: each operation
is shown to be an opening or a closing (`Opening`, `Closing`: what it adds, what
it leaves alone), and each of the two keeps `Recorded`. A thread of the program
that has no open block is outside every trace only because its blocks lead back
there one by one (`UnwindsOK`); what a block is about to end nobody else ends,
because a trace and a span have one block each (`OpenersOK`, `SpanBlocksOK`);
and that a trace was handed over with all the spans of the program's own threads
needs that they are registered with it and, while they are open, lie inside the
block that started it (`RegisteredOK`, `OwnOK`, `SentOK`). A trace that nobody
ends stays current for those who follow, so the places are taken with such traces
left out (`Clear`); whether a trace that exists is one of them never changes
(`Keeps`). The theorem assumes nothing of the cap: `max_spans_per_trace`
(`SDK/config.py:74`) is not validated, and with 0 every span outside a trace is
refused by the trace just made for it, which then is neither ended nor left.

**Ingestion.** `BatchAssumption` (a batch is a non-empty set of spans, its events
and errors are on spans it carries), `SpanAssumption` (finitely many spans,
natural start times), `NameAssumption` (`Absent`, `Nobody` and `NoRow` are no
batch, delivery or row). That `EventsOnce` survives a commit needs that what the
transaction deleted is still all there is to delete, which needs that nobody else
has committed these spans since, which needs the row locks to be held from the
upsert on. Hence `IInv`: `TypeOK`, `LocksHeld` (past its upsert a transaction
holds the lock of each span it carries), `KeysExist` (the key its trace row will
have is a start time of a span), `DeletesCurrent` (what it deleted equals what is
there to be deleted), `FirstOK` (a span has a first delivery as soon as it has a
version), `EventsOnce` and `EventsMatchSpan`. `DisjointHolders` says
that two transactions past their upserts share no span, `CommitEvents` computes
what a commit leaves, and with it `StoreNext` maps a commit to `Ingest(batch[d])`
and every other step to a stutter. `SeenCounted` and `SeenKey` use finiteness
and the well-foundedness of `<` on the naturals for the totals and the minimum.
`RedeliveriesAreSafe` needs more (`RedeliveryInv`): the lock on the trace row
keeps what a transaction will leave there true of that row until it commits
(`RowsHeld`); while no two requests overlap there is one in flight (`Alone`) and
the totals it read stay the totals (`TotalsCurrent`); and the row of the batch
committed last describes the spans stored (`LastOK`), so committing that batch
again rewrites what is there.

**Review queue.** `ActorAssumption` (the job, the reviewers, the other writers
and `Nobody` are different), `ChoiceAssumption` (outcomes are done or skipped,
priorities natural numbers). The two step properties are about one commit, but
what a commit writes was decided several statements earlier, from a state others
may have changed since. `Strengthening` says they have not: what a recovery
freed is locked by it and still an expired claim (`FreedHeld`), what a
transaction is about to commit is locked by it, and what it is about to claim is
pending or freed by itself (`WritesHeld`); `WritesMeant` ties what is written to
the place in the handler. `Untouched` is the frame lemma: a step that respects
another actor's locks keeps all of this for that actor. `CommitItem` lists what
one commit may do to one item, and `StepSafe` reads both properties off it.

**Online evaluation**, in the same module, since it fills that queue.
`RuleAssumption`, `RunnerAssumption`, and `TraceAssumption`: traces have distinct
places in the order of arrival and finitely many are there at the start; how many
may come is not bounded. A batch holds decisions and items it has not committed,
so `OnlineInv` says of each batch what it may hold: a decision that nobody else
holds and nobody has committed (`Undecided`), for each failure an item that is
queued, inserted by it, or its very next statement (`FailuresHeld`), and no item
without such a failure (`HeldFails`). A commit then adds both sides of the
equivalence at once, a rollback neither.

**Dataset versions.** `LabelAssumption`, `BatchAssumption`, `RequestAssumption`.
`VersionOK` is about what is committed: rows numbered without a gap, no id
twice, a count and a hash that are no more than the rows. `OwnerOK`, `ReadsOK`,
`AppendOK` and `LockOK` say what a request may have read and written at each
statement: what it read is a lower bound of what is there; what it inserts is
numbered from there and, by the unique indexes (`Apart`), meets no one else's
rows; and the digest a lock computed is of a prefix. That a version is frozen is
then the triggers plus the row lock: a request that owns a locked version's row
is about to commit exactly what is there.

**Experiment runs.** `AttemptAssumption`, `EndAssumption`. `UploadOK` follows an
upload: each example of its chunk is stored, in its hands or still to be
inserted, and the total it writes counts no more than is stored once it commits;
when its commit fails, the client has the answer and what it had in its hands is
`lost`, nothing else.
`MetricsOK` and `HandsApart` follow a completion: what it computed from is
stored, it deletes every metric the server had, and no other request has the same
metric in its hands, so a run's metrics are those of one pass (`AggregatesWhole`).

**Evaluation runner.** `RunAssumption` (finitely many workers, of which there is
one, finitely many costs, positive budget and slots). `Committed` strengthens
the bound on the spend: what is spent plus the dearest cost of everything in
flight is below the cap plus one dearest cost per worker, because a worker only
pulls below the cap. `NothingForgotten` (queued, in hand, or finished unless the
budget dropped it) gives `VerdictIsWhole` at the report; a process that fails
holds nothing any more, and starts again from its journal or not at all
(`StartsAndEnds`).

**Publishing.** `ClientAssumption` (finitely many clients, `Nobody` is none),
`PartAssumption` (a content has parts, qualities are natural numbers). The store
is as the unique indexes and the order of requests leave it (`StoreRanges`,
`RegistryOK`, `VersionsOK`), and each client, where it stands, may count on what
it is told there: a version it is filling is filled by nobody else (`ClaimOK`,
`UploadOK`), the run it is recording holds what it has sent of its share and is
about a locked, whole version (`RecordOK`), its verdict is the one on its own quality
and the baseline it read (`JudgedOK`), and what it reports as published has all
of it, with the server's verdict the same where the baseline was
(`PublishedOK`). A request whose answer was lost is repeated against what it
left, so all of this is stated of the store and not of the answers. The three
properties follow at the client's last steps.

**Gate engine.** `GateSetAssumption` (gate sets and rules have the fields of
their types and no other; limits are not restricted), `MinPairsAssumption`,
`PScaleAssumption`. The only state is the question, so the argument is about
operators: a verdict that passes has no blocking rule (`NothingBlocks`,
`PassedOn`), a rule that lets a metric pass found scores for it
(`MetricHasScores`) whose mean and error rate, as folds over the results, are
those `CountedOneByOne` gets from a sum over the set, and so meets its bounds
(`PassIsBornOut`, over `WithinLimits` for the limits on a drop: what is beyond the
absolute one and passes was shown to be noise, because a missing p-value raises). That the server agrees is that storing a gate set changes
nothing it reads (`StoredAsIs`) and that the noise tests are all that reads
single examples (`TestsDoNotMatter`).

**Calibration.** `JudgeAssumption`, `NoneAssumption`. A judge that gives all
examples the same answer has a false pass rate or a false fail rate of one on a
set with both outcomes, which no admissible ceiling allows
(`ConstantJudgeFails`); the median of votes is one of them (`MedianIsAVote`),
and scaling a number into [0, 1] and rounding it back to a step of the scale ends
at the point nearest to it (`NearestStep`, `RubricComesBack`).

**Identity.** `PeopleAssumption` (the founder and the invited person are people,
`Nobody` is no request). Handlers decide on rows they read and apply that to
rows others have changed since, so the invariant cannot say that what was read
is current. It says what survives. Of the tables: a used token has been rotated
and handed its family on (`TokensOK`), two tokens made from one come from
requests that overlapped (`SiblingsOK`), a family has two unused tokens only
through such a fork (`ForksOK`), who used a link or an invitation is over and
overlapped whoever else did (`LinksOK`, `InvitationsOK`), and an organization
has one owner and otherwise members who accepted an invitation (`MembersOK`). Of
a request in flight: nobody who was over when it began has used what it is about
to use (`RotateOK`, `ResetOK`, `SpendOK`), it will revoke every token it has to
end that was issued before it began and is still alive (`LogoutOK`, `ResetOK`),
and a membership it is about to write is not the owner's unless somebody has
changed it since (`ManageOK`). Of a finished one: what it had to end is ended
(`DoneOK`). The frame `Kept` says what any step leaves of the tables and of the
requests that do not take it; with it only the requests' own steps remain.

**Upkeep.** `RetentionAssumption`, `UpkeepAssumption`. `LettersAreLast`: a letter
is written in the last attempt, whose run is never taken up again. `Covered`: the
months the last maintenance made and that are not over are there. `AtHome`: a row
is in its month or in DEFAULT, so a month that is dropped, which ended before the
longest window, holds no row inside its own project's window.

**Gateway.** `CallAssumption`, `StartAssumption`, `LimitAssumption`. `could`
only grows, and whatever the handler's dependencies read (`WhoOK`) was the
caller's authority when they read it (`HeldOK`), so what runs later is within
`could` whatever has changed since. `BudgetOK` counts a credential's admitted
charges in a window: they are its counter as long as that is within the limit,
and somebody is refused only when they have reached it.

Only model-checked. Liveness stays with TLC altogether, since the prover handles
neither fairness nor ENABLED: `EverySettles`, `EveryDeliveryEnds`,
`EveryRequestEnds`, `AbandonedReturns`, `EveryTraceDecided`, `EveryRunStops`,
`EveryRunEnds`. So do facts by induction over data (what a recursive definition or
a fold computes on each input), as the provers cannot instantiate an induction
theorem's predicate; where a proof needs a greatest or least element of a finite
set it takes it from the well-foundedness of strict inclusion or of `<`. That is
why `WorseNeverPasses` (a sum over examples is compared with the same sum after
one of them fell, and the exact test and Holm's procedure are recursive),
`StatisticsSound`, `PoliciesSound` and `DashboardComplete` are checked on bounded
inputs only; the modules that declare a recursive operator (`Values`,
`Trajectory`, `Evaluators`, `TraceViews`, `Decisions`) are used by no module with a
theorem.

Several modules state a type invariant, or parts of a safety property by name,
that no configuration lists: the parts are conjuncts of a listed property, and a
type invariant is there for a proof to start from. `VerdictsFinal` of
`OnlineEval` is proved and not listed.

## 6. What is not modelled, and why

Not modelled at all:

* *Suite loading and the CI adapters*, *redaction and configuration of the SDK*:
  one pass over text or settings, with no state that outlives the call.
* *Annotations*: single inserts that no later step reads, except a promotion,
  which is in `DatasetVersions`.
* *Site, evals, examples, scripts*: pages, data and programs that use the system.

Left out of modelled components: environments, payload limits and request
decoding (ingestion); wire formats and the events of a span (OTLP); which
annotation a promotion takes its answer from (datasets); queue settings and
depths (review); rule administration, hourly roll-ups, forced re-runs and the
look-back window (online evaluation); the prompt of a judge and the evaluators
that read cost and latency off a trace; the Monte Carlo tests and bootstrap
intervals (their p-values are inputs); the object store behind payload rows; the
heartbeat row; the reads that are one SELECT; the pages of the dashboard. Of the
database, serialization is what READ COMMITTED, row locks, unique indexes and
triggers give; a row of another tenant is not visible to a role that is subject
to row-level security, and the policies that make it so are PostgreSQL's.
Memory reordering does not exist under the GIL.

Between models: `Gateway` steps through a request's dependencies and abstracts
handlers to three; in `Gateway` and `ExperimentRuns` a request's commit comes
after its answer and may fail (`MintedKeyExists`, `AcknowledgedIsFinal`), the
other models of the service take the two as one step. `OnlineEval` evaluates a trace as it is stored; that a trace
may be evaluated before it is complete is a hazard of the two components
together which no property covers, because the code promises nothing about it.

## 7. Plan

Every safety invariant of a state machine that a run checks is proved. What is left
to prove is an immutable version as the abstract specification that
`DatasetVersions` implements, over the invariant there is.

Models to come: a joint run of ingestion and online evaluation for decisions taken
on incomplete traces; calibration records from the CLI to the server; the object
store beside payload rows.

## 8. Running it

`tlc -config <run>.cfg <module>` with the module `PROJECT.json` names
(`MCSdkExporter`, `MCTraceIngest`, `MCDatasetVersions`, `ReviewQueue`,
`MCOnlineEval`, `MCExperimentRuns`, `MCDecisions`, `MCIdentity`, `MCEvalRun`,
`MCPublishing`, `MCUpkeep`, `MCGateway`); `tlapm <module>_proofs.tla` for the
proofs, with `SdkExporter`, `TraceIngest`, `ReviewQueue`, `DatasetVersions`,
`ExperimentRuns`, `EvalCommand`, `Platform` and `Gateway` for the module. Every run ends within four minutes
on two workers. Operators named `Bug...` are the plausible mistakes each property
is shown to notice: replacing the definition that follows one by it makes TLC
report the property `PROJECT.json` pairs it with.
