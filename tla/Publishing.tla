------------------------------ MODULE Publishing ------------------------------
(***************************************************************************)
(* proofstep eval in CI (cli/main.py, cli/runner.py, cli/publish.py): jobs *)
(* of one suite fetch a baseline, run, decide, and record the run on the   *)
(* server (routes/evaluation.py, services/experiments.py), which decides   *)
(* again.  Meanwhile people promote baselines and register definitions.    *)
(*                                                                         *)
(* A job's step is one request.  Any request may fail, before or after it  *)
(* took effect, and a job may be killed between two of them.  With --limit *)
(* a job runs a share of the dataset, whose results are sent in fewer      *)
(* requests.  The suite has one regression gate on a metric that only the  *)
(* process that ran it can compute; the quality a run measures is that     *)
(* metric.                                                                 *)
(***************************************************************************)
EXTENDS Registry

CONSTANTS
  Contents,  \* what the dataset file may hold: a content hash is its content
  Parts,     \* requests that the examples, and all results, are sent in
  Qualities, \* the values of the gated metric
  Past       \* the jobs that were before, one of which may have published

ASSUME PartAssumption == Parts \in Nat \ {0} /\ Qualities \subseteq Nat /\ Past \subseteq Clients

VARIABLES
  version,   \* version[t]: the dataset version labelled with the hash of t
  run,       \* run[c]: the experiment and run of the job c
  finished,  \* the runs that succeeded, in the order they ended
  promoted   \* the experiments with is_baseline

store == <<version, run, finished, promoted>>
vars == <<named, registry, client, store>>

NoVersion == [status |-> "none", rows |-> 0]
Whole(t) == [status |-> "succeeded", content |-> t, results |-> Parts, metrics |-> "all"]
NoRun == [status |-> "none", content |-> Nobody, results |-> 0, metrics |-> "none"]

Before(q) == [Fresh EXCEPT !.pc = "gone", !.op = "job", !.quality = q, !.share = Parts]

\* The project is new, or one job has already published a run of some quality.
Init ==
  /\ promoted = {}
  /\ \/ /\ named = {} /\ registry = NoVersions /\ finished = <<>>
        /\ version = [t \in Contents |-> NoVersion]
        /\ run = [c \in Clients |-> NoRun]
        /\ client = [c \in Clients |-> IF c \in Past THEN Before(0) ELSE Fresh]
     \/ \E c \in Past, t \in Contents, q \in Qualities :
          /\ named = {"dataset"} /\ finished = <<c>>
          /\ registry = [NoVersions EXCEPT !["gates"] = {[number |-> 1, config |-> Nobody]}]
          /\ version = [u \in Contents |->
                          IF u = t THEN [status |-> "locked", rows |-> Parts] ELSE NoVersion]
          /\ run = [d \in Clients |-> IF d = c THEN Whole(t) ELSE NoRun]
          /\ client = [d \in Clients |-> IF d \in Past THEN Before(q) ELSE Fresh]

(***************************************************************************)
(* resolve_baseline: the latest successful run of a promoted experiment,   *)
(* else of the baseline branch.  Only the second excludes the run asked    *)
(* about.                                                                  *)
(***************************************************************************)
LatestOf(S) ==
  LET places == {i \in DOMAIN finished : finished[i] \in S} IN
  IF places = {} THEN Nobody ELSE finished[Max(places)]

Baseline(excluded) ==
  IF LatestOf(promoted) # Nobody THEN LatestOf(promoted) ELSE LatestOf(Clients \ {excluded})

HasMetric(c) == c # Nobody /\ run[c].metrics = "all"

(***************************************************************************)
(* evaluate_gates with one regression rule: a missing measurement is an    *)
(* error, a missing baseline passes, and a comparison across datasets is   *)
(* refused.                                                                *)
(***************************************************************************)
Verdict(measured, quality, base, known, match) ==
  IF ~measured \/ ~match THEN "error"
  ELSE IF known /\ quality < client[base].quality THEN "fail" ELSE "pass"

Matches(c, base) == base = Nobody \/ run[base].content = run[c].content

(***************************************************************************)
(* The job up to its local verdict.                                        *)
(***************************************************************************)
BeginJob(c) ==
  /\ At(c, "idle")
  /\ \E t \in Contents : Become(c, [Fresh EXCEPT !.pc = "fetch", !.op = "job", !.content = t])
  /\ UNCHANGED <<named, registry, store>>

\* _fetch_baseline: without a server, or with one that does not answer, none.
FetchBaseline(c) ==
  /\ At(c, "fetch")
  /\ \E base \in {Baseline(Nobody), Nobody} :
       Become(c, [client[c] EXCEPT !.pc = "run", !.base = base, !.seen = HasMetric(base)])
  /\ UNCHANGED <<named, registry, store>>

\* execute, on the dataset or its first share: the local gates are told that the data match.
\* It ends in an error it knows (3), or in one it does not (1).
Run(c) ==
  /\ At(c, "run")
  /\ \/ \E q \in Qualities, aborted \in BOOLEAN :
          Become(c, [client[c] EXCEPT !.pc = "dataset", !.quality = q, !.aborted = aborted,
                       !.verdict = Verdict(TRUE, q, client[c].base, client[c].seen, TRUE)])
     \/ \E code \in {1, 3} : Become(c, [client[c] EXCEPT !.pc = "over", !.exit = code])
  /\ UNCHANGED <<named, registry, store>>

(***************************************************************************)
(* publish: the dataset and its content-addressed version.                 *)
(***************************************************************************)
Serving(c) == client[c].op = "job"
OnlyClient(c, rec) == Become(c, rec) /\ UNCHANGED <<named, registry, store>>

\* --local, or no server configured: nothing is published.
Skip(c) == At(c, "dataset") /\ OnlyClient(c, [client[c] EXCEPT !.pc = "exit", !.server = "skipped"])

EnsureDataset(c) ==
  /\ \/ At(c, "dataset") /\ CheckName(c, "dataset", "resolve")
     \/ Serving(c) /\ InsertName(c, "dataset", "resolve")
  /\ UNCHANGED store

\* ensure_version.  A version that is found is used if it has no hash or the right one.
Fits(t) == version[t].status = "draft" \/ version[t].rows = Parts
AfterVersion == "highest"

Resolve(c) ==
  LET t == client[c].content IN
  /\ At(c, "resolve")
  /\ IF version[t].status = "none" THEN Goto(c, "createVersion")
     ELSE IF Fits(t) THEN Become(c, [client[c] EXCEPT !.pc = AfterVersion, !.kind = "gates"])
     ELSE Refuse(c)
  /\ UNCHANGED <<named, registry, store>>

\* uq_dataset_versions_label
CreateVersion(c) ==
  LET t == client[c].content IN
  /\ At(c, "createVersion")
  /\ IF version[t].status # "none"
       THEN Refuse(c) /\ UNCHANGED version
       ELSE /\ Goto(c, "upload")
            /\ version' = [version EXCEPT ![t] = [status |-> "draft", rows |-> 0]]
  /\ UNCHANGED <<named, registry, run, finished, promoted>>

Send(c, pc, next, parts) ==
  /\ At(c, pc)
  /\ Become(c, [client[c] EXCEPT !.sent = (@ + 1) % parts,
                                 !.pc = IF client[c].sent + 1 = parts THEN next ELSE pc])

\* _publish loads the dataset again, without the limit.
Upload(c) ==
  /\ Send(c, "upload", "lock", Parts)
  /\ version' = [version EXCEPT ![client[c].content].rows = @ + 1]
  /\ UNCHANGED <<named, registry, run, finished, promoted>>

Lock(c) ==
  /\ At(c, "lock")
  /\ version' = [version EXCEPT ![client[c].content].status = "locked"]
  /\ Become(c, [client[c] EXCEPT !.pc = AfterVersion, !.kind = "gates"])
  /\ UNCHANGED <<named, registry, run, finished, promoted>>

(***************************************************************************)
(* record_run and compare.                                                 *)
(***************************************************************************)
\* Mutant: the metrics are submitted before the run is completed.
BugRecordNext == [results |-> "metrics", metrics |-> "complete", complete |-> "compare"]
\* "After completing, never before".
RecordNext == [results |-> "complete", complete |-> "metrics", metrics |-> "compare"]

SetRun(c, rec) ==
  run' = [run EXCEPT ![c] = rec] /\ UNCHANGED <<named, registry, version, promoted>>

\* Mutant: the server accepts a draft.
BugAccepts(t) == version[t].status # "none"
\* create_experiment: "Dataset version is a draft. Lock it before running an experiment".
Accepts(t) == version[t].status = "locked"

CreateExperiment(c) ==
  LET t == client[c].content IN
  /\ At(c, "experiment")
  /\ IF Accepts(t)
       THEN Goto(c, "open") /\ SetRun(c, [NoRun EXCEPT !.status = "experiment", !.content = t])
       ELSE Refuse(c) /\ UNCHANGED <<named, registry, version, promoted, run>>
  /\ UNCHANGED finished

\* From here on it matters how many results there are: with --limit, those of a share.
OpenRun(c) ==
  /\ At(c, "open")
  /\ \E share \in 1 .. Parts : Become(c, [client[c] EXCEPT !.pc = "results", !.share = share])
  /\ SetRun(c, [run[c] EXCEPT !.status = "running"])
  /\ UNCHANGED finished

SendResults(c) ==
  /\ Send(c, "results", RecordNext.results, client[c].share)
  /\ SetRun(c, [run[c] EXCEPT !.results = @ + 1])
  /\ UNCHANGED finished

End(c) == IF client[c].aborted THEN "failed" ELSE "succeeded"

\* Completing computes the metrics that come from scores, and clears the others.
Complete(c) ==
  /\ At(c, "complete") /\ Goto(c, RecordNext.complete)
  /\ SetRun(c, [run[c] EXCEPT !.status = End(c), !.metrics = "scores"])
  /\ finished' = IF End(c) = "succeeded" THEN Append(finished, c) ELSE finished

SubmitMetrics(c) ==
  /\ At(c, "metrics") /\ Goto(c, RecordNext.metrics)
  /\ SetRun(c, [run[c] EXCEPT !.metrics = "all"])
  /\ UNCHANGED finished

Compare(c) ==
  LET base == Baseline(c) IN
  /\ At(c, "compare")
  /\ Become(c, [client[c] EXCEPT !.pc = "exit", !.published = TRUE, !.compared = base,
                   !.server = Verdict(HasMetric(c), client[c].quality, base, HasMetric(base),
                                      Matches(c, base))])
  /\ UNCHANGED <<named, registry, store>>

(***************************************************************************)
(* The exit code is the local verdict's; --require-publish can only raise  *)
(* it.                                                                     *)
(***************************************************************************)
LocalExit(c) ==
  IF client[c].aborted \/ client[c].verdict = "error" THEN 2
  ELSE IF client[c].verdict = "fail" THEN 1 ELSE 0

ExitCode(c, required) ==
  IF ~required THEN LocalExit(c)
  ELSE IF client[c].server = "skipped" THEN 3
  ELSE IF client[c].published THEN LocalExit(c) ELSE Max({LocalExit(c), 3})

\* What only its requests needed.
Forgotten(c) == [client[c] EXCEPT !.sent = 0, !.number = 0, !.kind = "none"]

Exit(c) ==
  /\ Serving(c) /\ At(c, "exit")
  /\ \E required \in BOOLEAN :
       OnlyClient(c, [Forgotten(c) EXCEPT !.pc = "over", !.exit = ExitCode(c, required),
                                          !.required = required])

\* A request fails, before or after it took effect; publish() goes no further.
Requesting(c) ==
  /\ Serving(c)
  /\ client[c].pc \notin {"idle", "fetch", "run", "exit", "over", "gone"}
RequestFails(c) ==
  Requesting(c) /\ Become(c, [Forgotten(c) EXCEPT !.pc = "exit"]) /\ UNCHANGED <<named, registry, store>>

\* The CI system kills the job.
Die(c) ==
  /\ Serving(c) /\ client[c].pc \notin {"over", "gone"}
  /\ Become(c, [Fresh EXCEPT !.pc = "gone", !.op = "job", !.quality = client[c].quality,
                           !.share = client[c].share, !.aborted = client[c].aborted]) /\ UNCHANGED <<named, registry, store>>

(***************************************************************************)
(* promote_baseline: whatever is promoted is read, then replaced.          *)
(***************************************************************************)
Experiments == {c \in Clients : run[c].status # "none"}

BeginPromote(c) ==
  /\ At(c, "idle")
  /\ \E e \in Experiments :
       OnlyClient(c, [Fresh EXCEPT !.pc = "promote", !.op = "promote", !.base = e,
                                   !.config = promoted])

Promote(c) ==
  /\ At(c, "promote") /\ Goto(c, "promoted")
  /\ promoted' = (promoted \ client[c].config) \cup {client[c].base}
  /\ UNCHANGED <<named, registry, version, run, finished>>

JobStep(c) ==
  \/ BeginJob(c) \/ FetchBaseline(c) \/ Run(c) \/ Skip(c) \/ EnsureDataset(c) \/ Resolve(c)
  \/ CreateVersion(c) \/ Upload(c) \/ Lock(c) \/ CreateExperiment(c) \/ OpenRun(c)
  \/ SendResults(c) \/ Complete(c) \/ SubmitMetrics(c) \/ Compare(c) \/ Exit(c)
  \/ RequestFails(c) \/ Die(c)

Next ==
  \E c \in Clients :
    \/ RegisterStep(c) /\ UNCHANGED store
    \/ JobStep(c) \/ BeginPromote(c) \/ Promote(c)

Spec == Init /\ [][Next]_vars

-----------------------------------------------------------------------------
Jobs == {c \in Clients : Serving(c)}
Published == {c \in Jobs : client[c].published}

TypeOK ==
  /\ named \subseteq {"dataset", "evaluator", "policy"}
  /\ version \in [Contents -> [status : {"none", "draft", "locked"}, rows : 0 .. Parts]]
  /\ promoted \subseteq Experiments
  /\ \A c \in Clients :
       /\ run[c].results \in 0 .. Parts /\ run[c].content \in Contents \cup {Nobody}
       /\ client[c].sent \in 0 .. Parts /\ client[c].share \in 0 .. Parts
       /\ client[c].exit \in {-1, 0, 1, 2, 3}

\* What a job reports as published is all there: a run with every result the job has and
\* its metrics, on a locked version that holds exactly the dataset it loaded, although any
\* request on the way could be the one that another job's dead publish left half done.
PublishedIsWhole ==
  \A c \in Published :
    /\ run[c] = [status |-> End(c), content |-> client[c].content,
                 results |-> client[c].share, metrics |-> "all"]
    /\ version[client[c].content] = [status |-> "locked", rows |-> Parts]

\* A baseline has every result of a run that was not aborted, whenever it is asked for: what
\* jobs abort, or leave open when they die, never becomes one.
BaselinesSound ==
  \A c \in Jobs : \A b \in {client[c].base, client[c].compared} \ {Nobody} :
    run[b].results = client[b].share /\ ~client[b].aborted

\* "A server that is slow, unreachable, or misconfigured must not be able to turn a failing
\* run into a passing one"; with --require-publish a pass is also on record.
ExitIsLocal ==
  \A c \in Jobs : client[c].exit = 0 =>
    /\ client[c].verdict = "pass" /\ ~client[c].aborted
    /\ client[c].required => client[c].published

\* When both sides saw the same baseline, as complete as it is now, and it ran on the
\* same data, the server's verdict is the job's.
AgreesOnSameBaseline ==
  \A c \in Published :
    /\ client[c].compared = client[c].base
    /\ client[c].base # Nobody =>
         client[c].seen /\ run[client[c].base].content = client[c].content
    => client[c].server = client[c].verdict

\* "Re-registering an identical config returns the existing version rather than minting a
\* new number": those who register one configuration of the evaluator get one version.
OneVersionPerConfig ==
  \A c, d \in Clients :
    /\ At(c, "registered") /\ At(d, "registered")
    /\ client[c].kind = "evaluator" /\ client[d].kind = "evaluator"
    /\ client[c].config = client[d].config
    => client[c].number = client[d].number

\* What is on record is whole, and so is what later jobs are compared with.
RecordIsWhole == PublishedIsWhole /\ BaselinesSound

\* "Every downstream comparison silently becomes a comparison across different data": what
\* dataset_match lets be compared ran on the same examples.
MatchMeansSameData ==
  \A c \in Published : client[c].compared # Nobody /\ Matches(c, client[c].compared) =>
    run[client[c].compared].results = run[c].results

\* No server changes a job's verdict, and one that saw what the job saw has the same.
VerdictsHold == ExitIsLocal /\ AgreesOnSameBaseline

\* ensure_version: "A locked dataset version whose content hash matches the local data."
VersionReturnedLocked ==
  \A c \in Jobs : At(c, AfterVersion) => version[client[c].content].status = "locked"

\* fetch_baseline: "both sides see the same baseline and must agree".
SameBaseline ==
  \A c \in Published : client[c].seen => client[c].compared = client[c].base

\* resolve_baseline_run: "The run a candidate would be compared against, with its metrics."
BaselineHasMetrics ==
  \A c \in Jobs : client[c].base # Nobody => client[c].seen

=============================================================================
