----------------------------- MODULE GateEngine -----------------------------
(* The merge decision (evaluation-core gates.py, compare.py; shared-types       *)
(* gates.py; the gate sets the command line builds, sends and the server        *)
(* stores).  Thresholds and scores are integers in hundredths.  It is asked one *)
(* question at a time: a candidate run, a baseline, a gate set.                 *)
EXTENDS Metrics

CONSTANTS GateSets,
          Scorings,      \* sequences of the scores of each example
          Baselines

VARIABLE asked           \* the question being answered, <<>> when there is none

(* A rule is [key, slice, minimum, maximum, maxAbs, maxRel, severity,           *)
(* requireBaseline, maxErrorRate, significance, requirePower]; None is an       *)
(* unset field.  A gate set is [rules (a set), requireMatch, calibration],      *)
(* calibration being "off", "warn" (a requirement that is not required) or      *)
(* "required".                                                                  *)

IsRule(r) ==
    r = [key |-> r.key, slice |-> r.slice, minimum |-> r.minimum, maximum |-> r.maximum,
         maxAbs |-> r.maxAbs, maxRel |-> r.maxRel, severity |-> r.severity,
         requireBaseline |-> r.requireBaseline, maxErrorRate |-> r.maxErrorRate,
         significance |-> r.significance, requirePower |-> r.requirePower]

IsGateSet(gs) ==
    /\ gs = [rules |-> gs.rules, requireMatch |-> gs.requireMatch, calibration |-> gs.calibration]
    /\ \A r \in gs.rules : IsRule(r)

ASSUME GateSetAssumption == \A gs \in GateSets : IsGateSet(gs)

Blocking(r) == r.severity = "block"

(* The two validators of GateRule.                                              *)
RuleOk(r) ==
    /\ {r.minimum, r.maximum, r.maxAbs, r.maxRel} # {None}
    /\ (r.minimum # None /\ r.maximum # None) => r.minimum <= r.maximum

NeedsBaseline(r) == r.maxAbs # None \/ r.maxRel # None
NeedsSignificance(r) == r.significance # None \/ r.requirePower

Lookup(r) == <<r.key, r.slice>>

(* Comparisons of means as fractions; drop = base - metric.                     *)
Below(m, limit) == Num(m) < limit * Den(m)
Above(m, limit) == Num(m) > limit * Den(m)
DropNum(m, b) == Num(b) * Den(m) - Num(m) * Den(b)
DropAbove(m, b, limit) == DropNum(m, b) > limit * Den(m) * Den(b)
Abs(x) == IF x < 0 THEN -x ELSE x
RelativeDropAbove(m, b, limit) ==
    Num(b) # 0 /\ 100 * DropNum(m, b) > limit * Abs(Num(b)) * Den(m)

Result(r, verdict, clause) ==
    [metric |-> r.key, slice |-> r.slice, verdict |-> verdict,
     severity |-> r.severity, rule |-> clause]

(* A rule that asked for power and cannot have it is an ERROR.                  *)
NoPower(r, tests) ==
    /\ r.requirePower /\ r.maxAbs # None
    /\ r.key \notin DOMAIN tests \/ ~HasMde(tests[r.key])

Underpowered(r, tests) ==
    /\ r.requirePower /\ r.maxAbs # None
    /\ UnderpoweredFor(tests[r.key], r.maxAbs)

(* The threshold is broken and the rule wants to know whether that is noise.    *)
AsksNoise(r, m, b) == r.significance # None /\ r.maxAbs # None /\ DropAbove(m, b, r.maxAbs)

(* The paired test is looked up by the metric's key alone, whatever the slice.  *)
(* The message of a pass formats its p-value, and there is none when too few    *)
(* examples were paired: that raises.                                           *)
CheckRegression(r, m, b, tests) ==
    IF NoPower(r, tests) THEN Result(r, "error", "power_unknown")
    ELSE IF Underpowered(r, tests) THEN Result(r, "error", "underpowered")
    ELSE IF AsksNoise(r, m, b) /\ r.key \notin DOMAIN tests
         THEN Result(r, "error", "significance_unavailable")
    ELSE IF AsksNoise(r, m, b) /\ ~IsSignificant(tests[r.key], r.significance)
         THEN Result(r, IF PValue(tests[r.key]) = None THEN "raised" ELSE "pass", "not_significant")
    ELSE IF r.maxAbs # None /\ DropAbove(m, b, r.maxAbs)
         THEN Result(r, "fail", "max_absolute_regression")
    ELSE IF r.maxRel # None /\ RelativeDropAbove(m, b, r.maxRel)
         THEN Result(r, "fail", "max_relative_regression")
    ELSE Result(r, "pass", "regression")

WithBaseline(r, m, baseline, tests) ==
    IF Lookup(r) \in DOMAIN baseline
    THEN CheckRegression(r, m, baseline[Lookup(r)], tests)
    ELSE IF r.requireBaseline THEN Result(r, "error", "baseline_missing")
    ELSE Result(r, "pass", "no_baseline")

WithMetric(r, m, baseline, tests) ==
    IF m.count = 0 THEN Result(r, "error", "no_data")
    ELSE IF ErrorRateAbove(m, r.maxErrorRate) THEN Result(r, "error", "error_rate")
    ELSE IF r.minimum # None /\ Below(m, r.minimum) THEN Result(r, "fail", "minimum")
    ELSE IF r.maximum # None /\ Above(m, r.maximum) THEN Result(r, "fail", "maximum")
    ELSE IF NeedsBaseline(r) \/ r.requireBaseline THEN WithBaseline(r, m, baseline, tests)
    ELSE Result(r, "pass", "threshold")

Apply(r, candidate, baseline, tests) ==
    IF Lookup(r) \in DOMAIN candidate
    THEN WithMetric(r, candidate[Lookup(r)], baseline, tests)
    ELSE Result(r, "error", "metric_missing")

(* One result per gated judge metric, about the evidence its judge rests on.    *)
(* A calibration status is "none", "stale", "unmet" or "met".                   *)
CalibrationResult(key, status, required) ==
    [metric |-> key, slice |-> {},
     verdict |-> IF status = "met" THEN "pass" ELSE IF required THEN "error" ELSE "fail",
     severity |-> IF required /\ status # "met" THEN "block" ELSE "warn",
     rule |-> CASE status = "none" -> "uncalibrated_judge"
                [] status = "stale" -> "stale_calibration"
                [] status = "unmet" -> "calibration_requirement"
                [] status = "met" -> "calibrated"]

CalibrationResults(gs, judges, calibrations) ==
    { CalibrationResult(k, IF k \in DOMAIN calibrations THEN calibrations[k] ELSE "none",
                        gs.calibration = "required") :
      k \in {r.key : r \in gs.rules} \cap judges }

DatasetMismatch ==
    [metric |-> "__dataset_match__", slice |-> {}, verdict |-> "error",
     severity |-> "block", rule |-> "require_dataset_match"]

(* Mutant: an error blocks nothing.                                             *)
BugCombine(results) ==
    IF \E x \in results : x.verdict = "fail" /\ Blocking(x) THEN "fail"
    ELSE IF \E x \in results : x.verdict \in {"fail", "error"} THEN "warn"
    ELSE "pass"

(* Worst verdict wins; a failure that does not block is only ever a warning.    *)
Combine(results) ==
    IF \E x \in results : x.verdict = "error" /\ Blocking(x) THEN "error"
    ELSE IF \E x \in results : x.verdict = "fail" /\ Blocking(x) THEN "fail"
    ELSE IF \E x \in results : x.verdict \in {"fail", "error"} THEN "warn"
    ELSE "pass"

GateResults(gs, candidate, baseline, match, judges, calibrations, tests) ==
    {Apply(r, candidate, baseline, tests) : r \in gs.rules}
    \cup CalibrationResults(gs, judges, calibrations)
    \cup (IF gs.requireMatch /\ ~match THEN {DatasetMismatch} ELSE {})

(* A rule whose check raises leaves no report.                                  *)
EvaluateGates(gs, candidate, baseline, match, judges, calibrations, tests) ==
    LET results == GateResults(gs, candidate, baseline, match, judges, calibrations, tests)
    IN  IF \E x \in results : x.verdict = "raised" THEN "raised" ELSE Combine(results)

Passed(verdict) == verdict \in {"pass", "warn"}

(* The exit code of an exception that nobody catches is 1.                      *)
GateExitCode(verdict) ==
    CASE verdict = "error" -> 2 [] verdict \in {"fail", "raised"} -> 1 [] OTHER -> 0

-----------------------------------------------------------------------------
(* Where the rules come from.  The suite does not carry an error-rate limit, so *)
(* a rule built from it has the default of five per cent.                       *)
SuiteRule(spec) == [spec EXCEPT !.maxErrorRate = 5]
BuildGateSet(suite) == [suite EXCEPT !.rules = {SuiteRule(r) : r \in suite.rules}]

(* What ensure_gate_set sends leaves out significance and require_power; the    *)
(* server stores a required calibration as such and reads the set back.         *)
WireRule(r) == [r EXCEPT !.significance = None, !.requirePower = FALSE]
StoredGateSet(gs) ==
    [gs EXCEPT !.rules = {WireRule(r) : r \in {x \in gs.rules : RuleOk(x)}}]

(* The server gates the aggregates it stored: no paired tests, no judges.       *)
ServerVerdict(gs, candidate, baseline, match) ==
    EvaluateGates(gs, candidate, baseline, match, {}, <<>>, <<>>)

-----------------------------------------------------------------------------
(* Comparison of a candidate with a baseline.                                   *)
Delta(candidate, baseline, l) ==
    IF l \in DOMAIN candidate /\ l \in DOMAIN baseline
    THEN [both |-> TRUE, num |-> -DropNum(candidate[l], baseline[l]), count |-> candidate[l].count]
    ELSE [both |-> FALSE, num |-> 0,
          count |-> IF l \in DOMAIN candidate THEN candidate[l].count ELSE 0]

Deltas(candidate, baseline) ==
    [l \in DOMAIN candidate \cup DOMAIN baseline |-> Delta(candidate, baseline, l)]

RegressedMetrics(candidate, baseline) ==
    {l \in DOMAIN candidate \cup DOMAIN baseline : Deltas(candidate, baseline)[l].num < 0}

(* Matched on the example's id; an errored or absent score on either side is    *)
(* no change.  score_for takes the first score of the metric.                   *)
FirstScore(r, key) ==
    LET at == {i \in DOMAIN r.scores : r.scores[i].metric = key}
    IN  IF at = {} THEN None ELSE r.scores[Min(at)]

Changes(candidate, baseline) ==
    UNION { LET Prior(score) == FirstScore(CHOOSE b \in baseline : b.id = c.id, score.metric)
            IN  { [at |-> <<c.id, s.metric>>, by |-> s.value - Prior(s).value] :
                  s \in {x \in Range(c.scores) :
                           Prior(x) # None /\ Counts(x) /\ Counts(Prior(x))} } :
            c \in {x \in candidate : x.id \in Ids(baseline)} }

Regressions(candidate, baseline) == {m.at : m \in {x \in Changes(candidate, baseline) : x.by < 0}}
Improvements(candidate, baseline) == {m.at : m \in {x \in Changes(candidate, baseline) : x.by > 0}}

(* Unknown hashes match anything.                                               *)
DatasetMatch(candidateHash, baselineHash) ==
    candidateHash = None \/ baselineHash = None \/ candidateHash = baselineHash
-----------------------------------------------------------------------------
(* Questions about the gates.                                                   *)
Completed(scoring) ==
    {[id |-> e, status |-> "ok", scores |-> scoring[e], meta |-> <<>>] : e \in DOMAIN scoring}

(* The score of one example replaced by the lowest.                             *)
Worse(scoring, e) ==
    [scoring EXCEPT ![e] = [i \in DOMAIN @ |->
        IF Counts(@[i]) THEN [@[i] EXCEPT !.value = 0] ELSE @[i]]]

Asked(kind) == asked # <<>> /\ asked[1] = kind

AskGates ==
    /\ asked = <<>>
    /\ \E g \in GateSets, c \in Scorings, b \in Baselines, m \in BOOLEAN : \E e \in DOMAIN c :
          asked' = <<"gates", [gates |-> g, candidate |-> c, worse |-> e, baseline |-> b, match |-> m]>>

\* Whatever else is asked or answered.
AskElse == (asked # <<>> => asked[1] # "gates")'

GateSpec == asked = <<>> /\ [][AskGates \/ AskElse]_asked

Tests(gs, candidate, baseline) ==
    AnalyseAll(candidate, baseline, {r.key : r \in {x \in gs.rules : NeedsSignificance(x)}},
               [k \in {r.key : r \in gs.rules} |-> PScale])

(* What the command line decides, no judge being involved.                      *)
GateVerdict(q, candidate) ==
    EvaluateGates(q.gates, AggregateScores(Completed(candidate), {}),
                  AggregateScores(Completed(q.baseline), {}), q.match, {}, <<>>,
                  Tests(q.gates, Completed(candidate), Completed(q.baseline)))

(* The scores a rule is about, one by one: those that count, and the failures.  *)
ValuesFor(results, r) == {p \in ScoresFor(results, r.key) : p[1].scores[p[2]].slice = r.slice}

FailuresFor(results, r) ==
    { p \in UNION {{x} \X DOMAIN x.scores : x \in results} :
        LET s == p[1].scores[p[2]] IN s.metric = r.key /\ s.slice = r.slice /\ s.errored }

(* A test was made, and its p-value is above the rule's.                        *)
NoiseShown(r, tests) ==
    /\ r.significance # None /\ r.key \in DOMAIN tests
    /\ PValue(tests[r.key]) # None /\ ~(PValue(tests[r.key]) <= r.significance)

(* The examples bear a rule out: at least one produced a score, the evaluator   *)
(* failed no more often than allowed, the mean is within the bounds and not too *)
(* far below the mean of a measured baseline, or shown to be so by noise.       *)
BornOut(r, candidate, baseline, tests) ==
    LET values == ValuesFor(candidate, r)
        before == ValuesFor(baseline, r)
        failed == Cardinality(FailuresFor(candidate, r))
        n      == Cardinality(values)
        k      == Cardinality(before)
        drop   == SumAt(before) * n - SumAt(values) * k
        beyond == r.maxAbs # None /\ drop > r.maxAbs * n * k
    IN  /\ values # {}
        /\ ~(100 * failed > r.maxErrorRate * (n + failed))
        /\ r.minimum # None => ~(SumAt(values) < r.minimum * n)
        /\ r.maximum # None => ~(SumAt(values) > r.maximum * n)
        /\ r.requireBaseline => before \cup FailuresFor(baseline, r) # {}
        /\ k # 0 =>
             /\ beyond => NoiseShown(r, tests)
             /\ (~beyond /\ r.maxRel # None /\ SumAt(before) # 0) =>
                  ~(100 * drop > r.maxRel * Abs(SumAt(before)) * n)

(* A run that passes has earned it: every blocking rule is borne out by its     *)
(* results, counted here one by one, and it is about the baseline's dataset     *)
(* where that is required (gates.py _apply, _check_regression).                 *)
GatePassIsEarned ==
    Asked("gates") =>
        LET q == asked[2] IN
        Passed(GateVerdict(q, q.candidate)) =>
            /\ q.gates.requireMatch => q.match
            /\ \A r \in q.gates.rules :
                  Blocking(r) => BornOut(r, Completed(q.candidate), Completed(q.baseline),
                                         Tests(q.gates, Completed(q.candidate), Completed(q.baseline)))

(* What the server decides from the stored gate set and aggregates is what the  *)
(* command line decided.                                                        *)
ServerAgrees(q) ==
    ServerVerdict(StoredGateSet(q.gates), AggregateScores(Completed(q.candidate), {}),
                  AggregateScores(Completed(q.baseline), {}), q.match)
    = GateVerdict(q, q.candidate)

(* The two verdicts agree for every gate set that asks for no noise test and no *)
(* power (publish.py: the server re-evaluates the gates and the two must agree).*)
VerdictsAgreeWithoutTests ==
    Asked("gates") =>
        ((\A r \in asked[2].gates.rules : RuleOk(r) /\ ~NeedsSignificance(r))
            => ServerAgrees(asked[2]))

(* The same without the condition.                                              *)
VerdictsAgree == Asked("gates") => ServerAgrees(asked[2])

(* "An undecidable test must never read as a pass or a failure; the gate engine *)
(* handles it as an explicit third state."                                      *)
UndecidableIsAState ==
    Asked("gates") => GateVerdict(asked[2], asked[2].candidate) # "raised"

(* What the gates decide was earned, and is decided alike on both sides.        *)
GatesSound == GatePassIsEarned /\ VerdictsAgreeWithoutTests

(* A worse answer never helps: lowering the score of one example cannot turn a  *)
(* blocked run into one that passes.  Rules with an upper bound are left out    *)
(* (less is better for them), and so are rules that combine a noise test with a *)
(* relative limit (once the absolute limit is crossed and the drop is found not *)
(* significant, the relative limit is not looked at any more) or with a demand  *)
(* for power (a lower score may leave less spread, hence enough power).         *)
WorseNeverPasses ==
    Asked("gates") =>
        LET q == asked[2]
        IN  (\A r \in q.gates.rules : /\ r.maximum = None
                                      /\ r.significance # None => r.maxRel = None
                                      /\ ~r.requirePower)
            /\ Passed(GateVerdict(q, Worse(q.candidate, q.worse)))
            => Passed(GateVerdict(q, q.candidate))
=============================================================================
