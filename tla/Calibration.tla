----------------------------- MODULE Calibration -----------------------------
(* Judge calibration: labelled examples and judge verdicts in, a report and the *)
(* decision whether the judge may be gated on out (evaluation-core              *)
(* calibration.py and calibration_runner.py, cli calibration.py and             *)
(* calibration_store.py).  Rates are compared in hundredths, by cross           *)
(* multiplication, so that no rounding is involved.                             *)
EXTENDS GateEngine

CONSTANTS MinCeiling,
          Raters, Requirements,  \* sequences of [human, second]; requirements
          Grain,                 \* the parts of a rubric point that a float can tell apart
          Scales, Ballots        \* the highest points of scales from 1; sequences of votes

(* A vote on a rubric, as the judge wrote it: an integer, or a float, at this    *)
(* many parts of a point.                                                       *)
Vote == {v \in [at : Int, float : BOOLEAN] : v.float \/ v.at % Grain = 0}

ASSUME JudgeAssumption ==
    /\ \A r \in Raters : IsFiniteSet(DOMAIN r)
    /\ Scales \subseteq Nat \ {0}
    /\ Grain \in Nat \ {0}
    /\ \A v \in Ballots : v \in Seq(Vote \cup {None}) /\ v # <<>>

(* An absent value is no value.                                                 *)
ASSUME NoneAssumption ==
    /\ None \notin Int /\ None \notin Seq(Int) /\ None \notin [num : Int, den : Int]
    /\ None \notin [at : Int, float : BOOLEAN]

(* labelled: example id -> [human, second, adjudicated]; verdicts: a sequence   *)
(* of [id, label, errored].  order is the ordinal scale as a sequence of        *)
(* labels, or None for a classifier; passing is a set of labels, {} when the    *)
(* suite names none.                                                            *)

ReferenceLabel(e) == IF e.adjudicated # None THEN e.adjudicated ELSE e.human

(* Verdicts that enter the report: known ids, an answer, no error.  An id that  *)
(* was judged twice enters twice.                                               *)
Known(labelled, verdicts) == {i \in DOMAIN verdicts : verdicts[i].id \in DOMAIN labelled}
NoAnswer(v) == v.errored \/ v.label = None
UsableVerdicts(labelled, verdicts) ==
    {i \in Known(labelled, verdicts) : ~NoAnswer(verdicts[i])}

(* Pairs of labels are a function from the verdict's place to <<human, judge>>. *)
PairsOf(labelled, verdicts) ==
    [i \in UsableVerdicts(labelled, verdicts) |->
        <<ReferenceLabel(labelled[verdicts[i].id]), verdicts[i].label>>]

Size(pairs) == Cardinality(DOMAIN pairs)
LabelsIn(pairs) == UNION {{pairs[i][1], pairs[i][2]} : i \in DOMAIN pairs}
Count(pairs, human, judge) == Cardinality({i \in DOMAIN pairs : pairs[i] = <<human, judge>>})
Row(pairs, human) == Cardinality({i \in DOMAIN pairs : pairs[i][1] = human})
Column(pairs, judge) == Cardinality({i \in DOMAIN pairs : pairs[i][2] = judge})
Hits(pairs) == Cardinality({i \in DOMAIN pairs : pairs[i][1] = pairs[i][2]})

OnScale(order) == {order[i] : i \in DOMAIN order}
Position(order, l) == CHOOSE i \in DOMAIN order : order[i] = l
MatrixLabels(pairs, order) == LabelsIn(pairs) \cup (IF order = None THEN {} ELSE OnScale(order))

(* Agreement weights, scaled by the square of the span of the scale.            *)
Span(order) == IF order = None \/ Len(order) < 2 THEN 1 ELSE Len(order) - 1
Square(x) == x * x
Weight(order, a, b) ==
    IF order = None THEN IF a = b THEN 1 ELSE 0
    ELSE Square(Span(order)) - Square(Position(order, a) - Position(order, b))

(* Cohen's kappa as [num, den], or None when it is undefined: no pairs, a label *)
(* off the scale, or chance agreement of one.  With W = span ^ 2 and n pairs,   *)
(* kappa = (n * O - E) / (W * n^2 - E).                                         *)
Kappa(pairs, order) ==
    LET n == Size(pairs)
        L == MatrixLabels(pairs, order)
        W == Square(Span(order))
        O == MapThenSumSet(LAMBDA p : Weight(order, p[1], p[2]) * Count(pairs, p[1], p[2]), L \X L)
        E == MapThenSumSet(LAMBDA p : Weight(order, p[1], p[2]) * Row(pairs, p[1]) * Column(pairs, p[2]),
                            L \X L)
    IN  IF n = 0 \/ (order # None /\ ~(LabelsIn(pairs) \subseteq OnScale(order))) \/ E = W * n * n
        THEN None
        ELSE [num |-> n * O - E, den |-> W * n * n - E]

KappaAtLeast(k, limit) == 100 * k.num >= limit * k.den

(* a - b >= -5 hundredths, the tolerance of at_human_ceiling.                   *)
WithinFive(a, b) == 100 * (a.num * b.den - b.num * a.den) >= -5 * a.den * b.den

(* Rates under the pass / fail projection: [num, den] or None when nothing was  *)
(* measured.                                                                    *)
Rate(num, den) == IF den = 0 THEN None ELSE [num |-> num, den |-> den]
RateAbove(r, limit) == r # None /\ limit # None /\ 100 * r.num > limit * r.den

FalsePass(pairs, passing) ==
    LET failed == {i \in DOMAIN pairs : pairs[i][1] \notin passing}
    IN  IF passing = {} THEN None
        ELSE Rate(Cardinality({i \in failed : pairs[i][2] \in passing}), Cardinality(failed))

FalseFail(pairs, passing) ==
    LET passed == {i \in DOMAIN pairs : pairs[i][1] \in passing}
    IN  IF passing = {} THEN None
        ELSE Rate(Cardinality({i \in passed : pairs[i][2] \notin passing}), Cardinality(passed))

(* The human ceiling and the judge's kappa on the same doubly-labelled subset.  *)
Doubly(labelled, verdicts) ==
    {i \in UsableVerdicts(labelled, verdicts) : labelled[verdicts[i].id].second # None}

HumanKappa(labelled, verdicts, order) ==
    Kappa([i \in Doubly(labelled, verdicts) |->
              <<labelled[verdicts[i].id].human, labelled[verdicts[i].id].second>>], order)

JudgeKappaOnSubset(labelled, verdicts, order) ==
    Kappa([i \in Doubly(labelled, verdicts) |->
              <<ReferenceLabel(labelled[verdicts[i].id]), verdicts[i].label>>], order)

(* Order effects of pairwise probes [a, b, ab, ba]; unresolved ones are left    *)
(* out of the rates.                                                            *)
Resolved(probes) == {p \in DOMAIN probes : probes[p].ab # None /\ probes[p].ba # None}
Inconsistent(probes) == {p \in Resolved(probes) : probes[p].ab # probes[p].ba}
FirstBothTimes(probes) ==
    {p \in Resolved(probes) : probes[p].ab = probes[p].a /\ probes[p].ba = probes[p].b}

Biased(probes) ==
    LET n == Cardinality(Resolved(probes))
    IN  n > 0 /\ (100 * Cardinality(Inconsistent(probes)) > 20 * n
                  \/ 100 * Cardinality(FirstBothTimes(probes)) > 20 * n)

(* The report: what check_requirement and the gates read of it.                 *)
Calibrate(labelled, verdicts, passing, order, probes) ==
    LET pairs == PairsOf(labelled, verdicts)
    IN  [n          |-> Size(pairs),
         errored    |-> Cardinality({i \in Known(labelled, verdicts) : NoAnswer(verdicts[i])}),
         hits       |-> Hits(pairs),
         kappa      |-> Kappa(pairs, order),
         falsePass  |-> FalsePass(pairs, passing),
         falseFail  |-> FalseFail(pairs, passing),
         support    |-> [l \in MatrixLabels(pairs, order) |-> Row(pairs, l)],
         human      |-> HumanKappa(labelled, verdicts, order),
         onCeiling  |-> JudgeKappaOnSubset(labelled, verdicts, order),
         nCeiling   |-> Cardinality(Doubly(labelled, verdicts)),
         unjudged   |-> DOMAIN labelled \ {verdicts[i].id : i \in DOMAIN verdicts},
         biased     |-> Biased(probes)]

AtHumanCeiling(report) ==
    /\ report.human # None /\ report.onCeiling # None
    /\ WithinFive(report.onCeiling, report.human)

ThinCeiling(report) == report.nCeiling < MinCeiling

(* The reasons a requirement is not met; an empty set satisfies it.             *)
TooFew(report, req) == report.n < req.minExamples
ThinClass(report, req) == \E l \in DOMAIN report.support : report.support[l] < req.minPerClass
TooManyErrors(report, req) ==
    100 * report.errored > req.maxErrorRate * (report.n + report.errored)
LowAgreement(report, req) ==
    IF report.n = 0 THEN req.minAgreement > 0 ELSE 100 * report.hits < req.minAgreement * report.n
KappaFailure(report, req) ==
    /\ req.minKappa # None
    /\ \/ report.kappa = None
       \/ ~KappaAtLeast(report.kappa, req.minKappa) /\ ~AtHumanCeiling(report)

(* Mutant: agreeing as well as people do excuses the error rates too.           *)
BugCheckRequirement(report, req) ==
    (IF TooFew(report, req) THEN {"too_few"} ELSE {})
    \cup (IF LowAgreement(report, req) THEN {"agreement"} ELSE {})
    \cup (IF KappaFailure(report, req) THEN {"kappa"} ELSE {})
    \cup (IF RateAbove(report.falsePass, req.maxFalsePass) /\ ~AtHumanCeiling(report)
          THEN {"false_pass"} ELSE {})

CheckRequirement(report, req) ==
    (IF TooFew(report, req) THEN {"too_few"} ELSE {})
    \cup (IF ThinClass(report, req) THEN {"thin_class"} ELSE {})
    \cup (IF TooManyErrors(report, req) THEN {"errors"} ELSE {})
    \cup (IF LowAgreement(report, req) THEN {"agreement"} ELSE {})
    \cup (IF KappaFailure(report, req) THEN {"kappa"} ELSE {})
    \cup (IF RateAbove(report.falsePass, req.maxFalsePass) THEN {"false_pass"} ELSE {})
    \cup (IF RateAbove(report.falseFail, req.maxFalseFail) THEN {"false_fail"} ELSE {})
    \cup (IF report.biased /\ ~req.allowBias THEN {"order_effects"} ELSE {})

Satisfied(report, req) == CheckRequirement(report, req) = {}

(* A suite's None means the recommended default, never no limit.                *)
RequirementFor(spec, default) ==
    [f \in DOMAIN default |->
        IF f \in DOMAIN spec THEN IF spec[f] # None THEN spec[f] ELSE default[f] ELSE default[f]]

-----------------------------------------------------------------------------
(* The calibration set and the judge's answers.                                 *)

(* Rows [id, human, second, adjudicated] of a file; None when it is refused:    *)
(* empty, a duplicate id, or a row without a label.                             *)
LoadCalibrationSet(rows) ==
    IF \/ rows = <<>>
       \/ \E i \in DOMAIN rows : rows[i].human = None
       \/ \E i, j \in DOMAIN rows : i < j /\ rows[i].id = rows[j].id
    THEN None
    ELSE [e \in {rows[i].id : i \in DOMAIN rows} |->
            LET r == rows[CHOOSE i \in DOMAIN rows : rows[i].id = e]
            IN  [human |-> r.human, second |-> r.second, adjudicated |-> r.adjudicated]]

(* Inputs of a judge that expose the answer key.                                *)
Forbidden == {"expected", "human_label", "second_human_label", "adjudicated_label"}
JudgeMayCalibrate(inputs) == inputs \cap Forbidden = {}

(* Rounding of a / b to the nearest integer, ties to even, for a >= 0.          *)
RoundDiv(a, b) ==
    LET q == a \div b
        r == 2 * (a % b)
    IN  IF r < b THEN q ELSE IF r > b THEN q + 1 ELSE IF q % 2 = 0 THEN q ELSE q + 1

(* The rubric point of a score.  raw is the judge's number, None after a vote;  *)
(* value is the fraction [num, den] it reports.  The labels of order are        *)
(* written as integers, so str(raw) is never one of them when raw is a float.   *)
Spells(raw, label) == ~raw.float /\ raw.at = Grain * label

NearestOrdinal(raw, value, order) ==
    LET index == RoundDiv(value.num * (Len(order) - 1), value.den)
    IN  IF raw # None /\ \E l \in OnScale(order) : Spells(raw, l)
        THEN CHOOSE l \in OnScale(order) : Spells(raw, l)
        ELSE order[1 + Max({0, Min({Len(order) - 1, index})})]

(* A score [errored, label, passed, raw, value] as a verdict on an example.     *)
ToVerdict(id, score, order) ==
    LET verdict(l) == [id |-> id, label |-> l, errored |-> l = None]
    IN  IF score.errored THEN verdict(None)
        ELSE IF score.label # None THEN verdict(score.label)
        ELSE IF score.passed # None THEN verdict(IF score.passed THEN "pass" ELSE "fail")
        ELSE IF score.value # None /\ order # None
             THEN verdict(NearestOrdinal(score.raw, score.value, order))
        ELSE verdict(None)

-----------------------------------------------------------------------------
(* The judge's scores.  A rubric vote is a number on the scale low..high;       *)
(* normalize maps it onto [0, 1].                                               *)
RubricValue(at, low, high, normalize) ==
    IF normalize /\ high > low
    THEN [num |-> at - Grain * low, den |-> Grain * (high - low)]
    ELSE [num |-> at, den |-> Grain]

(* votes is a sequence of votes; one that is off the scale or fails ends the    *)
(* evaluation with an error.  Several votes give the median, without the raw    *)
(* number.                                                                      *)
Fails(vote, low, high) == vote = None \/ vote.at \notin Grain * low .. Grain * high

MedianOf(values) ==
    CHOOSE m \in {values[i] : i \in DOMAIN values} :
        LET below == Cardinality({i \in DOMAIN values : values[i] < m})
            upto  == Cardinality({i \in DOMAIN values : values[i] <= m})
        IN  below <= Len(values) \div 2 /\ Len(values) \div 2 < upto

Median(votes) == MedianOf([i \in DOMAIN votes |-> votes[i].at])

RubricScore(votes, low, high, normalize) ==
    IF \E i \in DOMAIN votes : Fails(votes[i], low, high)
    THEN [errored |-> TRUE, label |-> None, passed |-> None, raw |-> None, value |-> None]
    ELSE [errored |-> FALSE, label |-> None, passed |-> None,
          raw   |-> IF Len(votes) = 1 THEN votes[1] ELSE None,
          value |-> RubricValue(Median(votes), low, high, normalize)]

(* The labels a classifying judge may settle on: any of the most frequent ones, *)
(* since a tie is broken by the iteration order of a set.                       *)
Plurality(votes) ==
    LET freq(l) == Cardinality({i \in DOMAIN votes : votes[i] = l})
        seen    == {votes[i] : i \in DOMAIN votes}
    IN  {l \in seen : \A m \in seen : freq(m) <= freq(l)}

-----------------------------------------------------------------------------
(* The store of calibration records: a sequence, newest first, of               *)
(* [evaluator, version, report].                                                *)
Exact(records, evaluator, version) ==
    {i \in DOMAIN records : records[i].evaluator = evaluator /\ records[i].version = version}

(* What the gates are told about one judge: the newest record of this very      *)
(* version, re-checked against today's requirement; a record of another version *)
(* is stale, whatever it says.                                                  *)
StatusFor(records, evaluator, version, req) ==
    IF Exact(records, evaluator, version) # {}
    THEN IF Satisfied(records[Min(Exact(records, evaluator, version))].report, req) THEN "met" ELSE "unmet"
    ELSE IF \E i \in DOMAIN records : records[i].evaluator = evaluator THEN "stale"
    ELSE "none"
-----------------------------------------------------------------------------
(* Questions about judges.                                                      *)
AskJudge ==
    /\ asked = <<>>
    /\ \E r \in Raters, l \in {1, 2}, req \in Requirements, o \in {None, <<1, 2>>} :
          asked' = <<"judge", [raters |-> r, label |-> l, order |-> o, req |-> req]>>

AskRubric ==
    /\ asked = <<>>
    /\ \E v \in Ballots, h \in Scales, n \in BOOLEAN :
          asked' = <<"rubric", [votes |-> v, low |-> 1, high |-> h, normalize |-> n]>>

\* Whatever else is asked or answered.
AskUnjudged == (asked # <<>> => asked[1] \notin {"judge", "rubric"})'

JudgeSpec == asked = <<>> /\ [][AskJudge \/ AskRubric \/ AskUnjudged]_asked

(* A judge that always gives the same answer is never certified when people     *)
(* gave both a passing and a failing label and both error rates are limited,    *)
(* however lopsided the set and however badly people agree among themselves     *)
(* (calibration.py check_requirement: the ceiling excuses low kappa, not the    *)
(* error rates).                                                                *)
ConstantJudgeNeverCertified ==
    Asked("judge") =>
        LET q == asked[2]
            labelled == [e \in DOMAIN q.raters |->
                           [human |-> q.raters[e][1], second |-> q.raters[e][2], adjudicated |-> None]]
            verdicts == [e \in DOMAIN q.raters |-> [id |-> e, label |-> q.label, errored |-> FALSE]]
        IN  /\ {q.raters[e][1] : e \in DOMAIN q.raters} = {1, 2}
            /\ {q.req.maxFalsePass, q.req.maxFalseFail} \subseteq 0 .. 99
            => ~Satisfied(Calibrate(labelled, verdicts, {2}, q.order, <<>>), q.req)

(* A label that is a rubric point nearest to the number a judge settled on.     *)
Nearest(label, at) == 2 * (Grain * label - at) <= Grain /\ 2 * (at - Grain * label) <= Grain

(* The rubric point a judge settled on is the one that is compared with the     *)
(* human's: the way through the [0, 1] score and back ends at the point nearest *)
(* to the median vote, hence at it when that is a point, whether the votes are  *)
(* integers or floats (calibration_runner.py _nearest_ordinal).                 *)
PointRecovered(q) ==
    LET score == RubricScore(q.votes, q.low, q.high, q.normalize)
        order == [i \in 1 .. q.high - q.low + 1 |-> q.low + i - 1]
        verdict == ToVerdict("e", score, order)
    IN  ~score.errored
        => /\ verdict = [id |-> "e", label |-> verdict.label, errored |-> FALSE]
           /\ verdict.label \in q.low .. q.high
           /\ Nearest(verdict.label, Median(q.votes))

(* A judge that does not normalise is read by what it wrote, when that is one   *)
(* integer.                                                                     *)
Readable(q) == q.normalize \/ (Len(q.votes) = 1 /\ q.votes[1] # None /\ ~q.votes[1].float)

RubricPointRecovered ==
    Asked("rubric") => (Readable(asked[2]) => PointRecovered(asked[2]))

(* The same of a judge that does not normalise, with several votes or a float.  *)
EveryRubricPointRecovered == Asked("rubric") => PointRecovered(asked[2])

(* A judge is certified on what it can tell apart, and its answers reach the    *)
(* comparison with the humans' unchanged.                                       *)
CalibrationSound == ConstantJudgeNeverCertified /\ RubricPointRecovered
=============================================================================
