------------------------------- MODULE Metrics -------------------------------
(* Roll-up of per-example scores into metrics (evaluation-core aggregate.py,    *)
(* shared-types score.py, results.py).  Scores are integers (hundredths); a     *)
(* mean is kept as the pair sum / count, so that comparing two of them is       *)
(* exact.  Then the paired tests between two runs.                              *)
EXTENDS Integers, FiniteSets, Sequences, FiniteSetsExt

CONSTANTS None,        \* the absent value of an optional field
          MinPairs,    \* below this many pairs no test is reported
          PScale       \* a power of two no smaller than 2 ^ (number of pairs)

ASSUME MinPairsAssumption == MinPairs \in Nat \ {0}
ASSUME PScaleAssumption == PScale \in Nat \ {0}

-----------------------------------------------------------------------------
(* A score is [metric, slice, value, errored]; value is None when the           *)
(* evaluator gave no number.  A slice is a set of <<dimension, value>> pairs,   *)
(* the empty set when there is none.  A result is                               *)
(* [id, status, scores (a sequence), meta (dimension -> value or None)].        *)

Counts(score) == ~score.errored /\ score.value # None

Ok(result) == result.status = "ok"

(* The slices a result adds through slice_by.                                   *)
ExtraSlices(result, sliceBy) ==
    { {<<d, result.meta[d]>>} : d \in {x \in sliceBy : result.meta[x] # None} }

(* Later pairs replace earlier ones with the same dimension.                    *)
MergeSlices(a, b) == {p \in a : \A q \in b : q[1] # p[1]} \cup b

SlicesOf(score, result, sliceBy) ==
    {score.slice} \cup {MergeSlices(score.slice, s) : s \in ExtraSlices(result, sliceBy)}

(* Every place a bucket's scores come from: <<result, index of the score>>.     *)
Bucket(results, key, sl, sliceBy) ==
    { p \in UNION {{r} \X DOMAIN r.scores : r \in results} :
        LET s == p[1].scores[p[2]] IN s.metric = key /\ sl \in SlicesOf(s, p[1], sliceBy) }

Lookups(results, sliceBy) ==
    UNION { UNION { {<<s.metric, sl>> : sl \in SlicesOf(s, r, sliceBy)} :
                    s \in {r.scores[i] : i \in {j \in DOMAIN r.scores :
                                                  r.scores[j].errored \/ r.scores[j].value # None}} } :
            r \in results }

SumAt(places) == MapThenSumSet(LAMBDA p : p[1].scores[p[2]].value, places)

BuildMetric(results, lookup, sliceBy) ==
    LET places == Bucket(results, lookup[1], lookup[2], sliceBy)
        good   == {p \in places : Counts(p[1].scores[p[2]])}
    IN  [key    |-> lookup[1],
         slice  |-> lookup[2],
         sum    |-> SumAt(good),
         count  |-> Cardinality(good),
         errors |-> Cardinality({p \in places : p[1].scores[p[2]].errored})]

(* The metrics of a run, indexed by <<key, slice>>.  A metric that produced     *)
(* nothing but errors is there with count 0.                                    *)
AggregateScores(results, sliceBy) ==
    [l \in Lookups(results, sliceBy) |-> BuildMetric(results, l, sliceBy)]

(* A mean as a fraction.  A metric nothing was measured for has value 0.0.      *)
Num(m) == IF m.count = 0 THEN 0 ELSE m.sum
Den(m) == IF m.count = 0 THEN 1 ELSE m.count

(* error_rate > limit, the limit in hundredths; the rate of nothing is 0.       *)
ErrorRateAbove(m, limit) == 100 * m.errors > limit * (m.count + m.errors)

ScoresFor(results, key) ==
    {p \in UNION {{r} \X DOMAIN r.scores : r \in results} :
        p[1].scores[p[2]].metric = key /\ Counts(p[1].scores[p[2]])}

-----------------------------------------------------------------------------
(* Paired tests on two runs of one dataset (evaluation-core significance.py).   *)
(* Probabilities are integers in units of 1 / PScale.  The bootstrap is a       *)
(* seeded Monte Carlo estimate, so its p-value is an input here; the exact      *)
(* McNemar test, the power estimate and Holm's correction are computed.         *)

(* Per-example values of one metric: errored scores are left out, a bare        *)
(* verdict counts as 0 or 1 (100 hundredths), the last score of an example      *)
(* wins.                                                                        *)
Usable(s, key) == s.metric = key /\ ~s.errored /\ (s.value # None \/ s.passed # None)

ScoreValue(s) == IF s.value # None THEN s.value ELSE IF s.passed THEN 100 ELSE 0

ScoreByExample(results, key) ==
    LET at(r) == {i \in DOMAIN r.scores : Usable(r.scores[i], key)}
        has   == {r \in results : at(r) # {}}
        value(e) == LET r == CHOOSE x \in has : x.id = e IN ScoreValue(r.scores[Max(at(r))])
    IN  [e \in {r.id : r \in has} |-> value(e)]

Ids(results) == {r.id : r \in results}

Pair(candidate, baseline, key) ==
    LET cand   == ScoreByExample(candidate, key)
        base   == ScoreByExample(baseline, key)
        shared == DOMAIN cand \cap DOMAIN base
    IN  [metric   |-> key,
         candidate |-> [e \in shared |-> cand[e]],
         baseline  |-> [e \in shared |-> base[e]],
         diff      |-> [e \in shared |-> cand[e] - base[e]],
         dropped   |-> Cardinality(Ids(candidate) \ Ids(baseline))
                       + Cardinality(Ids(baseline) \ Ids(candidate))
                       + Cardinality((Ids(candidate) \cap Ids(baseline)) \ shared)]

Pairs(p) == Cardinality(DOMAIN p.diff)

SumOf(f) == MapThenSumSet(LAMBDA e : f[e], DOMAIN f)

IsBinary(values) == DOMAIN values # {} /\ \A e \in DOMAIN values : values[e] \in {0, 100}

(* 2 ^ n and n choose k by recursive functions.                                 *)
Pow2[n \in Nat] == IF n = 0 THEN 1 ELSE 2 * Pow2[n - 1]

Choose[n \in Nat, k \in Nat] ==
    IF k = 0 THEN 1 ELSE IF n = 0 THEN 0 ELSE Choose[n - 1, k - 1] + Choose[n - 1, k]

(* Exact one-sided binomial tail on the discordant pairs.                       *)
McNemarExact(regressed, improved) ==
    LET n    == regressed + improved
        ways == MapThenSumSet(LAMBDA k : Choose[n, k], 0 .. improved)
    IN  IF n = 0 THEN PScale ELSE (ways * PScale) \div Pow2[n]

(* MDE > effect, for MDE = (z_alpha + z_power) * sd / sqrt(n) with              *)
(* (1.6449 + 0.8416)^2 = 6.18; squared so that it stays in the integers.      *)
MdeAbove(p, effect) ==
    LET n  == Pairs(p)
        ss == n * SumOf([e \in DOMAIN p.diff |-> p.diff[e] * p.diff[e]])
              - SumOf(p.diff) * SumOf(p.diff)          \* n * (n - 1) * sd^2
    IN  618 * ss > 100 * effect * effect * n * n * (n - 1)

(* One test result.  p is None when nothing could be tested; the paired values  *)
(* stay in the record so that underpowered_for can be asked of any effect.      *)
Analyse(p, bootstrapP) ==
    LET bin == IsBinary(p.candidate) /\ IsBinary(p.baseline)
        reg == Cardinality({e \in DOMAIN p.diff : p.diff[e] < 0})
        imp == Cardinality({e \in DOMAIN p.diff : p.diff[e] > 0})
    IN  IF Pairs(p) < MinPairs
        THEN [metric |-> p.metric, test |-> "insufficient_data", p |-> None, adjusted |-> None, pairs |-> p]
        ELSE IF bin
        THEN [metric |-> p.metric, test |-> "mcnemar_exact", p |-> McNemarExact(reg, imp),
              adjusted |-> None, pairs |-> p]
        ELSE [metric |-> p.metric, test |-> "paired_bootstrap", p |-> bootstrapP,
              adjusted |-> None, pairs |-> p]

HasMde(t) == t.test # "insufficient_data"

UnderpoweredFor(t, effect) == HasMde(t) /\ MdeAbove(t.pairs, effect)

PValue(t) == IF t.adjusted # None THEN t.adjusted ELSE t.p

(* Mutant: the comparison is the other way round.                               *)
BugIsSignificant(t, alpha) == PValue(t) # None /\ PValue(t) >= alpha

IsSignificant(t, alpha) == PValue(t) # None /\ PValue(t) <= alpha

(* Holm's step-down correction over the tests that have a p-value: the i-th     *)
(* smallest p is multiplied by the number of tests not yet passed, and the      *)
(* running maximum keeps the order.  rank[m] counts from 0.                     *)
HolmAdjust(tests) ==
    LET testable == {m \in DOMAIN tests : tests[m].p # None}
        n        == Cardinality(testable)
        ranks    == {f \in [testable -> 0 .. n - 1] :
                       \A a, b \in testable :
                          /\ a # b => f[a] # f[b]
                          /\ tests[a].p < tests[b].p => f[a] < f[b]}
        rank     == CHOOSE f \in ranks : TRUE
        scaled(m) == Min({PScale, (n - rank[m]) * tests[m].p})
        running(m) == Max({scaled(k) : k \in {x \in testable : rank[x] <= rank[m]}})
    IN  [m \in DOMAIN tests |->
            IF m \in testable THEN [tests[m] EXCEPT !.adjusted = running(m)] ELSE tests[m]]

(* Every named metric is tested and the correction applied across the set.      *)
AnalyseAll(candidate, baseline, keys, bootstrapP) ==
    HolmAdjust([k \in keys |-> Analyse(Pair(candidate, baseline, k), bootstrapP[k])])
=============================================================================
