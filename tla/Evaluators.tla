------------------------------ MODULE Evaluators ------------------------------
(* The deterministic evaluators (evaluation-core evaluators/deterministic.py),  *)
(* the field paths they read by (paths.py), and the corpus metrics              *)
(* (evaluators/statistical.py).                                                 *)
EXTENDS Values, FiniteSetsExt

CONSTANTS Index,       \* a function: the path segments that are indices, to integers
          Segments,    \* a function: the segments output, expected, ... to their names
          Fold,        \* a function: letters to their case-folded forms
          Blank,       \* the letter between two words
          Punctuation, \* the letters that are punctuation
          None,        \* an absent prediction, label or value
          Discount     \* Discount[rank], decreasing: 1 / log2(rank + 1), scaled

-----------------------------------------------------------------------------
(* Paths: a sequence of segments, each a text.                                  *)
Step(current, part) ==
    CASE current.type = "map" -> IF part \in DOMAIN current.v THEN current.v[part] ELSE Error
      [] current.type = "list" ->
            IF part \notin DOMAIN Index THEN Error
            ELSE LET i == Index[part]
                     at == IF i < 0 THEN Len(current.v) + i + 1 ELSE i + 1
                 IN  IF at \in DOMAIN current.v THEN current.v[at] ELSE Error
      [] current.type = "text" /\ part \in Methods -> Method
      [] OTHER -> Error

Resolve(root, path) ==
    LET upto[i \in 0 .. Len(path)] == IF i = 0 THEN root ELSE Step(upto[i - 1], path[i])
    IN  upto[Len(path)]

(* A context is a function from root names to values; a path that names no root *)
(* is relative to the output.  Every root but the output is at least an empty   *)
(* map.                                                                         *)
Root(ctx, name) ==
    IF name # "output" /\ Missing(ctx[name]) THEN [type |-> "map", v |-> <<>>] ELSE ctx[name]

ResolveInContext(path, ctx) ==
    IF path[1] \in DOMAIN Segments THEN Resolve(Root(ctx, Segments[path[1]]), Tail(path))
    ELSE Resolve(ctx["output"], path)

(* A path into the expected value may begin with its root and need not.         *)
ResolveExpected(path, ctx) ==
    Resolve(ctx["expected"],
            IF Len(path) > 1 /\ path[1] \in DOMAIN Segments /\ Segments[path[1]] = "expected"
            THEN Tail(path) ELSE path)

-----------------------------------------------------------------------------
(* Texts.                                                                       *)
Folded(t) == [i \in DOMAIN t |-> IF t[i] \in DOMAIN Fold THEN Fold[t[i]] ELSE t[i]]
Bare(t)   == SelectSeq(t, LAMBDA x : x \notin Punctuation)

\* Words with one blank between them: a blank stays when it follows a word and one is to come.
Spaced(t) ==
    LET stays(i) == t[i] = Blank => /\ i > 1 /\ t[i - 1] # Blank
                                    /\ \E j \in i .. Len(t) : t[j] # Blank
        kept == SelectSeq([i \in DOMAIN t |-> i], stays)
    IN  [k \in DOMAIN kept |-> t[kept[k]]]

Normalize(t, mode) ==
    LET cased  == IF mode \in {"case", "all"} THEN Folded(t) ELSE t
        spaced == IF mode \in {"whitespace", "all"} THEN Spaced(cased) ELSE cased
    IN  IF mode \in {"punctuation", "all"} THEN Spaced(Bare(spaced)) ELSE spaced

(* json.dumps: brackets, commas and quotes are letters below zero.              *)
RECURSIVE Dump(_)
Dump(x) ==
    CASE x.type = "text" -> <<-1>> \o x.v \o <<-1>>
      [] x.type = "list" ->
            <<-2>> \o FlattenSeq([i \in DOMAIN x.v |-> Dump(x.v[i]) \o <<-3>>]) \o <<-4>>
      [] x.type = "map" -> <<-5>> \o FlattenSeq([i \in 1 .. Cardinality(DOMAIN x.v) |-> <<-6>>]) \o <<-7>>
      [] x.type = "number" -> <<100 + x.v>>
      [] OTHER -> <<-8>>

Text(x) == IF x.type = "text" THEN x.v ELSE Dump(x)
Has(part, t) == \E i \in 0 .. Len(t) - Len(part) : part = SubSeq(t, i + 1, i + Len(part))
Words(t) == LET s == Spaced(t) IN IF s = <<>> THEN 0 ELSE 1 + Len(SelectSeq(s, LAMBDA x : x = Blank))

-----------------------------------------------------------------------------
(* Schemas: a function from the keywords that are given to their values.        *)
TypeOf(x, wanted) ==
    CASE wanted = "object" -> x.type = "map"
      [] wanted = "array" -> x.type = "list"
      [] wanted = "string" -> x.type = "text"
      [] wanted \in {"number", "integer"} -> x.type = "number"
      [] wanted = "boolean" -> x.type = "bool"
      [] wanted = "null" -> x.type = "none"

RECURSIVE Valid(_, _)
Valid(x, schema) ==
    LET given(k) == k \in DOMAIN schema
    IN  /\ given("type") => TypeOf(x, schema["type"])
        /\ x.type = "map" =>
             /\ given("required") => schema["required"] \subseteq DOMAIN x.v
             /\ given("properties") =>
                  \A k \in DOMAIN schema["properties"] \cap DOMAIN x.v :
                     Valid(x.v[k], schema["properties"][k])
             /\ given("closed") =>
                  DOMAIN x.v \subseteq IF given("properties") THEN DOMAIN schema["properties"] ELSE {}
        /\ x.type = "list" =>
             /\ given("items") => \A i \in DOMAIN x.v : Valid(x.v[i], schema["items"])
             /\ given("minItems") => Len(x.v) >= schema["minItems"]
             /\ given("maxItems") => Len(x.v) <= schema["maxItems"]
        /\ x.type = "text" =>
             /\ given("minLength") => Len(x.v) >= schema["minLength"]
             /\ given("maxLength") => Len(x.v) <= schema["maxLength"]
             /\ given("pattern") => Has(schema["pattern"], x.v)
        /\ x.type = "number" =>
             /\ given("minimum") => x.v >= schema["minimum"]
             /\ given("maximum") => x.v <= schema["maximum"]
        /\ given("enum") => \E i \in DOMAIN schema["enum"] : Same(x, schema["enum"][i])

-----------------------------------------------------------------------------
(* Scores: a fraction, or a failure to measure.                                 *)
Failure == <<>>
Binary(passed) == IF passed THEN <<1, 1>> ELSE <<0, 1>>
ScorePassed(s) == s # Failure /\ s[1] = s[2]

\* What a set is made from; maps inside a collection are left out.
Elements(x) ==
    CASE x.type = "list" -> x.v
      [] x.type = "text" -> [i \in DOMAIN x.v |-> [type |-> "text", v |-> <<x.v[i]>>]]
      [] x.type = "map"  -> LET keys == SetToSeq(DOMAIN x.v)
                            IN  [i \in DOMAIN keys |-> [type |-> "text", v |-> keys[i]]]

Within(xs, ys) == \A i \in DOMAIN xs : \E j \in DOMAIN ys : Same(xs[i], ys[j])
Distinct(xs) == Cardinality({i \in DOMAIN xs : \A j \in 1 .. i - 1 : ~Same(xs[i], xs[j])})
Shared(xs, ys) == Distinct(SelectSeq(xs, LAMBDA x : Within(<<x>>, ys)))

Compared(mode, actual, wanted) ==
    LET union == Distinct(actual) + Distinct(wanted) - Shared(actual, wanted)
    IN  CASE mode = "equals"   -> Binary(Within(actual, wanted) /\ Within(wanted, actual))
          [] mode = "subset"   -> Binary(Within(actual, wanted))
          [] mode = "superset" -> Binary(Within(wanted, actual))
          [] mode = "jaccard"  -> IF union = 0 THEN <<1, 1>> ELSE <<Shared(actual, wanted), union>>

(* A field that is not named is looked up in the expected value by the last     *)
(* segment of the path; when it is not there, the whole of it is compared.      *)
Wanted(ev, ctx) ==
    LET tail == ev.field[Len(ev.field)]
    IN  IF ev.named # <<>> THEN ResolveExpected(ev.named, ctx)
        ELSE IF tail \in DOMAIN ctx["expected"].v THEN ctx["expected"].v[tail]
        ELSE ctx["expected"]

ExactMatch(ev, x, ctx) ==
    LET wanted == Wanted(ev, ctx)
    IN  IF IsError(wanted) THEN Failure
        ELSE IF x.type = "text" /\ wanted.type = "text"
             THEN Binary(Normalize(x.v, ev.mode) = Normalize(wanted.v, ev.mode))
        ELSE Binary(Same(x, wanted))

SetComparison(ev, x, ctx) ==
    LET named == IF ev.named # <<>> THEN ev.named ELSE ev.field
        wanted == Step(ctx["expected"], named[Len(named)])
    IN  IF IsError(wanted) \/ ~Sized(wanted) \/ ~Sized(x) THEN Failure
        ELSE Compared(ev.mode, Elements(x), Elements(wanted))

RegexMatch(ev, x) ==
    Binary((\A p \in ev.deny : ~Has(p, Text(x))) /\ \A p \in ev.allow : Has(p, Text(x)))

ContainsAll(ev, x) ==
    LET t == IF ev.mode = "case" THEN Folded(Text(x)) ELSE Text(x)
        found == {p \in ev.allow : Has(IF ev.mode = "case" THEN Folded(p) ELSE p, t)}
    IN  Binary(IF ev.any THEN found # {} ELSE found = ev.allow)

\* A bound that is not given is beyond every number.
Between(n, ev) == ev.least <= n /\ n <= ev.most

LengthWithin(ev, x) == Binary(Between(IF ev.mode = "words" THEN Words(Text(x)) ELSE Len(Text(x)), ev))

NumericRange(ev, x) ==
    IF x.type # "number" THEN Failure
    ELSE Binary(Between(x.v, ev) /\ (ev.mode = "strict" => x.v # ev.least /\ x.v # ev.most))

Evaluate(ev, ctx) ==
    LET x == ResolveInContext(ev.field, ctx)
    IN  IF ev.kind \in {"exact", "set"} /\ Missing(ctx["expected"]) THEN Failure
        ELSE IF IsError(x) THEN Failure
        ELSE CASE ev.kind = "exact"    -> ExactMatch(ev, x, ctx)
               [] ev.kind = "set"      -> SetComparison(ev, x, ctx)
               [] ev.kind = "schema"   -> Binary(Valid(x, ev.schema))
               [] ev.kind = "regex"    -> RegexMatch(ev, x)
               [] ev.kind = "contains" -> ContainsAll(ev, x)
               [] ev.kind = "length"   -> LengthWithin(ev, x)
               [] ev.kind = "range"    -> NumericRange(ev, x)

-----------------------------------------------------------------------------
(* Corpus metrics (evaluation-core evaluators/statistical.py): numbers about a  *)
(* whole run that are not means of per-example scores.  A number is a fraction  *)
(* <<numerator, denominator>>; the discount of a rank is a constant.            *)

Ratio(a, b) == IF b = 0 THEN <<0, 1>> ELSE <<a, b>>
SameRatio(x, y) == x[1] * y[2] = y[1] * x[2]
CountOf(pairs, Test(_)) == Cardinality({i \in DOMAIN pairs : Test(pairs[i])})

-----------------------------------------------------------------------------
(* Classification.  A pair is [pred, label].  An example counts when its task   *)
(* succeeded and both sides are there.                                          *)
Pairs(results) ==
    LET usable == SelectSeq(results, LAMBDA r : r.ok /\ r.pred # None /\ r.label # None)
    IN  [i \in DOMAIN usable |-> [pred |-> usable[i].pred, label |-> usable[i].label]]

Classes(pairs, labels) ==
    IF labels # None THEN labels
    ELSE {pairs[i].pred : i \in DOMAIN pairs} \cup {pairs[i].label : i \in DOMAIN pairs}

(* matrix[actual][predicted], for the classes only.                             *)
ConfusionMatrix(pairs, classes) ==
    [a \in classes |-> [p \in classes |->
        CountOf(pairs, LAMBDA x : x.label = a /\ x.pred = p)]]

Support(pairs, c) == CountOf(pairs, LAMBDA x : x.label = c)
Accuracy(pairs) == Ratio(CountOf(pairs, LAMBDA x : x.label = x.pred), Len(pairs))

TP(m, c) == m[c][c]
FP(m, c) == MapThenSumSet(LAMBDA o : m[o][c], DOMAIN m \ {c})
FN(m, c) == MapThenSumSet(LAMBDA o : m[c][o], DOMAIN m \ {c})

Precision(m, c) == Ratio(TP(m, c), TP(m, c) + FP(m, c))
Recall(m, c) == Ratio(TP(m, c), TP(m, c) + FN(m, c))

(* 2 p r / (p + r)                                                              *)
F1(m, c) ==
    LET p == Precision(m, c)  r == Recall(m, c)
    IN  Ratio(2 * p[1] * r[1], p[1] * r[2] + r[1] * p[2])

MicroF1(pairs, m) == Ratio(MapThenSumSet(LAMBDA c : TP(m, c), DOMAIN m), Len(pairs))

-----------------------------------------------------------------------------
(* Ranking.  An example that ranked nothing is left out of the means.           *)
Top(ranked, k) == SubSeq(ranked, 1, IF Len(ranked) < k THEN Len(ranked) ELSE k)
HitsIn(s, relevant) == CountOf(s, LAMBDA x : x \in relevant)
Least(a, b) == IF a <= b THEN a ELSE b

PrecisionAt(ranked, relevant, k) == Ratio(HitsIn(Top(ranked, k), relevant), Len(Top(ranked, k)))
RecallAt(ranked, relevant, k) == Ratio(HitsIn(Top(ranked, k), relevant), Cardinality(relevant))

DCG(ranked, relevant, k) ==
    MapThenSumSet(LAMBDA r : Discount[r], {r \in DOMAIN Top(ranked, k) : ranked[r] \in relevant})

NDCG(ranked, relevant, k) ==
    Ratio(DCG(ranked, relevant, k),
          MapThenSumSet(LAMBDA r : Discount[r], 1 .. Least(Cardinality(relevant), k)))

ReciprocalRank(ranked, relevant) ==
    LET at == {r \in DOMAIN ranked : ranked[r] \in relevant}
    IN  IF at = {} THEN <<0, 1>> ELSE <<1, CHOOSE r \in at : \A q \in at : r <= q>>

Add(x, y) == <<x[1] * y[2] + y[1] * x[2], x[2] * y[2]>>

(* The hits so far over the rank, at every hit.                                 *)
AveragePrecision(ranked, relevant, k) ==
    LET step(acc, r) ==
            IF ranked[r] \in relevant
            THEN [hits |-> acc.hits + 1, total |-> Add(acc.total, <<acc.hits + 1, r>>)]
            ELSE acc
        acc == FoldLeft(step, [hits |-> 0, total |-> <<0, 1>>],
                        [r \in DOMAIN Top(ranked, k) |-> r])
    IN  IF relevant = {} THEN <<0, 1>>
        ELSE <<acc.total[1], acc.total[2] * Least(Cardinality(relevant), k)>>

-----------------------------------------------------------------------------
(* ROC-AUC.  A point is [score, outcome]; ranks are doubled, so that the        *)
(* midrank of a tied group, (index + stop) / 2 + 1, is an integer.              *)
Tied(ordered, i) == {j \in DOMAIN ordered : ordered[j].score = ordered[i].score}

(* Mutant: a tied group is ranked in the order it was sorted in.                *)
BugTwiceRank(ordered, i) == 2 * i
TwiceRank(ordered, i) == Min(Tied(ordered, i)) + Max(Tied(ordered, i))

RocAuc(points) ==
    LET ordered == SortSeq(points, LAMBDA a, b : a.score < b.score)
        pos == CountOf(points, LAMBDA x : x.outcome)
        neg == Len(points) - pos
        sum == MapThenSumSet(LAMBDA i : TwiceRank(ordered, i), {i \in DOMAIN ordered : ordered[i].outcome})
    IN  IF pos = 0 \/ neg = 0 THEN None
        ELSE <<sum - pos * (pos + 1), 2 * pos * neg>>

-----------------------------------------------------------------------------
(* Calibration of confidences.  A point is [conf, correct], conf in tenths.     *)
BinOf(p, bins) == Least(bins - 1, (p.conf * bins) \div 10)

(* The sum over the bins of |correct - confidence|, over the number of points.  *)
ECE(points, bins) ==
    LET inBin(b) == {i \in DOMAIN points : BinOf(points[i], bins) = b}
        gap(b) == MapThenSumSet(LAMBDA i : (IF points[i].correct THEN 10 ELSE 0) - points[i].conf, inBin(b))
    IN  Ratio(MapThenSumSet(LAMBDA b : IF gap(b) < 0 THEN -gap(b) ELSE gap(b), 0 .. bins - 1),
              10 * Len(points))
=============================================================================
