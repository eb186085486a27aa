----------------------------- MODULE MCDecisions -----------------------------
(* Small questions for Decisions: three examples, four raters, three spans.     *)
EXTENDS Decisions

MCMinPairs == 2
MCPScale == 8
MCMinCeiling == 2
MCAlpha == 4

score(v) == [metric |-> "m", slice |-> {}, value |-> v, passed |-> None, errored |-> v = None]
Outcomes == {<<score(0)>>, <<score(50)>>, <<score(100)>>, <<score(None)>>, <<>>}
MCScorings == [1 .. 3 -> Outcomes]

MCBaselines == {<<>>, [e \in 1 .. 3 |-> <<score(100)>>], [e \in 1 .. 3 |-> <<score(50)>>],
                [e \in 1 .. 3 |-> <<score(IF e = 1 THEN 0 ELSE 100)>>]}

Rule == [key |-> "m", slice |-> {}, minimum |-> None, maximum |-> None, maxAbs |-> None,
         maxRel |-> None, severity |-> "block", requireBaseline |-> FALSE, maxErrorRate |-> 5,
         significance |-> None, requirePower |-> FALSE]

Rules == { [Rule EXCEPT !.minimum = 50],
           [Rule EXCEPT !.maximum = 60],
           [Rule EXCEPT !.minimum = 30, !.maxErrorRate = 40],
           [Rule EXCEPT !.maxAbs = 10, !.requireBaseline = TRUE],
           [Rule EXCEPT !.maxRel = 40],
           [Rule EXCEPT !.maxAbs = 10, !.significance = 2, !.requirePower = TRUE] }

Noise == [Rule EXCEPT !.maxAbs = 10, !.significance = 2]

gates(rules) == [rules |-> rules, requireMatch |-> FALSE, calibration |-> "off"]
MCGateSets == {[gates({r}) EXCEPT !.requireMatch = (r.maxAbs # None)] : r \in Rules}
              \cup {gates({Noise, [Rule EXCEPT !.minimum = 80, !.severity = "warn"]})}

MCLadders == [{"m1", "m2", "m3", "m4"} -> {None, 1, 2, 3, 4}]

MCRaters == {[e \in 1 .. 4 |-> <<f[e], g[e]>>] :
             f \in [1 .. 4 -> {1, 2}], g \in {[e \in 1 .. 4 |-> None], <<1, 2, 2, 1>>, <<2, 2, 1, 1>>}}

MCRequirements ==
    { [minExamples |-> 1, minPerClass |-> 0, maxErrorRate |-> 5, minAgreement |-> 0,
       minKappa |-> k, maxFalsePass |-> 20, maxFalseFail |-> 20, allowBias |-> FALSE] :
      k \in {None, 10} }

MCScales == {2, 4, 5}
MCGrain == 2
Votes == {[at |-> 2 * n, float |-> FALSE] : n \in 1 .. 5}
         \cup {[at |-> n, float |-> TRUE] : n \in 2 .. 10}
MCBallots == [1 .. 1 -> Votes] \cup [1 .. 3 -> Votes]

\* Span ids are random: their order is not the recorder's.  "a" opens the workflow, "b" closes it.
step(act) == [phase |-> IF act = "a" THEN "open" ELSE "closed"]
span(i, act, args, s, d, p, fld) ==
    [id |-> 4 - i, parent |-> p, action |-> act, wanted |-> TRUE, start |-> s, end |-> s + d, seq |-> i,
     args |-> args, failed |-> fld, state |-> step(act), updates |-> <<>>]

RecordedTraces ==
    { <<span(1, x, a, 0, d, None, f), span(2, y, "x", s, e, None, FALSE), span(3, z, b, u, 1, p, FALSE)>> :
      x, y, z \in {"a", "b"}, f \in BOOLEAN, d \in {1, 3}, e \in {1, 2}, s, u \in 0 .. 2,
      p \in {None, 2}, a \in {"x", "big"}, b \in {"x", "wide"} }

\* In some traces the second span reports by an event that the workflow went wrong.
MCTraces ==
    RecordedTraces \cup
    { [t EXCEPT ![2].updates = [phase |-> "wrong"]] :
        t \in {u \in RecordedTraces : u[1].args = "x" /\ u[3].args = "x"} }
MCOffloaded == {"big", "wide"}

rule(kind, act) ==
    [id |-> kind, kind |-> kind, severity |-> "block", when |-> None, ignoreFailed |-> FALSE,
     action |-> act, gate |-> "b", maximum |-> 1, minimum |-> 2, window |-> 2,
     require |-> [x \in {"x", "big", "wide", None, Dropped} |-> IF act = "b" THEN "false" ELSE "true"]]

\* What a trace without spans, and one with them, may leave behind.
onState(ok(_)) ==
    [st \in {<<>>} \cup {[phase |-> p] : p \in {"open", "closed", "wrong"}} |->
        IF st = <<>> THEN "error" ELSE IF ok(st.phase) THEN "true" ELSE "false"]

MCPolicy == { rule("forbidden_action", "a"), rule("forbidden_before", "a"), rule("limit", "a"),
              rule("forbidden_after", "a"), rule("unique_action", "a"), rule("no_loop", "a"),
              rule("argument_condition", "b"), rule("max_retries", "a"),
              [rule("final_state", "a") EXCEPT !.require = onState(LAMBDA p : p # "open")],
              [rule("required_action", "b") EXCEPT !.when = onState(LAMBDA p : p # "wrong")] }

(* Names and texts over two letters: metadata.a is a number, metadata.b a text, *)
(* metadata.c a list.                                                           *)
num0(n) == [type |-> "number", v |-> n]
text0(t) == [type |-> "text", v |-> t]
list0(s) == [type |-> "list", v |-> s]
node(kind, arg, kids) == [kind |-> kind, arg |-> arg, kids |-> kids]
meta == <<9>>
field(x) == node("attr", x, <<node("name", meta, <<>>)>>)
const(x) == node("const", x, <<>>)
cmp(op, x, y) == node("compare", <<op>>, <<x, y>>)
A == field(<<1>>)
B == field(<<2>>)
CC == field(<<3>>)
Atoms == << cmp("==", A, const(num0(1))), cmp("!=", B, const(text0(<<1>>))), cmp("<", A, const(num0(2))),
            cmp(">=", B, const(text0(<<1, 2>>))), cmp("in", B, CC), cmp("not in", const(text0(<<2>>)), B),
            cmp("is", A, const([type |-> "none", v |-> 0])), cmp("<", A, B),
            node("compare", <<"<", "<=">>, <<const(num0(0)), A, const(num0(2))>>),
            node("call", "exists", <<B>>), node("call", "abs", <<A>>), node("call", "len", <<CC>>),
            node("call", "bool", <<node("attr", <<1>>, <<A>>)>>), node("attr", <<0>>, <<A>>),
            node("minus", 0, <<A>>), node("attr", <<7>>, <<CC>>), node("subscript", 0, <<A>>),
            cmp("in", A, node("list", 0, <<const(num0(1)), A>>)), cmp(">", field(<<3, 3>>), A) >>
Pairs2(kind) == [k \in 1 .. Len(Atoms) * Len(Atoms) |->
                   node(kind, 0, <<Atoms[1 + ((k - 1) \div Len(Atoms))],
                                   node("not", 0, <<Atoms[1 + ((k - 1) % Len(Atoms))]>>)>>)]
MCConditions == Atoms \o Pairs2("and") \o Pairs2("or")
MCPrivate == {<<0>>}
MCMethods == {<<7>>}

values == [a |-> {num0(0), num0(1), num0(-1)}, b |-> {text0(<<1>>), text0(<<2>>), text0(<<1, 2, 1>>)},
           c |-> {list0(<<>>), list0(<<text0(<<2>>)>>)}]
space(x, y, z, present) ==
    (meta :> [type |-> "map", v |-> [f \in present |-> CASE f = <<1>> -> x [] f = <<2>> -> y [] f = <<3>> -> z]])
MCComplete == {space(x, y, z, {<<1>>, <<2>>, <<3>>}) : x \in values.a, y \in values.b, z \in values.c}
MCPartial == {space(num0(1), y, z, p) : y \in values.b, z \in values.c, p \in SUBSET {<<1>>, <<2>>, <<3>>}}

(* Letters 1 and 2, 11 and 12 their capitals, 3 a blank, 4 a full stop.         *)
MCIndex == (<<100>> :> 0) @@ (<<99>> :> -1)
MCSegments == (<<21>> :> "output") @@ (<<22>> :> "expected")
MCFold == [l \in {1, 2, 3, 4, 11, 12} |-> IF l > 10 THEN l - 10 ELSE l]
MCPunctuation == {4}
map0(keys, value) == [type |-> "map", v |-> [k \in keys |-> value]]
nothing0 == [type |-> "none", v |-> 0]
Loose == [x \in {} |-> 0]
check(kind, fld, mode) ==
    [kind |-> kind, field |-> fld, named |-> <<>>, mode |-> mode, schema |-> Loose,
     allow |-> {<<1>>}, deny |-> {<<4>>}, any |-> FALSE, least |-> 1, most |-> 3]
Object == ("type" :> "object") @@ ("required" :> {<<1>>}) @@ ("closed" :> TRUE)
            @@ ("properties" :> (<<1>> :> (("type" :> "string") @@ ("minLength" :> 2) @@ ("pattern" :> <<1>>))))
Array == ("type" :> "array") @@ ("minItems" :> 1) @@ ("maxItems" :> 2)
            @@ ("items" :> ("enum" :> <<num0(1), text0(<<1>>)>>))
Number == ("type" :> "integer") @@ ("minimum" :> 1) @@ ("maximum" :> 1)
MCChecks ==
    << check("exact", <<<<21>>>>, "none"), check("exact", <<<<1>>>>, "case"), check("exact", <<<<1>>>>, "all"),
       [check("exact", <<<<21>>, <<1>>>>, "whitespace") EXCEPT !.named = <<<<22>>, <<1>>>>],
       [check("exact", <<<<1>>, <<100>>>>, "punctuation") EXCEPT !.named = <<<<2>>>>],
       check("set", <<<<1>>>>, "equals"), check("set", <<<<1>>>>, "jaccard"), check("set", <<<<7>>>>, "subset"),
       [check("schema", <<<<21>>>>, "") EXCEPT !.schema = Object],
       [check("schema", <<<<1>>>>, "") EXCEPT !.schema = Array],
       [check("schema", <<<<1>>, <<99>>>>, "") EXCEPT !.schema = Number],
       check("regex", <<<<1>>>>, ""), check("contains", <<<<1>>>>, "case"),
       [check("contains", <<<<1>>>>, "") EXCEPT !.any = TRUE],
       check("length", <<<<1>>>>, "words"), check("length", <<<<7>>>>, ""),
       check("range", <<<<1>>>>, ""), check("range", <<<<1>>, <<100>>>>, "strict") >>
Values0 == << text0(<<1, 3, 2>>), text0(<<3, 11, 3, 4, 3, 2>>), text0(<<1, 4, 12>>), text0(<<>>),
              list0(<<num0(1), [type |-> "bool", v |-> 1]>>), list0(<<num0(1), text0(<<1>>), num0(2)>>),
              list0(<<>>), num0(1), nothing0, [type |-> "bool", v |-> 1] >>
context(x, e) == ("output" :> x) @@ ("expected" :> e)
MCContexts ==
    [k \in 1 .. Len(Values0) * Len(Values0) |->
       context(map0({<<1>>}, Values0[1 + ((k - 1) % Len(Values0))]),
               map0({<<1>>, <<7>>}, Values0[1 + ((k - 1) \div Len(Values0))]))]
    \o [k \in DOMAIN Values0 |-> context(Values0[k], map0({<<1>>}, Values0[1]))]
    \o << context(text0(<<1>>), nothing0), context(map0({<<1>>, <<2>>}, text0(<<1, 2>>)), map0({<<2>>}, num0(1))) >>

MCCorpora == UNION {[1 .. n -> [ok : BOOLEAN, pred : {"a", "b", "c"}, label : {"a", "b"}]] : n \in {1, 2}}
             \cup [1 .. 3 -> [ok : {TRUE}, pred : {"a", "b", "c"}, label : {"a", "b"}]]
MCLabels == {None, {"a", "b"}}

MCRankings == [ranked : UNION {[1 .. n -> {"a", "b", "c"}] : n \in 1 .. 3},
               relevant : SUBSET {"a", "b", "d"}]
MCCutoffs == {1, 2, 3}
MCDiscount == <<1000, 631, 500>>
MCPointSets == UNION {[1 .. n -> [score : 0 .. 2, outcome : BOOLEAN]] : n \in 1 .. 4}

(* Spans 1 to 3, the parent 9 being one that never arrived.                     *)
MCForests ==
    { [i \in 1 .. 3 |-> [id |-> i, parent |-> p[i], start |-> s[i], seq |-> i,
                         end |-> IF d[i] = None THEN None ELSE s[i] + d[i]]] :
      p \in [1 .. 3 -> {None, 1, 2, 3, 9}], s \in {<<0, 0, 1>>, <<0, 2, 1>>, <<1, 0, 1>>},
      d \in {<<4, 1, 2>>, <<3, None, 2>>, <<None, 3, 3>>} }

MCStarts == <<1, 1, 1, 2>>

MCTasks == {1, 2}

(* Three spans of two traces: a root, its late child and one that may be broken *)
(* or a second root, split over two scopes.                                     *)
num(n) == [kind |-> "number", n |-> n]
text(x) == [kind |-> "text", n |-> x]
Attributes ==
    { [k \in {} |-> num(0)],
      ("llm.token_count.prompt" :> num(3)) @@ ("llm.token_count.total" :> num(2))
        @@ ("gen_ai.usage.input_tokens" :> num(4)),
      ("llm.cost.total" :> [kind |-> "bad", n |-> 0]) @@ ("gen_ai.usage.cost" :> num(5))
        @@ ("openinference.span.kind" :> text("tool")) @@ ("input.value" :> text("x")) }
otlp(t, i, p, s, e, c, a) ==
    [trace |-> t, id |-> i, parent |-> p, name |-> "graph.step", start |-> s, end |-> e,
     code |-> c, exception |-> c = "unset", attrs |-> a, fits |-> TRUE, cut |-> 0]
scope(spans) == [resource |-> [service |-> "s"], spans |-> spans]
PlainExports ==
    { <<scope(<<otlp("t", "1", up, s, s + 2, "ok", a)>>),
        scope(<<otlp("t", "2", "1", u, e, "ok", a), otlp(t, "3", p, 0, 1, c, [k \in {} |-> num(0)])>>)>> :
      up \in {None, "zero"}, s \in 0 .. 2, u \in 0 .. 2, e \in {None, 2, 5}, a \in Attributes,
      t \in {"t", "u", "short", "zero"}, p \in {None, "1", "short"}, c \in {"ok", "unset"} }
    \cup { <<scope([i \in 1 .. 5 |-> otlp("t", <<"1", "2", "3", "4", "5">>[i], None, i, 6, "ok", [k \in {} |-> num(0)])])>> }

\* The same with a last span that does not fit, or a first one whose payloads are cut.
Broken(t, p, c, fit, cuts) ==
    <<scope(<<[otlp("t", "1", None, 0, 2, "ok", [k \in {} |-> num(0)]) EXCEPT !.cut = cuts]>>),
      scope(<<[otlp(t, "3", p, 0, 1, c, [k \in {} |-> num(0)]) EXCEPT !.fits = fit]>>)>>
MCExports ==
    PlainExports
    \cup { Broken(t, p, c, fit, cuts) :
              t \in {"t", "u", "short", "zero"}, p \in {None, "1", "short"}, c \in {"ok", "unset"},
              fit \in BOOLEAN, cuts \in {0, 2} }
=============================================================================
