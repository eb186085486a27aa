------------------------------ MODULE Decisions ------------------------------
(* The code of proofstep that talks to nobody: gates, calibration, trajectory   *)
(* policies and their predicates, the free evaluators, corpus metrics, the      *)
(* waterfall, the OTLP translation are asked a question and give an answer; the *)
(* SDK's recorder and the paging of the trace list keep their state in one      *)
(* object and are taken a call at a time.  This module asks, one question at a  *)
(* time, and says what must be true of the answers.                             *)
EXTENDS Calibration, Recorder, SequencesExt

CONSTANTS Ladders,               \* p-values per metric
          Traces, Policy,        \* sequences of spans; the rules they are held against
          Offloaded, Dropped,    \* arguments too large to inline; what replaces a payload
          Conditions,            \* a sequence of predicates
          Complete, Partial,     \* namespaces with every field, and with some
          Private, Methods,      \* names with an underscore; attributes of lists and texts
          Index, Segments, Fold, Blank, Punctuation, \* see Evaluators
          Checks, Contexts,      \* sequences of evaluators and of what they are given
          Corpora, Labels,       \* sequences of [ok, pred, label]; the classes a suite lists
          Rankings, Cutoffs,     \* [ranked, relevant]; values of k
          PointSets, Discount,   \* sequences of [score, outcome]; the discount of a rank
          Forests,               \* spans as the dashboard gets them
          Alpha,
          MaxTraces, MaxSpans, MaxDepth, MaxBlocks, \* bounds on a program
          MaxNoops, MaxHurt,     \* no-op blocks open at a time; what was refused or lost
          Exports, SpanLimit,    \* OTLP requests; MAX_SPANS_PER_BATCH
          Starts, PageSize       \* started_at per trace id; limit of a page

ASSUME DiscountAssumption ==
    \A r \in DOMAIN Discount : Discount[r] > 0 /\ (r > 1 => Discount[r] <= Discount[r - 1])

T == INSTANCE Trajectory
E == INSTANCE Evaluators
V == INSTANCE TraceViews
O == INSTANCE Otlp WITH MaxSpans <- SpanLimit

vars == <<asked, program>>

Init == asked = <<>> /\ program = Begin

AskHolm == asked = <<>> /\ \E q \in Ladders : asked' = <<"holm", q>>

AskTrajectory ==
    /\ asked = <<>>
    /\ \E t \in Traces : \E k \in DOMAIN t : asked' = <<"trace", [spans |-> t, lost |-> k]>>

AskPredicate == asked = <<>> /\ \E i \in DOMAIN Conditions : asked' = <<"predicate", Conditions[i]>>

AskScore ==
    /\ asked = <<>>
    /\ \E i \in DOMAIN Checks, j \in DOMAIN Contexts :
          asked' = <<"score", [ev |-> Checks[i], ctx |-> Contexts[j]]>>

AskCorpus ==
    /\ asked = <<>>
    /\ \/ \E c \in Corpora, l \in Labels : asked' = <<"classes", [results |-> c, labels |-> l]>>
       \/ \E r \in Rankings, k \in Cutoffs : asked' = <<"ranking", [r |-> r, k |-> k]>>
       \/ \E p \in PointSets : asked' = <<"points", p>>

AskWaterfall == asked = <<>> /\ \E f \in Forests : asked' = <<"waterfall", f>>

AskExport == asked = <<>> /\ \E e \in Exports : asked' = <<"export", e>>

(* An instrumented program: tasks open and close blocks in any order, a task    *)
(* starts others with or without its context.                                   *)
AskProgram == asked = <<>> /\ asked' = <<"program">>

OpenBlocks == {at \in Tasks \X (1 .. MaxDepth) : at[2] \in DOMAIN program.blocks[at[1]]}

Bounded ==
    /\ Len(program.traces) <= MaxTraces /\ Len(program.spans) <= MaxSpans
    /\ \A t \in Tasks : Len(program.blocks[t]) <= MaxDepth
    /\ Cardinality(OpenBlocks) <= MaxBlocks
    /\ Cardinality({at \in OpenBlocks : program.blocks[at[1]][at[2]].kind = "noop"}) <= MaxNoops
    /\ Cardinality({x \in DOMAIN program.traces : program.traces[x].lost})
         + FoldLeft(LAMBDA n, tr : n + tr.dropped, 0, program.traces) <= MaxHurt

Execute == Asked("program") /\ asked' = asked /\ (\E t \in Tasks : Step(t)) /\ Bounded'

Rows(status) ==
    {[id |-> i, start |-> Starts[i], status |-> status[i]] :
       i \in {x \in DOMAIN Starts : status[x] # "none"}}

(* Somebody pages through the traces while others come, change and expire.      *)
AskListing ==
    /\ asked = <<>>
    /\ \E status \in [DOMAIN Starts -> {"none", "ok"}], f \in {"any", "ok"} :
          asked' = <<"listing", V!Start(Rows(status), f)>>

TurnPage == Asked("listing") /\ ~asked[2].over /\ asked' = <<"listing", V!ReadPage(asked[2])>>

ChangeRow ==
    /\ Asked("listing") /\ ~asked[2].over
    /\ \E i \in DOMAIN Starts, status \in {"none", "ok", "error"} :
          LET others == {r \in asked[2].rows : r.id # i}
              row == [id |-> i, start |-> Starts[i], status |-> status]
          IN  asked' = <<"listing", V!Change(asked[2], IF status = "none" THEN others
                                                       ELSE others \cup {row})>>

Answer == asked # <<>> /\ asked' = <<>> /\ NextProcess

Next ==
    \/ /\ \/ AskGates \/ AskHolm \/ AskJudge \/ AskRubric
          \/ AskTrajectory \/ AskPredicate \/ AskScore \/ AskCorpus \/ AskWaterfall \/ AskExport
          \/ AskProgram \/ AskListing \/ TurnPage \/ ChangeRow
       /\ UNCHANGED program
    \/ Execute \/ Answer

Spec == Init /\ [][Next]_vars

-----------------------------------------------------------------------------
(* Corrections.                                                                 *)

(* Holm's correction rejects exactly what the step-down procedure rejects: walk *)
(* the p-values upward, reject while p <= alpha / (tests left), stop at the     *)
(* first that is larger (significance.py holm_adjust).                          *)
HolmIsStepDown ==
    Asked("holm") =>
        LET ps == asked[2]
            tests == [m \in DOMAIN ps |-> [p |-> ps[m], adjusted |-> None]]
            testable == {m \in DOMAIN ps : ps[m] # None}
            left(m) == Cardinality({k \in testable : ps[k] >= ps[m]})
            \* with ties, the first of the tied values meets the most tests left
            rejected(m) == \A k \in testable : ps[k] <= ps[m] => left(k) * ps[k] <= Alpha
        IN  \A m \in testable : IsSignificant(HolmAdjust(tests)[m], Alpha) <=> rejected(m)

-----------------------------------------------------------------------------
(* Trajectory policies.                                                         *)

(* "Concurrent events are not ordered": of two siblings that ended and whose    *)
(* times overlap, neither is ever taken to precede the other (matchers.py       *)
(* _strictly_before, normalize.py _parallel_groups).                            *)
Overlap(a, b) == a.start < b.end /\ b.start < a.end

Trace(spans, dropped) ==
    [spans |-> spans, dropped |-> dropped, metadata |-> <<>>, state |-> <<>>]
Arrived == Trace(asked[2].spans, 0)
Part == Trace(SelectSeq(asked[2].spans, LAMBDA s : s.id # asked[2].lost), 1)

ConcurrentNeverOrdered ==
    Asked("trace") =>
        LET ordered == T!Ordered(Arrived)
            events  == T!Events(Arrived)
        IN  \A i, j \in DOMAIN events :
              (/\ ~T!IsOpen(ordered[i]) /\ ~T!IsOpen(ordered[j])
               /\ ordered[i].parent = ordered[j].parent /\ i # j
               /\ Overlap(ordered[i], ordered[j]))
              => ~T!StrictlyBefore(events[i], events[j])

(* The greedy match of required_order misses nothing: it fails exactly when no  *)
(* choice of events in order spells the required steps (matchers.py             *)
(* required_order).                                                             *)
OrderIsSubsequence ==
    Asked("trace") =>
        LET events == T!Events(Arrived)
            steps  == <<"a", "b", "a">>
            embeddings == { f \in [DOMAIN steps -> DOMAIN events] :
                              /\ \A k, l \in DOMAIN steps : k < l => f[k] < f[l]
                              /\ \A k \in DOMAIN steps : events[f[k]].action = steps[k] }
        IN  T!RequiredOrder([contiguous |-> FALSE, steps |-> steps, ignoreFailed |-> FALSE], events)
            <=> embeddings = {}

(* Losing spans never invents a violation: what is reported on a trace that     *)
(* lost spans is reported on the whole trace too (matchers.py: seeing a         *)
(* forbidden action is valid evidence regardless of what is missing).           *)
EvidenceStands == Asked("trace") => T!Failures(Policy, Part) \subseteq T!Failures(Policy, Arrived)

(* The trace as the server evaluates it: a payload over the inline limit is not *)
(* read back, or was never stored when the object store is down; the recorder's *)
(* counter is not loaded, nor are a span's events, and the workflow state       *)
(* written by them is lost.                                                     *)
StoredArgs(args, storeUp) ==
    IF args \notin Offloaded THEN args ELSE IF storeUp THEN None ELSE Dropped

LoadedSpan(s, storeUp) ==
    [s EXCEPT !.seq = 0, !.args = StoredArgs(@, storeUp), !.updates = <<>>]

Loaded(spans, storeUp) ==
    Trace([i \in DOMAIN spans |->
             LoadedSpan(SetToSortSeq(ToSet(spans), T!SortsBefore)[i], storeUp)], 0)

OnlineAgrees(storeUp) ==
    T!Failures(Policy, Loaded(asked[2].spans, storeUp)) = T!Failures(Policy, Arrived)

(* A policy finds on the server what it finds where the trace was recorded, as  *)
(* long as no two spans start together, as recorded and as clamped, no          *)
(* arguments are offloaded and no workflow state was written by events          *)
(* (online_eval.py load_trace).                                                 *)
StartApart(spans) == \A i, j \in DOMAIN spans : spans[i].start = spans[j].start => i = j

OnlineAgreesWhenOrdered ==
    Asked("trace") =>
        LET spans == asked[2].spans
        IN  /\ StartApart(spans) /\ StartApart(T!Ordered(Arrived))
            /\ \A i \in DOMAIN spans : spans[i].args \notin Offloaded /\ spans[i].updates = <<>>
            => \A up \in BOOLEAN : OnlineAgrees(up)

(* "Would [fetch payloads] to compute exactly the same verdict": the same for   *)
(* every trace.  It does not hold: without the counter simultaneous events are  *)
(* ordered by span id, two calls with large arguments are repeats of each       *)
(* other, and a rule on the workflow state reads it as it was before the events *)
(* that changed it.                                                             *)
OnlineAgreesAlways == Asked("trace") => OnlineAgrees(TRUE)

(* "A policy reading optional metadata must not break the whole evaluation when *)
(* it is absent": a predicate each part of which can be evaluated on every      *)
(* complete namespace can be evaluated when fields are missing, unless it calls *)
(* a function or changes a sign (predicates.py _apply, _contains).              *)
Clean(e, spaces) == \A n \in spaces : T!Evaluate(e, n) # "error"

AbsenceIsNotAnError ==
    Asked("predicate") =>
        LET parts == T!Parts(asked[2])
        IN  /\ T!Accepted(asked[2])
            /\ \A i \in DOMAIN parts : parts[i].kind \notin {"call", "minus"} /\ Clean(parts[i], Complete)
            => Clean(asked[2], Partial)

(* "A predicate that only fails when a particular trace arrives is a policy     *)
(* that silently stops protecting you" (parser.py, which refuses predicates at  *)
(* load time): what is accepted and works on complete namespaces works on all.  *)
(* It does not hold: abs and len of a missing field raise.                      *)
AcceptedNeverFails ==
    Asked("predicate") =>
        (T!Accepted(asked[2]) /\ Clean(asked[2], Complete) => Clean(asked[2], Partial))

-----------------------------------------------------------------------------
(* Scores of single examples.                                                   *)
Score(q, mode) == E!Evaluate([q.ev EXCEPT !.mode = mode], q.ctx)

(* Two collections are equal if and only if each is within the other, and if    *)
(* and only if their overlap is their union, and the four readings fail to      *)
(* measure together.                                                            *)
SetModesAgree(q) ==
    LET passed(mode) == E!ScorePassed(Score(q, mode))
    IN  /\ passed("equals") <=> passed("subset") /\ passed("superset")
        /\ passed("equals") <=> passed("jaccard")
        /\ \A m \in {"subset", "superset", "jaccard"} :
              Score(q, m) = E!Failure <=> Score(q, "equals") = E!Failure

(* Two texts match under every normalisation if and only if they have the same  *)
(* letters, whatever their case, and break into words at the same places.       *)
WordwiseMatch(q) ==
    LET x == E!ResolveInContext(q.ev.field, q.ctx)
        y == E!Wanted(q.ev, q.ctx)
        clean(t) == SelectSeq(t, LAMBDA c : c \notin Punctuation)
        letters(t) == SelectSeq(clean(t), LAMBDA c : c # Blank)
        upto(t, i) == Len(letters(SubSeq(clean(t), 1, i)))
        breaks(t) == {upto(t, i) : i \in {j \in DOMAIN clean(t) : clean(t)[j] = Blank}}
                       \ {0, Len(letters(t))}
        folded(t) == [i \in DOMAIN letters(t) |-> Fold[letters(t)[i]]]
    IN  Score(q, "all") # E!Failure /\ x.type = "text" /\ y.type = "text" =>
          (E!ScorePassed(Score(q, "all"))
             <=> folded(x.v) = folded(y.v) /\ breaks(x.v) = breaks(y.v))

(* A keyword less never refuses more, except the list of properties of a closed *)
(* object.                                                                      *)
LooserAcceptsMore(q) ==
    LET x == E!ResolveInContext(q.ev.field, q.ctx)
    IN  \A k \in DOMAIN q.ev.schema \ {"properties"} :
          E!Valid(x, q.ev.schema) => E!Valid(x, [j \in DOMAIN q.ev.schema \ {k} |-> q.ev.schema[j]])

(* The free evaluators compare what they say they compare (deterministic.py).   *)
ScoresMeasure ==
    Asked("score") =>
        LET q == asked[2]
        IN  /\ q.ev.kind = "set" => SetModesAgree(q)
            /\ q.ev.kind = "exact" /\ E!Failure # Score(q, "none") => WordwiseMatch(q)
            /\ q.ev.kind = "schema" => LooserAcceptsMore(q)
            /\ LET s == E!Evaluate(q.ev, q.ctx)
               IN  s # E!Failure => 0 <= s[1] /\ s[1] <= s[2] /\ 0 < s[2]

(* "A missing field is an error, not a zero" (deterministic.py; paths.py: a     *)
(* typo'd field silently scoring zero is the more dangerous outcome): a score   *)
(* was read from the data.  It does not hold: a segment that names a method of  *)
(* Python's text is resolved to it.                                             *)
MissingNeverScores ==
    Asked("score") =>
        LET q == asked[2]
        IN  E!Evaluate(q.ev, q.ctx) # E!Failure => E!ResolveInContext(q.ev.field, q.ctx).type # "method"

-----------------------------------------------------------------------------
(* Corpus metrics.                                                              *)
Classified(labels) ==
    LET pairs == E!Pairs(asked[2].results)
    IN  [pairs |-> pairs, m |-> E!ConfusionMatrix(pairs, E!Classes(pairs, labels))]

(* Recall of a class is the share of its examples that were found.              *)
RecallCovers(q) ==
    \A c \in DOMAIN q.m : E!SameRatio(E!Recall(q.m, c), E!Ratio(E!TP(q.m, c), E!Support(q.pairs, c)))

ClassesAddUp ==
    LET q == Classified(None)
    IN  /\ RecallCovers(q)
        /\ q.pairs # <<>> => E!SameRatio(E!MicroF1(q.pairs, q.m), E!Accuracy(q.pairs))
        /\ \A c \in DOMAIN q.m :
              E!SameRatio(E!F1(q.m, c),
                     E!Ratio(2 * E!TP(q.m, c), 2 * E!TP(q.m, c) + E!FP(q.m, c) + E!FN(q.m, c)))

(* MAP and NDCG are 1 for the same rankings: those that begin with relevant     *)
(* items, as many as there are or as k lets in.                                 *)
PerfectRankings ==
    LET ranked   == asked[2].r.ranked
        relevant == asked[2].r.relevant
        k        == asked[2].k
        wanted   == E!Least(Cardinality(relevant), k)
        perfect  == Len(ranked) >= wanted /\ \A i \in 1 .. wanted : ranked[i] \in relevant
        ap       == E!AveragePrecision(ranked, relevant, k)
        ndcg     == E!NDCG(ranked, relevant, k)
    IN  IsInjective(ranked) /\ relevant # {} =>
          /\ ap[1] <= ap[2] /\ ndcg[1] <= ndcg[2]
          /\ ap[1] = ap[2] <=> perfect
          /\ ndcg[1] = ndcg[2] <=> perfect

(* How often a positive outranks a negative, a tie being half a win.            *)
AucIsPairwise ==
    LET points == asked[2]
        pairs  == {p \in (DOMAIN points) \X (DOMAIN points) : points[p[1]].outcome /\ ~points[p[2]].outcome}
        wins   == {p \in pairs : points[p[1]].score > points[p[2]].score}
        ties   == {p \in pairs : points[p[1]].score = points[p[2]].score}
    IN  IF pairs = {} THEN E!RocAuc(points) = None
        ELSE E!SameRatio(E!RocAuc(points), <<2 * Cardinality(wins) + Cardinality(ties), 2 * Cardinality(pairs)>>)

(* The corpus metrics are what their names say (statistical.py): per-class      *)
(* numbers cover every example of the class, micro F1 is accuracy, MAP and NDCG *)
(* agree on which rankings are perfect, and the rank sum over midranks is the   *)
(* pairwise AUC however many scores are tied.                                   *)
CorpusMetricsAreWhatTheySay ==
    /\ Asked("classes") => ClassesAddUp
    /\ Asked("ranking") => PerfectRankings
    /\ Asked("points") => AucIsPairwise

(* The same when the suite lists its labels ("a rare-class collapse should at   *)
(* minimum be visible in the report").  It does not hold: a prediction outside  *)
(* the list is missing from the matrix, and the recall does not see it.         *)
EveryMissIsSeen == Asked("classes") => RecallCovers(Classified(asked[2].labels))

-----------------------------------------------------------------------------
(* The waterfall.                                                               *)
RowIds(spans) == [i \in DOMAIN spans |-> spans[i].id]

(* What hangs below a span, by its parents' names.                              *)
RECURSIVE Reach(_, _)
Reach(ids, spans) ==
    LET more == {s.id : s \in {x \in ToSet(spans) : x.parent \in ids}}
    IN  IF more \subseteq ids THEN ids ELSE Reach(ids \cup more, spans)

Descendants(id, spans) == Reach({x.id : x \in {y \in ToSet(spans) : y.parent = id}}, spans)

ShownOnce(rows, spans) ==
    IsInjective(RowIds(rows)) /\ ToSet(RowIds(rows)) = V!IdsOf(spans)

CollapseHidesSubtree(rows, spans) ==
    \A id \in V!IdsOf(spans) :
      (\A d \in V!IdsOf(spans) : d \notin Descendants(d, spans))
      => V!Collapsed(rows, id) = Descendants(id, spans)

(* The instants of a span at which none of its children runs.                   *)
SelfTimeIsUncovered(spans) ==
    \A s \in ToSet(spans) :
      LET kids == {k \in ToSet(spans) : k.parent = s.id}
          runs(k) == k.start .. (IF k.end = None THEN k.start ELSE k.end) - 1
      IN  s.end # None /\ (\A k \in kids : runs(k) \subseteq s.start .. s.end - 1)
          => V!SelfTime(s, spans) = Cardinality((s.start .. s.end - 1) \ UNION {runs(k) : k \in kids})

(* The waterfall tells the tree it was given, whatever the exporter lost and    *)
(* however malformed the links are (spans.ts buildWaterfall): every span has    *)
(* one row, also in a cycle; folding a row away hides exactly what hangs below  *)
(* it; and a span's own time is the time none of its children ran, concurrent   *)
(* children counted once.                                                       *)
WaterfallTellsTheTree ==
    Asked("waterfall") =>
        LET rows == V!BuildWaterfall(asked[2])
        IN  /\ ShownOnce(rows, asked[2])
            /\ CollapseHidesSubtree(rows, asked[2])
            /\ SelfTimeIsUncovered(asked[2])

(* "The ordering rules mirror the trajectory engine's normalization exactly"    *)
(* (spans.ts): the rows of a trace are in the order its policies were checked   *)
(* in.  It does not hold: the engine moves a child that starts before its       *)
(* parent to the parent's start, the dashboard sorts by what was sent.          *)
SameOrderAsPolicies ==
    Asked("trace") => RowIds(V!SortSpans(asked[2].spans)) = RowIds(T!Ordered(Arrived))

-----------------------------------------------------------------------------
(* The OTLP receiver.                                                           *)

(* What becomes of the spans of one request.                                    *)
Whole(out, all) ==
    /\ out.raised => \E i \in DOMAIN all : ~all[i].fits
    /\ ~out.raised => Len(out.spans) + Len(out.rejected) = Len(all)
    /\ O!Response(out) = 0 => Len(out.spans) = Len(all) /\ \A i \in DOMAIN all : all[i].cut = 0
    /\ \A t \in out.traces : \A i \in DOMAIN out.spans :
         out.spans[i].trace = t.trace =>
           /\ t.start <= out.spans[i].start
           /\ out.spans[i].end # None => t.end # None /\ t.end >= out.spans[i].end

SameBatch(out, back) ==
    /\ O!Response(out) = O!Response(back)
    /\ ToSet(out.spans) = ToSet(back.spans)
    /\ {<<t.trace, t.start, t.end>> : t \in out.traces}
         = {<<t.trace, t.start, t.end>> : t \in back.traces}

(* An export is translated whole, whatever order its scopes come in: it fails   *)
(* only when a span does not fit, otherwise each span is stored or refused, and *)
(* who is told of no refusal has every span stored with its payloads; a span's  *)
(* token total is never below its parts, and a declared trace covers every one  *)
(* of its spans (receiver.py translate, routes/otlp.py export_traces).  Which   *)
(* spans are refused depends on the order once the limit is passed.             *)
ExportIsWhole ==
    Asked("export") =>
        LET q == asked[2]
            all == FlattenSeq([i \in DOMAIN q |-> q[i].spans])
            mapped(i) == O!MapSpan(all[i].attrs, all[i].name)
        IN  /\ Whole(O!Translate(q), all)
            /\ Len(all) <= SpanLimit => SameBatch(O!Translate(q), O!Translate(Reverse(q)))
            /\ \A i \in DOMAIN all :
                 mapped(i).tokens >= O!AsInt(O!First(all[i].attrs, O!PromptKeys))
                                       + O!AsInt(O!First(all[i].attrs, O!CompletionKeys))

(* "Rejecting the span rather than the request keeps one broken span from       *)
(* discarding the valid ones around it" (receiver.py): no request fails.  It    *)
(* does not hold: a span that does not fit fails the request.                   *)
BrokenSpanAlone == Asked("export") => ~O!Translate(asked[2]).raised

(* "Every attribute that is not promoted to a column stays" (mapping.py): an    *)
(* attribute that is gone is the one a column was read from.  It does not hold: *)
(* the other spellings of a group go with the winner, also when the winner      *)
(* cannot be read.                                                              *)
NothingThrownAway ==
    Asked("export") =>
        \A k \in DOMAIN asked[2] : \A i \in DOMAIN asked[2][k].spans :
           LET s == asked[2][k].spans[i]
               m == O!MapSpan(s.attrs, s.name)
           IN  \A key \in DOMAIN s.attrs \ m.attributes :
                  s.attrs[key] \in {O!First(s.attrs, g) :
                                      g \in {O!ModelKeys, O!PromptKeys, O!CostKeys, O!TotalKeys,
                                             O!ToolNameKeys, O!InputKeys, O!ToolArgsKeys}}

-----------------------------------------------------------------------------
(* The list of traces.                                                          *)

(* Paging through the list shows each trace that was there and matched all      *)
(* along exactly once, and none twice, however many share a start time and      *)
(* whatever is ingested, re-ingested or expires between two pages (traces.py    *)
(* list_traces: the cursor is compared on time and id).                         *)
ListedOnce ==
    Asked("listing") =>
        LET s == asked[2]
        IN  IsInjective(s.shown) /\ (s.over => s.steady \subseteq ToSet(s.shown))

-----------------------------------------------------------------------------
(* What the run checks, by subject.                                             *)

(* Policies read the trace there was: concurrent events have no order, a        *)
(* required sequence is missed only when it is not there, the server sees what  *)
(* the recorder saw, and what is not there is no error.                         *)
PoliciesSound ==
    /\ ConcurrentNeverOrdered /\ OrderIsSubsequence
    /\ OnlineAgreesWhenOrdered /\ AbsenceIsNotAnError

(* Scores, metrics and tests are the procedures they are named for.             *)
StatisticsSound == HolmIsStepDown /\ CorpusMetricsAreWhatTheySay /\ ScoresMeasure

(* The dashboard leaves nothing out unannounced: what an exporter sends is      *)
(* stored, counted as refused, or failed with its request, and no span of a     *)
(* trace and no trace of the list is missing.                                   *)
DashboardComplete == ExportIsWhole /\ WaterfallTellsTheTree /\ ListedOnce
================================================================================
