-------------------------------- MODULE Otlp ---------------------------------
(* The OTLP receiver: spans of other people's instrumentation turned into a     *)
(* batch for the ingest service.  A request is a sequence of scopes; attributes *)
(* are a function from the keys that matter to values, a value being            *)
(* [kind, n]: a text, a number, something no number can be read from, an empty  *)
(* string.  Nothing here touches a table.  Of each group of spellings a         *)
(* semantic convention allows, the ones below stand for the rest.  A span       *)
(* `fits` unless the batch's schema or a conversion raises on it (a status      *)
(* message or an event list that is too long, a token count or cost that is not *)
(* finite); `cut` is how many of its payloads the ingest service reports as     *)
(* stored shortened, or not at all.                                             *)
EXTENDS Integers, Sequences, SequencesExt

CONSTANTS None, MaxSpans   \* MAX_SPANS_PER_BATCH

ModelKeys      == <<"llm.model_name", "gen_ai.request.model">>
SessionKeys    == <<"session.id", "gen_ai.conversation.id">>
PromptKeys     == <<"llm.token_count.prompt", "gen_ai.usage.input_tokens">>
CompletionKeys == <<"llm.token_count.completion", "gen_ai.usage.output_tokens">>
TotalKeys      == <<"llm.token_count.total">>
CostKeys       == <<"llm.cost.total", "gen_ai.usage.cost">>
ToolNameKeys   == <<"tool.name", "gen_ai.tool.name">>
ToolArgsKeys   == <<"tool.parameters", "gen_ai.tool.arguments", "input.value">>
InputKeys      == <<"input.value", "gen_ai.prompt">>
KindKeys       == <<"openinference.span.kind", "gen_ai.operation.name">>

(* What the kinds of the two conventions are called here.                       *)
KindOf == [llm |-> "llm", chain |-> "workflow", tool |-> "tool", reranker |-> "retriever",
           chat |-> "llm", execute_tool |-> "tool"]

(* The first of the keys that is there and not empty.                           *)
First(attrs, keys) ==
    LET set == {i \in DOMAIN keys : keys[i] \in DOMAIN attrs /\ attrs[keys[i]].kind # "empty"}
    IN  IF set = {} THEN None ELSE attrs[keys[CHOOSE i \in set : \A j \in set : i <= j]]

Has(attrs, keys) == ToSet(keys) \cap DOMAIN attrs # {}

SpanType(attrs, name) ==
    LET kind == First(attrs, KindKeys)
    IN  IF kind # None /\ kind.kind = "text" /\ kind.n \in DOMAIN KindOf THEN KindOf[kind.n]
        ELSE IF Has(attrs, PromptKeys \o CompletionKeys) THEN "llm"
        ELSE IF Has(attrs, ToolNameKeys) THEN "tool"
        ELSE IF name = "graph.step" THEN "workflow" ELSE "custom"

AsInt(v) == IF v = None \/ v.kind # "number" \/ v.n < 0 THEN 0 ELSE v.n
AsCost(v) == IF v = None \/ v.kind # "number" \/ v.n < 0 THEN None ELSE v.n

(* A declared total is believed when it covers its parts.                       *)
Total(declared, parts) == IF AsInt(declared) >= parts THEN AsInt(declared) ELSE parts

(* The columns of a span, and the attributes that went into none.               *)
MapSpan(attrs, name) ==
    LET type == SpanType(attrs, name)
        args == IF type = "tool" THEN ToolArgsKeys ELSE SubSeq(ToolArgsKeys, 1, 2)
        taken == {k \in {ModelKeys, SessionKeys, PromptKeys, CompletionKeys, TotalKeys, CostKeys,
                         ToolNameKeys, args, InputKeys} : First(attrs, k) # None}
        parts == AsInt(First(attrs, PromptKeys)) + AsInt(First(attrs, CompletionKeys))
    IN  [type |-> type, model |-> First(attrs, ModelKeys), session |-> First(attrs, SessionKeys),
         tokens |-> Total(First(attrs, TotalKeys), parts), cost |-> AsCost(First(attrs, CostKeys)),
         tool |-> First(attrs, ToolNameKeys), args |-> First(attrs, args),
         input |-> First(attrs, InputKeys),
         attributes |-> DOMAIN attrs \ UNION {ToSet(k) : k \in taken}]

(* An exception event makes an error of a span that says nothing or even "ok".  *)
StatusFor(s) == IF s.code = "error" \/ s.exception THEN "error" ELSE "ok"

(* A parent of zeros is no parent.                                              *)
Parent(s) == IF s.parent = "zero" THEN None ELSE s.parent

(* Ids of the wrong length or alphabet, and the id that means "invalid".        *)
Problem(s) ==
    IF s.trace = "short" THEN "trace_id must be 32 hex characters"
    ELSE IF s.id = "short" THEN "span_id must be 16 hex characters"
    ELSE IF Parent(s) = "short" THEN "parent_span_id must be 16 hex characters"
    ELSE IF "zero" \in {s.trace, s.id} THEN "all-zero ids are invalid" ELSE "none"

ToSpanIn(s, m) ==
    [trace |-> s.trace, id |-> s.id, parent |-> Parent(s), start |-> s.start, end |-> s.end,
     status |-> StatusFor(s), tokens |-> m.tokens, type |-> m.type, cut |-> s.cut]

Earlier(a, b) == IF a <= b THEN a ELSE b
Later(a, b) == CASE a = None -> b [] b = None -> a [] OTHER -> IF a >= b THEN a ELSE b

Known(f, k, other) == IF k \in DOMAIN f THEN f[k] ELSE other

(* The time a trace covers, over every span of it in the request.               *)
Widen(extents, s) ==
    LET old == Known(extents, s.trace, <<s.start, s.end>>)
    IN  (s.trace :> <<Earlier(old[1], s.start), Later(old[2], s.end)>>) @@ extents

(* One span of the loop: what it adds to the batch, or why it is refused.  One  *)
(* that does not fit raises out of the loop: the request fails.                 *)
Translate1(st, s) ==
    LET m == MapSpan(s.attrs, s.name)
        root == Parent(s) = None
        held == Known(st.sessions, s.trace, None)
    IN  CASE Len(st.spans) >= MaxSpans ->
               [st EXCEPT !.rejected = Append(@, <<s.id, "batch span limit exceeded">>)]
          [] Len(st.spans) < MaxSpans /\ Problem(s) # "none" ->
               [st EXCEPT !.rejected = Append(@, <<s.id, Problem(s)>>)]
          [] Len(st.spans) < MaxSpans /\ Problem(s) = "none" /\ ~s.fits ->
               [st EXCEPT !.raised = TRUE]
          [] OTHER ->
               [st EXCEPT !.spans = Append(@, ToSpanIn(s, m)),
                          !.roots = IF root THEN (s.trace :> s) @@ @ ELSE @,
                          !.extents = Widen(@, s),
                          !.sessions = IF m.session = None THEN @
                                       ELSE (s.trace :> IF held = None THEN m.session ELSE held) @@ @]

(* A trace is declared when its root span is in the request.                    *)
ToTraceIn(root, extent, session) ==
    [trace |-> root.trace, name |-> root.name, status |-> StatusFor(root), session |-> session,
     start |-> Earlier(extent[1], root.start), end |-> Later(extent[2], root.end)]

NoOne == [t \in {} |-> None]

Result(st, scopes) ==
    [raised |-> st.raised, spans |-> st.spans, rejected |-> st.rejected,
     resource |-> FoldLeft(LAMBDA r, scope : scope.resource @@ r, NoOne, scopes),
     traces |-> {ToTraceIn(st.roots[t], st.extents[t], Known(st.sessions, t, None))
                   : t \in DOMAIN st.roots}]

Translate(scopes) ==
    Result(FoldLeft(Translate1, [raised |-> FALSE, spans |-> <<>>, rejected |-> <<>>,
                                 roots |-> NoOne, extents |-> NoOne, sessions |-> NoOne],
                    FlattenSeq([i \in DOMAIN scopes |-> scopes[i].spans])), scopes)

(* The answer: an error, None, when the translation raised; otherwise 200, with *)
(* the refused spans and the payloads that were cut counted in partial_success. *)
Response(out) ==
    IF out.raised THEN None
    ELSE Len(out.rejected) + FoldLeft(LAMBDA n, s : n + s.cut, 0, out.spans)
==============================================================================
