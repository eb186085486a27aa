----------------------------- MODULE Trajectory -----------------------------
(* The trajectory-policy engine (trajectory-engine): a trace is lowered into    *)
(* ordered events, and the twelve kinds of rules are matched against them.      *)
(* Then the predicates that guard rules and actions.                            *)
EXTENDS Values

CONSTANTS None,        \* an absent parent, end time or guard
          Private      \* the names that begin with an underscore

(* A span is [id, parent, action, wanted, start, end, seq, args, failed, state, *)
(* updates]: action is the canonical name after aliasing, wanted says that its  *)
(* type is included and its name not excluded, end is None while it is open;    *)
(* state is what its attributes and updates what its state_update events write  *)
(* to the workflow state (functions).  A trace is [spans (in order of arrival), *)
(* dropped, metadata, state].                                                   *)

IsOpen(s) == s.end = None

Incomplete(trace) ==
    trace.dropped > 0 \/ \E i \in DOMAIN trace.spans : IsOpen(trace.spans[i])

(* The first span of an id is kept.                                             *)
Selected(trace) ==
    LET sel == SelectSeq(trace.spans, LAMBDA s : s.wanted)
    IN  {sel[i] : i \in {j \in DOMAIN sel : \A k \in 1 .. j - 1 : sel[k].id # sel[j].id}}

(* The last span of an id in the trace is its parent record, and it is read     *)
(* with the start it arrived with: a chain of early children is clamped one     *)
(* level at a time.                                                             *)
ParentStart(trace, s) ==
    LET at == {i \in DOMAIN trace.spans : trace.spans[i].id = s.parent}
    IN  IF s.parent = None \/ at = {} THEN s.start
        ELSE trace.spans[CHOOSE i \in at : \A j \in at : j <= i].start

Clamped(trace, s) ==
    IF s.start < ParentStart(trace, s) THEN [s EXCEPT !.start = ParentStart(trace, s)] ELSE s

(* By start, then the recorder's counter, then the id.                          *)
SortsBefore(a, b) ==
    \/ a.start < b.start
    \/ a.start = b.start /\ a.seq < b.seq
    \/ a.start = b.start /\ a.seq = b.seq /\ a.id < b.id

Ordered(trace) ==
    SetToSortSeq({Clamped(trace, s) : s \in Selected(trace)}, SortsBefore)

(* Siblings that start while an earlier, ended one runs join its group, which   *)
(* is named after the first of them.                                            *)
Overlapped(ordered, i) ==
    { j \in i + 1 .. Len(ordered) :
        /\ ~IsOpen(ordered[i])
        /\ ordered[j].parent = ordered[i].parent
        /\ ordered[j].start < ordered[i].end }

(* Mutant: every span opens a group of its own for the siblings after it.       *)
BugParallelGroup(ordered) ==
    [j \in DOMAIN ordered |->
        LET of == {i \in 1 .. j : j \in Overlapped(ordered, i) \/ (i = j /\ Overlapped(ordered, i) # {})}
        IN  IF of = {} THEN None ELSE ordered[CHOOSE i \in of : \A k \in of : k <= i].id]

ParallelGroup(ordered) ==
    LET n == Len(ordered)
        \* the groups after the first i spans were the outer loop's span
        upto[i \in 0 .. n] ==
            IF i = 0 THEN [j \in 1 .. n |-> None]
            ELSE LET g    == upto[i - 1]
                     mine == IF g[i] = None THEN ordered[i].id ELSE g[i]
                 IN  IF Overlapped(ordered, i) = {} THEN g
                     ELSE [j \in 1 .. n |->
                             IF j = i \/ j \in Overlapped(ordered, i) THEN mine ELSE g[j]]
    IN  upto[n]

(* Retries: the same action and arguments while the last such event failed.     *)
Events(trace) ==
    LET ordered == Ordered(trace)
        group   == ParallelGroup(ordered)
        failed(i) == ordered[i].failed \/ IsOpen(ordered[i])
        earlier(i) == {j \in 1 .. i - 1 : /\ ordered[j].action = ordered[i].action
                                          /\ ordered[j].args = ordered[i].args}
        prev(i) == CHOOSE j \in earlier(i) : \A k \in earlier(i) : k <= j
        attempt[i \in 1 .. Len(ordered)] ==
            IF earlier(i) # {} /\ failed(prev(i)) THEN attempt[prev(i)] + 1 ELSE 1
    IN  [i \in 1 .. Len(ordered) |->
            [id |-> ordered[i].id, action |-> ordered[i].action, args |-> ordered[i].args,
             start |-> ordered[i].start, failed |-> failed(i), group |-> group[i],
             attempt |-> attempt[i], retry |-> attempt[i] > 1]]

(* Trace metadata, then the spans' writes in the order of the recorded starts,  *)
(* a span's events after its attributes, then the trace's state.                *)
Override(f, g) == [k \in DOMAIN f \cup DOMAIN g |-> IF k \in DOMAIN g THEN g[k] ELSE f[k]]

FinalState(trace) ==
    LET byTime == SetToSortSeq({trace.spans[i] : i \in DOMAIN trace.spans}, SortsBefore)
        upto[i \in 0 .. Len(byTime)] ==
            IF i = 0 THEN trace.metadata
            ELSE Override(Override(upto[i - 1], byTime[i].state), byTime[i].updates)
    IN  Override(upto[Len(byTime)], trace.state)

-----------------------------------------------------------------------------
(* Matchers: each says whether the rule reports a failure on the events.        *)

Visible(rule, events) == SelectSeq(events, LAMBDA e : ~(rule.ignoreFailed /\ e.failed))
Of(events, action) == SelectSeq(events, LAMBDA e : e.action = action)
Occurrences(rule, events, action) == Visible(rule, Of(events, action))

StrictlyBefore(a, b) == ~(a.group # None /\ a.group = b.group) /\ a.start < b.start

(* Greedy: each step takes the first later event with its name.  0 is "no step  *)
(* matched yet", None "a step was not found".                                   *)

OrderPosition(steps, events) ==
    LET after(p, step) == {i \in p + 1 .. Len(events) : events[i].action = step}
        at[k \in 0 .. Len(steps)] ==
            IF k = 0 THEN 0
            ELSE IF at[k - 1] = -1 \/ after(at[k - 1], steps[k]) = {} THEN -1
            ELSE CHOOSE i \in after(at[k - 1], steps[k]) :
                    \A j \in after(at[k - 1], steps[k]) : i <= j
    IN  at[Len(steps)]

RequiredOrder(rule, events) ==
    LET seen == Visible(rule, events)
    IN  IF rule.contiguous
        THEN ~\E s \in 0 .. Len(seen) - Len(rule.steps) :
                \A k \in DOMAIN rule.steps : seen[s + k].action = rule.steps[k]
        ELSE OrderPosition(rule.steps, seen) = -1

RequiredAction(rule, events) == Len(Occurrences(rule, events, rule.action)) < rule.minimum

ForbiddenAction(rule, events) == Occurrences(rule, events, rule.action) # <<>>

(* The gate event is the first occurrence, failed or not.  When the gate never  *)
(* happened the rule fails as soon as the action did.                           *)
ForbiddenBefore(rule, events) ==
    LET gate == Of(events, rule.gate)
        seen == Occurrences(rule, events, rule.action)
    IN  /\ seen # <<>>
        /\ gate # <<>> => \E i \in DOMAIN seen : StrictlyBefore(seen[i], gate[1])

ForbiddenAfter(rule, events) ==
    LET gate == Of(events, rule.gate)
        seen == Occurrences(rule, events, rule.action)
    IN  gate # <<>> /\ \E i \in DOMAIN seen : StrictlyBefore(gate[1], seen[i])

(* Retries are left out of the budget and counted as duplicates.                *)
Limit(rule, events) ==
    LET calls == SelectSeq(Occurrences(rule, events, rule.action), LAMBDA e : ~e.retry)
    IN  \/ rule.maximum # None /\ Len(calls) > rule.maximum
        \/ rule.minimum # None /\ Len(calls) < rule.minimum

UniqueAction(rule, events) ==
    LET seen == Occurrences(rule, events, rule.action)
    IN  \E i, j \in DOMAIN seen : i < j /\ seen[i].args = seen[j].args

(* Windows shorter than the repeats looked for are not examined.                *)
NoLoop(rule, events) ==
    LET seen == Visible(rule, events)
        window(s) == {i \in s .. s + rule.window - 1 : i <= Len(seen)}
    IN  \E s \in DOMAIN seen : \E i \in window(s) :
           Cardinality({j \in window(s) : /\ seen[j].action = seen[i].action
                                          /\ seen[j].args = seen[i].args}) >= rule.minimum

MaxRetries(rule, events) ==
    \E i \in DOMAIN events : /\ rule.action \in {"*", events[i].action}
                             /\ events[i].attempt - 1 > rule.maximum

(* A predicate is a function from arguments or from states to "true", "false"   *)
(* or "error"; an error fails a requirement and skips a guarded rule.           *)
ArgumentCondition(rule, events) ==
    LET seen == Occurrences(rule, events, rule.action)
    IN  \E i \in DOMAIN seen : rule.require[seen[i].args] # "true"

Conditional(rule, events) ==
    \/ rule.needed # None /\ Occurrences(rule, events, rule.needed) = <<>>
    \/ rule.action # None /\ Occurrences(rule, events, rule.action) # <<>>

FinalStateRule(rule, state) == rule.require[state] # "true"

Matches(rule, events, state) ==
    CASE rule.kind = "required_order"     -> RequiredOrder(rule, events)
      [] rule.kind = "required_action"    -> RequiredAction(rule, events)
      [] rule.kind = "forbidden_action"   -> ForbiddenAction(rule, events)
      [] rule.kind = "forbidden_before"   -> ForbiddenBefore(rule, events)
      [] rule.kind = "forbidden_after"    -> ForbiddenAfter(rule, events)
      [] rule.kind = "limit"              -> Limit(rule, events)
      [] rule.kind = "unique_action"      -> UniqueAction(rule, events)
      [] rule.kind = "no_loop"            -> NoLoop(rule, events)
      [] rule.kind = "max_retries"        -> MaxRetries(rule, events)
      [] rule.kind = "argument_condition" -> ArgumentCondition(rule, events)
      [] rule.kind = "conditional"        -> Conditional(rule, events)
      [] rule.kind = "final_state"        -> FinalStateRule(rule, state)

-----------------------------------------------------------------------------
(* The engine and the evaluator around it.                                      *)
RequiresComplete == {"required_order", "required_action", "limit", "conditional"}

Inconclusive(rules, trace) ==
    {r \in rules : Incomplete(trace) /\ r.kind \in RequiresComplete}

Guarded(rule, trace) ==
    rule.when # None /\ rule.when[FinalState(trace)] # "true"

Failures(rules, trace) ==
    { r \in rules \ Inconclusive(rules, trace) :
        ~Guarded(r, trace) /\ Matches(r, Events(trace), FinalState(trace)) }

PolicyPassed(rules, trace) ==
    /\ Inconclusive(rules, trace) = {}
    /\ \A r \in Failures(rules, trace) : r.severity # "block"

(* The score: errored without a trace or when a rule could not be judged.       *)
TrajectoryScore(rules, trace, failOnWarnings) ==
    IF trace = None \/ Inconclusive(rules, trace) # {} THEN "errored"
    ELSE IF \E r \in Failures(rules, trace) : r.severity = "block" \/ failOnWarnings THEN "fail"
    ELSE "pass"

(* Policies are refused when they are loaded, never when a trace arrives.       *)
RuleLoads(r) ==
    /\ r.kind = "limit" => r.maximum # None \/ r.minimum # None
    /\ r.kind = "no_loop" => r.minimum <= r.window
    /\ r.kind = "conditional" => r.when # None /\ (r.needed # None \/ r.action # None)

PolicyLoads(rules, aliases) ==
    /\ rules # {} /\ \A r \in rules : RuleLoads(r)
    /\ \A r, q \in rules : r.id = q.id => r = q
    /\ \A c, d \in DOMAIN aliases :
          c # d => aliases[c] \cap aliases[d] = {} /\ c \notin aliases[d]

-----------------------------------------------------------------------------
(* The predicates of trajectory policies (trajectory-engine predicates.py):     *)
(* what is accepted when a policy is loaded and what an accepted predicate is   *)
(* worth on a namespace.                                                        *)

(* A missing side is unordered; sides of different types are an error.          *)
Ordering(op, x, y) ==
    IF Missing(x) \/ Missing(y) THEN Bool(FALSE)
    ELSE IF (Numeric(x) /\ Numeric(y)) \/ (x.type = "text" /\ y.type = "text")
         THEN Bool(CASE op = "<"  -> Less(x, y)
                     [] op = "<=" -> Less(x, y) \/ Same(x, y)
                     [] op = ">"  -> Less(y, x)
                     [] op = ">=" -> Less(y, x) \/ Same(x, y))
         ELSE Error

Apply(op, x, y) ==
    CASE op = "=="     -> Bool(Same(x, y))
      [] op = "!="     -> Bool(~Same(x, y))
      [] op = "is"     -> Bool(x.type = y.type /\ x.type # "list" /\ Same(x, y))
      [] op = "in"     -> Bool(Contained(x, y))
      [] op = "not in" -> Bool(~Contained(x, y))
      [] OTHER         -> Ordering(op, x, y)

(* Of the functions, one of each kind: total, wants a size, wants a number,     *)
(* makes a text.                                                                *)
KnownFunctions == {"exists", "len", "abs", "bool"}

Call(f, x) ==
    CASE f = "exists" -> Bool(~Missing(x))
      [] f = "bool"   -> Bool(Truthy(x))
      [] f = "len"    -> IF Sized(x) THEN [type |-> "number", v |-> Cardinality(DOMAIN x.v)] ELSE Error
      [] f = "abs"    -> IF Numeric(x) THEN [type |-> "number", v |-> IF x.v < 0 THEN -x.v ELSE x.v]
                         ELSE Error

(* A predicate is [kind, arg, kids]: the operator, its name or constant, its    *)
(* operands.                                                                    *)
RECURSIVE Parts(_)
Parts(e) == <<e>> \o FlattenSeq([i \in DOMAIN e.kids |-> Parts(e.kids[i])])

Allowed == {"const", "name", "attr", "and", "or", "not", "minus", "compare", "list", "call"}

Accepted(e) ==
    \A i \in DOMAIN Parts(e) :
       LET p == Parts(e)[i]
       IN  /\ p.kind \in Allowed
           /\ p.kind = "attr" => p.arg \notin Private
           /\ p.kind = "call" => p.arg \in KnownFunctions

(* all and any stop at the first operand that settles them; an error is one.    *)
UnlessSettled(values, settling, otherwise) ==
    LET at == {i \in DOMAIN values : IsError(values[i]) \/ i \in settling}
    IN  IF at = {} THEN Bool(otherwise)
        ELSE IF IsError(values[CHOOSE i \in at : \A j \in at : i <= j]) THEN Error
        ELSE Bool(~otherwise)

AllOf(values) == UnlessSettled(values, {i \in DOMAIN values : ~Truthy(values[i])}, TRUE)
AnyOf(values) == UnlessSettled(values, {i \in DOMAIN values : Truthy(values[i])}, FALSE)

Attribute(base, name) ==
    CASE base.type = "map" /\ name \in DOMAIN base.v -> base.v[name]
      [] base.type \in {"text", "list"} /\ name \in Methods -> Method
      [] OTHER -> Nothing

\* Comparisons in a chain share their middle operand; what follows a false one is not evaluated.
Chain(ops, values) ==
    IF IsError(values[1]) THEN Error
    ELSE AllOf([i \in DOMAIN ops |->
                IF IsError(values[i + 1]) THEN Error ELSE Apply(ops[i], values[i], values[i + 1])])

RECURSIVE Eval(_, _)
Eval(e, ns) ==
    LET of == [i \in DOMAIN e.kids |-> Eval(e.kids[i], ns)]
        raises == \E i \in DOMAIN of : IsError(of[i])
    IN  CASE e.kind = "const"   -> e.arg
          [] e.kind = "name"    -> IF e.arg \in DOMAIN ns THEN ns[e.arg] ELSE Nothing
          [] e.kind = "attr"    -> IF raises THEN Error ELSE Attribute(of[1], e.arg)
          [] e.kind = "and"     -> AllOf(of)
          [] e.kind = "or"      -> AnyOf(of)
          [] e.kind = "not"     -> IF raises THEN Error ELSE Bool(~Truthy(of[1]))
          [] e.kind = "minus"   -> IF raises \/ ~Numeric(of[1]) THEN Error
                                   ELSE [type |-> "number", v |-> -of[1].v]
          [] e.kind = "compare" -> Chain(e.arg, of)
          [] e.kind = "list"    -> IF raises THEN Error ELSE [type |-> "list", v |-> of]
          [] e.kind = "call"    -> IF raises THEN Error ELSE Call(e.arg, of[1])

(* What the engine sees: an error is told apart from false.                     *)
Evaluate(e, ns) ==
    LET x == Eval(e, ns)
    IN  IF IsError(x) THEN "error" ELSE IF Truthy(x) THEN "true" ELSE "false"
=============================================================================
