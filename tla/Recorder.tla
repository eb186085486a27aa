------------------------------ MODULE Recorder -------------------------------
(* The SDK's recorder: context variables that say which trace and span a task   *)
(* is in, `with` blocks that open and close them, and traces that gather spans  *)
(* until they are handed to the exporter.  A program is a record; each operator *)
(* below is a call it makes.  Traces and spans are numbered as they are opened. *)
(* A call never raises into the program: what fails in it is swallowed, and the *)
(* caller gets a no-op.                                                         *)
EXTENDS Naturals, Sequences, FiniteSets

CONSTANTS Tasks, Cap   \* asyncio tasks or threads; max_spans_per_trace

VARIABLE program

Nowhere == [trace |-> 0, span |-> 0]

(* Only the first task runs, outside every block.                               *)
Begin ==
    [ctx    |-> [t \in Tasks |-> Nowhere],
     runs   |-> [t \in Tasks |-> IF t = 1 THEN "bare" ELSE "no"],
     blocks |-> [t \in Tasks |-> <<>>],
     traces |-> <<>>, spans |-> <<>>, sent |-> <<>>]

StartTrace(s, sampled) ==
    [s EXCEPT !.traces = Append(@, [sampled |-> sampled, status |-> "ok", ended |-> FALSE,
                                    spans |-> {}, dropped |-> 0, lost |-> FALSE])]

Enter(s, t, block) == [s EXCEPT !.blocks[t] = <<block>> \o @]
Noop == [kind |-> "noop", id |-> 0, back |-> 0, alone |-> FALSE]

Full(tr) == Cardinality(tr.spans) >= Cap

(* A full trace refuses the span and counts it; the caller gets a no-op.        *)
Register(s, trace, span) ==
    IF Full(s.traces[trace])
    THEN [s EXCEPT !.traces[trace].dropped = @ + 1]
    ELSE [s EXCEPT !.spans = Append(@, span), !.traces[trace].spans = @ \cup {Len(s.spans) + 1}]

EndTrace(s, trace, raised) ==
    LET was == s.traces[trace]
        failed == \E i \in was.spans : s.spans[i].status = "error"
        status == IF raised \/ failed THEN "error" ELSE was.status
    IN  IF was.ended THEN s
        ELSE [s EXCEPT !.traces[trace] = [was EXCEPT !.ended = TRUE, !.status = status]]

(* What is sampled out is kept after all when it failed (always_sample_on_error *)
(* is on by default).                                                           *)
Kept(tr) == tr.sampled \/ tr.status = "error"

Snapshot(s, trace) ==
    [trace |-> trace, status |-> s.traces[trace].status,
     spans |-> {<<i, s.spans[i].ended, s.spans[i].status>> : i \in s.traces[trace].spans}]

(* A snapshot that fails (a value pydantic refuses) is swallowed with its trace.*)
Emit(s, trace, frozen) ==
    IF ~Kept(s.traces[trace]) THEN s
    ELSE IF frozen THEN [s EXCEPT !.sent = Append(@, Snapshot(s, trace))]
    ELSE [s EXCEPT !.traces[trace].lost = TRUE]

(* A trace that cannot be started (an id no rate can be drawn from).            *)
OpenNothing(s, t) == Enter(s, t, Noop)

(* `with client.trace(...)`: the span of the enclosing block stays current.     *)
OpenTrace(s, t, sampled) ==
    LET opened == StartTrace(s, sampled)
    IN  Enter([opened EXCEPT !.ctx[t].trace = Len(opened.traces)], t,
              [kind |-> "trace", id |-> Len(opened.traces), back |-> s.ctx[t].trace,
               alone |-> FALSE])

(* `with client.span(...)`: a span outside every trace gets one of its own.  A  *)
(* span of no known type fails after that, and so does one that a full trace    *)
(* refuses: the trace of its own stays current, and nobody ends it.             *)
OpenSpan(s, t, sampled, known) ==
    LET alone == s.ctx[t].trace = 0
        here  == IF alone THEN [StartTrace(s, sampled) EXCEPT !.ctx[t].trace = Len(s.traces) + 1]
                          ELSE s
        trace == here.ctx[t].trace
        span  == [trace |-> trace, parent |-> s.ctx[t].span, task |-> t, status |-> "ok",
                   ended |-> FALSE]
        noted == IF known THEN Register(here, trace, span) ELSE here
    IN  IF ~known \/ Full(here.traces[trace])
        THEN Enter([noted EXCEPT !.traces[trace].lost = @ \/ alone], t, Noop)
        ELSE Enter([noted EXCEPT !.ctx[t].span = Len(noted.spans)], t,
                   [kind |-> "span", id |-> Len(noted.spans), back |-> s.ctx[t].span,
                    alone |-> alone])

EndSpan(s, span, raised) ==
    LET was == s.spans[span]
        status == IF raised THEN "error" ELSE was.status
    IN  [s EXCEPT !.spans[span] = [was EXCEPT !.ended = TRUE, !.status = status]]

(* Mutant: the trace of a span's own stays current after it was handed over.    *)
BugCloseImplicitTrace(s, t, frozen) ==
    LET trace == s.ctx[t].trace
    IN  IF trace = 0 THEN s ELSE Emit(EndTrace(s, trace, FALSE), trace, frozen)

CloseImplicitTrace(s, t, frozen) ==
    LET trace == s.ctx[t].trace
    IN  IF trace = 0 THEN s
        ELSE [Emit(EndTrace(s, trace, FALSE), trace, frozen) EXCEPT !.ctx[t].trace = 0]

(* The innermost block of a task ends, with an exception or without.            *)
Close(s, t, raised, frozen) ==
    LET block == Head(s.blocks[t])
        left  == [s EXCEPT !.blocks[t] = Tail(@)]
        reset == [EndSpan(left, block.id, raised) EXCEPT !.ctx[t].span = block.back]
    IN  CASE block.kind = "trace" ->
                Emit([EndTrace(left, block.id, raised) EXCEPT !.ctx[t].trace = block.back],
                     block.id, frozen)
          [] block.kind = "span" ->
                IF block.alone THEN CloseImplicitTrace(reset, t, frozen) ELSE reset
          [] OTHER -> left

(* A task or a propagated callable starts from a copy of its creator's context; *)
(* a bare thread starts from none.                                              *)
Spawn(s, t, child, copied) ==
    [s EXCEPT !.runs[child] = IF copied THEN "copy" ELSE "bare", !.ctx[child] = IF copied THEN s.ctx[t] ELSE Nowhere]
-----------------------------------------------------------------------------
(* Any task that runs opens or closes a block, or starts another task.          *)
Step(t) ==
    /\ program.runs[t] # "no"
    /\ \/ program' = OpenNothing(program, t)
       \/ \E sampled \in BOOLEAN : program' = OpenTrace(program, t, sampled)
       \/ \E sampled, known \in BOOLEAN : program' = OpenSpan(program, t, sampled, known)
       \/ /\ program.blocks[t] # <<>>
          /\ \E raised, frozen \in BOOLEAN : program' = Close(program, t, raised, frozen)
       \/ \E u \in Tasks, copied \in BOOLEAN :
            program.runs[u] = "no" /\ program' = Spawn(program, t, u, copied)

(* A process that ends takes all of it with it; the next starts afresh.         *)
NextProcess == program' = Begin

ProgramSpec == program = Begin /\ [][(\E t \in Tasks : Step(t)) \/ NextProcess]_program

SentTimes(trace) == Cardinality({k \in DOMAIN program.sent : program.sent[k].trace = trace})

Sent(i) ==
    \E k \in DOMAIN program.sent :
       /\ program.sent[k].trace = program.spans[i].trace
       /\ <<i, TRUE, program.spans[i].status>> \in program.sent[k].spans

(* Spans of the program's own threads.                                          *)
Own == {i \in DOMAIN program.spans : program.runs[program.spans[i].task] = "bare"}
TraceOf(i) == program.traces[program.spans[i].trace]

(* Nobody ends it: the trace of a span's own whose span was refused.            *)
Stray(x) == program.traces[x].lost /\ ~program.traces[x].ended

(* The SDK "loses visibly": a trace that is over reaches the exporter once if   *)
(* it is sampled or failed, and never otherwise, unless its snapshot failed; it *)
(* carries every span of the program's own threads that is over, as it ended,   *)
(* and is an error if one of them is; a thread that has left its blocks has     *)
(* nothing left open and is back outside every trace, but for the stray ones    *)
(* (client.py trace, span, _close_implicit_trace, emit).  A span that a copied  *)
(* context opens may outlive its trace: it is excepted.                         *)
RecordingKept ==
    /\ \A x \in DOMAIN program.traces :
         SentTimes(x) = IF /\ program.traces[x].ended /\ Kept(program.traces[x])
                           /\ ~program.traces[x].lost THEN 1 ELSE 0
    /\ \A i \in Own :
         program.spans[i].ended /\ TraceOf(i).ended =>
           /\ program.spans[i].status = "error" => TraceOf(i).status = "error"
           /\ Kept(TraceOf(i)) /\ ~TraceOf(i).lost => Sent(i)
    /\ \A t \in Tasks :
         program.runs[t] = "bare" /\ program.blocks[t] = <<>> =>
           /\ program.ctx[t].span = 0
           /\ program.ctx[t].trace # 0 => Stray(program.ctx[t].trace)
           /\ \A i \in Own : program.spans[i].task = t =>
                 /\ program.spans[i].ended
                 /\ TraceOf(i).ended \/ Stray(program.spans[i].trace)

(* "The data vanishes silently - the exact failure mode the SDK promises to     *)
(* avoid" (client.py _close_implicit_trace, which ends what start_span began):  *)
(* a thread that has left its blocks is in no trace.  It does not hold: a span  *)
(* that fails after its own trace was set leaves it current, and every span     *)
(* that follows is recorded into a trace nobody ends.                           *)
NothingLeftCurrent ==
    \A t \in Tasks :
      program.runs[t] = "bare" /\ program.blocks[t] = <<>> => program.ctx[t] = Nowhere

(* A span's parent is in its own trace.  It does not hold: `trace` leaves the   *)
(* span of the enclosing block current, and the first span inside it hangs      *)
(* under a span of another trace.                                               *)
ParentsInTrace ==
    \A i \in DOMAIN program.spans :
       LET up == program.spans[i].parent
       IN  up # 0 => program.spans[up].trace = program.spans[i].trace
==============================================================================
