----------------------------- MODULE TraceViews ------------------------------
(* What a reader of traces is shown: the list a page at a time, and the         *)
(* waterfall of one trace.                                                      *)
EXTENDS Integers, FiniteSets, Sequences, SequencesExt

CONSTANTS PageSize,    \* the limit of the request
          None         \* an absent parent, end time or duration

-----------------------------------------------------------------------------
(* Reading traces a page at a time (GET /v1/traces): newest first, the last row *)
(* of a page being where the next one starts.  Rows come, go and change between *)
(* two pages.  A row is [id, start, status]; ids are random, not in the order   *)
(* of arrival.                                                                  *)

First == [start |-> 99, id |-> 0]   \* no cursor

(* order_by(started_at.desc(), id.desc()).                                      *)
Above(a, b) == a.start > b.start \/ (a.start = b.start /\ a.id > b.id)

BugAfter(cursor, row) == cursor = First \/ row.start < cursor.start
(* The compound comparison with the cursor.                                     *)
After(cursor, row) == cursor = First \/ Above(cursor, row)

Matching(rows, filter) == {r \in rows : filter = "any" \/ r.status = filter}

(* One row more than the page is fetched, to know whether there is another.     *)
Fetched(rows, filter, cursor) ==
    LET all == SetToSortSeq({r \in Matching(rows, filter) : After(cursor, r)}, Above)
    IN  SubSeq(all, 1, IF Len(all) > PageSize THEN PageSize + 1 ELSE Len(all))

HasMore(found) == Len(found) > PageSize
Page(found) == IF HasMore(found) THEN SubSeq(found, 1, PageSize) ELSE found

NextCursor(found) ==
    LET end == Page(found)[PageSize] IN [start |-> end.start, id |-> end.id]

(* A reader of the list: what it has been shown, where it is, and the ids that  *)
(* were there from the start and matched all along.                             *)
Start(rows, filter) ==
    [rows |-> rows, filter |-> filter, cursor |-> First, shown |-> <<>>, over |-> FALSE,
     steady |-> {r.id : r \in Matching(rows, filter)}]

ReadPage(s) ==
    LET found == Fetched(s.rows, s.filter, s.cursor)
    IN  [s EXCEPT !.shown = @ \o [i \in DOMAIN Page(found) |-> Page(found)[i].id],
                  !.over = ~HasMore(found),
                  !.cursor = IF HasMore(found) THEN NextCursor(found) ELSE @]

(* What ingestion and retention do meanwhile.                                   *)
Change(s, rows) ==
    [s EXCEPT !.rows = rows, !.steady = @ \cap {r.id : r \in Matching(rows, s.filter)}]

-----------------------------------------------------------------------------
(* The waterfall of the dashboard (apps/web/src/lib/spans.ts): spans in the     *)
(* order they came are flattened into rows, and a span's own time is what its   *)
(* children leave of it.  Geometry is left out; times are integers.             *)

(* A span is [id, parent, start, end, seq], the end None while it is open.      *)

(* sortSpans.                                                                   *)
SortsBefore(a, b) ==
    \/ a.start < b.start
    \/ a.start = b.start /\ a.seq < b.seq
    \/ a.start = b.start /\ a.seq = b.seq /\ a.id < b.id

SortSpans(spans) == SetToSortSeq(ToSet(spans), SortsBefore)

IdsOf(spans) == {s.id : s \in ToSet(spans)}
HasParent(s, spans) == s.parent # None /\ s.parent \in IdsOf(spans)

(* The children of an id and the roots, both in start order.                    *)
Children(ordered, id) == SelectSeq(ordered, LAMBDA s : s.parent = id)
Roots(ordered) == SelectSeq(ordered, LAMBDA s : ~HasParent(s, ordered))

Frames(spans, depth) == [i \in DOMAIN spans |-> [span |-> spans[i], depth |-> depth]]

(* walk: the stack's top is its head; an id is shown once.                      *)
RECURSIVE Walk(_, _, _)
Walk(ordered, stack, rows) ==
    IF stack = <<>> THEN rows
    ELSE LET frame == Head(stack)
             s     == frame.span
             kids  == Children(ordered, s.id)
         IN  IF \E i \in DOMAIN rows : rows[i].id = s.id
             THEN Walk(ordered, Tail(stack), rows)
             ELSE Walk(ordered, Frames(kids, frame.depth + 1) \o Tail(stack),
                       Append(rows, [id |-> s.id, depth |-> frame.depth,
                                     orphan |-> s.parent # None /\ ~HasParent(s, ordered)]))

(* What is walked from: the roots, and then whatever a cycle kept from them.    *)
Entries(ordered) == Roots(ordered) \o ordered

BuildWaterfall(spans) ==
    LET ordered == SortSpans(spans) IN Walk(ordered, Frames(Entries(ordered), 0), <<>>)

(* collapsedDescendants: the deeper rows that follow.                           *)
Collapsed(rows, id) ==
    LET at    == CHOOSE i \in DOMAIN rows : rows[i].id = id
        stops == {j \in at + 1 .. Len(rows) : rows[j].depth <= rows[at].depth}
        end   == IF stops = {} THEN Len(rows) + 1 ELSE CHOOSE j \in stops : \A k \in stops : j <= k
    IN  {rows[j].id : j \in at + 1 .. end - 1}

(* selfTimeMs: child intervals are merged before they are subtracted.           *)
MaxOf(a, b) == IF a >= b THEN a ELSE b

Interval(s) == [from |-> s.start, to |-> IF s.end = None THEN s.start ELSE s.end]

CoverBy(acc, iv) ==
    LET from == MaxOf(iv.from, acc.cursor)
    IN  IF iv.to > from THEN [covered |-> acc.covered + iv.to - from, cursor |-> iv.to] ELSE acc

SelfTime(s, spans) ==
    LET kids == SetToSortSeq({k \in ToSet(spans) : k.parent = s.id}, SortsBefore)
        acc  == FoldLeft(LAMBDA a, k : CoverBy(a, Interval(k)), [covered |-> 0, cursor |-> -1], kids)
    IN  IF s.end = None THEN None ELSE MaxOf(0, s.end - s.start - acc.covered)
=============================================================================
