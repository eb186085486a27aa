----------------------------- MODULE TraceStore -----------------------------
(***************************************************************************)
(* What trace ingestion promises about a trace's spans and their events,   *)
(* whatever the number of connections, retries and failures: batches take  *)
(* effect one at a time and whole.  A batch inserts the spans that are not *)
(* there yet, replaces the updatable columns of those that are (ON         *)
(* CONFLICT DO UPDATE, whose SET list leaves parent, type, model, prompt   *)
(* and completion tokens, tool, error type and sequence index alone), and  *)
(* replaces the events of every span it carries events for.                *)
(***************************************************************************)
CONSTANTS
  Spans,     \* the spans of one trace
  Batches,   \* the batches a client may send
  SpansOf,   \* SpansOf[b]: the spans batch b carries
  EventsOf,  \* EventsOf[b]: those it carries events for
  Absent

VARIABLES
  first,     \* the batch whose data each stored span holds in the columns never updated
  version,   \* the batch whose data it holds in the others
  origin     \* the batch whose events each span holds, as a set

Init ==
  /\ first = [s \in Spans |-> Absent]
  /\ version = [s \in Spans |-> Absent]
  /\ origin = [s \in Spans |-> {}]

Ingest(b) ==
  /\ first' = [s \in Spans |-> IF s \in SpansOf[b] /\ first[s] = Absent THEN b ELSE first[s]]
  /\ version' = [s \in Spans |-> IF s \in SpansOf[b] THEN b ELSE version[s]]
  /\ origin' = [s \in Spans |-> IF s \in EventsOf[b] THEN {b} ELSE origin[s]]

Next == \E b \in Batches : Ingest(b)

Spec == Init /\ [][Next]_<<first, version, origin>>
=============================================================================
