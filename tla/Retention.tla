------------------------------- MODULE Retention -------------------------------
(***************************************************************************)
(* Where spans and payloads live and how they go away: month partitions    *)
(* with a DEFAULT behind them (db/partitions.py), payload rows shared by   *)
(* content hash (IngestService._offload), and the two statements that      *)
(* delete (services/retention.py).                                         *)
(*                                                                         *)
(* Days and months are numbers; one partitioned table stands for the three *)
(* (traces, spans, span_events), which one transaction creates and drops   *)
(* together.  PostgreSQL is external: a row goes to the partition of its   *)
(* month, to DEFAULT when there is none, and a partition is refused while  *)
(* DEFAULT holds a row that belongs in it.                                 *)
(***************************************************************************)
EXTENDS Integers, Sequences, FiniteSets, SequencesExt

CONSTANTS
  Projects,      \* the active projects, in the order they were created
  Limit,         \* MAX_PROJECTS_PER_RUN
  TraceDays,     \* TraceDays[p]: retention_days_traces
  PayloadDays,   \* PayloadDays[p]: retention_days_payloads
  MonthLength,   \* days in a month
  MonthsAhead,
  LastDay,       \* bound on the calendar
  Skews,         \* how far a span's clock may be from the server's
  Payloads,      \* Payloads[p]: a project's contents too large to be stored inline
  MaxRows,       \* bound on the rows stored at a time
  Nothing

AllProjects == ToSet(Projects)

ASSUME RetentionAssumption ==
  /\ Projects \in Seq(AllProjects)
  /\ TraceDays \in [AllProjects -> Nat \ {0}] /\ PayloadDays \in [AllProjects -> Nat \ {0}]
  /\ MonthLength \in Nat \ {0} /\ MonthsAhead \in Nat /\ Limit \in Nat
  /\ LastDay \in Nat /\ Skews \subseteq Int /\ DOMAIN Payloads = AllProjects

VARIABLES
  today,
  months,    \* the months that have a partition
  rows,      \* the spans: [project, day, home, ref], home a month or "default"
  payloads   \* payload_objects: [project, sha, created]

store == <<today, months, rows, payloads>>

Month(day) == day \div MonthLength
MonthEnd(m) == (m + 1) * MonthLength
Default == -1

\* The month is about to turn; the migration made DEFAULT and no month partition.
InitStore ==
  /\ today = MonthLength - 1
  /\ months = {} /\ rows = {} /\ payloads = {}

(***************************************************************************)
(* _offload: one row per content.  The row found keeps its age; the bucket *)
(* may be away, and then the span is stored without its payload.           *)
(***************************************************************************)
RowOf(p, sha) == {o \in payloads : o.project = p /\ o.sha = sha}

\* An insert by ingest.  Nothing bounds the span's own clock.
Ingest(p, skew, sha) ==
  LET day  == today + skew
      home == IF Month(day) \in months THEN Month(day) ELSE Default
      new  == [project |-> p, sha |-> sha, created |-> today]
  IN /\ Cardinality(rows) < MaxRows /\ day >= 0
     /\ \E ref \in {Nothing} \cup (IF RowOf(p, sha) # {} THEN RowOf(p, sha) ELSE {new}) :
          /\ rows' = rows \cup {[project |-> p, day |-> day, home |-> home, ref |-> ref]}
          /\ payloads' = IF ref = Nothing THEN payloads ELSE payloads \cup {ref}
     /\ UNCHANGED <<today, months>>

NextDay ==
  /\ today < LastDay
  /\ today' = today + 1
  /\ UNCHANGED <<months, rows, payloads>>

\* ensure_partitions: this month and the ones ahead of it.
\* Mutant: range(months_ahead) without the + 1.
BugWanted == Month(today) .. (Month(today) + MonthsAhead - 1)
Wanted == Month(today) .. (Month(today) + MonthsAhead)

\* PostgreSQL refuses a partition whose rows are in DEFAULT: the transaction fails.
Refused == \E r \in rows : r.home = Default /\ Month(r.day) \in Wanted \ months

MaintainPartitions ==
  /\ ~Refused
  /\ months' = months \cup Wanted
  /\ UNCHANGED <<today, rows, payloads>>

\* active_project_ids: the oldest, and no more than the limit.
Swept == {Projects[i] : i \in 1..(IF Len(Projects) < Limit THEN Len(Projects) ELSE Limit)}

\* longest_trace_retention_days: over every project, since a partition is shared.
Longest == Max({1} \cup {TraceDays[p] : p \in AllProjects})
Cutoff == today - Longest

\* droppable_partitions: the whole month is past the cutoff.
\* Mutant: the first day of the month is compared.
BugDroppable(m) == m * MonthLength <= Cutoff
Droppable(m) == MonthEnd(m) <= Cutoff

\* sweep_payload_rows, by the project's own window and the row's age.
Stale(o) == o.project \in Swept /\ o.created < today - PayloadDays[o.project]

SweepRetention ==
  LET gone == {m \in months : Droppable(m)}
  IN /\ months' = months \ gone
     /\ rows' = {r \in rows : r.home \notin gone}
     /\ payloads' = {o \in payloads : ~Stale(o)}
     /\ UNCHANGED today
=============================================================================
