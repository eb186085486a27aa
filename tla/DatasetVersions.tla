--------------------------- MODULE DatasetVersions ---------------------------
(***************************************************************************)
(* Dataset versions (apps/api/.../services/datasets.py and promote_trace   *)
(* of services/review.py) with the two immutability triggers and the       *)
(* unique indexes of the schema they rely on.                              *)
(*                                                                         *)
(* The model follows the versions of one dataset.  Every request is one    *)
(* transaction at READ COMMITTED; a step is one statement, and what it has *)
(* written is its own until it commits.  A version is named by its label   *)
(* (v1 is 1): the labels of a dataset are unique.  A content hash is       *)
(* modelled by the rows it was computed from.                              *)
(***************************************************************************)
EXTENDS Integers, Sequences, FiniteSets, FiniteSetsExt, SequencesExt

CONSTANTS
  MaxLabel,   \* bound on the labels v1, v2, ...
  Chosen,     \* the labels callers choose for new versions
  Batches,    \* the lists of example ids a caller may append
  Promoted,   \* the example ids trace-<id> a reviewer may promote
  Requests,   \* transactions
  Nobody      \* an unlocked version row

Labels == 1 .. MaxLabel
Ids == (UNION {ToSet(b) : b \in Batches}) \cup Promoted

ASSUME LabelAssumption == MaxLabel \in Nat \ {0} /\ Chosen \subseteq Labels
ASSUME BatchAssumption == Batches \subseteq Seq(Ids)
ASSUME RequestAssumption == Nobody \notin Requests

VARIABLES
  version,  \* version[l]: the committed row, status "none" when there is none
  rows,     \* rows[l]: its committed examples, as [ordinal, id]
  owner,    \* owner[l]: who has written (or inserted) the row of l and not committed
  req       \* req[r]: the local state of a request

vars == <<version, rows, owner, req>>

Row == [ordinal : Nat, id : Ids]
None == [status |-> "none", hash |-> {}, count |-> 0]
EmptyDraft == [status |-> "draft", hash |-> {}, count |-> 0]
\* held is the example_count the session loaded with the version: an UPDATE leaves out a
\* column whose new value is the one held.
Fresh == [pc |-> "new", op |-> "append", v |-> 1, batch |-> <<>>, held |-> 0, next |-> 0,
          rows |-> {}, digest |-> {}]
Running == {"label", "insertVersion", "copy", "max", "seen", "insert", "count",
            "load", "lock", "commit"}

Exists(l) == version[l].status # "none"
Locked(l) == version[l].status = "locked"
Existing == {l \in Labels : Exists(l)}
Drafts == {l \in Existing : ~Locked(l)}

\* create_dataset and a first create_version.
Init ==
  /\ version = [l \in Labels |-> IF l = 1 THEN EmptyDraft ELSE None]
  /\ rows = [l \in Labels |-> {}]
  /\ owner = [l \in Labels |-> Nobody]
  /\ req = [r \in Requests |-> Fresh]

Step(r, pc) == req' = [req EXCEPT ![r].pc = pc]
At(r, pc) == req[r].pc = pc

\* Mutant: the connection goes back to the pool with its transaction open.
BugRelease(r) == UNCHANGED owner
Release(r) == owner' = [l \in Labels |-> IF owner[l] = r THEN Nobody ELSE owner[l]]
Fail(r) ==
  /\ req' = [req EXCEPT ![r].pc = "failed", ![r].rows = {}]
  /\ Release(r)
  /\ UNCHANGED <<version, rows>>

(***************************************************************************)
(* The first statement of each operation.                                  *)
(***************************************************************************)
Start(r, begun) ==
  /\ At(r, "new")
  /\ req' = [req EXCEPT ![r] = begun]
  /\ UNCHANGED <<version, rows, owner>>

\* What a request holds of a version that exists.
Holding(v) == [Fresh EXCEPT !.v = v, !.held = version[v].count]

\* append_examples refuses a version it reads as locked.
BeginAppend(r) ==
  \E v \in Existing, batch \in Batches :
    Start(r, [Holding(v) EXCEPT !.batch = batch, !.pc = IF Locked(v) THEN "failed" ELSE "max"])

\* lock reads the version, its status and hash included, before the examples.
BeginLock(r) ==
  \E v \in Existing :
    Start(r, [Holding(v) EXCEPT !.op = IF Locked(v) THEN "relock" ELSE "lock", !.pc = "load"])

BeginCreate(r) ==
  \E l \in Chosen : Start(r, [Fresh EXCEPT !.op = "create", !.v = l, !.pc = "insertVersion"])

\* clone keeps the source's label in next until it has copied the examples.
BeginClone(r) ==
  \E l \in Chosen, source \in Existing :
    Start(r, [Fresh EXCEPT !.op = "clone", !.v = l, !.next = source, !.pc = "insertVersion"])

\* _draft_version takes the newest draft; which one it is depends on created_at.
BeginPromote(r) ==
  \E id \in Promoted :
    \/ \E v \in Drafts :
         Start(r, [Holding(v) EXCEPT !.op = "promote", !.batch = <<id>>, !.pc = "max"])
    \/ /\ Drafts = {}
       /\ Start(r, [Fresh EXCEPT !.op = "promote", !.batch = <<id>>, !.pc = "label"])

(***************************************************************************)
(* Inserting a version: uq_dataset_versions_label.                         *)
(***************************************************************************)
NextLabel == Cardinality(Existing) + 1

ChooseLabel(r) ==
  /\ At(r, "label")
  /\ NextLabel \in Labels
  /\ req' = [req EXCEPT ![r].v = NextLabel, ![r].pc = "insertVersion"]
  /\ UNCHANGED <<version, rows, owner>>

\* An equal label that is not committed yet makes the insert wait.
InsertVersion(r) ==
  /\ At(r, "insertVersion")
  /\ owner[req[r].v] = Nobody
  /\ \/ Exists(req[r].v) /\ Fail(r)
     \/ /\ ~Exists(req[r].v)
        /\ owner' = [owner EXCEPT ![req[r].v] = r]
        /\ Step(r, CASE req[r].op = "create" -> "commit"
                     [] req[r].op = "clone" -> "copy"
                     [] OTHER -> "max")
        /\ UNCHANGED <<version, rows>>

InOrder(S) == [i \in 1 .. Cardinality(S) |-> (CHOOSE x \in S : x.ordinal = i - 1).id]

CopyExamples(r) ==
  /\ At(r, "copy")
  /\ req' = [req EXCEPT ![r].batch = InOrder(rows[req[r].next]), ![r].next = 0,
                        ![r].pc = IF rows[req[r].next] = {} THEN "commit" ELSE "insert"]
  /\ UNCHANGED <<version, rows, owner>>

(***************************************************************************)
(* append_examples                                                         *)
(***************************************************************************)
NextOrdinal(v) == IF rows[v] = {} THEN 0 ELSE Max({x.ordinal : x \in rows[v]}) + 1

ReadMax(r) ==
  /\ At(r, "max")
  /\ req' = [req EXCEPT ![r].next = NextOrdinal(req[r].v), ![r].pc = "seen"]
  /\ UNCHANGED <<version, rows, owner>>

Duplicate(r) ==
  \/ \E x \in rows[req[r].v] : x.id \in ToSet(req[r].batch)
  \/ Cardinality(ToSet(req[r].batch)) < Len(req[r].batch)

\* A duplicate is an error to an appender and "already_present" to a reviewer.
ReadSeen(r) ==
  /\ At(r, "seen")
  /\ \/ Duplicate(r) /\ req[r].op # "promote" /\ Fail(r)
     \/ /\ ~Duplicate(r) \/ req[r].op = "promote"
        /\ Step(r, IF Duplicate(r) THEN "commit" ELSE "insert")
        /\ UNCHANGED <<version, rows, owner>>

NewRows(r) == {[ordinal |-> req[r].next + i - 1, id |-> req[r].batch[i]] :
                 i \in DOMAIN req[r].batch}
\* Mutant: only the external ids are unique.
BugClash(S, T) == \E x \in S, y \in T : x.id = y.id
Clash(S, T) == \E x \in S, y \in T : x.ordinal = y.ordinal \/ x.id = y.id

\* proofstep_reject_locked_example, for each row: reads the status this statement can see.
ExampleRejected(l, S) == S # {} /\ Locked(l)

\* uq_dataset_examples_ordinal and _external: wait for an uncommitted clash.  An empty
\* list inserts nothing, and nothing refuses it.
InsertExamples(r) ==
  LET v == req[r].v IN
  /\ At(r, "insert")
  /\ \A q \in Requests \ {r} : req[q].v = v => ~Clash(NewRows(r), req[q].rows)
  /\ \/ (ExampleRejected(v, NewRows(r)) \/ Clash(NewRows(r), rows[v])) /\ Fail(r)
     \/ /\ ~ExampleRejected(v, NewRows(r))
        /\ ~Clash(NewRows(r), rows[v])
        /\ req' = [req EXCEPT ![r].rows = NewRows(r), ![r].pc = "count"]
        /\ UNCHANGED <<version, rows, owner>>

\* Mutant: the trigger on dataset_versions protects the hash and not the count.
BugRelockRejected(l, hash, count) == Locked(l) /\ hash # version[l].hash
\* proofstep_reject_relock.
RelockRejected(l, hash, count) ==
  Locked(l) /\ (hash # version[l].hash \/ count # version[l].count)

NewCount(r) == req[r].next + Len(req[r].batch)

\* The UPDATE of example_count goes out with the commit's flush.
UpdateCount(r) ==
  LET v == req[r].v IN
  /\ At(r, "count")
  /\ \/ /\ NewCount(r) = req[r].held
        /\ Step(r, "commit")
        /\ UNCHANGED <<version, rows, owner>>
     \/ /\ NewCount(r) # req[r].held
        /\ owner[v] \in {Nobody, r}
        /\ \/ RelockRejected(v, version[v].hash, NewCount(r)) /\ Fail(r)
           \/ /\ ~RelockRejected(v, version[v].hash, NewCount(r))
              /\ owner' = [owner EXCEPT ![v] = r]
              /\ Step(r, "commit")
              /\ UNCHANGED <<version, rows>>

(***************************************************************************)
(* lock                                                                    *)
(***************************************************************************)
\* An empty version is refused; a locked one only has its hash compared.
Judged(r) ==
  LET v == req[r].v IN
  CASE rows[v] = {} -> "failed"
    [] rows[v] # {} /\ req[r].op = "lock" -> "lock"
    [] OTHER -> IF version[v].hash = rows[v] THEN "done" ELSE "altered"

LoadExamples(r) ==
  /\ At(r, "load")
  /\ req' = [req EXCEPT ![r].digest = rows[req[r].v], ![r].pc = Judged(r)]
  /\ UNCHANGED <<version, rows, owner>>

LockedCount(r) == Cardinality(req[r].digest)

\* The count the UPDATE leaves: it carries example_count only if the lock changed it.
CountLeft(r) ==
  IF LockedCount(r) = req[r].held THEN version[req[r].v].count ELSE LockedCount(r)

LockVersion(r) ==
  LET v == req[r].v IN
  /\ At(r, "lock")
  /\ owner[v] = Nobody
  /\ \/ RelockRejected(v, req[r].digest, CountLeft(r)) /\ Fail(r)
     \/ /\ ~RelockRejected(v, req[r].digest, CountLeft(r))
        /\ owner' = [owner EXCEPT ![v] = r]
        /\ req' = [req EXCEPT ![r].pc = "commit", ![r].next = CountLeft(r)]
        /\ UNCHANGED <<version, rows>>

(***************************************************************************)
(* The end of the transaction.                                             *)
(***************************************************************************)
\* The row a request leaves for its version.
Written(r) ==
  LET v == req[r].v IN
  IF owner[v] # r THEN version[v]
  ELSE CASE req[r].op = "lock" ->
              [status |-> "locked", hash |-> req[r].digest, count |-> req[r].next]
         [] req[r].op # "lock" /\ Exists(v) -> [version[v] EXCEPT !.count = NewCount(r)]
         [] OTHER -> [EmptyDraft EXCEPT !.count = Cardinality(req[r].rows)]

Commit(r) ==
  LET v == req[r].v IN
  /\ At(r, "commit")
  /\ version' = [version EXCEPT ![v] = Written(r)]
  /\ rows' = [rows EXCEPT ![v] = @ \cup req[r].rows]
  /\ Release(r)
  /\ req' = [req EXCEPT ![r].pc = "done", ![r].rows = {}]

\* A crash or a lost connection rolls the transaction back.
Abort(r) ==
  /\ req[r].pc \in Running
  /\ Release(r)
  /\ req' = [req EXCEPT ![r].pc = "failed", ![r].rows = {}]
  /\ UNCHANGED <<version, rows>>

Begin(r) ==
  BeginAppend(r) \/ BeginLock(r) \/ BeginCreate(r) \/ BeginClone(r) \/ BeginPromote(r)
Progress(r) ==
  \/ ChooseLabel(r) \/ InsertVersion(r) \/ CopyExamples(r)
  \/ ReadMax(r) \/ ReadSeen(r) \/ InsertExamples(r) \/ UpdateCount(r)
  \/ LoadExamples(r) \/ LockVersion(r) \/ Commit(r)
Next == \E r \in Requests : Begin(r) \/ Progress(r) \/ Abort(r)

Spec == Init /\ [][Next]_vars

\* A request that has begun is served; nothing makes one begin or abort.
FairSpec == Spec /\ \A r \in Requests : WF_vars(Progress(r))

(***************************************************************************)
(* Properties                                                              *)
(***************************************************************************)
\* Every variable stays in its range.
TypeOK ==
  /\ \A l \in Labels : /\ version[l].status \in {"none", "draft", "locked"}
                       /\ version[l].count \in Nat
                       /\ rows[l] \subseteq Row
  /\ owner \in [Labels -> Requests \cup {Nobody}]
  /\ \A r \in Requests :
       /\ req[r].pc \in Running \cup {"new", "done", "failed", "altered"}
       /\ req[r].v \in Labels
       /\ req[r].rows \subseteq Row

\* "Immutable once locked": whatever appends, promotions, clones and second locks are
\* under way when the lock commits, no later commit changes its examples, hash or count.
\* The refusal of the example_count update and the unique ordinals see to it: the trigger
\* on the examples alone reads a status that another commit may be about to change.
LockedFrozen ==
  [][\A l \in Labels : Locked(l) => rows'[l] = rows[l] /\ version'[l] = version[l]]_vars

\* The examples of a draft are numbered 0, 1, ... without a gap and no id occurs twice,
\* whichever appends ran at once.  example_count says how many they are; only an append of an
\* empty list, which inserts nothing and may still write the number it read, leaves it behind.
DraftsDense ==
  \A l \in Drafts :
    LET n == Cardinality(rows[l]) IN
    /\ {x.ordinal : x \in rows[l]} = 0 .. n - 1
    /\ Cardinality({x.id : x \in rows[l]}) = n
    /\ version[l].count <= n
    /\ <<>> \notin Batches => version[l].count = n

\* What a locked version's hash covers are its first examples, and there is at least one.
\* Its example_count is their number or, when the lock had no count to write and an append
\* was faster, the number of all its examples.
HashCoversPrefix ==
  \A l \in Existing : Locked(l) =>
    LET n == Cardinality(rows[l])
        covered == Cardinality(version[l].hash) IN
    /\ version[l].hash = {x \in rows[l] : x.ordinal < covered}
    /\ covered # 0
    /\ version[l].count <= n
    /\ <<>> \notin Batches => version[l].count \in {covered, n}

\* A digest can be recomputed: the rows it is taken over, in the order of their ordinals, are
\* dense while the version is a draft, and those it covered can be told once it is locked.
DigestSound == DraftsDense /\ HashCoversPrefix

\* "Should be impossible while the trigger holds": a locked version's examples are those
\* its hash was computed from.
HashMatches == \A l \in Existing : Locked(l) => version[l].hash = rows[l]

\* Requests that wait for each other's version rows, labels and example ids all end.
EveryRequestEnds ==
  \A r \in Requests : req[r].pc \in Running ~> req[r].pc \in {"done", "failed", "altered"}
=============================================================================
