------------------------ MODULE ExperimentRuns_proofs ------------------------
(***************************************************************************)
(* The runs of an experiment, for any number of attempts, examples,        *)
(* metrics and requests: what an upload acknowledged is stored, unless its *)
(* own commit is to come or has failed, and what a run reports is one      *)
(* whole pass over results it holds.                                       *)
(***************************************************************************)
EXTENDS ExperimentRuns, FiniteSetTheorems, WellFoundedInduction, TLAPS

Pcs == Running \cup {"new", "done", "failed", "undone"}
Statuses == {"none", "running", "cancelled"} \cup Ends
AnyMetric == [from : {"none", "client", "server"}, of : SUBSET Examples]
RequestRange ==
  [pc : Pcs, op : {"append", "open", "complete", "cancel", "submit"}, a : Attempts,
   status : Statuses \cup {"unchanged"}, loaded : Nat, chunk : Chunks \cup {<<>>},
   todo : SUBSET Examples, mine : SUBSET Examples, lost : SUBSET Examples, total : Nat, computed : SUBSET Examples,
   deletes : SUBSET Keys, offers : SUBSET Keys, puts : SUBSET Keys]

RangesOK ==
  /\ run \in [Attempts -> [status : Statuses, completed : Nat]]
  /\ results \in [Attempts -> SUBSET Examples]
  /\ metrics \in [Attempts -> [Keys -> AnyMetric]]
  /\ owner \in [Attempts -> Requests \cup {Nobody}]
  /\ req \in [Requests -> RequestRange]
  /\ \A a \in Attempts : IsFiniteSet(results[a])
  /\ \A r \in Requests : IsFiniteSet(req[r].mine)

\* Attempts are opened one after the other, and one that is not open holds nothing.
OpenedInTurn ==
  /\ 1 \in Opened
  /\ \A a \in Opened : \A b \in 1 .. a : b \in Opened
  /\ \A a \in Attempts \ Opened : results[a] = {}

Ending(r) == req[r].op \in {"complete", "cancel"}
Holds(r) == owner[req[r].a] = r
ServerKeys(a) == {k \in Keys : metrics[a][k].from = "server"}

\* What a request may have in its hands at each point of its handler.
ShapeOK(r) ==
  /\ req[r].pc \notin Running => req[r].mine = {} /\ req[r].puts = {} /\ req[r].deletes = {}
  /\ req[r].pc = "insertRun" => req[r].op = "open"
  /\ req[r].pc \in {"existing", "insert", "totals"} => req[r].op = "append"
  /\ req[r].pc \in {"status", "load", "replace", "metrics"} =>
       Ending(r) /\ req[r].puts = {} /\ (req[r].pc # "metrics" => req[r].deletes = {})
  /\ req[r].pc = "submit" => req[r].op = "submit" /\ req[r].puts = {}
  /\ req[r].op # "append" => req[r].mine = {}
  /\ req[r].op \in {"append", "open"} => req[r].puts = {}
  /\ ~Ending(r) => req[r].deletes = {}
  /\ Ending(r) /\ req[r].pc \in Running => req[r].status # "none"

\* Which requests own the row of a run, and which runs they are about.
OwnerOK(r) ==
  /\ \A a \in Attempts : owner[a] = r =>
       a = req[r].a /\ req[r].pc \in {"commit", "load", "replace", "metrics"} /\ req[r].op # "submit"
  /\ req[r].pc \in {"load", "replace", "metrics"} => Holds(r)
  /\ req[r].pc = "commit" /\ req[r].op \notin {"append", "submit"} => Holds(r)
  /\ req[r].pc \in Running /\ req[r].op # "open" => req[r].a \in Opened
  /\ req[r].pc \in Running /\ req[r].op = "open" => req[r].a - 1 \in Opened
  /\ req[r].pc = "commit" /\ req[r].op = "open" => req[r].a \notin Opened

\* An upload: each of its examples is stored, in its hands or to be inserted; the total it
\* writes counts no more than is stored once it commits, and is never zero.
UploadOK(r) ==
  LET stored == results[req[r].a] \cup req[r].mine IN
  /\ req[r].pc = "insert" => ToSet(req[r].chunk) \subseteq stored \cup req[r].todo
  /\ req[r].pc \in {"existing", "insert", "totals", "commit"} /\ req[r].op = "append" =>
       (req[r].loaded > 0 => run[req[r].a].completed > 0)
  /\ req[r].pc \in {"totals", "commit"} /\ req[r].op = "append" =>
       /\ ToSet(req[r].chunk) \subseteq stored
       /\ req[r].total <= Cardinality(stored)
       /\ req[r].mine # {} \/ req[r].total # req[r].loaded => req[r].total > 0
       /\ req[r].pc = "totals" \/ Holds(r) <=> req[r].total # req[r].loaded
  /\ req[r].pc = "done" /\ req[r].op = "append" => ToSet(req[r].chunk) \subseteq stored
  /\ req[r].pc = "undone" /\ req[r].op = "append" =>
       ToSet(req[r].chunk) \subseteq stored \cup req[r].lost

\* Metrics on their way: a pass covers stored results, has deleted what the server computed
\* before, and what a request puts meets no metric that stays.
MetricsOK(r) ==
  LET a == req[r].a IN
  /\ req[r].pc \in {"replace", "metrics", "commit"} /\ Ending(r) =>
       req[r].computed \subseteq results[a]
  /\ req[r].pc \in {"metrics", "commit"} /\ Ending(r) => ServerKeys(a) \subseteq req[r].deletes
  /\ req[r].pc = "commit" /\ Ending(r) => req[r].puts = KeysOf(req[r].computed)
  /\ req[r].puts \cap (Stored(a) \ req[r].deletes) = {}

RequestOK(r) == ShapeOK(r) /\ OwnerOK(r) /\ UploadOK(r) /\ MetricsOK(r)

\* No two requests have the same metric of a run in their hands.
HandsApart ==
  \A r, q \in Requests :
    r # q /\ req[r].a = req[q].a => req[r].puts \cap (req[q].puts \cup req[q].deletes) = {}

IInv ==
  /\ RangesOK
  /\ OpenedInTurn
  /\ \A r \in Requests : RequestOK(r)
  /\ HandsApart
  /\ AggregatesWhole
  /\ TotalsHonest

-----------------------------------------------------------------------------
(* A step of one request that commits nothing.                              *)
LEMMA FreshInRange == Fresh \in RequestRange /\ Fresh.mine = {}
BY AttemptAssumption DEF Fresh, RequestRange, Pcs, Statuses, Attempts

\* The tables stay, so the other requests keep what they know of them.
LEMMA Frame ==
  ASSUME IInv, NEW r \in Requests, UNCHANGED <<run, results, metrics>>,
         \A q \in Requests \ {r} : req'[q] = req[q],
         \A a \in Attempts : owner'[a] = owner[a] \/ {owner[a], owner'[a]} \subseteq {r, Nobody},
         RangesOK', RequestOK(r)',
         \A q \in Requests \ {r} : req[q].a = req'[r].a =>
           /\ req'[r].puts \cap (req[q].puts \cup req[q].deletes) = {}
           /\ req[q].puts \cap req'[r].deletes = {}
  PROVE  IInv'
<1>1. OpenedInTurn' /\ AggregatesWhole' /\ TotalsHonest'
  BY DEF IInv, OpenedInTurn, Opened, AggregatesWhole, TotalsHonest
<1>2. HandsApart'
  BY DEF IInv, HandsApart
<1>3. ASSUME NEW q \in Requests \ {r} PROVE RequestOK(q)'
  <2>1. RequestOK(q) /\ req[q].a \in Attempts /\ q # Nobody
    BY AttemptAssumption DEF IInv, RangesOK, RequestRange
  <2>2. \A a \in Attempts : owner'[a] = q <=> owner[a] = q
    BY <2>1
  <2>3. ShapeOK(q)'
    BY <2>1 DEF RequestOK, ShapeOK, Ending
  <2>4. OwnerOK(q)'
    BY <2>1, <2>2 DEF RequestOK, OwnerOK, Holds, Opened
  <2>5. UploadOK(q)'
    BY <2>1, <2>2 DEF RequestOK, UploadOK, Holds
  <2>6. MetricsOK(q)'
    BY <2>1 DEF RequestOK, MetricsOK, Ending, ServerKeys, Stored
  <2> QED BY <2>3, <2>4, <2>5, <2>6 DEF RequestOK
<1> QED BY <1>1, <1>2, <1>3 DEF IInv

\* What a step makes of one request leaves the variables in their ranges.
LEMMA Replaced ==
  ASSUME RangesOK, NEW r \in Requests, NEW s \in RequestRange, IsFiniteSet(s.mine),
         req' = [req EXCEPT ![r] = s], UNCHANGED <<run, results, metrics>>,
         owner' \in [Attempts -> Requests \cup {Nobody}]
  PROVE  RangesOK' /\ req'[r] = s /\ \A q \in Requests \ {r} : req'[q] = req[q]
<1>1. req'[r] = s /\ \A q \in Requests \ {r} : req'[q] = req[q]
  BY DEF RangesOK
<1>2. \A q \in Requests : IsFiniteSet(req'[q].mine)
  BY <1>1 DEF RangesOK
<1> QED BY <1>1, <1>2 DEF RangesOK

\* A request that fails has nothing in its hands.
LEMMA FailOK ==
  ASSUME IInv, NEW r \in Requests, Fail(r)
  PROVE  IInv'
<1>1. PICK s : s = [Fresh EXCEPT !.pc = "failed"]
  OBVIOUS
<1>2. s \in RequestRange /\ s.mine = {} /\ s.puts = {} /\ s.deletes = {} /\ s.pc = "failed"
      /\ s.op = "append" /\ s.a \in Attempts
  BY <1>1, FreshInRange DEF Fresh, RequestRange, Pcs
<1>3. owner' \in [Attempts -> Requests \cup {Nobody}]
  BY DEF IInv, RangesOK, Fail, Release
<1>4. RangesOK' /\ req'[r] = s /\ \A q \in Requests \ {r} : req'[q] = req[q]
  <2>1. req' = [req EXCEPT ![r] = s] /\ UNCHANGED <<run, results, metrics>>
    BY <1>1 DEF Fail
  <2>2. RangesOK /\ IsFiniteSet(s.mine)
    BY <1>2, FS_EmptySet DEF IInv
  <2> QED BY <1>2, <1>3, <2>1, <2>2, Replaced
<1>5. \A a \in Attempts : owner'[a] # r /\ (owner'[a] = owner[a] \/ {owner[a], owner'[a]} \subseteq {r, Nobody})
  BY AttemptAssumption DEF Fail, Release
<1>6. RequestOK(r)'
  <2>1. ShapeOK(r)' /\ MetricsOK(r)'
    BY <1>2, <1>4 DEF ShapeOK, MetricsOK, Ending, Running
  <2>2. OwnerOK(r)' /\ UploadOK(r)'
    BY <1>2, <1>4, <1>5 DEF OwnerOK, UploadOK, Holds, Running
  <2> QED BY <2>1, <2>2 DEF RequestOK
<1> QED BY <1>2, <1>4, <1>5, <1>6, Frame DEF Fail

\* What an answered upload loses when its commit fails is what it had inserted.
LEMMA CommitFailsOK ==
  ASSUME IInv, NEW r \in Requests, CommitFails(r)
  PROVE  IInv'
<1> DEFINE a == req[r].a
<1>1. RequestOK(r) /\ req[r] \in RequestRange /\ req[r].pc = "commit" /\ RangesOK
  BY DEF IInv, RangesOK, CommitFails, At
<1>2. PICK s : s = [Fresh EXCEPT !.pc = "undone", !.op = req[r].op, !.a = a,
                                 !.chunk = req[r].chunk, !.lost = req[r].mine]
  OBVIOUS
<1>3. s \in RequestRange /\ s.mine = {} /\ s.puts = {} /\ s.deletes = {} /\ s.pc = "undone"
      /\ s.op = req[r].op /\ s.a = a /\ s.chunk = req[r].chunk /\ s.lost = req[r].mine
  BY <1>1, <1>2, FreshInRange DEF Fresh, RequestRange, Pcs
<1>4. owner' \in [Attempts -> Requests \cup {Nobody}]
  BY <1>1 DEF RangesOK, CommitFails, Release
<1>5. RangesOK' /\ req'[r] = s /\ \A q \in Requests \ {r} : req'[q] = req[q]
  <2>1. req' = [req EXCEPT ![r] = s] /\ UNCHANGED <<run, results, metrics>>
    BY <1>2 DEF CommitFails
  <2>2. IsFiniteSet(s.mine)
    BY <1>3, FS_EmptySet
  <2> QED BY <1>1, <1>3, <1>4, <2>1, <2>2, Replaced
<1>6. \A b \in Attempts : owner'[b] # r /\ (owner'[b] = owner[b] \/ {owner[b], owner'[b]} \subseteq {r, Nobody})
  BY AttemptAssumption DEF CommitFails, Release
<1>7. ShapeOK(r)' /\ MetricsOK(r)'
  BY <1>3, <1>5 DEF ShapeOK, MetricsOK, Ending, Running
<1>8. OwnerOK(r)'
  BY <1>3, <1>5, <1>6 DEF OwnerOK, Holds, Running
<1>9. UploadOK(r)'
  <2>1. req[r].op = "append" => ToSet(req[r].chunk) \subseteq results[a] \cup req[r].mine
    BY <1>1 DEF RequestOK, UploadOK
  <2> QED BY <1>3, <1>5, <2>1 DEF UploadOK, CommitFails
<1>10. RequestOK(r)'
  BY <1>7, <1>8, <1>9 DEF RequestOK
<1> QED BY <1>3, <1>5, <1>6, <1>10, Frame DEF CommitFails

\* A step that only changes what the request knows.
LEMMA Quiet ==
  ASSUME IInv, NEW r \in Requests, NEW s \in RequestRange, IsFiniteSet(s.mine), Local(r, s)
  PROVE  /\ RangesOK' /\ req'[r] = s /\ \A q \in Requests \ {r} : req'[q] = req[q]
         /\ UNCHANGED <<run, results, metrics, owner>>
<1>1. owner' \in [Attempts -> Requests \cup {Nobody}] /\ RangesOK
  BY DEF Local, IInv, RangesOK
<1> QED BY <1>1, Replaced DEF Local

\* A step that takes the row of the run and moves on.
LEMMA Locking ==
  ASSUME IInv, NEW r \in Requests, NEW pc \in {"commit", "load"}, LockRun(r, pc)
  PROVE  /\ RangesOK' /\ UNCHANGED <<run, results, metrics>>
         /\ req'[r] = [req[r] EXCEPT !.pc = pc] /\ \A q \in Requests \ {r} : req'[q] = req[q]
         /\ owner[req[r].a] = Nobody /\ owner' = [owner EXCEPT ![req[r].a] = r]
         /\ \A a \in Attempts : owner'[a] = owner[a] \/ {owner[a], owner'[a]} \subseteq {r, Nobody}
<1>1. PICK s : s = [req[r] EXCEPT !.pc = pc]
  OBVIOUS
<1>2. req[r] \in RequestRange /\ IsFiniteSet(req[r].mine)
  BY DEF IInv, RangesOK
<1>3. s \in RequestRange /\ s.mine = req[r].mine
  BY <1>1, <1>2 DEF RequestRange, Pcs, Running
<1>4. owner' \in [Attempts -> Requests \cup {Nobody}]
  BY DEF IInv, RangesOK, LockRun
<1>5. req' = [req EXCEPT ![r] = s] /\ RangesOK
  BY <1>1 DEF LockRun, IInv
<1>6. RangesOK' /\ req'[r] = s /\ \A q \in Requests \ {r} : req'[q] = req[q]
  <2>1. UNCHANGED <<run, results, metrics>> /\ IsFiniteSet(s.mine)
    BY <1>2, <1>3 DEF LockRun
  <2> QED BY <1>3, <1>4, <1>5, <2>1, Replaced
<1>7. \A a \in Attempts : owner'[a] = owner[a] \/ {owner[a], owner'[a]} \subseteq {r, Nobody}
  BY DEF IInv, RangesOK, LockRun
<1> QED BY <1>1, <1>6, <1>7 DEF LockRun

-----------------------------------------------------------------------------
(* The first step of each operation.                                        *)
\* A request that has begun an operation on a run that is open, and has nothing yet.
LEMMA Begun ==
  ASSUME IInv, NEW r \in Requests, req[r].pc = "new", NEW s \in RequestRange, Local(r, s),
         s.mine = {}, s.puts = {}, s.deletes = {},
         \/ s.pc = "insertRun" /\ s.op = "open" /\ s.a - 1 \in Opened
         \/ s.a \in Opened /\ \/ s.pc = "existing" /\ s.op = "append" /\ s.loaded = run[s.a].completed
                              \/ s.pc = "status" /\ s.op \in {"complete", "cancel"} /\ s.status # "none"
                              \/ s.pc = "submit" /\ s.op = "submit"
  PROVE  IInv'
<1>1. /\ RangesOK' /\ req'[r] = s /\ \A q \in Requests \ {r} : req'[q] = req[q]
      /\ UNCHANGED <<run, results, metrics, owner>>
  BY Quiet, FS_EmptySet
<1>2. \A a \in Attempts : owner[a] # r
  BY DEF IInv, RequestOK, OwnerOK
<1>3. RequestOK(r)'
  <2>1. ShapeOK(r)' /\ MetricsOK(r)'
    BY <1>1 DEF ShapeOK, MetricsOK, Ending, Running
  <2>2. OwnerOK(r)'
    BY <1>1, <1>2 DEF OwnerOK, Holds, Running, Opened
  <2>3. UploadOK(r)'
    BY <1>1 DEF UploadOK
  <2> QED BY <2>1, <2>2, <2>3 DEF RequestOK
<1> QED BY <1>1, <1>3, Frame

\* Attempts are opened in turn, so the next one is there as long as fewer are open.
LEMMA NextAttemptThere ==
  ASSUME RangesOK, OpenedInTurn, Cardinality(Opened) < MaxAttempts
  PROVE  \E last \in Opened : /\ last = CHOOSE a \in Opened : \A b \in Opened : b <= a
                             /\ last + 1 \in Attempts
<1>1. Opened \in SUBSET Int /\ IsFiniteSet(Opened) /\ Opened # {} /\ Opened \subseteq Attempts
  <2>1. IsFiniteSet(Attempts) /\ Attempts \subseteq Int
    BY AttemptAssumption, FS_Interval DEF Attempts
  <2>2. Opened \subseteq Attempts /\ 1 \in Opened
    BY DEF OpenedInTurn, Opened
  <2> QED BY <2>1, <2>2, FS_Subset
<1>2. \E a \in Opened : \A b \in Opened : b <= a
  <2> DEFINE Above(a) == {b \in Opened : a < b}
             Family == {Above(a) : a \in Opened}
  <2>1. Family \in SUBSET FiniteSubsetsOf(Opened) /\ Family # {}
    <3>1. ASSUME NEW a \in Opened PROVE Above(a) \in SUBSET Opened /\ IsFiniteSet(Above(a))
      <4>1. Above(a) \in SUBSET Opened
        OBVIOUS
      <4> HIDE DEF Above
      <4> QED BY <1>1, <4>1, FS_Subset
    <3> HIDE DEF Above
    <3> QED BY <1>1, <3>1 DEF FiniteSubsetsOf
  <2>2. PICK a \in Opened : \A b \in Opened : <<Above(b), Above(a)>> \notin StrictSubsetOrdering(Opened)
    <3>1. \E A \in Family : \A B \in Family : <<B, A>> \notin StrictSubsetOrdering(Opened)
      <4> HIDE DEF Family
      <4> QED BY <2>1, FS_StrictSubsetOrderingWellFounded, WFMin
    <3> QED BY <3>1
  <2>3. ASSUME NEW b \in Opened, a < b PROVE FALSE
    <3>1. Above(b) \subseteq Above(a) /\ b \in Above(a) /\ b \notin Above(b)
      <4>1. \A z \in Opened : z \in Int
        BY <1>1
      <4> QED BY <4>1, <2>3
    <3> QED BY <2>2, <3>1 DEF StrictSubsetOrdering
  <2> QED BY <1>1, <2>3
<1>3. PICK last : last = CHOOSE a \in Opened : \A b \in Opened : b <= a
  OBVIOUS
<1>4. last \in Opened
  BY <1>2, <1>3
<1>5. last # MaxAttempts
  <2> SUFFICES ASSUME last = MaxAttempts PROVE FALSE
    OBVIOUS
  <2>1. Opened = 1 .. MaxAttempts
    BY <1>1, <1>4 DEF OpenedInTurn, Attempts
  <2>2. Cardinality(1 .. MaxAttempts) = MaxAttempts
    BY AttemptAssumption, FS_Interval
  <2> QED BY <2>1, <2>2, AttemptAssumption
<1>6. last + 1 \in Attempts
  BY <1>1, <1>4, <1>5, AttemptAssumption DEF Attempts
<1> QED BY <1>3, <1>4, <1>6

\* Opening a run, uploading, completing, cancelling and submitting begin as they should.
LEMMA BeginNext ==
  ASSUME IInv, NEW r \in Requests, Begin(r)
  PROVE  IInv'
<1>0. \A a \in Opened : a \in Attempts /\ run[a].completed \in Nat /\ run[a].status \in Statuses
  BY DEF Opened, IInv, RangesOK
<1>1. CASE BeginOpen(r)
  <2>1. PICK s : s = [Fresh EXCEPT !.pc = "insertRun", !.op = "open",
                             !.a = NextAttempt(CHOOSE a \in Opened : \A b \in Opened : b <= a)]
    OBVIOUS
  <2>2. PICK last \in Opened : s = [Fresh EXCEPT !.pc = "insertRun", !.op = "open", !.a = last + 1]
                               /\ last + 1 \in Attempts
    BY <1>1, <2>1, NextAttemptThere DEF IInv, BeginOpen, NextAttempt
  <2>3. s \in RequestRange /\ s.mine = {} /\ s.puts = {} /\ s.deletes = {} /\ s.pc = "insertRun"
        /\ s.op = "open" /\ s.a - 1 = last
    <3>1. last \in Int
      BY <1>0, AttemptAssumption DEF Attempts
    <3>2. s.a = last + 1
      BY <2>2 DEF Fresh
    <3>3. s \in RequestRange
      BY <2>2, FreshInRange DEF Fresh, RequestRange, Pcs, Running
    <3>4. s.mine = {} /\ s.puts = {} /\ s.deletes = {} /\ s.pc = "insertRun" /\ s.op = "open"
      BY <2>2 DEF Fresh
    <3>5. s.a - 1 = last
      BY <3>1, <3>2
    <3> QED BY <3>3, <3>4, <3>5
  <2>4. Local(r, s) /\ req[r].pc = "new"
    BY <1>1, <2>1 DEF BeginOpen, At
  <2> QED BY <2>3, <2>4, Begun
<1>2. CASE BeginAppend(r)
  <2>1. PICK a \in Opened, chunk \in Chunks :
          /\ req[r].pc = "new"
          /\ \/ Fail(r)
             \/ Local(r, [Fresh EXCEPT !.pc = "existing", !.a = a, !.chunk = chunk,
                                       !.loaded = run[a].completed])
    BY <1>2 DEF BeginAppend, At
  <2>2. PICK s : s = [Fresh EXCEPT !.pc = "existing", !.a = a, !.chunk = chunk,
                                   !.loaded = run[a].completed]
    OBVIOUS
  <2>3. s \in RequestRange /\ s.mine = {} /\ s.puts = {} /\ s.deletes = {} /\ s.pc = "existing"
        /\ s.op = "append" /\ s.a = a /\ s.loaded = run[a].completed
    BY <1>0, <2>2, FreshInRange DEF Fresh, RequestRange, Pcs, Running
  <2> QED BY <2>1, <2>2, <2>3, Begun, FailOK
<1>3. ASSUME NEW a \in Opened, NEW op \in {"complete", "cancel"}, NEW status \in Ends \cup {"cancelled"},
             BeginEnd(r, a, op, status)
      PROVE  IInv'
  <2>1. PICK s : s = [Fresh EXCEPT !.pc = "status", !.op = op, !.a = a,
                             !.status = IF status = run[a].status THEN "unchanged" ELSE status]
    OBVIOUS
  <2>2. s \in RequestRange /\ s.mine = {} /\ s.puts = {} /\ s.deletes = {} /\ s.pc = "status"
        /\ s.op \in {"complete", "cancel"} /\ s.a = a /\ s.status # "none"
    BY <1>0, <2>1, FreshInRange, EndAssumption, ZenonT(40) DEF Fresh, RequestRange, Pcs, Running, Statuses
  <2> QED BY <1>3, <2>1, <2>2, Begun, ZenonT(40) DEF BeginEnd, At
<1>4. CASE BeginSubmit(r)
  <2>1. PICK a \in Opened, wanted \in Submitted :
          /\ req[r].pc = "new"
          /\ Local(r, [Fresh EXCEPT !.pc = "submit", !.op = "submit", !.a = a, !.offers = wanted])
    BY <1>4 DEF BeginSubmit, At
  <2>2. PICK s : s = [Fresh EXCEPT !.pc = "submit", !.op = "submit", !.a = a, !.offers = wanted]
    OBVIOUS
  <2>3. s \in RequestRange /\ s.mine = {} /\ s.puts = {} /\ s.deletes = {} /\ s.pc = "submit"
        /\ s.op = "submit" /\ s.a = a
    <3>1. wanted \subseteq Keys
      BY DEF Keys
    <3> QED BY <1>0, <2>2, <3>1, FreshInRange DEF Fresh, RequestRange, Pcs, Running
  <2> QED BY <2>1, <2>2, <2>3, Begun
<1> QED BY <1>1, <1>2, <1>3, <1>4, FailOK DEF Begin, BeginComplete, BeginCancel

-----------------------------------------------------------------------------
(* The statements of an upload, and the row of a new run.                   *)
\* What is stored and what a request has inserted are finitely many examples.
LEMMA StoredFinite ==
  ASSUME RangesOK, NEW r \in Requests
  PROVE  LET stored == results[req[r].a] \cup req[r].mine IN
         /\ IsFiniteSet(stored) /\ Cardinality(stored) \in Nat
         /\ (Cardinality(stored) = 0 <=> stored = {})
BY FS_Union, FS_EmptySet, FS_CardinalityType DEF RangesOK, RequestRange

\* A run is opened under a number nobody else has opened.
LEMMA InsertRunNext ==
  ASSUME IInv, NEW r \in Requests, InsertRun(r)
  PROVE  IInv'
<1>1. CASE Fail(r)
  BY <1>1, FailOK
<1>2. CASE req[r].a \notin Opened /\ LockRun(r, "commit")
  <2>1. /\ RangesOK' /\ UNCHANGED <<run, results, metrics>>
        /\ req'[r] = [req[r] EXCEPT !.pc = "commit"] /\ \A q \in Requests \ {r} : req'[q] = req[q]
        /\ owner[req[r].a] = Nobody /\ owner' = [owner EXCEPT ![req[r].a] = r]
        /\ \A a \in Attempts : owner'[a] = owner[a] \/ {owner[a], owner'[a]} \subseteq {r, Nobody}
    BY <1>2, Locking
  <2>2. RequestOK(r) /\ req[r] \in RequestRange /\ req[r].pc = "insertRun" /\ owner \in [Attempts -> Requests \cup {Nobody}]
    BY DEF IInv, RangesOK, InsertRun, At
  <2>3. req'[r] \in RequestRange /\ req'[r].pc = "commit" /\ req'[r].a = req[r].a /\ req'[r].op = "open"
        /\ req'[r].mine = {} /\ req'[r].puts = {} /\ req'[r].deletes = {}
    BY <2>1, <2>2 DEF RequestOK, ShapeOK, RequestRange, Pcs, Running, Ending
  <2>4. ShapeOK(r)' /\ MetricsOK(r)' /\ UploadOK(r)'
    BY <2>3 DEF ShapeOK, MetricsOK, UploadOK, Ending, Running
  <2>5. OwnerOK(r)'
    <3>1. owner'[req[r].a] = r /\ \A a \in Attempts : owner'[a] = r => a = req[r].a
      BY <2>1, <2>2 DEF RequestOK, OwnerOK, RequestRange
    <3> QED BY <1>2, <2>1, <2>2, <2>3, <3>1 DEF RequestOK, OwnerOK, Holds, Opened, Running
  <2>6. RequestOK(r)'
    BY <2>4, <2>5 DEF RequestOK
  <2> QED BY <2>1, <2>3, <2>6, Frame
<1> QED BY <1>1, <1>2 DEF InsertRun

\* What is left to insert is what the request could not see.
LEMMA ReadExistingNext ==
  ASSUME IInv, NEW r \in Requests, ReadExisting(r)
  PROVE  IInv'
<1> DEFINE left == {e \in ToSet(req[r].chunk) : ~Existing(r, e)}
<1>1. RequestOK(r) /\ req[r] \in RequestRange /\ IsFiniteSet(req[r].mine) /\ req[r].pc = "existing"
  BY DEF IInv, RangesOK, ReadExisting, At
<1>2. left \subseteq Examples
  BY <1>1 DEF RequestRange, Examples, ToSet
<1>3. PICK s : s = [req[r] EXCEPT !.pc = "insert", !.todo = left]
  OBVIOUS
<1>4. Local(r, s)
  BY <1>3 DEF ReadExisting
<1>5. ToSet(req[r].chunk) \subseteq results[req[r].a] \cup req[r].mine \cup left
  BY DEF Existing
<1> HIDE DEF left
<1>6. s \in RequestRange /\ s.pc = "insert" /\ s.op = "append" /\ s.a = req[r].a
      /\ s.mine = req[r].mine /\ s.puts = {} /\ s.deletes = {} /\ s.loaded = req[r].loaded
      /\ s.chunk = req[r].chunk /\ s.todo = left
  BY <1>1, <1>2, <1>3 DEF RequestRange, RequestOK, ShapeOK, Pcs, Running, Ending
<1>7. /\ RangesOK' /\ req'[r] = s /\ \A q \in Requests \ {r} : req'[q] = req[q]
      /\ UNCHANGED <<run, results, metrics, owner>>
  BY <1>1, <1>4, <1>6, Quiet
<1>8. ShapeOK(r)' /\ MetricsOK(r)'
  BY <1>6, <1>7 DEF ShapeOK, MetricsOK, Ending, Running
<1>9. OwnerOK(r)'
  BY <1>1, <1>6, <1>7 DEF RequestOK, ShapeOK, OwnerOK, Holds, Opened, Running
<1>10. UploadOK(r)'
  BY <1>1, <1>5, <1>6, <1>7 DEF RequestOK, ShapeOK, UploadOK
<1>11. RequestOK(r)'
  BY <1>8, <1>9, <1>10 DEF RequestOK
<1> QED BY <1>6, <1>7, <1>11, Frame

\* An example that was to be inserted is in the request's hands.
LEMMA InsertResultNext ==
  ASSUME IInv, NEW r \in Requests, InsertResult(r)
  PROVE  IInv'
<1>1. RequestOK(r) /\ req[r] \in RequestRange /\ IsFiniteSet(req[r].mine) /\ req[r].pc = "insert"
  BY DEF IInv, RangesOK, InsertResult, At
<1>2. PICK e \in req[r].todo :
        Fail(r) \/ Local(r, [req[r] EXCEPT !.mine = @ \cup {e}, !.todo = @ \ {e}])
  BY DEF InsertResult
<1>3. PICK s : s = [req[r] EXCEPT !.mine = @ \cup {e}, !.todo = @ \ {e}]
  OBVIOUS
<1>4. s \in RequestRange /\ s.pc = "insert" /\ s.op = "append" /\ s.a = req[r].a
      /\ s.mine = req[r].mine \cup {e} /\ s.puts = {} /\ s.deletes = {} /\ s.loaded = req[r].loaded
      /\ s.chunk = req[r].chunk /\ s.todo = req[r].todo \ {e}
  BY <1>1, <1>3 DEF RequestRange, RequestOK, ShapeOK, Ending
<1>5. IsFiniteSet(s.mine)
  BY <1>1, <1>4, FS_AddElement
<1>6. CASE Local(r, s)
  <2>1. /\ RangesOK' /\ req'[r] = s /\ \A q \in Requests \ {r} : req'[q] = req[q]
        /\ UNCHANGED <<run, results, metrics, owner>>
    BY <1>4, <1>5, <1>6, Quiet
  <2>2. ShapeOK(r)' /\ MetricsOK(r)'
    BY <1>4, <2>1 DEF ShapeOK, MetricsOK, Ending, Running
  <2>3. OwnerOK(r)'
    BY <1>1, <1>4, <2>1 DEF RequestOK, ShapeOK, OwnerOK, Holds, Opened, Running
  <2>4. UploadOK(r)'
    BY <1>1, <1>4, <2>1 DEF RequestOK, ShapeOK, UploadOK
  <2>5. RequestOK(r)'
    BY <2>2, <2>3, <2>4 DEF RequestOK
  <2> QED BY <1>4, <2>1, <2>5, Frame
<1> QED BY <1>2, <1>3, <1>6, FailOK

\* The total a request computes counts what it can see; it is written unless it was loaded.
LEMMA RefreshTotalsNext ==
  ASSUME IInv, NEW r \in Requests, RefreshTotals(r)
  PROVE  IInv'
<1> DEFINE stored == results[req[r].a] \cup req[r].mine
<1>1. RequestOK(r) /\ req[r] \in RequestRange /\ IsFiniteSet(req[r].mine) /\ req[r].pc = "insert"
      /\ req[r].todo = {}
  BY DEF IInv, RangesOK, RefreshTotals, At
<1>2. /\ Total(r) = Cardinality(stored) /\ Total(r) \in Nat /\ (Total(r) = 0 <=> stored = {})
  BY StoredFinite DEF IInv, Total
<1>3. Total(r) # req[r].loaded => Total(r) > 0
  <2>1. results[req[r].a] = {} => run[req[r].a].completed = 0
    <3>1. req[r].a \in Attempts /\ run[req[r].a].completed \in Nat
      BY <1>1 DEF IInv, RangesOK, RequestRange
    <3>2. run[req[r].a].completed <= Cardinality(results[req[r].a]) /\ Cardinality({}) = 0
      BY <3>1, FS_EmptySet DEF IInv, TotalsHonest
    <3> QED BY <3>1, <3>2
  <2>2. req[r].loaded > 0 => run[req[r].a].completed > 0
    BY <1>1 DEF RequestOK, ShapeOK, UploadOK
  <2>3. req[r].loaded \in Nat
    BY <1>1 DEF RequestRange
  <2> QED BY <1>2, <2>1, <2>2, <2>3
<1>4. PICK s : s = [req[r] EXCEPT !.total = Total(r),
                             !.pc = IF Total(r) = req[r].loaded THEN "commit" ELSE "totals"]
  OBVIOUS
<1>5. Local(r, s)
  BY <1>4 DEF RefreshTotals
<1>6. s \in RequestRange /\ s.pc = (IF Total(r) = req[r].loaded THEN "commit" ELSE "totals")
      /\ s.op = "append" /\ s.a = req[r].a
      /\ s.mine = req[r].mine /\ s.puts = {} /\ s.deletes = {} /\ s.loaded = req[r].loaded
      /\ s.chunk = req[r].chunk /\ s.total = Total(r)
  BY <1>1, <1>2, <1>4 DEF RequestRange, RequestOK, ShapeOK, Pcs, Running, Ending
<1>7. /\ RangesOK' /\ req'[r] = s /\ \A q \in Requests \ {r} : req'[q] = req[q]
      /\ UNCHANGED <<run, results, metrics, owner>>
  BY <1>1, <1>5, <1>6, Quiet
<1>8. owner[req[r].a] # r
  BY <1>1 DEF RequestOK, OwnerOK, RequestRange
<1>9. ShapeOK(r)' /\ MetricsOK(r)'
  BY <1>6, <1>7 DEF ShapeOK, MetricsOK, Ending, Running
<1>10. OwnerOK(r)'
  BY <1>1, <1>6, <1>7 DEF RequestOK, ShapeOK, OwnerOK, Holds, Opened, Running
<1>11. UploadOK(r)'
  <2>1. ToSet(req[r].chunk) \subseteq stored
    BY <1>1 DEF RequestOK, UploadOK
  <2>2. req[r].loaded > 0 => run[req[r].a].completed > 0
    BY <1>1 DEF RequestOK, ShapeOK, UploadOK
  <2>3. (results[req[r].a] \cup req[r].mine)' = stored
    BY <1>6, <1>7
  <2> HIDE DEF stored
  <2>4. Total(r) <= Cardinality(stored)
    BY <1>2
  <2>5. req[r].mine # {} => Total(r) > 0
    BY <1>2 DEF stored
  <2> QED BY <1>3, <1>6, <1>7, <1>8, <2>1, <2>2, <2>3, <2>4, <2>5 DEF UploadOK, Holds
<1>12. RequestOK(r)'
  BY <1>9, <1>10, <1>11 DEF RequestOK
<1> QED BY <1>6, <1>7, <1>12, Frame

\* The row is locked by an upload only to write a total that it did not load.
LEMMA UpdateTotalsNext ==
  ASSUME IInv, NEW r \in Requests, UpdateTotals(r)
  PROVE  IInv'
<1>1. /\ RangesOK' /\ UNCHANGED <<run, results, metrics>>
      /\ req'[r] = [req[r] EXCEPT !.pc = "commit"] /\ \A q \in Requests \ {r} : req'[q] = req[q]
      /\ owner[req[r].a] = Nobody /\ owner' = [owner EXCEPT ![req[r].a] = r]
      /\ \A a \in Attempts : owner'[a] = owner[a] \/ {owner[a], owner'[a]} \subseteq {r, Nobody}
  BY Locking DEF UpdateTotals
<1>2. RequestOK(r) /\ req[r] \in RequestRange /\ req[r].pc = "totals"
      /\ owner \in [Attempts -> Requests \cup {Nobody}]
  BY DEF IInv, RangesOK, UpdateTotals, At
<1>3. req'[r].pc = "commit" /\ req'[r].op = "append" /\ req'[r].a = req[r].a
      /\ req'[r].mine = req[r].mine /\ req'[r].puts = {} /\ req'[r].deletes = {}
      /\ req'[r].loaded = req[r].loaded /\ req'[r].chunk = req[r].chunk /\ req'[r].total = req[r].total
  BY <1>1, <1>2 DEF RequestOK, ShapeOK, RequestRange, Ending
<1>4. owner'[req[r].a] = r /\ \A a \in Attempts : owner'[a] = r => a = req[r].a
  BY <1>1, <1>2 DEF RequestOK, OwnerOK, RequestRange
<1>5. ShapeOK(r)' /\ MetricsOK(r)'
  BY <1>3 DEF ShapeOK, MetricsOK, Ending, Running
<1>6. OwnerOK(r)'
  BY <1>1, <1>2, <1>3, <1>4 DEF RequestOK, ShapeOK, OwnerOK, Holds, Opened, Running
<1>7. UploadOK(r)'
  <2>1. (results[req[r].a] \cup req[r].mine)' = results[req[r].a] \cup req[r].mine
    BY <1>1, <1>3
  <2> QED BY <1>1, <1>2, <1>3, <1>4, <2>1 DEF RequestOK, ShapeOK, UploadOK, Holds
<1>8. RequestOK(r)'
  BY <1>5, <1>6, <1>7 DEF RequestOK
<1> QED BY <1>1, <1>3, <1>8, Frame

-----------------------------------------------------------------------------
(* The statements of a completion and of a submission.                      *)
\* From here on a completion or a cancellation holds the run's row.
LEMMA UpdateStatusNext ==
  ASSUME IInv, NEW r \in Requests, UpdateStatus(r)
  PROVE  IInv'
<1>1. /\ RangesOK' /\ UNCHANGED <<run, results, metrics>>
      /\ req'[r] = [req[r] EXCEPT !.pc = "load"] /\ \A q \in Requests \ {r} : req'[q] = req[q]
      /\ owner[req[r].a] = Nobody /\ owner' = [owner EXCEPT ![req[r].a] = r]
      /\ \A a \in Attempts : owner'[a] = owner[a] \/ {owner[a], owner'[a]} \subseteq {r, Nobody}
  BY Locking DEF UpdateStatus
<1>2. RequestOK(r) /\ req[r] \in RequestRange /\ req[r].pc = "status"
      /\ owner \in [Attempts -> Requests \cup {Nobody}]
  BY DEF IInv, RangesOK, UpdateStatus, At
<1>3. req'[r].pc = "load" /\ req'[r].op = req[r].op /\ req[r].op \in {"complete", "cancel"}
      /\ req'[r].a = req[r].a /\ req'[r].mine = {} /\ req'[r].puts = {} /\ req'[r].deletes = {}
      /\ req'[r].status = req[r].status /\ req[r].status # "none"
  BY <1>1, <1>2 DEF RequestOK, ShapeOK, RequestRange, Ending, Running
<1>4. owner'[req[r].a] = r /\ \A a \in Attempts : owner'[a] = r => a = req[r].a
  BY <1>1, <1>2 DEF RequestOK, OwnerOK, RequestRange
<1>5. ShapeOK(r)' /\ MetricsOK(r)'
  BY <1>3 DEF ShapeOK, MetricsOK, Ending, Running
<1>6. OwnerOK(r)'
  BY <1>1, <1>2, <1>3, <1>4 DEF RequestOK, OwnerOK, Holds, Opened, Running
<1>7. UploadOK(r)'
  BY <1>3 DEF UploadOK
<1>8. RequestOK(r)'
  BY <1>5, <1>6, <1>7 DEF RequestOK
<1> QED BY <1>1, <1>3, <1>8, Frame

\* A statement of the holder of a row that changes what it has computed, deleted or put.
LEMMA HolderStep ==
  ASSUME IInv, NEW r \in Requests, NEW s \in RequestRange, Local(r, s), Ending(r),
         req[r].pc \in {"load", "replace", "metrics"}, s.pc \in {"replace", "metrics", "commit"},
         s.op = req[r].op, s.a = req[r].a, s.status = req[r].status, s.mine = {},
         s.pc # "commit" => s.puts = {},
         s.pc = "replace" => s.deletes = {},
         s.computed \subseteq results[s.a],
         s.pc # "replace" => ServerKeys(s.a) \subseteq s.deletes,
         s.pc = "commit" => s.puts = KeysOf(s.computed),
         s.puts \cap (Stored(s.a) \ s.deletes) = {},
         \A q \in Requests \ {r} : req[q].a = s.a =>
           s.puts \cap (req[q].puts \cup req[q].deletes) = {} /\ req[q].puts \cap s.deletes = {}
  PROVE  IInv'
<1>1. /\ RangesOK' /\ req'[r] = s /\ \A q \in Requests \ {r} : req'[q] = req[q]
      /\ UNCHANGED <<run, results, metrics, owner>>
  BY Quiet, FS_EmptySet
<1>2. RequestOK(r)
  BY DEF IInv
<1>3. ShapeOK(r)'
  BY <1>1, <1>2 DEF RequestOK, ShapeOK, Ending, Running
<1>4. OwnerOK(r)'
  BY <1>1, <1>2 DEF RequestOK, OwnerOK, Holds, Opened, Running, Ending
<1>5. UploadOK(r)'
  BY <1>1 DEF UploadOK, Ending
<1>6. MetricsOK(r)'
  BY <1>1 DEF MetricsOK, ServerKeys, Stored
<1>7. RequestOK(r)'
  BY <1>3, <1>4, <1>5, <1>6 DEF RequestOK
<1> QED BY <1>1, <1>7, Frame

\* Nothing else has metrics of the run in its hands that the server computed: a request that
\* has is past the lock, and the row has one holder.
LEMMA OtherHands ==
  ASSUME IInv, NEW r \in Requests, Holds(r), NEW q \in Requests \ {r}, req[q].a = req[r].a
  PROVE  /\ req[q].deletes = {}
         /\ Ending(q) => req[q].puts = {}
         /\ req[q].puts \cap Stored(req[q].a) = {}
<1>1. RequestOK(q) /\ req[q] \in RequestRange
  BY DEF IInv, RangesOK
<1>2. ~Holds(q)
  BY DEF Holds
<1>3. Ending(q) => req[q].pc \notin {"load", "replace", "metrics", "commit"}
  BY <1>1, <1>2 DEF RequestOK, OwnerOK, Ending
<1>4. Ending(q) => req[q].puts = {} /\ req[q].deletes = {}
  BY <1>1, <1>3 DEF RequestOK, ShapeOK, Ending, Running
<1>5. req[q].deletes = {}
  BY <1>1, <1>4 DEF RequestOK, ShapeOK
<1> QED BY <1>1, <1>4, <1>5 DEF RequestOK, MetricsOK

\* What is computed covers results that are stored.
LEMMA LoadResultsNext ==
  ASSUME IInv, NEW r \in Requests, LoadResults(r)
  PROVE  IInv'
<1>1. RequestOK(r) /\ req[r] \in RequestRange /\ req[r].pc = "load" /\ results[req[r].a] \subseteq Examples
  BY DEF IInv, RangesOK, LoadResults, At, RequestRange
<1>2. PICK s : s = [req[r] EXCEPT !.pc = "replace", !.computed = results[req[r].a]]
  OBVIOUS
<1>3. s \in RequestRange /\ s.pc = "replace" /\ s.op = req[r].op /\ s.a = req[r].a
      /\ s.status = req[r].status /\ s.mine = {} /\ s.puts = {} /\ s.deletes = {}
      /\ s.computed = results[s.a] /\ Ending(r)
  BY <1>1, <1>2 DEF RequestRange, RequestOK, ShapeOK, Pcs, Running, Ending
<1>4. Local(r, s)
  BY <1>2 DEF LoadResults
<1> QED BY <1>1, <1>3, <1>4, HolderStep

\* The delete takes every metric the server computed for the run, and meets no one else's.
LEMMA DeleteMetricsNext ==
  ASSUME IInv, NEW r \in Requests, DeleteMetrics(r)
  PROVE  IInv'
<1>1. RequestOK(r) /\ req[r] \in RequestRange /\ req[r].pc = "replace" /\ Holds(r)
  BY DEF IInv, RangesOK, DeleteMetrics, At, RequestOK, OwnerOK
<1>2. PICK s : s = [req[r] EXCEPT !.pc = "metrics", !.deletes = Stored(req[r].a)]
  OBVIOUS
<1>3. s \in RequestRange /\ s.pc = "metrics" /\ s.op = req[r].op /\ s.a = req[r].a
      /\ s.status = req[r].status /\ s.mine = {} /\ s.puts = {} /\ s.deletes = Stored(s.a)
      /\ s.computed = req[r].computed /\ Ending(r)
  <2>1. Stored(req[r].a) \subseteq Keys
    BY DEF Stored
  <2> QED BY <1>1, <1>2, <2>1 DEF RequestRange, RequestOK, ShapeOK, Pcs, Running, Ending
<1>4. Local(r, s)
  BY <1>2 DEF DeleteMetrics
<1>5. s.computed \subseteq results[s.a]
  BY <1>1, <1>3 DEF RequestOK, MetricsOK
<1>6. ServerKeys(s.a) \subseteq s.deletes
  BY <1>3 DEF ServerKeys, Stored
<1>7. \A q \in Requests \ {r} : req[q].a = s.a => req[q].puts \cap s.deletes = {}
  BY <1>1, <1>3, OtherHands
<1> QED BY <1>1, <1>3, <1>4, <1>5, <1>6, <1>7, HolderStep

\* The insert takes its keys only where nobody has them in hand and nothing stays.
LEMMA InsertMetricsNext ==
  ASSUME IInv, NEW r \in Requests, InsertMetrics(r)
  PROVE  IInv'
<1> DEFINE wanted == KeysOf(req[r].computed)
<1>1. RequestOK(r) /\ req[r] \in RequestRange /\ req[r].pc = "metrics"
  BY DEF IInv, RangesOK, InsertMetrics, At
<1>2. PICK s : s = [req[r] EXCEPT !.pc = "commit", !.puts = wanted]
  OBVIOUS
<1>3. wanted \subseteq Keys
  BY <1>1 DEF KeysOf, Keys, RequestRange
<1>4. s \in RequestRange /\ s.pc = "commit" /\ s.op = req[r].op /\ s.a = req[r].a
      /\ s.status = req[r].status /\ s.mine = {} /\ s.puts = wanted /\ s.deletes = req[r].deletes
      /\ s.computed = req[r].computed /\ Ending(r)
  <2> HIDE DEF wanted
  <2> QED BY <1>1, <1>2, <1>3 DEF RequestRange, RequestOK, ShapeOK, Pcs, Running, Ending
<1>5. CASE Fail(r)
  BY <1>5, FailOK
<1>6. CASE Local(r, s) /\ wanted \cap (Stored(req[r].a) \ req[r].deletes) = {}
  <2>1. wanted \cap InFlight(r) = {}
    BY DEF InsertMetrics
  <2>2. \A q \in Requests \ {r} : req[q].a = s.a =>
          s.puts \cap (req[q].puts \cup req[q].deletes) = {} /\ req[q].puts \cap s.deletes = {}
    <3> SUFFICES ASSUME NEW q \in Requests \ {r}, req[q].a = req[r].a
                 PROVE  /\ wanted \cap (req[q].puts \cup req[q].deletes) = {}
                        /\ req[q].puts \cap req[r].deletes = {}
      BY <1>4
    <3>1. req[q].puts \cup req[q].deletes \subseteq InFlight(r)
      BY DEF InFlight
    <3>2. req[q].puts \cap req[r].deletes = {}
      BY DEF IInv, HandsApart
    <3> HIDE DEF wanted
    <3> QED BY <2>1, <3>1, <3>2
  <2>3. s.computed \subseteq results[s.a] /\ ServerKeys(s.a) \subseteq s.deletes
    BY <1>1, <1>4 DEF RequestOK, MetricsOK
  <2> QED BY <1>1, <1>4, <1>6, <2>2, <2>3, HolderStep
<1> QED BY <1>2, <1>5, <1>6 DEF InsertMetrics

\* A submission puts the keys nobody has stored and nobody has in hand.
LEMMA SubmitMetricsNext ==
  ASSUME IInv, NEW r \in Requests, SubmitMetrics(r)
  PROVE  IInv'
<1> DEFINE taken == {k \in req[r].offers : Kept(req[r].a, k)}
<1>1. RequestOK(r) /\ req[r] \in RequestRange /\ req[r].pc = "submit"
  BY DEF IInv, RangesOK, SubmitMetrics, At
<1>2. PICK s : s = [req[r] EXCEPT !.pc = "commit", !.puts = taken]
  OBVIOUS
<1>3. taken \subseteq Keys /\ taken \subseteq req[r].offers /\ taken \cap Stored(req[r].a) = {}
  BY <1>1 DEF RequestRange, Kept
<1>4. Local(r, s)
  BY <1>2 DEF SubmitMetrics
<1> HIDE DEF taken
<1>5. s \in RequestRange /\ s.pc = "commit" /\ s.op = "submit" /\ s.a = req[r].a
      /\ s.mine = {} /\ s.puts = taken /\ s.deletes = {}
  BY <1>1, <1>2, <1>3 DEF RequestRange, RequestOK, ShapeOK, Pcs, Running, Ending
<1>6. /\ RangesOK' /\ req'[r] = s /\ \A q \in Requests \ {r} : req'[q] = req[q]
      /\ UNCHANGED <<run, results, metrics, owner>>
  BY <1>4, <1>5, Quiet, FS_EmptySet
<1>7. ShapeOK(r)' /\ UploadOK(r)'
  BY <1>5, <1>6 DEF ShapeOK, UploadOK, Ending, Running
<1>8. OwnerOK(r)'
  BY <1>1, <1>5, <1>6 DEF RequestOK, ShapeOK, OwnerOK, Holds, Opened, Running
<1>9. MetricsOK(r)'
  BY <1>3, <1>5, <1>6 DEF MetricsOK, Ending, Stored
<1>10. RequestOK(r)'
  BY <1>7, <1>8, <1>9 DEF RequestOK
<1>11. \A q \in Requests \ {r} : req[q].a = s.a => s.puts \cap (req[q].puts \cup req[q].deletes) = {}
  <2> SUFFICES ASSUME NEW q \in Requests \ {r}, req[q].a = req[r].a
               PROVE  taken \cap (req[q].puts \cup req[q].deletes) = {}
    BY <1>5
  <2>1. req[q].puts \cup req[q].deletes \subseteq InFlight(r)
    BY DEF InFlight
  <2>2. req[r].offers \cap InFlight(r) = {}
    BY DEF SubmitMetrics
  <2> QED BY <1>3, <2>1, <2>2
<1> QED BY <1>5, <1>6, <1>10, <1>11, Frame

-----------------------------------------------------------------------------
(* A commit.                                                                *)
\* The row a commit leaves: open if it was, or if the request opened the run; its total is no
\* more than what is stored from then on, is positive beside stored results, and stays so.
LEMMA CommittedRow ==
  ASSUME IInv, NEW r \in Requests, req[r].pc = "commit"
  PROVE  LET a == req[r].a
             stored == results[a] \cup req[r].mine IN
         /\ Row(r) \in [status : Statuses, completed : Nat] /\ Row(r).status # "none"
         /\ a \notin Opened => req[r].op = "open" /\ stored = {}
         /\ a \in Opened /\ run[a].completed > 0 => Row(r).completed > 0
         /\ Row(r).completed <= Cardinality(stored)
         /\ stored # {} => Row(r).completed > 0
<1> DEFINE a == req[r].a
           stored == results[a] \cup req[r].mine
<1>1. RequestOK(r) /\ req[r] \in RequestRange /\ a \in Attempts
      /\ run[a] \in [status : Statuses, completed : Nat]
  BY DEF IInv, RangesOK, RequestRange
<1>2. PICK n \in Nat : n = Cardinality(stored) /\ (n = 0 <=> stored = {})
  BY StoredFinite DEF IInv
<1>3. a \notin Opened => req[r].op = "open" /\ stored = {}
  BY <1>1 DEF IInv, RequestOK, ShapeOK, OwnerOK, OpenedInTurn, Running
<1>4. run[a].completed <= n
  <2>1. run[a].completed <= Cardinality(results[a]) /\ IsFiniteSet(stored)
    BY <1>1, StoredFinite DEF IInv, TotalsHonest
  <2>2. Cardinality(results[a]) \in Nat /\ Cardinality(results[a]) <= Cardinality(stored)
    BY <1>1, <2>1, FS_Subset, FS_CardinalityType DEF IInv, RangesOK
  <2> HIDE DEF stored
  <2> QED BY <1>1, <1>2, <2>1, <2>2
<1>5. results[a] # {} => run[a].completed > 0
  BY <1>1 DEF IInv, TotalsHonest
<1>6. CASE req[r].op = "append"
  <2>1. /\ req[r].total \in Nat /\ req[r].total <= Cardinality(stored)
        /\ req[r].mine # {} \/ req[r].total # req[r].loaded => req[r].total > 0
        /\ Holds(r) <=> req[r].total # req[r].loaded
        /\ req[r].loaded > 0 => run[a].completed > 0
        /\ req[r].loaded \in Nat
    BY <1>1, <1>6 DEF RequestOK, UploadOK, RequestRange
  <2>2. Row(r) = IF Holds(r) THEN [run[a] EXCEPT !.completed = req[r].total] ELSE run[a]
    BY <1>6 DEF Row, Holds
  <2>3. a \in Opened
    BY <1>3, <1>6
  <2>4. Row(r).status = run[a].status /\ Row(r).status # "none"
        /\ Row(r).completed = IF Holds(r) THEN req[r].total ELSE run[a].completed
    BY <1>1, <2>2, <2>3 DEF Opened
  <2>5. Row(r) \in [status : Statuses, completed : Nat]
    BY <1>1, <2>1, <2>2
  <2> HIDE DEF stored
  <2>6. Row(r).completed <= Cardinality(stored)
    BY <1>1, <1>2, <1>4, <2>1, <2>4
  <2>7. run[a].completed > 0 => Row(r).completed > 0
    BY <1>1, <2>1, <2>4
  <2>8. stored # {} => Row(r).completed > 0
    BY <1>1, <1>5, <2>1, <2>4 DEF stored
  <2> QED BY <1>3, <2>4, <2>5, <2>6, <2>7, <2>8 DEF stored
<1>7. CASE req[r].op = "open"
  <2>1. Holds(r) /\ a \notin Opened
    BY <1>1, <1>7 DEF RequestOK, OwnerOK
  <2>2. Row(r) = [status |-> "running", completed |-> 0]
    BY <1>7, <2>1 DEF Row, Holds
  <2>3. stored = {}
    BY <1>3, <2>1
  <2> HIDE DEF stored
  <2> QED BY <1>2, <1>7, <2>1, <2>2, <2>3 DEF Statuses, stored
<1>8. CASE req[r].op \notin {"append", "open"}
  <2>1. a \in Opened /\ req[r].mine = {}
    BY <1>1, <1>3, <1>8 DEF RequestOK, ShapeOK
  <2>2. Row(r) = IF ~Holds(r) \/ req[r].status = "unchanged" THEN run[a]
                 ELSE [run[a] EXCEPT !.status = req[r].status]
    BY <1>8 DEF Row, Holds
  <2>3. Holds(r) => Ending(r)
    <3>1. req[r].op \in {"append", "open", "complete", "cancel", "submit"}
      BY <1>1 DEF RequestRange
    <3>2. Holds(r) => req[r].op # "submit"
      BY <1>1 DEF RequestOK, OwnerOK, Holds
    <3> QED BY <1>8, <3>1, <3>2 DEF Ending
  <2>4. Holds(r) => req[r].status # "none" /\ req[r].status \in Statuses \cup {"unchanged"}
    BY <1>1, <2>3 DEF RequestOK, ShapeOK, RequestRange, Running
  <2>5. Row(r) \in [status : Statuses, completed : Nat] /\ Row(r).completed = run[a].completed
        /\ Row(r).status # "none"
    BY <1>1, <2>1, <2>2, <2>4 DEF Opened
  <2>6. stored = results[a]
    BY <2>1
  <2> QED BY <1>2, <1>3, <1>4, <1>5, <2>1, <2>5, <2>6
<1> QED BY <1>6, <1>7, <1>8

\* The metrics a commit leaves: one pass if the request completed or cancelled the run, and
\* else what was there with client metrics where there was none.
LEMMA CommittedMetrics ==
  ASSUME IInv, NEW r \in Requests, req[r].pc = "commit", NEW k \in Keys
  PROVE  LET a == req[r].a IN
         /\ Metric(r, k) \in AnyMetric
         /\ Ending(r) => IF k \in KeysOf(req[r].computed) THEN Metric(r, k) = Server(req[r].computed)
                                                          ELSE Metric(r, k).from # "server"
         /\ ~Ending(r) => Metric(r, k) = IF k \in req[r].puts THEN Client ELSE metrics[a][k]
         /\ ~Ending(r) /\ k \in req[r].puts => metrics[a][k].from = "none"
         /\ Metric(r, k).from # "none" => k \in Stored(a) \cup req[r].puts
<1> DEFINE a == req[r].a
<1>1. RequestOK(r) /\ req[r] \in RequestRange /\ metrics[a][k] \in AnyMetric
  BY DEF IInv, RangesOK, RequestRange
<1>2. CASE Ending(r)
  <2>1. req[r].puts = KeysOf(req[r].computed) /\ ServerKeys(a) \subseteq req[r].deletes
    BY <1>1, <1>2 DEF RequestOK, MetricsOK
  <2>2. Metric(r, k) = IF k \in req[r].puts THEN Server(req[r].computed)
                       ELSE IF k \in req[r].deletes THEN NoMetric ELSE metrics[a][k]
    BY <1>2 DEF Metric, Ending
  <2>3. Server(req[r].computed) \in AnyMetric /\ NoMetric \in AnyMetric /\ NoMetric.from = "none"
    BY <1>1 DEF Server, NoMetric, AnyMetric, RequestRange
  <2>4. metrics[a][k].from = "server" => k \in req[r].deletes
    BY <2>1 DEF ServerKeys
  <2>5. metrics[a][k].from # "none" => k \in Stored(a)
    BY DEF Stored
  <2> QED BY <1>1, <1>2, <2>1, <2>2, <2>3, <2>4, <2>5
<1>3. CASE ~Ending(r)
  <2>1. req[r].deletes = {} /\ (req[r].op # "submit" => req[r].puts = {})
    BY <1>1, <1>3 DEF RequestOK, ShapeOK, RequestRange, Ending
  <2>2. Metric(r, k) = IF k \in req[r].puts THEN Client ELSE metrics[a][k]
    BY <2>1 DEF Metric
  <2>3. k \in req[r].puts => k \notin Stored(a)
    BY <1>1, <2>1 DEF RequestOK, MetricsOK
  <2>4. Client \in AnyMetric
    BY DEF Client, AnyMetric
  <2> QED BY <1>1, <1>3, <2>2, <2>3, <2>4 DEF Stored
<1> QED BY <1>2, <1>3

\* The variables after a commit.
LEMMA CommitRanges ==
  ASSUME IInv, NEW r \in Requests, Commit(r)
  PROVE  LET a == req[r].a IN
         /\ RangesOK'
         /\ run'[a] = Row(r) /\ results'[a] = results[a] \cup req[r].mine
         /\ \A k \in Keys : metrics'[a][k] = Metric(r, k)
         /\ \A b \in Attempts \ {a} : run'[b] = run[b] /\ results'[b] = results[b] /\ metrics'[b] = metrics[b]
         /\ \A b \in Attempts : owner'[b] = IF owner[b] = r THEN Nobody ELSE owner[b]
         /\ req'[r] = [Fresh EXCEPT !.pc = "done", !.op = req[r].op, !.a = a, !.chunk = req[r].chunk]
         /\ \A q \in Requests \ {r} : req'[q] = req[q]
<1> DEFINE a == req[r].a
           s == [Fresh EXCEPT !.pc = "done", !.op = req[r].op, !.a = a, !.chunk = req[r].chunk]
<1>1. RangesOK /\ req[r] \in RequestRange /\ a \in Attempts /\ req[r].pc = "commit"
  BY DEF IInv, RangesOK, RequestRange, Commit, At
<1>2. s \in RequestRange /\ s.mine = {}
  BY <1>1, FreshInRange DEF Fresh, RequestRange, Pcs
<1>3. /\ run' = [run EXCEPT ![a] = Row(r)]
      /\ results' = [results EXCEPT ![a] = @ \cup req[r].mine]
      /\ metrics' = [metrics EXCEPT ![a] = [k \in Keys |-> Metric(r, k)]]
      /\ owner' = [b \in Attempts |-> IF owner[b] = r THEN Nobody ELSE owner[b]]
      /\ req' = [req EXCEPT ![r] = s]
  BY DEF Commit, Release
<1>4. Row(r) \in [status : Statuses, completed : Nat]
  BY <1>1, CommittedRow
<1>5. [k \in Keys |-> Metric(r, k)] \in [Keys -> AnyMetric]
  BY <1>1, CommittedMetrics
<1> HIDE DEF s
<1>6. /\ run' \in [Attempts -> [status : Statuses, completed : Nat]]
      /\ run'[a] = Row(r) /\ \A b \in Attempts \ {a} : run'[b] = run[b]
  BY <1>1, <1>3, <1>4 DEF RangesOK
<1>7. /\ results' \in [Attempts -> SUBSET Examples]
      /\ results'[a] = results[a] \cup req[r].mine /\ \A b \in Attempts \ {a} : results'[b] = results[b]
  BY <1>1, <1>3 DEF RangesOK, RequestRange
<1>8. /\ metrics' \in [Attempts -> [Keys -> AnyMetric]]
      /\ metrics'[a] = [k \in Keys |-> Metric(r, k)] /\ \A b \in Attempts \ {a} : metrics'[b] = metrics[b]
  BY <1>1, <1>3, <1>5 DEF RangesOK
<1>9. /\ owner' \in [Attempts -> Requests \cup {Nobody}]
      /\ \A b \in Attempts : owner'[b] = IF owner[b] = r THEN Nobody ELSE owner[b]
  BY <1>1, <1>3 DEF RangesOK
<1>10. req' \in [Requests -> RequestRange] /\ req'[r] = s /\ \A q \in Requests \ {r} : req'[q] = req[q]
  BY <1>1, <1>2, <1>3 DEF RangesOK
<1>11. \A b \in Attempts : IsFiniteSet(results'[b])
  <2>1. IsFiniteSet(results[a] \cup req[r].mine)
    BY <1>1, StoredFinite
  <2> QED BY <1>1, <1>7, <2>1 DEF RangesOK
<1>12. \A q \in Requests : IsFiniteSet(req'[q].mine)
  BY <1>1, <1>2, <1>10, FS_EmptySet DEF RangesOK
<1>13. RangesOK'
  BY <1>6, <1>7, <1>8, <1>9, <1>10, <1>11, <1>12 DEF RangesOK
<1> QED BY <1>6, <1>7, <1>8, <1>9, <1>10, <1>13 DEF s

\* The runs stay opened in turn, and what each reports stays backed by its results.
LEMMA CommitTables ==
  ASSUME IInv, NEW r \in Requests, Commit(r)
  PROVE  OpenedInTurn' /\ TotalsHonest' /\ AggregatesWhole' /\ Opened' = Opened \cup {req[r].a}
<1> DEFINE a == req[r].a
<1>1. /\ req[r].pc = "commit" /\ RequestOK(r) /\ a \in Attempts /\ req[r] \in RequestRange
  BY DEF IInv, RangesOK, RequestRange, Commit, At
<1>2. /\ run'[a] = Row(r) /\ results'[a] = results[a] \cup req[r].mine
      /\ \A k \in Keys : metrics'[a][k] = Metric(r, k)
      /\ \A b \in Attempts \ {a} : run'[b] = run[b] /\ results'[b] = results[b] /\ metrics'[b] = metrics[b]
  BY CommitRanges
<1>3. Opened' = Opened \cup {a}
  <2>1. run'[a].status # "none"
    BY <1>1, <1>2, CommittedRow
  <2> QED BY <1>1, <1>2, <2>1 DEF Opened
<1>4. OpenedInTurn'
  <2>1. a \notin Opened => a - 1 \in Opened
    BY <1>1, CommittedRow DEF RequestOK, OwnerOK, Running
  <2>2. \A b \in Opened' : \A c \in 1 .. b : c \in Opened'
    <3> SUFFICES ASSUME a \notin Opened, NEW c \in 1 .. a PROVE c \in Opened'
      BY <1>3 DEF IInv, OpenedInTurn
    <3>1. a \in Nat /\ a - 1 \in Opened
      BY <1>1, <2>1, AttemptAssumption DEF Attempts
    <3>2. c = a \/ c \in 1 .. (a - 1)
      BY <3>1
    <3> QED BY <1>3, <3>1, <3>2 DEF IInv, OpenedInTurn
  <2>3. \A b \in Attempts \ Opened' : results'[b] = {}
    BY <1>2, <1>3 DEF IInv, OpenedInTurn
  <2> QED BY <1>3, <2>2, <2>3 DEF IInv, OpenedInTurn
<1>5. TotalsHonest'
  <2>1. /\ Row(r).completed <= Cardinality(results[a] \cup req[r].mine)
        /\ results[a] \cup req[r].mine # {} => Row(r).completed > 0
    BY <1>1, CommittedRow
  <2> QED BY <1>2, <2>1 DEF IInv, TotalsHonest
<1>6. AggregatesWhole'
  <2> SUFFICES ASSUME NEW b \in Attempts
               PROVE  \E S \in SUBSET results'[b] : \A k \in Keys :
                        IF k \in KeysOf(S) THEN metrics'[b][k] = Server(S)
                                           ELSE metrics'[b][k].from # "server"
    BY DEF AggregatesWhole
  <2>1. CASE b # a
    BY <1>2, <2>1 DEF IInv, AggregatesWhole
  <2>2. CASE b = a /\ Ending(r)
    <3>1. req[r].computed \in SUBSET results'[a]
      BY <1>1, <1>2, <2>2 DEF RequestOK, MetricsOK
    <3>2. \A k \in Keys : IF k \in KeysOf(req[r].computed) THEN metrics'[a][k] = Server(req[r].computed)
                                                           ELSE metrics'[a][k].from # "server"
      BY <1>1, <1>2, <2>2, CommittedMetrics
    <3> QED BY <2>2, <3>1, <3>2
  <2>3. CASE b = a /\ ~Ending(r)
    <3>1. PICK S \in SUBSET results[a] : \A k \in Keys :
            IF k \in KeysOf(S) THEN metrics[a][k] = Server(S) ELSE metrics[a][k].from # "server"
      BY <1>1 DEF IInv, AggregatesWhole
    <3>2. ASSUME NEW k \in Keys
          PROVE  IF k \in KeysOf(S) THEN metrics'[a][k] = Server(S) ELSE metrics'[a][k].from # "server"
      <4>1. /\ metrics'[a][k] = IF k \in req[r].puts THEN Client ELSE metrics[a][k]
            /\ k \in req[r].puts => metrics[a][k].from = "none"
        BY <1>1, <1>2, <2>3, CommittedMetrics
      <4> QED BY <3>1, <4>1 DEF Server, Client
    <3>3. S \in SUBSET results'[a]
      BY <1>2
    <3> QED BY <2>3, <3>2, <3>3
  <2> QED BY <2>1, <2>2, <2>3
<1> QED BY <1>3, <1>4, <1>5, <1>6

\* The requests that do not move keep what they know: results and metrics they rely on only
\* grow, or change under a lock that only one of them can have.
LEMMA CommitOthers ==
  ASSUME IInv, NEW r \in Requests, Commit(r), NEW q \in Requests \ {r}
  PROVE  RequestOK(q)'
<1> DEFINE a == req[r].a
<1>1. /\ req[r].pc = "commit" /\ RequestOK(r) /\ a \in Attempts /\ req[r] \in RequestRange
      /\ RequestOK(q) /\ req[q] \in RequestRange /\ req[q].a \in Attempts /\ q # Nobody
  BY AttemptAssumption DEF IInv, RangesOK, RequestRange, Commit, At
<1>2. /\ run'[a] = Row(r) /\ results'[a] = results[a] \cup req[r].mine
      /\ \A k \in Keys : metrics'[a][k] = Metric(r, k)
      /\ \A b \in Attempts \ {a} : run'[b] = run[b] /\ results'[b] = results[b] /\ metrics'[b] = metrics[b]
      /\ req'[q] = req[q]
  BY CommitRanges
<1>3. \A b \in Attempts : owner'[b] = q <=> owner[b] = q
  BY <1>1, CommitRanges, ZenonT(40)
<1>4. Opened' = Opened \cup {a}
  BY CommitTables
<1>5. ShapeOK(q)'
  BY <1>1, <1>2 DEF RequestOK, ShapeOK, Ending
<1>6. OwnerOK(q)'
  <2>1. ASSUME req[q].pc = "commit", req[q].op = "open" PROVE req[q].a # a
    <3>1. Holds(q) /\ req[q].a \notin Opened
      BY <1>1, <2>1 DEF RequestOK, OwnerOK
    <3>2. a \notin Opened => Holds(r)
      BY <1>1, CommittedRow DEF RequestOK, OwnerOK
    <3> QED BY <3>1, <3>2 DEF Holds
  <2> QED BY <1>1, <1>2, <1>3, <1>4, <2>1 DEF RequestOK, OwnerOK, Holds
<1>7. UploadOK(q)'
  <2>1. results[req[q].a] \subseteq results'[req[q].a]
    BY <1>1, <1>2
  <2>2. Cardinality(results[req[q].a] \cup req[q].mine) \in Nat
        /\ Cardinality((results[req[q].a] \cup req[q].mine)') \in Nat
        /\ Cardinality(results[req[q].a] \cup req[q].mine)
             <= Cardinality((results[req[q].a] \cup req[q].mine)')
    <3>1. RangesOK'
      BY CommitRanges
    <3>2. IsFiniteSet((results[req[q].a] \cup req[q].mine)')
      BY <1>1, <1>2, <3>1, FS_Union DEF RangesOK
    <3>3. results[req[q].a] \cup req[q].mine \subseteq (results[req[q].a] \cup req[q].mine)'
      BY <1>2, <2>1
    <3> QED BY <3>2, <3>3, FS_Subset, FS_CardinalityType
  <2>3. req[q].pc \in {"existing", "insert", "totals", "commit"} /\ req[q].op = "append"
        /\ run[req[q].a].completed > 0 => run'[req[q].a].completed > 0
    <3> SUFFICES ASSUME req[q].pc \in {"existing", "insert", "totals", "commit"}, req[q].op = "append",
                        run[req[q].a].completed > 0, req[q].a = a
                 PROVE  run'[a].completed > 0
      BY <1>1, <1>2
    <3>1. a \in Opened
      BY <1>1 DEF RequestOK, OwnerOK, Running
    <3> QED BY <1>1, <1>2, <3>1, CommittedRow
  <2>4. Holds(q)' <=> Holds(q)
    BY <1>1, <1>2, <1>3 DEF Holds
  <2>5. (results[req[q].a] \cup req[q].mine)' = results'[req[q].a] \cup req[q].mine
    BY <1>2
  <2>6. req[q].total \in Nat
    BY <1>1 DEF RequestRange
  <2> QED BY <1>1, <1>2, <2>1, <2>2, <2>3, <2>4, <2>5, <2>6 DEF RequestOK, UploadOK
<1>8. MetricsOK(q)'
  <2>1. CASE req[q].a # a
    BY <1>1, <1>2, <2>1 DEF RequestOK, MetricsOK, Ending, ServerKeys, Stored
  <2>2. CASE req[q].a = a
    <3>1. ASSUME Ending(q), req[q].pc \in {"metrics", "commit"} 
            PROVE  {k \in Keys : metrics'[a][k].from = "server"} \subseteq ServerKeys(a)
      <4>1. Holds(q) /\ ~Holds(r)
        BY <1>1, <2>2, <3>1 DEF RequestOK, OwnerOK, Holds, Ending
      <4>2. ~Ending(r)
        BY <1>1, <4>1 DEF RequestOK, OwnerOK, Ending
      <4>3. \A k \in Keys : metrics'[a][k] = IF k \in req[r].puts THEN Client ELSE metrics[a][k]
        BY <1>1, <1>2, <4>2, CommittedMetrics
      <4> QED BY <4>3 DEF ServerKeys, Client
    <3>2. \A k \in Keys : metrics'[a][k].from # "none" => k \in Stored(a) \cup req[r].puts
      BY <1>1, <1>2, CommittedMetrics
    <3>3. req[q].puts \cap req[r].puts = {}
      BY <2>2 DEF IInv, HandsApart
    <3>4. \A k \in Keys : k \in req[q].puts \ req[q].deletes => metrics'[a][k].from = "none"
      BY <1>1, <2>2, <3>2, <3>3 DEF RequestOK, MetricsOK
    <3>5. results[a] \subseteq results'[a]
      BY <1>2
    <3>6. /\ req[q].puts \cap ({k \in Keys : metrics'[a][k].from # "none"} \ req[q].deletes) = {}
      BY <3>4
    <3>7. Ending(q) /\ req[q].pc \in {"metrics", "commit"} =>
            {k \in Keys : metrics'[a][k].from = "server"} \subseteq req[q].deletes
      <4>1. Ending(q) /\ req[q].pc \in {"metrics", "commit"} => ServerKeys(a) \subseteq req[q].deletes
        BY <1>1, <2>2 DEF RequestOK, MetricsOK
      <4> QED BY <3>1, <4>1
    <3> QED BY <1>1, <1>2, <2>2, <3>5, <3>6, <3>7 DEF RequestOK, MetricsOK, Ending, ServerKeys, Stored
  <2> QED BY <2>1, <2>2
<1> QED BY <1>5, <1>6, <1>7, <1>8 DEF RequestOK

\* A commit leaves the request with nothing in its hands, and what it acknowledges is stored.
LEMMA CommitNext ==
  ASSUME IInv, NEW r \in Requests, Commit(r)
  PROVE  IInv'
<1> DEFINE a == req[r].a
<1>1. /\ req[r].pc = "commit" /\ RequestOK(r) /\ a \in Attempts /\ req[r] \in RequestRange
  BY DEF IInv, RangesOK, RequestRange, Commit, At
<1>2. /\ RangesOK' /\ results'[a] = results[a] \cup req[r].mine
      /\ req'[r] = [Fresh EXCEPT !.pc = "done", !.op = req[r].op, !.a = a, !.chunk = req[r].chunk]
      /\ \A b \in Attempts : owner'[b] = IF owner[b] = r THEN Nobody ELSE owner[b]
      /\ \A q \in Requests \ {r} : req'[q] = req[q]
  BY CommitRanges
<1>3. /\ req'[r].pc = "done" /\ req'[r].op = req[r].op /\ req'[r].a = a /\ req'[r].chunk = req[r].chunk
      /\ req'[r].mine = {} /\ req'[r].puts = {} /\ req'[r].deletes = {}
  BY <1>2 DEF Fresh
<1>4. \A b \in Attempts : owner'[b] # r
  BY <1>2, AttemptAssumption
<1>5. RequestOK(r)'
  <2>1. ShapeOK(r)' /\ MetricsOK(r)'
    BY <1>3 DEF ShapeOK, MetricsOK, Ending, Running
  <2>2. OwnerOK(r)'
    BY <1>3, <1>4 DEF OwnerOK, Running
  <2>3. req[r].op = "append" => ToSet(req[r].chunk) \subseteq results'[a]
    BY <1>1, <1>2 DEF RequestOK, UploadOK
  <2>4. UploadOK(r)'
    BY <1>3, <2>3 DEF UploadOK
  <2> QED BY <2>1, <2>2, <2>4 DEF RequestOK
<1>6. HandsApart'
  <2> SUFFICES ASSUME NEW p \in Requests, NEW q \in Requests, p # q, req'[p].a = req'[q].a
               PROVE  req'[p].puts \cap (req'[q].puts \cup req'[q].deletes) = {}
    BY DEF HandsApart
  <2>1. CASE p = r \/ q = r
    BY <1>3, <2>1
  <2>2. CASE p # r /\ q # r
    BY <1>2, <2>2 DEF IInv, HandsApart
  <2> QED BY <2>1, <2>2
<1>7. OpenedInTurn' /\ TotalsHonest' /\ AggregatesWhole'
  BY CommitTables
<1>8. \A q \in Requests \ {r} : RequestOK(q)'
  BY CommitOthers
<1> QED BY <1>2, <1>5, <1>6, <1>7, <1>8 DEF IInv

-----------------------------------------------------------------------------
(* The theorems.                                                            *)
\* One run is open and nobody has begun.
LEMMA InitOK == Init => IInv
<1> SUFFICES ASSUME Init PROVE IInv
  OBVIOUS
<1>1. 1 \in Attempts /\ Opened = {1}
  BY AttemptAssumption DEF Init, Opened, Attempts
<1>2. RangesOK
  <2>1. run \in [Attempts -> [status : Statuses, completed : Nat]]
    BY DEF Init, Statuses
  <2>2. metrics \in [Attempts -> [Keys -> AnyMetric]]
    BY DEF Init, AnyMetric, NoMetric
  <2>3. req \in [Requests -> RequestRange] /\ \A r \in Requests : req[r].mine = {}
    BY FreshInRange DEF Init
  <2> QED BY <2>1, <2>2, <2>3, FS_EmptySet DEF Init, RangesOK
<1>3. OpenedInTurn
  BY <1>1 DEF OpenedInTurn, Init
<1>4. ASSUME NEW r \in Requests PROVE RequestOK(r)
  <2>1. req[r].pc = "new" /\ req[r].mine = {} /\ req[r].puts = {} /\ req[r].deletes = {}
        /\ req[r].op = "append"
    BY DEF Init, Fresh
  <2>2. \A a \in Attempts : owner[a] # r
    BY AttemptAssumption DEF Init
  <2>3. ShapeOK(r) /\ MetricsOK(r) /\ UploadOK(r)
    BY <2>1 DEF ShapeOK, MetricsOK, UploadOK, Ending, Running
  <2>4. OwnerOK(r)
    BY <2>1, <2>2 DEF OwnerOK, Running
  <2> QED BY <2>3, <2>4 DEF RequestOK
<1>5. HandsApart
  BY DEF Init, HandsApart, Fresh
<1>6. AggregatesWhole
  <2> SUFFICES ASSUME NEW a \in Attempts
               PROVE  \A k \in Keys : IF k \in KeysOf({}) THEN metrics[a][k] = Server({})
                                                          ELSE metrics[a][k].from # "server"
    BY DEF AggregatesWhole
  <2> QED BY DEF Init, NoMetric, KeysOf
<1>7. TotalsHonest
  BY FS_EmptySet DEF Init, TotalsHonest
<1> QED BY <1>2, <1>3, <1>4, <1>5, <1>6, <1>7 DEF IInv

\* No statement, commit, abort or deadlock of any request breaks the invariant.
THEOREM Inductive == IInv /\ [Next]_vars => IInv'
<1> SUFFICES ASSUME IInv, [Next]_vars PROVE IInv'
  OBVIOUS
<1>1. CASE UNCHANGED vars
  <2>1. /\ RangesOK' /\ OpenedInTurn' /\ HandsApart' /\ AggregatesWhole' /\ TotalsHonest'
    BY <1>1 DEF IInv, vars, RangesOK, OpenedInTurn, Opened, HandsApart, AggregatesWhole, TotalsHonest
  <2>2. ASSUME NEW r \in Requests PROVE RequestOK(r)'
    <3>1. RequestOK(r) /\ UNCHANGED <<run, results, metrics, owner, req>>
      BY <1>1 DEF IInv, vars
    <3>2. ShapeOK(r)' /\ OwnerOK(r)'
      BY <3>1 DEF RequestOK, ShapeOK, OwnerOK, Ending, Holds, Opened
    <3>3. UploadOK(r)' /\ MetricsOK(r)'
      BY <3>1 DEF RequestOK, UploadOK, MetricsOK, Ending, Holds, ServerKeys, Stored
    <3> QED BY <3>2, <3>3 DEF RequestOK
  <2> QED BY <2>1, <2>2 DEF IInv
<1>2. ASSUME NEW r \in Requests,
             Begin(r) \/ Progress(r) \/ CommitFails(r) \/ Abort(r) \/ BreakDeadlock(r)
      PROVE  IInv'
  BY <1>2, BeginNext, InsertRunNext, ReadExistingNext, InsertResultNext, RefreshTotalsNext,
     UpdateTotalsNext, UpdateStatusNext, LoadResultsNext, DeleteMetricsNext, InsertMetricsNext,
     SubmitMetricsNext, CommitNext, CommitFailsOK, FailOK DEF Progress, Abort, BreakDeadlock
<1> QED BY <1>1, <1>2 DEF Next

\* The invariant holds of every behaviour.
THEOREM InductiveInvariant == Spec => []IInv
BY InitOK, Inductive, PTL DEF Spec

\* Every variable stays in its range, for any examples, metrics, attempts and requests.
THEOREM TypeCorrect == Spec => []TypeOK
<1>1. IInv => TypeOK
  BY DEF IInv, RangesOK, TypeOK, RequestRange, Pcs, Statuses, AnyMetric
<1> QED BY <1>1, InductiveInvariant, PTL

\* append_results: each example of an acknowledged upload is stored, or in the hands of that upload,
\* or lost with its own commit; those it skipped because another had stored them are stored,
\* however uploads interleave, deadlock, fail and are resent.
THEOREM AcknowledgedIsStored == Spec => []AcknowledgedStored
<1>1. IInv => AcknowledgedStored
  BY DEF IInv, RequestOK, ShapeOK, UploadOK, AcknowledgedStored, Acknowledged, Running
<1> QED BY <1>1, InductiveInvariant, PTL

\* _recompute_aggregates and submit_metrics: the metrics a run reports come from one pass over
\* results it holds, with a client's number only where the server has none, and its total never
\* counts what is not stored, whatever completions, cancellations, uploads and submissions overlap.
THEOREM ReportsAreBacked == Spec => []ReportBacked
<1>1. IInv => ReportBacked
  BY DEF IInv, ReportBacked
<1> QED BY <1>1, InductiveInvariant, PTL
=============================================================================
