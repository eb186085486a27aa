-------------------------- MODULE EvalCommand_proofs --------------------------
(***************************************************************************)
(* proofstep eval, in four parts, which share no state.                    *)
(*                                                                         *)
(* The evaluation runner (EvalRun), for any dataset, number of workers,    *)
(* budget and costs, however often it is killed and resumed: no example is *)
(* in two hands, the budget is passed by less than what is in flight, and  *)
(* a verdict is about the whole dataset.                                   *)
(*                                                                         *)
(* Publishing, for any clients, contents, qualities and number of          *)
(* requests, whichever of them fail and whoever is killed: what is         *)
(* reported as published is whole, verdicts hold, and a configuration of   *)
(* the evaluator has one version.                                          *)
(*                                                                         *)
(* The gate engine (GateEngine), for any gate sets, scores and baselines:  *)
(* a pass is earned, and the server decides alike.  Calibration, for any   *)
(* raters, requirements, scales and votes: a judge that gives everything   *)
(* the same answer is not certified, and rubric points come back.          *)
(***************************************************************************)
EXTENDS EvalRun, Publishing, Calibration, FiniteSetTheorems, SequenceTheorems, WellFoundedInduction, TLAPS

\* A finite set of integers that is not empty has a largest member.
LEMMA Largest ==
  ASSUME NEW S \in SUBSET Int, IsFiniteSet(S), S # {}
  PROVE  Max(S) \in S /\ \A x \in S : Max(S) >= x
<1> DEFINE Larger(x) == {y \in S : x < y}
           Family == {Larger(x) : x \in S}
<1>1. Family \in SUBSET FiniteSubsetsOf(S) /\ Family # {}
  <2>1. ASSUME NEW x \in S PROVE Larger(x) \in SUBSET S /\ IsFiniteSet(Larger(x))
    <3>1. Larger(x) \in SUBSET S
      OBVIOUS
    <3> HIDE DEF Larger
    <3> QED BY <3>1, FS_Subset
  <2> HIDE DEF Larger
  <2> QED BY <2>1 DEF FiniteSubsetsOf
<1>2. PICK x \in S : \A y \in S : <<Larger(y), Larger(x)>> \notin StrictSubsetOrdering(S)
  <2>1. \E A \in Family : \A B \in Family : <<B, A>> \notin StrictSubsetOrdering(S)
    <3> HIDE DEF Family
    <3> QED BY <1>1, FS_StrictSubsetOrderingWellFounded, WFMin
  <2> QED BY <2>1
<1>3. ASSUME NEW y \in S, x < y PROVE FALSE
  <2>1. Larger(y) \subseteq Larger(x) /\ y \in Larger(x) /\ y \notin Larger(y)
    <3>1. x \in Int /\ y \in Int /\ \A z \in S : z \in Int
      OBVIOUS
    <3>2. ASSUME NEW z \in S, y < z PROVE x < z
      BY <1>3, <3>1, <3>2
    <3>3. y \in Larger(x)
      BY <1>3
    <3>4. y \notin Larger(y)
      BY <3>1
    <3> QED BY <3>2, <3>3, <3>4
  <2> QED BY <1>2, <2>1 DEF StrictSubsetOrdering
<1>4. \E m \in S : \A y \in S : m >= y
  BY <1>3
<1> QED BY <1>4 DEF Max

-----------------------------------------------------------------------------
(* The evaluation runner.                                                   *)
Pcs == {"pull", "task", "gate", "judging", "backoff", "write", "over"}
Statuses == {"ok", "error", "timeout"}
WorkerRange == [pc : Pcs, ex : Examples \cup {Nothing}, attempt : 0 .. Retries,
                status : Statuses, cost : Costs \cup {0}]

RangesOK ==
  /\ process \in {"running", "killed", "failed", "reported"} /\ starts \in 1 .. MaxStarts
  /\ exit \in {-1, 0, 1, 2} /\ aborted \in {"no", "budget", "errors"}
  /\ results \in [Examples -> Statuses \cup {"none"}]
  /\ journal \in [Examples -> Statuses \cup {"none"}]
  /\ worker \in [Workers -> WorkerRange]
  /\ queue \subseteq Examples /\ spent \in Nat

\* A worker has an example in hand from the pull to the write.
HandsOK ==
  \A w \in Workers :
    /\ worker[w].ex = Nothing <=> worker[w].pc \in {"pull", "over"}
    /\ worker[w].pc = "backoff" => worker[w].attempt < Retries

\* What the process's end was, and that nothing but a full queue keeps a worker at work.
ProcessOK ==
  /\ process = "running" => exit = -1 /\ aborted \in {"no", "budget"}
  /\ process = "killed" => exit = -1 /\ starts < MaxStarts
  /\ process = "running" /\ aborted = "no" /\ queue # {} =>
       \A w \in Workers : worker[w].pc # "over"

\* Unless the budget has dropped one, every example is queued, in hand or finished.
NothingForgotten ==
  process = "running" /\ aborted = "no" =>
    \A e \in Examples : \/ e \in queue \/ results[e] # "none"
                        \/ \E w \in Workers : InHand(w) = e

\* What is in flight is charged for before it is spent.
InFlight == {w \in Workers : InHand(w) # Nothing}
Committed ==
  spent + Cardinality(InFlight) * PerExample < MaxCost + Cardinality(Workers) * PerExample

RunInv ==
  /\ RangesOK /\ HandsOK /\ ProcessOK /\ OneOwner /\ NothingForgotten /\ Committed
  /\ VerdictIsWhole

-----------------------------------------------------------------------------
\* The budget's measure: a dearest cost exists and no cost is above it.
LEMMA Dearest == PerExample \in Nat /\ \A c \in Costs \cup {0} : c \in Nat /\ c <= PerExample
<1>1. Costs \in SUBSET Int /\ IsFiniteSet(Costs) /\ Costs # {} /\ Costs \subseteq Nat
  BY RunAssumption
<1>2. Max(Costs) \in Costs /\ \A c \in Costs : Max(Costs) >= c
  BY <1>1, Largest
<1>3. \E c \in Costs : \A d \in Costs : d <= c
  BY <1>1, <1>2
<1>4. PerExample \in Costs /\ \A d \in Costs : d <= PerExample
  BY <1>3 DEF PerExample
<1> QED BY <1>1, <1>4

\* As many workers at most hold an example as there are workers.
LEMMA Hands == \A S \in SUBSET Workers : /\ IsFiniteSet(S) /\ Cardinality(S) \in Nat
                                         /\ Cardinality(S) <= Cardinality(Workers)
                                         /\ Cardinality(Workers) \in Nat
BY RunAssumption, FS_Subset, FS_CardinalityType

\* A fresh process is in its ranges.
LEMMA RunInitOK == RunInit => RunInv
<1> SUFFICES ASSUME RunInit PROVE RunInv
  OBVIOUS
<1>1. RangesOK /\ HandsOK /\ ProcessOK /\ OneOwner /\ NothingForgotten /\ VerdictIsWhole
  BY RunAssumption DEF RunInit, RangesOK, HandsOK, ProcessOK, OneOwner, NothingForgotten,
     VerdictIsWhole, Idle, NoResult, WorkerRange, Statuses, Pcs, InHand
<1>2. InFlight = {} /\ spent = 0
  BY DEF RunInit, InFlight, InHand, Idle
<1>3. Committed
  <2>1. Cardinality(InFlight) * PerExample = 0
    BY <1>2, FS_EmptySet, Dearest
  <2>2. Cardinality(Workers) * PerExample \in Nat
    BY Hands, Dearest
  <2> QED BY <1>2, <2>1, <2>2, RunAssumption DEF Committed
<1> QED BY <1>1, <1>3 DEF RunInv

-----------------------------------------------------------------------------
(* What the steps do to the workers, once and for every invariant.          *)
\* The others' hands are theirs.
Alone(w) == /\ worker' \in [Workers -> WorkerRange]
            /\ \A v \in Workers \ {w} : worker'[v] = worker[v]

\* A worker's new record is its alone.
LEMMA Assigned ==
  ASSUME worker \in [Workers -> WorkerRange], NEW w \in Workers, NEW rec \in WorkerRange,
         Set(w, rec)
  PROVE  Alone(w) /\ worker'[w] = rec
BY DEF Set, Alone

\* A worker that starts, and one that has stopped, has nothing in hand.
LEMMA FreshWorker ==
  /\ Idle \in WorkerRange /\ Idle.pc = "pull" /\ Idle.ex = Nothing
  /\ Stopped \in WorkerRange /\ Stopped.pc = "over" /\ Stopped.ex = Nothing
<1>1. Idle \in WorkerRange /\ Idle.pc = "pull" /\ Idle.ex = Nothing
  BY RunAssumption DEF Idle, WorkerRange, Statuses, Pcs
<1>2. Stopped \in WorkerRange /\ Stopped.pc = "over" /\ Stopped.ex = Nothing
  BY <1>1 DEF Stopped, WorkerRange, Pcs
<1> QED BY <1>1, <1>2

\* A worker that takes an example has it in hand.
LEMMA Taking ==
  ASSUME NEW e \in Examples
  PROVE  LET rec == [Idle EXCEPT !.pc = "task", !.ex = e]
         IN  rec \in WorkerRange /\ rec.pc = "task" /\ rec.ex = e /\ e # Nothing
BY FreshWorker, RunAssumption DEF WorkerRange, Pcs

\* Invoking, backing off and judging keep the example in hand and touch nothing shared.
Busy(w) == Invoke(w) \/ Backoff(w) \/ EnterGate(w) \/ LeaveGate(w)
shared == <<process_, queue, results, spent, aborted, journal, tail, written>>

\* run_one, between the pull and the write: the example in hand is not put down.
LEMMA KeepsHand ==
  ASSUME RangesOK, HandsOK, NEW w \in Workers, Busy(w)
  PROVE  /\ Alone(w) /\ process = "running" /\ UNCHANGED shared
         /\ worker'[w].ex = worker[w].ex /\ worker[w].ex # Nothing
         /\ worker'[w].pc \notin {"pull", "over"}
         /\ worker'[w].pc = "backoff" => worker'[w].attempt < Retries
<1>0. worker \in [Workers -> WorkerRange] /\ worker[w] \in WorkerRange
  BY DEF RangesOK
<1>1. ASSUME NEW rec \in WorkerRange, Set(w, rec), rec.ex = worker[w].ex,
             worker[w].pc \notin {"pull", "over"}, rec.pc \notin {"pull", "over"},
             rec.pc = "backoff" => rec.attempt < Retries
      PROVE  /\ Alone(w) /\ worker'[w].ex = worker[w].ex /\ worker[w].ex # Nothing
             /\ worker'[w].pc \notin {"pull", "over"}
             /\ worker'[w].pc = "backoff" => worker'[w].attempt < Retries
  BY <1>0, <1>1, Assigned DEF HandsOK
<1>2. CASE Invoke(w)
  <2>1. LET rec == [worker[w] EXCEPT !.pc = "gate"]
        IN  rec \in WorkerRange /\ rec.ex = worker[w].ex /\ rec.pc = "gate"
    BY <1>0 DEF WorkerRange, Pcs
  <2>2. LET rec == [worker[w] EXCEPT !.pc = "write", !.status = "error"]
        IN  rec \in WorkerRange /\ rec.ex = worker[w].ex /\ rec.pc = "write"
    BY <1>0 DEF WorkerRange, Pcs, Statuses
  <2>3. \A failure \in {"timeout", "error"} :
          LET rec == [worker[w] EXCEPT !.pc = IF MayRetry(w) THEN "backoff" ELSE "write",
                                       !.status = IF MayRetry(w) THEN @ ELSE failure]
          IN  /\ rec \in WorkerRange /\ rec.ex = worker[w].ex /\ rec.pc \in {"backoff", "write"}
              /\ rec.pc = "backoff" => rec.attempt < Retries
    BY <1>0 DEF WorkerRange, Pcs, Statuses, MayRetry
  <2> QED BY <1>1, <1>2, <2>1, <2>2, <2>3 DEF Invoke, Doing, shared
<1>3. CASE Backoff(w)
  <2>1. worker[w].attempt < Retries /\ worker[w].attempt \in 0 .. Retries /\ Retries \in Nat
    BY <1>0, <1>3, RunAssumption DEF HandsOK, Backoff, Doing, WorkerRange
  <2>2. worker[w].attempt + 1 \in 0 .. Retries
    BY <2>1
  <2>3. Again(w) \in WorkerRange /\ Again(w).ex = worker[w].ex /\ Again(w).pc = "task"
    BY <1>0, <2>2 DEF Again, WorkerRange, Pcs
  <2> QED BY <1>1, <1>3, <2>3 DEF Backoff, Doing, shared
<1>4. CASE EnterGate(w)
  <2>1. LET rec == [worker[w] EXCEPT !.pc = "judging"]
        IN  rec \in WorkerRange /\ rec.ex = worker[w].ex /\ rec.pc = "judging"
    BY <1>0 DEF WorkerRange, Pcs
  <2> QED BY <1>1, <1>4, <2>1 DEF EnterGate, Doing, shared
<1>5. CASE LeaveGate(w)
  <2>1. \A cost \in Costs \cup {0} :
          LET rec == [worker[w] EXCEPT !.pc = "write", !.cost = cost]
          IN  rec \in WorkerRange /\ rec.ex = worker[w].ex /\ rec.pc = "write"
    BY <1>0 DEF WorkerRange, Pcs
  <2> QED BY <1>1, <1>5, <2>1 DEF LeaveGate, Doing, shared
<1> QED BY <1>2, <1>3, <1>4, <1>5 DEF Busy

\* A pull ends the worker's work, drops the example a spent budget forbids, or takes it.
LEMMA PullCases ==
  ASSUME RangesOK, HandsOK, NEW w \in Workers, Pull(w)
  PROVE  /\ Alone(w) /\ process = "running" /\ worker[w].ex = Nothing
         /\ UNCHANGED <<process_, results, spent, journal, tail, written>>
         /\ \/ /\ worker'[w] = Stopped /\ UNCHANGED <<queue, aborted>>
               /\ aborted # "no" \/ queue = {}
            \/ /\ worker'[w] = Stopped /\ aborted' = "budget"
               /\ \E e \in queue : queue' = queue \ {e}
            \/ /\ ~Exhausted /\ UNCHANGED aborted /\ aborted = "no"
               /\ \E e \in queue : /\ queue' = queue \ {e}
                                   /\ worker'[w].ex = e /\ worker'[w].pc = "task"
<1>1. queue \subseteq Examples /\ worker \in [Workers -> WorkerRange]
  BY DEF RangesOK
<1>2. process = "running" /\ worker[w].ex = Nothing
  BY DEF Pull, Doing, HandsOK
<1>3. UNCHANGED <<process_, results, spent, journal, tail, written>>
  BY DEF Pull
<1>4. Set(w, Stopped) => Alone(w) /\ worker'[w] = Stopped
  BY <1>1, Assigned, FreshWorker
<1>5. ASSUME NEW e \in queue, queue' = queue \ {e}, ~Exhausted, aborted = "no", UNCHANGED aborted,
             Set(w, [Idle EXCEPT !.pc = "task", !.ex = e])
      PROVE  Alone(w) /\ worker'[w].ex = e /\ worker'[w].pc = "task"
  <2> DEFINE rec == [Idle EXCEPT !.pc = "task", !.ex = e]
  <2>1. rec \in WorkerRange /\ rec.pc = "task" /\ rec.ex = e
    BY <1>1, Taking
  <2>2. Set(w, rec)
    BY <1>5
  <2> HIDE DEF rec
  <2> QED BY <1>1, <2>1, <2>2, Assigned
<1> QED BY <1>2, <1>3, <1>4, <1>5 DEF Pull

\* The write books the cost and the result and frees the worker.
LEMMA WriteDoes ==
  ASSUME RangesOK, HandsOK, NEW w \in Workers, Write(w)
  PROVE  /\ Alone(w) /\ process = "running" /\ worker'[w] = Idle
         /\ worker[w].ex \in Examples
         /\ spent' = spent + worker[w].cost
         /\ results' = [results EXCEPT ![worker[w].ex] = worker[w].status]
         /\ worker[w].status \in Statuses /\ worker[w].cost \in Costs \cup {0}
         /\ UNCHANGED <<process_, queue, aborted>>
<1>1. worker \in [Workers -> WorkerRange] /\ worker[w] \in WorkerRange
  BY DEF RangesOK
<1>2. worker[w].ex # Nothing /\ worker[w].ex \in Examples \cup {Nothing}
  BY <1>1 DEF Write, Doing, HandsOK, WorkerRange
<1> QED BY <1>1, <1>2, Assigned, FreshWorker DEF Write, Doing, WorkerRange

-----------------------------------------------------------------------------
(* The steps keep the invariant, conjunct by conjunct.                      *)
Starting == (Resume \/ ResumeStopped) /\ tail # "split"
Ending ==
  \/ Kill \/ ReportFails \/ \E w \in Workers : WriteFails(w)
  \/ (Resume \/ ResumeStopped) /\ tail = "split"

\* A start loads the journal; a process that is killed or fails loses what it held.
LEMMA StartsAndEnds ==
  ASSUME RangesOK, ProcessOK
  PROVE  /\ Starting => /\ Load /\ starts' = starts + 1 /\ starts < MaxStarts
         /\ Ending => /\ Lost /\ starts' \in {starts, starts + 1} /\ starts' \in 1 .. MaxStarts
                      /\ \/ process' = "killed" /\ exit' = exit /\ exit = -1 /\ starts' < MaxStarts
                         \/ process' = "failed" /\ exit' = 1
<1>1. MaxStarts \in Nat \ {0} /\ starts \in 1 .. MaxStarts
  BY RunAssumption DEF RangesOK
<1>2. Resume \/ ResumeStopped => starts < MaxStarts /\ Start
  BY DEF Resume, ResumeStopped, ProcessOK
<1>3. Starting => Load /\ starts' = starts + 1 /\ starts < MaxStarts
  BY <1>2 DEF Starting, Start
<1>4. ASSUME Kill
      PROVE  /\ Lost /\ process' = "killed" /\ exit' = exit /\ exit = -1
             /\ starts' = starts /\ starts < MaxStarts
  BY <1>4 DEF Kill, ProcessOK
<1>5. ASSUME ReportFails \/ \E w \in Workers : WriteFails(w)
      PROVE  Lost /\ process' = "failed" /\ exit' = 1 /\ starts' = starts
  BY <1>5 DEF ReportFails, WriteFails, Fail
<1>6. ASSUME Resume \/ ResumeStopped, tail = "split"
      PROVE  Lost /\ process' = "failed" /\ exit' = 1 /\ starts' = starts + 1 /\ starts < MaxStarts
  BY <1>2, <1>6 DEF Start, Fail
<1>7. Ending => /\ Lost /\ starts' \in {starts, starts + 1}
                /\ starts' = starts + 1 => starts < MaxStarts
                /\ \/ process' = "killed" /\ exit' = exit /\ exit = -1 /\ starts' < MaxStarts
                   \/ process' = "failed" /\ exit' = 1
  BY <1>1, <1>4, <1>5, <1>6 DEF Ending
<1> QED BY <1>1, <1>3, <1>7

\* Every step keeps the variables in their ranges and the hands full between pull and write.
LEMMA RangesNext == RunInv /\ [RunNext]_evaluation => RangesOK' /\ HandsOK'
<1> SUFFICES ASSUME RunInv, [RunNext]_evaluation PROVE RangesOK' /\ HandsOK'
  OBVIOUS
<1>0. RangesOK /\ HandsOK /\ ProcessOK
  BY DEF RunInv
<1>1. ASSUME NEW w \in Workers, Pull(w) PROVE RangesOK' /\ HandsOK'
  <2>1. /\ process' = process /\ starts' = starts /\ exit' = exit /\ results' = results
        /\ spent' = spent /\ journal' = journal
        /\ queue' \subseteq queue /\ aborted' \in {aborted, "budget"}
    BY <1>0, <1>1, PullCases DEF process_
  <2>2. worker'[w].ex = Nothing <=> worker'[w].pc \in {"pull", "over"}
    BY <1>0, <1>1, PullCases, FreshWorker, RunAssumption DEF RangesOK
  <2>3. worker'[w].pc # "backoff" /\ Alone(w)
    BY <1>0, <1>1, PullCases, FreshWorker
  <2> QED BY <1>0, <2>1, <2>2, <2>3 DEF RangesOK, HandsOK, Alone
<1>2. ASSUME NEW w \in Workers, Busy(w) PROVE RangesOK' /\ HandsOK'
  BY <1>0, <1>2, KeepsHand DEF RangesOK, HandsOK, Alone, shared, process_
<1>3. ASSUME NEW w \in Workers, Write(w) PROVE RangesOK' /\ HandsOK'
  <2>1. spent' \in Nat
    BY <1>0, <1>3, WriteDoes, Dearest DEF RangesOK
  <2>2. results' \in [Examples -> Statuses \cup {"none"}]
    BY <1>0, <1>3, WriteDoes DEF RangesOK
  <2>3. journal' \in [Examples -> Statuses \cup {"none"}]
    BY <1>0, <1>3, WriteDoes DEF RangesOK, Write, Append1
  <2>4. Alone(w) /\ worker'[w] = Idle /\ UNCHANGED <<process_, queue, aborted>>
    BY <1>0, <1>3, WriteDoes
  <2> QED BY <1>0, <2>1, <2>2, <2>3, <2>4, FreshWorker DEF RangesOK, HandsOK, Alone, process_
<1>4. CASE Report
  BY <1>0, <1>4 DEF Report, RangesOK, HandsOK
<1>5. CASE Ending
  <2>1. NoResult \in [Examples -> Statuses \cup {"none"}]
    BY DEF NoResult
  <2>2. /\ Lost /\ starts' \in 1 .. MaxStarts /\ process' \in {"killed", "failed"}
        /\ exit' \in {-1, 1}
    BY <1>0, <1>5, StartsAndEnds
  <2> QED BY <1>0, <2>1, <2>2, FreshWorker DEF Lost, RangesOK, HandsOK
<1>6. CASE Starting
  <2>1. starts' \in 1 .. MaxStarts
    BY <1>0, <1>6, RunAssumption, StartsAndEnds DEF RangesOK
  <2>2. /\ process' = "running" /\ exit' = -1 /\ aborted' = "no" /\ spent' = 0
        /\ results' = journal /\ journal' = journal /\ queue' \subseteq Examples
        /\ worker' = [w \in Workers |-> Idle]
    BY <1>0, <1>6, StartsAndEnds DEF Load, Pending
  <2> QED BY <1>0, <2>1, <2>2, FreshWorker DEF RangesOK, HandsOK
<1>7. CASE UNCHANGED evaluation
  BY <1>0, <1>7 DEF evaluation, process_, RangesOK, HandsOK
<1> QED BY <1>1, <1>2, <1>3, <1>4, <1>5, <1>6, <1>7 DEF RunNext, WorkerStep, Busy, Starting, Ending

\* Every step keeps the process's end, and the workers' being at work, accounted for.
LEMMA ProcessNext == RunInv /\ [RunNext]_evaluation => ProcessOK'
<1> SUFFICES ASSUME RunInv, [RunNext]_evaluation PROVE ProcessOK'
  OBVIOUS
<1>0. RangesOK /\ HandsOK /\ ProcessOK
  BY DEF RunInv
<1>1. ASSUME NEW w \in Workers, Pull(w) PROVE ProcessOK'
  <2>1. /\ Alone(w) /\ process = "running"
        /\ process' = process /\ starts' = starts /\ exit' = exit
    BY <1>0, <1>1, PullCases DEF process_
  <2>2. CASE worker'[w] = Stopped /\ UNCHANGED <<queue, aborted>> /\ (aborted # "no" \/ queue = {})
    BY <1>0, <2>1, <2>2 DEF ProcessOK
  <2>3. CASE aborted' = "budget"
    BY <1>0, <2>1, <2>3 DEF ProcessOK
  <2>4. CASE UNCHANGED aborted /\ aborted = "no" /\ worker'[w].pc = "task" /\ queue # {}
    BY <1>0, <2>1, <2>4 DEF ProcessOK, Alone
  <2> QED BY <1>0, <1>1, <2>2, <2>3, <2>4, PullCases
<1>2. ASSUME NEW w \in Workers, Busy(w) PROVE ProcessOK'
  BY <1>0, <1>2, KeepsHand DEF ProcessOK, Alone, shared, process_
<1>3. ASSUME NEW w \in Workers, Write(w) PROVE ProcessOK'
  BY <1>0, <1>3, WriteDoes, FreshWorker DEF ProcessOK, Alone, process_
<1>4. CASE Report
  BY <1>4 DEF Report, ProcessOK
<1>5. CASE Ending
  BY <1>0, <1>5, StartsAndEnds DEF ProcessOK
<1>6. CASE Starting
  <2>1. Load
    BY <1>0, <1>6, StartsAndEnds
  <2> QED BY <2>1, FreshWorker DEF Load, ProcessOK
<1>7. CASE UNCHANGED evaluation
  BY <1>0, <1>7 DEF evaluation, process_, ProcessOK
<1> QED BY <1>1, <1>2, <1>3, <1>4, <1>5, <1>6, <1>7 DEF RunNext, WorkerStep, Busy, Starting, Ending

\* A pull moves an example from the queue to one hand, a write from that hand to the results.
LEMMA OwnerNext == RunInv /\ [RunNext]_evaluation => OneOwner'
<1> SUFFICES ASSUME RunInv, [RunNext]_evaluation PROVE OneOwner'
  OBVIOUS
<1>0. RangesOK /\ HandsOK /\ ProcessOK /\ OneOwner
  BY DEF RunInv
<1>1. ASSUME NEW w \in Workers, Pull(w) PROVE OneOwner'
  <2>1. Alone(w) /\ process = "running" /\ results' = results
    BY <1>0, <1>1, PullCases
  <2>2. CASE worker'[w] = Stopped /\ queue' \subseteq queue
    <3>1. worker'[w].ex = Nothing /\ Nothing \notin queue'
      BY <1>0, <2>2, FreshWorker, RunAssumption DEF RangesOK
    <3> QED BY <1>0, <2>1, <2>2, <3>1 DEF OneOwner, InHand, Alone
  <2>3. ASSUME NEW e \in queue, queue' = queue \ {e}, worker'[w].ex = e PROVE OneOwner'
    BY <1>0, <2>1, <2>3 DEF OneOwner, InHand, Alone
  <2> QED BY <1>0, <1>1, <2>2, <2>3, PullCases
<1>2. ASSUME NEW w \in Workers, Busy(w) PROVE OneOwner'
  <2>1. \A v \in Workers : worker'[v].ex = worker[v].ex
    BY <1>0, <1>2, KeepsHand DEF Alone
  <2>2. process = "running" /\ UNCHANGED shared
    BY <1>0, <1>2, KeepsHand
  <2> QED BY <1>0, <2>1, <2>2 DEF OneOwner, InHand, shared
<1>3. ASSUME NEW w \in Workers, Write(w) PROVE OneOwner'
  <2>1. /\ Alone(w) /\ process = "running" /\ worker'[w].ex = Nothing /\ queue' = queue
        /\ worker[w].ex \in Examples /\ worker[w].ex # Nothing
        /\ results' = [results EXCEPT ![worker[w].ex] = worker[w].status]
    BY <1>0, <1>3, WriteDoes, FreshWorker, RunAssumption
  <2>2. \A e \in Examples : e # worker[w].ex => results'[e] = results[e]
    BY <1>0, <2>1 DEF RangesOK
  <2>3. \A v \in Workers \ {w} : worker'[v] = worker[v] /\ worker[v].ex \in Examples \cup {Nothing}
    BY <1>0, <2>1 DEF Alone, RangesOK, WorkerRange
  <2>4. queue \subseteq Examples
    BY <1>0 DEF RangesOK
  <2>5. \A v \in Workers \ {w} : worker[v].ex # Nothing => worker[v].ex # worker[w].ex
    BY <1>0, <2>1 DEF OneOwner, InHand
  <2>6. worker[w].ex \notin queue
    BY <1>0, <2>1 DEF OneOwner, InHand
  <2>7. /\ \A u, v \in Workers : u # v /\ worker'[u].ex # Nothing => worker'[u].ex # worker'[v].ex
        /\ \A v \in Workers : worker'[v].ex \notin queue'
    BY <1>0, <2>1, <2>3, <2>4, RunAssumption DEF OneOwner, InHand
  <2>8. \A v \in Workers : worker'[v].ex # Nothing => results'[worker'[v].ex] = "none"
    BY <1>0, <2>1, <2>2, <2>3, <2>5 DEF OneOwner, InHand
  <2>9. \A e \in queue' : results'[e] = "none"
    BY <1>0, <2>1, <2>2, <2>4, <2>6 DEF OneOwner
  <2> QED BY <2>7, <2>8, <2>9 DEF OneOwner, InHand
<1>4. CASE Report \/ Ending
  <2>1. process' # "running"
    BY <1>0, <1>4, StartsAndEnds DEF Report
  <2> QED BY <2>1 DEF OneOwner, InHand
<1>5. CASE Starting
  <2>1. /\ worker' = [w \in Workers |-> Idle] /\ results' = journal
        /\ queue' = {e \in Examples : journal[e] = "none"}
    BY <1>0, <1>5, StartsAndEnds DEF Load, Pending, Finished, Have
  <2>2. \A w \in Workers : worker'[w].ex = Nothing
    BY <2>1, FreshWorker
  <2> QED BY <2>1, <2>2, RunAssumption DEF OneOwner, InHand
<1>6. CASE UNCHANGED evaluation
  BY <1>0, <1>6 DEF evaluation, process_, OneOwner, InHand
<1> QED BY <1>1, <1>2, <1>3, <1>4, <1>5, <1>6 DEF RunNext, WorkerStep, Busy, Starting, Ending

\* Every step keeps an example queued, in hand or finished while the run is not aborted.
LEMMA ForgottenNext == RunInv /\ [RunNext]_evaluation => NothingForgotten'
<1> SUFFICES ASSUME RunInv, [RunNext]_evaluation PROVE NothingForgotten'
  OBVIOUS
<1>0. RangesOK /\ HandsOK /\ ProcessOK /\ NothingForgotten
  BY DEF RunInv
<1>1. ASSUME NEW w \in Workers, Pull(w) PROVE NothingForgotten'
  <2>1. Alone(w) /\ process = "running" /\ results' = results /\ worker[w].ex = Nothing
    BY <1>0, <1>1, PullCases
  <2>2. CASE worker'[w] = Stopped /\ UNCHANGED <<queue, aborted>>
    <3>1. \A v \in Workers : worker'[v].ex = worker[v].ex
      BY <2>1, <2>2, FreshWorker DEF Alone
    <3> QED BY <1>0, <2>1, <2>2, <3>1 DEF NothingForgotten, InHand
  <2>3. CASE aborted' = "budget"
    BY <2>3 DEF NothingForgotten
  <2>4. ASSUME NEW e \in queue, queue' = queue \ {e}, worker'[w].ex = e, aborted' = aborted
        PROVE  NothingForgotten'
    <3>1. e # Nothing /\ Nothing \notin Examples
      BY <1>0, RunAssumption DEF RangesOK
    <3> QED BY <1>0, <2>1, <2>4, <3>1 DEF NothingForgotten, InHand, Alone
  <2> QED BY <1>0, <1>1, <2>2, <2>3, <2>4, PullCases
<1>2. ASSUME NEW w \in Workers, Busy(w) PROVE NothingForgotten'
  <2>1. \A v \in Workers : worker'[v].ex = worker[v].ex
    BY <1>0, <1>2, KeepsHand DEF Alone
  <2>2. process = "running" /\ UNCHANGED shared
    BY <1>0, <1>2, KeepsHand
  <2> QED BY <1>0, <2>1, <2>2 DEF NothingForgotten, InHand, shared
<1>3. ASSUME NEW w \in Workers, Write(w) PROVE NothingForgotten'
  <2>1. /\ Alone(w) /\ process = "running" /\ UNCHANGED <<process_, queue, aborted>>
        /\ worker[w].ex \in Examples /\ worker[w].status # "none"
        /\ results' = [results EXCEPT ![worker[w].ex] = worker[w].status]
    BY <1>0, <1>3, WriteDoes DEF Statuses
  <2>2. \A e \in Examples : results'[e] = IF e = worker[w].ex THEN worker[w].status ELSE results[e]
    BY <1>0, <2>1 DEF RangesOK
  <2> QED BY <1>0, <2>1, <2>2 DEF NothingForgotten, InHand, Alone, process_
<1>4. CASE Report \/ Ending
  <2>1. process' # "running"
    BY <1>0, <1>4, StartsAndEnds DEF Report
  <2> QED BY <2>1 DEF NothingForgotten
<1>5. CASE Starting
  <2>1. results' = journal /\ queue' = {e \in Examples : journal[e] = "none"}
    BY <1>0, <1>5, StartsAndEnds DEF Load, Pending, Finished, Have
  <2> QED BY <2>1 DEF NothingForgotten
<1>6. CASE UNCHANGED evaluation
  BY <1>0, <1>6 DEF evaluation, process_, NothingForgotten, InHand
<1> QED BY <1>1, <1>2, <1>3, <1>4, <1>5, <1>6 DEF RunNext, WorkerStep, Busy, Starting, Ending

\* A pull charges for one more example while the budget has room for everybody's; a write
\* spends no more than what it was charged for.
LEMMA CommittedNext == RunInv /\ [RunNext]_evaluation => Committed'
<1> SUFFICES ASSUME RunInv, [RunNext]_evaluation PROVE Committed'
  OBVIOUS
<1>0. RangesOK /\ HandsOK /\ ProcessOK /\ Committed
  BY DEF RunInv
<1>a. /\ spent \in Nat /\ MaxCost \in Nat \ {0} /\ PerExample \in Nat
      /\ Cardinality(InFlight) \in Nat /\ Cardinality(Workers) \in Nat
      /\ Cardinality(InFlight) <= Cardinality(Workers)
      /\ Cardinality(InFlight') \in Nat /\ Cardinality(InFlight') <= Cardinality(Workers)
      /\ IsFiniteSet(InFlight)
  BY <1>0, Hands, Dearest, RunAssumption DEF RangesOK, InFlight
<1>b. \A m, n \in Nat : m <= n => m * PerExample \in Nat /\ m * PerExample <= n * PerExample
  <2>1. \A m, d \in Nat : (m + d) * PerExample = m * PerExample + d * PerExample
    BY <1>a
  <2> QED BY <1>a, <2>1
<1>1. ASSUME spent' = spent, InFlight' = InFlight PROVE Committed'
  BY <1>0, <1>1 DEF Committed
<1>2. ASSUME spent' = 0 PROVE Committed'
  BY <1>2, <1>a, <1>b DEF Committed
<1>3. ASSUME NEW w \in Workers, Pull(w) PROVE Committed'
  <2>1. /\ Alone(w) /\ worker[w].ex = Nothing /\ spent' = spent
        /\ worker'[w] = Stopped \/ ~Exhausted
    BY <1>0, <1>3, PullCases
  <2>2. CASE worker'[w] = Stopped
    <3>1. \A v \in Workers : worker'[v].ex = worker[v].ex
      BY <2>1, <2>2, FreshWorker DEF Alone
    <3> QED BY <1>1, <2>1, <3>1 DEF InFlight, InHand
  <2>3. CASE ~Exhausted
    BY <1>a, <1>b, <2>1, <2>3 DEF Committed, Exhausted
  <2> QED BY <2>1, <2>2, <2>3
<1>4. ASSUME NEW w \in Workers, Busy(w) PROVE Committed'
  <2>1. \A v \in Workers : worker'[v].ex = worker[v].ex
    BY <1>0, <1>4, KeepsHand DEF Alone
  <2>2. spent' = spent
    BY <1>0, <1>4, KeepsHand DEF shared
  <2> QED BY <1>1, <2>1, <2>2 DEF InFlight, InHand
<1>5. ASSUME NEW w \in Workers, Write(w) PROVE Committed'
  <2>1. /\ Alone(w) /\ worker'[w].ex = Nothing /\ worker[w].ex # Nothing
        /\ spent' = spent + worker[w].cost
        /\ worker[w].cost \in Nat /\ worker[w].cost <= PerExample
    BY <1>0, <1>5, WriteDoes, FreshWorker, Dearest, RunAssumption
  <2>2. InFlight' = InFlight \ {w} /\ w \in InFlight
    BY <2>1 DEF InFlight, InHand, Alone
  <2>3. Cardinality(InFlight') = Cardinality(InFlight) - 1
    BY <1>a, <2>2, FS_RemoveElement
  <2>4. Cardinality(InFlight) * PerExample = Cardinality(InFlight') * PerExample + PerExample
    BY <1>a, <2>3
  <2>5. Cardinality(InFlight') * PerExample \in Nat /\ Cardinality(Workers) * PerExample \in Nat
    BY <1>a, <1>b
  <2> QED BY <1>0, <1>a, <2>1, <2>4, <2>5 DEF Committed
<1>6. CASE Report
  BY <1>1, <1>6 DEF Report, InFlight, InHand
<1>7. CASE Ending \/ Starting
  BY <1>0, <1>2, <1>7, StartsAndEnds DEF Lost, Load
<1>8. CASE UNCHANGED evaluation
  BY <1>1, <1>8 DEF evaluation, InFlight, InHand
<1> QED BY <1>3, <1>4, <1>5, <1>6, <1>7, <1>8 DEF RunNext, WorkerStep, Busy, Starting, Ending

\* A dataset has finitely many examples.
LEMMA FiniteExamples == IsFiniteSet(Examples) /\ Len(Dataset) \in Nat
<1>1. Len(Dataset) \in Nat /\ DOMAIN Dataset = 1 .. Len(Dataset)
  BY RunAssumption, LenProperties
<1>2. Dataset \in Surjection(1 .. Len(Dataset), Examples)
  BY <1>1, RunAssumption, LenProperties DEF Examples, ToSet, Surjection
<1>3. IsFiniteSet(1 .. Len(Dataset))
  BY <1>1, FS_Interval
<1> QED BY <1>1, <1>2, <1>3, FS_Surjection

\* When nobody is at work and nothing was aborted the queue is empty, so everything has a
\* result, and the ceiling that was asked about is the whole dataset's.
LEMMA VerdictNext == RunInv /\ [RunNext]_evaluation => VerdictIsWhole'
<1> SUFFICES ASSUME RunInv, [RunNext]_evaluation PROVE VerdictIsWhole'
  OBVIOUS
<1>0. RangesOK /\ HandsOK /\ ProcessOK /\ NothingForgotten /\ VerdictIsWhole
  BY DEF RunInv
<1>1. CASE Report
  <2> SUFFICES ASSUME exit' \in {0, 1}, process = "running"
               PROVE  /\ Have(results) = Examples
                      /\ Cardinality(Errors) * MaxErrorShare[2] <= MaxErrorShare[1] * Len(Dataset)
    BY <1>1 DEF Report, WorkersOver, VerdictIsWhole, Have, Errors
  <2>1. aborted' = "no" /\ aborted = "no" /\ ~OverCeiling /\ process = "running"
    BY <1>1 DEF Report, WorkersOver
  <2>2. PICK w \in Workers : worker[w].pc = "over"
    BY <1>1, RunAssumption DEF Report, WorkersOver
  <2>3. queue = {}
    BY <1>0, <2>1, <2>2 DEF ProcessOK
  <2>4. \A v \in Workers : InHand(v) = Nothing
    BY <1>0, <1>1 DEF Report, WorkersOver, HandsOK, InHand
  <2>5. Have(results) = Examples
    BY <1>0, <2>1, <2>3, <2>4, RunAssumption DEF NothingForgotten, Have
  <2>6. Cardinality(Errors) \in Nat
    BY FiniteExamples, FS_Subset, FS_CardinalityType DEF Errors
  <2>7. MaxErrorShare[1] \in Nat /\ MaxErrorShare[2] \in Nat
    BY RunAssumption
  <2>8. Cardinality(Have(results)) = Len(Dataset)
    BY <2>5, RunAssumption
  <2>9. ~(Cardinality(Errors) * MaxErrorShare[2] > MaxErrorShare[1] * Len(Dataset))
    BY <2>1, <2>8 DEF OverCeiling
  <2>10. /\ Cardinality(Errors) * MaxErrorShare[2] \in Nat
         /\ MaxErrorShare[1] * Len(Dataset) \in Nat
    BY <2>6, <2>7, FiniteExamples
  <2> QED BY <2>5, <2>9, <2>10
<1>2. CASE exit' = -1
  BY <1>2 DEF VerdictIsWhole
<1>3. CASE UNCHANGED <<process, exit, results>>
  BY <1>0, <1>3 DEF VerdictIsWhole, Have, Errors
<1>4. CASE Ending \/ Starting
  BY <1>0, <1>2, <1>4, StartsAndEnds DEF Load, VerdictIsWhole
<1>5. ASSUME NEW w \in Workers, Pull(w) \/ Busy(w) \/ Write(w) PROVE VerdictIsWhole'
  <2>1. process = "running" /\ exit' = exit
    BY <1>0, <1>5, PullCases, KeepsHand, WriteDoes DEF process_, shared
  <2> QED BY <1>0, <1>2, <2>1 DEF ProcessOK
<1>6. CASE UNCHANGED evaluation
  BY <1>3, <1>6 DEF evaluation, process_
<1> QED BY <1>1, <1>4, <1>5, <1>6 DEF RunNext, WorkerStep, Busy, Starting, Ending

-----------------------------------------------------------------------------
\* Ownership, coverage and what is committed hold together in every reachable state.
THEOREM InductiveInvariant == RunSpec => []RunInv
<1>1. RunInv /\ [RunNext]_evaluation => RunInv'
  BY RangesNext, ProcessNext, OwnerNext, ForgottenNext, CommittedNext, VerdictNext DEF RunInv
<1> QED BY <1>1, RunInitOK, PTL DEF RunSpec

\* Every variable of the runner stays in its range.
THEOREM TypeCorrect == RunSpec => []RunTypeOK
<1>1. RunInv => RunTypeOK
  BY DEF RunInv, RangesOK, RunTypeOK, WorkerRange, Statuses
<1> QED BY <1>1, InductiveInvariant, PTL

\* "Overspend is bounded and statable" (runner.run_suite): no example is in two hands, and
\* the budget is passed by less than one example per worker, for every budget and pool.
THEOREM OverspendAlwaysBounded == RunSpec => []OverspendBounded
<1>1. RunInv => OverspendBounded
  <2> SUFFICES ASSUME RunInv PROVE spent < MaxCost + Cardinality(Workers) * PerExample
    BY DEF RunInv, OverspendBounded
  <2>1. /\ spent \in Nat /\ MaxCost \in Nat /\ Cardinality(InFlight) * PerExample \in Nat
        /\ Cardinality(Workers) * PerExample \in Nat
    BY Hands, Dearest, RunAssumption DEF RunInv, RangesOK, InFlight
  <2> QED BY <2>1 DEF RunInv, Committed
<1> QED BY <1>1, InductiveInvariant, PTL

\* A run that ends with the gates' exit code has a result for every example, whatever was
\* killed, dropped by a budget or resumed before (runner.run_suite, _check_error_ceiling).
THEOREM VerdictsAreWhole == RunSpec => []VerdictIsWhole
<1>1. RunInv => VerdictIsWhole
  BY DEF RunInv
<1> QED BY <1>1, InductiveInvariant, PTL

-----------------------------------------------------------------------------
(* The record of runs.  The fields of a client, and where each kind of one  *)
(* can be.                                                                  *)
Fields == {"pc", "op", "kind", "config", "number", "content", "share", "quality", "aborted",
           "base", "seen", "verdict", "sent", "compared", "server", "published", "required", "exit"}
Deciding == {"fetch", "run"}
Preparing == {"dataset", "insertName", "resolve", "createVersion", "upload", "lock", "highest",
              "insertVersion", "experiment"}
Recording == {"open", "results", "complete", "metrics", "compare"}
Reporting == Recording \ {"open"}
PcsOf(op) ==
  CASE op = "none" -> {"idle"}
    [] op = "register" -> {"name", "insertName", "version", "highest", "insertVersion",
                           "registered", "failed"}
    [] op = "job" -> Deciding \cup Preparing \cup Recording \cup {"exit", "over", "gone"}
    [] op = "promote" -> {"promote", "promoted"}

VersionRange == [status : {"none", "draft", "locked"}, rows : 0 .. Parts]
RunRange == [status : {"none", "experiment", "running", "failed", "succeeded"},
             content : Contents \cup {Nobody}, results : 0 .. Parts, metrics : {"none", "scores", "all"}]
Ran == {finished[i] : i \in DOMAIN finished}

StoreRanges ==
  /\ DOMAIN client = Clients /\ DOMAIN registry = Versioned
  /\ version \in [Contents -> VersionRange] /\ run \in [Clients -> RunRange]
  /\ finished \in Seq(Clients)

\* A number is one version's, and of the evaluator a configuration is too.
RegistryOK ==
  \A kind \in Versioned : \A r, s \in registry[kind] :
    r.number = s.number \/ (kind = "evaluator" /\ r.config = s.config) => r = s
\* A locked version is whole, and nobody fills a version that another does.
VersionsOK ==
  /\ \A t \in Contents : version[t].status = "locked" => version[t].rows = Parts
  /\ \A c, d \in Clients :
       /\ client[c].pc \in {"upload", "lock"} /\ client[d].pc \in {"upload", "lock"}
       /\ client[c].content = client[d].content
       => c = d
\* Who has finished was not aborted, and has sent all it had.
FinishedOK ==
  \A b \in Ran : run[b].status = "succeeded" /\ run[b].results = client[b].share /\ ~client[b].aborted

(* What a client may count on where it stands.                              *)
FormOK(c) ==
  /\ DOMAIN client[c] = Fields /\ client[c].op \in {"none", "register", "job", "promote"}
  /\ client[c].pc \in PcsOf(client[c].op)
  /\ client[c].op = "register" => client[c].kind \in {"evaluator", "policy"}
  /\ client[c].op = "job" /\ client[c].pc \in {"highest", "insertVersion"} => client[c].kind = "gates"
ClaimOK(c) ==
  At(c, "registered") =>
    \E r \in registry[client[c].kind] : r.number = client[c].number /\ r.config = client[c].config
UploadOK(c) ==
  /\ client[c].op = "job" /\ client[c].pc # "gone" => client[c].content \in Contents
  /\ client[c].op = "job" /\ client[c].pc \in Deciding \cup Preparing \cup Recording =>
       /\ client[c].sent \in 0 .. Parts - 1
       /\ client[c].pc \notin {"upload", "results"} => client[c].sent = 0
  /\ client[c].pc \in Reporting => client[c].share \in 1 .. Parts
  /\ At(c, "results") => client[c].sent < client[c].share
  /\ At(c, "upload") => version[client[c].content] = [status |-> "draft", rows |-> client[c].sent]
  /\ At(c, "lock") => version[client[c].content] = [status |-> "draft", rows |-> Parts]
Recorded(c, status, count, metrics) ==
  /\ run[c] = [status |-> status, content |-> client[c].content, results |-> count, metrics |-> metrics]
  /\ version[client[c].content] = [status |-> "locked", rows |-> Parts]
RecordOK(c) ==
  /\ client[c].op # "job" \/ client[c].pc \in Deciding \cup Preparing => run[c] = NoRun
  /\ At(c, "open") => Recorded(c, "experiment", 0, "none")
  /\ At(c, "results") => Recorded(c, "running", client[c].sent, "none")
  /\ At(c, "complete") => Recorded(c, "running", client[c].share, "none")
  /\ At(c, "metrics") => Recorded(c, End(c), client[c].share, "scores")
  /\ At(c, "compare") => Recorded(c, End(c), client[c].share, "all")
PublishedOK(c) ==
  client[c].published =>
    /\ client[c].pc \in {"exit", "over"} /\ Recorded(c, End(c), client[c].share, "all")
    /\ /\ client[c].compared = client[c].base
       /\ client[c].base # Nobody => client[c].seen /\ run[client[c].base].content = client[c].content
       => client[c].server = client[c].verdict
JudgedOK(c) ==
  client[c].op = "job" =>
    /\ client[c].base \in Ran \cup {Nobody} /\ client[c].compared \in Ran \cup {Nobody}
    /\ client[c].seen => HasMetric(client[c].base)
    /\ client[c].pc \in Preparing \cup Recording \cup {"exit"} =>
         client[c].verdict = Verdict(TRUE, client[c].quality, client[c].base, client[c].seen, TRUE)
    /\ client[c].pc # "over" => client[c].exit # 0
    /\ client[c].exit = 0 => /\ client[c].verdict = "pass" /\ ~client[c].aborted
                             /\ client[c].required => client[c].published

ClientOK(c) ==
  FormOK(c) /\ ClaimOK(c) /\ UploadOK(c) /\ RecordOK(c) /\ PublishedOK(c) /\ JudgedOK(c)
StoreOK == StoreRanges /\ RegistryOK /\ VersionsOK /\ FinishedOK
IInv == StoreOK /\ \A c \in Clients : ClientOK(c)

(* The frame: what a step of c leaves of the rest.                          *)
Kept(c) ==
  /\ DOMAIN client' = Clients
  /\ \A d \in Clients \ {c} : client'[d] = client[d] /\ run'[d] = run[d]
  /\ Ran \subseteq Ran'
  /\ c \in Ran => /\ client'[c].quality = client[c].quality
                  /\ run'[c].content = run[c].content
                  /\ run[c].metrics = "all" => run'[c].metrics = "all"
  /\ \A t \in Contents : \/ version'[t] = version[t]
                         \/ version[t].status = "none"
                         \/ client[c].pc \in {"upload", "lock"} /\ client[c].content = t
  /\ \A kind \in Versioned : registry[kind] \subseteq registry'[kind]

\* The pcs of a job, but for the three that registrations share.
LEMMA Working ==
  ASSUME NEW c \in Clients, FormOK(c),
         client[c].pc \in Deciding \cup (Preparing \ {"insertName", "highest", "insertVersion"})
                          \cup Recording \cup {"exit", "over", "gone"}
  PROVE  client[c].op = "job"
BY DEF FormOK, PcsOf, Deciding, Preparing, Recording

\* What the others may count on is what they could.
LEMMA OthersKeep ==
  ASSUME IInv, NEW c \in Clients, Kept(c), NEW d \in Clients, d # c
  PROVE  ClientOK(d)'
<1>1. /\ ClientOK(d) /\ FormOK(d) /\ ClaimOK(d) /\ UploadOK(d) /\ RecordOK(d) /\ PublishedOK(d)
      /\ JudgedOK(d) /\ UploadOK(c) /\ FormOK(c) /\ VersionsOK /\ StoreRanges
  BY DEF IInv, ClientOK, StoreOK
<1>2. client'[d] = client[d] /\ run'[d] = run[d]
  BY DEF Kept
<1>3. \A t \in Contents : version[t].status = "locked" => version'[t] = version[t]
  <2> TAKE t \in Contents
  <2>1. CASE client[c].pc \in {"upload", "lock"} /\ client[c].content = t
    BY <1>1, <2>1 DEF UploadOK, At
  <2>2. CASE ~(client[c].pc \in {"upload", "lock"} /\ client[c].content = t)
    BY <2>2 DEF Kept
  <2> QED BY <2>1, <2>2
<1>4. /\ \A b \in Ran : run'[b].content = run[b].content /\ client'[b].quality = client[b].quality
      /\ \A b \in Ran : run[b].metrics = "all" => run'[b].metrics = "all"
      /\ Ran \subseteq Ran' /\ Ran \subseteq Clients
  <2>1. Ran \subseteq Clients
    BY <1>1 DEF StoreRanges, Ran
  <2> QED BY <2>1 DEF Kept
<1>5. FormOK(d)'
  BY <1>1, <1>2 DEF FormOK
<1>6. ClaimOK(d)'
  <2> SUFFICES ASSUME At(d, "registered")'
               PROVE  \E r \in registry'[client[d].kind] :
                        r.number = client[d].number /\ r.config = client[d].config
    BY <1>2 DEF ClaimOK, At
  <2>1. At(d, "registered") /\ client[d].kind \in Versioned
    BY <1>1, <1>2 DEF At, FormOK, PcsOf, Deciding, Preparing, Recording, Versioned
  <2> QED BY <1>1, <2>1 DEF ClaimOK, Kept
<1>7. UploadOK(d)'
  <2>1. ASSUME client[d].pc \in {"upload", "lock"}
        PROVE  version'[client[d].content] = version[client[d].content]
    <3>1. client[d].content \in Contents /\ version[client[d].content].status = "draft"
      BY <1>1, <2>1, Working DEF UploadOK, At, Preparing
    <3>2. ~(client[c].pc \in {"upload", "lock"} /\ client[c].content = client[d].content)
      BY <1>1, <2>1 DEF VersionsOK
    <3> QED BY <3>1, <3>2 DEF Kept
  <2> QED BY <1>1, <1>2, <2>1 DEF UploadOK, At
<1>8. ASSUME NEW status, NEW count, NEW metrics, Recorded(d, status, count, metrics),
             client[d].content \in Contents
      PROVE  Recorded(d, status, count, metrics)'
  BY <1>2, <1>3, <1>8 DEF Recorded
<1>9. client[d].pc \in Recording \cup {"exit", "over"} => client[d].content \in Contents
  BY <1>1, Working DEF UploadOK, Recording
<1>10. RecordOK(d)'
  BY <1>1, <1>2, <1>8, <1>9 DEF RecordOK, At, End, Recording
<1>11. PublishedOK(d)'
  <2> SUFFICES ASSUME client[d].published PROVE PublishedOK(d)'
    BY <1>2 DEF PublishedOK
  <2>1. client[d].pc \in {"exit", "over"} /\ Recorded(d, End(d), client[d].share, "all")
    BY <1>1 DEF PublishedOK
  <2>2. client[d].base \in Ran \cup {Nobody}
    BY <1>1, <2>1, Working DEF JudgedOK
  <2>3. PICK status, share : status = End(d) /\ share = client[d].share
    OBVIOUS
  <2>4. Recorded(d, status, share, "all")'
    BY <1>8, <1>9, <2>1, <2>3
  <2>5. Recorded(d, End(d), client[d].share, "all")'
    BY <1>2, <2>3, <2>4 DEF Recorded, End
  <2>6. client[d].base # Nobody => run'[client[d].base].content = run[client[d].base].content
    BY <1>4, <2>2
  <2> QED BY <1>1, <1>2, <2>1, <2>5, <2>6 DEF PublishedOK
<1>12. JudgedOK(d)'
  BY <1>1, <1>2, <1>4 DEF JudgedOK, HasMetric, Verdict
<1> QED BY <1>5, <1>6, <1>7, <1>10, <1>11, <1>12 DEF ClientOK

\* What every step comes down to: the store and the client that took it.
LEMMA Steps ==
  ASSUME IInv, StoreOK', NEW c \in Clients, Kept(c), ClientOK(c)'
  PROVE  IInv'
BY OthersKeep DEF IInv

\* A client becomes another record; the others stay as they are.
LEMMA Became ==
  ASSUME IInv, NEW c \in Clients, NEW rec, Become(c, rec)
  PROVE  /\ client'[c] = rec /\ DOMAIN client' = Clients
         /\ \A d \in Clients \ {c} : client'[d] = client[d]
BY DEF Become, IInv, StoreOK, StoreRanges

\* Who has finished is a job, and past the end of its run.
LEMMA FinishedAreOver ==
  ASSUME IInv, NEW c \in Ran
  PROVE  /\ c \in Clients /\ client[c].op = "job" /\ ~client[c].aborted
         /\ client[c].pc \in {"metrics", "compare", "exit", "over", "gone"}
<1>1. c \in Clients
  BY DEF IInv, StoreOK, StoreRanges, Ran
<1>2. run[c].status = "succeeded" /\ ~client[c].aborted
  BY DEF IInv, StoreOK, FinishedOK
<1>3. FormOK(c) /\ RecordOK(c)
  BY <1>1 DEF IInv, ClientOK
<1>4. client[c].op = "job" /\ client[c].pc \notin Deciding \cup Preparing
  BY <1>2, <1>3 DEF RecordOK, NoRun
<1>5. client[c].pc \notin {"open", "results", "complete"}
  BY <1>2, <1>3 DEF RecordOK, Recorded, At
<1> QED BY <1>1, <1>2, <1>3, <1>4, <1>5 DEF FormOK, PcsOf, Recording

\* A step that changes only its client.
LEMMA Resting ==
  ASSUME IInv, NEW c \in Clients, NEW rec, Become(c, rec),
         UNCHANGED <<registry, version, run, finished>>, rec.pc \notin {"upload", "lock"},
         c \in Ran => /\ rec.quality = client[c].quality /\ rec.share = client[c].share
                      /\ ~rec.aborted
  PROVE  StoreOK' /\ Kept(c) /\ client'[c] = rec
<1>1. /\ client'[c] = rec /\ DOMAIN client' = Clients
      /\ \A d \in Clients \ {c} : client'[d] = client[d]
  BY Became
<1>2. /\ UNCHANGED <<version, run, finished, registry>> /\ Ran' = Ran /\ Ran \subseteq Clients
      /\ StoreRanges /\ RegistryOK /\ VersionsOK /\ FinishedOK
  BY DEF Ran, IInv, StoreOK, StoreRanges
<1>3. StoreRanges' /\ RegistryOK'
  BY <1>1, <1>2 DEF StoreRanges, RegistryOK
<1>4. VersionsOK'
  BY <1>1, <1>2 DEF VersionsOK
<1>5. FinishedOK'
  <2> SUFFICES ASSUME NEW b \in Ran
               PROVE  /\ run'[b].status = "succeeded" /\ run'[b].results = client'[b].share
                      /\ ~client'[b].aborted
    BY <1>2 DEF FinishedOK
  <2>1. run[b].status = "succeeded" /\ run[b].results = client[b].share /\ ~client[b].aborted
    BY <1>2 DEF FinishedOK
  <2>2. client'[b].share = client[b].share /\ ~client'[b].aborted
    BY <1>1, <1>2, <2>1
  <2> QED BY <1>2, <2>1, <2>2
<1>6. Kept(c)
  BY <1>1, <1>2 DEF Kept
<1> QED BY <1>1, <1>3, <1>4, <1>5, <1>6 DEF StoreOK

\* What a job keeps as long as it works.
Lasting == {"op", "content", "quality", "aborted", "base", "seen", "verdict", "compared",
            "published", "required", "exit"}

\* A job that goes on, or gives up publishing, has its verdict and its baseline still.
LEMMA Works ==
  ASSUME IInv, NEW c \in Clients, Kept(c), client[c].op = "job",
         client[c].pc \in Preparing \cup Recording, DOMAIN client'[c] = Fields,
         \A f \in Lasting : client'[c][f] = client[c][f],
         client'[c].pc \in Preparing \cup Recording \cup {"exit"},
         client'[c].pc \in {"highest", "insertVersion"} => client'[c].kind = "gates"
  PROVE  /\ FormOK(c)' /\ ClaimOK(c)' /\ PublishedOK(c)' /\ JudgedOK(c)'
         /\ client[c].content \in Contents /\ client'[c].op = "job" /\ client'[c].content = client[c].content
         /\ client'[c].aborted = client[c].aborted
<1>1. FormOK(c) /\ UploadOK(c) /\ PublishedOK(c) /\ JudgedOK(c)
  BY DEF IInv, ClientOK
<1>2. /\ client'[c].op = "job" /\ client'[c].content = client[c].content
      /\ client'[c].quality = client[c].quality /\ client'[c].aborted = client[c].aborted
      /\ client'[c].base = client[c].base /\ client'[c].seen = client[c].seen
      /\ client'[c].verdict = client[c].verdict /\ client'[c].compared = client[c].compared
      /\ client'[c].published = client[c].published /\ client'[c].exit = client[c].exit
  BY DEF Lasting
<1>3. client[c].content \in Contents /\ ~client[c].published /\ client[c].exit # 0
  BY <1>1 DEF UploadOK, PublishedOK, JudgedOK, Preparing, Recording
<1>4. FormOK(c)'
  BY <1>2 DEF FormOK, PcsOf
<1>5. ClaimOK(c)'
  BY DEF ClaimOK, At, Preparing, Recording
<1>6. PublishedOK(c)'
  BY <1>2, <1>3 DEF PublishedOK
<1>7. \A b \in Ran : /\ client'[b].quality = client[b].quality
                     /\ run[b].metrics = "all" => run'[b].metrics = "all"
  <2>1. Ran \subseteq Clients
    BY DEF IInv, StoreOK, StoreRanges, Ran
  <2> QED BY <2>1 DEF Kept
<1>8. JudgedOK(c)'
  <2>1. client[c].base \in Ran' \cup {Nobody} /\ client[c].compared \in Ran' \cup {Nobody}
    BY <1>1 DEF JudgedOK, Kept
  <2>2. client[c].seen => HasMetric(client[c].base)
    BY <1>1 DEF JudgedOK
  <2>3. client[c].seen => /\ client[c].base \in Ran /\ run'[client[c].base].metrics = "all"
                          /\ client'[client[c].base].quality = client[client[c].base].quality
    BY <1>1, <1>7, <2>2 DEF JudgedOK, HasMetric
  <2>4. client[c].verdict = Verdict(TRUE, client[c].quality, client[c].base, client[c].seen, TRUE)
    BY <1>1 DEF JudgedOK
  <2>5. client[c].verdict = Verdict(TRUE, client[c].quality, client[c].base, client[c].seen, TRUE)'
    BY <1>2, <2>3, <2>4 DEF Verdict
  <2>6. client'[c].verdict = Verdict(TRUE, client[c].quality, client[c].base, client[c].seen, TRUE)'
    BY <1>2, <2>5
  <2>7. client[c].seen => HasMetric(client[c].base)'
    BY <1>2, <2>2, <2>3 DEF HasMetric
  <2> QED BY <1>2, <1>3, <2>1, <2>6, <2>7 DEF JudgedOK
<1> QED BY <1>2, <1>3, <1>4, <1>5, <1>6, <1>8

\* Going to a pc is that.
LEMMA Went ==
  ASSUME IInv, NEW c \in Clients, NEW at, Goto(c, at)
  PROVE  \E rec : /\ Become(c, rec) /\ DOMAIN rec = Fields /\ rec.pc = at
                  /\ \A f \in Fields \ {"pc"} : rec[f] = client[c][f]
<1>1. PICK old : old = client[c]
  OBVIOUS
<1>2. DOMAIN old = Fields
  BY <1>1 DEF IInv, ClientOK, FormOK
<1>3. PICK rec : rec = [old EXCEPT !.pc = at]
  OBVIOUS
<1>4. Become(c, rec)
  BY <1>1, <1>3 DEF Goto
<1>5. DOMAIN rec = Fields /\ rec.pc = at /\ \A f \in Fields \ {"pc"} : rec[f] = old[f]
  BY <1>2, <1>3 DEF Fields
<1> QED BY <1>1, <1>4, <1>5

\* A job goes on without having touched the record, or gives up publishing.
LEMMA Goes ==
  ASSUME IInv, NEW c \in Clients, NEW rec, Become(c, rec), UNCHANGED <<registry, store>>,
         client[c].op = "job", client[c].pc \in Preparing \cup Recording, DOMAIN rec = Fields,
         \A f \in Lasting : rec[f] = client[c][f], rec.share = client[c].share,
         \/ rec.pc = "exit"
         \/ /\ client[c].pc \in Preparing /\ rec.pc \in Preparing \ {"upload", "lock"} /\ rec.sent = 0
            /\ rec.pc \in {"highest", "insertVersion"} => rec.kind = "gates"
  PROVE  IInv'
<1>1. rec.quality = client[c].quality /\ rec.aborted = client[c].aborted
  BY DEF Lasting
<1>2. /\ rec.pc \notin {"upload", "lock"}
      /\ c \in Ran => rec.quality = client[c].quality /\ rec.share = client[c].share /\ ~rec.aborted
  BY <1>1, FinishedAreOver
<1>3. StoreOK' /\ Kept(c) /\ client'[c] = rec
  BY <1>2, Resting DEF store
<1>4. /\ FormOK(c)' /\ ClaimOK(c)' /\ PublishedOK(c)' /\ JudgedOK(c)'
      /\ client[c].content \in Contents /\ client'[c].op = "job" /\ client'[c].content = client[c].content
  <2>1. /\ rec.pc \in Preparing \cup Recording \cup {"exit"}
        /\ rec.pc \in {"highest", "insertVersion"} => rec.kind = "gates"
    OBVIOUS
  <2> QED BY <1>3, <2>1, Works
<1>5. UploadOK(c)'
  BY <1>3, <1>4, PartAssumption DEF UploadOK, At, Deciding, Preparing, Recording, Reporting
<1>6. RecordOK(c)'
  <2>1. RecordOK(c) /\ run' = run
    BY DEF IInv, ClientOK, store
  <2> QED BY <1>3, <1>4, <2>1 DEF RecordOK, At, Deciding, Preparing, Recording
<1>7. ClientOK(c)'
  BY <1>4, <1>5, <1>6 DEF ClientOK
<1> QED BY <1>3, <1>7, Steps

\* A refused request ends a job's publishing.
LEMMA Refused ==
  ASSUME IInv, NEW c \in Clients, client[c].op = "job", client[c].pc \in Preparing \cup Recording,
         Refuse(c), UNCHANGED <<registry, store>>
  PROVE  IInv'
<1>1. Goto(c, "exit")
  BY DEF Refuse
<1>2. PICK rec : /\ Become(c, rec) /\ DOMAIN rec = Fields /\ rec.pc = "exit"
                 /\ \A f \in Fields \ {"pc"} : rec[f] = client[c][f]
  BY <1>1, Went
<1>3. rec.share = client[c].share /\ \A f \in Lasting : rec[f] = client[c][f]
  BY <1>2 DEF Lasting, Fields
<1> QED BY <1>2, <1>3, Goes

\* A job that goes from one request to the next.
LEMMA Advances ==
  ASSUME IInv, NEW c \in Clients, client[c].op = "job", client[c].pc \in Preparing \ {"upload"},
         NEW at \in Preparing \ {"upload", "lock", "highest", "insertVersion"}, Goto(c, at),
         UNCHANGED <<registry, store>>
  PROVE  IInv'
<1>1. PICK rec : /\ Become(c, rec) /\ DOMAIN rec = Fields /\ rec.pc = at
                 /\ \A f \in Fields \ {"pc"} : rec[f] = client[c][f]
  BY Went
<1>2. rec.share = client[c].share /\ \A f \in Lasting : rec[f] = client[c][f]
  BY <1>1 DEF Lasting, Fields
<1>3. rec.sent = 0
  <2>1. client[c].sent = 0
    BY DEF IInv, ClientOK, UploadOK, Preparing
  <2> QED BY <1>1, <2>1 DEF Fields
<1> QED BY <1>1, <1>2, <1>3, Goes

\* ensure_dataset finds the dataset or inserts it, unless another job was faster.
LEMMA DatasetEnsured ==
  ASSUME IInv, NEW c \in Clients, EnsureDataset(c)
  PROVE  IInv'
<1>1. /\ client[c].pc \in {"dataset", "insertName"} /\ UNCHANGED <<registry, store>>
      /\ Goto(c, "insertName") \/ Goto(c, "resolve") \/ Refuse(c)
  BY DEF EnsureDataset, CheckName, InsertName, At
<1>2. client[c].op = "job"
  BY Working DEF EnsureDataset, Serving, At, IInv, ClientOK, Preparing
<1>3. CASE Refuse(c)
  BY <1>1, <1>2, <1>3, Refused DEF Preparing
<1>4. CASE Goto(c, "insertName") \/ Goto(c, "resolve")
  <2>1. /\ client[c].pc \in Preparing \ {"upload"}
        /\ "insertName" \in Preparing \ {"upload", "lock", "highest", "insertVersion"}
        /\ "resolve" \in Preparing \ {"upload", "lock", "highest", "insertVersion"}
    BY <1>1 DEF Preparing
  <2> QED BY <1>1, <1>2, <1>4, <2>1, Advances
<1> QED BY <1>1, <1>3, <1>4

\* ensure_version finds the version, and uses it when it has no hash or the right one.
LEMMA VersionResolved ==
  ASSUME IInv, NEW c \in Clients, Resolve(c)
  PROVE  IInv'
<1>1. At(c, "resolve") /\ UNCHANGED <<registry, store>>
  BY DEF Resolve
<1>2. client[c].op = "job" /\ client[c].pc \in Preparing \ {"upload"}
  BY <1>1, Working DEF At, IInv, ClientOK, Preparing
<1>3. CASE Refuse(c)
  BY <1>1, <1>2, <1>3, Refused
<1>4. CASE Goto(c, "createVersion")
  <2>1. "createVersion" \in Preparing \ {"upload", "lock", "highest", "insertVersion"}
    BY DEF Preparing
  <2> QED BY <1>1, <1>2, <1>4, <2>1, Advances
<1>5. CASE ~Refuse(c) /\ ~Goto(c, "createVersion")
  <2>1. PICK old : old = client[c]
    OBVIOUS
  <2>2. DOMAIN old = Fields /\ old.sent = 0
    BY <1>1, <1>2, <2>1 DEF IInv, ClientOK, FormOK, UploadOK, At, Preparing
  <2>3. PICK rec : rec = [old EXCEPT !.pc = "highest", !.kind = "gates"]
    OBVIOUS
  <2>4. Become(c, rec)
    BY <1>5, <2>1, <2>3 DEF Resolve, AfterVersion
  <2>5. /\ DOMAIN rec = Fields /\ rec.pc = "highest" /\ rec.kind = "gates" /\ rec.sent = 0
        /\ rec.share = old.share /\ \A f \in Lasting : rec[f] = old[f]
    BY <2>2, <2>3 DEF Fields, Lasting
  <2>6. /\ rec.share = client[c].share /\ \A f \in Lasting : rec[f] = client[c][f]
        /\ client[c].pc \in Preparing /\ rec.pc \in Preparing \ {"upload", "lock"}
    BY <1>2, <2>1, <2>5 DEF Preparing
  <2> QED BY <1>1, <1>2, <2>4, <2>5, <2>6, Goes
<1> QED BY <1>3, <1>4, <1>5

\* --local: nothing is published.
LEMMA Skipped ==
  ASSUME IInv, NEW c \in Clients, Skip(c)
  PROVE  IInv'
<1>1. /\ At(c, "dataset") /\ UNCHANGED <<registry, store>>
      /\ Become(c, [client[c] EXCEPT !.pc = "exit", !.server = "skipped"])
  BY DEF Skip, OnlyClient
<1>2. client[c].op = "job" /\ client[c].pc \in Preparing
  BY <1>1, Working DEF At, IInv, ClientOK, Preparing
<1>3. PICK old : old = client[c]
  OBVIOUS
<1>4. DOMAIN old = Fields
  BY <1>3 DEF IInv, ClientOK, FormOK
<1>5. PICK rec : rec = [old EXCEPT !.pc = "exit", !.server = "skipped"]
  OBVIOUS
<1>6. Become(c, rec)
  BY <1>1, <1>3, <1>5
<1>7. DOMAIN rec = Fields /\ rec.pc = "exit" /\ \A f \in Fields \ {"pc", "server"} : rec[f] = old[f]
  BY <1>4, <1>5 DEF Fields
<1>8. rec.share = client[c].share /\ \A f \in Lasting : rec[f] = client[c][f]
  BY <1>3, <1>7 DEF Lasting, Fields
<1> QED BY <1>1, <1>2, <1>6, <1>7, <1>8, Goes

\* A request fails: the job publishes no further.
LEMMA Failed ==
  ASSUME IInv, NEW c \in Clients, RequestFails(c)
  PROVE  IInv'
<1>1. /\ client[c].op = "job" /\ UNCHANGED <<registry, store>>
      /\ Become(c, [Forgotten(c) EXCEPT !.pc = "exit"])
      /\ client[c].pc \notin {"idle", "fetch", "run", "exit", "over", "gone"}
  BY DEF RequestFails, Requesting, Serving
<1>2. client[c].pc \in Preparing \cup Recording
  BY <1>1 DEF IInv, ClientOK, FormOK, PcsOf, Deciding
<1>3. PICK old : old = client[c]
  OBVIOUS
<1>4. DOMAIN old = Fields
  BY <1>3 DEF IInv, ClientOK, FormOK
<1>5. PICK forgot : forgot = [old EXCEPT !.sent = 0, !.number = 0, !.kind = "none"]
  OBVIOUS
<1>6. PICK rec : rec = [forgot EXCEPT !.pc = "exit"]
  OBVIOUS
<1>7. Become(c, rec)
  BY <1>1, <1>3, <1>5, <1>6 DEF Forgotten
<1>8. DOMAIN forgot = Fields /\ \A f \in Fields \ {"sent", "number", "kind"} : forgot[f] = old[f]
  BY <1>4, <1>5 DEF Fields
<1>9. DOMAIN rec = Fields /\ rec.pc = "exit" /\ \A f \in Fields \ {"pc"} : rec[f] = forgot[f]
  BY <1>6, <1>8 DEF Fields
<1>10. rec.share = client[c].share /\ \A f \in Lasting : rec[f] = client[c][f]
  BY <1>3, <1>8, <1>9 DEF Lasting, Fields
<1> QED BY <1>1, <1>2, <1>7, <1>9, <1>10, Goes

-----------------------------------------------------------------------------
(* Registrations and promotions.                                            *)
\* Who is not a job has neither run nor published anything.
LEMMA NoJob ==
  ASSUME IInv, NEW c \in Clients, client[c].op # "job"
  PROVE  c \notin Ran /\ ~client[c].published /\ run[c] = NoRun /\ client[c].pc \notin {"upload", "lock"}
<1>1. FormOK(c) /\ PublishedOK(c) /\ RecordOK(c)
  BY DEF IInv, ClientOK
<1>2. c \notin Ran
  BY FinishedAreOver
<1>3. ~client[c].published
  BY <1>1, Working DEF PublishedOK
<1>4. client[c].pc \notin {"upload", "lock"}
  BY <1>1, Working DEF Preparing
<1> QED BY <1>1, <1>2, <1>3, <1>4 DEF RecordOK

\* What such a client may become next.
Civil(rec) ==
  /\ DOMAIN rec = Fields /\ rec.op \in {"register", "promote"} /\ rec.pc \in PcsOf(rec.op)
  /\ rec.op = "register" => rec.kind \in {"evaluator", "policy"}
  /\ ~rec.published

\* It leaves the jobs alone.
LEMMA CivilKeeps ==
  ASSUME IInv, StoreOK', NEW c \in Clients, client[c].op # "job", Kept(c), Civil(client'[c]),
         run'[c] = run[c], ClaimOK(c)'
  PROVE  IInv'
<1>1. run'[c] = NoRun
  BY NoJob
<1>2. /\ client'[c].op \in {"register", "promote"} /\ client'[c].pc \in PcsOf(client'[c].op)
      /\ ~client'[c].published
  BY DEF Civil
<1>3. client'[c].pc \notin Deciding \cup Recording \cup Reporting \cup {"upload", "lock"}
  BY <1>2 DEF PcsOf, Deciding, Recording, Reporting
<1>4. FormOK(c)'
  BY <1>2 DEF FormOK, Civil
<1>5. UploadOK(c)' /\ PublishedOK(c)' /\ JudgedOK(c)'
  <2>1. client'[c].pc # "results" /\ client'[c].op # "job"
    BY <1>2, <1>3 DEF Recording
  <2> QED BY <1>2, <1>3, <2>1 DEF UploadOK, PublishedOK, JudgedOK, At
<1>6. RecordOK(c)'
  BY <1>1, <1>2, <1>3 DEF RecordOK, At, Recording
<1>7. ClientOK(c)'
  BY <1>4, <1>5, <1>6 DEF ClientOK
<1> QED BY <1>7, Steps

\* A step of theirs that changes nothing but itself.
LEMMA CivilSteps ==
  ASSUME IInv, NEW c \in Clients, NEW rec, client[c].op # "job", Become(c, rec),
         UNCHANGED <<registry, store>>, Civil(rec),
         rec.pc = "registered" =>
           \E r \in registry[rec.kind] : r.number = rec.number /\ r.config = rec.config
  PROVE  IInv'
<1>1. c \notin Ran
  BY NoJob
<1>2. rec.pc \notin {"upload", "lock"}
  BY DEF Civil, PcsOf
<1>3. StoreOK' /\ Kept(c) /\ client'[c] = rec
  BY <1>1, <1>2, Resting DEF store
<1>4. ClaimOK(c)'
  BY <1>3 DEF ClaimOK, At
<1>5. run'[c] = run[c]
  BY DEF store
<1> QED BY <1>3, <1>4, <1>5, CivilKeeps

\* It goes to a pc of a registration.
LEMMA Proceeds ==
  ASSUME IInv, NEW c \in Clients, client[c].op = "register", NEW at \in PcsOf("register") \ {"registered"},
         Goto(c, at), UNCHANGED <<registry, store>>
  PROVE  IInv'
<1>1. PICK rec : /\ Become(c, rec) /\ DOMAIN rec = Fields /\ rec.pc = at
                 /\ \A f \in Fields \ {"pc"} : rec[f] = client[c][f]
  BY Went
<1>2. client[c].kind \in {"evaluator", "policy"} /\ ~client[c].published
  BY NoJob DEF IInv, ClientOK, FormOK
<1>3. Civil(rec)
  BY <1>1, <1>2 DEF Civil, Fields
<1> QED BY <1>1, <1>3, CivilSteps

\* A registration begins.
LEMMA RegistrationBegun ==
  ASSUME IInv, NEW c \in Clients, BeginRegister(c), UNCHANGED store
  PROVE  IInv'
<1>1. PICK kind \in {"evaluator", "policy"}, config \in Configs :
        Become(c, [Fresh EXCEPT !.pc = "name", !.op = "register", !.kind = kind, !.config = config])
  BY DEF BeginRegister
<1>2. client[c].op # "job" /\ UNCHANGED registry
  BY DEF BeginRegister, At, IInv, ClientOK, FormOK, PcsOf, Deciding, Preparing, Recording
<1>3. PICK rec :
        rec = [Fresh EXCEPT !.pc = "name", !.op = "register", !.kind = kind, !.config = config]
  OBVIOUS
<1>4. Civil(rec) /\ rec.pc # "registered"
  BY <1>3 DEF Civil, Fresh, PcsOf, Fields
<1> QED BY <1>1, <1>2, <1>3, <1>4, CivilSteps

\* It checks the name, and inserts it.
LEMMA RegistrationNamed ==
  ASSUME IInv, NEW c \in Clients, UNCHANGED store,
         \/ At(c, "name") /\ CheckName(c, client[c].kind, "version")
         \/ client[c].op = "register" /\ InsertName(c, client[c].kind, "version")
  PROVE  IInv'
<1>1. UNCHANGED registry
  BY DEF CheckName, InsertName
<1>2. client[c].op = "register"
  BY DEF At, IInv, ClientOK, FormOK, PcsOf, Deciding, Preparing, Recording
<1>3. Goto(c, "version") \/ Goto(c, "insertName") \/ Goto(c, "failed")
  BY <1>2 DEF CheckName, InsertName, Refuse
<1>4. {"version", "insertName", "failed"} \subseteq PcsOf("register") \ {"registered"}
  BY DEF PcsOf
<1> QED BY <1>1, <1>2, <1>3, <1>4, Proceeds

\* It finds the configuration it registers, which is then its claim.
LEMMA ConfigFound ==
  ASSUME IInv, NEW c \in Clients, FindConfig(c), UNCHANGED store
  PROVE  IInv'
<1>1. At(c, "version") /\ UNCHANGED registry
  BY DEF FindConfig
<1>2. client[c].op = "register"
  BY <1>1 DEF At, IInv, ClientOK, FormOK, PcsOf, Deciding, Preparing, Recording
<1>3. CASE Goto(c, "highest")
  <2>1. "highest" \in PcsOf("register") \ {"registered"}
    BY DEF PcsOf
  <2> QED BY <1>1, <1>2, <1>3, <2>1, Proceeds
<1>4. CASE ~Goto(c, "highest")
  <2>1. PICK r \in Rows(client[c].kind, client[c].config) :
          Become(c, [client[c] EXCEPT !.pc = "registered", !.number = r.number])
    BY <1>4 DEF FindConfig
  <2>2. PICK old : old = client[c]
    OBVIOUS
  <2>3. /\ DOMAIN old = Fields /\ old.op = "register" /\ old.kind \in {"evaluator", "policy"}
        /\ ~old.published
    BY <1>2, <2>2, NoJob DEF IInv, ClientOK, FormOK
  <2>4. PICK rec : rec = [old EXCEPT !.pc = "registered", !.number = r.number]
    OBVIOUS
  <2>5. /\ DOMAIN rec = Fields /\ rec.pc = "registered" /\ rec.number = r.number
        /\ rec.op = "register" /\ rec.kind = old.kind /\ rec.config = old.config /\ ~rec.published
    BY <2>3, <2>4 DEF Fields
  <2>6. Civil(rec)
    BY <2>3, <2>5 DEF Civil, PcsOf
  <2>7. Become(c, rec)
    BY <2>1, <2>2, <2>4
  <2>8. r \in registry[rec.kind] /\ r.number = rec.number /\ r.config = rec.config
    BY <2>2, <2>5 DEF Rows
  <2> QED BY <1>1, <1>2, <2>6, <2>7, <2>8, CivilSteps
<1> QED BY <1>3, <1>4

\* The next number is read, by a registration or by a job.
LEMMA HighestRead ==
  ASSUME IInv, NEW c \in Clients, ReadHighest(c), UNCHANGED store
  PROVE  IInv'
<1>1. At(c, "highest") /\ UNCHANGED registry
  BY DEF ReadHighest
<1>2. PICK old : old = client[c]
  OBVIOUS
<1>3. PICK number : number = Highest(client[c].kind) + 1
  OBVIOUS
<1>4. PICK rec : rec = [old EXCEPT !.pc = "insertVersion", !.number = number]
  OBVIOUS
<1>5. Become(c, rec)
  BY <1>2, <1>3, <1>4 DEF ReadHighest
<1>6. FormOK(c) /\ UploadOK(c) /\ DOMAIN old = Fields
  BY <1>2 DEF IInv, ClientOK, FormOK
<1>7. /\ DOMAIN rec = Fields /\ rec.pc = "insertVersion"
      /\ \A f \in Fields \ {"pc", "number"} : rec[f] = old[f]
  BY <1>4, <1>6 DEF Fields
<1>8. client[c].op \in {"register", "job"}
  BY <1>1, <1>6 DEF At, FormOK, PcsOf
<1>9. CASE client[c].op = "job"
  <2>1. /\ client[c].pc \in Preparing /\ rec.pc \in Preparing \ {"upload", "lock"}
        /\ client[c].kind = "gates" /\ client[c].sent = 0
    BY <1>1, <1>6, <1>7, <1>9 DEF At, FormOK, UploadOK, Preparing
  <2>2. rec.kind = "gates" /\ rec.sent = 0 /\ rec.share = client[c].share
    BY <1>2, <1>7, <2>1 DEF Fields
  <2>3. \A f \in Lasting : rec[f] = client[c][f]
    BY <1>2, <1>7 DEF Lasting, Fields
  <2> QED BY <1>1, <1>5, <1>7, <1>9, <2>1, <2>2, <2>3, Goes
<1>10. CASE client[c].op = "register"
  <2>1. client[c].kind \in {"evaluator", "policy"} /\ ~client[c].published
    BY <1>6, <1>10, NoJob DEF FormOK
  <2>2. Civil(rec)
    BY <1>2, <1>7, <1>10, <2>1 DEF Civil, PcsOf, Fields
  <2> QED BY <1>1, <1>5, <1>7, <1>10, <2>2, CivilSteps
<1> QED BY <1>8, <1>9, <1>10

\* A promotion begins by reading what is promoted.
LEMMA PromotionBegun ==
  ASSUME IInv, NEW c \in Clients, BeginPromote(c)
  PROVE  IInv'
<1>1. PICK e \in Experiments :
        Become(c, [Fresh EXCEPT !.pc = "promote", !.op = "promote", !.base = e, !.config = promoted])
  BY DEF BeginPromote, OnlyClient
<1>2. client[c].op # "job" /\ UNCHANGED <<registry, store>>
  BY DEF BeginPromote, OnlyClient, At, IInv, ClientOK, FormOK, PcsOf, Deciding, Preparing, Recording
<1>3. PICK rec :
        rec = [Fresh EXCEPT !.pc = "promote", !.op = "promote", !.base = e, !.config = promoted]
  OBVIOUS
<1>4. Civil(rec) /\ rec.pc # "registered"
  BY <1>3 DEF Civil, Fresh, PcsOf, Fields
<1> QED BY <1>1, <1>2, <1>3, <1>4, CivilSteps

\* And ends by replacing it.
LEMMA Promoted ==
  ASSUME IInv, NEW c \in Clients, Promote(c)
  PROVE  IInv'
<1>1. At(c, "promote") /\ Goto(c, "promoted") /\ UNCHANGED <<registry, version, run, finished>>
  BY DEF Promote
<1>2. client[c].op = "promote"
  BY <1>1 DEF At, IInv, ClientOK, FormOK, PcsOf, Deciding, Preparing, Recording
<1>3. PICK rec : /\ Become(c, rec) /\ DOMAIN rec = Fields /\ rec.pc = "promoted"
                 /\ \A f \in Fields \ {"pc"} : rec[f] = client[c][f]
  BY <1>1, Went
<1>4. ~client[c].published /\ c \notin Ran
  BY <1>2, NoJob
<1>5. Civil(rec)
  BY <1>2, <1>3, <1>4 DEF Civil, PcsOf, Fields
<1>6. StoreOK' /\ Kept(c) /\ client'[c] = rec
  BY <1>1, <1>3, <1>4, Resting
<1>7. ClaimOK(c)'
  BY <1>3, <1>6 DEF ClaimOK, At
<1> QED BY <1>1, <1>2, <1>5, <1>6, <1>7, CivilKeeps

-----------------------------------------------------------------------------
(* What jobs write to the store.                                            *)
\* A row that is not taken gets its number, and its configuration, alone.
LEMMA Numbered ==
  ASSUME IInv, NEW c \in Clients, NEW rec, Become(c, rec), UNCHANGED store,
         NEW kind \in Versioned, NEW row, ~Taken(kind, row),
         DOMAIN registry' = Versioned, registry'[kind] = registry[kind] \cup {row},
         \A k \in Versioned \ {kind} : registry'[k] = registry[k],
         rec.pc \notin {"upload", "lock"}, c \notin Ran
  PROVE  StoreOK' /\ Kept(c) /\ client'[c] = rec
<1>1. /\ client'[c] = rec /\ DOMAIN client' = Clients
      /\ \A d \in Clients \ {c} : client'[d] = client[d]
  BY Became
<1>2. /\ UNCHANGED <<version, run, finished>> /\ Ran' = Ran /\ Ran \subseteq Clients
      /\ StoreRanges /\ RegistryOK /\ VersionsOK /\ FinishedOK
  BY DEF store, Ran, IInv, StoreOK, StoreRanges
<1>3. StoreRanges'
  BY <1>1, <1>2 DEF StoreRanges
<1>4. RegistryOK'
  <2> SUFFICES ASSUME NEW k \in Versioned, NEW r \in registry'[k], NEW s \in registry'[k],
                      r.number = s.number \/ (k = "evaluator" /\ r.config = s.config)
               PROVE  r = s
    BY DEF RegistryOK
  <2>1. CASE k = kind
    BY <1>2, <2>1 DEF RegistryOK, Taken
  <2>2. CASE k # kind
    BY <1>2, <2>2 DEF RegistryOK
  <2> QED BY <2>1, <2>2
<1>5. VersionsOK'
  BY <1>1, <1>2 DEF VersionsOK
<1>6. FinishedOK'
  <2>1. \A b \in Ran : client'[b] = client[b]
    BY <1>1, <1>2
  <2> QED BY <1>2, <2>1 DEF FinishedOK
<1>7. Kept(c)
  BY <1>1, <1>2 DEF Kept
<1> QED BY <1>1, <1>3, <1>4, <1>5, <1>6, <1>7 DEF StoreOK

\* A version is written by who created it.
LEMMA Stored ==
  ASSUME IInv, NEW c \in Clients, NEW rec, Become(c, rec), UNCHANGED <<registry, run, finished>>,
         c \notin Ran, NEW t \in Contents, version' \in [Contents -> VersionRange],
         \A u \in Contents \ {t} : version'[u] = version[u],
         version'[t].status = "locked" => version'[t].rows = Parts,
         \/ version[t].status = "none"
         \/ client[c].pc \in {"upload", "lock"} /\ client[c].content = t,
         rec.pc \in {"upload", "lock"} => rec.content = t
  PROVE  StoreOK' /\ Kept(c) /\ client'[c] = rec
<1>1. /\ client'[c] = rec /\ DOMAIN client' = Clients
      /\ \A d \in Clients \ {c} : client'[d] = client[d]
  BY Became
<1>2. /\ Ran' = Ran /\ Ran \subseteq Clients
      /\ StoreRanges /\ RegistryOK /\ VersionsOK /\ FinishedOK
  BY DEF Ran, IInv, StoreOK, StoreRanges
<1>3. StoreRanges' /\ RegistryOK'
  BY <1>1, <1>2 DEF StoreRanges, RegistryOK
<1>4. ASSUME NEW d \in Clients \ {c}, client[d].pc \in {"upload", "lock"}, client[d].content = t
      PROVE  FALSE
  <2>1. version[t].status = "draft"
    <3>1. UploadOK(d)
      BY DEF IInv, ClientOK
    <3> QED BY <1>4, <3>1 DEF UploadOK, At
  <2> QED BY <1>2, <1>4, <2>1 DEF VersionsOK
<1>5. VersionsOK'
  BY <1>1, <1>2, <1>4 DEF VersionsOK
<1>6. FinishedOK'
  <2>1. \A b \in Ran : client'[b] = client[b]
    BY <1>1, <1>2
  <2> QED BY <1>2, <2>1 DEF FinishedOK
<1>7. Kept(c)
  BY <1>1, <1>2 DEF Kept
<1> QED BY <1>1, <1>3, <1>5, <1>6, <1>7 DEF StoreOK

\* A run is written by its job, and is among the finished only if it ended well.
LEMMA Noted ==
  ASSUME IInv, NEW c \in Clients, NEW rec, Become(c, rec), UNCHANGED <<registry, version>>,
         rec.pc \notin {"upload", "lock"}, run' \in [Clients -> RunRange],
         \A d \in Clients \ {c} : run'[d] = run[d],
         finished' \in Seq(Clients), Ran \subseteq Ran', Ran' \subseteq Ran \cup {c},
         c \in Ran' => run'[c].status = "succeeded" /\ run'[c].results = rec.share /\ ~rec.aborted,
         c \in Ran => /\ rec.quality = client[c].quality /\ run'[c].content = run[c].content
                      /\ run[c].metrics = "all" => run'[c].metrics = "all"
  PROVE  StoreOK' /\ Kept(c) /\ client'[c] = rec
<1>1. /\ client'[c] = rec /\ DOMAIN client' = Clients
      /\ \A d \in Clients \ {c} : client'[d] = client[d]
  BY Became
<1>2. StoreRanges /\ RegistryOK /\ VersionsOK /\ FinishedOK /\ Ran' \subseteq Clients
  BY DEF Ran, IInv, StoreOK, StoreRanges
<1>3. StoreRanges' /\ RegistryOK'
  BY <1>1, <1>2 DEF StoreRanges, RegistryOK
<1>4. VersionsOK'
  BY <1>1, <1>2 DEF VersionsOK
<1>5. FinishedOK'
  <2>1. \A b \in Ran' \ {c} : b \in Ran /\ client'[b] = client[b] /\ run'[b] = run[b]
    BY <1>1, <1>2
  <2>2. \A b \in Ran' \ {c} : /\ run'[b].status = "succeeded" /\ run'[b].results = client'[b].share
                              /\ ~client'[b].aborted
    BY <1>2, <2>1 DEF FinishedOK
  <2>3. c \in Ran' => /\ run'[c].status = "succeeded" /\ run'[c].results = client'[c].share
                      /\ ~client'[c].aborted
    BY <1>1
  <2>4. \A b \in Ran' : /\ run'[b].status = "succeeded" /\ run'[b].results = client'[b].share
                        /\ ~client'[b].aborted
    BY <2>2, <2>3
  <2> QED BY <2>4 DEF FinishedOK
<1>6. Kept(c)
  BY <1>1 DEF Kept
<1> QED BY <1>1, <1>3, <1>4, <1>5, <1>6 DEF StoreOK

\* A job that goes on with what it has recorded.
LEMMA Records ==
  ASSUME IInv, StoreOK', NEW c \in Clients, Kept(c), client[c].op = "job",
         client[c].pc \in Preparing \cup Recording, DOMAIN client'[c] = Fields,
         \A f \in Lasting : client'[c][f] = client[c][f],
         client'[c].pc \in Preparing \cup Recording,
         client'[c].pc \in {"highest", "insertVersion"} => client'[c].kind = "gates",
         client'[c].sent \in 0 .. Parts - 1,
         client'[c].pc \notin {"upload", "results"} => client'[c].sent = 0,
         client'[c].pc \in Reporting => client'[c].share \in 1 .. Parts,
         client'[c].pc = "results" => client'[c].sent < client'[c].share,
         client'[c].pc = "upload" =>
           version'[client[c].content] = [status |-> "draft", rows |-> client'[c].sent],
         client'[c].pc = "lock" => version'[client[c].content] = [status |-> "draft", rows |-> Parts],
         RecordOK(c)'
  PROVE  IInv'
<1>1. client'[c].pc \in Preparing \cup Recording \cup {"exit"}
  OBVIOUS
<1>2. /\ FormOK(c)' /\ ClaimOK(c)' /\ PublishedOK(c)' /\ JudgedOK(c)'
      /\ client[c].content \in Contents /\ client'[c].op = "job" /\ client'[c].content = client[c].content
  BY <1>1, Works
<1>3. UploadOK(c)'
  BY <1>2 DEF UploadOK, At
<1>4. ClientOK(c)'
  BY <1>2, <1>3 DEF ClientOK
<1> QED BY <1>4, Steps

\* The registration, or the job, inserts the version it has numbered.
LEMMA VersionInserted ==
  ASSUME IInv, NEW c \in Clients, InsertVersion(c), UNCHANGED store
  PROVE  IInv'
<1>1. PICK kind, row : kind = client[c].kind /\ row = [number |-> client[c].number, config |-> client[c].config]
  OBVIOUS
<1>2. At(c, "insertVersion") /\ FormOK(c) /\ UploadOK(c) /\ RecordOK(c) /\ PublishedOK(c)
  BY DEF InsertVersion, IInv, ClientOK
<1>3. client[c].op \in {"register", "job"}
  BY <1>2 DEF At, FormOK, PcsOf
<1>4. kind \in Versioned /\ c \notin Ran
  BY <1>1, <1>2, <1>3, FinishedAreOver DEF At, FormOK, Versioned
<1>5. CASE Refuse(c) /\ UNCHANGED registry
  <2>1. CASE client[c].op = "job"
    BY <1>2, <1>5, <2>1, Refused DEF At, Preparing
  <2>2. CASE client[c].op = "register"
    <3>1. Goto(c, "failed") /\ "failed" \in PcsOf("register") \ {"registered"}
      BY <1>5, <2>2 DEF Refuse, PcsOf
    <3> QED BY <1>5, <2>2, <3>1, Proceeds
  <2> QED BY <1>3, <2>1, <2>2
<1>6. CASE ~(Refuse(c) /\ UNCHANGED registry)
  <2>1. /\ ~Taken(kind, row) /\ registry' = [registry EXCEPT ![kind] = @ \cup {row}]
        /\ IF client[c].op = "job"
             THEN Become(c, [client[c] EXCEPT !.pc = "experiment", !.number = 0])
             ELSE Goto(c, "registered")
    BY <1>1, <1>6 DEF InsertVersion
  <2>2. /\ DOMAIN registry' = Versioned /\ registry'[kind] = registry[kind] \cup {row}
        /\ \A k \in Versioned \ {kind} : registry'[k] = registry[k]
    BY <1>4, <2>1 DEF IInv, StoreOK, StoreRanges
  <2>3. CASE client[c].op = "job"
    <3>1. PICK old : old = client[c]
      OBVIOUS
    <3>2. PICK rec : rec = [old EXCEPT !.pc = "experiment", !.number = 0]
      OBVIOUS
    <3>3. Become(c, rec)
      BY <2>1, <2>3, <3>1, <3>2
    <3>4. DOMAIN rec = Fields /\ rec.pc = "experiment" /\ \A f \in Fields \ {"pc", "number"} : rec[f] = old[f]
      BY <1>2, <3>1, <3>2 DEF FormOK, Fields
    <3>5. StoreOK' /\ Kept(c) /\ client'[c] = rec
      BY <1>4, <2>1, <2>2, <3>3, <3>4, Numbered
    <3>6. /\ \A f \in Lasting : rec[f] = client[c][f]
          /\ rec.sent = client[c].sent
      BY <3>1, <3>4 DEF Lasting, Fields
    <3>7. client[c].pc \in Preparing /\ rec.pc \in Preparing /\ client[c].sent = 0
      BY <1>2, <2>3, <3>4 DEF At, UploadOK, Preparing
    <3>8. RecordOK(c)'
      <4>1. run'[c] = NoRun
        BY <1>2, <3>7 DEF store, RecordOK
      <4> QED BY <3>4, <3>5, <4>1 DEF RecordOK, At
    <3>9. rec.sent \in 0 .. Parts - 1 /\ rec.sent = 0 /\ rec.pc \notin Reporting
      BY <3>4, <3>6, <3>7, PartAssumption DEF Reporting, Recording
    <3> HIDE DEF Lasting
    <3> QED BY <2>3, <3>4, <3>5, <3>6, <3>7, <3>8, <3>9, Records
  <2>4. CASE client[c].op = "register"
    <3>1. Goto(c, "registered")
      BY <2>1, <2>4
    <3>2. PICK rec : /\ Become(c, rec) /\ DOMAIN rec = Fields /\ rec.pc = "registered"
                     /\ \A f \in Fields \ {"pc"} : rec[f] = client[c][f]
      BY <3>1, Went
    <3>3. StoreOK' /\ Kept(c) /\ client'[c] = rec
      BY <1>4, <2>1, <2>2, <3>2, Numbered
    <3>4. /\ rec.kind = kind /\ rec.number = row.number /\ rec.config = row.config
          /\ rec.op = "register"
      BY <1>1, <2>4, <3>2 DEF Fields
    <3>5. Civil(rec)
      <4>1. kind \in {"evaluator", "policy"} /\ ~client[c].published
        BY <1>1, <1>2, <2>4, NoJob DEF FormOK
      <4>2. ~rec.published
        BY <3>2, <4>1 DEF Fields
      <4> QED BY <3>2, <3>4, <4>1, <4>2 DEF Civil, PcsOf
    <3>6. row \in registry'[kind]
      BY <2>2
    <3>7. ClaimOK(c)'
      BY <3>3, <3>4, <3>6 DEF ClaimOK
    <3> QED BY <2>4, <3>3, <3>5, <3>7, CivilKeeps DEF store
  <2> QED BY <1>3, <2>3, <2>4
<1> QED BY <1>5, <1>6

\* A request is sent, and the last one is the last.
LEMMA Sending ==
  ASSUME IInv, NEW c \in Clients, NEW at \in {"upload", "results"}, NEW next,
         NEW parts \in 1 .. Parts, client[c].sent < parts, Send(c, at, next, parts)
  PROVE  /\ At(c, at) /\ client[c].op = "job" /\ client[c].content \in Contents
         /\ client[c].sent \in 0 .. Parts - 1
         /\ \E rec : /\ Become(c, rec) /\ DOMAIN rec = Fields
                     /\ \A f \in Fields \ {"pc", "sent"} : rec[f] = client[c][f]
                     /\ \/ client[c].sent + 1 = parts /\ rec.pc = next /\ rec.sent = 0
                        \/ /\ client[c].sent + 1 < parts /\ rec.pc = at
                           /\ rec.sent = client[c].sent + 1
<1>1. At(c, at) /\ FormOK(c) /\ UploadOK(c)
  BY DEF Send, IInv, ClientOK
<1>2. client[c].op = "job"
  BY <1>1, Working DEF At, Preparing, Recording
<1>3. client[c].content \in Contents /\ client[c].sent \in 0 .. Parts - 1
  BY <1>1, <1>2 DEF At, UploadOK, Preparing, Recording
<1>4. PICK old : old = client[c]
  OBVIOUS
<1>5. PICK sent, pc : /\ sent = (old.sent + 1) % parts
                      /\ pc = IF old.sent + 1 = parts THEN next ELSE at
  OBVIOUS
<1>6. PICK rec : rec = [old EXCEPT !.sent = sent, !.pc = pc]
  OBVIOUS
<1>7. Become(c, rec)
  BY <1>4, <1>5, <1>6 DEF Send
<1>8. DOMAIN rec = Fields /\ rec.pc = pc /\ rec.sent = sent /\ \A f \in Fields \ {"pc", "sent"} : rec[f] = old[f]
  BY <1>1, <1>4, <1>6 DEF FormOK, Fields
<1>9. CASE old.sent + 1 = parts
  <2>1. sent = 0
    <3>1. parts % parts = 0
      BY PartAssumption
    <3> QED BY <1>5, <1>9, <3>1
  <2> QED BY <1>1, <1>2, <1>3, <1>4, <1>5, <1>7, <1>8, <1>9, <2>1
<1>10. CASE old.sent + 1 # parts
  <2>1. old.sent + 1 < parts
    BY <1>3, <1>4, <1>10, PartAssumption
  <2>2. sent = old.sent + 1
    BY <1>3, <1>4, <1>5, <2>1, PartAssumption
  <2> QED BY <1>1, <1>2, <1>3, <1>4, <1>5, <1>7, <1>8, <1>10, <2>1, <2>2
<1> QED BY <1>9, <1>10

\* A version is created, empty, by the job that fills it.
LEMMA VersionCreated ==
  ASSUME IInv, NEW c \in Clients, CreateVersion(c)
  PROVE  IInv'
<1>1. /\ At(c, "createVersion") /\ UNCHANGED <<registry, run, finished, promoted>>
      /\ FormOK(c) /\ UploadOK(c) /\ RecordOK(c) /\ StoreRanges
  BY DEF CreateVersion, IInv, ClientOK, StoreOK
<1>2. client[c].op = "job" /\ client[c].pc \in Preparing /\ c \notin Ran
  BY <1>1, Working, FinishedAreOver DEF At, Preparing
<1>3. CASE Refuse(c) /\ UNCHANGED version
  BY <1>1, <1>2, <1>3, Refused DEF store
<1>4. CASE ~(Refuse(c) /\ UNCHANGED version)
  <2>1. PICK t \in Contents : t = client[c].content
    BY <1>1, <1>2 DEF UploadOK, At
  <2>2. PICK empty : empty = [status |-> "draft", rows |-> 0]
    OBVIOUS
  <2>3. /\ version[t].status = "none" /\ Goto(c, "upload")
        /\ version' = [version EXCEPT ![t] = empty]
    BY <1>4, <2>1, <2>2 DEF CreateVersion
  <2>4. empty \in VersionRange /\ empty.status = "draft"
    BY <2>2, PartAssumption DEF VersionRange
  <2>5. /\ version' \in [Contents -> VersionRange] /\ version'[t] = empty
        /\ \A u \in Contents \ {t} : version'[u] = version[u]
    BY <1>1, <2>3, <2>4 DEF StoreRanges
  <2>6. PICK rec : /\ Become(c, rec) /\ DOMAIN rec = Fields /\ rec.pc = "upload"
                   /\ \A f \in Fields \ {"pc"} : rec[f] = client[c][f]
    BY <2>3, Went
  <2>7. rec.content = t /\ rec.sent = 0
    BY <1>1, <1>2, <2>1, <2>6 DEF UploadOK, At, Fields
  <2>8. StoreOK' /\ Kept(c) /\ client'[c] = rec
    BY <1>1, <1>2, <2>3, <2>4, <2>5, <2>6, <2>7, Stored
  <2>9. \A f \in Lasting : rec[f] = client[c][f]
    BY <2>6 DEF Lasting, Fields
  <2>10. RecordOK(c)'
    <3>1. run'[c] = NoRun
      BY <1>1, <1>2 DEF RecordOK
    <3> QED BY <2>6, <2>8, <3>1 DEF RecordOK, At
  <2>11. rec.pc \in Preparing \ Reporting /\ rec.sent \in 0 .. Parts - 1
    BY <2>6, <2>7, PartAssumption DEF Preparing, Reporting, Recording
  <2>12. version'[client[c].content] = [status |-> "draft", rows |-> rec.sent]
    BY <2>1, <2>2, <2>5, <2>7
  <2> HIDE DEF Lasting
  <2> QED BY <1>2, <2>6, <2>7, <2>8, <2>9, <2>10, <2>11, <2>12, Records
<1> QED BY <1>3, <1>4

\* It fills it, one request after another.
LEMMA VersionFilled ==
  ASSUME IInv, NEW c \in Clients, Upload(c)
  PROVE  IInv'
<1>1. /\ Send(c, "upload", "lock", Parts) /\ UNCHANGED <<registry, run, finished, promoted>>
      /\ version' = [version EXCEPT ![client[c].content].rows = @ + 1]
      /\ UploadOK(c) /\ RecordOK(c) /\ StoreRanges
  BY DEF Upload, IInv, ClientOK, StoreOK
<1>2. /\ At(c, "upload") /\ client[c].op = "job" /\ client[c].content \in Contents
      /\ client[c].sent \in 0 .. Parts - 1
      /\ \E rec : /\ Become(c, rec) /\ DOMAIN rec = Fields
                  /\ \A f \in Fields \ {"pc", "sent"} : rec[f] = client[c][f]
                  /\ \/ client[c].sent + 1 = Parts /\ rec.pc = "lock" /\ rec.sent = 0
                     \/ /\ client[c].sent + 1 < Parts /\ rec.pc = "upload"
                        /\ rec.sent = client[c].sent + 1
  <2>1. client[c].op = "job" /\ client[c].pc \in Preparing
    BY <1>1, Working DEF Send, At, IInv, ClientOK, Preparing
  <2>2. Parts \in 1 .. Parts /\ client[c].sent < Parts
    BY <1>1, <2>1, PartAssumption DEF UploadOK
  <2> QED BY <1>1, <2>2, Sending
<1>3. PICK rec : /\ Become(c, rec) /\ DOMAIN rec = Fields
                 /\ \A f \in Fields \ {"pc", "sent"} : rec[f] = client[c][f]
                 /\ \/ client[c].sent + 1 = Parts /\ rec.pc = "lock" /\ rec.sent = 0
                    \/ /\ client[c].sent + 1 < Parts /\ rec.pc = "upload"
                       /\ rec.sent = client[c].sent + 1
  BY <1>2
<1>4. PICK t \in Contents : t = client[c].content
  BY <1>2
<1>5. PICK more : more = [status |-> "draft", rows |-> client[c].sent + 1]
  OBVIOUS
<1>6. version' = [version EXCEPT ![t] = more]
  <2>1. version[t] = [status |-> "draft", rows |-> client[c].sent]
    BY <1>1, <1>2, <1>4 DEF UploadOK
  <2>2. [version[t] EXCEPT !.rows = @ + 1] = more
    BY <1>5, <2>1
  <2>3. version' = [version EXCEPT ![t] = [version[t] EXCEPT !.rows = @ + 1]]
    BY <1>1, <1>4
  <2> QED BY <2>2, <2>3
<1>7. more \in VersionRange /\ more.status = "draft"
  BY <1>2, <1>5, PartAssumption DEF VersionRange
<1>8. /\ version' \in [Contents -> VersionRange] /\ version'[t] = more
      /\ \A u \in Contents \ {t} : version'[u] = version[u]
  BY <1>1, <1>6, <1>7 DEF StoreRanges
<1>9. c \notin Ran /\ client[c].pc \in Preparing
  BY <1>2, FinishedAreOver DEF At, Preparing
<1>10. rec.content = t
  BY <1>3, <1>4 DEF Fields
<1>11. StoreOK' /\ Kept(c) /\ client'[c] = rec
  BY <1>1, <1>2, <1>3, <1>4, <1>7, <1>8, <1>9, <1>10, Stored DEF At
<1>12. \A f \in Lasting : rec[f] = client[c][f]
  BY <1>3 DEF Lasting, Fields
<1>13. RecordOK(c)'
  <2>1. run'[c] = NoRun
    BY <1>1, <1>2, <1>9 DEF RecordOK
  <2> QED BY <1>3, <1>11, <2>1 DEF RecordOK, At
<1>14. /\ rec.pc \in Preparing /\ rec.pc \notin {"highest", "insertVersion"} \cup Reporting
       /\ rec.sent \in 0 .. Parts - 1 /\ (rec.pc \notin {"upload", "results"} => rec.sent = 0)
  BY <1>2, <1>3, PartAssumption DEF Preparing, Reporting, Recording
<1>15. /\ rec.pc = "upload" => version'[client[c].content] = [status |-> "draft", rows |-> rec.sent]
       /\ rec.pc = "lock" => version'[client[c].content] = [status |-> "draft", rows |-> Parts]
  BY <1>3, <1>4, <1>5, <1>8
<1> HIDE DEF Lasting
<1> QED BY <1>2, <1>3, <1>9, <1>11, <1>12, <1>13, <1>14, <1>15, Records

\* And locks it when it is whole.
LEMMA VersionLocked ==
  ASSUME IInv, NEW c \in Clients, Lock(c)
  PROVE  IInv'
<1>1. /\ At(c, "lock") /\ UNCHANGED <<registry, run, finished, promoted>>
      /\ version' = [version EXCEPT ![client[c].content].status = "locked"]
      /\ FormOK(c) /\ UploadOK(c) /\ RecordOK(c) /\ StoreRanges
  BY DEF Lock, IInv, ClientOK, StoreOK
<1>2. client[c].op = "job" /\ client[c].pc \in Preparing /\ c \notin Ran
  BY <1>1, Working, FinishedAreOver DEF At, Preparing
<1>3. PICK t \in Contents : t = client[c].content
  BY <1>1, <1>2 DEF UploadOK, At
<1>4. PICK whole : whole = [status |-> "locked", rows |-> Parts]
  OBVIOUS
<1>5. version' = [version EXCEPT ![t] = whole]
  <2>1. version[t] = [status |-> "draft", rows |-> Parts]
    BY <1>1, <1>3 DEF UploadOK
  <2>2. [version[t] EXCEPT !.status = "locked"] = whole
    BY <1>4, <2>1
  <2>3. version' = [version EXCEPT ![t] = [version[t] EXCEPT !.status = "locked"]]
    BY <1>1, <1>3
  <2> QED BY <2>2, <2>3
<1>6. whole \in VersionRange /\ whole.rows = Parts
  BY <1>4, PartAssumption DEF VersionRange
<1>7. /\ version' \in [Contents -> VersionRange] /\ version'[t] = whole
      /\ \A u \in Contents \ {t} : version'[u] = version[u]
  BY <1>1, <1>5, <1>6 DEF StoreRanges
<1>8. PICK old : old = client[c]
  OBVIOUS
<1>9. PICK rec : rec = [old EXCEPT !.pc = "highest", !.kind = "gates"]
  OBVIOUS
<1>10. Become(c, rec)
  BY <1>8, <1>9 DEF Lock, AfterVersion
<1>11. /\ DOMAIN rec = Fields /\ rec.pc = "highest" /\ rec.kind = "gates"
       /\ \A f \in Fields \ {"pc", "kind"} : rec[f] = old[f]
  BY <1>1, <1>8, <1>9 DEF FormOK, Fields
<1>12. rec.sent = 0
  BY <1>1, <1>2, <1>8, <1>11 DEF UploadOK, At, Fields
<1>13. StoreOK' /\ Kept(c) /\ client'[c] = rec
  BY <1>1, <1>2, <1>3, <1>6, <1>7, <1>10, <1>11, Stored DEF At
<1>14. \A f \in Lasting : rec[f] = client[c][f]
  BY <1>8, <1>11 DEF Lasting, Fields
<1>15. RecordOK(c)'
  <2>1. run'[c] = NoRun
    BY <1>1, <1>2 DEF RecordOK
  <2> QED BY <1>11, <1>13, <2>1 DEF RecordOK, At
<1>16. rec.pc \in Preparing \ Reporting /\ rec.sent \in 0 .. Parts - 1
  BY <1>11, <1>12, PartAssumption DEF Preparing, Reporting, Recording
<1> HIDE DEF Lasting
<1> QED BY <1>2, <1>11, <1>12, <1>13, <1>14, <1>15, <1>16, Records

-----------------------------------------------------------------------------
(* What jobs record of their runs.                                          *)
\* A job that has recorded something more of its run.
LEMMA RunRecorded ==
  ASSUME IInv, NEW c \in Clients, NEW rec, Become(c, rec), UNCHANGED <<registry, version>>,
         client[c].op = "job", client[c].pc \in Preparing \cup Recording, DOMAIN rec = Fields,
         \A f \in Lasting : rec[f] = client[c][f], rec.pc \in Recording,
         rec.sent \in 0 .. Parts - 1, rec.pc # "results" => rec.sent = 0,
         rec.pc # "open" => rec.share \in 1 .. Parts, rec.pc = "results" => rec.sent < rec.share,
         NEW mine \in RunRange, run' = [run EXCEPT ![c] = mine],
         finished' \in Seq(Clients), Ran \subseteq Ran', Ran' \subseteq Ran \cup {c},
         c \in Ran' => mine.status = "succeeded" /\ mine.results = rec.share /\ ~rec.aborted,
         c \in Ran => mine.content = run[c].content /\ (run[c].metrics = "all" => mine.metrics = "all"),
         \E status, count, metrics :
           /\ mine = [status |-> status, content |-> client[c].content, results |-> count, metrics |-> metrics]
           /\ version[client[c].content] = [status |-> "locked", rows |-> Parts]
           /\ \/ rec.pc = "open" /\ status = "experiment" /\ count = 0 /\ metrics = "none"
              \/ rec.pc = "results" /\ status = "running" /\ count = rec.sent /\ metrics = "none"
              \/ rec.pc = "complete" /\ status = "running" /\ count = rec.share /\ metrics = "none"
              \/ rec.pc = "metrics" /\ status = End(c) /\ count = rec.share /\ metrics = "scores"
              \/ rec.pc = "compare" /\ status = End(c) /\ count = rec.share /\ metrics = "all"
  PROVE  IInv'
<1>1. run \in [Clients -> RunRange]
  BY DEF IInv, StoreOK, StoreRanges
<1>2. /\ run' \in [Clients -> RunRange] /\ run'[c] = mine
      /\ \A d \in Clients \ {c} : run'[d] = run[d]
  BY <1>1
<1>3. /\ rec.quality = client[c].quality /\ rec.aborted = client[c].aborted
      /\ rec.content = client[c].content /\ rec.op = "job"
  BY DEF Lasting
<1>4. StoreOK' /\ Kept(c) /\ client'[c] = rec
  <2>1. rec.pc \notin {"upload", "lock"}
    BY DEF Recording
  <2>2. c \in Ran => /\ rec.quality = client[c].quality /\ run'[c].content = run[c].content
                     /\ run[c].metrics = "all" => run'[c].metrics = "all"
    BY <1>2, <1>3
  <2>3. c \in Ran' => run'[c].status = "succeeded" /\ run'[c].results = rec.share /\ ~rec.aborted
    BY <1>2
  <2> HIDE DEF Ran
  <2> QED BY <1>2, <2>1, <2>2, <2>3, Noted
<1>5. End(c)' = End(c)
  BY <1>3, <1>4 DEF End
<1>6. RecordOK(c)'
  <2>1. PICK status, count, metrics :
          /\ mine = [status |-> status, content |-> client[c].content, results |-> count, metrics |-> metrics]
          /\ version[client[c].content] = [status |-> "locked", rows |-> Parts]
          /\ \/ rec.pc = "open" /\ status = "experiment" /\ count = 0 /\ metrics = "none"
             \/ rec.pc = "results" /\ status = "running" /\ count = rec.sent /\ metrics = "none"
             \/ rec.pc = "complete" /\ status = "running" /\ count = rec.share /\ metrics = "none"
             \/ rec.pc = "metrics" /\ status = End(c) /\ count = rec.share /\ metrics = "scores"
             \/ rec.pc = "compare" /\ status = End(c) /\ count = rec.share /\ metrics = "all"
    OBVIOUS
  <2>2. Recorded(c, status, count, metrics)'
    BY <1>2, <1>3, <1>4, <2>1 DEF Recorded
  <2>3. client'[c].op = "job" /\ client'[c].pc \notin Deciding \cup Preparing
    BY <1>3, <1>4 DEF Deciding, Preparing, Recording
  <2> QED BY <1>4, <1>5, <2>1, <2>2, <2>3 DEF RecordOK, At
<1>7. /\ rec.pc \notin {"highest", "insertVersion", "upload", "lock"} /\ rec.pc \in Preparing \cup Recording
      /\ rec.pc \in Reporting => rec.share \in 1 .. Parts
  BY DEF Recording, Reporting
<1> HIDE DEF Lasting
<1> QED BY <1>4, <1>6, <1>7, Records

\* The experiment is created, on a locked version.
LEMMA ExperimentCreated ==
  ASSUME IInv, NEW c \in Clients, CreateExperiment(c)
  PROVE  IInv'
<1>1. /\ At(c, "experiment") /\ FormOK(c) /\ UploadOK(c) /\ StoreRanges /\ VersionsOK
      /\ UNCHANGED <<registry, version, promoted, finished>>
  BY DEF CreateExperiment, SetRun, IInv, ClientOK, StoreOK
<1>2. client[c].op = "job" /\ client[c].pc \in Preparing /\ c \notin Ran
  BY <1>1, Working, FinishedAreOver DEF At, Preparing
<1>3. client[c].content \in Contents /\ client[c].sent = 0
  BY <1>1, <1>2 DEF UploadOK, At
<1>4. CASE Refuse(c) /\ UNCHANGED run
  BY <1>1, <1>2, <1>4, Refused DEF store
<1>5. CASE ~(Refuse(c) /\ UNCHANGED run)
  <2>1. PICK mine : mine = [status |-> "experiment", content |-> client[c].content, results |-> 0,
                            metrics |-> "none"]
    OBVIOUS
  <2>2. [NoRun EXCEPT !.status = "experiment", !.content = client[c].content] = mine
    <3>1. PICK made : made = [NoRun EXCEPT !.status = "experiment", !.content = client[c].content]
      OBVIOUS
    <3>2. /\ made.status = "experiment" /\ made.content = client[c].content
          /\ made.results = 0 /\ made.metrics = "none"
          /\ made = [f \in {"status", "content", "results", "metrics"} |-> made[f]]
      BY <3>1 DEF NoRun
    <3>3. made = mine
      BY <2>1, <3>2
    <3> QED BY <3>1, <3>3
  <2>3. Accepts(client[c].content) /\ Goto(c, "open") /\ run' = [run EXCEPT ![c] = mine]
    BY <1>5, <2>2 DEF CreateExperiment, SetRun
  <2>4. version[client[c].content] = [status |-> "locked", rows |-> Parts]
    BY <1>1, <1>3, <2>3 DEF Accepts, VersionsOK, StoreRanges, VersionRange
  <2>5. PICK rec : /\ Become(c, rec) /\ DOMAIN rec = Fields /\ rec.pc = "open"
                   /\ \A f \in Fields \ {"pc"} : rec[f] = client[c][f]
    BY <2>3, Went
  <2>6. rec.sent = 0 /\ \A f \in Lasting : rec[f] = client[c][f]
    BY <1>3, <2>5 DEF Lasting, Fields
  <2>7. mine \in RunRange /\ rec.sent \in 0 .. Parts - 1 /\ rec.pc \in Recording
    BY <1>3, <2>1, <2>5, <2>6, PartAssumption DEF RunRange, Recording
  <2>8. finished' \in Seq(Clients) /\ Ran' = Ran
    BY <1>1 DEF StoreRanges, Ran
  <2> HIDE DEF Lasting
  <2> QED BY <1>1, <1>2, <2>1, <2>3, <2>4, <2>5, <2>6, <2>7, <2>8, RunRecorded
<1> QED BY <1>4, <1>5

\* The run is opened.
LEMMA RunOpened ==
  ASSUME IInv, NEW c \in Clients, OpenRun(c)
  PROVE  IInv'
<1>1. /\ At(c, "open") /\ FormOK(c) /\ UploadOK(c) /\ RecordOK(c) /\ StoreRanges
      /\ UNCHANGED <<registry, version, promoted, finished>>
      /\ run' = [run EXCEPT ![c] = [run[c] EXCEPT !.status = "running"]]
  BY DEF OpenRun, SetRun, IInv, ClientOK, StoreOK
<1>2. client[c].op = "job" /\ client[c].pc \in Recording /\ c \notin Ran
  BY <1>1, Working, FinishedAreOver DEF At, Recording
<1>3. client[c].content \in Contents /\ client[c].sent = 0 /\ Recorded(c, "experiment", 0, "none")
  BY <1>1, <1>2 DEF UploadOK, RecordOK, At
<1>4. PICK mine : mine = [status |-> "running", content |-> client[c].content, results |-> 0,
                          metrics |-> "none"]
  OBVIOUS
<1>5. [run[c] EXCEPT !.status = "running"] = mine
  BY <1>3, <1>4 DEF Recorded
<1>6. PICK rec : /\ Become(c, rec) /\ DOMAIN rec = Fields /\ rec.pc = "results"
                 /\ rec.share \in 1 .. Parts
                 /\ \A f \in Fields \ {"pc", "share"} : rec[f] = client[c][f]
  <2>1. PICK share \in 1 .. Parts : Become(c, [client[c] EXCEPT !.pc = "results", !.share = share])
    BY DEF OpenRun
  <2>2. PICK old : old = client[c]
    OBVIOUS
  <2>3. PICK rec : rec = [old EXCEPT !.pc = "results", !.share = share]
    OBVIOUS
  <2>4. /\ DOMAIN rec = Fields /\ rec.pc = "results" /\ rec.share = share
        /\ \A f \in Fields \ {"pc", "share"} : rec[f] = old[f]
    BY <1>1, <2>2, <2>3 DEF FormOK, Fields
  <2>5. Become(c, rec)
    BY <2>1, <2>2, <2>3
  <2> QED BY <2>2, <2>4, <2>5
<1>7. rec.sent = 0 /\ \A f \in Lasting : rec[f] = client[c][f]
  BY <1>3, <1>6 DEF Lasting, Fields
<1>8. /\ mine \in RunRange /\ rec.sent \in 0 .. Parts - 1 /\ rec.pc \in Recording
      /\ rec.share \in 1 .. Parts /\ rec.sent < rec.share
  BY <1>3, <1>4, <1>6, <1>7, PartAssumption DEF RunRange, Recording
<1>9. finished' \in Seq(Clients) /\ Ran' = Ran
  BY <1>1 DEF StoreRanges, Ran
<1>10. version[client[c].content] = [status |-> "locked", rows |-> Parts]
  BY <1>3 DEF Recorded
<1>11. run' = [run EXCEPT ![c] = mine] /\ UNCHANGED <<registry, version>>
  BY <1>1, <1>5
<1> HIDE DEF Lasting
<1> QED BY <1>2, <1>4, <1>6, <1>7, <1>8, <1>9, <1>10, <1>11, RunRecorded

\* Its results are sent.
LEMMA ResultsSent ==
  ASSUME IInv, NEW c \in Clients, SendResults(c)
  PROVE  IInv'
<1>1. /\ RecordOK(c) /\ UploadOK(c) /\ StoreRanges
      /\ Send(c, "results", "complete", client[c].share)
      /\ UNCHANGED <<registry, version, promoted, finished>>
      /\ run' = [run EXCEPT ![c] = [run[c] EXCEPT !.results = @ + 1]]
  BY DEF SendResults, RecordNext, SetRun, IInv, ClientOK, StoreOK
<1>2. PICK share \in 1 .. Parts : share = client[c].share /\ client[c].sent < share
  BY <1>1 DEF Send, UploadOK, At, Reporting, Recording
<1>3. /\ At(c, "results") /\ client[c].op = "job" /\ client[c].content \in Contents
      /\ client[c].sent \in 0 .. Parts - 1
      /\ \E rec : /\ Become(c, rec) /\ DOMAIN rec = Fields
                  /\ \A f \in Fields \ {"pc", "sent"} : rec[f] = client[c][f]
                  /\ \/ client[c].sent + 1 = share /\ rec.pc = "complete" /\ rec.sent = 0
                     \/ /\ client[c].sent + 1 < share /\ rec.pc = "results"
                        /\ rec.sent = client[c].sent + 1
  BY <1>1, <1>2, Sending
<1>4. client[c].pc \in Recording /\ c \notin Ran
  BY <1>3, FinishedAreOver DEF At, Recording
<1>5. Recorded(c, "running", client[c].sent, "none")
  BY <1>1, <1>3 DEF RecordOK
<1>6. PICK rec : /\ Become(c, rec) /\ DOMAIN rec = Fields
                 /\ \A f \in Fields \ {"pc", "sent"} : rec[f] = client[c][f]
                 /\ \/ client[c].sent + 1 = share /\ rec.pc = "complete" /\ rec.sent = 0
                    \/ /\ client[c].sent + 1 < share /\ rec.pc = "results"
                       /\ rec.sent = client[c].sent + 1
  BY <1>3
<1>7. PICK mine : mine = [status |-> "running", content |-> client[c].content,
                          results |-> client[c].sent + 1, metrics |-> "none"]
  OBVIOUS
<1>8. run' = [run EXCEPT ![c] = mine]
  <2>1. [run[c] EXCEPT !.results = @ + 1] = mine
    BY <1>5, <1>7 DEF Recorded
  <2> QED BY <1>1, <2>1
<1>9. \A f \in Lasting : rec[f] = client[c][f]
  BY <1>6 DEF Lasting, Fields
<1>10. /\ mine \in RunRange /\ rec.sent \in 0 .. Parts - 1 /\ rec.pc \in Recording
       /\ rec.share = share /\ (rec.pc = "results" => rec.sent < share)
  BY <1>2, <1>3, <1>6, <1>7, PartAssumption DEF RunRange, Recording, Fields
<1>11. finished' \in Seq(Clients) /\ Ran' = Ran
  BY <1>1 DEF StoreRanges, Ran
<1>12. version[client[c].content] = [status |-> "locked", rows |-> Parts]
  BY <1>5 DEF Recorded
<1>13. (rec.pc # "results" => rec.sent = 0) /\ UNCHANGED <<registry, version>>
  BY <1>1, <1>6
<1>14. CASE rec.pc = "results"
  <2>1. mine = [status |-> "running", content |-> client[c].content, results |-> rec.sent,
                metrics |-> "none"]
    BY <1>6, <1>7, <1>14
  <2> HIDE DEF Lasting
  <2> QED BY <1>3, <1>4, <1>6, <1>8, <1>9, <1>10, <1>11, <1>12, <1>13, <1>14, <2>1, RunRecorded
<1>15. CASE rec.pc = "complete"
  <2>1. mine = [status |-> "running", content |-> client[c].content, results |-> rec.share,
                metrics |-> "none"]
    BY <1>2, <1>3, <1>6, <1>7, <1>10, <1>15
  <2> HIDE DEF Lasting
  <2> QED BY <1>3, <1>4, <1>6, <1>8, <1>9, <1>10, <1>11, <1>12, <1>13, <1>15, <2>1, RunRecorded
<1> QED BY <1>6, <1>14, <1>15

\* The run ends: it joins the finished unless it was aborted.
LEMMA RunCompleted ==
  ASSUME IInv, NEW c \in Clients, Complete(c)
  PROVE  IInv'
<1>1. /\ At(c, "complete") /\ UploadOK(c) /\ RecordOK(c) /\ FormOK(c) /\ StoreRanges
      /\ UNCHANGED <<registry, version, promoted>> /\ Goto(c, "metrics")
      /\ run' = [run EXCEPT ![c] = [run[c] EXCEPT !.status = End(c), !.metrics = "scores"]]
      /\ finished' = IF End(c) = "succeeded" THEN Append(finished, c) ELSE finished
  BY DEF Complete, RecordNext, SetRun, IInv, ClientOK, StoreOK
<1>2. client[c].op = "job" /\ client[c].pc \in Recording /\ c \notin Ran
  BY <1>1, Working, FinishedAreOver DEF At, Recording
<1>3. client[c].content \in Contents /\ client[c].sent = 0 /\ client[c].share \in 1 .. Parts
      /\ Recorded(c, "running", client[c].share, "none")
  BY <1>1, <1>2 DEF UploadOK, RecordOK, At, Reporting, Recording
<1>4. PICK status : status = End(c) /\ status \in {"failed", "succeeded"}
  BY DEF End
<1>5. PICK mine : mine = [status |-> status, content |-> client[c].content, results |-> client[c].share,
                          metrics |-> "scores"]
  OBVIOUS
<1>6. run' = [run EXCEPT ![c] = mine]
  <2>1. PICK old : old = run[c]
    OBVIOUS
  <2>2. PICK ended : ended = [old EXCEPT !.status = status, !.metrics = "scores"]
    OBVIOUS
  <2>3. old = [status |-> "running", content |-> client[c].content, results |-> client[c].share, metrics |-> "none"]
    BY <1>3, <2>1 DEF Recorded
  <2>4. /\ ended.status = status /\ ended.content = client[c].content
        /\ ended.results = client[c].share /\ ended.metrics = "scores"
        /\ ended = [f \in {"status", "content", "results", "metrics"} |-> ended[f]]
    BY <2>2, <2>3
  <2>5. ended = mine
    BY <1>5, <2>4
  <2> QED BY <1>1, <1>4, <2>1, <2>2, <2>5
<1>7. PICK rec : /\ Become(c, rec) /\ DOMAIN rec = Fields /\ rec.pc = "metrics"
                 /\ \A f \in Fields \ {"pc"} : rec[f] = client[c][f]
  BY <1>1, Went
<1>8. /\ rec.sent = 0 /\ rec.aborted = client[c].aborted /\ rec.share = client[c].share
      /\ \A f \in Lasting : rec[f] = client[c][f]
  BY <1>3, <1>7 DEF Lasting, Fields
<1>9. mine \in RunRange /\ rec.sent \in 0 .. Parts - 1 /\ rec.pc \in Recording
  BY <1>3, <1>4, <1>5, <1>7, <1>8, PartAssumption DEF RunRange, Recording
<1>10. /\ finished' \in Seq(Clients) /\ Ran \subseteq Ran' /\ Ran' \subseteq Ran \cup {c}
       /\ c \in Ran' => status = "succeeded"
  <2>1. CASE status = "succeeded"
    <3>1. finished' = Append(finished, c) /\ finished \in Seq(Clients)
      BY <1>1, <1>4, <2>1 DEF StoreRanges
    <3>2. /\ finished' \in Seq(Clients) /\ DOMAIN finished = 1 .. Len(finished)
          /\ DOMAIN finished' = 1 .. Len(finished) + 1 /\ Len(finished) \in Nat
          /\ \A i \in 1 .. Len(finished) : finished'[i] = finished[i]
          /\ finished'[Len(finished) + 1] = c
      BY <3>1
    <3>3. Ran \subseteq Ran'
      <4> SUFFICES ASSUME NEW i \in DOMAIN finished PROVE finished[i] \in Ran'
        BY DEF Ran
      <4>1. i \in DOMAIN finished' /\ finished'[i] = finished[i]
        BY <3>2
      <4> QED BY <4>1 DEF Ran
    <3>4. Ran' \subseteq Ran \cup {c}
      <4> SUFFICES ASSUME NEW i \in DOMAIN finished' PROVE finished'[i] \in Ran \cup {c}
        BY DEF Ran
      <4>1. i \in DOMAIN finished \/ i = Len(finished) + 1
        BY <3>2
      <4> QED BY <3>2, <4>1 DEF Ran
    <3> QED BY <2>1, <3>2, <3>3, <3>4
  <2>2. CASE status # "succeeded"
    BY <1>1, <1>2, <1>4, <2>2 DEF StoreRanges, Ran
  <2> QED BY <2>1, <2>2
<1>11. c \in Ran' => mine.status = "succeeded" /\ mine.results = rec.share /\ ~rec.aborted
  BY <1>4, <1>5, <1>8, <1>10 DEF End
<1>12. version[client[c].content] = [status |-> "locked", rows |-> Parts]
  BY <1>3 DEF Recorded
<1>13. /\ mine = [status |-> status, content |-> client[c].content, results |-> rec.share,
                  metrics |-> "scores"]
       /\ rec.share \in 1 .. Parts
  BY <1>3, <1>5, <1>8
<1> HIDE DEF Lasting
<1> QED BY <1>1, <1>2, <1>4, <1>13, <1>6, <1>7, <1>8, <1>9, <1>10, <1>11, <1>12, RunRecorded

\* The metrics are submitted.
LEMMA MetricsSubmitted ==
  ASSUME IInv, NEW c \in Clients, SubmitMetrics(c)
  PROVE  IInv'
<1>1. /\ At(c, "metrics") /\ UploadOK(c) /\ RecordOK(c) /\ FormOK(c) /\ StoreRanges /\ FinishedOK
      /\ UNCHANGED <<registry, version, promoted, finished>> /\ Goto(c, "compare")
      /\ run' = [run EXCEPT ![c] = [run[c] EXCEPT !.metrics = "all"]]
  BY DEF SubmitMetrics, RecordNext, SetRun, IInv, ClientOK, StoreOK
<1>2. client[c].op = "job" /\ client[c].pc \in Recording
  BY <1>1, Working DEF At, Recording
<1>3. client[c].content \in Contents /\ client[c].sent = 0 /\ client[c].share \in 1 .. Parts
      /\ Recorded(c, End(c), client[c].share, "scores")
  BY <1>1, <1>2 DEF UploadOK, RecordOK, At, Reporting, Recording
<1>4. PICK status : status = End(c) /\ status \in {"failed", "succeeded"}
  BY DEF End
<1>5. PICK mine : mine = [status |-> status, content |-> client[c].content, results |-> client[c].share,
                          metrics |-> "all"]
  OBVIOUS
<1>6. run' = [run EXCEPT ![c] = mine]
  <2>1. [run[c] EXCEPT !.metrics = "all"] = mine
    BY <1>3, <1>4, <1>5 DEF Recorded
  <2> QED BY <1>1, <2>1
<1>7. PICK rec : /\ Become(c, rec) /\ DOMAIN rec = Fields /\ rec.pc = "compare"
                 /\ \A f \in Fields \ {"pc"} : rec[f] = client[c][f]
  BY <1>1, Went
<1>8. /\ rec.sent = 0 /\ rec.aborted = client[c].aborted /\ rec.share = client[c].share
      /\ \A f \in Lasting : rec[f] = client[c][f]
  BY <1>3, <1>7 DEF Lasting, Fields
<1>9. mine \in RunRange /\ rec.sent \in 0 .. Parts - 1 /\ rec.pc \in Recording
  BY <1>3, <1>4, <1>5, <1>7, <1>8, PartAssumption DEF RunRange, Recording
<1>10. finished' \in Seq(Clients) /\ Ran' = Ran
  BY <1>1 DEF StoreRanges, Ran
<1>11. c \in Ran => mine.status = "succeeded" /\ mine.results = rec.share /\ ~rec.aborted
  BY <1>1, <1>3, <1>4, <1>5, <1>8 DEF Recorded, FinishedOK
<1>12. run[c].content = mine.content /\ version[client[c].content] = [status |-> "locked", rows |-> Parts]
  BY <1>3, <1>5 DEF Recorded
<1>13. /\ UNCHANGED <<registry, version>> /\ rec.share \in 1 .. Parts
       /\ mine = [status |-> status, content |-> client[c].content, results |-> rec.share,
                  metrics |-> "all"]
  BY <1>1, <1>3, <1>5, <1>8
<1> HIDE DEF Lasting
<1> QED BY <1>2, <1>13, <1>4, <1>6, <1>7, <1>8, <1>9, <1>10, <1>11, <1>12, RunRecorded

-----------------------------------------------------------------------------
(* What jobs decide.                                                        *)
\* A baseline is a run that has finished.
LEMMA BaselinesRan == IInv => \A excluded : Baseline(excluded) \in Ran \cup {Nobody}
<1> SUFFICES ASSUME IInv PROVE \A excluded : Baseline(excluded) \in Ran \cup {Nobody}
  OBVIOUS
<1>1. ASSUME NEW S PROVE LatestOf(S) \in Ran \cup {Nobody}
  <2> DEFINE places == {i \in DOMAIN finished : finished[i] \in S}
  <2>1. CASE places = {}
    BY <2>1 DEF LatestOf
  <2>2. CASE places # {}
    <3>1. DOMAIN finished = 1 .. Len(finished) /\ Len(finished) \in Nat
      BY DEF IInv, StoreOK, StoreRanges
    <3>2. places \in SUBSET Int /\ IsFiniteSet(places)
      <4>1. IsFiniteSet(1 .. Len(finished))
        BY <3>1, FS_Interval
      <4>2. places \subseteq 1 .. Len(finished)
        BY <3>1
      <4>3. 1 .. Len(finished) \subseteq Int
        BY <3>1
      <4> HIDE DEF places
      <4> QED BY <4>1, <4>2, <4>3, FS_Subset
    <3>3. Max(places) \in places
      <4> HIDE DEF places
      <4> QED BY <2>2, <3>2, Largest
    <3>4. LatestOf(S) = finished[Max(places)]
      BY <2>2 DEF LatestOf
    <3> QED BY <3>3, <3>4 DEF Ran
  <2> QED BY <2>1, <2>2
<1> QED BY <1>1 DEF Baseline

\* What a verdict rests on outlives every step.
LEMMA Grounded ==
  ASSUME IInv, NEW c \in Clients, Kept(c), NEW base \in Ran \cup {Nobody}, NEW seen,
         seen => HasMetric(base)
  PROVE  /\ base \in Ran' \cup {Nobody}
         /\ seen => HasMetric(base)' /\ client'[base].quality = client[base].quality
<1>1. Ran \subseteq Clients
  BY DEF IInv, StoreOK, StoreRanges, Ran
<1>2. base \in Ran => /\ client'[base].quality = client[base].quality
                      /\ run[base].metrics = "all" => run'[base].metrics = "all"
  BY <1>1 DEF Kept
<1>3. base \in Ran' \cup {Nobody}
  BY DEF Kept
<1>4. seen => base \in Ran /\ HasMetric(base)'
  BY <1>2 DEF HasMetric
<1> QED BY <1>2, <1>3, <1>4

\* A step of a job that only decides: at its ends, and before it publishes.
LEMMA Decides ==
  ASSUME IInv, NEW c \in Clients, NEW rec, Become(c, rec), UNCHANGED <<registry, store>>,
         DOMAIN rec = Fields, rec.op = "job", ~rec.published, rec.content \in Contents,
         rec.pc \in {"fetch", "run", "dataset", "over"}, rec.sent = 0, run[c] = NoRun,
         rec.compared \in Ran \cup {Nobody}, rec.exit # 0, rec.base \in Ran \cup {Nobody},
         rec.seen => HasMetric(rec.base),
         rec.pc = "dataset" =>
           rec.verdict = Verdict(TRUE, rec.quality, rec.base, rec.seen, TRUE)
  PROVE  IInv'
<1>1. c \notin Ran
  BY DEF IInv, StoreOK, FinishedOK, NoRun
<1>2. StoreOK' /\ Kept(c) /\ client'[c] = rec
  BY <1>1, Resting DEF store
<1>3. FormOK(c)' /\ ClaimOK(c)' /\ PublishedOK(c)'
  BY <1>2 DEF FormOK, ClaimOK, PublishedOK, PcsOf, Deciding, Preparing, At
<1>4. UploadOK(c)'
  BY <1>2, PartAssumption DEF UploadOK, At, Reporting, Recording
<1>5. RecordOK(c)'
  BY <1>2 DEF RecordOK, At, store
<1>6. JudgedOK(c)'
  <2>1. PICK base, seen, quality : base = rec.base /\ seen = rec.seen /\ quality = rec.quality
    OBVIOUS
  <2>2. base \in Ran \cup {Nobody} /\ (seen => HasMetric(base))
    BY <2>1
  <2>3. /\ base \in Ran' \cup {Nobody}
        /\ seen => HasMetric(base)' /\ client'[base].quality = client[base].quality
    BY <1>2, <2>2, Grounded
  <2>4. rec.pc = "dataset" => rec.verdict = Verdict(TRUE, quality, base, seen, TRUE)'
    BY <2>1, <2>3 DEF Verdict
  <2>5. /\ client'[c].base = base /\ client'[c].seen = seen /\ client'[c].quality = quality
        /\ client'[c].compared \in Ran' \cup {Nobody} /\ client'[c].exit # 0
        /\ client'[c].pc = rec.pc /\ client'[c].verdict = rec.verdict
    BY <1>2, <2>1 DEF Kept
  <2>6. rec.pc = "dataset" =>
          client'[c].verdict = Verdict(TRUE, client[c].quality, client[c].base, client[c].seen, TRUE)'
    BY <2>4, <2>5 DEF Verdict
  <2>7. client'[c].seen => HasMetric(client[c].base)'
    BY <2>3, <2>5 DEF HasMetric
  <2>8. client'[c].pc \in Preparing \cup Recording \cup {"exit"} => client'[c].pc = "dataset"
    BY <2>5 DEF Preparing, Recording
  <2> QED BY <2>3, <2>5, <2>6, <2>7, <2>8 DEF JudgedOK
<1>7. ClientOK(c)'
  BY <1>3, <1>4, <1>5, <1>6 DEF ClientOK
<1> QED BY <1>2, <1>7, Steps

\* A job begins.
LEMMA JobBegun ==
  ASSUME IInv, NEW c \in Clients, BeginJob(c)
  PROVE  IInv'
<1>1. PICK t \in Contents : Become(c, [Fresh EXCEPT !.pc = "fetch", !.op = "job", !.content = t])
  BY DEF BeginJob
<1>2. client[c].op # "job" /\ UNCHANGED <<registry, store>>
  BY DEF BeginJob, At, IInv, ClientOK, FormOK, PcsOf, Deciding, Preparing, Recording
<1>3. PICK rec : rec = [Fresh EXCEPT !.pc = "fetch", !.op = "job", !.content = t]
  OBVIOUS
<1>4. /\ DOMAIN rec = Fields /\ rec.op = "job" /\ ~rec.published /\ rec.content = t
      /\ rec.pc = "fetch" /\ rec.sent = 0 /\ rec.compared = Nobody /\ rec.exit # 0
      /\ rec.base = Nobody /\ ~rec.seen
  BY <1>3 DEF Fresh, Fields
<1>5. run[c] = NoRun
  BY <1>2, NoJob
<1> QED BY <1>1, <1>2, <1>3, <1>4, <1>5, Decides

\* Before it publishes, a job is its own business.
LEMMA Untold ==
  ASSUME IInv, NEW c \in Clients, client[c].pc \in Deciding
  PROVE  /\ client[c].op = "job" /\ ~client[c].published /\ client[c].content \in Contents
         /\ client[c].sent = 0 /\ run[c] = NoRun /\ client[c].exit # 0
         /\ client[c].base \in Ran \cup {Nobody} /\ client[c].compared \in Ran \cup {Nobody}
         /\ client[c].seen => HasMetric(client[c].base)
<1>1. FormOK(c) /\ UploadOK(c) /\ RecordOK(c) /\ PublishedOK(c) /\ JudgedOK(c)
  BY DEF IInv, ClientOK
<1>2. client[c].op = "job"
  BY <1>1, Working
<1>3. client[c].content \in Contents /\ client[c].sent = 0
  BY <1>1, <1>2 DEF UploadOK, Deciding
<1>4. ~client[c].published /\ run[c] = NoRun
  BY <1>1 DEF PublishedOK, RecordOK, Deciding
<1>5. client[c].exit # 0
  BY <1>1, <1>2 DEF JudgedOK, Deciding
<1> QED BY <1>1, <1>2, <1>3, <1>4, <1>5 DEF JudgedOK

\* It fetches its baseline, or goes without.
LEMMA BaselineFetched ==
  ASSUME IInv, NEW c \in Clients, FetchBaseline(c)
  PROVE  IInv'
<1>1. At(c, "fetch") /\ UNCHANGED <<registry, store>>
  BY DEF FetchBaseline
<1>2. PICK base \in {Baseline(Nobody), Nobody} :
        Become(c, [client[c] EXCEPT !.pc = "run", !.base = base, !.seen = HasMetric(base)])
  BY DEF FetchBaseline
<1>3. base \in Ran \cup {Nobody}
  BY <1>2, BaselinesRan
<1>4. client[c].pc \in Deciding
  BY <1>1 DEF At, Deciding
<1>5. PICK old : old = client[c]
  OBVIOUS
<1>6. PICK known : known = HasMetric(base) /\ (known => HasMetric(base))
  OBVIOUS
<1>7. PICK rec : rec = [old EXCEPT !.pc = "run", !.base = base, !.seen = known]
  OBVIOUS
<1>8. Become(c, rec)
  BY <1>2, <1>5, <1>6, <1>7
<1>9. DOMAIN old = Fields
  BY <1>5 DEF IInv, ClientOK, FormOK
<1>10. /\ DOMAIN rec = Fields /\ rec.pc = "run" /\ rec.base = base /\ rec.seen = known
       /\ \A f \in Fields \ {"pc", "base", "seen"} : rec[f] = old[f]
  BY <1>7, <1>9 DEF Fields
<1>11. /\ client[c].op = "job" /\ ~client[c].published /\ client[c].content \in Contents
       /\ client[c].sent = 0 /\ run[c] = NoRun /\ client[c].exit # 0
       /\ client[c].compared \in Ran \cup {Nobody}
  BY <1>4, Untold
<1>12. /\ rec.op = "job" /\ ~rec.published /\ rec.content \in Contents
       /\ rec.sent = 0 /\ rec.exit # 0 /\ rec.compared \in Ran \cup {Nobody}
  BY <1>5, <1>10, <1>11 DEF Fields
<1>13. rec.seen => HasMetric(rec.base)
  BY <1>6, <1>10
<1>14. rec.pc \in {"fetch", "run", "dataset", "over"} /\ rec.pc # "dataset"
  BY <1>10
<1> QED BY <1>1, <1>3, <1>8, <1>10, <1>11, <1>12, <1>13, <1>14, Decides

\* It runs, and judges what it measured; or it cannot run at all.
LEMMA Measured ==
  ASSUME IInv, NEW c \in Clients, Run(c)
  PROVE  IInv'
<1>1. At(c, "run") /\ UNCHANGED <<registry, store>>
  BY DEF Run
<1>2. client[c].pc \in Deciding
  BY <1>1 DEF At, Deciding
<1>3. PICK old : old = client[c]
  OBVIOUS
<1>4. DOMAIN old = Fields
  BY <1>3 DEF IInv, ClientOK, FormOK
<1>5. /\ old.op = "job" /\ ~old.published /\ old.content \in Contents
      /\ old.sent = 0 /\ run[c] = NoRun /\ old.exit # 0
      /\ old.base \in Ran \cup {Nobody} /\ old.compared \in Ran \cup {Nobody}
      /\ old.seen => HasMetric(old.base)
  BY <1>2, <1>3, Untold
<1>6. ASSUME NEW q \in Qualities, NEW cut \in BOOLEAN,
             Become(c, [client[c] EXCEPT !.pc = "dataset", !.quality = q, !.aborted = cut,
                          !.verdict = Verdict(TRUE, q, client[c].base, client[c].seen, TRUE)])
      PROVE  IInv'
  <2>1. PICK verdict : verdict = Verdict(TRUE, q, old.base, old.seen, TRUE)
    OBVIOUS
  <2>2. PICK rec :
          rec = [old EXCEPT !.pc = "dataset", !.quality = q, !.aborted = cut, !.verdict = verdict]
    OBVIOUS
  <2>3. Become(c, rec)
    BY <1>3, <1>6, <2>1, <2>2
  <2>4. /\ DOMAIN rec = Fields /\ rec.pc = "dataset" /\ rec.quality = q /\ rec.verdict = verdict
        /\ \A f \in Fields \ {"pc", "quality", "aborted", "verdict"} : rec[f] = old[f]
    BY <1>4, <2>2 DEF Fields
  <2>5. /\ rec.op = "job" /\ ~rec.published /\ rec.content \in Contents
        /\ rec.sent = 0 /\ rec.exit # 0 /\ rec.compared \in Ran \cup {Nobody}
        /\ rec.base = old.base /\ rec.seen = old.seen
    BY <1>5, <2>4 DEF Fields
  <2>6. rec.verdict = Verdict(TRUE, rec.quality, rec.base, rec.seen, TRUE)
    BY <2>1, <2>4, <2>5
  <2>7. rec.base \in Ran \cup {Nobody} /\ (rec.seen => HasMetric(rec.base))
    BY <1>5, <2>5
  <2> QED BY <1>1, <1>5, <2>3, <2>4, <2>5, <2>6, <2>7, Decides
<1>7. ASSUME NEW code \in {1, 3}, Become(c, [client[c] EXCEPT !.pc = "over", !.exit = code])
      PROVE  IInv'
  <2>1. PICK rec : rec = [old EXCEPT !.pc = "over", !.exit = code]
    OBVIOUS
  <2>2. Become(c, rec)
    BY <1>3, <1>7, <2>1
  <2>3. /\ DOMAIN rec = Fields /\ rec.pc = "over" /\ rec.exit = code
        /\ \A f \in Fields \ {"pc", "exit"} : rec[f] = old[f]
    BY <1>4, <2>1 DEF Fields
  <2>4. /\ rec.op = "job" /\ ~rec.published /\ rec.content \in Contents
        /\ rec.sent = 0 /\ rec.exit # 0 /\ rec.compared \in Ran \cup {Nobody}
        /\ rec.base = old.base /\ rec.seen = old.seen
    BY <1>5, <2>3 DEF Fields
  <2>5. rec.base \in Ran \cup {Nobody} /\ (rec.seen => HasMetric(rec.base))
    BY <1>5, <2>4
  <2> QED BY <1>1, <1>5, <2>2, <2>3, <2>4, <2>5, Decides
<1> QED BY <1>6, <1>7 DEF Run

\* The server decides: on the same baseline, and the same data, as the job did.
LEMMA Compared ==
  ASSUME IInv, NEW c \in Clients, Compare(c)
  PROVE  IInv'
<1>1. PICK base, match, known :
        /\ base = Baseline(c) /\ match = Matches(c, base) /\ known = HasMetric(base)
        /\ (match <=> Matches(c, base)) /\ (known <=> HasMetric(base))
  OBVIOUS
<1>2. PICK old : old = client[c]
  OBVIOUS
<1>3. /\ FormOK(c) /\ UploadOK(c) /\ RecordOK(c) /\ JudgedOK(c) /\ FinishedOK /\ StoreRanges
      /\ At(c, "compare") /\ UNCHANGED <<registry, store>> /\ DOMAIN old = Fields
  BY <1>2 DEF Compare, IInv, ClientOK, StoreOK, FormOK
<1>4. client[c].op = "job" /\ client[c].pc \in Recording /\ client[c].pc # "over"
  BY <1>3, Working DEF At, Recording
<1>5. /\ Recorded(c, End(c), client[c].share, "all") /\ HasMetric(c)
      /\ client[c].content \in Contents
  <2>1. Recorded(c, End(c), client[c].share, "all")
    BY <1>3 DEF RecordOK
  <2>2. HasMetric(c)
    <3>1. c # Nobody
      BY ClientAssumption
    <3> QED BY <2>1, <3>1 DEF Recorded, HasMetric
  <2>3. client[c].content \in Contents
    BY <1>3, <1>4 DEF UploadOK, At
  <2> QED BY <2>1, <2>2, <2>3
<1>6. PICK server : server = Verdict(TRUE, client[c].quality, base, known, match)
  OBVIOUS
<1>7. PICK rec : rec = [old EXCEPT !.pc = "exit", !.published = TRUE, !.compared = base,
                                   !.server = server]
  OBVIOUS
<1>8. Become(c, rec)
  BY <1>1, <1>2, <1>5, <1>6, <1>7 DEF Compare, Verdict
<1>9. /\ DOMAIN rec = Fields /\ rec.pc = "exit" /\ rec.compared = base /\ rec.server = server
      /\ \A f \in Fields \ {"pc", "published", "compared", "server"} : rec[f] = old[f]
  BY <1>3, <1>7 DEF Fields
<1>10. /\ rec.op = "job" /\ rec.quality = old.quality /\ rec.aborted = old.aborted /\ rec.share = old.share
       /\ rec.content = old.content /\ rec.base = old.base /\ rec.seen = old.seen
       /\ rec.verdict = old.verdict /\ rec.exit = old.exit
  BY <1>2, <1>4, <1>9 DEF Fields
<1>11. StoreOK' /\ Kept(c) /\ client'[c] = rec
  <2>1. c \in Ran => ~client[c].aborted
    BY <1>3 DEF FinishedOK
  <2>2. c \in Ran => /\ rec.quality = client[c].quality /\ rec.share = client[c].share
                   /\ ~rec.aborted
    BY <1>2, <1>10, <2>1
  <2> QED BY <1>3, <1>8, <1>9, <2>2, Resting DEF store
<1>12. FormOK(c)' /\ ClaimOK(c)' /\ UploadOK(c)' /\ RecordOK(c)'
  <2>1. FormOK(c)'
    BY <1>9, <1>10, <1>11 DEF FormOK, PcsOf
  <2>2. ClaimOK(c)' /\ RecordOK(c)'
    BY <1>9, <1>10, <1>11 DEF ClaimOK, RecordOK, At, Deciding, Preparing
  <2>3. UploadOK(c)'
    BY <1>2, <1>5, <1>9, <1>10, <1>11 DEF UploadOK, At, Deciding, Preparing, Recording, Reporting
  <2> QED BY <2>1, <2>2, <2>3
<1>13. /\ old.base \in Ran \cup {Nobody} /\ (old.seen => HasMetric(old.base)) /\ old.exit # 0
       /\ old.verdict = Verdict(TRUE, old.quality, old.base, old.seen, TRUE)
  BY <1>2, <1>3, <1>4 DEF JudgedOK
<1>14. PublishedOK(c)'
  <2>1. Recorded(c, End(c), client[c].share, "all")'
    <3>1. UNCHANGED <<run, version>>
      BY <1>3 DEF store
    <3> QED BY <1>2, <1>5, <1>10, <1>11, <3>1 DEF Recorded, End
  <2>2. ASSUME base = old.base,
               old.base # Nobody => old.seen /\ run[old.base].content = old.content
        PROVE  server = old.verdict
    <3>1. match
      <4>1. run[c].content = old.content
        BY <1>2, <1>5 DEF Recorded
      <4> QED BY <1>1, <2>2, <4>1 DEF Matches
    <3>2. known <=> old.seen
      BY <1>1, <1>13, <2>2 DEF HasMetric
    <3>3. server = Verdict(TRUE, old.quality, old.base, old.seen, TRUE)
      BY <1>2, <1>6, <2>2, <3>1, <3>2 DEF Verdict
    <3> QED BY <1>13, <3>3
  <2>3. run' = run
    BY <1>3 DEF store
  <2> QED BY <1>9, <1>10, <1>11, <2>1, <2>2, <2>3 DEF PublishedOK
<1>15. JudgedOK(c)'
  <2>1. PICK mine, seen : mine = old.base /\ seen = old.seen
    OBVIOUS
  <2>2. mine \in Ran \cup {Nobody} /\ (seen => HasMetric(mine))
    BY <1>13, <2>1
  <2>3. /\ mine \in Ran' \cup {Nobody}
        /\ seen => HasMetric(mine)' /\ client'[mine].quality = client[mine].quality
    BY <1>11, <2>2, Grounded
  <2>4. base \in Ran' \cup {Nobody}
    BY <1>1, <1>11, BaselinesRan DEF Kept
  <2>5. old.verdict = Verdict(TRUE, old.quality, mine, seen, TRUE)'
    BY <1>13, <2>1, <2>3 DEF Verdict
  <2>6. /\ client'[c].base = mine /\ client'[c].seen = seen /\ client'[c].compared = base
        /\ client'[c].quality = old.quality /\ client'[c].verdict = old.verdict
        /\ client'[c].exit # 0
    BY <1>9, <1>10, <1>11, <1>13, <2>1
  <2>7. client'[c].verdict = Verdict(TRUE, client[c].quality, client[c].base, client[c].seen, TRUE)'
    BY <2>5, <2>6 DEF Verdict
  <2>8. client'[c].seen => HasMetric(client[c].base)'
    BY <2>3, <2>6 DEF HasMetric
  <2> QED BY <2>3, <2>4, <2>6, <2>7, <2>8 DEF JudgedOK
<1>16. ClientOK(c)'
  BY <1>12, <1>14, <1>15 DEF ClientOK
<1> QED BY <1>11, <1>16, Steps

\* A job exits with its own verdict's code, and with 0 only after a pass.
LEMMA Exited ==
  ASSUME IInv, NEW c \in Clients, Exit(c)
  PROVE  IInv'
<1>1. PICK required \in BOOLEAN :
        OnlyClient(c, [Forgotten(c) EXCEPT !.pc = "over", !.exit = ExitCode(c, required),
                                           !.required = required])
  BY DEF Exit
<1>2. PICK old : old = client[c]
  OBVIOUS
<1>3. PICK code : code = ExitCode(c, required)
  OBVIOUS
<1>4. /\ FormOK(c) /\ UploadOK(c) /\ RecordOK(c) /\ PublishedOK(c) /\ JudgedOK(c) /\ FinishedOK
      /\ client[c].op = "job" /\ At(c, "exit") /\ UNCHANGED <<registry, store>>
      /\ DOMAIN old = Fields
  BY <1>1, <1>2 DEF Exit, OnlyClient, Serving, IInv, ClientOK, StoreOK, FormOK
<1>5. PICK forgot : forgot = [old EXCEPT !.sent = 0, !.number = 0, !.kind = "none"]
  OBVIOUS
<1>6. PICK rec : rec = [forgot EXCEPT !.pc = "over", !.exit = code, !.required = required]
  OBVIOUS
<1>7. Become(c, rec)
  BY <1>1, <1>2, <1>3, <1>5, <1>6 DEF OnlyClient, Forgotten
<1>8. DOMAIN forgot = Fields /\ \A f \in Fields \ {"sent", "number", "kind"} : forgot[f] = old[f]
  BY <1>4, <1>5 DEF Fields
<1>9. /\ DOMAIN rec = Fields /\ rec.pc = "over" /\ rec.exit = code /\ rec.required = required
      /\ \A f \in Fields \ {"pc", "exit", "required"} : rec[f] = forgot[f]
  BY <1>6, <1>8 DEF Fields
<1>10. /\ rec.op = "job" /\ rec.quality = old.quality /\ rec.aborted = old.aborted /\ rec.share = old.share
       /\ rec.content = old.content /\ rec.base = old.base /\ rec.seen = old.seen
       /\ rec.verdict = old.verdict /\ rec.compared = old.compared /\ rec.server = old.server
       /\ rec.published = old.published
  BY <1>2, <1>4, <1>8, <1>9 DEF Fields
<1>11. StoreOK' /\ Kept(c) /\ client'[c] = rec
  <2>1. c \in Ran => ~client[c].aborted
    BY <1>4 DEF FinishedOK
  <2>2. c \in Ran => /\ rec.quality = client[c].quality /\ rec.share = client[c].share
                   /\ ~rec.aborted
    BY <1>2, <1>10, <2>1
  <2> QED BY <1>4, <1>7, <1>9, <2>2, Resting DEF store
<1>12. FormOK(c)' /\ ClaimOK(c)' /\ UploadOK(c)' /\ RecordOK(c)'
  <2>1. FormOK(c)'
    BY <1>9, <1>10, <1>11 DEF FormOK, PcsOf
  <2>2. ClaimOK(c)' /\ RecordOK(c)'
    BY <1>9, <1>10, <1>11 DEF ClaimOK, RecordOK, At, Deciding, Preparing
  <2>3. client[c].content \in Contents
    BY <1>4 DEF UploadOK, At
  <2>4. UploadOK(c)'
    BY <1>2, <1>9, <1>10, <1>11, <2>3 DEF UploadOK, At, Deciding, Preparing, Recording, Reporting
  <2> QED BY <2>1, <2>2, <2>4
<1>13. PublishedOK(c)'
  <2>1. UNCHANGED <<run, version>>
    BY <1>4 DEF store
  <2>2. ASSUME client[c].published PROVE Recorded(c, End(c), client[c].share, "all")'
    <3>1. Recorded(c, End(c), client[c].share, "all")
      BY <1>4, <2>2 DEF PublishedOK
    <3> QED BY <1>2, <1>10, <1>11, <2>1, <3>1 DEF Recorded, End
  <2> QED BY <1>2, <1>4, <1>9, <1>10, <1>11, <2>1, <2>2 DEF PublishedOK
<1>14. code = 0 => /\ old.verdict = "pass" /\ ~old.aborted
                   /\ required => old.published
  <2>1. LocalExit(c) \in {0, 1, 2}
    BY DEF LocalExit
  <2>2. Max({LocalExit(c), 3}) # 0
    <3>1. \E m \in {LocalExit(c), 3} : \A x \in {LocalExit(c), 3} : m >= x
      BY <2>1
    <3>2. \A x \in {LocalExit(c), 3} : Max({LocalExit(c), 3}) >= x
      BY <3>1 DEF Max
    <3>3. Max({LocalExit(c), 3}) >= 3 /\ ~(0 >= 3)
      BY <3>2
    <3> QED BY <3>3
  <2>3. LocalExit(c) = 0 => client[c].verdict = "pass" /\ ~client[c].aborted
    <3>1. client[c].verdict \in {"pass", "fail", "error"}
      BY <1>4 DEF JudgedOK, At, Verdict
    <3> QED BY <3>1 DEF LocalExit
  <2>4. code = 0 => LocalExit(c) = 0 /\ (required => client[c].published)
    BY <1>3, <2>2 DEF ExitCode
  <2> QED BY <1>2, <2>3, <2>4
<1>15. JudgedOK(c)'
  <2>1. PICK base, seen : base = old.base /\ seen = old.seen
    OBVIOUS
  <2>2. base \in Ran \cup {Nobody} /\ (seen => HasMetric(base)) /\ old.compared \in Ran \cup {Nobody}
    BY <1>2, <1>4, <2>1 DEF JudgedOK
  <2>3. base \in Ran' \cup {Nobody} /\ (seen => HasMetric(base)')
    BY <1>11, <2>2, Grounded
  <2>4. client'[c].seen => HasMetric(client[c].base)'
    BY <1>10, <1>11, <2>1, <2>3 DEF HasMetric
  <2>5. /\ client'[c].base \in Ran' \cup {Nobody} /\ client'[c].compared \in Ran' \cup {Nobody}
        /\ client'[c].pc = "over" /\ client'[c].exit = code /\ client'[c].required = required
        /\ client'[c].verdict = old.verdict /\ client'[c].aborted = old.aborted
        /\ client'[c].published = old.published
    BY <1>9, <1>10, <1>11, <2>1, <2>2, <2>3 DEF Kept
  <2> QED BY <1>14, <2>4, <2>5 DEF JudgedOK, Preparing, Recording
<1>16. ClientOK(c)'
  BY <1>12, <1>13, <1>15 DEF ClientOK
<1> QED BY <1>11, <1>16, Steps

\* A job that is killed leaves what it has written.
LEMMA Killed ==
  ASSUME IInv, NEW c \in Clients, Die(c)
  PROVE  IInv'
<1>1. PICK old : old = client[c]
  OBVIOUS
<1>2. PICK rec : rec = [Fresh EXCEPT !.pc = "gone", !.op = "job", !.quality = old.quality,
                                     !.share = old.share, !.aborted = old.aborted]
  OBVIOUS
<1>3. Become(c, rec) /\ UNCHANGED <<registry, store>>
  BY <1>1, <1>2 DEF Die
<1>4. /\ DOMAIN rec = Fields /\ rec.pc = "gone" /\ rec.op = "job" /\ rec.quality = old.quality
      /\ rec.share = old.share /\ rec.aborted = old.aborted /\ rec.base = Nobody /\ ~rec.seen /\ rec.compared = Nobody
      /\ ~rec.published /\ rec.exit # 0
  BY <1>2 DEF Fresh, Fields
<1>5. StoreOK' /\ Kept(c) /\ client'[c] = rec
  <2>1. c \in Ran => /\ rec.quality = client[c].quality /\ rec.share = client[c].share
                   /\ ~rec.aborted
    BY <1>1, <1>4, FinishedAreOver
  <2> QED BY <1>3, <1>4, <2>1, Resting DEF store
<1>6. FormOK(c)'
  BY <1>4, <1>5 DEF FormOK, PcsOf
<1>7. ClaimOK(c)' /\ UploadOK(c)' /\ PublishedOK(c)'
  BY <1>4, <1>5 DEF ClaimOK, UploadOK, PublishedOK, At, Deciding, Preparing, Recording, Reporting
<1>8. RecordOK(c)'
  BY <1>4, <1>5 DEF RecordOK, At, Deciding, Preparing
<1>9. JudgedOK(c)'
  BY <1>4, <1>5 DEF JudgedOK, Preparing, Recording
<1>10. ClientOK(c)'
  BY <1>6, <1>7, <1>8, <1>9 DEF ClientOK
<1> QED BY <1>5, <1>10, Steps

-----------------------------------------------------------------------------
\* The project is new, or holds one run of a job that is over.
LEMMA InitOK == Init => IInv
<1> SUFFICES ASSUME Init PROVE IInv
  OBVIOUS
<1>1. ASSUME NEW c \in Clients, NEW q, (client[c] = Fresh /\ run[c] = NoRun) \/ client[c] = Before(q)
      PROVE  /\ ClientOK(c) /\ client[c].pc \notin {"upload", "lock"} /\ ~client[c].aborted
             /\ client[c] = Before(q) => client[c].share = Parts
  <2>1. PICK rec : rec = client[c]
    OBVIOUS
  <2>2. /\ DOMAIN rec = Fields /\ rec.base = Nobody /\ ~rec.seen /\ rec.compared = Nobody
        /\ ~rec.published /\ rec.exit # 0 /\ ~rec.aborted
        /\ \/ rec.op = "none" /\ rec.pc = "idle" /\ run[c] = NoRun
           \/ rec.op = "job" /\ rec.pc = "gone" /\ rec.share = Parts
    <3>1. CASE rec = Fresh /\ run[c] = NoRun
      BY <3>1 DEF Fresh, Fields
    <3>2. CASE rec = Before(q)
      <4>1. PICK fresh : fresh = Fresh
        OBVIOUS
      <4>2. /\ DOMAIN fresh = Fields /\ fresh.base = Nobody /\ ~fresh.seen
            /\ fresh.compared = Nobody /\ ~fresh.published /\ fresh.exit # 0 /\ ~fresh.aborted
        BY <4>1 DEF Fresh, Fields
      <4>3. rec = [fresh EXCEPT !.pc = "gone", !.op = "job", !.quality = q, !.share = Parts]
        BY <3>2, <4>1 DEF Before
      <4>4. /\ DOMAIN rec = Fields /\ rec.pc = "gone" /\ rec.op = "job"
            /\ rec.share = Parts
            /\ \A f \in Fields \ {"pc", "op", "quality", "share"} : rec[f] = fresh[f]
        BY <4>2, <4>3 DEF Fields
      <4> QED BY <4>2, <4>4 DEF Fields
    <3> QED BY <1>1, <2>1, <3>1, <3>2
  <2>3. FormOK(c) /\ ClaimOK(c) /\ UploadOK(c) /\ PublishedOK(c)
    BY <2>1, <2>2 DEF FormOK, PcsOf, ClaimOK, UploadOK, PublishedOK, At, Deciding, Preparing, Recording,
                            Reporting
  <2>4. RecordOK(c)
    BY <2>1, <2>2 DEF RecordOK, At, Deciding, Preparing
  <2>5. JudgedOK(c)
    BY <2>1, <2>2 DEF JudgedOK, Preparing, Recording
  <2>6. client[c] = Before(q) => client[c].share = Parts
    BY <2>1, <2>2 DEF Before, Fresh
  <2> QED BY <2>1, <2>2, <2>3, <2>4, <2>5, <2>6 DEF ClientOK
<1>2. CASE /\ registry = NoVersions /\ finished = <<>>
           /\ version = [t \in Contents |-> NoVersion]
           /\ run = [c \in Clients |-> NoRun]
           /\ client = [c \in Clients |-> IF c \in Past THEN Before(0) ELSE Fresh]
  <2>1. \A c \in Clients : ClientOK(c) /\ client[c].pc \notin {"upload", "lock"}
    BY <1>1, <1>2
  <2>2. NoVersion \in VersionRange /\ NoVersion.status = "none" /\ NoRun \in RunRange
    BY PartAssumption DEF NoVersion, VersionRange, NoRun, RunRange
  <2>3. StoreRanges
    BY <1>2, <2>2 DEF StoreRanges, NoVersions
  <2>4. RegistryOK /\ FinishedOK
    BY <1>2 DEF RegistryOK, FinishedOK, Ran, NoVersions
  <2>5. VersionsOK
    BY <1>2, <2>1, <2>2 DEF VersionsOK
  <2> QED BY <2>1, <2>3, <2>4, <2>5 DEF IInv, StoreOK
<1>3. ASSUME NEW c \in Past, NEW t \in Contents, NEW q \in Qualities,
             /\ finished = <<c>>
             /\ registry = [NoVersions EXCEPT !["gates"] = {[number |-> 1, config |-> Nobody]}]
             /\ version = [u \in Contents |->
                             IF u = t THEN [status |-> "locked", rows |-> Parts] ELSE NoVersion]
             /\ run = [d \in Clients |-> IF d = c THEN Whole(t) ELSE NoRun]
             /\ client = [d \in Clients |-> IF d \in Past THEN Before(q) ELSE Fresh]
      PROVE  IInv
  <2>1. c \in Clients
    BY PartAssumption
  <2>2. \A d \in Clients : /\ ClientOK(d) /\ client[d].pc \notin {"upload", "lock"}
                           /\ ~client[d].aborted
    <3> SUFFICES ASSUME NEW d \in Clients
                 PROVE  ClientOK(d) /\ client[d].pc \notin {"upload", "lock"} /\ ~client[d].aborted
      OBVIOUS
    <3>1. (client[d] = Fresh /\ run[d] = NoRun) \/ client[d] = Before(q)
      BY <1>3
    <3> QED BY <1>1, <3>1
  <2>3. PICK whole : whole = [status |-> "locked", rows |-> Parts]
    OBVIOUS
  <2>4. /\ NoVersion \in VersionRange /\ NoVersion.status = "none" /\ NoRun \in RunRange
        /\ whole \in VersionRange /\ whole.rows = Parts /\ Whole(t) \in RunRange
        /\ Whole(t).status = "succeeded" /\ Whole(t).results = Parts
    BY <2>3, PartAssumption DEF NoVersion, VersionRange, NoRun, RunRange, Whole
  <2>5. version = [u \in Contents |-> IF u = t THEN whole ELSE NoVersion]
    BY <1>3, <2>3
  <2>6. DOMAIN registry = Versioned
    BY <1>3 DEF NoVersions, Versioned
  <2>7. finished \in Seq(Clients) /\ Ran = {c}
    BY <1>3, <2>1 DEF Ran
  <2>8. StoreRanges
    BY <1>3, <2>4, <2>5, <2>6, <2>7 DEF StoreRanges
  <2>9. RegistryOK
    <3>1. \A kind \in Versioned :
            registry[kind] = {} \/ registry[kind] = {[number |-> 1, config |-> Nobody]}
      BY <1>3 DEF NoVersions, Versioned
    <3> QED BY <3>1 DEF RegistryOK
  <2>10. FinishedOK
    <3>1. client[c].share = Parts /\ run[c] = Whole(t)
      BY <1>1, <1>3, <2>1
    <3> QED BY <2>1, <2>2, <2>4, <2>7, <3>1 DEF FinishedOK
  <2>11. VersionsOK
    BY <2>2, <2>4, <2>5 DEF VersionsOK
  <2> QED BY <2>2, <2>8, <2>9, <2>10, <2>11 DEF IInv, StoreOK
<1> QED BY <1>2, <1>3 DEF Init

\* Every step keeps the record whole.
LEMMA NextOK == IInv /\ [Next]_vars => IInv'
<1> SUFFICES ASSUME IInv, [Next]_vars PROVE IInv'
  OBVIOUS
<1>1. CASE UNCHANGED vars
  <2>1. /\ named' = named /\ registry' = registry /\ client' = client
        /\ version' = version /\ run' = run /\ finished' = finished /\ promoted' = promoted
    BY <1>1 DEF vars, store
  <2>2. StoreOK'
    BY <2>1 DEF IInv, StoreOK, StoreRanges, RegistryOK, VersionsOK, FinishedOK, Ran
  <2>3. ASSUME NEW c \in Clients PROVE ClientOK(c)'
    <3>1. ClientOK(c)
      BY DEF IInv
    <3>2. (FormOK(c) /\ ClaimOK(c) /\ UploadOK(c) /\ RecordOK(c))'
      BY <2>1, <3>1 DEF ClientOK, FormOK, ClaimOK, UploadOK, RecordOK, Recorded, At, End
    <3>3. PublishedOK(c)' /\ JudgedOK(c)'
      BY <2>1, <3>1 DEF ClientOK, PublishedOK, JudgedOK, Ran, Recorded, At, End, HasMetric, Verdict
    <3> QED BY <3>2, <3>3 DEF ClientOK
  <2> QED BY <2>2, <2>3 DEF IInv
<1>2. ASSUME NEW c \in Clients, RegisterStep(c), UNCHANGED store PROVE IInv'
  BY <1>2, RegistrationBegun, RegistrationNamed, ConfigFound, HighestRead, VersionInserted
     DEF RegisterStep
<1>3. ASSUME NEW c \in Clients, JobStep(c) PROVE IInv'
  BY <1>3, JobBegun, BaselineFetched, Measured, Skipped, DatasetEnsured, VersionResolved,
     VersionCreated, VersionFilled, VersionLocked, ExperimentCreated, RunOpened, ResultsSent,
     RunCompleted, MetricsSubmitted, Compared, Exited, Failed, Killed DEF JobStep
<1>4. ASSUME NEW c \in Clients, BeginPromote(c) \/ Promote(c) PROVE IInv'
  BY <1>4, PromotionBegun, Promoted
<1> QED BY <1>1, <1>2, <1>3, <1>4 DEF Next

\* The inductive invariant of publishing.
THEOREM Invariance == Spec => []IInv
BY InitOK, NextOK, PTL DEF Spec

\* What a job reports as published holds every result it has, on a version that is locked and
\* whole, and so does every baseline that a verdict was about: whatever was limited, killed,
\* refused or retried meanwhile.
THEOREM WholeRecords == Spec => []RecordIsWhole
<1>1. IInv => RecordIsWhole
  <2> SUFFICES ASSUME IInv PROVE RecordIsWhole
    OBVIOUS
  <2>1. PublishedIsWhole
    BY DEF IInv, ClientOK, PublishedOK, Recorded, PublishedIsWhole, Published, Jobs
  <2>2. ASSUME NEW c \in Jobs, NEW b \in {client[c].base, client[c].compared} \ {Nobody}
        PROVE  run[b].results = client[b].share /\ ~client[b].aborted
    <3>1. JudgedOK(c) /\ client[c].op = "job" /\ FinishedOK
      BY DEF IInv, ClientOK, StoreOK, Jobs, Serving
    <3>2. b \in Ran
      BY <3>1 DEF JudgedOK
    <3> QED BY <3>1, <3>2 DEF FinishedOK
  <2> QED BY <2>1, <2>2 DEF RecordIsWhole, BaselinesSound
<1> QED BY <1>1, Invariance, PTL

\* A job exits with 0 only after its own verdict was a pass, and the server, asked about the
\* same baseline and the same data, decides as it did.
THEOREM VerdictsStand == Spec => []VerdictsHold
<1>1. IInv => VerdictsHold
  <2> SUFFICES ASSUME IInv PROVE VerdictsHold
    OBVIOUS
  <2>1. ExitIsLocal
    BY DEF IInv, ClientOK, JudgedOK, ExitIsLocal, Jobs, Serving
  <2>2. AgreesOnSameBaseline
    BY DEF IInv, ClientOK, PublishedOK, AgreesOnSameBaseline, Published, Jobs
  <2> QED BY <2>1, <2>2 DEF VerdictsHold
<1> QED BY <1>1, Invariance, PTL

\* Those who register one configuration of the evaluator, however they race, get one version.
THEOREM OneVersion == Spec => []OneVersionPerConfig
<1>1. IInv => OneVersionPerConfig
  <2> SUFFICES ASSUME IInv, NEW c \in Clients, NEW d \in Clients,
                      At(c, "registered"), At(d, "registered"),
                      client[c].kind = "evaluator", client[d].kind = "evaluator",
                      client[c].config = client[d].config
               PROVE  client[c].number = client[d].number
    BY DEF OneVersionPerConfig
  <2>1. ClaimOK(c) /\ ClaimOK(d) /\ RegistryOK
    BY DEF IInv, ClientOK, StoreOK
  <2>2. PICK r \in registry["evaluator"] : r.number = client[c].number /\ r.config = client[c].config
    BY <2>1 DEF ClaimOK
  <2>3. PICK s \in registry["evaluator"] : s.number = client[d].number /\ s.config = client[d].config
    BY <2>1 DEF ClaimOK
  <2>4. "evaluator" \in Versioned /\ r.config = s.config
    BY <2>2, <2>3 DEF Versioned
  <2> QED BY <2>1, <2>2, <2>3, <2>4 DEF RegistryOK
<1> QED BY <1>1, Invariance, PTL

-----------------------------------------------------------------------------
(* The gate engine.                                                         *)

\* What is concluded from a rule has the rule's severity, and is a verdict or an exception.
LEMMA Concluded ==
  ASSUME NEW r, NEW candidate, NEW baseline, NEW tests
  PROVE  /\ Apply(r, candidate, baseline, tests).severity = r.severity
         /\ Apply(r, candidate, baseline, tests).verdict \in {"pass", "fail", "error", "raised"}
<1>1. ASSUME NEW verdict, NEW clause
      PROVE  /\ Result(r, verdict, clause).severity = r.severity
             /\ Result(r, verdict, clause).verdict = verdict
  BY DEF Result
<1>2. ASSUME NEW m, NEW b
      PROVE  /\ CheckRegression(r, m, b, tests).severity = r.severity
             /\ CheckRegression(r, m, b, tests).verdict \in {"pass", "fail", "error", "raised"}
  BY <1>1 DEF CheckRegression
<1>3. ASSUME NEW m
      PROVE  /\ WithBaseline(r, m, baseline, tests).severity = r.severity
             /\ WithBaseline(r, m, baseline, tests).verdict \in {"pass", "fail", "error", "raised"}
  BY <1>1, <1>2 DEF WithBaseline
<1>4. ASSUME NEW m
      PROVE  /\ WithMetric(r, m, baseline, tests).severity = r.severity
             /\ WithMetric(r, m, baseline, tests).verdict \in {"pass", "fail", "error", "raised"}
  BY <1>1, <1>3 DEF WithMetric
<1> QED BY <1>1, <1>4 DEF Apply

\* What a rule may have found against a baseline that has its metric: no drop beyond its
\* limits, or one beyond the absolute limit that a test showed to be noise.
WithinLimits(r, m, b, tests) ==
  /\ (r.maxAbs # None /\ DropAbove(m, b, r.maxAbs)) => NoiseShown(r, tests)
  /\ (~(r.maxAbs # None /\ DropAbove(m, b, r.maxAbs)) /\ r.maxRel # None) =>
        ~RelativeDropAbove(m, b, r.maxRel)

\* A rule that passes against a baseline stays within its limits.
LEMMA NoRegression ==
  ASSUME NEW r, NEW m, NEW b, NEW tests, CheckRegression(r, m, b, tests).verdict = "pass"
  PROVE  WithinLimits(r, m, b, tests)
<1>1. CASE AsksNoise(r, m, b)
  <2>1. r.significance # None /\ r.maxAbs # None /\ DropAbove(m, b, r.maxAbs)
    BY <1>1 DEF AsksNoise
  <2>2. r.key \in DOMAIN tests
    BY <1>1 DEF CheckRegression, Result
  <2>3. ~IsSignificant(tests[r.key], r.significance) /\ PValue(tests[r.key]) # None
    BY <1>1, <2>1, <2>2 DEF CheckRegression, Result
  <2>4. NoiseShown(r, tests)
    BY <2>1, <2>2, <2>3 DEF NoiseShown, IsSignificant
  <2> QED BY <2>1, <2>4 DEF WithinLimits
<1>2. CASE ~AsksNoise(r, m, b)
  <2>1. ~(r.maxAbs # None /\ DropAbove(m, b, r.maxAbs))
    BY <1>2 DEF CheckRegression, Result
  <2>2. r.maxRel # None => ~RelativeDropAbove(m, b, r.maxRel)
    BY <1>2, <2>1 DEF CheckRegression, Result
  <2> QED BY <2>1, <2>2 DEF WithinLimits
<1> QED BY <1>1, <1>2

\* A rule passes only on evidence: its metric is there and was measured, within the limits, and
\* against the baseline where there is one or must be one.
LEMMA PassedOn ==
  ASSUME NEW r, NEW candidate, NEW baseline, NEW tests,
         Apply(r, candidate, baseline, tests).verdict = "pass"
  PROVE  /\ Lookup(r) \in DOMAIN candidate
         /\ candidate[Lookup(r)].count # 0
         /\ ~ErrorRateAbove(candidate[Lookup(r)], r.maxErrorRate)
         /\ r.minimum # None => ~Below(candidate[Lookup(r)], r.minimum)
         /\ r.maximum # None => ~Above(candidate[Lookup(r)], r.maximum)
         /\ r.requireBaseline => Lookup(r) \in DOMAIN baseline
         /\ Lookup(r) \in DOMAIN baseline =>
               WithinLimits(r, candidate[Lookup(r)], baseline[Lookup(r)], tests)
<1> DEFINE m == candidate[Lookup(r)]
           b == baseline[Lookup(r)]
<1>1. /\ Lookup(r) \in DOMAIN candidate
      /\ WithMetric(r, m, baseline, tests).verdict = "pass"
  BY DEF Apply, Result
<1>2. /\ m.count # 0 /\ ~ErrorRateAbove(m, r.maxErrorRate)
      /\ r.minimum # None => ~Below(m, r.minimum)
      /\ r.maximum # None => ~Above(m, r.maximum)
      /\ NeedsBaseline(r) \/ r.requireBaseline => WithBaseline(r, m, baseline, tests).verdict = "pass"
  <2> HIDE DEF m
  <2> QED BY <1>1 DEF WithMetric, Result
<1>3. ASSUME r.requireBaseline PROVE Lookup(r) \in DOMAIN baseline
  BY <1>2, <1>3 DEF WithBaseline, Result
<1>4. ASSUME Lookup(r) \in DOMAIN baseline, NeedsBaseline(r)
      PROVE  WithinLimits(r, m, b, tests)
  <2>1. CheckRegression(r, m, b, tests).verdict = "pass"
    BY <1>2, <1>4 DEF WithBaseline
  <2> HIDE DEF m, b
  <2> QED BY <2>1, NoRegression
<1>5. ~NeedsBaseline(r) => WithinLimits(r, m, b, tests)
  BY DEF NeedsBaseline, WithinLimits
<1> QED BY <1>1, <1>2, <1>3, <1>4, <1>5

\* A verdict that lets a run through leaves no blocking rule that did not pass.
LEMMA NothingBlocks ==
  ASSUME NEW gs, NEW candidate, NEW baseline, NEW match, NEW judges, NEW calibrations, NEW tests,
         Passed(EvaluateGates(gs, candidate, baseline, match, judges, calibrations, tests))
  PROVE  /\ gs.requireMatch => match
         /\ \A r \in gs.rules :
               Blocking(r) => Apply(r, candidate, baseline, tests).verdict = "pass"
<1> DEFINE all == GateResults(gs, candidate, baseline, match, judges, calibrations, tests)
<1>1. \A x \in all : Blocking(x) => x.verdict \notin {"error", "fail"}
  <2> HIDE DEF all
  <2>1. Passed(Combine(all))
    BY DEF EvaluateGates, all, Passed
  <2> QED BY <2>1 DEF Combine, Passed
<1>2. ASSUME gs.requireMatch, ~match PROVE FALSE
  <2>1. DatasetMismatch \in all
    BY <1>2 DEF GateResults
  <2>2. Blocking(DatasetMismatch) /\ DatasetMismatch.verdict = "error"
    BY DEF DatasetMismatch, Blocking
  <2> HIDE DEF all
  <2> QED BY <1>1, <2>1, <2>2
<1>3. \A x \in all : x.verdict # "raised"
  BY DEF EvaluateGates, all, Passed
<1>4. ASSUME NEW r \in gs.rules, Blocking(r)
      PROVE  Apply(r, candidate, baseline, tests).verdict = "pass"
  <2>1. Apply(r, candidate, baseline, tests) \in all
    BY DEF GateResults
  <2> HIDE DEF all
  <2>2. Blocking(Apply(r, candidate, baseline, tests))
    BY <1>4, Concluded DEF Blocking
  <2> QED BY <1>1, <1>3, <2>1, <2>2, Concluded
<1> QED BY <1>2, <1>4

\* Where no metadata adds slices, a score is in its own slice only.
LEMMA OwnSlice ==
  ASSUME NEW s, NEW x
  PROVE  SlicesOf(s, x, {}) = {s.slice}
BY DEF SlicesOf, ExtraSlices

\* A metric is what is counted from its scores, one by one.
LEMMA CountedOneByOne ==
  ASSUME NEW results_, NEW r, Lookup(r) \in Lookups(results_, {})
  PROVE  LET m == AggregateScores(results_, {})[Lookup(r)]
         IN  /\ m.count = Cardinality(ValuesFor(results_, r))
             /\ m.errors = Cardinality(FailuresFor(results_, r))
             /\ m.sum = SumAt(ValuesFor(results_, r))
<1> DEFINE places == Bucket(results_, r.key, r.slice, {})
           good == {p \in places : Counts(p[1].scores[p[2]])}
           bad == {p \in places : p[1].scores[p[2]].errored}
<1>1. good = ValuesFor(results_, r)
  BY OwnSlice DEF Bucket, ValuesFor, ScoresFor
<1>2. bad = FailuresFor(results_, r)
  BY OwnSlice DEF Bucket, FailuresFor
<1>3. AggregateScores(results_, {})[Lookup(r)] = BuildMetric(results_, Lookup(r), {})
  BY DEF AggregateScores
<1>4. Lookup(r)[1] = r.key /\ Lookup(r)[2] = r.slice
  BY DEF Lookup
<1>5. BuildMetric(results_, Lookup(r), {}) =
        [key |-> r.key, slice |-> r.slice, sum |-> SumAt(good), count |-> Cardinality(good),
         errors |-> Cardinality(bad)]
  BY <1>4 DEF BuildMetric
<1> HIDE DEF good, bad, places
<1> QED BY <1>1, <1>2, <1>3, <1>5

\* There is a metric exactly where there is a score that counts, or a failure.
LEMMA MetricHasScores ==
  ASSUME NEW results_, NEW r
  PROVE  Lookup(r) \in DOMAIN AggregateScores(results_, {})
         <=> ValuesFor(results_, r) \cup FailuresFor(results_, r) # {}
<1>1. DOMAIN AggregateScores(results_, {}) = Lookups(results_, {})
  BY DEF AggregateScores
<1>2. ASSUME Lookup(r) \in Lookups(results_, {})
      PROVE  ValuesFor(results_, r) \cup FailuresFor(results_, r) # {}
  <2>1. PICK x \in results_ : \E i \in DOMAIN x.scores :
           /\ x.scores[i].errored \/ x.scores[i].value # None
           /\ Lookup(r) \in {<<x.scores[i].metric, sl>> : sl \in SlicesOf(x.scores[i], x, {})}
    BY <1>2 DEF Lookups
  <2>2. PICK i \in DOMAIN x.scores :
           /\ x.scores[i].errored \/ x.scores[i].value # None
           /\ x.scores[i].metric = r.key /\ x.scores[i].slice = r.slice
    BY <2>1, OwnSlice DEF Lookup
  <2>3. <<x, i>> \in UNION {{y} \X DOMAIN y.scores : y \in results_}
    OBVIOUS
  <2>4. <<x, i>>[1] = x /\ <<x, i>>[2] = i
    OBVIOUS
  <2> QED BY <2>2, <2>3, <2>4 DEF ValuesFor, FailuresFor, ScoresFor, Counts
<1>3. ASSUME NEW p \in ValuesFor(results_, r) \cup FailuresFor(results_, r)
      PROVE  Lookup(r) \in Lookups(results_, {})
  <2>1. PICK x \in results_ : p \in {x} \X DOMAIN x.scores
    BY <1>3 DEF ValuesFor, FailuresFor, ScoresFor
  <2>2. PICK i \in DOMAIN x.scores : p = <<x, i>>
    BY <2>1
  <2>3. /\ x.scores[i].metric = r.key /\ x.scores[i].slice = r.slice
        /\ x.scores[i].errored \/ x.scores[i].value # None
    BY <1>3, <2>2 DEF ValuesFor, FailuresFor, ScoresFor, Counts
  <2>4. Lookup(r) \in {<<x.scores[i].metric, sl>> : sl \in SlicesOf(x.scores[i], x, {})}
    BY <2>3, OwnSlice DEF Lookup
  <2> QED BY <2>3, <2>4 DEF Lookups
<1> QED BY <1>1, <1>2, <1>3

\* A blocking rule of a run that passes is borne out by the examples.
LEMMA PassIsBornOut ==
  ASSUME NEW r, NEW candidate, NEW baseline, NEW tests,
         Apply(r, AggregateScores(candidate, {}), AggregateScores(baseline, {}), tests).verdict
           = "pass"
  PROVE  BornOut(r, candidate, baseline, tests)
<1> DEFINE values == ValuesFor(candidate, r)
           before == ValuesFor(baseline, r)
           failed == Cardinality(FailuresFor(candidate, r))
           n == Cardinality(values)
           k == Cardinality(before)
           drop == SumAt(before) * n - SumAt(values) * k
           beyond == r.maxAbs # None /\ drop > r.maxAbs * n * k
           m == AggregateScores(candidate, {})[Lookup(r)]
           b == AggregateScores(baseline, {})[Lookup(r)]
<1>1. /\ Lookup(r) \in DOMAIN AggregateScores(candidate, {})
      /\ m.count # 0
      /\ ~ErrorRateAbove(m, r.maxErrorRate)
      /\ r.minimum # None => ~Below(m, r.minimum)
      /\ r.maximum # None => ~Above(m, r.maximum)
      /\ r.requireBaseline => Lookup(r) \in DOMAIN AggregateScores(baseline, {})
      /\ Lookup(r) \in DOMAIN AggregateScores(baseline, {}) => WithinLimits(r, m, b, tests)
  BY PassedOn
<1>2. m.count = n /\ m.errors = failed /\ m.sum = SumAt(values)
  BY <1>1, CountedOneByOne DEF AggregateScores
<1>3. Num(m) = SumAt(values) /\ Den(m) = n
  BY <1>1, <1>2 DEF Num, Den
<1>4. values # {}
  BY <1>1, <1>2, FS_EmptySet
<1>5. r.requireBaseline => before \cup FailuresFor(baseline, r) # {}
  BY <1>1, MetricHasScores
<1>6. ASSUME k # 0
      PROVE  /\ beyond => NoiseShown(r, tests)
             /\ (~beyond /\ r.maxRel # None /\ SumAt(before) # 0) =>
                  ~(100 * drop > r.maxRel * Abs(SumAt(before)) * n)
  <2>1. before # {}
    BY <1>6, FS_EmptySet
  <2>2. Lookup(r) \in DOMAIN AggregateScores(baseline, {})
    BY <2>1, MetricHasScores
  <2>3. b.count = k /\ b.sum = SumAt(before)
    BY <2>2, CountedOneByOne DEF AggregateScores
  <2>4. Num(b) = SumAt(before) /\ Den(b) = k
    BY <1>6, <2>3 DEF Num, Den
  <2>5. DropNum(m, b) = drop
    BY <1>3, <2>4 DEF DropNum
  <2>6. WithinLimits(r, m, b, tests)
    BY <1>1, <2>2
  <2> HIDE DEF m, b, drop, n, k, before
  <2>7. beyond <=> (r.maxAbs # None /\ DropAbove(m, b, r.maxAbs))
    BY <1>3, <2>4, <2>5 DEF DropAbove
  <2> HIDE DEF beyond
  <2> QED BY <1>3, <2>4, <2>5, <2>6, <2>7 DEF WithinLimits, RelativeDropAbove
<1>7. ~(100 * failed > r.maxErrorRate * (n + failed))
  BY <1>1, <1>2 DEF ErrorRateAbove
<1>8. /\ r.minimum # None => ~(SumAt(values) < r.minimum * n)
      /\ r.maximum # None => ~(SumAt(values) > r.maximum * n)
  BY <1>1, <1>3 DEF Below, Above
<1> QED BY <1>4, <1>5, <1>6, <1>7, <1>8 DEF BornOut

\* The server keeps every field of a gate set whose rules are valid and test nothing.
LEMMA StoredAsIs ==
  ASSUME NEW gs, IsGateSet(gs), \A r \in gs.rules : RuleOk(r) /\ ~NeedsSignificance(r)
  PROVE  StoredGateSet(gs) = gs
<1>1. ASSUME NEW r \in gs.rules PROVE WireRule(r) = r
  <2>1. r = [key |-> r.key, slice |-> r.slice, minimum |-> r.minimum, maximum |-> r.maximum,
             maxAbs |-> r.maxAbs, maxRel |-> r.maxRel, severity |-> r.severity,
             requireBaseline |-> r.requireBaseline, maxErrorRate |-> r.maxErrorRate,
             significance |-> r.significance, requirePower |-> r.requirePower]
    BY DEF IsGateSet, IsRule
  <2>2. r.significance = None /\ r.requirePower = FALSE
    BY DEF NeedsSignificance
  <2> QED BY <2>1, <2>2 DEF WireRule
<1>2. {WireRule(r) : r \in {x \in gs.rules : RuleOk(x)}} = gs.rules
  BY <1>1
<1>3. gs = [rules |-> gs.rules, requireMatch |-> gs.requireMatch, calibration |-> gs.calibration]
  BY DEF IsGateSet
<1> QED BY <1>2, <1>3 DEF StoredGateSet

\* Without tests in the rules, what the paired tests said changes nothing.
LEMMA TestsDoNotMatter ==
  ASSUME NEW r, ~NeedsSignificance(r), NEW candidate, NEW baseline, NEW t, NEW u
  PROVE  Apply(r, candidate, baseline, t) = Apply(r, candidate, baseline, u)
<1>1. ~r.requirePower /\ r.significance = None
  BY DEF NeedsSignificance
<1>2. ASSUME NEW m, NEW b PROVE CheckRegression(r, m, b, t) = CheckRegression(r, m, b, u)
  BY <1>1 DEF CheckRegression, NoPower, Underpowered, AsksNoise
<1>3. ASSUME NEW m PROVE WithBaseline(r, m, baseline, t) = WithBaseline(r, m, baseline, u)
  BY <1>2 DEF WithBaseline
<1>4. ASSUME NEW m PROVE WithMetric(r, m, baseline, t) = WithMetric(r, m, baseline, u)
  BY <1>3 DEF WithMetric
<1> QED BY <1>4 DEF Apply

\* The questions are about the gate sets, the candidates and the baselines there are.
GateQuestion ==
  Asked("gates") =>
    /\ asked[2].gates \in GateSets
    /\ asked[2].candidate \in Scorings /\ asked[2].baseline \in Baselines

\* Whatever is asked, a question about gates is one of them.
LEMMA QuestionsOK == GateSpec => []GateQuestion
<1>1. asked = <<>> => GateQuestion
  BY DEF GateQuestion, Asked
<1>2. GateQuestion /\ [AskGates \/ AskElse]_asked => GateQuestion'
  <2>1. CASE UNCHANGED asked
    BY <2>1 DEF GateQuestion, Asked
  <2>2. CASE AskElse
    BY <2>2 DEF AskElse, GateQuestion, Asked
  <2>3. CASE AskGates
    <3>1. PICK g \in GateSets, c \in Scorings, b \in Baselines, m \in BOOLEAN :
            \E e \in DOMAIN c :
              asked' = <<"gates", [gates |-> g, candidate |-> c, worse |-> e, baseline |-> b,
                                   match |-> m]>>
      BY <2>3 DEF AskGates
    <3>2. PICK e \in DOMAIN c :
            asked' = <<"gates", [gates |-> g, candidate |-> c, worse |-> e, baseline |-> b,
                                 match |-> m]>>
      BY <3>1
    <3> QED BY <3>2 DEF GateQuestion, Asked
  <2> QED BY <2>1, <2>2, <2>3
<1> QED BY <1>1, <1>2, PTL DEF GateSpec

\* For any gate sets, scores and baselines: a run that passes has earned it, every blocking
\* rule being borne out by the examples one by one; and for rules without paired tests the
\* server, from the stored gate set, decides what the command line decided.
THEOREM GatesAreSound == GateSpec => []GatesSound
<1>1. GateQuestion => GatesSound
  <2> SUFFICES ASSUME GateQuestion, Asked("gates") PROVE GatesSound
    BY DEF GatesSound, GatePassIsEarned, VerdictsAgreeWithoutTests
  <2> DEFINE q == asked[2]
             mine == Completed(q.candidate)
             theirs == Completed(q.baseline)
             tests == Tests(q.gates, mine, theirs)
  <2>1. IsGateSet(q.gates)
    BY GateSetAssumption DEF GateQuestion
  <2>2. ASSUME Passed(GateVerdict(q, q.candidate))
        PROVE  /\ q.gates.requireMatch => q.match
               /\ \A r \in q.gates.rules : Blocking(r) => BornOut(r, mine, theirs, tests)
    <3>1. /\ q.gates.requireMatch => q.match
          /\ \A r \in q.gates.rules : Blocking(r) =>
                Apply(r, AggregateScores(mine, {}), AggregateScores(theirs, {}), tests).verdict
                  = "pass"
      BY <2>2, NothingBlocks DEF GateVerdict
    <3> HIDE DEF q, mine, theirs, tests
    <3> QED BY <3>1, PassIsBornOut
  <2>3. ASSUME \A r \in q.gates.rules : RuleOk(r) /\ ~NeedsSignificance(r)
        PROVE  ServerAgrees(q)
    <3>1. StoredGateSet(q.gates) = q.gates
      BY <2>1, <2>3, StoredAsIs
    <3>2. ASSUME NEW r \in q.gates.rules
          PROVE  Apply(r, AggregateScores(mine, {}), AggregateScores(theirs, {}), <<>>)
                 = Apply(r, AggregateScores(mine, {}), AggregateScores(theirs, {}), tests)
      BY <2>3, TestsDoNotMatter
    <3>3. GateResults(q.gates, AggregateScores(mine, {}), AggregateScores(theirs, {}), q.match,
                      {}, <<>>, <<>>)
          = GateResults(q.gates, AggregateScores(mine, {}), AggregateScores(theirs, {}), q.match,
                        {}, <<>>, tests)
      <4> HIDE DEF q, mine, theirs, tests
      <4> QED BY <3>2 DEF GateResults
    <3> QED BY <3>1, <3>3 DEF ServerAgrees, ServerVerdict, GateVerdict, EvaluateGates
  <2>4. GatePassIsEarned
    BY <2>2 DEF GatePassIsEarned
  <2>5. VerdictsAgreeWithoutTests
    BY <2>3 DEF VerdictsAgreeWithoutTests
  <2> QED BY <2>4, <2>5 DEF GatesSound
<1> QED BY <1>1, QuestionsOK, PTL

-----------------------------------------------------------------------------
(* Calibration.                                                             *)

\* Nothing is greater than everything: a share of all of something is above any limit.
LEMMA AllIsAbove ==
  ASSUME NEW S, IsFiniteSet(S), S # {}, NEW limit \in 0 .. 99
  PROVE  RateAbove(Rate(Cardinality(S), Cardinality(S)), limit)
<1>1. Cardinality(S) \in Nat /\ Cardinality(S) # 0
  BY FS_CardinalityType, FS_EmptySet
<1> DEFINE n == Cardinality(S)
<1>2. Rate(n, n) = [num |-> n, den |-> n]
  BY <1>1 DEF Rate
<1>3. [num |-> n, den |-> n] \in [num : Int, den : Int] /\ limit \in Int
  BY <1>1
<1>4. Rate(n, n) # None /\ limit # None
  BY <1>2, <1>3, NoneAssumption
<1>5. 100 * n > limit * n
  BY <1>1
<1>6. RateAbove(Rate(n, n), limit)
  <2> HIDE DEF n
  <2> QED BY <1>2, <1>4, <1>5 DEF RateAbove
<1> QED BY <1>6

\* A judge that gives every example the same answer fails one of the two rates.
LEMMA ConstantJudgeFails ==
  ASSUME NEW D, IsFiniteSet(D), NEW labelled, NEW verdicts, NEW label \in {1, 2}, NEW order, NEW req,
         DOMAIN labelled = D, DOMAIN verdicts = D,
         \A e \in D : labelled[e].human \in {1, 2} /\ labelled[e].adjudicated = None,
         \A e \in D : verdicts[e] = [id |-> e, label |-> label, errored |-> FALSE],
         \E e \in D : labelled[e].human = 1, \E e \in D : labelled[e].human = 2,
         req.maxFalsePass \in 0 .. 99, req.maxFalseFail \in 0 .. 99
  PROVE  ~Satisfied(Calibrate(labelled, verdicts, {2}, order, <<>>), req)
<1> DEFINE report == Calibrate(labelled, verdicts, {2}, order, <<>>)
           pairs == PairsOf(labelled, verdicts)
           bad == {e \in D : labelled[e].human = 1}
           good == {e \in D : labelled[e].human = 2}
<1>1. DOMAIN pairs = D /\ \A e \in D : pairs[e] = <<labelled[e].human, label>>
  <2>1. label # None
    BY NoneAssumption
  <2>2. UsableVerdicts(labelled, verdicts) = D
    BY <2>1 DEF UsableVerdicts, Known, NoAnswer
  <2>3. ASSUME NEW e \in D
        PROVE  verdicts[e].id = e /\ verdicts[e].label = label
               /\ ReferenceLabel(labelled[e]) = labelled[e].human
    BY DEF ReferenceLabel
  <2> QED BY <2>2, <2>3 DEF PairsOf
<1>2. IsFiniteSet(bad) /\ bad # {} /\ IsFiniteSet(good) /\ good # {}
  BY FS_Subset
<1>3. report.falsePass = FalsePass(pairs, {2}) /\ report.falseFail = FalseFail(pairs, {2})
  <2> QED BY DEF Calibrate
<1>4. ASSUME label = 2 PROVE RateAbove(report.falsePass, req.maxFalsePass)
  <2>1. {i \in DOMAIN pairs : pairs[i][1] \notin {2}} = bad
    <3> HIDE DEF pairs
    <3> QED BY <1>1
  <2>2. {i \in bad : pairs[i][2] \in {2}} = bad
    <3> HIDE DEF pairs
    <3> QED BY <1>1, <1>4
  <2>3. FalsePass(pairs, {2}) = Rate(Cardinality(bad), Cardinality(bad))
    <3> HIDE DEF pairs, bad
    <3> QED BY <2>1, <2>2 DEF FalsePass
  <2> HIDE DEF bad, pairs, report
  <2> QED BY <1>2, <1>3, <2>3, AllIsAbove
<1>5. ASSUME label = 1 PROVE RateAbove(report.falseFail, req.maxFalseFail)
  <2>1. {i \in DOMAIN pairs : pairs[i][1] \in {2}} = good
    <3> HIDE DEF pairs
    <3> QED BY <1>1
  <2>2. {i \in good : pairs[i][2] \notin {2}} = good
    <3> HIDE DEF pairs
    <3> QED BY <1>1, <1>5
  <2>3. FalseFail(pairs, {2}) = Rate(Cardinality(good), Cardinality(good))
    <3> HIDE DEF pairs, good
    <3> QED BY <2>1, <2>2 DEF FalseFail
  <2> HIDE DEF good, pairs, report
  <2> QED BY <1>2, <1>3, <2>3, AllIsAbove
<1>6. ~Satisfied(report, req)
  <2> HIDE DEF report
  <2> QED BY <1>4, <1>5 DEF Satisfied, CheckRequirement
<1> QED BY <1>6

\* A finite set of integers that is not empty has a smallest member.
LEMMA Smallest ==
  ASSUME NEW S \in SUBSET Int, IsFiniteSet(S), S # {}
  PROVE  \E m \in S : \A x \in S : m <= x
<1> DEFINE f == [x \in S |-> -x]
           T == {-x : x \in S}
<1>1. f \in Surjection(S, T)
  BY DEF Surjection
<1>2. IsFiniteSet(T)
  <2> HIDE DEF f, T
  <2> QED BY <1>1, FS_Surjection
<1>3. T \in SUBSET Int /\ T # {}
  OBVIOUS
<1>4. PICK t \in T : \A y \in T : t >= y
  <2> HIDE DEF T
  <2>1. Max(T) \in T /\ \A x \in T : Max(T) >= x
    BY <1>2, <1>3, Largest
  <2> QED BY <2>1
<1>5. PICK m \in S : t = -m
  BY <1>4
<1>6. ASSUME NEW x \in S PROVE m <= x
  <2>1. t >= -x
    BY <1>4
  <2>2. m \in Int /\ x \in Int
    OBVIOUS
  <2> QED BY <1>5, <2>1, <2>2
<1> QED BY <1>6

\* The median of some numbers is one of them.
LEMMA MedianIsOneOfThem ==
  ASSUME NEW values \in Seq(Int), values # <<>>
  PROVE  \E i \in DOMAIN values : MedianOf(values) = values[i]
<1> DEFINE D == DOMAIN values
           n == Len(values)
           S == {values[i] : i \in D}
           under(m) == {i \in D : values[i] < m}
           upto(m) == {i \in D : values[i] <= m}
           h == n \div 2
<1>1. /\ n \in Nat \ {0} /\ D = 1 .. n /\ \A i \in D : values[i] \in Int
      /\ IsFiniteSet(D) /\ Cardinality(D) = n /\ h \in Nat /\ h < n
  <2>1. n \in Nat \ {0} /\ D = 1 .. n /\ \A i \in D : values[i] \in Int
    BY EmptySeq, LenProperties, ElementOfSeq
  <2>2. IsFiniteSet(1 .. n) /\ Cardinality(1 .. n) = n
    BY <2>1, FS_Interval
  <2>3. h \in Nat /\ h < n
    <3> HIDE DEF n
    <3> QED BY <2>1
  <2> HIDE DEF D, n, h
  <2> QED BY <2>1, <2>2, <2>3
<1>2. S \in SUBSET Int /\ S # {} /\ IsFiniteSet(S)
  <2>1. S \in SUBSET Int /\ S # {}
    <3> HIDE DEF D, n
    <3>1. 1 \in D
      BY <1>1
    <3> QED BY <1>1, <3>1
  <2>2. values \in Surjection(D, S)
    BY DEF Surjection
  <2> HIDE DEF D, S
  <2> QED BY <1>1, <2>1, <2>2, FS_Surjection
<1>3. \A m : /\ Cardinality(under(m)) \in Nat /\ Cardinality(upto(m)) \in Nat
  <2> SUFFICES ASSUME NEW m
               PROVE  Cardinality(under(m)) \in Nat /\ Cardinality(upto(m)) \in Nat
    OBVIOUS
  <2>1. under(m) \in SUBSET D /\ upto(m) \in SUBSET D
    OBVIOUS
  <2> HIDE DEF under, upto, D
  <2> QED BY <1>1, <2>1, FS_Subset, FS_CardinalityType
<1> DEFINE B == {m \in S : Cardinality(under(m)) <= h}
<1>4. B \in SUBSET Int /\ B # {} /\ IsFiniteSet(B)
  <2>1. PICK m \in S : \A x \in S : m <= x
    <3> HIDE DEF S
    <3> QED BY <1>2, Smallest
  <2>2. under(m) = {}
    <3>1. ASSUME NEW i \in D, values[i] < m PROVE FALSE
      <4>1. m <= values[i] /\ m \in Int /\ values[i] \in Int
        <5> HIDE DEF n
        <5> QED BY <1>1, <1>2, <2>1
      <4> QED BY <3>1, <4>1
    <3> HIDE DEF D
    <3> QED BY <3>1
  <2>3. Cardinality(under(m)) <= h
    <3> HIDE DEF under, h
    <3> QED BY <1>1, <2>2, FS_EmptySet
  <2>4. B \subseteq S /\ m \in B
    <3> HIDE DEF S, under, h
    <3> QED BY <2>3
  <2> HIDE DEF B, S
  <2> QED BY <1>2, <2>4, FS_Subset
<1>5. PICK m \in B : \A x \in B : m >= x
  <2> HIDE DEF B
  <2>1. Max(B) \in B /\ \A x \in B : Max(B) >= x
    BY <1>4, Largest
  <2> QED BY <2>1
<1>6. m \in S /\ m \in Int /\ Cardinality(under(m)) <= h
  <2> HIDE DEF S, under, h
  <2> QED BY <1>2, <1>5
<1>7. h < Cardinality(upto(m))
  <2> DEFINE A == {x \in S : m < x}
  <2>1. CASE A = {}
    <3>1. ASSUME NEW i \in D PROVE values[i] <= m
      <4>1. values[i] \in S /\ values[i] \in Int
        BY <1>1
      <4>2. values[i] \notin A
        BY <2>1
      <4> HIDE DEF S, D
      <4> QED BY <1>6, <4>1, <4>2
    <3>2. upto(m) = D
      <4> HIDE DEF D
      <4> QED BY <3>1
    <3> HIDE DEF upto, D, n, h
    <3> QED BY <1>1, <3>2
  <2>2. CASE A # {}
    <3>1. A \in SUBSET Int /\ IsFiniteSet(A)
      <4>1. A \in SUBSET S
        OBVIOUS
      <4> HIDE DEF A, S
      <4> QED BY <1>2, <4>1, FS_Subset
    <3>2. PICK x \in A : \A y \in A : x <= y
      <4> HIDE DEF A
      <4> QED BY <2>2, <3>1, Smallest
    <3>3. x \in S /\ x \in Int /\ m < x
      <4> HIDE DEF S
      <4> QED BY <1>2, <3>2
    <3>4. ASSUME NEW i \in D PROVE values[i] < x <=> values[i] <= m
      <4>1. values[i] \in S /\ values[i] \in Int
        BY <1>1
      <4>2. m < values[i] => x <= values[i]
        <5> HIDE DEF S, D
        <5> QED BY <3>2, <4>1
      <4> HIDE DEF S, D, A
      <4> QED BY <1>6, <3>3, <4>1, <4>2
    <3>5. under(x) = upto(m)
      <4> HIDE DEF D
      <4> QED BY <3>4
    <3>6. x \notin B
      <4>1. ~(m >= x)
        BY <1>6, <3>3
      <4> HIDE DEF B
      <4> QED BY <1>5, <4>1
    <3>7. ~(Cardinality(under(x)) <= h)
      <4> HIDE DEF S, under, h
      <4> QED BY <3>3, <3>6
    <3> HIDE DEF under, upto, h
    <3> QED BY <1>1, <1>3, <3>5, <3>7
  <2> QED BY <2>1, <2>2
<1>8. \E x \in S : Cardinality(under(x)) <= h /\ h < Cardinality(upto(x))
  <2> HIDE DEF S, under, upto, h
  <2> QED BY <1>6, <1>7
<1>9. MedianOf(values) \in S
  BY <1>8 DEF MedianOf
<1> QED BY <1>9

\* The median of some votes is where one of them is.
LEMMA MedianIsAVote ==
  ASSUME NEW votes \in Seq(Vote), votes # <<>>
  PROVE  /\ \E i \in DOMAIN votes : Median(votes) = votes[i].at
         /\ \A i \in DOMAIN votes : votes[i].at \in Int
<1> DEFINE values == [i \in DOMAIN votes |-> votes[i].at]
<1>1. Len(votes) \in Nat \ {0} /\ DOMAIN votes = 1 .. Len(votes)
  BY EmptySeq, LenProperties
<1>2. \A i \in DOMAIN votes : votes[i].at \in Int
  <2>1. \A v \in Vote : v.at \in Int
    BY JudgeAssumption DEF Vote
  <2>2. \A i \in DOMAIN votes : votes[i] \in Vote
    BY <1>1, ElementOfSeq
  <2> QED BY <2>1, <2>2
<1>3. values \in Seq(Int) /\ DOMAIN values = DOMAIN votes /\ values # <<>>
  <2>1. values \in [1 .. Len(votes) -> Int] /\ DOMAIN values = 1 .. Len(votes)
    BY <1>1, <1>2
  <2> HIDE DEF values
  <2>2. values \in Seq(Int)
    BY <1>1, <2>1, SeqDef
  <2> QED BY <1>1, <2>1, <2>2, EmptySeq
<1>4. \E i \in DOMAIN values : MedianOf(values) = values[i]
  <2> HIDE DEF values
  <2> QED BY <1>3, MedianIsOneOfThem
<1> QED BY <1>2, <1>3, <1>4 DEF Median

\* What is divided by rounding is multiplied back to within half of the divisor.
LEMMA RoundsToNearest ==
  ASSUME NEW a \in Nat, NEW b \in Nat \ {0}
  PROVE  /\ RoundDiv(a, b) \in Int
         /\ 2 * (b * RoundDiv(a, b) - a) <= b
         /\ 2 * (a - b * RoundDiv(a, b)) <= b
<1> DEFINE q == a \div b
           r == a % b
<1>1. q \in Int /\ r \in 0 .. b - 1 /\ a = b * q + r
  OBVIOUS
<1>2. \/ RoundDiv(a, b) = q /\ 2 * r <= b
      \/ RoundDiv(a, b) = q + 1 /\ 2 * r >= b
  <2> HIDE DEF q, r
  <2> QED BY <1>1 DEF RoundDiv, q, r
<1>3. b * (q + 1) = b * q + b
  <2> HIDE DEF q, r
  <2> QED BY <1>1
<1> HIDE DEF q, r
<1> QED BY <1>1, <1>2, <1>3

\* A whole multiple is the divisor times the quotient.
LEMMA WholeMultiple ==
  ASSUME NEW a \in Int, NEW b \in Nat \ {0}, a % b = 0
  PROVE  a \div b \in Int /\ a = b * (a \div b)
<1>1. a \div b \in Int /\ a = b * (a \div b) + (a % b)
  OBVIOUS
<1> QED BY <1>1

\* A positive factor does not change on which side of zero a number is.
LEMMA Cancels ==
  ASSUME NEW t \in Nat \ {0}, NEW y \in Int, t * y <= 0
  PROVE  y <= 0
<1> SUFFICES ASSUME y >= 1 PROVE FALSE
  OBVIOUS
<1>1. t * y >= t
  OBVIOUS
<1> QED BY <1>1

\* A place on a scale of top steps, scaled by the steps and rounded, is the nearest step.
LEMMA NearestStep ==
  ASSUME NEW top \in Nat \ {0}, NEW x \in 0 .. Grain * top
  PROVE  LET i == RoundDiv(x * top, Grain * top)
         IN  /\ i \in 0 .. top
             /\ 2 * (Grain * i - x) <= Grain /\ 2 * (x - Grain * i) <= Grain
<1> DEFINE i == RoundDiv(x * top, Grain * top)
<1>1. Grain \in Nat \ {0} /\ Grain * top \in Nat \ {0} /\ x \in Nat /\ x * top \in Nat
      /\ x <= Grain * top
  <2>1. Grain \in Nat \ {0}
    BY JudgeAssumption
  <2>2. Grain * top \in Nat \ {0}
    <3>1. Grain * top >= top
      BY <2>1
    <3> QED BY <2>1, <3>1
  <2>3. x \in Nat /\ x <= Grain * top
    BY <2>2
  <2>4. x * top \in Nat
    BY <2>3
  <2> QED BY <2>1, <2>2, <2>3, <2>4
<1>2. /\ i \in Int
      /\ 2 * ((Grain * top) * i - x * top) <= Grain * top
      /\ 2 * (x * top - (Grain * top) * i) <= Grain * top
  BY <1>1, RoundsToNearest
<1> HIDE DEF i
<1>3. 2 * (Grain * i - x) <= Grain
  <2>1. Grain * i \in Int /\ 2 * (Grain * i - x) - Grain \in Int
    BY <1>1, <1>2
  <2>2. top * (2 * (Grain * i - x) - Grain) = 2 * ((Grain * top) * i - x * top) - Grain * top
    BY <1>1, <1>2
  <2>3. top * (2 * (Grain * i - x) - Grain) <= 0
    BY <1>1, <1>2, <2>1, <2>2
  <2>4. 2 * (Grain * i - x) - Grain <= 0
    BY <2>1, <2>3, Cancels
  <2> QED BY <1>1, <2>1, <2>4
<1>4. 2 * (x - Grain * i) <= Grain
  <2>1. Grain * i \in Int /\ 2 * (x - Grain * i) - Grain \in Int
    BY <1>1, <1>2
  <2>2. top * (2 * (x - Grain * i) - Grain) = 2 * (x * top - (Grain * top) * i) - Grain * top
    BY <1>1, <1>2
  <2>3. top * (2 * (x - Grain * i) - Grain) <= 0
    BY <1>1, <1>2, <2>1, <2>2
  <2>4. 2 * (x - Grain * i) - Grain <= 0
    BY <2>1, <2>3, Cancels
  <2> QED BY <1>1, <2>1, <2>4
<1>5. i >= 0
  <2> SUFFICES ASSUME i + 1 <= 0 PROVE FALSE
    BY <1>2
  <2>1. Grain * (i + 1) <= 0 /\ Grain * (i + 1) = Grain * i + Grain
    BY <1>1, <1>2
  <2>2. Grain * i \in Int
    BY <1>1, <1>2
  <2> QED BY <1>1, <1>4, <2>1, <2>2
<1>6. i <= top
  <2> SUFFICES ASSUME i - top >= 1 PROVE FALSE
    BY <1>2
  <2>1. Grain * (i - top) >= Grain /\ Grain * (i - top) = Grain * i - Grain * top
    BY <1>1, <1>2
  <2>2. Grain * i \in Int
    BY <1>1, <1>2
  <2> QED BY <1>1, <1>3, <2>1, <2>2
<1> QED BY <1>2, <1>3, <1>4, <1>5, <1>6 DEF i

\* An index on the scale is left where it is.
LEMMA ClampedIndex ==
  ASSUME NEW top \in Nat, NEW k \in 0 .. top
  PROVE  Max({0, Min({top, k})}) = k
<1>1. Min({top, k}) = k
  <2>1. \A y \in {top, k} : k <= y
    OBVIOUS
  <2>2. \A x \in {top, k} : (\A y \in {top, k} : x <= y) => x = k
    OBVIOUS
  <2> QED BY <2>1, <2>2 DEF Min
<1>2. Max({0, k}) = k
  <2>1. \A y \in {0, k} : k >= y
    OBVIOUS
  <2>2. \A x \in {0, k} : (\A y \in {0, k} : x >= y) => x = k
    OBVIOUS
  <2> QED BY <2>1, <2>2 DEF Max
<1> QED BY <1>1, <1>2

\* On a scale from low to high, the way through the score and back ends at the point nearest
\* to the median vote.
LEMMA RubricComesBack ==
  ASSUME NEW votes \in Seq(Vote \cup {None}), votes # <<>>, NEW low \in Int, NEW high \in Int,
         low <= high, NEW normalize \in BOOLEAN,
         normalize \/ (Len(votes) = 1 /\ votes[1] # None /\ ~votes[1].float),
         ~RubricScore(votes, low, high, normalize).errored
  PROVE  LET verdict == ToVerdict("e", RubricScore(votes, low, high, normalize),
                                  [i \in 1 .. high - low + 1 |-> low + i - 1])
         IN  /\ verdict = [id |-> "e", label |-> verdict.label, errored |-> FALSE]
             /\ verdict.label \in low .. high
             /\ Nearest(verdict.label, Median(votes))
<1> DEFINE score == RubricScore(votes, low, high, normalize)
           order == [i \in 1 .. high - low + 1 |-> low + i - 1]
           m == Median(votes)
           label == NearestOrdinal(score.raw, score.value, order)
<1>1. \A i \in DOMAIN votes : votes[i] # None /\ votes[i].at \in Grain * low .. Grain * high
  BY DEF RubricScore, Fails
<1>2. votes \in Seq(Vote) /\ Len(votes) \in Nat \ {0} /\ DOMAIN votes = 1 .. Len(votes)
  <2>1. Len(votes) \in Nat \ {0} /\ DOMAIN votes = 1 .. Len(votes)
    BY EmptySeq, LenProperties
  <2>2. votes \in [1 .. Len(votes) -> Vote]
    <3>1. votes \in [1 .. Len(votes) -> Vote \cup {None}]
      BY <2>1, SeqDef
    <3> QED BY <1>1, <2>1, <3>1
  <2> QED BY <2>1, <2>2, SeqDef
<1>3. PICK j \in DOMAIN votes : m = votes[j].at /\ votes[j].at \in Int
  BY <1>2, MedianIsAVote
<1>4. /\ Grain \in Nat \ {0} /\ Grain * low \in Int /\ Grain * high \in Int
      /\ m \in Int /\ m >= Grain * low /\ m <= Grain * high
  <2>1. Grain \in Nat \ {0} /\ Grain * low \in Int /\ Grain * high \in Int
    BY JudgeAssumption
  <2> HIDE DEF m
  <2> QED BY <1>1, <1>3, <2>1
<1>5. score = [errored |-> FALSE, label |-> None, passed |-> None,
               raw |-> IF Len(votes) = 1 THEN votes[1] ELSE None,
               value |-> RubricValue(m, low, high, normalize)]
  <2> HIDE DEF m
  <2> QED BY DEF RubricScore, m
<1>6. /\ order \in Seq(Int) /\ Len(order) = high - low + 1 /\ order # None
      /\ \A i \in 1 .. high - low + 1 : order[i] = low + i - 1
  <2>1. high - low + 1 \in Nat /\ order \in [1 .. high - low + 1 -> Int]
    OBVIOUS
  <2>2. order \in Seq(Int) /\ Len(order) = high - low + 1
    <3> HIDE DEF order
    <3> QED BY <2>1, SeqDef, LenProperties
  <2> QED BY <2>2, NoneAssumption
<1>7. OnScale(order) = low .. high
  <2>1. DOMAIN order = 1 .. high - low + 1
    OBVIOUS
  <2>2. ASSUME NEW x \in low .. high PROVE \E i \in DOMAIN order : order[i] = x
    <3> DEFINE i == x - low + 1
    <3>1. i \in 1 .. high - low + 1 /\ low + i - 1 = x
      OBVIOUS
    <3> HIDE DEF order, i
    <3> QED BY <1>6, <2>1, <3>1
  <2>3. ASSUME NEW i \in DOMAIN order PROVE order[i] \in low .. high
    <3> HIDE DEF order
    <3> QED BY <1>6, <2>1
  <2> HIDE DEF order
  <2> QED BY <2>2, <2>3 DEF OnScale
<1>8. score.value # None
  <2>1. RubricValue(m, low, high, normalize) \in [num : Int, den : Int]
    <3> HIDE DEF m
    <3>1. Grain * (high - low) \in Int
      BY <1>4
    <3> QED BY <1>4, <3>1 DEF RubricValue
  <2> HIDE DEF score
  <2> QED BY <1>5, <2>1, NoneAssumption
<1>9. label \in low .. high /\ Nearest(label, m)
  <2> HIDE DEF score, order, m
  <2>1. CASE score.raw # None /\ \E l \in OnScale(order) : Spells(score.raw, l)
    <3>1. label \in OnScale(order) /\ Spells(score.raw, label)
      BY <2>1 DEF NearestOrdinal
    <3>2. Len(votes) = 1 /\ score.raw = votes[1] /\ j = 1
      BY <1>2, <1>3, <1>5, <2>1
    <3>3. m = Grain * label
      BY <1>3, <3>1, <3>2 DEF Spells
    <3> HIDE DEF label
    <3>4. label \in low .. high
      BY <1>7, <3>1
    <3> QED BY <1>4, <3>3, <3>4 DEF Nearest
  <2>2. CASE ~(score.raw # None /\ \E l \in OnScale(order) : Spells(score.raw, l))
    <3> DEFINE index == RoundDiv(score.value.num * (Len(order) - 1), score.value.den)
    <3>1. label = order[1 + Max({0, Min({Len(order) - 1, index})})]
      BY <2>2 DEF NearestOrdinal
    <3>2. normalize
      <4> SUFFICES ASSUME ~normalize PROVE FALSE
        OBVIOUS
      <4>1. Len(votes) = 1 /\ votes[1] # None /\ ~votes[1].float /\ votes[1] \in Vote
            /\ score.raw = votes[1] /\ j = 1
        BY <1>2, <1>3, <1>5, ElementOfSeq
      <4>2. votes[1].at \in Int /\ votes[1].at % Grain = 0
        BY <4>1 DEF Vote
      <4> DEFINE n == votes[1].at \div Grain
      <4>3. n \in Int /\ m = Grain * n /\ votes[1].at = Grain * n
        <5>1. votes[1].at \div Grain \in Int /\ votes[1].at = Grain * (votes[1].at \div Grain)
          BY <1>4, <4>2, WholeMultiple
        <5>2. m = votes[1].at
          BY <1>3, <4>1
        <5> QED BY <5>1, <5>2
      <4> HIDE DEF n
      <4>4. n \in low .. high
        <5>1. Grain * (low - n) <= 0 /\ Grain * (n - high) <= 0
          <6>1. Grain * (low - n) = Grain * low - Grain * n
            BY <1>4, <4>3
          <6>2. Grain * (n - high) = Grain * n - Grain * high
            BY <1>4, <4>3
          <6>3. Grain * n \in Int
            BY <1>4, <4>3
          <6> QED BY <1>4, <4>3, <6>1, <6>2, <6>3
        <5>2. low - n <= 0 /\ n - high <= 0
          <6>1. low - n \in Int /\ n - high \in Int
            BY <4>3
          <6> QED BY <1>4, <5>1, <6>1, Cancels
        <5> QED BY <4>3, <5>2
      <4>5. Spells(score.raw, n)
        BY <4>1, <4>3 DEF Spells
      <4> QED BY <1>7, <2>2, <4>1, <4>4, <4>5
    <3>3. /\ index \in 0 .. high - low
          /\ 2 * (Grain * index - (m - Grain * low)) <= Grain
          /\ 2 * ((m - Grain * low) - Grain * index) <= Grain
      <4>1. CASE high > low
        <5> DEFINE x == m - Grain * low
                   top == high - low
        <5>1. score.value.num = x /\ score.value.den = Grain * top /\ Len(order) - 1 = top
          BY <1>5, <1>6, <3>2, <4>1 DEF RubricValue
        <5>2. top \in Nat \ {0} /\ x \in 0 .. Grain * top
          <6>1. Grain * (high - low) = Grain * high - Grain * low
            BY <1>4
          <6> QED BY <1>4, <4>1, <6>1
        <5>3. index = RoundDiv(x * top, Grain * top)
          BY <5>1
        <5> HIDE DEF x, top, index
        <5>4. /\ index \in 0 .. top
              /\ 2 * (Grain * index - x) <= Grain /\ 2 * (x - Grain * index) <= Grain
          BY <5>2, <5>3, NearestStep
        <5> QED BY <5>4 DEF x, top
      <4>2. CASE high = low
        <5>1. score.value.num = m /\ score.value.den = Grain /\ Len(order) - 1 = 0
              /\ m - Grain * low = 0
          BY <1>4, <1>5, <1>6, <4>2 DEF RubricValue
        <5>2. m * 0 = 0
          BY <1>4
        <5>3. index = RoundDiv(0, Grain)
          BY <5>1, <5>2
        <5>4. index \in Int /\ 2 * (Grain * index - 0) <= Grain /\ 2 * (0 - Grain * index) <= Grain
          BY <1>4, <5>3, RoundsToNearest
        <5> HIDE DEF index
        <5>5. index = 0
          <6>1. ~(index >= 1)
            <7> SUFFICES ASSUME index >= 1 PROVE FALSE
              OBVIOUS
            <7>1. Grain * index >= Grain
              BY <1>4, <5>4
            <7> QED BY <1>4, <5>4, <7>1
          <6>2. ~(index <= -1)
            <7> SUFFICES ASSUME index <= -1 PROVE FALSE
              OBVIOUS
            <7>1. Grain * index <= -Grain
              BY <1>4, <5>4
            <7> QED BY <1>4, <5>4, <7>1
          <6> QED BY <5>4, <6>1, <6>2
        <5> QED BY <1>4, <4>2, <5>1, <5>4, <5>5
      <4> QED BY <4>1, <4>2
    <3> HIDE DEF index
    <3>4. Max({0, Min({Len(order) - 1, index})}) = index
      <4>1. high - low \in Nat /\ Len(order) - 1 = high - low
        BY <1>6
      <4> QED BY <3>3, <4>1, ClampedIndex
    <3>5. label = low + index
      <4>1. 1 + index \in 1 .. high - low + 1 /\ low + (1 + index) - 1 = low + index
        BY <3>3
      <4> QED BY <1>6, <3>1, <3>4, <4>1
    <3> HIDE DEF label
    <3>6. label \in low .. high /\ Grain * label = Grain * low + Grain * index
      <4>1. index \in Int /\ Grain * index \in Int
        BY <1>4, <3>3
      <4> QED BY <1>4, <3>3, <3>5, <4>1
    <3>7. Grain * index \in Int
      BY <1>4, <3>3
    <3>8. /\ Grain * label - m = Grain * index - (m - Grain * low)
          /\ m - Grain * label = (m - Grain * low) - Grain * index
      <4> DEFINE g == Grain * label
                 a == Grain * low
                 b == Grain * index
      <4>1. g = a + b /\ a \in Int /\ b \in Int /\ m \in Int
        BY <1>4, <3>6, <3>7
      <4> HIDE DEF g, a, b
      <4>2. g - m = b - (m - a) /\ m - g = (m - a) - b
        BY <4>1
      <4> QED BY <4>2 DEF g, a, b
    <3> QED BY <3>3, <3>6, <3>8 DEF Nearest
  <2> QED BY <2>1, <2>2
<1>10. label # None
  <2> HIDE DEF label
  <2> QED BY <1>9, NoneAssumption
<1>11. ToVerdict("e", score, order) = [id |-> "e", label |-> label, errored |-> FALSE]
  <2> HIDE DEF score, order, m
  <2> QED BY <1>5, <1>6, <1>8, <1>9, <1>10 DEF ToVerdict
<1>12. /\ ToVerdict("e", score, order) =
             [id |-> "e", label |-> ToVerdict("e", score, order).label, errored |-> FALSE]
       /\ ToVerdict("e", score, order).label \in low .. high
       /\ Nearest(ToVerdict("e", score, order).label, m)
  <2> HIDE DEF score, order, m, label
  <2> QED BY <1>9, <1>11
<1> QED BY <1>12

\* The questions about judges are about the raters, requirements, scales and votes there are.
JudgeQuestion ==
  /\ Asked("judge") => \E r \in Raters, l \in {1, 2}, req \in Requirements, o \in {None, <<1, 2>>} :
       asked[2] = [raters |-> r, label |-> l, order |-> o, req |-> req]
  /\ Asked("rubric") => \E v \in Ballots, h \in Scales, n \in BOOLEAN :
       asked[2] = [votes |-> v, low |-> 1, high |-> h, normalize |-> n]

\* Whatever is asked, a question about a judge is one of them.
LEMMA JudgeQuestionsOK == JudgeSpec => []JudgeQuestion
<1>1. asked = <<>> => JudgeQuestion
  BY DEF JudgeQuestion, Asked
<1>2. JudgeQuestion /\ [AskJudge \/ AskRubric \/ AskUnjudged]_asked => JudgeQuestion'
  <2>1. CASE UNCHANGED asked
    BY <2>1 DEF JudgeQuestion, Asked
  <2>2. CASE AskUnjudged
    BY <2>2 DEF AskUnjudged, JudgeQuestion, Asked
  <2>3. CASE AskJudge
    <3>1. PICK r \in Raters, l \in {1, 2}, req \in Requirements, o \in {None, <<1, 2>>} :
            asked' = <<"judge", [raters |-> r, label |-> l, order |-> o, req |-> req]>>
      BY <2>3 DEF AskJudge
    <3> QED BY <3>1 DEF JudgeQuestion, Asked
  <2>4. CASE AskRubric
    <3>1. PICK v \in Ballots, h \in Scales, n \in BOOLEAN :
            asked' = <<"rubric", [votes |-> v, low |-> 1, high |-> h, normalize |-> n]>>
      BY <2>4 DEF AskRubric
    <3> QED BY <3>1 DEF JudgeQuestion, Asked
  <2> QED BY <2>1, <2>2, <2>3, <2>4
<1> QED BY <1>1, <1>2, PTL DEF JudgeSpec

\* For any raters, requirement that limits both error rates, scale and votes: a judge that gives
\* everything the same answer is not certified where people gave both, and the rubric point
\* nearest to what it settled on comes back from its score, whether it wrote integers or floats.
THEOREM CalibrationIsSound == JudgeSpec => []CalibrationSound
<1>1. JudgeQuestion => CalibrationSound
  <2> SUFFICES ASSUME JudgeQuestion PROVE CalibrationSound
    OBVIOUS
  <2>1. ConstantJudgeNeverCertified
    <3> SUFFICES ASSUME Asked("judge") PROVE ConstantJudgeNeverCertified
      BY DEF ConstantJudgeNeverCertified
    <3>1. PICK r \in Raters, l \in {1, 2}, req \in Requirements, o \in {None, <<1, 2>>} :
            asked[2] = [raters |-> r, label |-> l, order |-> o, req |-> req]
      BY DEF JudgeQuestion
    <3> DEFINE labelled == [e \in DOMAIN r |->
                             [human |-> r[e][1], second |-> r[e][2], adjudicated |-> None]]
               verdicts == [e \in DOMAIN r |-> [id |-> e, label |-> l, errored |-> FALSE]]
    <3>2. ASSUME {r[e][1] : e \in DOMAIN r} = {1, 2},
                 {req.maxFalsePass, req.maxFalseFail} \subseteq 0 .. 99
          PROVE  ~Satisfied(Calibrate(labelled, verdicts, {2}, o, <<>>), req)
      <4>1. \A e \in DOMAIN r : labelled[e].human = r[e][1] /\ labelled[e].adjudicated = None
        OBVIOUS
      <4>2. /\ \A e \in DOMAIN r : r[e][1] \in {1, 2}
            /\ \E e \in DOMAIN r : r[e][1] = 1
            /\ \E e \in DOMAIN r : r[e][1] = 2
            /\ req.maxFalsePass \in 0 .. 99 /\ req.maxFalseFail \in 0 .. 99
        BY <3>2
      <4>3. /\ DOMAIN labelled = DOMAIN r /\ DOMAIN verdicts = DOMAIN r
            /\ \A e \in DOMAIN r : verdicts[e] = [id |-> e, label |-> l, errored |-> FALSE]
        OBVIOUS
      <4>4. IsFiniteSet(DOMAIN r)
        BY JudgeAssumption
      <4> DEFINE D == DOMAIN r
      <4> HIDE DEF labelled, verdicts
      <4>5. /\ \A e \in D : labelled[e].human \in {1, 2} /\ labelled[e].adjudicated = None
            /\ \E e \in D : labelled[e].human = 1
            /\ \E e \in D : labelled[e].human = 2
        BY <4>1, <4>2
      <4>6. /\ IsFiniteSet(D) /\ DOMAIN labelled = D /\ DOMAIN verdicts = D
            /\ \A e \in D : verdicts[e] = [id |-> e, label |-> l, errored |-> FALSE]
            /\ l \in {1, 2} /\ req.maxFalsePass \in 0 .. 99 /\ req.maxFalseFail \in 0 .. 99
        BY <4>2, <4>3, <4>4
      <4> HIDE DEF D
      <4> QED BY <4>5, <4>6, ConstantJudgeFails
    <3>3. asked[2].raters = r /\ asked[2].label = l /\ asked[2].req = req /\ asked[2].order = o
      BY <3>1
    <3> QED BY <3>2, <3>3 DEF ConstantJudgeNeverCertified
  <2>2. RubricPointRecovered
    <3> SUFFICES ASSUME Asked("rubric"), Readable(asked[2])
                 PROVE  PointRecovered(asked[2])
      BY DEF RubricPointRecovered
    <3>1. PICK v \in Ballots, h \in Scales, n \in BOOLEAN :
            asked[2] = [votes |-> v, low |-> 1, high |-> h, normalize |-> n]
      BY DEF JudgeQuestion
    <3>2. asked[2].votes = v /\ asked[2].low = 1 /\ asked[2].high = h /\ asked[2].normalize = n
      BY <3>1
    <3>3. /\ v \in Seq(Vote \cup {None}) /\ v # <<>>
          /\ h \in Int /\ 1 \in Int /\ 1 <= h
          /\ n \/ (Len(v) = 1 /\ v[1] # None /\ ~v[1].float)
      BY <3>2, JudgeAssumption DEF Readable
    <3>4. ASSUME ~RubricScore(v, 1, h, n).errored
          PROVE  LET verdict == ToVerdict("e", RubricScore(v, 1, h, n),
                                          [i \in 1 .. h - 1 + 1 |-> 1 + i - 1])
                 IN  /\ verdict = [id |-> "e", label |-> verdict.label, errored |-> FALSE]
                     /\ verdict.label \in 1 .. h
                     /\ Nearest(verdict.label, Median(v))
      BY <3>3, <3>4, RubricComesBack
    <3> QED BY <3>2, <3>4 DEF PointRecovered
  <2> QED BY <2>1, <2>2 DEF CalibrationSound
<1> QED BY <1>1, JudgeQuestionsOK, PTL
=============================================================================
