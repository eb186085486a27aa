------------------------------- MODULE EvalRun -------------------------------
(***************************************************************************)
(* One evaluation run (evaluation-core/runner.py): workers that pull       *)
(* examples from a queue, retry the transport, wait for a judge, keep the  *)
(* budget and the journal, and a process that may be killed or cancelled,  *)
(* or fail, and is started again with --resume on its own journal.         *)
(*                                                                         *)
(* The workers are asyncio tasks: what a step does without awaiting is one *)
(* action.  An example's outcome is what its task and its judge happen to  *)
(* do; its scores are abstracted to their cost.  The gates' verdict on the *)
(* metrics is left open.                                                   *)
(***************************************************************************)
EXTENDS Integers, Sequences, FiniteSets, SequencesExt

CONSTANTS
  Dataset,        \* the examples, in order
  Workers,
  JudgeSlots,     \* judge_concurrency
  Retries,
  MaxCost,        \* the budget
  Costs,          \* what judging an example may cost
  MaxErrorShare,  \* max_error_rate as <<numerator, denominator>>
  MaxStarts,      \* bound on the times the command is started
  Nothing

Examples == ToSet(Dataset)

ASSUME RunAssumption ==
  /\ Dataset \in Seq(Examples) /\ Len(Dataset) = Cardinality(Examples)
  /\ Nothing \notin Examples
  /\ IsFiniteSet(Workers) /\ Workers # {}
  /\ JudgeSlots \in Nat \ {0} /\ Retries \in Nat /\ MaxCost \in Nat \ {0}
  /\ Costs \subseteq Nat /\ IsFiniteSet(Costs) /\ Costs # {}
  /\ MaxErrorShare \in Nat \X (Nat \ {0}) /\ MaxStarts \in Nat \ {0}

VARIABLES
  process,   \* "running", "killed", "failed", "reported"
  starts,    \* how often the command has been started
  queue,     \* the examples nobody has pulled; they leave it in the dataset's order
  worker,    \* worker[w]: [pc, ex, attempt, status, cost]
  results,   \* results[e]: the status this process holds, "none" when it has none
  spent,     \* the budget's count, by this process
  aborted,   \* "no", "budget", "errors": aborted_reason
  exit,      \* the exit code of a run that reported or failed, -1 before
  journal,   \* journal[e]: the status a readable line of the file holds
  tail,      \* how the file ends: "whole", "torn" in a line, "split" in a character
  written    \* history: the examples whose line was written to the end

process_ == <<process, starts, exit>>
evaluation == <<process_, queue, worker, results, spent, aborted, journal, tail, written>>

NoResult == [e \in Examples |-> "none"]
Idle == [pc |-> "pull", ex |-> Nothing, attempt |-> 0, status |-> "ok", cost |-> 0]
Stopped == [Idle EXCEPT !.pc = "over"]
Doing(w, pc) == process = "running" /\ worker[w].pc = pc
Set(w, rec) == worker' = [worker EXCEPT ![w] = rec]

Have(f) == {e \in Examples : f[e] # "none"}
Errors == {e \in Examples : results[e] \in {"error", "timeout"}}
Holding == {w \in Workers : worker[w].pc = "judging"}
Pending(done) == Examples \ done
Place(e) == CHOOSE i \in DOMAIN Dataset : Dataset[i] = e
First(e) == e \in queue /\ \A d \in queue : Place(e) <= Place(d)

RunInit ==
  /\ process = "running" /\ starts = 1 /\ exit = -1
  /\ queue = Examples
  /\ worker = [w \in Workers |-> Idle]
  /\ results = NoResult /\ journal = NoResult
  /\ spent = 0 /\ aborted = "no" /\ tail = "whole" /\ written = {}

\* Mutant: the budget is asked whether it has been passed, not reached.
BugExhausted == spent > MaxCost + 1
Exhausted == spent >= MaxCost

\* stop is set when the budget aborts the run; the example pulled then is dropped.
Pull(w) ==
  /\ Doing(w, "pull")
  /\ \/ /\ aborted # "no" \/ queue = {}
        /\ Set(w, Stopped)
        /\ UNCHANGED <<queue, aborted>>
     \/ \E e \in queue :
        /\ aborted = "no" /\ First(e)
        /\ queue' = queue \ {e}
        /\ \/ /\ Exhausted
              /\ aborted' = "budget"
              /\ Set(w, Stopped)
           \/ /\ ~Exhausted
              /\ Set(w, [Idle EXCEPT !.pc = "task", !.ex = e])
              /\ UNCHANGED aborted
  /\ UNCHANGED <<process_, results, spent, journal, tail, written>>

MayRetry(w) == worker[w].attempt < Retries

(***************************************************************************)
(* _invoke: a timeout or a transport error is retried after a backoff, any *)
(* other exception is a result about the task.                             *)
(***************************************************************************)
Invoke(w) ==
  /\ Doing(w, "task")
  /\ \/ Set(w, [worker[w] EXCEPT !.pc = "gate"])
     \/ Set(w, [worker[w] EXCEPT !.pc = "write", !.status = "error"])
     \/ \E failure \in {"timeout", "error"} :
          Set(w, [worker[w] EXCEPT !.pc = IF MayRetry(w) THEN "backoff" ELSE "write",
                                   !.status = IF MayRetry(w) THEN @ ELSE failure])
  /\ UNCHANGED <<process_, queue, results, spent, aborted, journal, tail, written>>

\* Mutant: the attempt is counted by the transport that failed.
BugAgain(w) == [worker[w] EXCEPT !.pc = "task"]
Again(w) == [worker[w] EXCEPT !.pc = "task", !.attempt = @ + 1]

Backoff(w) ==
  /\ Doing(w, "backoff")
  /\ Set(w, Again(w))
  /\ UNCHANGED <<process_, queue, results, spent, aborted, journal, tail, written>>

(***************************************************************************)
(* _score: the judge is asked inside its own semaphore; a judge that fails *)
(* or exceeds its time gives an errored score, which carries no cost.      *)
(***************************************************************************)
EnterGate(w) ==
  /\ Doing(w, "gate")
  /\ Cardinality(Holding) < JudgeSlots
  /\ Set(w, [worker[w] EXCEPT !.pc = "judging"])
  /\ UNCHANGED <<process_, queue, results, spent, aborted, journal, tail, written>>

LeaveGate(w) ==
  /\ Doing(w, "judging")
  /\ \E cost \in Costs \cup {0} : Set(w, [worker[w] EXCEPT !.pc = "write", !.cost = cost])
  /\ UNCHANGED <<process_, queue, results, spent, aborted, journal, tail, written>>

(***************************************************************************)
(* The end of _run_one: the budget, the journal line and the result.  A    *)
(* line appended after a torn one becomes part of it and is not readable.  *)
(***************************************************************************)
Append1(e, status) ==
  /\ journal' = IF tail = "torn" THEN journal ELSE [journal EXCEPT ![e] = status]
  /\ tail' = "whole"
  /\ written' = written \cup {e}

Write(w) ==
  /\ Doing(w, "write")
  /\ spent' = spent + worker[w].cost
  /\ Append1(worker[w].ex, worker[w].status)
  /\ results' = [results EXCEPT ![worker[w].ex] = worker[w].status]
  /\ Set(w, Idle)
  /\ UNCHANGED <<process_, queue, aborted>>

(***************************************************************************)
(* The end of the run: metrics, gates, the error ceiling, the exit code.   *)
(***************************************************************************)
\* Mutant: a task that timed out is not an error.
BugOverCeiling ==
  Cardinality({e \in Errors : results[e] = "error"}) * MaxErrorShare[2]
    > MaxErrorShare[1] * Cardinality(Have(results))
OverCeiling ==
  Cardinality(Errors) * MaxErrorShare[2] > MaxErrorShare[1] * Cardinality(Have(results))

WorkersOver == process = "running" /\ \A w \in Workers : worker[w].pc = "over"

Report ==
  /\ WorkersOver
  /\ process' = "reported"
  /\ aborted' = IF aborted = "no" /\ OverCeiling THEN "errors" ELSE aborted
  /\ \E verdict \in 0 .. 2 : exit' = IF aborted' # "no" THEN 2 ELSE verdict
  /\ UNCHANGED <<starts, queue, worker, results, spent, journal, tail, written>>

(***************************************************************************)
(* A kill may tear the line being written; a cancelled run ends with 130   *)
(* and leaves the same journal.                                            *)
(***************************************************************************)
\* What the process held.
Lost ==
  /\ worker' = [w \in Workers |-> Stopped] /\ queue' = {}
  /\ results' = NoResult /\ spent' = 0 /\ aborted' = "no"
  /\ UNCHANGED <<journal, written>>

Kill ==
  /\ process = "running" /\ starts < MaxStarts
  /\ process' = "killed" /\ Lost
  /\ \/ UNCHANGED tail
     \/ (\E w \in Workers : worker[w].pc = "write") /\ tail' \in {"torn", "split"}
  /\ UNCHANGED <<starts, exit>>

(***************************************************************************)
(* An exception that nobody catches cancels the other workers and ends the *)
(* command, with Python's exit code: a result that cannot be summed up or  *)
(* written (the disk may tear its line), metrics or gates that raise.      *)
(***************************************************************************)
Fail == process' = "failed" /\ exit' = 1 /\ Lost

WriteFails(w) ==
  Doing(w, "write") /\ Fail /\ tail' \in {tail, "torn", "split"} /\ UNCHANGED starts
ReportFails == WorkersOver /\ Fail /\ UNCHANGED <<starts, tail>>

\* _load_journal: every readable line is a finished example.
Finished == Have(journal)

Load ==
  /\ process' = "running" /\ exit' = -1
  /\ results' = journal
  /\ queue' = Pending(Finished)
  /\ worker' = [w \in Workers |-> Idle]
  /\ spent' = 0 /\ aborted' = "no"
  /\ UNCHANGED <<journal, written>>

\* A line that is not JSON is skipped; bytes that are not UTF-8 end the reading.
Start ==
  /\ starts' = starts + 1
  /\ IF tail = "split" THEN Fail ELSE Load
  /\ UNCHANGED tail

Resume == process = "killed" /\ Start
\* A run that failed, or was aborted by its budget or its errors, may be resumed too.
ResumeStopped ==
  /\ process = "failed" \/ (process = "reported" /\ exit = 2)
  /\ starts < MaxStarts /\ Start

WorkerStep(w) ==
  \/ Pull(w) \/ Invoke(w) \/ Backoff(w) \/ EnterGate(w) \/ LeaveGate(w) \/ Write(w)
  \/ WriteFails(w)

RunNext ==
  \/ \E w \in Workers : WorkerStep(w)
  \/ Report \/ ReportFails \/ Kill \/ Resume \/ ResumeStopped

\* The event loop runs every ready task; tasks and judges end, by their timeouts.
Fairness ==
  /\ WF_evaluation(Report \/ ReportFails) /\ WF_evaluation(Resume)
  /\ \A w \in Workers : WF_evaluation(WorkerStep(w))

RunSpec == RunInit /\ [][RunNext]_evaluation
FairRunSpec == RunSpec /\ Fairness

-----------------------------------------------------------------------------
PerExample == CHOOSE c \in Costs : \A d \in Costs : d <= c

RunTypeOK ==
  /\ process \in {"running", "killed", "failed", "reported"} /\ starts \in 1 .. MaxStarts
  /\ exit \in {-1, 0, 1, 2} /\ aborted \in {"no", "budget", "errors"}
  /\ results \in [Examples -> {"none", "ok", "error", "timeout"}]
  /\ journal \in [Examples -> {"none", "ok", "error", "timeout"}]
  /\ \A w \in Workers : worker[w].attempt \in 0 .. Retries /\ worker[w].cost \in Costs \cup {0}

\* Each example has one owner: the queue, one worker, or its result.
InHand(w) == worker[w].ex
OneOwner ==
  process = "running" =>
    /\ \A v, w \in Workers : v # w /\ InHand(v) # Nothing => InHand(v) # InHand(w)
    /\ \A w \in Workers : InHand(w) # Nothing => results[InHand(w)] = "none"
    /\ \A w \in Workers : InHand(w) \notin queue
    /\ \A e \in queue : results[e] = "none"

\* "Overspend is bounded and statable": no example is in two hands, so at most one per
\* worker is in flight when the cap trips, and the budget is passed by less than their cost.
OverspendBounded ==
  /\ OneOwner
  /\ spent < MaxCost + Cardinality(Workers) * PerExample

\* A verdict is about the whole dataset: a run that ends with the gates' exit
\* code has a result for every example and no more failures than the ceiling,
\* whatever was killed and resumed before.
VerdictIsWhole ==
  process = "reported" /\ exit \in {0, 1} =>
    /\ Have(results) = Examples
    /\ Cardinality(Errors) * MaxErrorShare[2] <= MaxErrorShare[1] * Len(Dataset)

\* An example whose line was written is not run again by a resumed run: "a
\* crash at example 190/200 loses nothing".
JournaledNotRerun ==
  [][\A w \in Workers :
       (process = "running" /\ worker'[w].pc = "task" /\ worker[w].pc = "pull")
          => worker'[w].ex \notin written]_evaluation

\* "Exit code: 0 pass/warn, 1 blocking fail, 2 execution error".
OneIsBlocking == exit = 1 => process = "reported"

\* "A torn final line from a hard kill is expected, not exceptional."
TornLineExpected == [][starts' > starts => process' = "running"]_evaluation

\* A command that is no longer killed ends, in a report or in an error, whatever its tasks,
\* their timeouts and the one judge slot its workers wait for do, after every start.
EveryRunStops == []<>(process \in {"reported", "failed"})
=============================================================================
