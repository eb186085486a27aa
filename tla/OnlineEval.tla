------------------------------ MODULE OnlineEval ------------------------------
(***************************************************************************)
(* Online evaluation (apps/api/.../services/online_eval.py) and the review *)
(* queue it feeds; an item, once stored, is ReviewQueue's business.  The   *)
(* worker's cron job and POST /online-rules/run each run a batch: one      *)
(* transaction that applies every active rule to the traces the rule has   *)
(* no decision for, and enqueues the traces that fail.                     *)
(*                                                                         *)
(* A trajectory rule is deterministic and free; a judge rule is sampled,   *)
(* escalates failed traces up to a cap, stops at the budget, and raises    *)
(* when it does run (the server has no judge yet).  Every rule names this  *)
(* queue and matches every trace, and the behaviour fits in the day that a *)
(* batch looks back.                                                       *)
(***************************************************************************)
EXTENDS ReviewQueue

CONSTANTS
  Cron,           \* the worker's job; the other Writers are API requests
  Early,          \* the traces ingested before the behaviour begins
  Order,          \* Order[t]: the trace's started_at
  Fails,          \* the traces the policies find blocking failures in
  Undecidable,    \* the other traces that leave a policy's rules inconclusive
  Unsound,        \* the traces whose evaluation raises
  Failed,         \* the traces whose row is not "ok" or counts errors
  Errored,        \* those that count errors
  Sampled,        \* the traces whose bucket is under the sample rate
  Rules,          \* the active rules
  Judges,         \* those of kind llm_judge
  Limit,          \* the traces a batch takes for one rule
  MaxEscalations, \* max_escalations_per_batch
  Exhausted,      \* what the budget check may say: a subset of BOOLEAN
  MaxCrashes      \* bound on the batches that fail

ASSUME RuleAssumption == Judges \subseteq Rules /\ Exhausted \subseteq BOOLEAN
ASSUME RunnerAssumption == Cron \in Writers /\ Early \subseteq Targets
ASSUME TraceAssumption ==
  /\ Order \in [Targets -> Nat]
  /\ \A s, t \in Targets : Order[s] = Order[t] => s = t
  /\ Errored \subseteq Failed
  /\ Limit \in Nat \ {0} /\ MaxEscalations \in Nat /\ MaxCrashes \in Nat /\ IsFiniteSet(Early)

VARIABLES
  stored,   \* the traces ingested so far
  verdict,  \* verdict[t][r]: the committed online_evaluations row, or "none"
  run,      \* run[w]: the local state of a batch
  crashes   \* the batches that failed, up to MaxCrashes

vars == <<queueVars, stored, verdict, run, crashes>>

Verdicts == {"skipped", "pass", "inconclusive", "fail", "error"}
NothingWritten == [t \in Targets |-> [r \in Rules |-> "none"]]
Resting == [pc |-> "out", left |-> {}, broke |-> FALSE, rule |-> CHOOSE r \in Rules : TRUE,
            todo |-> {}, taken |-> 0, wrote |-> NothingWritten]

Init ==
  /\ QueueInit
  /\ stored = Early
  /\ verdict = NothingWritten
  /\ run = [w \in Writers |-> Resting]
  /\ crashes = 0

Ingest(t) ==
  /\ t \notin stored
  /\ stored' = stored \cup {t}
  /\ UNCHANGED <<queueVars, verdict, run, crashes>>

Oldest(S) == CHOOSE t \in S : \A u \in S : Order[t] <= Order[u]
First(S, n) == {t \in S : Cardinality({u \in S : Order[u] < Order[t]}) < n}
Update(w, changed) == run' = [run EXCEPT ![w] = changed]
\* On to the rule's next trace.  Its escalation budget ends with its last one, and what
\* the budget check said with the last judge.
Advance(b, t) ==
  IF b.todo = {t}
  THEN [b EXCEPT !.pc = "trace", !.todo = {}, !.rule = Resting.rule, !.taken = 0,
                 !.broke = @ /\ b.left \cap Judges # {}]
  ELSE [b EXCEPT !.pc = "trace", !.todo = @ \ {t}]

(***************************************************************************)
(* run_batch: the budget once, then rule by rule, in no fixed order.       *)
(***************************************************************************)
StartRun(w) ==
  /\ run[w].pc = "out"
  /\ \E broke \in Exhausted :
       Update(w, [Resting EXCEPT !.pc = "trace", !.left = Rules, !.broke = broke])
  /\ UNCHANGED <<queueVars, stored, verdict, crashes>>

PendingTraces(r) == {t \in stored : verdict[t][r] = "none"}

NextRule(w) ==
  /\ run[w].pc = "trace"
  /\ run[w].todo = {}
  /\ \E r \in run[w].left :
       Update(w, [run[w] EXCEPT !.rule = r, !.left = @ \ {r}, !.taken = 0,
                                !.todo = First(PendingTraces(r), Limit)])
  /\ UNCHANGED <<queueVars, stored, verdict, crashes>>

(***************************************************************************)
(* _apply: decide(), evaluate, write.                                      *)
(***************************************************************************)
Escalates(w, t) ==
  /\ run[w].rule \in Judges /\ ~run[w].broke
  /\ t \notin Sampled
  /\ t \in Failed
  /\ run[w].taken < MaxEscalations

Trajectory(t) ==
  CASE t \in Unsound -> "error"
    [] t \in Fails \ Unsound -> "fail"
    [] t \in Undecidable \ (Unsound \cup Fails) -> "inconclusive"
    [] OTHER -> "pass"
Decision(w, t) ==
  IF run[w].rule \notin Judges THEN Trajectory(t)
  ELSE IF ~run[w].broke /\ (t \in Sampled \/ Escalates(w, t)) THEN "error" ELSE "skipped"

\* Mutant: a skip is counted and not recorded.
BugRecorded(w, t) == Decision(w, t) # "skipped"
Recorded(w, t) == TRUE

\* uq_online_evaluations_trace_rule: who else has written this decision.
WritersOf(w, t) == {q \in Writers \ {w} : run[q].wrote[t][run[w].rule] # "none"}

\* Another batch has committed the decision since this one looked for pending traces.
Lost(w, t) == verdict[t][run[w].rule] # "none"

Apply(w) ==
  LET t == Oldest(run[w].todo)
      written == Recorded(w, t) /\ ~Lost(w, t)
      after == [run[w] EXCEPT
                  !.taken = IF Escalates(w, t) THEN @ + 1 ELSE @,
                  !.wrote[t][run[w].rule] = IF written THEN Decision(w, t) ELSE @]
  IN
  /\ run[w].pc = "trace"
  /\ run[w].todo # {}
  /\ WritersOf(w, t) = {}
  /\ Update(w, IF written /\ Decision(w, t) = "fail"
               THEN [after EXCEPT !.pc = "enqueue"] ELSE Advance(after, t))
  /\ UNCHANGED <<queueVars, stored, verdict, crashes>>

\* _enqueue: the item of a trace another rule has queued is left alone.
Enqueue(w) ==
  LET t == Oldest(run[w].todo) IN
  /\ run[w].pc = "enqueue"
  /\ Queueable(w, t)
  /\ holder' = IF Inserts(t) THEN [holder EXCEPT ![t] = w] ELSE holder
  /\ Update(w, Advance(run[w], t))
  /\ UNCHANGED <<item, tx, stored, verdict, crashes>>

(***************************************************************************)
(* The end of the batch's transaction.                                     *)
(***************************************************************************)
Priority(t) == IF t \in Errored THEN 10 ELSE 5

CommitRun(w) ==
  /\ run[w].pc = "trace"
  /\ run[w].todo = {}
  /\ run[w].left = {}
  /\ verdict' = [t \in Targets |-> [r \in Rules |->
       IF run[w].wrote[t][r] # "none" THEN run[w].wrote[t][r] ELSE verdict[t][r]]]
  /\ item' = [t \in Targets |-> IF holder[t] = w THEN NewItem(Priority(t)) ELSE item[t]]
  /\ holder' = Unlocked(w)
  /\ Update(w, Resting)
  /\ UNCHANGED <<tx, stored, crashes>>

AbortRun(w) ==
  /\ run[w].pc # "out"
  /\ holder' = Unlocked(w)
  /\ Update(w, Resting)
  /\ UNCHANGED <<item, tx, stored, verdict>>

\* Two batches take the rules in different orders, so each may wait for the other.
WaitsFor(w) ==
  CASE run[w].pc = "trace" /\ run[w].todo # {} -> WritersOf(w, Oldest(run[w].todo))
    [] run[w].pc = "enqueue" /\ ~Queueable(w, Oldest(run[w].todo)) ->
         {holder[Oldest(run[w].todo)]}
    [] OTHER -> {}
Deadlocked(w) ==
  \E C \in SUBSET Writers : w \in C /\ \A q \in C : WaitsFor(q) # {} /\ WaitsFor(q) \subseteq C
BreakDeadlock(w) == Deadlocked(w) /\ AbortRun(w) /\ UNCHANGED crashes

RunStep(w) == NextRule(w) \/ Apply(w) \/ Enqueue(w) \/ CommitRun(w)

Crash ==
  /\ crashes < MaxCrashes
  /\ crashes' = crashes + 1
  /\ \E w \in Writers : AbortRun(w)

Next ==
  \/ \E t \in Targets : Ingest(t)
  \/ \E w \in Writers : StartRun(w) \/ RunStep(w) \/ BreakDeadlock(w)
  \/ Crash

Spec == Init /\ [][Next]_vars

\* The cron job starts again and again, and its statements end.
FairSpec == Spec /\ WF_vars(StartRun(Cron) \/ RunStep(Cron))

(***************************************************************************)
(* Properties                                                              *)
(***************************************************************************)
\* Every variable stays in its range, and a batch takes no more traces than its limit.
TypeOK ==
  /\ QueueTypeOK
  /\ stored \subseteq Targets
  /\ verdict \in [Targets -> [Rules -> Verdicts \cup {"none"}]]
  /\ crashes \in 0 .. MaxCrashes
  /\ \A w \in Writers : /\ run[w].pc \in {"out", "trace", "enqueue"}
                        /\ run[w].taken \in 0 .. MaxEscalations
                        /\ run[w].todo \subseteq stored
                        /\ Cardinality(run[w].todo) <= Limit
                        /\ run[w].wrote \in [Targets -> [Rules -> Verdicts \cup {"none"}]]

\* A trace is in the review queue if and only if some rule has recorded that it fails:
\* overlapping batches and rolled-back ones leave no failure nobody will see, and nothing
\* that merely errored in front of a human.
QueueMirrorsFailures ==
  \A t \in Targets : item[t].status # "none" <=> \E r \in Rules : verdict[t][r] = "fail"

\* "The unique constraint is the arbiter": a recorded decision is never replaced.
VerdictsFinal ==
  [][\A t \in Targets, r \in Rules :
       verdict[t][r] # "none" => verdict'[t][r] = verdict[t][r]]_vars

\* Once nobody runs batches by hand any more, the cron job works the backlog off whenever
\* ingestion pauses: every trace gets a decision from every rule, also those behind more
\* traces than a batch takes, and whatever batches crashed, overlapped or deadlocked before.
\* (Two batches that are started without end may make each other deadlock victims for ever.)
Backlog == {p \in stored \X Rules : verdict[p[1]][p[2]] = "none"}
ByHand == {w \in Writers \ {Cron} : run[w].pc # "out"}
EveryTraceDecided == <>[](ByHand = {}) => []<>(Backlog = {})
=============================================================================
