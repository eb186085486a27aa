-------------------------------- MODULE Upkeep --------------------------------
(***************************************************************************)
(* The background worker (worker/main.py) running the two jobs that change *)
(* what is stored: partition maintenance and retention.  A run of a job is *)
(* tried up to MaxTries times; a failure is recorded once the last attempt *)
(* has failed; the process may be killed and started again in between.     *)
(*                                                                         *)
(* arq is external, modelled from what main.py relies on: it counts an     *)
(* attempt when it starts one, takes one job at a time, cancels a job that *)
(* exceeds its time, keeps a failed run until the attempts are used up and *)
(* then forgets it.                                                        *)
(***************************************************************************)
EXTENDS Retention

CONSTANTS
  MaxTries,
  MaxRuns    \* bound on the runs ever scheduled

ASSUME UpkeepAssumption == MaxTries \in Nat \ {0} /\ MaxRuns \in Nat \ {0}

VARIABLES
  up,         \* the worker process is there
  pending,    \* arq's queue: the runs it has not finished with
  attempts,   \* attempts[r]: job_try
  job,        \* job[r]: what the run runs, "none" when it was never scheduled
  pc,         \* what the worker does with the run at hand
  current,    \* the run at hand
  letters,    \* the dead letters: [run, attempt, resolved]
  ended,      \* history: how the runs that are over ended
  covered     \* history: the last month in which maintenance succeeded, -1 before

worker == <<up, pending, attempts, job, pc, current>>
upkeep == <<store, worker, letters, ended, covered>>

Runs == 1..MaxRuns
Jobs == {"partitions", "retention"}
Unscheduled == {r \in Runs : job[r] = "none"}
NextRun == CHOOSE r \in Unscheduled : \A q \in Unscheduled : r <= q
Unresolved == {l \in letters : ~l.resolved}

\* The process starts with a partition run: run_at_startup.
WorkerInit ==
  /\ InitStore
  /\ up = TRUE /\ current = 0 /\ pc = "idle"
  /\ pending = {1}
  /\ attempts = [r \in Runs |-> 0]
  /\ job = [r \in Runs |-> IF r = 1 THEN "partitions" ELSE "none"]
  /\ letters = {} /\ covered = -1
  /\ ended = [r \in Runs |-> "no"]

Schedule(j) ==
  /\ pending' = pending \cup {NextRun}
  /\ job' = [job EXCEPT ![NextRun] = j]

Cron(j) ==
  /\ up /\ Unscheduled # {}
  /\ Schedule(j)
  /\ UNCHANGED <<store, up, attempts, pc, current, letters, ended, covered>>

Leave(how) ==
  /\ pending' = pending \ {current}
  /\ ended' = [ended EXCEPT ![current] = how]

PutDown == current' = 0 /\ pc' = "idle"

(***************************************************************************)
(* arq starts a run.  One whose attempts are used up, because the process  *)
(* died in the last of them, is dropped without being run.                 *)
(***************************************************************************)
\* Mutant: the attempt is not counted.
BugCount(r) == attempts
Count(r) == [attempts EXCEPT ![r] = @ + 1]

Start(r) ==
  /\ up /\ current = 0 /\ r \in pending
  /\ IF attempts[r] >= MaxTries
     THEN /\ pending' = pending \ {r}
          /\ ended' = [ended EXCEPT ![r] = "dropped"]
          /\ UNCHANGED <<attempts, pc, current>>
     ELSE /\ attempts' = Count(r)
          /\ current' = r /\ pc' = "working"
          /\ UNCHANGED <<pending, ended>>
  /\ UNCHANGED <<store, up, job, letters, covered>>

Body ==
  IF job[current] = "partitions"
  THEN MaintainPartitions /\ covered' = Month(today)
  ELSE SweepRetention /\ UNCHANGED covered

\* The job's own transaction commits, and arq notes the result.
Succeed ==
  /\ up /\ pc = "working"
  /\ Body
  /\ Leave("done") /\ PutDown
  /\ UNCHANGED <<up, attempts, job, letters>>

(***************************************************************************)
(* The job raises: its transaction is rolled back, or has been committed   *)
(* by a server whose answer was lost.                                      *)
(***************************************************************************)
Raise ==
  /\ up /\ pc = "working"
  /\ Body \/ UNCHANGED <<store, covered>>
  /\ pc' = "failed"
  /\ UNCHANGED <<up, pending, attempts, job, current, letters, ended>>

\* _dead_letter: only the last attempt leaves a record.
\* Mutant: the attempt before the last is taken for it.
BugFinalAttempt == attempts[current] >= MaxTries - 1
FinalAttempt == attempts[current] >= MaxTries

\* deadletter.record has a session of its own, and swallows its own failure.
Record ==
  /\ up /\ pc = "failed"
  /\ \/ /\ FinalAttempt
        /\ letters' = letters \cup {[run |-> current, attempt |-> attempts[current],
                                     resolved |-> FALSE]}
     \/ UNCHANGED letters
  /\ pc' = "reraise"
  /\ UNCHANGED <<store, up, pending, attempts, job, current, ended, covered>>

\* arq sees the exception: the run waits for another attempt, or is over.
GiveBack ==
  /\ IF attempts[current] >= MaxTries THEN Leave("failed") ELSE UNCHANGED <<pending, ended>>
  /\ PutDown

Reraise ==
  /\ up /\ pc = "reraise"
  /\ GiveBack
  /\ UNCHANGED <<store, up, attempts, job, letters, covered>>

\* job_timeout: a cancellation is not an Exception, so nothing is recorded.
Cancel ==
  /\ up /\ pc = "working"
  /\ GiveBack
  /\ UNCHANGED <<store, up, attempts, job, letters, covered>>

\* A redeploy or the liveness probe stops the process in the middle of a run.
Kill ==
  /\ up /\ current # 0
  /\ up' = FALSE
  /\ PutDown
  /\ UNCHANGED <<store, pending, attempts, job, letters, ended, covered>>

Restart ==
  /\ ~up
  /\ up' = TRUE
  /\ IF Unscheduled # {} THEN Schedule("partitions") ELSE UNCHANGED <<pending, job>>
  /\ UNCHANGED <<store, attempts, pc, current, letters, ended, covered>>

\* POST /v1/ops/dead-letters/{id}/resolve
Resolve(l) ==
  /\ l \in Unresolved
  /\ letters' = (letters \ {l}) \cup {[l EXCEPT !.resolved = TRUE]}
  /\ UNCHANGED <<store, worker, ended, covered>>

Work == \/ \E r \in Runs : Start(r)
        \/ Succeed \/ Raise \/ Record \/ Reraise \/ Cancel

Outside ==
  /\ \/ NextDay
     \/ \E p \in AllProjects, skew \in Skews : \E sha \in Payloads[p] : Ingest(p, skew, sha)
  /\ UNCHANGED <<worker, letters, ended, covered>>

WorkerNext ==
  \/ Work \/ Outside \/ Kill \/ Restart
  \/ \E j \in Jobs : Cron(j)
  \/ \E l \in letters : Resolve(l)

WorkerSpec == WorkerInit /\ [][WorkerNext]_upkeep

\* The process goes on with what it has begun, and somebody starts it again.
FairWorkerSpec == WorkerSpec /\ WF_upkeep(Work) /\ WF_upkeep(Restart)
-----------------------------------------------------------------------------
(***************************************************************************)
(* Retention (jobs.sweep_retention, "destroy another tenant's retainable   *)
(* data"): a span or a payload that goes away is outside the window of the *)
(* project it belongs to, whichever project the sweep ran for, however     *)
(* often the run was retried and wherever the calendar stood in the month. *)
(***************************************************************************)
NothingKeptIsDropped ==
  [][/\ \A r \in rows \ rows' : r.day < today - TraceDays[r.project]
     /\ \A o \in payloads \ payloads' : o.created < today - PayloadDays[o.project]]_upkeep

(***************************************************************************)
(* main._dead_letter ("how many distinct failures were there"): a run has  *)
(* at most one dead letter, and one that has a letter is never reported as *)
(* done, through retries, kills between recording and giving back, and     *)
(* restarts that pick the run up again.                                    *)
(***************************************************************************)
OneLetterPerFailure ==
  /\ \A l, k \in letters : l.run = k.run => l = k
  /\ \A l \in letters : ended[l.run] # "done"

(***************************************************************************)
(* partitions.py, "created well ahead of the calendar": for MonthsAhead    *)
(* months after the last successful maintenance a span that carries        *)
(* today's date finds its partition, whatever retention dropped since and  *)
(* however many runs failed.                                               *)
(***************************************************************************)
PartitionsAhead ==
  covered >= 0 /\ Month(today) <= covered + MonthsAhead => Month(today) \in months

(***************************************************************************)
(* main.py, "retry, then dead-letter": every run that was scheduled comes  *)
(* to an end, although the process may be killed in any attempt.           *)
(***************************************************************************)
EveryRunEnds == \A r \in Runs : job[r] # "none" ~> ended[r] # "no"

(***************************************************************************)
(* deadletter.py, "a failure may not be silent": a run that is over        *)
(* without having done its work has a dead letter.  It does not hold: a    *)
(* cancelled last attempt, a killed one and a record that could not be     *)
(* stored leave nothing.                                                   *)
(***************************************************************************)
FailureRecorded ==
  \A r \in Runs : ended[r] \in {"failed", "dropped"} => \E l \in letters : l.run = r

(***************************************************************************)
(* retention.py, "the moment day 31 arrives with the rows still there":    *)
(* a retention run that ends leaves no span of a month that is past every  *)
(* window.  It does not hold: what is in DEFAULT stays.                    *)
(***************************************************************************)
NothingOutstays ==
  [][\A r \in Runs : ended[r] = "no" /\ ended'[r] = "done" /\ job[r] = "retention"
       => \A s \in rows' : MonthEnd(Month(s.day)) > Cutoff]_upkeep

(***************************************************************************)
(* Payload windows (retention.RetentionService.sweep_payload_rows): a span *)
(* inside its project's payload window still finds the payload it was      *)
(* stored with.  It does not hold: a payload found by its hash keeps the   *)
(* age of the first span that stored it.                                   *)
(***************************************************************************)
FreshReferenceResolves ==
  \A s \in rows : s.ref # Nothing /\ s.day >= today - PayloadDays[s.project] => s.ref \in payloads

(***************************************************************************)
(* Partition maintenance (jobs.maintain_partitions, "idempotent") can      *)
(* always succeed.  It does not hold: one row that reached DEFAULT before  *)
(* its month was created has every later run refused.                      *)
(***************************************************************************)
MaintenanceNeverWedged == ~Refused
=============================================================================
