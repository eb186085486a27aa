----------------------------- MODULE ReviewQueue -----------------------------
(***************************************************************************)
(* One human review queue (apps/api/.../services/review.py): items are     *)
(* enqueued, claimed under a lease, finished, and returned to the pool     *)
(* when their lease runs out, by the next claim or by the worker's         *)
(* release_expired_leases job.                                             *)
(*                                                                         *)
(* A request is one transaction at READ COMMITTED, a step one statement.   *)
(* `holder` is the row lock of an item (or, for an item not yet stored,    *)
(* its entry in uq_review_assignments_target).  A lease is live until the  *)
(* clock passes it; a request's `now` is the time of the statement.        *)
(***************************************************************************)
EXTENDS Naturals, FiniteSets

CONSTANTS
  Targets,    \* what may be reviewed: (target_type, target_id)
  Reviewers,  \* people, one request at a time each
  Sweeper,    \* the worker's release_expired_leases job
  Writers,    \* other transactions that enqueue
  Outcomes,   \* how reviewers finish items: "done", "skipped"
  Priorities, \* the priorities callers give
  Nobody      \* an unlocked row, an item without an assignee

ASSUME ActorAssumption ==
  /\ Sweeper \notin Reviewers
  /\ Nobody \notin Reviewers \cup Writers \cup {Sweeper}
  /\ Writers \cap (Reviewers \cup {Sweeper}) = {}
ASSUME ChoiceAssumption == Outcomes \subseteq {"done", "skipped"} /\ Priorities \subseteq Nat

VARIABLES
  item,    \* item[t]: the committed assignment of t
  holder,  \* holder[t]: the transaction that has written the row of t
  tx       \* tx[p]: the request of a reviewer or of the sweeper

queueVars == <<item, holder, tx>>

Actors == Reviewers \cup {Sweeper}
Statuses == {"none", "pending", "in_review", "done", "skipped"}
Terminal == {"done", "skipped"}

NoItem == [status |-> "none", priority |-> 0, assignee |-> Nobody, lease |-> "none"]
NewItem(priority) == [NoItem EXCEPT !.status = "pending", !.priority = priority]
Idle == [pc |-> "out", freed |-> {}, writes |-> {}, status |-> "none", clears |-> FALSE]

QueueInit ==
  /\ item = [t \in Targets |-> NoItem]
  /\ holder = [t \in Targets |-> Nobody]
  /\ tx = [p \in Actors |-> Idle]

At(p, pc) == tx[p].pc = pc

\* The clock passes lease_expires_at of a claim.
LeaseExpires(t) ==
  /\ item[t].lease = "live"
  /\ item' = [item EXCEPT ![t].lease = "expired"]
  /\ UNCHANGED <<holder, tx>>

(***************************************************************************)
(* release_expired, at the start of every claim and as a job of its own.   *)
(***************************************************************************)
\* Mutant: every expired lease, a finished item's included.
BugReclaimable(t) == item[t].lease = "expired"
\* Mutant: lease_expires_at is None for is not None.
BugNullLease(t) == item[t].status = "in_review" /\ item[t].lease = "none"
Reclaimable(t) == item[t].status = "in_review" /\ item[t].lease = "expired"

\* The UPDATE waits for rows others have written, and looks at them again.  The job has
\* nothing to commit when it matches no row.
ReleaseExpired(p) ==
  LET free == {t \in Targets : Reclaimable(t)} IN
  /\ At(p, "out")
  /\ p = Sweeper => free # {}
  /\ \A t \in free : holder[t] = Nobody
  /\ holder' = [t \in Targets |-> IF t \in free THEN p ELSE holder[t]]
  /\ tx' = [tx EXCEPT ![p].freed = free,
                      ![p].pc = IF p = Sweeper THEN "commit" ELSE "pick"]
  /\ UNCHANGED item

(***************************************************************************)
(* claim_next: UPDATE ... WHERE id = (SELECT ... FOR UPDATE SKIP LOCKED).  *)
(***************************************************************************)
\* Mutant: the select takes no lock.
BugClaimable(p, t) == item[t].status = "pending" \/ t \in tx[p].freed
Claimable(p, t) == (item[t].status = "pending" /\ holder[t] = Nobody) \/ t \in tx[p].freed

\* Highest priority first; which of equals is oldest is not told apart.
Pick(p) ==
  LET ready == {t \in Targets : Claimable(p, t)} IN
  /\ At(p, "pick")
  /\ \/ /\ ready = {}
        /\ tx' = [tx EXCEPT ![p].pc = "commit"]
        /\ UNCHANGED holder
     \/ \E t \in ready :
          /\ \A u \in ready : item[u].priority <= item[t].priority
          /\ holder' = [holder EXCEPT ![t] = p]
          /\ tx' = [tx EXCEPT ![p].pc = "commit", ![p].writes = {t}, ![p].status = "in_review"]
  /\ UNCHANGED item

(***************************************************************************)
(* complete: a read, then an update of the row it names, whoever claimed   *)
(* it and whatever has become of it.  Of a finished item it changes        *)
(* nothing.                                                                *)
(***************************************************************************)
CompleteReads(p, t, outcome) ==
  /\ p \in Reviewers
  /\ At(p, "out")
  /\ item[t].status \in {"pending", "in_review"}
  /\ tx' = [tx EXCEPT ![p].pc = "write", ![p].writes = {t}, ![p].status = outcome,
                      ![p].clears = item[t].status = "in_review"]
  /\ UNCHANGED <<item, holder>>

CompleteWrites(p) ==
  \E t \in tx[p].writes :
    /\ At(p, "write")
    /\ holder[t] = Nobody
    /\ holder' = [holder EXCEPT ![t] = p]
    /\ tx' = [tx EXCEPT ![p].pc = "commit"]
    /\ UNCHANGED item

(***************************************************************************)
(* The end of a transaction.                                               *)
(***************************************************************************)
Unlocked(p) == [t \in Targets |-> IF holder[t] = p THEN Nobody ELSE holder[t]]

Returned(t) == NewItem(item[t].priority)
Claimed(p, t) == [item[t] EXCEPT !.status = "in_review", !.assignee = p, !.lease = "live"]
\* An item that was read as pending had no lease to clear, so one claimed since keeps it.
Finished(p, t) ==
  [item[t] EXCEPT !.status = tx[p].status, !.lease = IF tx[p].clears THEN "none" ELSE @]

EndTransaction(p) ==
  /\ At(p, "commit")
  /\ item' = [t \in Targets |->
       IF t \notin tx[p].writes
       THEN IF t \in tx[p].freed THEN Returned(t) ELSE item[t]
       ELSE IF tx[p].status = "in_review" THEN Claimed(p, t) ELSE Finished(p, t)]
  /\ holder' = Unlocked(p)
  /\ tx' = [tx EXCEPT ![p] = Idle]

RollBack(p) ==
  /\ ~At(p, "out")
  /\ holder' = Unlocked(p)
  /\ tx' = [tx EXCEPT ![p] = Idle]
  /\ UNCHANGED item

(***************************************************************************)
(* INSERT ... ON CONFLICT DO NOTHING of an item by another transaction,    *)
(* which holds it to its own end.                                          *)
(***************************************************************************)
\* Mutant: an insert in flight counts as already queued.
BugQueueable(w, t) == TRUE
Queueable(w, t) == holder[t] \in {Nobody, w} \/ item[t].status # "none"

\* Whether the insert stores a row, when it does not have to wait.
Inserts(t) == item[t].status = "none" /\ holder[t] = Nobody

\* ReviewService.enqueue, in a transaction of its own.
EnqueueItem(t, priority) ==
  /\ Inserts(t)
  /\ item' = [item EXCEPT ![t] = NewItem(priority)]
  /\ UNCHANGED <<holder, tx>>

QueueStep ==
  \/ \E t \in Targets : LeaseExpires(t)
  \/ \E p \in Actors : ReleaseExpired(p) \/ Pick(p) \/ CompleteWrites(p) \/ EndTransaction(p)
  \/ \E p \in Actors : RollBack(p)
  \/ \E p \in Reviewers, t \in Targets, outcome \in Outcomes : CompleteReads(p, t, outcome)

QueueNext == QueueStep \/ \E t \in Targets, priority \in Priorities : EnqueueItem(t, priority)

QueueSpec == QueueInit /\ [][QueueNext]_queueVars

\* The clock advances and statements end; the worker's job starts every five minutes and
\* gets the row locks it waits for in its turn; commits do not fail every time.  No
\* reviewer has to act.
QueueFairness ==
  /\ \A t \in Targets : WF_queueVars(LeaseExpires(t))
  /\ \A p \in Reviewers : WF_queueVars(Pick(p) \/ CompleteWrites(p))
  /\ SF_queueVars(ReleaseExpired(Sweeper))
  /\ \A p \in Actors : SF_queueVars(EndTransaction(p))
FairQueueSpec == QueueSpec /\ QueueFairness

(***************************************************************************)
(* Properties                                                              *)
(***************************************************************************)
\* Every variable of the queue stays in its range.
QueueTypeOK ==
  /\ item \in [Targets -> [status : Statuses, priority : Nat,
                           assignee : Reviewers \cup {Nobody},
                           lease : {"none", "live", "expired"}]]
  /\ holder \in [Targets -> Actors \cup Writers \cup {Nobody}]
  /\ tx \in [Actors -> [pc : {"out", "pick", "write", "commit"},
                        freed : SUBSET Targets, writes : SUBSET Targets,
                        status : Statuses, clears : BOOLEAN]]

\* The strengthening behind the two step properties.  To the end of its transaction, what
\* a lease recovery freed stays locked and stays reclaimable; what it is about to write
\* is locked; and what it is about to claim is pending or was freed by itself, whatever
\* others read, wait for or commit meanwhile.
FreedHeld(p) == \A t \in tx[p].freed : holder[t] = p /\ Reclaimable(t)
WritesHeld(p) ==
  At(p, "commit") => \A t \in tx[p].writes :
    /\ holder[t] = p
    /\ tx[p].status = "in_review" => item[t].status = "pending" \/ t \in tx[p].freed
WritesMeant(p) ==
  /\ tx[p].writes # {} => p \in Reviewers /\ tx[p].status \in Outcomes \cup {"in_review"}
  /\ At(p, "out") \/ At(p, "pick") => tx[p].writes = {}
  /\ At(p, "pick") => p \in Reviewers
  /\ At(p, "write") => tx[p].status \in Outcomes /\ \E t \in Targets : tx[p].writes = {t}
Strengthening == \A p \in Actors : FreedHeld(p) /\ WritesHeld(p) /\ WritesMeant(p)

\* A finished item is nobody's work again, although claims, lease recovery and further
\* completions of it may be under way when it is finished.
FinishedStays ==
  [][\A t \in Targets : item[t].status \in Terminal => item'[t].status \in Terminal]_queueVars

\* While its lease is live, an item that one reviewer has claimed is not given to another.
ClaimsExclusive ==
  [][\A t \in Targets :
       item[t].status = "in_review" /\ item[t].lease = "live" /\ item'[t].status = "in_review"
         => item'[t].assignee = item[t].assignee]_queueVars

\* "A reviewer who claims an item and closes their laptop must not hold it forever": a
\* claim whose lease has run out ends, whether or not anybody asks for work.
AbandonedReturns ==
  \A t \in Targets :
    item[t].status = "in_review" /\ item[t].lease = "expired"
      ~> item[t].status # "in_review" \/ item[t].lease = "live"
=============================================================================
