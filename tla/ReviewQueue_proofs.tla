-------------------------- MODULE ReviewQueue_proofs --------------------------
(***************************************************************************)
(* The review queue and online evaluation, which fills it.  For any number *)
(* of items and reviewers a claim has one holder while its lease is live,  *)
(* and a finished item stays finished; for any number of traces, rules and *)
(* batches the queue holds the traces that failed, and only those.         *)
(***************************************************************************)
EXTENDS OnlineEval, FiniteSetTheorems, WellFoundedInduction, TLAPS

IInv == QueueTypeOK /\ Strengthening

ItemRange == [status : Statuses, priority : Nat, assignee : Reviewers \cup {Nobody},
              lease : {"none", "live", "expired"}]
TxRange == [pc : {"out", "pick", "write", "commit"}, freed : SUBSET Targets,
            writes : SUBSET Targets, status : Statuses, clears : BOOLEAN]

\* The worker's job and an unlocked row are nobody's name.
LEMMA Names ==
  ASSUME NEW p \in Actors
  PROVE  p # Nobody /\ (p \in Reviewers <=> p # Sweeper)
BY ActorAssumption DEF Actors

(***************************************************************************)
(* The type invariant.                                                     *)
(***************************************************************************)
\* An empty queue with no request under way is in its ranges.
LEMMA TypeInit == QueueInit => QueueTypeOK
BY DEF QueueInit, QueueTypeOK, NoItem, Idle, Statuses, Actors

\* A new item is a well-formed, unassigned item of its priority.
LEMMA NewItemType ==
  ASSUME NEW priority \in Nat
  PROVE  NewItem(priority) \in ItemRange /\ NewItem(priority).status = "pending"
BY DEF NewItem, NoItem, Statuses, ItemRange

\* No statement and no commit takes the queue out of its ranges; that a claim's assignee is
\* a reviewer needs to know who may be about to write what.
LEMMA TypeNext == IInv /\ [QueueNext]_queueVars => QueueTypeOK'
<1> SUFFICES ASSUME IInv, [QueueNext]_queueVars PROVE QueueTypeOK'
  OBVIOUS
<1>0. /\ item \in [Targets -> ItemRange]
      /\ holder \in [Targets -> Actors \cup Writers \cup {Nobody}]
      /\ tx \in [Actors -> TxRange]
  BY DEF IInv, QueueTypeOK, ItemRange, TxRange
<1> SUFFICES /\ item' \in [Targets -> ItemRange]
             /\ holder' \in [Targets -> Actors \cup Writers \cup {Nobody}]
             /\ tx' \in [Actors -> TxRange]
  BY DEF QueueTypeOK, ItemRange, TxRange
<1> DEFINE Goal == /\ item' \in [Targets -> ItemRange]
                   /\ holder' \in [Targets -> Actors \cup Writers \cup {Nobody}]
                   /\ tx' \in [Actors -> TxRange]
<1>1. ASSUME NEW t \in Targets, LeaseExpires(t) PROVE Goal
  <2>1. [item[t] EXCEPT !.lease = "expired"] \in ItemRange
    BY <1>0 DEF ItemRange
  <2> QED BY <1>0, <1>1, <2>1 DEF LeaseExpires
<1>2. ASSUME NEW p \in Actors, ReleaseExpired(p) PROVE Goal
  <2> DEFINE free == {t \in Targets : Reclaimable(t)}
             pc == IF p = Sweeper THEN "commit" ELSE "pick"
  <2>1. [[tx[p] EXCEPT !.freed = free] EXCEPT !.pc = pc] \in TxRange
    BY <1>0 DEF TxRange
  <2>2. tx' = [tx EXCEPT ![p] = [[tx[p] EXCEPT !.freed = free] EXCEPT !.pc = pc]]
    BY <1>0, <1>2 DEF ReleaseExpired, TxRange
  <2>3. tx' \in [Actors -> TxRange]
    BY <1>0, <2>1, <2>2
  <2>4. holder' = [t \in Targets |-> IF t \in free THEN p ELSE holder[t]] /\ item' = item
    BY <1>2 DEF ReleaseExpired
  <2> QED BY <1>0, <2>3, <2>4
<1>3. ASSUME NEW p \in Actors, Pick(p) PROVE Goal
  <2> DEFINE ready == {t \in Targets : Claimable(p, t)}
  <2>1. CASE ready = {} /\ tx' = [tx EXCEPT ![p].pc = "commit"] /\ UNCHANGED <<item, holder>>
    <3>1. [tx[p] EXCEPT !.pc = "commit"] \in TxRange
      BY <1>0 DEF TxRange
    <3> QED BY <1>0, <2>1, <3>1
  <2>2. ASSUME NEW t \in ready,
               holder' = [holder EXCEPT ![t] = p],
               tx' = [tx EXCEPT ![p].pc = "commit", ![p].writes = {t}, ![p].status = "in_review"],
               item' = item
        PROVE  Goal
    <3>1. [tx[p] EXCEPT !.pc = "commit", !.writes = {t}, !.status = "in_review"] \in TxRange
      BY <1>0 DEF TxRange, Statuses
    <3>2. tx' \in [Actors -> TxRange]
      BY <1>0, <2>2, <3>1 DEF TxRange
    <3> QED BY <1>0, <2>2, <3>2
  <2> QED BY <1>3, <2>1, <2>2 DEF Pick
<1>4. ASSUME NEW p \in Actors, CompleteWrites(p) PROVE Goal
  <2>1. [tx[p] EXCEPT !.pc = "commit"] \in TxRange
    BY <1>0 DEF TxRange
  <2> QED BY <1>0, <1>4, <2>1 DEF CompleteWrites
<1>5. ASSUME NEW p \in Actors, EndTransaction(p) PROVE Goal
  <2>1. holder' \in [Targets -> Actors \cup Writers \cup {Nobody}] /\ tx' \in [Actors -> TxRange]
    BY <1>0, <1>5 DEF EndTransaction, Unlocked, Idle, TxRange, Statuses
  <2>2. ASSUME NEW t \in Targets PROVE item'[t] \in ItemRange
    <3>1. Returned(t) \in ItemRange
      BY <1>0, NewItemType DEF Returned, ItemRange
    <3>2. t \in tx[p].writes => Claimed(p, t) \in ItemRange
      <4>1. t \in tx[p].writes => p \in Reviewers
        BY DEF IInv, Strengthening, WritesMeant
      <4>2. p \in Reviewers => Claimed(p, t) \in ItemRange
        BY <1>0 DEF Claimed, ItemRange, Statuses
      <4> QED BY <4>1, <4>2
    <3>3. Finished(p, t) \in ItemRange
      <4>1. tx[p].status \in Statuses
        BY <1>0 DEF TxRange
      <4>2. (IF tx[p].clears THEN "none" ELSE item[t].lease) \in {"none", "live", "expired"}
        BY <1>0 DEF ItemRange
      <4> QED BY <1>0, <4>1, <4>2 DEF Finished, ItemRange
    <3> QED BY <1>0, <1>5, <3>1, <3>2, <3>3 DEF EndTransaction
  <2>3. item' \in [Targets -> ItemRange]
    BY <1>5, <2>2 DEF EndTransaction
  <2> QED BY <2>1, <2>3
<1>6. ASSUME NEW p \in Actors, RollBack(p) PROVE Goal
  BY <1>0, <1>6 DEF RollBack, Unlocked, Idle, TxRange, Statuses
<1>7. ASSUME NEW p \in Reviewers, NEW t \in Targets, NEW outcome \in Outcomes,
             CompleteReads(p, t, outcome)
      PROVE  Goal
  <2>1. outcome \in Statuses /\ p \in Actors
    BY ChoiceAssumption DEF Statuses, Actors
  <2> DEFINE clears == item[t].status = "in_review"
  <2>2. [tx[p] EXCEPT !.pc = "write", !.writes = {t}, !.status = outcome, !.clears = clears]
          \in TxRange
    BY <1>0, <2>1 DEF TxRange
  <2>3. tx' \in [Actors -> TxRange]
    BY <1>0, <1>7, <2>1, <2>2 DEF CompleteReads
  <2> QED BY <1>0, <1>7, <2>3 DEF CompleteReads
<1>8. ASSUME NEW t \in Targets, NEW priority \in Priorities, EnqueueItem(t, priority)
      PROVE  Goal
  BY <1>0, <1>8, ChoiceAssumption, NewItemType DEF EnqueueItem
<1>9. CASE UNCHANGED queueVars
  BY <1>0, <1>9 DEF queueVars
<1> QED BY <1>1, <1>2, <1>3, <1>4, <1>5, <1>6, <1>7, <1>8, <1>9 DEF QueueNext, QueueStep

(***************************************************************************)
(* The strengthening.                                                      *)
(***************************************************************************)
\* A step of another actor that leaves the rows q has locked alone, their expired leases
\* and their states included, keeps what is known of q.
LEMMA Untouched ==
  ASSUME Strengthening, NEW q \in Actors, tx'[q] = tx[q],
         \A t \in Targets : holder[t] = q =>
           /\ holder'[t] = q
           /\ item'[t].status = item[t].status
           /\ item[t].lease = "expired" => item'[t].lease = "expired",
         QueueTypeOK
  PROVE  (FreedHeld(q) /\ WritesHeld(q) /\ WritesMeant(q))'
<1>1. tx[q].freed \subseteq Targets /\ tx[q].writes \subseteq Targets
  BY DEF QueueTypeOK
<1>2. FreedHeld(q) /\ WritesHeld(q) /\ WritesMeant(q)
  BY DEF Strengthening
<1>3. FreedHeld(q)'
  BY <1>1, <1>2 DEF FreedHeld, Reclaimable
<1>4. WritesHeld(q)'
  BY <1>1, <1>2 DEF WritesHeld, At
<1>5. WritesMeant(q)'
  BY <1>2 DEF WritesMeant, At
<1> QED BY <1>3, <1>4, <1>5

\* No step lets go of a lock, or of what it was taken for, before its transaction ends.
LEMMA StrengtheningNext == IInv /\ [QueueNext]_queueVars => Strengthening'
<1> SUFFICES ASSUME IInv, [QueueNext]_queueVars, NEW q \in Actors
             PROVE  (FreedHeld(q) /\ WritesHeld(q) /\ WritesMeant(q))'
  BY DEF Strengthening
<1>0. /\ item \in [Targets -> ItemRange]
      /\ holder \in [Targets -> Actors \cup Writers \cup {Nobody}]
      /\ tx \in [Actors -> TxRange]
      /\ QueueTypeOK
      /\ Strengthening
  BY DEF IInv, QueueTypeOK, ItemRange, TxRange
<1>a. FreedHeld(q) /\ WritesHeld(q) /\ WritesMeant(q)
  BY <1>0 DEF Strengthening
<1> DEFINE Goal == (FreedHeld(q) /\ WritesHeld(q) /\ WritesMeant(q))'
<1>1. ASSUME NEW t \in Targets, LeaseExpires(t) PROVE Goal
  <2>1. \A u \in Targets : item'[u].status = item[u].status
                          /\ (item[u].lease = "expired" => item'[u].lease = "expired")
    BY <1>0, <1>1 DEF LeaseExpires, ItemRange
  <2> QED BY <1>0, <1>1, <2>1, Untouched DEF LeaseExpires
<1>2. ASSUME NEW p \in Actors, ReleaseExpired(p) PROVE Goal
  <2> DEFINE free == {t \in Targets : Reclaimable(t)}
  <2>1. item' = item /\ holder' = [t \in Targets |-> IF t \in free THEN p ELSE holder[t]]
    BY <1>2 DEF ReleaseExpired
  <2>2. CASE q # p
    <3>1. tx'[q] = tx[q]
      BY <1>0, <1>2, <2>2 DEF ReleaseExpired
    <3>2. \A t \in free : holder[t] = Nobody
      BY <1>2 DEF ReleaseExpired
    <3>3. \A t \in Targets : holder[t] = q => holder'[t] = q
      BY <2>1, <3>2, Names
    <3> QED BY <1>0, <2>1, <3>1, <3>3, Untouched
  <2>3. CASE q = p
    <3>1. /\ tx'[q].freed = free
          /\ tx'[q].writes = tx[q].writes
          /\ tx'[q].status = tx[q].status
          /\ tx'[q].pc = IF q = Sweeper THEN "commit" ELSE "pick"
      BY <1>0, <1>2, <2>3 DEF ReleaseExpired, TxRange
    <3>2. tx[q].writes = {}
      BY <1>2, <1>a, <2>3 DEF ReleaseExpired, WritesMeant
    <3>3. FreedHeld(q)'
      BY <2>1, <2>3, <3>1 DEF FreedHeld, Reclaimable
    <3> QED BY <3>1, <3>2, <3>3, Names DEF WritesHeld, WritesMeant, At
  <2> QED BY <2>2, <2>3
<1>3. ASSUME NEW p \in Actors, Pick(p) PROVE Goal
  <2>1. item' = item
    BY <1>3 DEF Pick
  <2>2. CASE holder' = holder /\ tx' = [tx EXCEPT ![p].pc = "commit"]
    <3>1. CASE q # p
      BY <1>0, <2>1, <2>2, <3>1, Untouched
    <3>2. CASE q = p
      <4>1. /\ tx'[q].freed = tx[q].freed
            /\ tx'[q].writes = tx[q].writes
            /\ tx'[q].pc = "commit"
        BY <1>0, <2>2, <3>2 DEF TxRange
      <4>2. tx[q].writes = {}
        BY <1>3, <1>a, <3>2 DEF Pick, WritesMeant
      <4> QED BY <1>a, <2>1, <2>2, <4>1, <4>2 DEF FreedHeld, WritesHeld, WritesMeant, At, Reclaimable
    <3> QED BY <3>1, <3>2
  <2>3. ASSUME NEW t \in Targets, Claimable(p, t),
               holder' = [holder EXCEPT ![t] = p],
               tx' = [tx EXCEPT ![p].pc = "commit", ![p].writes = {t}, ![p].status = "in_review"]
        PROVE  Goal
    <3>1. CASE q # p
      <4>1. holder[t] # q
        BY <1>0, <2>3, <3>1, Names DEF Claimable, Strengthening, FreedHeld
      <4> QED BY <1>0, <2>1, <2>3, <3>1, <4>1, Untouched
    <3>2. CASE q = p
      <4>1. /\ tx'[q].freed = tx[q].freed
            /\ tx'[q].writes = {t}
            /\ tx'[q].status = "in_review"
            /\ tx'[q].pc = "commit"
        BY <1>0, <2>3, <3>2 DEF TxRange
      <4>2. q \in Reviewers
        BY <1>3, <1>a, <3>2 DEF Pick, WritesMeant
      <4>3. FreedHeld(q)'
        BY <1>0, <1>a, <2>1, <2>3, <3>2, <4>1 DEF FreedHeld, Reclaimable
      <4>4. item[t].status = "pending" \/ t \in tx[q].freed
        BY <2>3, <3>2 DEF Claimable
      <4>5. holder'[t] = q
        BY <1>0, <2>3, <3>2
      <4> QED BY <2>1, <4>1, <4>2, <4>3, <4>4, <4>5 DEF WritesHeld, WritesMeant, At
    <3> QED BY <3>1, <3>2
  <2> QED BY <1>3, <2>2, <2>3 DEF Pick
<1>4. ASSUME NEW p \in Actors, CompleteWrites(p) PROVE Goal
  <2>1. PICK t \in tx[p].writes : /\ At(p, "write")
                                  /\ holder[t] = Nobody
                                  /\ holder' = [holder EXCEPT ![t] = p]
                                  /\ tx' = [tx EXCEPT ![p].pc = "commit"]
                                  /\ item' = item
    BY <1>4 DEF CompleteWrites
  <2>2. CASE q # p
    BY <1>0, <2>1, <2>2, Untouched, Names
  <2>3. CASE q = p
    <3>1. /\ tx'[q].freed = tx[q].freed
          /\ tx'[q].writes = tx[q].writes
          /\ tx'[q].status = tx[q].status
          /\ tx'[q].pc = "commit"
      BY <1>0, <2>1, <2>3 DEF TxRange
    <3>2. tx[q].status \in Outcomes /\ q \in Reviewers
      BY <1>a, <2>1, <2>3 DEF WritesMeant
    <3>3. tx[q].writes = {t}
      BY <1>a, <2>1, <2>3 DEF WritesMeant
    <3>4. tx[q].status # "in_review"
      BY <3>2, ChoiceAssumption
    <3>5. FreedHeld(q)'
      BY <1>0, <1>a, <2>1, <2>3, <3>1 DEF FreedHeld, Reclaimable
    <3>6. holder'[t] = q
      BY <1>0, <2>1, <2>3 DEF TxRange
    <3> QED BY <3>1, <3>2, <3>3, <3>4, <3>5, <3>6 DEF WritesHeld, WritesMeant, At
  <2> QED BY <2>2, <2>3
<1>5. ASSUME NEW p \in Actors, EndTransaction(p) PROVE Goal
  <2>1. CASE q # p
    <3>1. tx'[q] = tx[q]
      BY <1>0, <1>5, <2>1 DEF EndTransaction
    <3>2. ASSUME NEW t \in Targets, holder[t] = q PROVE holder'[t] = q /\ item'[t] = item[t]
      <4>1. t \notin tx[p].freed /\ t \notin tx[p].writes
        BY <1>0, <1>5, <2>1, <3>2 DEF EndTransaction, Strengthening, FreedHeld, WritesHeld
      <4> QED BY <1>5, <2>1, <3>2, <4>1 DEF EndTransaction, Unlocked
    <3> QED BY <1>0, <3>1, <3>2, Untouched
  <2>2. CASE q = p
    <3>1. tx'[q] = Idle
      BY <1>0, <1>5, <2>2 DEF EndTransaction
    <3> QED BY <3>1 DEF FreedHeld, WritesHeld, WritesMeant, At, Idle
  <2> QED BY <2>1, <2>2
<1>6. ASSUME NEW p \in Actors, RollBack(p) PROVE Goal
  <2>1. CASE q # p
    BY <1>0, <1>6, <2>1, Untouched DEF RollBack, Unlocked
  <2>2. CASE q = p
    <3>1. tx'[q] = Idle
      BY <1>0, <1>6, <2>2 DEF RollBack
    <3> QED BY <3>1 DEF FreedHeld, WritesHeld, WritesMeant, At, Idle
  <2> QED BY <2>1, <2>2
<1>7. ASSUME NEW p \in Reviewers, NEW t \in Targets, NEW outcome \in Outcomes,
             CompleteReads(p, t, outcome)
      PROVE  Goal
  <2>1. item' = item /\ holder' = holder
    BY <1>7 DEF CompleteReads
  <2>2. CASE q # p
    <3>1. tx'[q] = tx[q]
      BY <1>0, <1>7, <2>2 DEF CompleteReads
    <3> QED BY <1>0, <2>1, <3>1, Untouched
  <2>3. CASE q = p
    <3>1. /\ tx'[q].freed = tx[q].freed
          /\ tx'[q].writes = {t}
          /\ tx'[q].status = outcome
          /\ tx'[q].pc = "write"
      BY <1>0, <1>7, <2>3 DEF CompleteReads, TxRange
    <3> QED BY <1>a, <1>7, <2>1, <2>3, <3>1 DEF FreedHeld, WritesHeld, WritesMeant, At, Reclaimable
  <2> QED BY <2>2, <2>3
<1>8. ASSUME NEW t \in Targets, NEW priority \in Priorities, EnqueueItem(t, priority)
      PROVE  Goal
  <2>1. holder[t] # q
    BY <1>8, Names DEF EnqueueItem, Inserts
  <2>2. \A u \in Targets : holder[u] = q => item'[u] = item[u]
    BY <1>0, <1>8, <2>1 DEF EnqueueItem
  <2> QED BY <1>0, <1>8, <2>2, Untouched DEF EnqueueItem
<1>9. CASE UNCHANGED queueVars
  BY <1>0, <1>9, Untouched DEF queueVars
<1> QED BY <1>1, <1>2, <1>3, <1>4, <1>5, <1>6, <1>7, <1>8, <1>9 DEF QueueNext, QueueStep

(***************************************************************************)
(* The theorems.                                                           *)
(***************************************************************************)
\* The invariant holds of an empty queue.
LEMMA IInvInit == QueueInit => IInv
<1> SUFFICES ASSUME QueueInit PROVE Strengthening
  BY TypeInit DEF IInv
<1>1. \A p \in Actors : tx[p] = Idle
  BY DEF QueueInit
<1> QED BY <1>1 DEF Strengthening, FreedHeld, WritesHeld, WritesMeant, At, Idle

\* The invariant holds of every behaviour of the queue.
THEOREM IInvAlways == QueueSpec => []IInv
<1>1. IInv /\ [QueueNext]_queueVars => IInv'
  BY TypeNext, StrengtheningNext DEF IInv
<1> QED BY IInvInit, <1>1, PTL DEF QueueSpec

\* Every variable of the queue stays in its range, for any number of items and reviewers.
THEOREM TypeCorrect == QueueSpec => []QueueTypeOK
<1>1. IInv => QueueTypeOK
  BY DEF IInv
<1> QED BY <1>1, IInvAlways, PTL

\* To its end a transaction holds what it freed, claims or finishes, in the state it took it in.
THEOREM LocksKept == QueueSpec => []Strengthening
<1>1. IInv => Strengthening
  BY DEF IInv
<1> QED BY <1>1, IInvAlways, PTL

\* What a commit does to an item: it returns one that was in review with its lease run out,
\* claims one that was pending or had run out likewise, or finishes one.
LEMMA CommitItem ==
  ASSUME IInv, NEW p \in Actors, EndTransaction(p), NEW t \in Targets
  PROVE  \/ item'[t] = item[t]
         \/ item[t].status \notin Terminal /\ ~(item[t].status = "in_review" /\ item[t].lease = "live")
         \/ item'[t].status \in Terminal
<1>1. item \in [Targets -> ItemRange] /\ tx \in [Actors -> TxRange]
  BY DEF IInv, QueueTypeOK, ItemRange, TxRange
<1>2. t \in tx[p].freed => item[t].status = "in_review" /\ item[t].lease = "expired"
  BY DEF IInv, Strengthening, FreedHeld, Reclaimable
<1>3. CASE t \notin tx[p].writes
  BY <1>2, <1>3 DEF EndTransaction, Terminal
<1>4. CASE t \in tx[p].writes /\ tx[p].status = "in_review"
  BY <1>2, <1>4 DEF EndTransaction, IInv, Strengthening, WritesHeld, Terminal
<1>5. CASE t \in tx[p].writes /\ tx[p].status # "in_review"
  <2>1. tx[p].status \in Terminal
    BY <1>5, ChoiceAssumption DEF IInv, Strengthening, WritesMeant, Terminal
  <2>2. Finished(p, t).status = tx[p].status
    BY <1>1 DEF Finished, ItemRange
  <2> QED BY <1>5, <2>1, <2>2 DEF EndTransaction
<1> QED BY <1>3, <1>4, <1>5

\* No step but a commit, a lease running out and an insert changes an item.
LEMMA ItemsOnlyBy ==
  ASSUME [QueueNext]_queueVars, ~ \E p \in Actors : EndTransaction(p)
  PROVE  \/ item' = item
         \/ \E t \in Targets : LeaseExpires(t)
         \/ \E t \in Targets, priority \in Priorities : EnqueueItem(t, priority)
BY DEF QueueNext, QueueStep, ReleaseExpired, Pick, CompleteWrites, RollBack, CompleteReads,
       queueVars

\* One step never makes a finished item anybody's work, nor gives a live claim away.
LEMMA StepSafe ==
  ASSUME IInv, [QueueNext]_queueVars, NEW t \in Targets
  PROVE  /\ item[t].status \in Terminal => item'[t].status \in Terminal
         /\ item[t].status = "in_review" /\ item[t].lease = "live" /\ item'[t].status = "in_review"
              => item'[t].assignee = item[t].assignee
<1>0. item \in [Targets -> ItemRange]
  BY DEF IInv, QueueTypeOK, ItemRange
<1>1. CASE \E p \in Actors : EndTransaction(p)
  BY <1>1, CommitItem DEF Terminal
<1>2. CASE item' = item
  BY <1>2
<1>3. ASSUME NEW u \in Targets, LeaseExpires(u)
      PROVE  item'[t].status = item[t].status /\ item'[t].assignee = item[t].assignee
  BY <1>0, <1>3 DEF LeaseExpires, ItemRange
<1>4. ASSUME NEW u \in Targets, NEW priority \in Priorities, EnqueueItem(u, priority)
      PROVE  item'[t] = item[t] \/ item[t].status = "none"
  BY <1>0, <1>4 DEF EnqueueItem, Inserts
<1> QED BY <1>1, <1>2, <1>3, <1>4, ItemsOnlyBy DEF Terminal

\* A finished item is nobody's work again, whatever claims, recoveries and completions of
\* it are under way, for any number of reviewers and items.
THEOREM FinishedForGood == QueueSpec => FinishedStays
<1>1. IInv /\ [QueueNext]_queueVars =>
        [\A t \in Targets : item[t].status \in Terminal => item'[t].status \in Terminal]_queueVars
  BY StepSafe
<1> QED BY <1>1, IInvAlways, PTL DEF QueueSpec, FinishedStays

\* A claim whose lease is live is never given to another reviewer, for any number of them.
THEOREM OneHolder == QueueSpec => ClaimsExclusive
<1>1. IInv /\ [QueueNext]_queueVars =>
        [\A t \in Targets :
           item[t].status = "in_review" /\ item[t].lease = "live" /\ item'[t].status = "in_review"
             => item'[t].assignee = item[t].assignee]_queueVars
  BY StepSafe
<1> QED BY <1>1, IInvAlways, PTL DEF QueueSpec, ClaimsExclusive
-----------------------------------------------------------------------------
(* Online evaluation.  The queue mirrors the failures on record because     *)
(* what a batch has recorded and not committed meets no other batch's, and  *)
(* an uncommitted failure comes with an item that is queued, or about to be.*)
RunRange ==
  [pc : {"out", "trace", "enqueue"}, left : SUBSET Rules, broke : BOOLEAN,
   rule : Rules \cup {Resting.rule}, todo : SUBSET Targets, taken : 0 .. MaxEscalations,
   wrote : [Targets -> [Rules -> Verdicts \cup {"none"}]]]

OnlineRanges ==
  /\ QueueTypeOK
  /\ \A t \in Targets : holder[t] \in Writers \cup {Nobody}
  /\ stored \subseteq Targets /\ IsFiniteSet(stored)
  /\ verdict \in [Targets -> [Rules -> Verdicts \cup {"none"}]]
  /\ run \in [Writers -> RunRange]
  /\ crashes \in 0 .. MaxCrashes

\* Where a batch is: it has traces at hand from the rule it took them for, and has written
\* nothing for them or for the rules it has left, except that about to enqueue it has just
\* recorded a failure of the first.
BatchOK(w) ==
  /\ run[w].todo \subseteq stored /\ Cardinality(run[w].todo) <= Limit
  /\ run[w].todo # {} => run[w].rule \in Rules \ run[w].left
  /\ run[w].pc = "out" => run[w].wrote = NothingWritten
  /\ run[w].pc = "enqueue" =>
       run[w].todo # {} /\ run[w].wrote[Oldest(run[w].todo)][run[w].rule] = "fail"
  /\ \A t \in Targets, r \in Rules : run[w].wrote[t][r] # "none" =>
       /\ r \notin run[w].left
       /\ r = run[w].rule /\ t \in run[w].todo =>
            run[w].pc = "enqueue" /\ t = Oldest(run[w].todo)

\* A decision is in the hands of one batch, and of none once it is committed.
Undecided(w) ==
  \A t \in Targets, r \in Rules : run[w].wrote[t][r] # "none" =>
    verdict[t][r] = "none" /\ \A q \in Writers \ {w} : run[q].wrote[t][r] = "none"

\* A failure a batch has recorded is queued already, or by itself, or about to be.
FailuresHeld(w) ==
  \A t \in Targets, r \in Rules : run[w].wrote[t][r] = "fail" =>
    \/ holder[t] = w \/ item[t].status # "none"
    \/ run[w].pc = "enqueue" /\ t = Oldest(run[w].todo) /\ r = run[w].rule

\* An item a batch has inserted is a new one, for a failure it has recorded.
HeldFails(w) ==
  \A t \in Targets : holder[t] = w =>
    item[t].status = "none" /\ \E r \in Rules : run[w].wrote[t][r] = "fail"

OnlineInv ==
  /\ OnlineRanges
  /\ \A w \in Writers : BatchOK(w) /\ Undecided(w) /\ FailuresHeld(w) /\ HeldFails(w)
  /\ QueueMirrorsFailures

-----------------------------------------------------------------------------
\* Of finitely many traces there is an oldest.
LEMMA OldestThere ==
  ASSUME NEW S \in SUBSET Targets, S # {}
  PROVE  Oldest(S) \in S
<1> DEFINE D == {Order[t] : t \in S}
           R == OpToRel(<, Nat)
<1>1. D \in SUBSET Nat /\ D # {}
  BY TraceAssumption
<1>2. PICK m \in D : \A n \in D : ~ (<<n, m>> \in R)
  <2> HIDE DEF D
  <2> QED BY <1>1, NatLessThanWellFounded, WFMin
<1>3. ASSUME NEW n \in D, n < m PROVE <<n, m>> \in R
  BY <1>1, <1>3 DEF OpToRel
<1>4. \A n \in D : m <= n
  <2>1. \A n \in D : ~ (n < m)
    BY <1>2, <1>3
  <2> QED BY <1>1, <2>1, SMTT(20)
<1>5. \E t \in S : \A u \in S : Order[t] <= Order[u]
  BY <1>4
<1> QED BY <1>5 DEF Oldest

\* And a newest.
LEMMA NewestThere ==
  ASSUME NEW S \in SUBSET Targets, IsFiniteSet(S), S # {}
  PROVE  \E last \in S : \A t \in S : Order[t] <= Order[last]
<1> DEFINE Later(t) == {u \in S : Order[t] < Order[u]}
           Family == {Later(t) : t \in S}
<1>1. Family \in SUBSET FiniteSubsetsOf(S) /\ Family # {}
  <2>1. ASSUME NEW t \in S PROVE Later(t) \in SUBSET S /\ IsFiniteSet(Later(t))
    <3>1. Later(t) \in SUBSET S
      OBVIOUS
    <3> HIDE DEF Later
    <3> QED BY <3>1, FS_Subset
  <2> HIDE DEF Later
  <2> QED BY <2>1 DEF FiniteSubsetsOf
<1>2. PICK last \in S : \A t \in S : <<Later(t), Later(last)>> \notin StrictSubsetOrdering(S)
  <2>1. \E A \in Family : \A B \in Family : <<B, A>> \notin StrictSubsetOrdering(S)
    <3> HIDE DEF Family
    <3> QED BY <1>1, FS_StrictSubsetOrderingWellFounded, WFMin
  <2> QED BY <2>1
<1>3. \A t \in S : Order[t] \in Nat
  BY TraceAssumption
<1>4. ASSUME NEW t \in S, Order[last] < Order[t] PROVE FALSE
  <2>1. Later(t) \subseteq Later(last) /\ t \in Later(last) /\ t \notin Later(t)
    BY <1>3, <1>4
  <2> QED BY <1>2, <2>1 DEF StrictSubsetOrdering
<1> QED BY <1>3, <1>4

\* LIMIT: of any pending traces a batch takes no more than it may.
LEMMA FirstBounded ==
  ASSUME NEW S \in SUBSET Targets, IsFiniteSet(S), NEW n \in Nat
  PROVE  First(S, n) \subseteq S /\ Cardinality(First(S, n)) <= n
<1> DEFINE F == First(S, n)
<1>1. F \in SUBSET S /\ IsFiniteSet(F)
  BY FS_Subset DEF First
<1>2. F = {} => Cardinality(F) <= n
  <2> HIDE DEF F
  <2> QED BY FS_EmptySet
<1>3. ASSUME F # {} PROVE Cardinality(F) <= n
  <2>2. PICK last \in F : \A t \in F : Order[t] <= Order[last]
    <3>1. F \in SUBSET Targets
      BY <1>1
    <3> HIDE DEF F
    <3> QED BY <1>1, <1>3, <3>1, NewestThere
  <2> DEFINE B == {u \in S : Order[u] < Order[last]}
  <2>3. Cardinality(B) < n
    BY <2>2 DEF First
  <2>4. F \ {last} \in SUBSET B
    BY <1>1, <2>2, TraceAssumption
  <2>5. IsFiniteSet(B) /\ Cardinality(B) \in Nat
    BY FS_Subset, FS_CardinalityType
  <2> HIDE DEF F, B
  <2>6. Cardinality(F \ {last}) = Cardinality(F) - 1 /\ Cardinality(F) \in Nat
    BY <1>1, <2>2, FS_RemoveElement, FS_CardinalityType
  <2>7. Cardinality(F \ {last}) <= Cardinality(B) /\ Cardinality(F \ {last}) \in Nat
    BY <1>1, <2>4, <2>5, FS_Subset, FS_RemoveElement, FS_CardinalityType
  <2>8. Cardinality(F) <= n
    BY <2>3, <2>5, <2>6, <2>7
  <2> QED BY <2>8
<1>4. Cardinality(F) <= n
  BY <1>2, <1>3
<1> HIDE DEF F
<1>5. F \subseteq S /\ Cardinality(F) <= n
  BY <1>1, <1>4
<1> QED BY <1>5 DEF F

\* The state of a batch that has moved on is in its range, and what it wrote is kept.
LEMMA AdvanceDoes ==
  ASSUME NEW b \in RunRange, NEW t \in b.todo
  PROVE  /\ Advance(b, t) \in RunRange
         /\ Advance(b, t).pc = "trace" /\ Advance(b, t).wrote = b.wrote
         /\ Advance(b, t).todo = b.todo \ {t} /\ Advance(b, t).left = b.left
         /\ b.todo # {t} => Advance(b, t).rule = b.rule
<1>1. CASE b.todo = {t}
  <2>1. 0 \in 0 .. MaxEscalations /\ {} \in SUBSET Targets
    BY TraceAssumption
  <2>2. (b.broke /\ b.left \cap Judges # {}) \in BOOLEAN
    OBVIOUS
  <2>3. Resting.rule \in Rules \cup {Resting.rule}
    OBVIOUS
  <2>4. Advance(b, t) = [b EXCEPT !.pc = "trace", !.todo = {}, !.rule = Resting.rule, !.taken = 0,
                                  !.broke = @ /\ b.left \cap Judges # {}]
    BY <1>1 DEF Advance
  <2> QED BY <1>1, <2>1, <2>2, <2>3, <2>4 DEF RunRange
<1>2. CASE b.todo # {t}
  <2>1. b.todo \ {t} \in SUBSET Targets
    BY DEF RunRange
  <2>2. Advance(b, t) = [b EXCEPT !.pc = "trace", !.todo = @ \ {t}]
    BY <1>2 DEF Advance
  <2> QED BY <1>2, <2>1, <2>2 DEF RunRange
<1> QED BY <1>1, <1>2

\* Every decision is a verdict.
LEMMA DecisionRange ==
  ASSUME NEW w \in Writers, NEW t \in Targets
  PROVE  Decision(w, t) \in Verdicts
BY DEF Decision, Trajectory, Verdicts

\* A batch at rest has written nothing.
LEMMA RestingRange == Resting \in RunRange /\ Resting.pc = "out" /\ Resting.todo = {}
                      /\ Resting.wrote = NothingWritten
<1>1. NothingWritten \in [Targets -> [Rules -> Verdicts \cup {"none"}]] /\ 0 \in 0 .. MaxEscalations
  BY TraceAssumption DEF NothingWritten
<1> QED BY <1>1 DEF Resting, RunRange

\* What is known of a batch that does not move, while traces are only added.
LEMMA StaysBatch ==
  ASSUME NEW q \in Writers, BatchOK(q), run'[q] = run[q], stored \subseteq stored'
  PROVE  BatchOK(q)'
BY DEF BatchOK

\* A step that moves no batch's writes, locks or the tables keeps what is known of them.
LEMMA NothingWrittenKeeps ==
  ASSUME OnlineInv, UNCHANGED <<queueVars, verdict>>, NEW w \in Writers, NEW b \in RunRange,
         run' = [run EXCEPT ![w] = b], b.wrote = run[w].wrote, run[w].pc # "enqueue"
  PROVE  /\ run' \in [Writers -> RunRange] /\ QueueMirrorsFailures'
         /\ \A q \in Writers : run'[q].wrote = run[q].wrote
         /\ \A q \in Writers : (Undecided(q) /\ FailuresHeld(q) /\ HeldFails(q))'
<1>0. run \in [Writers -> RunRange] /\ item' = item /\ holder' = holder
  BY DEF OnlineInv, OnlineRanges, queueVars
<1>1. run' \in [Writers -> RunRange] /\ run'[w] = b /\ \A q \in Writers \ {w} : run'[q] = run[q]
  BY <1>0
<1>2. \A q \in Writers : run'[q].wrote = run[q].wrote
  BY <1>1
<1>3. ASSUME NEW q \in Writers PROVE (Undecided(q) /\ FailuresHeld(q) /\ HeldFails(q))'
  <2>1. Undecided(q) /\ FailuresHeld(q) /\ HeldFails(q)
    BY DEF OnlineInv
  <2>2. Undecided(q)'
    BY <1>2, <2>1 DEF Undecided
  <2>3. run[q].pc = "enqueue" => run'[q] = run[q]
    BY <1>1
  <2>4. FailuresHeld(q)'
    BY <1>0, <1>2, <2>1, <2>3 DEF FailuresHeld
  <2>5. HeldFails(q)'
    BY <1>0, <1>2, <2>1 DEF HeldFails
  <2> QED BY <2>2, <2>4, <2>5
<1>4. QueueMirrorsFailures'
  BY <1>0 DEF OnlineInv, QueueMirrorsFailures
<1> QED BY <1>1, <1>2, <1>3, <1>4

\* The queue's ranges, while it is not touched.
LEMMA QueueStill == QueueTypeOK /\ UNCHANGED queueVars => QueueTypeOK'
BY DEF QueueTypeOK, queueVars

\* An ingested trace has no decision and no item, and changes nothing else.
LEMMA IngestOK ==
  ASSUME OnlineInv, NEW t \in Targets, Ingest(t)
  PROVE  OnlineInv'
<1>1. /\ stored' = stored \cup {t}
      /\ item' = item /\ holder' = holder /\ tx' = tx
      /\ verdict' = verdict /\ run' = run /\ crashes' = crashes
  BY DEF Ingest, queueVars
<1>2. IsFiniteSet(stored')
  BY <1>1, FS_AddElement DEF OnlineInv, OnlineRanges
<1>3. OnlineRanges'
  BY <1>1, <1>2, QueueStill DEF OnlineInv, OnlineRanges, queueVars
<1>4. \A w \in Writers : BatchOK(w)'
  BY <1>1, StaysBatch DEF OnlineInv
<1>5. \A w \in Writers : (Undecided(w) /\ FailuresHeld(w) /\ HeldFails(w))'
  BY <1>1 DEF OnlineInv, Undecided, FailuresHeld, HeldFails
<1>6. QueueMirrorsFailures'
  BY <1>1 DEF OnlineInv, QueueMirrorsFailures
<1> QED BY <1>3, <1>4, <1>5, <1>6 DEF OnlineInv

\* A batch that begins has nothing at hand.
LEMMA StartRunOK ==
  ASSUME OnlineInv, NEW w \in Writers, StartRun(w)
  PROVE  OnlineInv'
<1>0. run \in [Writers -> RunRange] /\ BatchOK(w)
  BY DEF OnlineInv, OnlineRanges
<1>1. PICK broke \in Exhausted :
        run' = [run EXCEPT ![w] = [Resting EXCEPT !.pc = "trace", !.left = Rules, !.broke = broke]]
  BY DEF StartRun, Update
<1> DEFINE b == [Resting EXCEPT !.pc = "trace", !.left = Rules, !.broke = broke]
<1>2. /\ UNCHANGED <<queueVars, verdict>> /\ stored' = stored /\ crashes' = crashes
      /\ run[w].pc = "out"
  BY DEF StartRun
<1>3. broke \in BOOLEAN
  BY RuleAssumption
<1>4. b \in RunRange /\ b.wrote = NothingWritten /\ b.todo = {} /\ b.pc = "trace"
  BY <1>3, RestingRange DEF RunRange
<1> HIDE DEF b
<1>5. b.wrote = run[w].wrote
  BY <1>0, <1>2, <1>4 DEF BatchOK
<1>6. /\ run' \in [Writers -> RunRange] /\ QueueMirrorsFailures'
      /\ \A q \in Writers : (Undecided(q) /\ FailuresHeld(q) /\ HeldFails(q))'
  BY <1>1, <1>2, <1>4, <1>5, NothingWrittenKeeps DEF b
<1>7. run'[w] = b /\ \A q \in Writers \ {w} : run'[q] = run[q]
  BY <1>0, <1>1 DEF b
<1>8. \A q \in Writers : BatchOK(q)'
  <2>1. BatchOK(w)'
    <3>1. Cardinality({}) <= Limit
      BY FS_EmptySet, TraceAssumption
    <3>2. \A t \in Targets, r \in Rules : b.wrote[t][r] = "none"
      BY <1>4 DEF NothingWritten
    <3> QED BY <1>4, <1>7, <3>1, <3>2 DEF BatchOK
  <2>2. \A q \in Writers \ {w} : BatchOK(q)'
    BY <1>2, <1>7, StaysBatch DEF OnlineInv
  <2> QED BY <2>1, <2>2
<1>9. OnlineRanges'
  BY <1>2, <1>6, QueueStill DEF OnlineInv, OnlineRanges, queueVars
<1> QED BY <1>6, <1>8, <1>9 DEF OnlineInv

\* A batch takes a rule's first pending traces, which are stored and no more than Limit.
LEMMA NextRuleOK ==
  ASSUME OnlineInv, NEW w \in Writers, NextRule(w)
  PROVE  OnlineInv'
<1>0. run \in [Writers -> RunRange] /\ BatchOK(w) /\ stored \subseteq Targets /\ IsFiniteSet(stored)
  BY DEF OnlineInv, OnlineRanges
<1>1. PICK r \in run[w].left :
        run' = [run EXCEPT ![w] = [run[w] EXCEPT !.rule = r, !.left = @ \ {r}, !.taken = 0,
                                                 !.todo = First(PendingTraces(r), Limit)]]
  BY DEF NextRule, Update
<1> DEFINE batch == First(PendingTraces(r), Limit)
           b == [run[w] EXCEPT !.rule = r, !.left = @ \ {r}, !.taken = 0, !.todo = batch]
<1>2. /\ UNCHANGED <<queueVars, verdict>> /\ stored' = stored /\ crashes' = crashes
      /\ run[w].pc = "trace"
  BY DEF NextRule
<1>3. batch \subseteq stored /\ Cardinality(batch) <= Limit
  <2>1. PendingTraces(r) \in SUBSET stored
    BY DEF PendingTraces
  <2>2. PendingTraces(r) \in SUBSET Targets /\ IsFiniteSet(PendingTraces(r))
    BY <1>0, <2>1, FS_Subset
  <2> QED BY <2>1, <2>2, FirstBounded, TraceAssumption
<1>4. r \in Rules
  BY <1>0 DEF RunRange
<1> HIDE DEF batch
<1>5. b \in RunRange /\ b.wrote = run[w].wrote /\ b.todo = batch /\ b.pc = "trace" /\ b.rule = r
      /\ b.left = run[w].left \ {r}
  <2>1. run[w] \in RunRange /\ 0 \in 0 .. MaxEscalations
    BY <1>0, TraceAssumption
  <2>2. batch \in SUBSET Targets
    BY <1>0, <1>3
  <2> QED BY <1>2, <1>4, <2>1, <2>2 DEF RunRange
<1>6. run' = [run EXCEPT ![w] = b]
  BY <1>1 DEF batch
<1> HIDE DEF b
<1>7. /\ run' \in [Writers -> RunRange] /\ QueueMirrorsFailures'
      /\ \A q \in Writers : (Undecided(q) /\ FailuresHeld(q) /\ HeldFails(q))'
  BY <1>2, <1>5, <1>6, NothingWrittenKeeps
<1>8. run'[w] = b /\ \A q \in Writers \ {w} : run'[q] = run[q]
  BY <1>0, <1>6
<1>9. \A q \in Writers : BatchOK(q)'
  <2>1. BatchOK(w)'
    <3>1. \A t \in Targets, s \in Rules : b.wrote[t][s] # "none" => s \notin run[w].left
      BY <1>0, <1>5 DEF BatchOK
    <3>2. batch \subseteq stored' /\ r \in Rules \ b.left /\ r \in run[w].left
      BY <1>2, <1>3, <1>4, <1>5
    <3> QED BY <1>3, <1>5, <1>8, <3>1, <3>2 DEF BatchOK
  <2>2. \A q \in Writers \ {w} : BatchOK(q)'
    BY <1>2, <1>8, StaysBatch DEF OnlineInv
  <2> QED BY <2>1, <2>2
<1>10. OnlineRanges'
  BY <1>2, <1>7, QueueStill DEF OnlineInv, OnlineRanges, queueVars
<1> QED BY <1>7, <1>9, <1>10 DEF OnlineInv

\* What a decision leaves of the batch: it is recorded in its place, or nothing is.
LEMMA ApplyDoes ==
  ASSUME OnlineInv, NEW w \in Writers, Apply(w)
  PROVE  \E b \in RunRange, t \in run[w].todo, v \in Verdicts \cup {"none"} :
           /\ t = Oldest(run[w].todo) /\ t \in Targets /\ run[w].rule \in Rules
           /\ run' = [run EXCEPT ![w] = b] /\ run[w].pc = "trace" /\ WritersOf(w, t) = {}
           /\ \A u \in Targets, s \in Rules :
                b.wrote[u][s] = IF u = t /\ s = run[w].rule THEN v ELSE run[w].wrote[u][s]
           /\ v # "none" => verdict[t][run[w].rule] = "none"
           /\ b.left = run[w].left
           /\ \/ v = "fail" /\ b.pc = "enqueue" /\ b.todo = run[w].todo /\ b.rule = run[w].rule
              \/ /\ v # "fail" /\ b.pc = "trace" /\ b.todo = run[w].todo \ {t}
                 /\ b.todo # {} => b.rule = run[w].rule
<1> DEFINE P(b, t, v) ==
             /\ t = Oldest(run[w].todo) /\ t \in Targets /\ run[w].rule \in Rules
             /\ run' = [run EXCEPT ![w] = b] /\ run[w].pc = "trace" /\ WritersOf(w, t) = {}
             /\ \A u \in Targets, s \in Rules :
                  b.wrote[u][s] = IF u = t /\ s = run[w].rule THEN v ELSE run[w].wrote[u][s]
             /\ v # "none" => verdict[t][run[w].rule] = "none"
             /\ b.left = run[w].left
             /\ \/ v = "fail" /\ b.pc = "enqueue" /\ b.todo = run[w].todo /\ b.rule = run[w].rule
                \/ /\ v # "fail" /\ b.pc = "trace" /\ b.todo = run[w].todo \ {t}
                   /\ b.todo # {} => b.rule = run[w].rule
<1> SUFFICES \E b \in RunRange, t \in run[w].todo, v \in Verdicts \cup {"none"} : P(b, t, v)
  OBVIOUS
<1> HIDE DEF P
<1> DEFINE a == run[w]
           t == Oldest(a.todo)
           r == a.rule
<1>0. /\ run \in [Writers -> RunRange] /\ BatchOK(w) /\ stored \subseteq Targets /\ IsFiniteSet(stored)
      /\ a \in RunRange /\ a.todo # {} /\ a.pc = "trace" /\ WritersOf(w, t) = {}
  BY DEF OnlineInv, OnlineRanges, Apply
<1>1. t \in a.todo /\ t \in Targets /\ r \in Rules
  <2>1. a.todo \in SUBSET Targets /\ IsFiniteSet(a.todo) /\ r \in Rules
    BY <1>0, FS_Subset DEF BatchOK
  <2> QED BY <1>0, <2>1, OldestThere
<1>2. a.wrote \in [Targets -> [Rules -> Verdicts \cup {"none"}]] /\ a.wrote[t][r] = "none"
  BY <1>0, <1>1 DEF BatchOK, RunRange
<1> DEFINE written == Recorded(w, t) /\ ~Lost(w, t)
           v == IF written THEN Decision(w, t) ELSE a.wrote[t][r]
           taken == IF Escalates(w, t) THEN a.taken + 1 ELSE a.taken
           wrote == [a.wrote EXCEPT ![t] = [@ EXCEPT ![r] = v]]
           after == [a EXCEPT !.taken = taken, !.wrote = wrote]
           b == IF written /\ Decision(w, t) = "fail" THEN [after EXCEPT !.pc = "enqueue"]
                ELSE Advance(after, t)
<1>3. run' = [run EXCEPT ![w] = b]
  <2>1. after = [a EXCEPT !.taken = IF Escalates(w, t) THEN @ + 1 ELSE @,
                          !.wrote[t][a.rule] = IF written THEN Decision(w, t) ELSE @]
    BY <1>0, <1>1, <1>2 DEF RunRange
  <2> HIDE DEF after
  <2> QED BY <2>1 DEF Apply, Update
<1>4. v \in Verdicts \cup {"none"} /\ (v # "none" => verdict[t][r] = "none" /\ v = Decision(w, t))
      /\ (v = "fail" <=> written /\ Decision(w, t) = "fail")
  <2>1. Decision(w, t) \in Verdicts
    BY <1>1, DecisionRange
  <2>2. "none" \notin Verdicts /\ "none" # "fail"
    BY DEF Verdicts
  <2>3. written => verdict[t][r] = "none"
    BY DEF Lost
  <2> QED BY <1>2, <2>1, <2>2, <2>3
<1>5. taken \in 0 .. MaxEscalations
  BY <1>0, TraceAssumption DEF Escalates, RunRange
<1> HIDE DEF v, taken
<1>6. /\ wrote \in [Targets -> [Rules -> Verdicts \cup {"none"}]]
      /\ \A u \in Targets, s \in Rules : wrote[u][s] = IF u = t /\ s = r THEN v ELSE a.wrote[u][s]
  BY <1>1, <1>2, <1>4
<1> HIDE DEF wrote
<1>7. after \in RunRange /\ after.wrote = wrote /\ after.todo = a.todo /\ after.rule = a.rule
      /\ after.left = a.left
  BY <1>0, <1>5, <1>6 DEF RunRange
<1> HIDE DEF after
<1>8. CASE v = "fail"
  <2>1. b = [after EXCEPT !.pc = "enqueue"]
    BY <1>4, <1>8
  <2>2. b \in RunRange /\ b.pc = "enqueue" /\ b.wrote = wrote /\ b.todo = a.todo /\ b.rule = r
        /\ b.left = a.left
    BY <1>7, <2>1 DEF RunRange
  <2> HIDE DEF b
  <2>3. P(b, t, v)
    BY <1>0, <1>1, <1>3, <1>4, <1>6, <1>8, <2>2 DEF P
  <2> HIDE DEF t
  <2> QED BY <1>1, <1>4, <2>2, <2>3
<1>9. CASE v # "fail"
  <2>1. b = Advance(after, t)
    BY <1>4, <1>9
  <2>2. b \in RunRange /\ b.pc = "trace" /\ b.wrote = wrote /\ b.todo = a.todo \ {t}
        /\ (b.todo # {} => b.rule = r) /\ b.left = a.left
    <3>1. t \in after.todo
      BY <1>1, <1>7
    <3> HIDE DEF b, t
    <3>2. /\ b \in RunRange /\ b.pc = "trace" /\ b.wrote = after.wrote /\ b.left = after.left
          /\ b.todo = after.todo \ {t} /\ (after.todo # {t} => b.rule = after.rule)
      BY <1>7, <2>1, <3>1, AdvanceDoes
    <3> QED BY <1>7, <3>2
  <2> HIDE DEF b
  <2>3. P(b, t, v)
    BY <1>0, <1>1, <1>3, <1>4, <1>6, <1>9, <2>2 DEF P
  <2> HIDE DEF t
  <2> QED BY <1>1, <1>4, <2>2, <2>3
<1> QED BY <1>8, <1>9

\* A decision is recorded only where nobody has recorded one, and a failure is to be queued.
LEMMA ApplyOK ==
  ASSUME OnlineInv, NEW w \in Writers, Apply(w)
  PROVE  OnlineInv'
<1>1. PICK b \in RunRange, t \in run[w].todo, v \in Verdicts \cup {"none"} :
           /\ t = Oldest(run[w].todo) /\ t \in Targets /\ run[w].rule \in Rules
           /\ run' = [run EXCEPT ![w] = b] /\ run[w].pc = "trace" /\ WritersOf(w, t) = {}
           /\ \A u \in Targets, s \in Rules :
                b.wrote[u][s] = IF u = t /\ s = run[w].rule THEN v ELSE run[w].wrote[u][s]
           /\ v # "none" => verdict[t][run[w].rule] = "none"
           /\ b.left = run[w].left
           /\ \/ v = "fail" /\ b.pc = "enqueue" /\ b.todo = run[w].todo /\ b.rule = run[w].rule
              \/ /\ v # "fail" /\ b.pc = "trace" /\ b.todo = run[w].todo \ {t}
                 /\ b.todo # {} => b.rule = run[w].rule
  BY ApplyDoes
<1> DEFINE r == run[w].rule
<1>2. /\ item' = item /\ holder' = holder /\ verdict' = verdict /\ stored' = stored
      /\ crashes' = crashes /\ UNCHANGED queueVars
  BY DEF Apply, queueVars
<1>3. run \in [Writers -> RunRange] /\ IsFiniteSet(stored) /\ stored \subseteq Targets /\ BatchOK(w)
  BY DEF OnlineInv, OnlineRanges
<1>4. /\ run' \in [Writers -> RunRange] /\ run'[w] = b
      /\ \A q \in Writers \ {w} : run'[q] = run[q]
  BY <1>1, <1>3
<1>5. run[w].wrote[t][r] = "none" /\ \A q \in Writers \ {w} : run[q].wrote[t][r] = "none"
  BY <1>1, <1>3 DEF BatchOK, WritersOf
<1>6. BatchOK(w)'
  <2>1. IsFiniteSet(run[w].todo) /\ Cardinality(run[w].todo) <= Limit /\ run[w].todo \subseteq stored
        /\ r \in Rules \ run[w].left
    BY <1>1, <1>3, FS_Subset DEF BatchOK
  <2>2. \A u \in Targets, s \in Rules : b.wrote[u][s] # "none" =>
          s \notin b.left /\ (s = r /\ u \in run[w].todo => u = t)
    BY <1>1, <1>3, <2>1 DEF BatchOK
  <2>3. CASE v = "fail"
    <3>1. b.wrote[t][r] = "fail" /\ b.todo = run[w].todo /\ b.rule = r /\ b.pc = "enqueue"
          /\ b.left = run[w].left /\ b.todo # {} /\ t = Oldest(b.todo)
      BY <1>1, <2>3
    <3> QED BY <1>2, <1>4, <2>1, <2>2, <3>1 DEF BatchOK
  <2>4. CASE v # "fail"
    <3>1. b.todo = run[w].todo \ {t} /\ b.pc = "trace" /\ (b.todo # {} => b.rule = r)
          /\ b.left = run[w].left
      BY <1>1, <2>4
    <3>2. Cardinality(b.todo) <= Limit
      <4>1. /\ Cardinality(run[w].todo) \in Nat /\ Cardinality(run[w].todo \ {t}) \in Nat
            /\ Cardinality(run[w].todo \ {t}) <= Cardinality(run[w].todo)
        BY <2>1, FS_Subset, FS_RemoveElement, FS_CardinalityType
      <4>2. Limit \in Nat
        BY TraceAssumption
      <4> QED BY <2>1, <3>1, <4>1, <4>2
    <3> QED BY <1>2, <1>4, <2>1, <2>2, <3>1, <3>2 DEF BatchOK
  <2> QED BY <2>3, <2>4
<1>7. ASSUME NEW q \in Writers \ {w} PROVE (BatchOK(q) /\ FailuresHeld(q) /\ HeldFails(q))'
  <2>1. run'[q] = run[q] /\ BatchOK(q) /\ FailuresHeld(q) /\ HeldFails(q)
    BY <1>4 DEF OnlineInv
  <2> QED BY <1>2, <2>1, StaysBatch DEF FailuresHeld, HeldFails
<1>8. ASSUME NEW q \in Writers PROVE Undecided(q)'
  <2> SUFFICES ASSUME NEW u \in Targets, NEW s \in Rules, run'[q].wrote[u][s] # "none"
               PROVE  verdict[u][s] = "none" /\ \A p \in Writers \ {q} : run'[p].wrote[u][s] = "none"
    BY <1>2 DEF Undecided
  <2>1. CASE u = t /\ s = r
    BY <1>1, <1>4, <1>5, <2>1
  <2>2. CASE ~(u = t /\ s = r)
    <3>1. \A p \in Writers : run'[p].wrote[u][s] = run[p].wrote[u][s]
      BY <1>1, <1>4, <2>2
    <3> QED BY <3>1 DEF OnlineInv, Undecided
  <2> QED BY <2>1, <2>2
<1>9. FailuresHeld(w)'
  <2> SUFFICES ASSUME NEW u \in Targets, NEW s \in Rules, b.wrote[u][s] = "fail"
               PROVE  \/ holder[u] = w \/ item[u].status # "none"
                      \/ b.pc = "enqueue" /\ u = Oldest(b.todo) /\ s = b.rule
    BY <1>2, <1>4 DEF FailuresHeld
  <2>1. CASE u = t /\ s = r
    BY <1>1, <2>1
  <2>2. CASE ~(u = t /\ s = r)
    BY <1>1, <2>2 DEF OnlineInv, FailuresHeld
  <2> QED BY <2>1, <2>2
<1>10. HeldFails(w)'
  <2> SUFFICES ASSUME NEW u \in Targets, holder[u] = w
               PROVE  item[u].status = "none" /\ \E s \in Rules : b.wrote[u][s] = "fail"
    BY <1>2, <1>4 DEF HeldFails
  <2>1. item[u].status = "none" /\ \E s \in Rules : run[w].wrote[u][s] = "fail"
    BY DEF OnlineInv, HeldFails
  <2> QED BY <1>1, <1>5, <2>1
<1>11. QueueMirrorsFailures'
  BY <1>2 DEF OnlineInv, QueueMirrorsFailures
<1>12. OnlineRanges'
  BY <1>2, <1>4, QueueStill DEF OnlineInv, OnlineRanges
<1> QED BY <1>6, <1>7, <1>8, <1>9, <1>10, <1>11, <1>12 DEF OnlineInv

\* The failure a batch has just recorded is in the queue, in its own hands or stored already.
LEMMA EnqueueOK ==
  ASSUME OnlineInv, NEW w \in Writers, Enqueue(w)
  PROVE  OnlineInv'
<1> DEFINE t == Oldest(run[w].todo)
           r == run[w].rule
           b == Advance(run[w], t)
<1>1. /\ run[w].pc = "enqueue" /\ Queueable(w, t)
      /\ holder' = IF Inserts(t) THEN [holder EXCEPT ![t] = w] ELSE holder
      /\ run' = [run EXCEPT ![w] = b]
      /\ item' = item /\ tx' = tx /\ stored' = stored /\ verdict' = verdict /\ crashes' = crashes
  BY DEF Enqueue, Update
<1>2. /\ run \in [Writers -> RunRange] /\ BatchOK(w) /\ stored \subseteq Targets /\ IsFiniteSet(stored)
      /\ QueueTypeOK /\ \A u \in Targets : holder[u] \in Writers \cup {Nobody}
  BY DEF OnlineInv, OnlineRanges
<1>3. /\ run[w].todo \in SUBSET Targets /\ IsFiniteSet(run[w].todo)
      /\ run[w].todo \subseteq stored /\ Cardinality(run[w].todo) <= Limit
      /\ r \in Rules \ run[w].left
      /\ run[w].todo # {} /\ run[w].wrote[t][r] = "fail"
  BY <1>1, <1>2, FS_Subset DEF BatchOK
<1>4. t \in run[w].todo /\ t \in Targets
  BY <1>3, OldestThere
<1>5. /\ b \in RunRange /\ b.pc = "trace" /\ b.wrote = run[w].wrote /\ b.left = run[w].left
      /\ b.todo = run[w].todo \ {t} /\ (run[w].todo # {t} => b.rule = r)
  BY <1>2, <1>4, AdvanceDoes
<1>6. \A u \in Targets, s \in Rules : run[w].wrote[u][s] # "none" =>
        s \notin run[w].left /\ (s = r /\ u \in run[w].todo => u = t)
  BY <1>2 DEF BatchOK
<1> HIDE DEF b, t
<1>7. /\ run' \in [Writers -> RunRange] /\ run'[w] = b
      /\ \A q \in Writers \ {w} : run'[q] = run[q]
      /\ \A q \in Writers : run'[q].wrote = run[q].wrote
  BY <1>1, <1>2, <1>5
<1>8. BatchOK(w)'
  <2>1. Cardinality(b.todo) <= Limit
    <3>1. /\ Cardinality(run[w].todo) \in Nat /\ Cardinality(run[w].todo \ {t}) \in Nat
          /\ Cardinality(run[w].todo \ {t}) <= Cardinality(run[w].todo)
      BY <1>3, FS_Subset, FS_RemoveElement, FS_CardinalityType
    <3>2. Limit \in Nat
      BY TraceAssumption
    <3> QED BY <1>3, <1>5, <3>1, <3>2
  <2>2. b.todo \subseteq stored' /\ (b.todo # {} => b.rule = r) /\ r \in Rules \ b.left
    BY <1>1, <1>3, <1>5
  <2>3. \A u \in Targets, s \in Rules : b.wrote[u][s] # "none" =>
          s \notin b.left /\ ~(s = b.rule /\ u \in b.todo)
    BY <1>5, <1>6, <2>2
  <2> QED BY <1>5, <1>7, <2>1, <2>2, <2>3 DEF BatchOK
<1>9. /\ \A u \in Targets \ {t} : holder'[u] = holder[u]
      /\ \A u \in Targets : holder'[u] \in {holder[u], w}
      /\ \A u \in Targets : holder[u] \in Writers => holder'[u] = holder[u]
      /\ holder' \in [Targets -> Actors \cup Writers \cup {Nobody}]
  BY <1>1, <1>2, <1>4, ActorAssumption DEF QueueTypeOK, Inserts
<1>10. \A q \in Writers \ {w} : BatchOK(q)'
  BY <1>1, <1>7, StaysBatch DEF OnlineInv
<1>11. \A q \in Writers : Undecided(q)'
  BY <1>1, <1>7 DEF OnlineInv, Undecided
<1>12. ASSUME NEW q \in Writers PROVE FailuresHeld(q)'
  <2> SUFFICES ASSUME NEW u \in Targets, NEW s \in Rules, run[q].wrote[u][s] = "fail"
               PROVE  \/ holder'[u] = q \/ item[u].status # "none"
                      \/ run'[q].pc = "enqueue" /\ u = Oldest(run'[q].todo) /\ s = run'[q].rule
    BY <1>1, <1>7 DEF FailuresHeld
  <2>1. \/ holder[u] = q \/ item[u].status # "none"
        \/ run[q].pc = "enqueue" /\ u = Oldest(run[q].todo) /\ s = run[q].rule
    BY DEF OnlineInv, FailuresHeld
  <2>2. CASE holder[u] = q \/ item[u].status # "none"
    BY <1>9, <2>2
  <2>3. CASE q # w
    BY <1>7, <1>9, <2>1, <2>3
  <2>4. CASE q = w /\ u = t
    BY <1>1, <1>2, <1>4, <2>4 DEF Queueable, Inserts, QueueTypeOK
  <2> QED BY <2>1, <2>2, <2>3, <2>4 DEF t
<1>13. ASSUME NEW q \in Writers PROVE HeldFails(q)'
  <2> SUFFICES ASSUME NEW u \in Targets, holder'[u] = q
               PROVE  item[u].status = "none" /\ \E s \in Rules : run[q].wrote[u][s] = "fail"
    BY <1>1, <1>7 DEF HeldFails
  <2>1. CASE holder[u] = q
    BY <2>1 DEF OnlineInv, HeldFails
  <2>2. CASE holder[u] # q
    BY <1>1, <1>3, <1>9, <2>2 DEF Inserts
  <2> QED BY <2>1, <2>2
<1>14. QueueMirrorsFailures'
  BY <1>1 DEF OnlineInv, QueueMirrorsFailures
<1>15. OnlineRanges'
  <2>1. QueueTypeOK'
    BY <1>1, <1>2, <1>9 DEF QueueTypeOK
  <2>2. \A u \in Targets : holder'[u] \in Writers \cup {Nobody}
    BY <1>2, <1>9
  <2> QED BY <1>1, <1>7, <2>1, <2>2 DEF OnlineInv, OnlineRanges
<1> QED BY <1>8, <1>10, <1>11, <1>12, <1>13, <1>14, <1>15 DEF OnlineInv

\* A batch that is over holds nothing, and what the others hold stays theirs.
LEMMA OverKeeps ==
  ASSUME OnlineInv, NEW w \in Writers, run' = [run EXCEPT ![w] = Resting],
         holder' = Unlocked(w), UNCHANGED <<tx, stored>>
  PROVE  /\ run' \in [Writers -> RunRange] /\ run'[w] = Resting
         /\ \A q \in Writers \ {w} : run'[q] = run[q]
         /\ \A q \in Writers : BatchOK(q)'
         /\ holder' \in [Targets -> Actors \cup Writers \cup {Nobody}]
         /\ \A u \in Targets : /\ holder'[u] \in Writers \cup {Nobody} /\ holder'[u] # w
                               /\ \A q \in Writers \ {w} : holder'[u] = q <=> holder[u] = q
<1>1. run \in [Writers -> RunRange] /\ QueueTypeOK /\ \A u \in Targets : holder[u] \in Writers \cup {Nobody}
  BY DEF OnlineInv, OnlineRanges
<1>2. /\ run' \in [Writers -> RunRange] /\ run'[w] = Resting
      /\ \A q \in Writers \ {w} : run'[q] = run[q]
  BY <1>1, RestingRange
<1>3. BatchOK(w)'
  <2>1. Cardinality({}) <= Limit
    BY FS_EmptySet, TraceAssumption
  <2>2. \A t \in Targets, r \in Rules : NothingWritten[t][r] = "none"
    BY DEF NothingWritten
  <2> QED BY <1>2, <2>1, <2>2, RestingRange DEF BatchOK
<1>4. \A q \in Writers \ {w} : BatchOK(q)'
  BY <1>2, StaysBatch DEF OnlineInv
<1>5. /\ holder' \in [Targets -> Actors \cup Writers \cup {Nobody}]
      /\ \A u \in Targets : /\ holder'[u] \in Writers \cup {Nobody} /\ holder'[u] # w
                            /\ \A q \in Writers \ {w} : holder'[u] = q <=> holder[u] = q
  BY <1>1, ActorAssumption DEF Unlocked, QueueTypeOK
<1> QED BY <1>2, <1>3, <1>4, <1>5

\* A batch that fails leaves the tables as they were.
LEMMA AbortRunOK ==
  ASSUME OnlineInv, NEW w \in Writers, AbortRun(w), crashes' \in 0 .. MaxCrashes
  PROVE  OnlineInv'
<1>1. /\ run' = [run EXCEPT ![w] = Resting] /\ holder' = Unlocked(w)
      /\ item' = item /\ tx' = tx /\ stored' = stored /\ verdict' = verdict
  BY DEF AbortRun, Update
<1>2. /\ run' \in [Writers -> RunRange] /\ run'[w] = Resting
      /\ \A q \in Writers \ {w} : run'[q] = run[q]
      /\ \A q \in Writers : BatchOK(q)'
      /\ holder' \in [Targets -> Actors \cup Writers \cup {Nobody}]
      /\ \A u \in Targets : /\ holder'[u] \in Writers \cup {Nobody} /\ holder'[u] # w
                            /\ \A q \in Writers \ {w} : holder'[u] = q <=> holder[u] = q
  BY <1>1, OverKeeps
<1>3. \A t \in Targets, r \in Rules : run'[w].wrote[t][r] = "none"
  BY <1>2, RestingRange DEF NothingWritten
<1>4. ASSUME NEW q \in Writers PROVE (Undecided(q) /\ FailuresHeld(q) /\ HeldFails(q))'
  <2>1. Undecided(q)'
    BY <1>1, <1>2, <1>3 DEF OnlineInv, Undecided
  <2>2. FailuresHeld(q)'
    BY <1>1, <1>2, <1>3 DEF OnlineInv, FailuresHeld
  <2>3. HeldFails(q)'
    BY <1>1, <1>2 DEF OnlineInv, HeldFails
  <2> QED BY <2>1, <2>2, <2>3
<1>5. QueueMirrorsFailures'
  BY <1>1 DEF OnlineInv, QueueMirrorsFailures
<1>6. QueueTypeOK'
  BY <1>1, <1>2 DEF OnlineInv, OnlineRanges, QueueTypeOK
<1>7. OnlineRanges'
  BY <1>1, <1>2, <1>6 DEF OnlineInv, OnlineRanges
<1> QED BY <1>2, <1>4, <1>5, <1>7 DEF OnlineInv

\* What a commit does: decisions where there were none, and an item per failure not queued yet.
LEMMA CommitRunDoes ==
  ASSUME OnlineInv, NEW w \in Writers, CommitRun(w), NEW t \in Targets
  PROVE  /\ \A r \in Rules : /\ run[w].wrote[t][r] = "none" => verdict'[t][r] = verdict[t][r]
                             /\ run[w].wrote[t][r] # "none" =>
                                  verdict[t][r] = "none" /\ verdict'[t][r] = run[w].wrote[t][r]
         /\ item'[t] = IF holder[t] = w THEN NewItem(Priority(t)) ELSE item[t]
         /\ NewItem(Priority(t)) \in ItemRange /\ NewItem(Priority(t)).status = "pending"
         /\ \A r \in Rules : run[w].wrote[t][r] = "fail" => holder[t] = w \/ item[t].status # "none"
<1>1. /\ verdict' = [u \in Targets |-> [r \in Rules |->
            IF run[w].wrote[u][r] # "none" THEN run[w].wrote[u][r] ELSE verdict[u][r]]]
      /\ item' = [u \in Targets |-> IF holder[u] = w THEN NewItem(Priority(u)) ELSE item[u]]
      /\ run[w].pc = "trace"
  BY DEF CommitRun
<1>2. Priority(t) \in Nat
  BY DEF Priority
<1>3. Undecided(w) /\ FailuresHeld(w)
  BY DEF OnlineInv
<1>4. \A r \in Rules : run[w].wrote[t][r] # "none" => verdict[t][r] = "none"
  BY <1>3 DEF Undecided
<1>5. \A r \in Rules : run[w].wrote[t][r] = "fail" => holder[t] = w \/ item[t].status # "none"
  BY <1>1, <1>3 DEF FailuresHeld
<1> QED BY <1>1, <1>2, <1>4, <1>5, NewItemType

\* A commit puts into the queue what it puts on record.
LEMMA CommitRunOK ==
  ASSUME OnlineInv, NEW w \in Writers, CommitRun(w)
  PROVE  OnlineInv'
<1>1. /\ run' = [run EXCEPT ![w] = Resting] /\ holder' = Unlocked(w)
      /\ tx' = tx /\ stored' = stored /\ crashes' = crashes
  BY DEF CommitRun, Update
<1>2. /\ run' \in [Writers -> RunRange] /\ run'[w] = Resting
      /\ \A q \in Writers \ {w} : run'[q] = run[q]
      /\ \A q \in Writers : BatchOK(q)'
      /\ holder' \in [Targets -> Actors \cup Writers \cup {Nobody}]
      /\ \A u \in Targets : /\ holder'[u] \in Writers \cup {Nobody} /\ holder'[u] # w
                            /\ \A q \in Writers \ {w} : holder'[u] = q <=> holder[u] = q
  BY <1>1, OverKeeps
<1>3. \A t \in Targets, r \in Rules : run'[w].wrote[t][r] = "none"
  BY <1>2, RestingRange DEF NothingWritten
<1>4. \A t \in Targets : item[t].status # "none" => item'[t].status # "none"
  BY CommitRunDoes
<1>5. ASSUME NEW q \in Writers PROVE (Undecided(q) /\ FailuresHeld(q) /\ HeldFails(q))'
  <2>1. Undecided(q)'
    <3> SUFFICES ASSUME NEW t \in Targets, NEW r \in Rules, run'[q].wrote[t][r] # "none"
                 PROVE  verdict'[t][r] = "none" /\ \A p \in Writers \ {q} : run'[p].wrote[t][r] = "none"
      BY DEF Undecided
    <3>1. q # w /\ run'[q] = run[q]
      BY <1>2, <1>3
    <3>2. verdict[t][r] = "none" /\ \A p \in Writers \ {q} : run[p].wrote[t][r] = "none"
      BY <3>1 DEF OnlineInv, Undecided
    <3> QED BY <1>2, <1>3, <3>1, <3>2, CommitRunDoes
  <2>2. FailuresHeld(q)'
    BY <1>2, <1>3, <1>4 DEF OnlineInv, FailuresHeld
  <2>3. HeldFails(q)'
    <3> SUFFICES ASSUME NEW t \in Targets, holder'[t] = q
                 PROVE  item'[t].status = "none" /\ \E r \in Rules : run'[q].wrote[t][r] = "fail"
      BY DEF HeldFails
    <3>1. q # w /\ holder[t] = q /\ run'[q] = run[q]
      BY <1>2
    <3> QED BY <3>1, CommitRunDoes DEF OnlineInv, HeldFails
  <2> QED BY <2>1, <2>2, <2>3
<1>6. ASSUME NEW t \in Targets
      PROVE  item'[t].status # "none" <=> \E r \in Rules : verdict'[t][r] = "fail"
  <2>1. item[t].status # "none" <=> \E r \in Rules : verdict[t][r] = "fail"
    BY DEF OnlineInv, QueueMirrorsFailures
  <2>2. holder[t] = w => \E r \in Rules : run[w].wrote[t][r] = "fail"
    BY DEF OnlineInv, HeldFails
  <2> QED BY <2>1, <2>2, CommitRunDoes
<1>7. QueueMirrorsFailures'
  BY <1>6 DEF QueueMirrorsFailures
<1>8. QueueTypeOK'
  <2>1. item' \in [Targets -> ItemRange]
    <3>1. \A t \in Targets : item'[t] \in ItemRange
      BY CommitRunDoes DEF OnlineInv, OnlineRanges, QueueTypeOK, ItemRange
    <3>2. item' = [u \in Targets |-> IF holder[u] = w THEN NewItem(Priority(u)) ELSE item[u]]
      BY DEF CommitRun
    <3> QED BY <3>1, <3>2
  <2> QED BY <1>1, <1>2, <2>1 DEF OnlineInv, OnlineRanges, QueueTypeOK, ItemRange
<1>9. verdict' \in [Targets -> [Rules -> Verdicts \cup {"none"}]]
  <2>1. /\ verdict \in [Targets -> [Rules -> Verdicts \cup {"none"}]]
        /\ run[w].wrote \in [Targets -> [Rules -> Verdicts \cup {"none"}]]
    BY DEF OnlineInv, OnlineRanges, RunRange
  <2> QED BY <2>1 DEF CommitRun
<1>10. OnlineRanges'
  BY <1>1, <1>2, <1>8, <1>9 DEF OnlineInv, OnlineRanges
<1> QED BY <1>2, <1>5, <1>7, <1>10 DEF OnlineInv

\* Nothing is decided and nothing queued.
LEMMA OnlineInit == Init => OnlineInv
<1> SUFFICES ASSUME Init PROVE OnlineInv
  OBVIOUS
<1>1. /\ stored = Early /\ verdict = NothingWritten /\ run = [w \in Writers |-> Resting]
      /\ crashes = 0 /\ QueueInit
  BY DEF Init
<1>2. /\ \A t \in Targets : item[t].status = "none" /\ holder[t] = Nobody
      /\ QueueTypeOK
  BY <1>1, TypeInit DEF QueueInit, NoItem
<1>3. \A t \in Targets, r \in Rules : NothingWritten[t][r] = "none"
  BY DEF NothingWritten
<1>4. OnlineRanges
  <2>1. NothingWritten \in [Targets -> [Rules -> Verdicts \cup {"none"}]] /\ crashes \in 0 .. MaxCrashes
    BY <1>1, TraceAssumption DEF NothingWritten
  <2> QED BY <1>1, <1>2, <2>1, RestingRange, RunnerAssumption, TraceAssumption DEF OnlineRanges
<1>5. ASSUME NEW w \in Writers PROVE BatchOK(w) /\ Undecided(w) /\ FailuresHeld(w) /\ HeldFails(w)
  <2>1. \A q \in Writers : run[q] = Resting
    BY <1>1
  <2>2. Cardinality({}) <= Limit
    BY FS_EmptySet, TraceAssumption
  <2>3. BatchOK(w)
    BY <1>3, <2>1, <2>2, RestingRange DEF BatchOK
  <2>4. Undecided(w) /\ FailuresHeld(w)
    BY <1>3, <2>1, RestingRange DEF Undecided, FailuresHeld
  <2>5. HeldFails(w)
    BY <1>2, ActorAssumption DEF HeldFails
  <2> QED BY <2>3, <2>4, <2>5
<1>6. QueueMirrorsFailures
  BY <1>1, <1>2, <1>3 DEF QueueMirrorsFailures
<1> QED BY <1>4, <1>5, <1>6 DEF OnlineInv

\* No step of a batch, of ingestion or of a failure breaks the invariant.
THEOREM OnlineInductive == OnlineInv /\ [Next]_vars => OnlineInv'
<1> SUFFICES ASSUME OnlineInv, [Next]_vars PROVE OnlineInv'
  OBVIOUS
<1>1. CASE UNCHANGED vars
  <2>1. /\ item' = item /\ holder' = holder /\ tx' = tx
        /\ stored' = stored /\ verdict' = verdict /\ run' = run /\ crashes' = crashes
    BY <1>1 DEF vars, queueVars
  <2>2. OnlineRanges'
    BY <2>1, QueueStill DEF OnlineInv, OnlineRanges, queueVars
  <2>3. \A w \in Writers : BatchOK(w)'
    BY <2>1, StaysBatch DEF OnlineInv
  <2> QED BY <2>1, <2>2, <2>3
       DEF OnlineInv, Undecided, FailuresHeld, HeldFails, QueueMirrorsFailures
<1>2. ASSUME NEW t \in Targets, Ingest(t) PROVE OnlineInv'
  BY <1>2, IngestOK
<1>3. ASSUME NEW w \in Writers, StartRun(w) \/ RunStep(w) PROVE OnlineInv'
  BY <1>3, StartRunOK, NextRuleOK, ApplyOK, EnqueueOK, CommitRunOK DEF RunStep
<1>4. ASSUME NEW w \in Writers, BreakDeadlock(w) PROVE OnlineInv'
  <2>1. crashes' \in 0 .. MaxCrashes
    BY <1>4 DEF BreakDeadlock, OnlineInv, OnlineRanges
  <2> QED BY <1>4, <2>1, AbortRunOK DEF BreakDeadlock
<1>5. CASE Crash
  <2>1. crashes' \in 0 .. MaxCrashes
    BY <1>5, TraceAssumption DEF Crash, OnlineInv, OnlineRanges
  <2> QED BY <1>5, <2>1, AbortRunOK DEF Crash
<1> QED BY <1>1, <1>2, <1>3, <1>4, <1>5 DEF Next

\* The invariant holds of every behaviour.
THEOREM OnlineInvariant == Spec => []OnlineInv
BY OnlineInit, OnlineInductive, PTL DEF Spec

\* Every variable stays in its range, and a batch takes no more traces for a rule than its
\* limit (LIMIT in run_batch), however many batches run.
THEOREM OnlineTypeCorrect == Spec => []TypeOK
<1>1. OnlineInv => TypeOK
  BY DEF OnlineInv, OnlineRanges, BatchOK, TypeOK, RunRange
<1> QED BY <1>1, OnlineInvariant, PTL

\* _apply, _write and _enqueue: a trace is in the review queue if and only if some rule has
\* recorded that it fails, for any rules, traces and batches, whichever overlap, deadlock or
\* roll back.
THEOREM QueueAlwaysMirrors == Spec => []QueueMirrorsFailures
<1>1. OnlineInv => QueueMirrorsFailures
  BY DEF OnlineInv
<1> QED BY <1>1, OnlineInvariant, PTL

\* "The unique constraint is the arbiter" (_write): a recorded decision is never replaced.
THEOREM VerdictsAreFinal == Spec => VerdictsFinal
<1>1. OnlineInv /\ [Next]_vars =>
        [\A t \in Targets, r \in Rules :
           verdict[t][r] # "none" => verdict'[t][r] = verdict[t][r]]_vars
  <2> SUFFICES ASSUME OnlineInv, [Next]_vars, NEW t \in Targets, NEW r \in Rules,
                      verdict[t][r] # "none"
               PROVE  verdict'[t][r] = verdict[t][r]
    OBVIOUS
  <2>1. CASE verdict' = verdict
    BY <2>1
  <2>2. ASSUME NEW w \in Writers, CommitRun(w) PROVE verdict'[t][r] = verdict[t][r]
    BY <2>2, CommitRunDoes
  <2> QED BY <2>1, <2>2 DEF Next, Ingest, StartRun, RunStep, NextRule, Apply, Enqueue,
       BreakDeadlock, Crash, AbortRun, vars
<1> QED BY <1>1, OnlineInvariant, PTL DEF Spec, VerdictsFinal
=============================================================================
