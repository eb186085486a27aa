-------------------------- MODULE SdkExporter_proofs --------------------------
(***************************************************************************)
(* The exporter, for any traces, callers, daemons, queue and batch sizes,  *)
(* retries and any number of flush() and shutdown() calls: a trace is in   *)
(* one place until it has one fate, the counters add up, no batch is given *)
(* up early before a shutdown, and a flush that waited and returned True   *)
(* left the queue empty.  And the recorder, for any tasks, any limit on    *)
(* the spans of a trace and whichever of its calls fail and are swallowed: *)
(* what it hands the exporter, and what a thread leaves behind.            *)
(***************************************************************************)
EXTENDS SdkExporter, Recorder, FiniteSetTheorems, SequenceTheorems, TLAPS

(***************************************************************************)
(* Where traces are.                                                       *)
(***************************************************************************)
Once(q) == \A i, j \in DOMAIN q : q[i] = q[j] /\ q[i] # Sentinel => i = j
Batched(t) == \E w \in Workers : t \in ToSet(batch[w])

\* A caller has a trace in hand while it is in submit(), and nobody else has it.
HandsOK ==
  /\ \A c \in Callers : sub[c].trace \in Traces <=> sub[c].pc # "out"
  /\ \A c, d \in Callers : sub[c].trace = sub[d].trace /\ sub[c].trace \in Traces => c = d

\* A trace is queued once, and in one batch once.
QueueOK == Once(queue)
BatchesOK ==
  /\ \A w \in Workers : Once(batch[w])
  /\ \A w, v \in Workers : w # v => ToSet(batch[w]) \cap ToSet(batch[v]) = {}

\* The pending traces are those in a hand, the queue or a batch, and in one of the three.
Apart ==
  \A t \in Traces : /\ ~(t \in InHand /\ t \in ToSet(queue))
                    /\ ~(t \in InHand /\ Batched(t))
                    /\ ~(t \in ToSet(queue) /\ Batched(t))
PendingOK ==
  \A t \in Traces : fate[t] = "pending" <=> t \in InHand \/ t \in ToSet(queue) \/ Batched(t)

Whereabouts == HandsOK /\ QueueOK /\ BatchesOK /\ Apart /\ PendingOK

(***************************************************************************)
(* Counters.                                                               *)
(***************************************************************************)
Counted == {t \in Traces : fate[t] \in {"delivered", "rejected"}}
Dropped == {t \in Traces : fate[t] = "dropped"}
SentinelsIn(q) == {i \in DOMAIN q : q[i] = Sentinel}

\* The sentinel a shutdown() under way has yet to put.
Owed == IF ctl.mode = "shutdown" /\ ctl.pc # "out" THEN 1 ELSE 0
Allowed == IF "shutdown" \in Modes THEN ctl.calls ELSE 0

\* Every failed post is counted before its batch is given up.
FailuresOK ==
  /\ \A w \in Workers : attempt[w] <= stats.failures
  /\ \A t \in Traces : fate[t] \in {"spooled", "unspooled"} => stats.failures >= MaxRetries
  /\ \A t \in Traces : fate[t] = "abandoned" => stats.failures > 0

\* Every shutdown() brings one sentinel at most, which eviction may count as a trace.
CountersOK ==
  /\ stats.exported = Cardinality(Counted)
  /\ stats.dropped >= Cardinality(Dropped)
  /\ stats.dropped + Cardinality(SentinelsIn(queue)) + Owed <= Cardinality(Dropped) + Allowed

(***************************************************************************)
(* The controlling thread.                                                 *)
(***************************************************************************)
\* Only a shutdown() takes the steps after its flush, and one that is under way is known.
ControlOK ==
  /\ ctl.pc # "out" => ctl.mode \in Modes
  /\ ctl.pc \in {"stop", "swap", "isalive", "wake"} => ctl.mode = "shutdown"
  /\ ctl.mode = "shutdown" => ctl.shut

\* Until a shutdown() no thread is stopped or swapped out, and nothing is given up early.
Unshut ==
  ctl.shut \/ /\ ~stopping
              /\ \A c \in Callers : sub[c].pc = "isalive" => thread # NoWorker
              /\ \A t \in Traces : fate[t] \notin {"abandoned", "swallowed"}

\* A daemon that has not begun, or is past its last batch, holds nothing.
DoneWorkersOK == \A w \in Workers : wpc[w] \in {"unborn", "exit", "dead"} => batch[w] = <<>>

\* What a flush() answers for is never in a caller's hands again, and not in the queue once
\* it saw the queue empty.
ScopeOK ==
  /\ \A t \in scope : fate[t] # "new" /\ t \notin InHand
  /\ ctl.pc = "sawempty" \/ (ctl.waited /\ ctl.drained) => scope \cap ToSet(queue) = {}

IInv ==
  TypeOK /\ Whereabouts /\ CountersOK /\ FailuresOK /\ ControlOK /\ DoneWorkersOK /\ ScopeOK

-----------------------------------------------------------------------------
(***************************************************************************)
(* Sequences.                                                              *)
(***************************************************************************)
\* The positions of a sequence can be counted.
LEMMA Positions ==
  ASSUME NEW n \in Nat
  PROVE  IsFiniteSet(1 .. n) /\ Cardinality(1 .. n) = n
<1>1. 1 \in Int /\ n \in Int /\ (1 > n => n = 0) /\ n - 1 + 1 = n
  OBVIOUS
<1> QED BY <1>1, FS_Interval

\* What get() takes from a queue and what it leaves.
LEMMA TailOf ==
  ASSUME NEW S, NEW q \in Seq(S), q # << >>
  PROVE  /\ Len(q) \in Nat \ {0} /\ Head(q) \in S /\ Head(q) = q[1]
         /\ Tail(q) \in Seq(S) /\ Len(Tail(q)) = Len(q) - 1
         /\ \A i \in 1 .. Len(q) - 1 : Tail(q)[i] = q[i + 1]
OBVIOUS

\* What is left is what there was without the first, if nothing was there twice.
LEMMA OnceTail ==
  ASSUME NEW q \in Seq(Traces \cup {Sentinel}), q # << >>, Once(q)
  PROVE  /\ Once(Tail(q))
         /\ ToSet(q) = ToSet(Tail(q)) \cup {Head(q)}
         /\ Head(q) # Sentinel => Head(q) \notin ToSet(Tail(q))
<1>1. /\ Len(q) \in Nat \ {0} /\ Head(q) = q[1]
      /\ Tail(q) \in Seq(Traces \cup {Sentinel}) /\ Len(Tail(q)) = Len(q) - 1
      /\ \A i \in 1 .. Len(q) - 1 : Tail(q)[i] = q[i + 1]
  BY TailOf
<1>2. DOMAIN q = 1 .. Len(q) /\ DOMAIN Tail(q) = 1 .. Len(q) - 1
  BY <1>1
<1>3. Once(Tail(q))
  BY <1>1, <1>2 DEF Once
<1>4. ToSet(Tail(q)) = {q[i] : i \in 2 .. Len(q)}
  <2>1. \A i \in 1 .. Len(q) - 1 : i + 1 \in 2 .. Len(q)
    BY <1>1
  <2>2. \A j \in 2 .. Len(q) : j - 1 \in 1 .. Len(q) - 1 /\ q[j] = Tail(q)[j - 1]
    BY <1>1
  <2>3. ToSet(Tail(q)) = {Tail(q)[i] : i \in 1 .. Len(q) - 1}
    BY <1>2 DEF ToSet
  <2>4. \A x : x \in ToSet(Tail(q)) => x \in {q[i] : i \in 2 .. Len(q)}
    BY <1>1, <2>1, <2>3
  <2>5. \A x : x \in {q[i] : i \in 2 .. Len(q)} => x \in ToSet(Tail(q))
    BY <2>2, <2>3
  <2> QED BY <2>4, <2>5
<1>5. ToSet(q) = ToSet(Tail(q)) \cup {Head(q)}
  <2>1. 1 .. Len(q) = (2 .. Len(q)) \cup {1}
    BY <1>1
  <2> QED BY <1>1, <1>2, <1>4, <2>1 DEF ToSet
<1>6. ASSUME Head(q) # Sentinel, Head(q) \in ToSet(Tail(q)) PROVE FALSE
  <2>1. PICK i \in 2 .. Len(q) : q[i] = q[1]
    BY <1>1, <1>4, <1>6
  <2>2. i \in DOMAIN q /\ 1 \in DOMAIN q /\ i # 1
    BY <1>1, <1>2
  <2> QED BY <1>1, <1>6, <2>1, <2>2 DEF Once
<1> QED BY <1>3, <1>5, <1>6

\* A sequence that gets one more.
LEMMA OnceAppend ==
  ASSUME NEW S, NEW q \in Seq(S), NEW x \in S, Once(q), x # Sentinel => x \notin ToSet(q)
  PROVE  /\ Once(Append(q, x))
         /\ ToSet(Append(q, x)) = ToSet(q) \cup {x}
<1>1. /\ Len(q) \in Nat /\ Append(q, x) \in Seq(S) /\ Len(Append(q, x)) = Len(q) + 1
      /\ \A i \in 1 .. Len(q) : Append(q, x)[i] = q[i]
      /\ Append(q, x)[Len(q) + 1] = x
  OBVIOUS
<1>2. DOMAIN q = 1 .. Len(q) /\ DOMAIN Append(q, x) = (1 .. Len(q)) \cup {Len(q) + 1}
  BY <1>1
<1>3. \A i \in 1 .. Len(q) : q[i] \in ToSet(q)
  BY <1>2 DEF ToSet
<1>4. Once(Append(q, x))
  BY <1>1, <1>2, <1>3 DEF Once
<1>5. ToSet(Append(q, x)) = ToSet(q) \cup {x}
  BY <1>1, <1>2 DEF ToSet
<1> QED BY <1>4, <1>5

\* The sentinels of a queue are finitely many.
LEMMA SentinelsFinite ==
  ASSUME NEW S, NEW q \in Seq(S)
  PROVE  IsFiniteSet(SentinelsIn(q)) /\ Cardinality(SentinelsIn(q)) \in Nat
<1>1. SentinelsIn(q) \in SUBSET (1 .. Len(q)) /\ Len(q) \in Nat
  BY DEF SentinelsIn
<1>2. IsFiniteSet(1 .. Len(q))
  BY <1>1, Positions
<1> QED BY <1>1, <1>2, FS_Subset, FS_CardinalityType

\* Taking the first takes a sentinel when it is one.
LEMMA SentinelsTail ==
  ASSUME NEW S, NEW q \in Seq(S), q # << >>
  PROVE  Cardinality(SentinelsIn(Tail(q)))
           = Cardinality(SentinelsIn(q)) - IF Head(q) = Sentinel THEN 1 ELSE 0
<1>1. /\ Len(q) \in Nat \ {0} /\ Head(q) = q[1]
      /\ Tail(q) \in Seq(S) /\ Len(Tail(q)) = Len(q) - 1
      /\ \A i \in 1 .. Len(q) - 1 : Tail(q)[i] = q[i + 1]
  BY TailOf
<1>2. DOMAIN q = 1 .. Len(q) /\ DOMAIN Tail(q) = 1 .. Len(q) - 1
  BY <1>1
<1> DEFINE A == SentinelsIn(Tail(q))
           B == SentinelsIn(q) \ {1}
           f == [i \in A |-> i + 1]
<1>3. f \in Surjection(A, B) /\ f \in Injection(A, B)
  <2>1. \A i \in A : i \in Nat /\ i + 1 \in B
    BY <1>1, <1>2 DEF SentinelsIn
  <2>2. \A j \in B : j - 1 \in A /\ (j - 1) + 1 = j
    BY <1>1, <1>2 DEF SentinelsIn
  <2> HIDE DEF A, B
  <2>3. f \in [A -> B]
    BY <2>1
  <2>4. \A i, j \in A : f[i] = f[j] => i = j
    BY <2>1
  <2>5. \A j \in B : \E i \in A : f[i] = j
    BY <2>2
  <2> QED BY <2>3, <2>4, <2>5 DEF Injection, Surjection, IsInjective
<1>4. IsFiniteSet(A) /\ IsFiniteSet(SentinelsIn(q)) /\ Cardinality(SentinelsIn(q)) \in Nat
  BY <1>1, SentinelsFinite
<1>5. Cardinality(A) = Cardinality(B)
  <2> HIDE DEF A, B, f
  <2> QED BY <1>3, <1>4, FS_Surjection
<1>6. 1 \in SentinelsIn(q) <=> Head(q) = Sentinel
  BY <1>1, <1>2 DEF SentinelsIn
<1>7. Cardinality(SentinelsIn(Tail(q))) = Cardinality(SentinelsIn(q) \ {1})
  BY <1>5
<1> HIDE DEF A, B, f
<1>8. Cardinality(SentinelsIn(q) \ {1})
        = IF Head(q) = Sentinel THEN Cardinality(SentinelsIn(q)) - 1 ELSE Cardinality(SentinelsIn(q))
  BY <1>4, <1>6, FS_RemoveElement
<1> QED BY <1>4, <1>7, <1>8

\* And putting one adds it.
LEMMA SentinelsAppend ==
  ASSUME NEW S, NEW q \in Seq(S), NEW x \in S
  PROVE  Cardinality(SentinelsIn(Append(q, x)))
           = Cardinality(SentinelsIn(q)) + IF x = Sentinel THEN 1 ELSE 0
<1>1. /\ Len(q) \in Nat /\ DOMAIN q = 1 .. Len(q)
      /\ DOMAIN Append(q, x) = (1 .. Len(q)) \cup {Len(q) + 1}
      /\ \A i \in 1 .. Len(q) : Append(q, x)[i] = q[i]
      /\ Append(q, x)[Len(q) + 1] = x
  OBVIOUS
<1>2. IsFiniteSet(SentinelsIn(q)) /\ Cardinality(SentinelsIn(q)) \in Nat
  BY SentinelsFinite
<1>3. CASE x = Sentinel
  <2>1. SentinelsIn(Append(q, x)) = SentinelsIn(q) \cup {Len(q) + 1}
    BY <1>1, <1>3 DEF SentinelsIn
  <2>2. Len(q) + 1 \notin SentinelsIn(q)
    BY <1>1 DEF SentinelsIn
  <2> QED BY <1>2, <1>3, <2>1, <2>2, FS_AddElement
<1>4. CASE x # Sentinel
  <2>1. SentinelsIn(Append(q, x)) = SentinelsIn(q)
    BY <1>1, <1>4 DEF SentinelsIn
  <2> QED BY <1>2, <1>4, <2>1
<1> QED BY <1>3, <1>4

\* A batch that holds nothing twice holds as many traces as it is long.
LEMMA OnceCounts ==
  ASSUME NEW q \in Seq(Traces), Once(q)
  PROVE  IsFiniteSet(ToSet(q)) /\ Cardinality(ToSet(q)) = Len(q)
<1>1. DOMAIN q = 1 .. Len(q) /\ Len(q) \in Nat /\ \A i \in 1 .. Len(q) : q[i] \in Traces
  OBVIOUS
<1>2. q \in Surjection(1 .. Len(q), ToSet(q)) /\ q \in Injection(1 .. Len(q), ToSet(q))
  <2>1. q \in [1 .. Len(q) -> ToSet(q)]
    BY <1>1 DEF ToSet
  <2>2. \A i, j \in 1 .. Len(q) : q[i] = q[j] => i = j
    BY <1>1, SentinelAssumption DEF Once
  <2>3. \A t \in ToSet(q) : \E i \in 1 .. Len(q) : q[i] = t
    BY <1>1 DEF ToSet
  <2> QED BY <2>1, <2>2, <2>3 DEF Injection, Surjection, IsInjective
<1>3. IsFiniteSet(1 .. Len(q)) /\ Cardinality(1 .. Len(q)) = Len(q)
  BY <1>1, Positions
<1> QED BY <1>2, <1>3, FS_Surjection

-----------------------------------------------------------------------------
(***************************************************************************)
(* Types.                                                                  *)
(***************************************************************************)
\* Every variable starts in its range.
LEMMA TypeInit == Init => TypeOK
<1> SUFFICES ASSUME Init PROVE TypeOK
  OBVIOUS
<1>1. queue \in Seq(Traces \cup {Sentinel}) /\ Len(queue) <= Capacity
  <2>1. queue = << >> /\ Len(queue) = 0
    BY DEF Init
  <2>2. << >> \in Seq(Traces \cup {Sentinel}) /\ 0 <= Capacity
    BY SizeAssumption
  <2> QED BY <2>1, <2>2
<1>2. wpc \in [Workers -> WorkerPcs]
  BY DEF Init, WorkerPcs
<1>3. batch \in [Workers -> Seq(Traces)]
  <2>1. << >> \in Seq(Traces)
    OBVIOUS
  <2> QED BY <2>1 DEF Init
<1>4. attempt \in [Workers -> 0 .. MaxRetries - 1]
  BY SizeAssumption DEF Init
<1>5. sub \in [Callers -> Submitting]
  BY DEF Init, Submitting, SubmitPcs
<1>6. ctl \in Controlling
  BY SizeAssumption DEF Init, Controlling, ControlPcs
<1>7. fate \in [Traces -> Fates]
  BY DEF Init, Fates
<1>8. stats \in Stats
  BY DEF Init, Stats
<1> QED BY <1>1, <1>2, <1>3, <1>4, <1>5, <1>6, <1>7, <1>8 DEF Init, TypeOK

\* A caller that goes on, or leaves submit(), stays in its range.
LEMMA GoesOn ==
  ASSUME TypeOK, NEW c \in Callers, NEW p \in SubmitPcs,
         sub' = [sub EXCEPT ![c].pc = p] \/ Leave(c)
  PROVE  sub' \in [Callers -> Submitting]
<1>1. sub \in [Callers -> Submitting]
  BY DEF TypeOK
<1>2. sub[c].trace \in Traces \cup {NoTrace}
  BY <1>1 DEF Submitting
<1>3. [sub[c] EXCEPT !.pc = p] \in Submitting
  BY <1>1 DEF Submitting
<1>4. [pc |-> "out", trace |-> NoTrace] \in Submitting
  BY DEF Submitting, SubmitPcs
<1> QED BY <1>1, <1>3, <1>4 DEF Leave

\* Counting one more stays in range.
LEMMA CountsOn ==
  ASSUME TypeOK, NEW n \in Nat
  PROVE  /\ [stats EXCEPT !.exported = n] \in Stats
         /\ stats.dropped \in Nat /\ [stats EXCEPT !.dropped = @ + 1] \in Stats
         /\ stats.failures \in Nat /\ [stats EXCEPT !.failures = @ + 1] \in Stats
<1>1. stats \in Stats
  BY DEF TypeOK
<1> QED BY <1>1 DEF Stats

\* A batch that is sent leaves its daemon's fields in their ranges.
LEMMA SendTypes ==
  ASSUME TypeOK, NEW w \in Workers, NEW f \in Fates, SendReturns(w, f)
  PROVE  /\ wpc' \in [Workers -> WorkerPcs]
         /\ batch' \in [Workers -> Seq(Traces)]
         /\ due' \in [Workers -> BOOLEAN]
         /\ attempt' \in [Workers -> 0 .. MaxRetries - 1]
         /\ fate' \in [Traces -> Fates]
<1> USE DEF TypeOK, SendReturns, Settle
<1>1. wpc' \in [Workers -> WorkerPcs]
  BY DEF Goto, WorkerPcs
<1>2. batch' \in [Workers -> Seq(Traces)]
  BY DEF Cleared
<1>3. attempt' \in [Workers -> 0 .. MaxRetries - 1]
  BY SizeAssumption
<1> QED BY <1>1, <1>2, <1>3

\* No step of submit() takes a variable out of its range.
LEMMA SubmitTypes ==
  ASSUME TypeOK, HandsOK, NEW c \in Callers,
         (\E t \in Traces : SubmitBegin(c, t)) \/ SubmitStep(c)
  PROVE  TypeOK'
<1> USE DEF workerVars
<1>0. SubmitPcs = {"out", "isalive", "start", "clear", "put", "evict", "reput"}
  BY DEF SubmitPcs
<1>1. ASSUME NEW t \in Traces, SubmitBegin(c, t) PROVE TypeOK'
  <2>1. sub' \in [Callers -> Submitting]
    BY <1>1 DEF SubmitBegin, TypeOK, Submitting, SubmitPcs
  <2> QED BY <1>1, <2>1 DEF SubmitBegin, TypeOK, Fates
<1>2. ASSUME ReadAlive(c) PROVE TypeOK'
  <2>1. sub' \in [Callers -> Submitting]
    BY <1>0, <1>2, GoesOn DEF ReadAlive
  <2> QED BY <1>2, <2>1 DEF ReadAlive, TypeOK, Fates
<1>3. ASSUME StartThread(c) PROVE TypeOK'
  <2>1. sub' \in [Callers -> Submitting]
    BY <1>0, <1>3, GoesOn DEF StartThread
  <2>2. /\ wpc' \in [Workers -> WorkerPcs]
        /\ thread' \in Workers \cup {NoWorker}
        /\ stopping' \in BOOLEAN
    BY <1>3 DEF StartThread, TypeOK, WorkerPcs
  <2> QED BY <1>3, <2>1, <2>2 DEF StartThread, TypeOK
<1>4. ASSUME ClearIdle(c) PROVE TypeOK'
  <2>1. sub' \in [Callers -> Submitting]
    BY <1>0, <1>4, GoesOn DEF ClearIdle
  <2> QED BY <1>4, <2>1 DEF ClearIdle, TypeOK
<1>5. ASSUME HasRoom, sub[c].pc \in {"put", "reput"}
      PROVE  /\ Append(queue, sub[c].trace) \in Seq(Traces \cup {Sentinel})
             /\ Len(Append(queue, sub[c].trace)) <= Capacity
  <2>1. sub[c].trace \in Traces /\ queue \in Seq(Traces \cup {Sentinel})
    BY <1>5 DEF HandsOK, TypeOK
  <2>2. Append(queue, sub[c].trace) \in Seq(Traces \cup {Sentinel})
        /\ Len(Append(queue, sub[c].trace)) = Len(queue) + 1 /\ Len(queue) \in Nat
    BY <2>1
  <2> QED BY <1>5, <2>2, SizeAssumption DEF HasRoom
<1>6. ASSUME PutNowait(c) PROVE TypeOK'
  <2>1. sub' \in [Callers -> Submitting]
    BY <1>0, <1>6, GoesOn DEF PutNowait
  <2>2. queue' \in Seq(Traces \cup {Sentinel}) /\ Len(queue') <= Capacity
    <3>1. queue' = queue \/ (HasRoom /\ queue' = Append(queue, sub[c].trace))
      BY <1>6 DEF PutNowait
    <3> QED BY <1>5, <1>6, <3>1 DEF PutNowait, TypeOK
  <2> QED BY <1>6, <2>1, <2>2 DEF PutNowait, TypeOK
<1>7. ASSUME EvictOldest(c) PROVE TypeOK'
  <2>1. stats' \in Stats
    BY <1>7, CountsOn DEF EvictOldest
  <2>2. queue' \in Seq(Traces \cup {Sentinel}) /\ Len(queue') <= Capacity
    <3>1. queue \in Seq(Traces \cup {Sentinel}) /\ Len(queue) <= Capacity
      BY DEF TypeOK
    <3>2. queue # << >> => /\ Len(queue) \in Nat /\ Tail(queue) \in Seq(Traces \cup {Sentinel})
                          /\ Len(Tail(queue)) = Len(queue) - 1
      BY <3>1, TailOf
    <3>3. queue' = queue \/ (queue # << >> /\ queue' = Tail(queue))
      BY <1>7 DEF EvictOldest
    <3> QED BY <3>1, <3>2, <3>3, SizeAssumption
  <2>3. fate' \in [Traces -> Fates]
    BY <1>7 DEF EvictOldest, TypeOK, Fates
  <2>4. sub' \in [Callers -> Submitting]
    BY <1>0, <1>7, GoesOn DEF EvictOldest
  <2> QED BY <1>7, <2>1, <2>2, <2>3, <2>4 DEF EvictOldest, TypeOK
<1>8. ASSUME PutAgain(c) PROVE TypeOK'
  <2>1. stats' \in Stats
    BY <1>8, CountsOn DEF PutAgain, TypeOK
  <2>2. queue' \in Seq(Traces \cup {Sentinel}) /\ Len(queue') <= Capacity
    <3>1. queue' = queue \/ (HasRoom /\ queue' = Append(queue, sub[c].trace))
      BY <1>8 DEF PutAgain
    <3> QED BY <1>5, <1>8, <3>1 DEF PutAgain, TypeOK
  <2>3. sub' \in [Callers -> Submitting]
    BY <1>0, <1>8, GoesOn DEF PutAgain
  <2>4. fate' \in [Traces -> Fates]
    BY <1>8 DEF PutAgain, TypeOK, Fates
  <2> QED BY <1>8, <2>1, <2>2, <2>3, <2>4 DEF PutAgain, TypeOK
<1> QED BY <1>1, <1>2, <1>3, <1>4, <1>6, <1>7, <1>8 DEF SubmitStep

\* Nor does a daemon.
LEMMA WorkerTypes ==
  ASSUME TypeOK, NEW w \in Workers, WorkerStep(w) \/ IntervalElapses(w)
  PROVE  TypeOK'
<1> USE DEF TypeOK, workerVars
<1>1. ASSUME LoopTest(w) \/ GetTimesOut(w) \/ IdleCheck(w) \/ SetIdle(w) \/ Exit(w) PROVE TypeOK'
  <2>1. wpc' \in [Workers -> WorkerPcs]
    BY <1>1 DEF LoopTest, GetTimesOut, IdleCheck, SetIdle, Exit, Decide, AfterLoop, Goto, WorkerPcs
  <2> QED BY <1>1, <2>1 DEF LoopTest, GetTimesOut, IdleCheck, SetIdle, Exit
<1>2. ASSUME Get(w) PROVE TypeOK'
  <2>1. /\ Len(queue) \in Nat \ {0} /\ Head(queue) \in Traces \cup {Sentinel}
        /\ Tail(queue) \in Seq(Traces \cup {Sentinel}) /\ Len(Tail(queue)) = Len(queue) - 1
    <3>1. queue \in Seq(Traces \cup {Sentinel}) /\ queue # << >>
      BY <1>2 DEF Get
    <3> QED BY <3>1, TailOf
  <2>2. queue' \in Seq(Traces \cup {Sentinel}) /\ Len(queue') <= Capacity
    BY <1>2, <2>1, SizeAssumption DEF Get
  <2>3. wpc' \in [Workers -> WorkerPcs]
    BY <1>2 DEF Get, Decide, AfterLoop, Goto, WorkerPcs
  <2>4. batch' \in [Workers -> Seq(Traces)]
    <3>1. ASSUME Head(queue) # Sentinel PROVE Append(batch[w], Head(queue)) \in Seq(Traces)
      <4>1. Head(queue) \in Traces /\ batch[w] \in Seq(Traces)
        BY <2>1, <3>1
      <4> QED BY <4>1
    <3>2. batch' = batch \/ (Head(queue) # Sentinel /\ batch' = [batch EXCEPT ![w] = Append(batch[w], Head(queue))])
      BY <1>2 DEF Get
    <3> QED BY <3>1, <3>2
  <2> QED BY <1>2, <2>2, <2>3, <2>4 DEF Get
<1>3. ASSUME IntervalElapses(w) PROVE TypeOK'
  BY <1>3 DEF IntervalElapses
<1>4. ASSUME EncodeFails(w) \/ StopBreaksRetry(w) PROVE TypeOK'
  <2>1. \E f \in Fates : SendReturns(w, f)
    BY <1>4 DEF EncodeFails, StopBreaksRetry, Fates
  <2> QED BY <1>4, <2>1, SendTypes DEF EncodeFails, StopBreaksRetry
<1>7. ASSUME DumpRaises(w) PROVE TypeOK'
  <2>1. wpc' \in [Workers -> WorkerPcs]
    BY <1>7 DEF DumpRaises, Goto, WorkerPcs
  <2>2. batch' \in [Workers -> Seq(Traces)]
    BY <1>7 DEF DumpRaises, Settle, Cleared
  <2>3. fate' \in [Traces -> Fates]
    BY <1>7 DEF DumpRaises, Settle, Fates
  <2> QED BY <1>7, <2>1, <2>2, <2>3 DEF DumpRaises
<1>5. ASSUME PostReturns(w) PROVE TypeOK'
  <2>1. \E f \in Fates : SendReturns(w, f)
    BY <1>5 DEF PostReturns, Fates
  <2>2. stats' \in Stats
    <3>1. Len(batch[w]) \in Nat
      OBVIOUS
    <3>2. stats.exported \in Nat
      BY DEF Stats
    <3>3. stats.exported + Len(batch[w]) \in Nat
      BY <3>1, <3>2
    <3>4. stats' = [stats EXCEPT !.exported = stats.exported + Len(batch[w])]
      BY <1>5 DEF PostReturns, Exported
    <3> QED BY <3>3, <3>4, CountsOn
  <2> QED BY <1>5, <2>1, <2>2, SendTypes DEF PostReturns
<1>6. ASSUME PostRaises(w) PROVE TypeOK'
  <2>0. stats' \in Stats
    BY <1>6, CountsOn DEF PostRaises
  <2>1. CASE attempt[w] < MaxRetries - 1
    <3>1. attempt' = [attempt EXCEPT ![w] = @ + 1] /\ UNCHANGED <<wpc, batch, due, fate>>
      BY <1>6, <2>1, SizeAssumption DEF PostRaises
    <3>2. attempt' \in [Workers -> 0 .. MaxRetries - 1]
      BY <2>1, <3>1, SizeAssumption
    <3> QED BY <1>6, <2>0, <3>1, <3>2 DEF PostRaises
  <2>2. CASE ~(attempt[w] < MaxRetries - 1)
    <3>1. \E f \in Fates : SendReturns(w, f)
      BY <1>6, <2>2 DEF PostRaises, Fates
    <3> QED BY <1>6, <2>0, <3>1, SendTypes DEF PostRaises
  <2> QED BY <2>1, <2>2
<1> QED BY <1>1, <1>2, <1>3, <1>4, <1>5, <1>6, <1>7 DEF WorkerStep

\* Nor does the controlling thread.
LEMMA ControlTypes ==
  ASSUME TypeOK, (\E mode \in Modes : FlushBegin(mode)) \/ ControlStep
  PROVE  TypeOK'
<1> USE DEF workerVars
<1>0. ctl \in Controlling
  BY DEF TypeOK
<1>1. ASSUME NEW mode \in Modes, FlushBegin(mode) PROVE TypeOK'
  <2>1. mode \in {"flush", "shutdown"}
    BY ChoiceAssumption
  <2>2. ctl.calls + 1 \in 0 .. MaxControls
    <3>1. ctl.calls \in 0 .. MaxControls /\ ctl.calls < MaxControls
      BY <1>0, <1>1 DEF FlushBegin, Controlling
    <3> QED BY <3>1, SizeAssumption
  <2>3. Alive(thread) \in BOOLEAN
    BY DEF Alive
  <2>4. AfterFlush(mode) \in ControlPcs /\ "poll" \in ControlPcs
    BY DEF AfterFlush, ControlPcs
  <2>5. ctl' \in Controlling
    BY <1>0, <1>1, <2>1, <2>2, <2>3, <2>4 DEF FlushBegin, Controlling
  <2>6. scope' \in SUBSET Traces
    BY <1>1 DEF FlushBegin
  <2> QED BY <1>1, <2>5, <2>6 DEF FlushBegin, TypeOK
<1>2. ASSUME FlushSeesEmpty \/ FlushReadsIdle \/ FlushTimesOut \/ StopWorker \/ SwapThread
             \/ ReadSwapped
      PROVE  TypeOK'
  <2>1. \A p \in ControlPcs, b \in BOOLEAN :
          /\ [ctl EXCEPT !.pc = p] \in Controlling
          /\ [ctl EXCEPT !.pc = p, !.drained = b] \in Controlling
    BY <1>0 DEF Controlling
  <2>2. \A p \in ControlPcs, w \in {thread, NoWorker} :
          [ctl EXCEPT !.pc = p, !.worker = w] \in Controlling
    BY <1>0 DEF Controlling, TypeOK
  <2>3. AfterFlush(ctl.mode) \in ControlPcs
        /\ {"sawempty", "poll", "out", "stop", "swap", "isalive", "wake"} \subseteq ControlPcs
    BY DEF AfterFlush, ControlPcs
  <2>4. ASSUME SwapThread \/ ReadSwapped PROVE ctl' \in Controlling
    <3>1. PICK p \in {"out", "isalive", "wake"}, w \in {thread, NoWorker} :
            ctl' = [ctl EXCEPT !.pc = p, !.worker = w]
      BY <2>4 DEF SwapThread, ReadSwapped
    <3> QED BY <2>2, <2>3, <3>1
  <2>5. ctl' \in Controlling
    BY <1>2, <2>1, <2>3, <2>4 DEF FlushSeesEmpty, FlushReadsIdle, FlushTimesOut, StopWorker,
                                  FlushReturns
  <2> QED BY <1>2, <2>5 DEF FlushSeesEmpty, FlushReadsIdle, FlushTimesOut, StopWorker, SwapThread,
                            ReadSwapped, TypeOK
<1>3. ASSUME WakeWorker PROVE TypeOK'
  <2>1. queue' \in Seq(Traces \cup {Sentinel}) /\ Len(queue') <= Capacity
    <3>1. queue \in Seq(Traces \cup {Sentinel}) /\ Len(queue) <= Capacity
      BY DEF TypeOK
    <3>2. Append(queue, Sentinel) \in Seq(Traces \cup {Sentinel})
          /\ Len(Append(queue, Sentinel)) = Len(queue) + 1 /\ Len(queue) \in Nat
      BY <3>1
    <3> QED BY <1>3, <3>1, <3>2, SizeAssumption DEF WakeWorker, HasRoom
  <2>2. ctl' \in Controlling
    BY <1>0, <1>3 DEF WakeWorker, Controlling, ControlPcs
  <2> QED BY <1>3, <2>1, <2>2 DEF WakeWorker, TypeOK
<1> QED BY <1>1, <1>2, <1>3 DEF ControlStep

\* No step takes a variable out of its range.
LEMMA TypeNext == TypeOK /\ HandsOK /\ [Next]_vars => TypeOK'
<1> SUFFICES ASSUME TypeOK, HandsOK, [Next]_vars PROVE TypeOK'
  OBVIOUS
<1>1. CASE UNCHANGED vars
  BY <1>1 DEF vars, workerVars, TypeOK
<1> QED BY <1>1, SubmitTypes, WorkerTypes, ControlTypes DEF Next

-----------------------------------------------------------------------------
(***************************************************************************)
(* Where traces are.                                                       *)
(***************************************************************************)
\* A trace is in hand when a caller has it.
LEMMA Hands == \A t \in Traces : t \in InHand <=> \E c \in Callers : sub[c].trace = t
BY SentinelAssumption DEF InHand

\* A caller that goes on keeps its trace in hand.
LEMMA StaysInHand ==
  ASSUME TypeOK, HandsOK, NEW c \in Callers, sub[c].pc # "out", NEW p \in SubmitPcs \ {"out"},
         sub' = [sub EXCEPT ![c].pc = p]
  PROVE  HandsOK' /\ InHand' = InHand
<1>1. sub \in [Callers -> Submitting]
  BY DEF TypeOK
<1>2. \A d \in Callers : sub'[d].trace = sub[d].trace /\ (sub'[d].pc # "out" <=> sub[d].pc # "out")
  BY <1>1 DEF Submitting
<1> QED BY <1>2 DEF HandsOK, InHand

\* A caller that leaves submit() has nothing in hand any more.
LEMMA LeavesHand ==
  ASSUME TypeOK, HandsOK, NEW c \in Callers, sub[c].pc # "out", Leave(c)
  PROVE  /\ sub[c].trace \in Traces /\ sub[c].trace \in InHand
         /\ HandsOK'
         /\ InHand' = InHand \ {sub[c].trace}
<1>1. sub \in [Callers -> Submitting]
  BY DEF TypeOK
<1>2. sub[c].trace \in Traces
  BY DEF HandsOK
<1>3. /\ sub'[c].trace = NoTrace /\ sub'[c].pc = "out"
      /\ \A d \in Callers \ {c} : sub'[d] = sub[d]
  BY <1>1 DEF Leave
<1>4. HandsOK'
  BY <1>3, SentinelAssumption DEF HandsOK
<1>5. \A d \in Callers \ {c} : sub[d].trace # sub[c].trace
  BY <1>2 DEF HandsOK
<1>6. \A x : x \in InHand' => x \in InHand \ {sub[c].trace}
  BY <1>3, <1>5 DEF InHand
<1>7. \A x : x \in InHand \ {sub[c].trace} => x \in InHand'
  BY <1>3 DEF InHand
<1>8. sub[c].trace \in InHand
  BY <1>2, Hands
<1> QED BY <1>2, <1>4, <1>6, <1>7, <1>8

\* The first caller to have a trace has it in hand alone.
LEMMA TakesInHand ==
  ASSUME TypeOK, Whereabouts, NEW c \in Callers, NEW t \in Traces, SubmitBegin(c, t)
  PROVE  HandsOK' /\ InHand' = InHand \cup {t}
<1>1. sub \in [Callers -> Submitting]
  BY DEF TypeOK
<1>2. t \notin InHand
  BY DEF SubmitBegin, Whereabouts, PendingOK
<1>3. \A d \in Callers : sub[d].trace # t
  BY <1>2, Hands
<1>4. sub[c].pc = "out" /\ sub[c].trace \notin Traces
  BY DEF SubmitBegin, Whereabouts, HandsOK
<1>5. /\ sub'[c].trace = t /\ sub'[c].pc # "out"
      /\ \A d \in Callers \ {c} : sub'[d] = sub[d]
  BY <1>1 DEF SubmitBegin
<1>6. HandsOK'
  BY <1>3, <1>5 DEF HandsOK, Whereabouts
<1>7. sub[c].trace = NoTrace
  BY <1>1, <1>4 DEF Submitting
<1>8. \A x : x \in InHand' => x \in InHand \cup {t}
  BY <1>5 DEF InHand
<1>9. \A x : x \in InHand \cup {t} => x \in InHand'
  BY <1>5, <1>7, SentinelAssumption DEF InHand
<1> QED BY <1>6, <1>8, <1>9

\* A step that moves nothing.
LEMMA NothingMoves ==
  ASSUME Whereabouts, HandsOK', InHand' = InHand, UNCHANGED <<queue, batch>>,
         \A t \in Traces : fate'[t] = "pending" <=> fate[t] = "pending"
  PROVE  Whereabouts'
<1>1. \A t \in Traces : Batched(t)' <=> Batched(t)
  BY DEF Batched
<1>2. QueueOK' /\ BatchesOK'
  BY DEF Whereabouts, QueueOK, BatchesOK, Once
<1>3. Apart'
  BY <1>1 DEF Whereabouts, Apart
<1>4. PendingOK'
  BY <1>1 DEF Whereabouts, PendingOK
<1> QED BY <1>2, <1>3, <1>4 DEF Whereabouts

\* A caller that gives its trace up.
LEMMA GivesUp ==
  ASSUME TypeOK, Whereabouts, NEW c \in Callers, sub[c].pc # "out", Leave(c),
         NEW f \in Fates \ {"pending"}, fate' = [fate EXCEPT ![sub[c].trace] = f],
         UNCHANGED <<queue, batch>>
  PROVE  Whereabouts'
<1> DEFINE x == sub[c].trace
<1>1. HandsOK
  BY DEF Whereabouts
<1>2. x \in Traces /\ x \in InHand /\ HandsOK' /\ InHand' = InHand \ {x}
  BY <1>1, LeavesHand
<1>3. fate'[x] = f /\ \A t \in Traces \ {x} : fate'[t] = fate[t]
  BY <1>2 DEF TypeOK
<1>4. \A t \in Traces : Batched(t)' <=> Batched(t)
  BY DEF Batched
<1>5. QueueOK' /\ BatchesOK'
  BY DEF Whereabouts, QueueOK, BatchesOK, Once
<1>6. Apart'
  BY <1>2, <1>4 DEF Whereabouts, Apart
<1>7. x \notin ToSet(queue) /\ ~Batched(x)
  BY <1>2 DEF Whereabouts, Apart
<1>8. PendingOK'
  BY <1>2, <1>3, <1>4, <1>7 DEF Whereabouts, PendingOK
<1> QED BY <1>2, <1>5, <1>6, <1>8 DEF Whereabouts

\* A caller that queues its trace.
LEMMA Queues ==
  ASSUME TypeOK, Whereabouts, NEW c \in Callers, sub[c].pc # "out", Leave(c),
         queue' = Append(queue, sub[c].trace), UNCHANGED <<batch, fate>>
  PROVE  Whereabouts' /\ ToSet(queue') = ToSet(queue) \cup {sub[c].trace}
<1> DEFINE x == sub[c].trace
<1>1. HandsOK
  BY DEF Whereabouts
<1>2. x \in Traces /\ x \in InHand /\ HandsOK' /\ InHand' = InHand \ {x}
  BY <1>1, LeavesHand
<1>3. x \notin ToSet(queue) /\ ~Batched(x)
  BY <1>2 DEF Whereabouts, Apart
<1>4. Once(queue') /\ ToSet(queue') = ToSet(queue) \cup {x}
  <2>1. queue \in Seq(Traces \cup {Sentinel}) /\ x \in Traces \cup {Sentinel} /\ Once(queue)
    BY <1>2 DEF TypeOK, Whereabouts, QueueOK
  <2> QED BY <1>3, <2>1, OnceAppend
<1>5. \A t \in Traces : Batched(t)' <=> Batched(t)
  BY DEF Batched
<1>6. QueueOK' /\ BatchesOK'
  BY <1>4 DEF Whereabouts, QueueOK, BatchesOK, Once
<1>7. Apart'
  BY <1>2, <1>3, <1>4, <1>5 DEF Whereabouts, Apart
<1>8. PendingOK'
  BY <1>2, <1>4, <1>5 DEF Whereabouts, PendingOK
<1> QED BY <1>2, <1>4, <1>6, <1>7, <1>8 DEF Whereabouts

\* What the first of the queue is, and what the queue is without it.
LEMMA QueueTail ==
  ASSUME TypeOK, Whereabouts, queue # << >>
  PROVE  /\ Once(Tail(queue))
         /\ ToSet(queue) = ToSet(Tail(queue)) \cup {Head(queue)}
         /\ Head(queue) \in Traces \cup {Sentinel}
         /\ Head(queue) # Sentinel => /\ Head(queue) \in Traces
                                      /\ Head(queue) \notin ToSet(Tail(queue))
<1>1. queue \in Seq(Traces \cup {Sentinel}) /\ Once(queue)
  BY DEF TypeOK, Whereabouts, QueueOK
<1>2. Head(queue) \in Traces \cup {Sentinel}
  BY <1>1, TailOf
<1> QED BY <1>1, <1>2, OnceTail

\* Eviction drops the oldest trace, or a sentinel.
LEMMA Evicts ==
  ASSUME TypeOK, Whereabouts, queue # << >>, queue' = Tail(queue), batch' = batch,
         HandsOK', InHand' = InHand,
         fate' = IF Head(queue) = Sentinel THEN fate ELSE [fate EXCEPT ![Head(queue)] = "dropped"]
  PROVE  Whereabouts'
<1> DEFINE x == Head(queue)
<1>1. /\ Once(queue')
      /\ ToSet(queue) = ToSet(queue') \cup {x}
      /\ x \in Traces \cup {Sentinel}
      /\ x # Sentinel => x \in Traces /\ x \notin ToSet(queue')
  BY QueueTail
<1>2. \A t \in Traces : Batched(t)' <=> Batched(t)
  BY DEF Batched
<1>3. QueueOK' /\ BatchesOK'
  BY <1>1 DEF Whereabouts, QueueOK, BatchesOK, Once
<1>4. Apart'
  BY <1>1, <1>2 DEF Whereabouts, Apart
<1>5. PendingOK'
  <2>1. CASE x = Sentinel
    BY <1>1, <1>2, <2>1, SentinelAssumption DEF Whereabouts, PendingOK
  <2>2. CASE x # Sentinel
    <3>1. x \in Traces /\ x \in ToSet(queue) /\ x \notin ToSet(queue')
      BY <1>1, <2>2
    <3>2. fate'[x] = "dropped" /\ \A t \in Traces \ {x} : fate'[t] = fate[t]
      BY <2>2, <3>1 DEF TypeOK
    <3>3. x \notin InHand /\ ~Batched(x)
      BY <3>1 DEF Whereabouts, Apart
    <3> QED BY <1>1, <1>2, <3>1, <3>2, <3>3 DEF Whereabouts, PendingOK
  <2> QED BY <2>1, <2>2
<1> QED BY <1>3, <1>4, <1>5 DEF Whereabouts

\* A daemon takes the oldest trace into its batch, or a sentinel away.
LEMMA Gets ==
  ASSUME TypeOK, Whereabouts, NEW w \in Workers, Get(w)
  PROVE  Whereabouts'
<1> DEFINE x == Head(queue)
<1>1. queue # << >> /\ queue' = Tail(queue) /\ sub' = sub /\ fate' = fate
  BY DEF Get
<1>2. /\ Once(queue')
      /\ ToSet(queue) = ToSet(queue') \cup {x}
      /\ x # Sentinel => x \in Traces /\ x \notin ToSet(queue')
  BY <1>1, QueueTail
<1>3. HandsOK' /\ InHand' = InHand
  BY <1>1 DEF Whereabouts, HandsOK, InHand
<1>4. CASE x = Sentinel
  <2>1. batch' = batch
    BY <1>4 DEF Get
  <2>2. \A t \in Traces : Batched(t)' <=> Batched(t)
    BY <2>1 DEF Batched
  <2>3. \A t \in Traces : t \in ToSet(queue') <=> t \in ToSet(queue)
    BY <1>2, <1>4, SentinelAssumption
  <2>4. QueueOK' /\ BatchesOK'
    BY <1>2, <2>1 DEF Whereabouts, QueueOK, BatchesOK, Once
  <2>5. Apart' /\ PendingOK'
    BY <1>1, <1>3, <2>2, <2>3 DEF Whereabouts, Apart, PendingOK
  <2> QED BY <1>3, <2>4, <2>5 DEF Whereabouts
<1>5. CASE x # Sentinel
  <2>1. batch' = [batch EXCEPT ![w] = Append(batch[w], x)]
    BY <1>5 DEF Get
  <2>2. x \in Traces /\ x \in ToSet(queue) /\ x \notin ToSet(queue')
    BY <1>2, <1>5
  <2>3. x \notin InHand /\ ~Batched(x)
    BY <2>2 DEF Whereabouts, Apart
  <2>4. batch \in [Workers -> Seq(Traces)]
    BY DEF TypeOK
  <2>5. \A v \in Workers : x \notin ToSet(batch[v])
    BY <2>3 DEF Batched
  <2>6. Once(Append(batch[w], x)) /\ ToSet(Append(batch[w], x)) = ToSet(batch[w]) \cup {x}
    <3>1. batch[w] \in Seq(Traces) /\ Once(batch[w])
      BY <2>4 DEF Whereabouts, BatchesOK
    <3> QED BY <2>2, <2>5, <3>1, OnceAppend
  <2>7. batch'[w] = Append(batch[w], x) /\ \A v \in Workers \ {w} : batch'[v] = batch[v]
    BY <2>1, <2>4
  <2>8. ToSet(batch'[w]) = ToSet(batch[w]) \cup {x}
    BY <2>6, <2>7
  <2>9. \A t \in Traces : Batched(t)' <=> Batched(t) \/ t = x
    BY <2>7, <2>8 DEF Batched
  <2>10. BatchesOK'
    <3>1. \A v \in Workers : Once(batch'[v])
      BY <2>6, <2>7 DEF Whereabouts, BatchesOK
    <3>2. \A u, v \in Workers : u # v => ToSet(batch[u]) \cap ToSet(batch[v]) = {}
      BY DEF Whereabouts, BatchesOK
    <3>3. \A v \in Workers \ {w} : ToSet(batch'[w]) \cap ToSet(batch'[v]) = {}
      <4>1. \A v \in Workers \ {w} : ToSet(batch'[v]) = ToSet(batch[v]) /\ w # v
        BY <2>7
      <4> HIDE DEF x
      <4> QED BY <2>5, <2>8, <3>2, <4>1
    <3>4. \A u, v \in Workers \ {w} : u # v => ToSet(batch'[u]) \cap ToSet(batch'[v]) = {}
      BY <2>7, <3>2
    <3>5. \A u, v \in Workers : u # v => ToSet(batch'[u]) \cap ToSet(batch'[v]) = {}
      BY <3>3, <3>4
    <3> QED BY <3>1, <3>5 DEF BatchesOK, Once
  <2>11. QueueOK'
    BY <1>2 DEF QueueOK, Once
  <2>12. Apart'
    BY <1>2, <1>3, <2>2, <2>3, <2>9 DEF Whereabouts, Apart
  <2>13. PendingOK'
    BY <1>1, <1>2, <1>3, <2>2, <2>9 DEF Whereabouts, PendingOK
  <2> QED BY <1>3, <2>10, <2>11, <2>12, <2>13 DEF Whereabouts
<1> QED BY <1>4, <1>5

\* A batch that was sent, spooled or lost is nowhere any more.
LEMMA Sends ==
  ASSUME TypeOK, Whereabouts, NEW w \in Workers, NEW f \in Fates \ {"pending"}, Settle(w, f),
         UNCHANGED <<queue, sub>>
  PROVE  /\ Whereabouts'
         /\ \A t \in Traces : t \in ToSet(batch[w]) => fate[t] = "pending"
<1>1. batch \in [Workers -> Seq(Traces)]
  BY DEF TypeOK
<1>2. batch'[w] = << >> /\ \A v \in Workers \ {w} : batch'[v] = batch[v]
  BY <1>1 DEF Settle, Cleared
<1>3. HandsOK' /\ InHand' = InHand
  BY DEF Whereabouts, HandsOK, InHand
<1>4. ToSet(<< >>) = {} /\ Once(<< >>)
  BY DEF ToSet, Once
<1>5. \A t \in Traces : t \in ToSet(batch[w]) => Batched(t)
  BY DEF Batched
<1>6. \A t \in Traces : Batched(t)' <=> Batched(t) /\ t \notin ToSet(batch[w])
  <2>1. \A v \in Workers \ {w} : ToSet(batch[w]) \cap ToSet(batch[v]) = {}
    BY DEF Whereabouts, BatchesOK
  <2>2. ToSet(batch'[w]) = {}
    BY <1>2, <1>4
  <2> QED BY <1>2, <2>1, <2>2 DEF Batched
<1>7. BatchesOK'
  <2>1. \A v \in Workers : Once(batch'[v])
    BY <1>2, <1>4 DEF Whereabouts, BatchesOK
  <2>2. \A u, v \in Workers : u # v => ToSet(batch'[u]) \cap ToSet(batch'[v]) = {}
    <3>1. ToSet(batch'[w]) = {}
      BY <1>2, <1>4
    <3>2. \A u, v \in Workers : u # v => ToSet(batch[u]) \cap ToSet(batch[v]) = {}
      BY DEF Whereabouts, BatchesOK
    <3> QED BY <1>2, <3>1, <3>2
  <2> QED BY <2>1, <2>2 DEF BatchesOK, Once
<1>8. QueueOK'
  BY DEF Whereabouts, QueueOK, Once
<1>9. Apart'
  BY <1>3, <1>6 DEF Whereabouts, Apart
<1>10. \A t \in Traces : t \in ToSet(batch[w]) => fate[t] = "pending" /\ t \notin InHand
                                                  /\ t \notin ToSet(queue)
  BY <1>5 DEF Whereabouts, PendingOK, Apart
<1>11. \A t \in Traces : fate'[t] = IF t \in ToSet(batch[w]) THEN f ELSE fate[t]
  BY DEF Settle
<1>12. PendingOK'
  BY <1>3, <1>6, <1>10, <1>11 DEF Whereabouts, PendingOK
<1> QED BY <1>3, <1>7, <1>8, <1>9, <1>10, <1>12 DEF Whereabouts

\* shutdown()'s sentinel is no trace.
LEMMA Wakes ==
  ASSUME TypeOK, Whereabouts, WakeWorker
  PROVE  Whereabouts' /\ \A t \in Traces : t \in ToSet(queue') <=> t \in ToSet(queue)
<1>1. Once(queue') /\ \A t \in Traces : t \in ToSet(queue') <=> t \in ToSet(queue)
  <2>1. queue \in Seq(Traces \cup {Sentinel}) /\ Once(queue)
    BY DEF TypeOK, Whereabouts, QueueOK
  <2>2. Once(Append(queue, Sentinel)) /\ ToSet(Append(queue, Sentinel)) = ToSet(queue) \cup {Sentinel}
    BY <2>1, OnceAppend
  <2> QED BY <2>1, <2>2, SentinelAssumption DEF WakeWorker
<1>2. UNCHANGED <<batch, sub, fate>>
  BY DEF WakeWorker, workerVars
<1>3. HandsOK' /\ InHand' = InHand
  BY <1>2 DEF Whereabouts, HandsOK, InHand
<1>4. \A t \in Traces : Batched(t)' <=> Batched(t)
  BY <1>2 DEF Batched
<1>5. QueueOK' /\ BatchesOK'
  BY <1>1, <1>2 DEF Whereabouts, QueueOK, BatchesOK, Once
<1>6. Apart' /\ PendingOK'
  BY <1>1, <1>2, <1>3, <1>4 DEF Whereabouts, Apart, PendingOK
<1> QED BY <1>1, <1>3, <1>5, <1>6 DEF Whereabouts

\* Initially nothing is anywhere.
LEMMA WhereaboutsInit == Init => Whereabouts
<1> SUFFICES ASSUME Init PROVE Whereabouts
  OBVIOUS
<1>1. InHand = {} /\ ToSet(queue) = {} /\ \A t \in Traces : ~Batched(t)
  BY DEF Init, InHand, ToSet, Batched
<1>2. HandsOK
  BY SentinelAssumption DEF Init, HandsOK
<1>3. QueueOK /\ BatchesOK
  BY DEF Init, QueueOK, BatchesOK, Once, ToSet
<1> QED BY <1>1, <1>2, <1>3 DEF Whereabouts, Apart, PendingOK, Init

\* Every trace stays in one place until it has its fate.
LEMMA WhereaboutsNext ==
  ASSUME TypeOK, Whereabouts, [Next]_vars
  PROVE  Whereabouts'
<1> USE DEF workerVars
<1>0. HandsOK
  BY DEF Whereabouts
<1>s. UNCHANGED sub => HandsOK' /\ InHand' = InHand
  BY <1>0 DEF HandsOK, InHand
<1>1. CASE UNCHANGED vars
  BY <1>1, <1>s, NothingMoves DEF vars
<1>2. ASSUME NEW c \in Callers, NEW t \in Traces, SubmitBegin(c, t) PROVE Whereabouts'
  <2>1. HandsOK' /\ InHand' = InHand \cup {t}
    BY <1>2, TakesInHand
  <2>2. UNCHANGED <<queue, batch>> /\ fate[t] = "new" /\ fate' = [fate EXCEPT ![t] = "pending"]
    BY <1>2 DEF SubmitBegin
  <2>3. t \notin InHand /\ t \notin ToSet(queue) /\ ~Batched(t)
    BY <2>2 DEF Whereabouts, PendingOK
  <2>4. \A x \in Traces : Batched(x)' <=> Batched(x)
    BY <2>2 DEF Batched
  <2>5. QueueOK' /\ BatchesOK'
    BY <2>2 DEF Whereabouts, QueueOK, BatchesOK, Once
  <2>6. Apart'
    BY <2>1, <2>2, <2>3, <2>4 DEF Whereabouts, Apart
  <2>7. fate'[t] = "pending" /\ \A x \in Traces \ {t} : fate'[x] = fate[x]
    BY <2>2 DEF TypeOK
  <2>8. PendingOK'
    BY <2>1, <2>2, <2>4, <2>7 DEF Whereabouts, PendingOK
  <2> QED BY <2>1, <2>5, <2>6, <2>8 DEF Whereabouts
<1>3. ASSUME NEW c \in Callers, NEW p \in SubmitPcs \ {"out"}, sub[c].pc # "out",
             sub' = [sub EXCEPT ![c].pc = p], UNCHANGED <<queue, batch, fate>>
      PROVE  Whereabouts'
  <2>1. HandsOK' /\ InHand' = InHand
    BY <1>0, <1>3, StaysInHand
  <2> QED BY <1>3, <2>1, NothingMoves
<1>4. ASSUME NEW c \in Callers, SubmitStep(c) PROVE Whereabouts'
  <2>0. SubmitPcs \ {"out"} = {"isalive", "start", "clear", "put", "evict", "reput"}
    BY DEF SubmitPcs
  <2>1. ASSUME ReadAlive(c) PROVE Whereabouts'
    <3>1. CASE Leave(c) /\ fate' = [fate EXCEPT ![sub[c].trace] = "swallowed"]
      BY <2>1, <3>1, GivesUp DEF ReadAlive, Fates
    <3>2. CASE sub' = [sub EXCEPT ![c].pc = IF Alive(thread) THEN "clear" ELSE "start"] /\ fate' = fate
      BY <1>3, <2>0, <2>1, <3>2 DEF ReadAlive
    <3> QED BY <2>1, <3>1, <3>2 DEF ReadAlive
  <2>2. ASSUME StartThread(c) PROVE Whereabouts'
    BY <1>3, <2>0, <2>2 DEF StartThread
  <2>3. ASSUME ClearIdle(c) PROVE Whereabouts'
    BY <1>3, <2>0, <2>3 DEF ClearIdle
  <2>4. ASSUME PutNowait(c) PROVE Whereabouts'
    <3>1. CASE queue' = Append(queue, sub[c].trace) /\ Leave(c)
      BY <2>4, <3>1, Queues DEF PutNowait
    <3>2. CASE sub' = [sub EXCEPT ![c].pc = "evict"] /\ UNCHANGED queue
      BY <1>3, <2>0, <2>4, <3>2 DEF PutNowait
    <3> QED BY <2>4, <3>1, <3>2 DEF PutNowait
  <2>5. ASSUME EvictOldest(c) PROVE Whereabouts'
    <3>1. CASE queue # << >>
      <4>1. sub' = [sub EXCEPT ![c].pc = "reput"] /\ sub[c].pc # "out"
        BY <2>5, <3>1 DEF EvictOldest
      <4>2. HandsOK' /\ InHand' = InHand
        BY <1>0, <2>0, <4>1, StaysInHand
      <4> QED BY <2>5, <3>1, <4>2, Evicts DEF EvictOldest
    <3>2. CASE queue = << >>
      BY <2>5, <3>2, GivesUp DEF EvictOldest, Fates
    <3> QED BY <3>1, <3>2
  <2>6. ASSUME PutAgain(c) PROVE Whereabouts'
    <3>1. CASE queue' = Append(queue, sub[c].trace) /\ fate' = fate
      BY <2>6, <3>1, Queues DEF PutAgain
    <3>2. CASE fate' = [fate EXCEPT ![sub[c].trace] = "dropped"] /\ UNCHANGED queue
      BY <2>6, <3>2, GivesUp DEF PutAgain, Fates
    <3> QED BY <2>6, <3>1, <3>2 DEF PutAgain
  <2> QED BY <1>4, <2>1, <2>2, <2>3, <2>4, <2>5, <2>6 DEF SubmitStep
<1>5. ASSUME NEW w \in Workers, WorkerStep(w) \/ IntervalElapses(w) PROVE Whereabouts'
  <2>1. CASE LoopTest(w) \/ GetTimesOut(w) \/ IdleCheck(w) \/ SetIdle(w) \/ Exit(w) \/ IntervalElapses(w)
    <3>1. UNCHANGED <<sub, queue, batch, fate>>
      BY <2>1 DEF LoopTest, GetTimesOut, IdleCheck, SetIdle, Exit, IntervalElapses
    <3> QED BY <1>s, <3>1, NothingMoves
  <2>2. CASE Get(w)
    BY <2>2, Gets
  <2>3. CASE EncodeFails(w) \/ DumpRaises(w) \/ StopBreaksRetry(w)
    <3>1. \E f \in Fates \ {"pending"} : Settle(w, f)
      BY <2>3 DEF EncodeFails, DumpRaises, StopBreaksRetry, SendReturns, Fates
    <3> QED BY <2>3, <3>1, Sends DEF EncodeFails, DumpRaises, StopBreaksRetry
  <2>4. CASE PostReturns(w)
    <3>1. \E f \in Fates \ {"pending"} : Settle(w, f)
      BY <2>4 DEF PostReturns, SendReturns, Fates
    <3> QED BY <2>4, <3>1, Sends DEF PostReturns
  <2>5. CASE PostRaises(w)
    <3>1. CASE UNCHANGED <<wpc, batch, due, fate>>
      BY <1>s, <2>5, <3>1, NothingMoves DEF PostRaises
    <3>2. CASE \E written \in Spools : SendReturns(w, IF written THEN "spooled" ELSE "unspooled")
      <4>1. \E f \in Fates \ {"pending"} : Settle(w, f)
        BY <3>2 DEF SendReturns, Fates
      <4> QED BY <2>5, <4>1, Sends DEF PostRaises
    <3> QED BY <2>5, <3>1, <3>2 DEF PostRaises
  <2> QED BY <1>5, <2>1, <2>2, <2>3, <2>4, <2>5 DEF WorkerStep
<1>6. ASSUME (\E mode \in Modes : FlushBegin(mode)) \/ ControlStep PROVE Whereabouts'
  <2>1. CASE WakeWorker
    BY <2>1, Wakes
  <2>2. CASE ~WakeWorker
    <3>1. UNCHANGED <<sub, queue, batch, fate>>
      BY <1>6, <2>2 DEF FlushBegin, ControlStep, FlushSeesEmpty, FlushReadsIdle, FlushTimesOut,
                        StopWorker, SwapThread, ReadSwapped
    <3> QED BY <1>s, <3>1, NothingMoves
  <2> QED BY <2>1, <2>2
<1> QED BY <1>1, <1>2, <1>4, <1>5, <1>6 DEF Next

-----------------------------------------------------------------------------
(***************************************************************************)
(* The counters.                                                           *)
(***************************************************************************)
\* Everything that is counted is a number.
LEMMA CounterTypes ==
  ASSUME TypeOK
  PROVE  /\ IsFiniteSet(Counted) /\ Cardinality(Counted) \in Nat
         /\ IsFiniteSet(Dropped) /\ Cardinality(Dropped) \in Nat
         /\ Cardinality(SentinelsIn(queue)) \in Nat
         /\ Owed \in 0 .. 1 /\ Allowed \in Nat
         /\ stats.exported \in Nat /\ stats.dropped \in Nat
<1>1. Counted \in SUBSET Traces /\ Dropped \in SUBSET Traces
  BY DEF Counted, Dropped
<1>2. IsFiniteSet(Counted) /\ IsFiniteSet(Dropped)
  BY <1>1, SizeAssumption, FS_Subset
<1>3. Cardinality(SentinelsIn(queue)) \in Nat
  <2>1. queue \in Seq(Traces \cup {Sentinel})
    BY DEF TypeOK
  <2> QED BY <2>1, SentinelsFinite
<1>4. ctl.calls \in Nat
  BY SizeAssumption DEF TypeOK, Controlling
<1>5. Owed \in 0 .. 1 /\ Allowed \in Nat
  BY <1>4 DEF Owed, Allowed
<1> QED BY <1>2, <1>3, <1>5, FS_CardinalityType DEF TypeOK, Stats

\* A step that counts nothing, and queues no sentinel that is not owed.
LEMMA CountsNothing ==
  ASSUME TypeOK, TypeOK', CountersOK,
         stats'.exported = stats.exported, stats'.dropped = stats.dropped,
         \A t \in Traces : fate'[t] = fate[t] \/ {fate[t], fate'[t]} \cap
                                                 {"delivered", "rejected", "dropped"} = {},
         Cardinality(SentinelsIn(queue')) + Owed' <= Cardinality(SentinelsIn(queue)) + Owed,
         Allowed' = Allowed
  PROVE  CountersOK'
<1>1. Counted' = Counted /\ Dropped' = Dropped
  BY DEF Counted, Dropped
<1>2. /\ Cardinality(Dropped) \in Nat /\ Cardinality(SentinelsIn(queue)) \in Nat
      /\ Owed \in 0 .. 1 /\ Allowed \in Nat /\ stats.dropped \in Nat
  BY CounterTypes
<1>3. Cardinality(SentinelsIn(queue')) \in Nat /\ Owed' \in 0 .. 1
  <2>1. queue' \in Seq(Traces \cup {Sentinel})
    BY DEF TypeOK
  <2> QED BY <2>1, SentinelsFinite DEF Owed
<1>4. Cardinality(SentinelsIn(queue))' = Cardinality(SentinelsIn(queue'))
  BY DEF SentinelsIn
<1> QED BY <1>1, <1>2, <1>3, <1>4 DEF CountersOK

\* A trace that is dropped is counted, and so may be a sentinel.
LEMMA CountsDropped ==
  ASSUME TypeOK, TypeOK', CountersOK, ctl' = ctl, stats' = [stats EXCEPT !.dropped = @ + 1],
         NEW x,
         \/ /\ x = Sentinel /\ fate' = fate
            /\ Cardinality(SentinelsIn(queue')) = Cardinality(SentinelsIn(queue)) - 1
         \/ /\ x \in Traces /\ fate[x] = "pending" /\ fate' = [fate EXCEPT ![x] = "dropped"]
            /\ Cardinality(SentinelsIn(queue')) = Cardinality(SentinelsIn(queue))
  PROVE  CountersOK'
<1>1. /\ Cardinality(Dropped) \in Nat /\ IsFiniteSet(Dropped)
      /\ Cardinality(SentinelsIn(queue)) \in Nat
      /\ Owed \in 0 .. 1 /\ Allowed \in Nat /\ stats.dropped \in Nat
  BY CounterTypes
<1>2. stats'.exported = stats.exported /\ stats'.dropped = stats.dropped + 1
  BY DEF TypeOK, Stats
<1>3. Owed' = Owed /\ Allowed' = Allowed
  BY DEF Owed, Allowed
<1>4. Cardinality(SentinelsIn(queue))' = Cardinality(SentinelsIn(queue'))
  BY DEF SentinelsIn
<1>5. CASE /\ x = Sentinel /\ fate' = fate
           /\ Cardinality(SentinelsIn(queue')) = Cardinality(SentinelsIn(queue)) - 1
  <2>1. Counted' = Counted /\ Dropped' = Dropped
    BY <1>5 DEF Counted, Dropped
  <2> QED BY <1>1, <1>2, <1>3, <1>4, <1>5, <2>1 DEF CountersOK
<1>6. CASE /\ x \in Traces /\ fate[x] = "pending" /\ fate' = [fate EXCEPT ![x] = "dropped"]
           /\ Cardinality(SentinelsIn(queue')) = Cardinality(SentinelsIn(queue))
  <2>1. fate'[x] = "dropped" /\ \A t \in Traces \ {x} : fate'[t] = fate[t]
    BY <1>6 DEF TypeOK
  <2>2. Counted' = Counted /\ Dropped' = Dropped \cup {x} /\ x \notin Dropped
    BY <1>6, <2>1 DEF Counted, Dropped
  <2>3. Cardinality(Dropped)' = Cardinality(Dropped) + 1
    <3>1. Cardinality(Dropped \cup {x}) = Cardinality(Dropped) + 1
      BY <1>1, <2>2, FS_AddElement
    <3> QED BY <2>2, <3>1
  <2> QED BY <1>1, <1>2, <1>3, <1>4, <1>6, <2>2, <2>3 DEF CountersOK
<1> QED BY <1>5, <1>6

\* A post that returns counts what its batch held, each trace once.
LEMMA CountsExported ==
  ASSUME TypeOK, Whereabouts, CountersOK, NEW w \in Workers, PostReturns(w)
  PROVE  CountersOK'
<1>1. PICK f \in {"delivered", "rejected"} : SendReturns(w, f)
  BY DEF PostReturns
<1>2. UNCHANGED <<queue, sub, ctl>>
  BY DEF PostReturns
<1>3. \A t \in Traces : t \in ToSet(batch[w]) => fate[t] = "pending"
  BY <1>1, <1>2, Sends DEF SendReturns, Fates
<1>4. batch[w] \in Seq(Traces) /\ Once(batch[w])
  BY DEF TypeOK, Whereabouts, BatchesOK
<1>5. /\ IsFiniteSet(ToSet(batch[w])) /\ Cardinality(ToSet(batch[w])) = Len(batch[w])
      /\ \A t \in ToSet(batch[w]) : t \in Traces
  <2>1. \A t \in ToSet(batch[w]) : t \in Traces
    BY <1>4 DEF ToSet
  <2> QED BY <1>4, <2>1, OnceCounts
<1>6. \A t \in Traces : fate'[t] = IF t \in ToSet(batch[w]) THEN f ELSE fate[t]
  BY <1>1 DEF SendReturns, Settle
<1>7. Dropped' = Dropped
  BY <1>3, <1>6 DEF Dropped
<1>8. Counted' = Counted \cup ToSet(batch[w])
  BY <1>5, <1>6 DEF Counted
<1>9. Counted \cap ToSet(batch[w]) = {}
  BY <1>3 DEF Counted
<1>10. Cardinality(Counted)' = Cardinality(Counted) + Len(batch[w])
  <2>1. IsFiniteSet(Counted) /\ Cardinality(Counted) \in Nat /\ Len(batch[w]) \in Nat
    BY <1>4, CounterTypes
  <2>2. Cardinality(Counted \cap ToSet(batch[w])) = 0
    BY <1>9, FS_EmptySet
  <2>3. Cardinality(Counted \cup ToSet(batch[w]))
          = Cardinality(Counted) + Cardinality(ToSet(batch[w])) - Cardinality(Counted \cap ToSet(batch[w]))
    BY <1>5, <2>1, FS_Union
  <2> QED BY <1>5, <1>8, <2>1, <2>2, <2>3
<1>11. stats' = [stats EXCEPT !.exported = stats.exported + Len(batch[w])] /\ stats \in Stats
  BY DEF PostReturns, Exported, TypeOK
<1>12. stats'.exported = stats.exported + Len(batch[w]) /\ stats'.dropped = stats.dropped
  BY <1>11 DEF Stats
<1>13. Owed' = Owed /\ Allowed' = Allowed /\ SentinelsIn(queue)' = SentinelsIn(queue)
  BY <1>2 DEF Owed, Allowed, SentinelsIn
<1> QED BY <1>7, <1>10, <1>12, <1>13 DEF CountersOK

\* ExportStats adds up initially.
LEMMA CountersInit == Init => CountersOK
<1> SUFFICES ASSUME Init PROVE CountersOK
  OBVIOUS
<1>1. Counted = {} /\ Dropped = {} /\ SentinelsIn(queue) = {}
  BY DEF Init, Counted, Dropped, SentinelsIn
<1>2. Owed = 0 /\ Allowed = 0 /\ stats.exported = 0 /\ stats.dropped = 0
  BY DEF Init, Owed, Allowed
<1>3. Cardinality({}) = 0
  BY FS_EmptySet
<1> QED BY <1>1, <1>2, <1>3 DEF CountersOK

\* ExportStats keeps adding up.
LEMMA CountersNext ==
  ASSUME TypeOK, TypeOK', Whereabouts, ControlOK, CountersOK, [Next]_vars
  PROVE  CountersOK'
<1> USE DEF workerVars
<1>0. HandsOK
  BY DEF Whereabouts
<1>t. queue \in Seq(Traces \cup {Sentinel})
  BY DEF TypeOK
<1>n. /\ Cardinality(SentinelsIn(queue)) \in Nat /\ Owed \in 0 .. 1 /\ Allowed \in Nat
      /\ Cardinality(Dropped) \in Nat /\ stats.dropped \in Nat
  BY CounterTypes
<1>q. UNCHANGED <<queue, ctl>> =>
        /\ Cardinality(SentinelsIn(queue')) + Owed' <= Cardinality(SentinelsIn(queue)) + Owed
        /\ Allowed' = Allowed
  BY <1>n DEF Owed, Allowed
<1>1. CASE UNCHANGED vars
  BY <1>1, <1>q, CountsNothing DEF vars
<1>2. ASSUME NEW c \in Callers, NEW t \in Traces, SubmitBegin(c, t) PROVE CountersOK'
  <2>1. \A x \in Traces : fate'[x] = fate[x] \/ (fate[x] = "new" /\ fate'[x] = "pending")
    BY <1>2 DEF SubmitBegin, TypeOK
  <2> QED BY <1>2, <1>q, <2>1, CountsNothing DEF SubmitBegin
<1>3. ASSUME NEW c \in Callers, sub[c].pc # "out"
      PROVE  sub[c].trace \in Traces /\ fate[sub[c].trace] = "pending"
  <2>1. sub[c].trace \in Traces /\ sub[c].trace \in InHand
    BY <1>3, Hands DEF Whereabouts, HandsOK
  <2> QED BY <2>1 DEF Whereabouts, PendingOK
<1>4. ASSUME NEW c \in Callers, sub[c].pc # "out", queue' = Append(queue, sub[c].trace), ctl' = ctl
      PROVE  /\ Cardinality(SentinelsIn(queue')) + Owed' <= Cardinality(SentinelsIn(queue)) + Owed
             /\ Allowed' = Allowed
  <2>1. sub[c].trace \in Traces \cup {Sentinel} /\ sub[c].trace # Sentinel
    BY <1>3, <1>4, SentinelAssumption
  <2>2. Cardinality(SentinelsIn(queue')) = Cardinality(SentinelsIn(queue)) + 0
    BY <1>4, <1>t, <2>1, SentinelsAppend
  <2>3. Owed' = Owed /\ Allowed' = Allowed
    BY <1>4 DEF Owed, Allowed
  <2> QED BY <1>n, <2>2, <2>3
<1>5. ASSUME NEW c \in Callers, SubmitStep(c) PROVE CountersOK'
  <2>1. CASE ReadAlive(c)
    <3>1. sub[c].pc # "out" /\ UNCHANGED <<queue, ctl, stats>>
      BY <2>1 DEF ReadAlive
    <3>2. \A x \in Traces : fate'[x] = fate[x] \/ (fate[x] = "pending" /\ fate'[x] = "swallowed")
      BY <1>3, <2>1, <3>1 DEF ReadAlive, TypeOK
    <3> QED BY <1>q, <3>1, <3>2, CountsNothing
  <2>2. CASE StartThread(c) \/ ClearIdle(c)
    BY <1>q, <2>2, CountsNothing DEF StartThread, ClearIdle
  <2>3. CASE PutNowait(c)
    <3>1. sub[c].pc # "out" /\ UNCHANGED <<ctl, fate, stats>>
      BY <2>3 DEF PutNowait
    <3>2. queue' = queue \/ queue' = Append(queue, sub[c].trace)
      BY <2>3 DEF PutNowait
    <3> QED BY <1>4, <1>q, <3>1, <3>2, CountsNothing
  <2>4. CASE EvictOldest(c)
    <3>0. sub[c].pc # "out" /\ ctl' = ctl /\ stats' = [stats EXCEPT !.dropped = @ + 1]
      BY <2>4 DEF EvictOldest
    <3>1. CASE queue # << >>
      <4> DEFINE x == Head(queue)
      <4>1. queue' = Tail(queue)
            /\ fate' = IF x = Sentinel THEN fate ELSE [fate EXCEPT ![x] = "dropped"]
        BY <2>4, <3>1 DEF EvictOldest
      <4>2. Cardinality(SentinelsIn(queue'))
              = Cardinality(SentinelsIn(queue)) - IF x = Sentinel THEN 1 ELSE 0
        BY <1>t, <3>1, <4>1, SentinelsTail
      <4>3. CASE x = Sentinel
        BY <3>0, <4>1, <4>2, <4>3, CountsDropped
      <4>4. CASE x # Sentinel
        <5>1. x \in Traces /\ x \in ToSet(queue)
          BY <3>1, <4>4, QueueTail
        <5>2. fate[x] = "pending"
          BY <5>1 DEF Whereabouts, PendingOK
        <5>3. fate' = [fate EXCEPT ![x] = "dropped"]
          BY <4>1, <4>4
        <5>4. Cardinality(SentinelsIn(queue')) = Cardinality(SentinelsIn(queue))
          BY <1>n, <4>2, <4>4
        <5> HIDE DEF x
        <5> QED BY <3>0, <5>1, <5>2, <5>3, <5>4, CountsDropped
      <4> QED BY <4>3, <4>4
    <3>2. CASE queue = << >>
      <4>1. queue' = queue /\ fate' = [fate EXCEPT ![sub[c].trace] = "dropped"]
        BY <2>4, <3>2 DEF EvictOldest
      <4> QED BY <1>3, <3>0, <4>1, CountsDropped
    <3> QED BY <3>1, <3>2
  <2>5. CASE PutAgain(c)
    <3>0. sub[c].pc # "out" /\ ctl' = ctl
      BY <2>5 DEF PutAgain
    <3>1. CASE queue' = Append(queue, sub[c].trace) /\ UNCHANGED <<fate, stats>>
      BY <1>4, <3>0, <3>1, CountsNothing
    <3>2. CASE /\ stats' = [stats EXCEPT !.dropped = @ + 1]
               /\ fate' = [fate EXCEPT ![sub[c].trace] = "dropped"] /\ queue' = queue
      BY <1>3, <3>0, <3>2, CountsDropped
    <3> QED BY <2>5, <3>1, <3>2 DEF PutAgain
  <2> QED BY <1>5, <2>1, <2>2, <2>3, <2>4, <2>5 DEF SubmitStep
<1>6. ASSUME NEW w \in Workers,
             NEW f \in {"unencodable", "crashed", "abandoned", "spooled", "unspooled"},
             Settle(w, f), UNCHANGED <<queue, sub, ctl>>,
             stats'.exported = stats.exported, stats'.dropped = stats.dropped
      PROVE  CountersOK'
  <2>1. \A t \in Traces : t \in ToSet(batch[w]) => fate[t] = "pending"
    BY <1>6, Sends DEF Fates
  <2>2. \A t \in Traces : fate'[t] = IF t \in ToSet(batch[w]) THEN f ELSE fate[t]
    BY <1>6 DEF Settle
  <2> QED BY <1>6, <1>q, <2>1, <2>2, CountsNothing
<1>7. ASSUME NEW w \in Workers, WorkerStep(w) \/ IntervalElapses(w) PROVE CountersOK'
  <2>1. CASE LoopTest(w) \/ GetTimesOut(w) \/ IdleCheck(w) \/ SetIdle(w) \/ Exit(w) \/ IntervalElapses(w)
    <3>1. UNCHANGED <<queue, ctl, fate, stats>>
      BY <2>1 DEF LoopTest, GetTimesOut, IdleCheck, SetIdle, Exit, IntervalElapses
    <3> QED BY <1>q, <3>1, CountsNothing
  <2>2. CASE Get(w)
    <3>1. queue # << >> /\ queue' = Tail(queue) /\ UNCHANGED <<ctl, fate, stats>>
      BY <2>2 DEF Get
    <3>2. Cardinality(SentinelsIn(queue'))
            = Cardinality(SentinelsIn(queue)) - IF Head(queue) = Sentinel THEN 1 ELSE 0
      BY <1>t, <3>1, SentinelsTail
    <3>3. Owed' = Owed /\ Allowed' = Allowed
      BY <3>1 DEF Owed, Allowed
    <3>4. Cardinality(SentinelsIn(queue')) + Owed' <= Cardinality(SentinelsIn(queue)) + Owed
      BY <1>n, <3>2, <3>3
    <3> QED BY <3>1, <3>3, <3>4, CountsNothing
  <2>3. CASE EncodeFails(w) \/ DumpRaises(w) \/ StopBreaksRetry(w)
    BY <1>6, <2>3 DEF EncodeFails, DumpRaises, StopBreaksRetry, SendReturns
  <2>4. CASE PostReturns(w)
    BY <2>4, CountsExported
  <2>5. CASE PostRaises(w)
    <3>0. stats'.exported = stats.exported /\ stats'.dropped = stats.dropped
      BY <2>5 DEF PostRaises, TypeOK, Stats
    <3>1. CASE UNCHANGED <<wpc, batch, due, fate>>
      BY <1>q, <2>5, <3>0, <3>1, CountsNothing DEF PostRaises
    <3>2. CASE \E written \in Spools : SendReturns(w, IF written THEN "spooled" ELSE "unspooled")
      BY <1>6, <2>5, <3>0, <3>2 DEF PostRaises, SendReturns
    <3> QED BY <2>5, <3>1, <3>2 DEF PostRaises
  <2> QED BY <1>7, <2>1, <2>2, <2>3, <2>4, <2>5 DEF WorkerStep
<1>8. ASSUME NEW mode \in Modes, FlushBegin(mode) PROVE CountersOK'
  <2>1. ctl \in Controlling
    BY DEF TypeOK
  <2>2. UNCHANGED <<queue, fate, stats>> /\ ctl.pc = "out"
    BY <1>8 DEF FlushBegin
  <2>3. /\ ctl'.calls = ctl.calls + 1 /\ ctl'.mode = mode
        /\ ctl'.pc = IF Alive(thread) THEN "poll" ELSE AfterFlush(mode)
    BY <1>8, <2>1 DEF FlushBegin, Controlling
  <2>4. Owed = 0
    BY <2>2 DEF Owed
  <2>5. ctl.calls \in Nat
    BY <2>1, SizeAssumption DEF Controlling
  <2>6. Allowed' >= Allowed + Owed' /\ Allowed' \in Nat /\ Owed' \in Nat
    BY <2>3, <2>5 DEF Owed, Allowed, AfterFlush
  <2>7. /\ Cardinality(Counted)' = Cardinality(Counted)
        /\ Cardinality(Dropped)' = Cardinality(Dropped)
        /\ Cardinality(SentinelsIn(queue))' = Cardinality(SentinelsIn(queue))
    BY <2>2 DEF Counted, Dropped, SentinelsIn
  <2>8. /\ stats.exported = Cardinality(Counted)
        /\ stats.dropped >= Cardinality(Dropped)
        /\ stats.dropped + Cardinality(SentinelsIn(queue)) + Owed <= Cardinality(Dropped) + Allowed
    BY DEF CountersOK
  <2>9. stats.dropped + Cardinality(SentinelsIn(queue)) + Owed' <= Cardinality(Dropped) + Allowed'
    <3>1. \A d, n, c, a, b, o \in Nat : d + n + 0 <= c + a /\ b >= a + o => d + n + o <= c + b
      OBVIOUS
    <3>2. stats.dropped + Cardinality(SentinelsIn(queue)) + 0 <= Cardinality(Dropped) + Allowed
      BY <2>4, <2>8
    <3> QED BY <1>n, <2>6, <3>1, <3>2
  <2>10. stats' = stats
    BY <2>2
  <2> QED BY <2>7, <2>8, <2>9, <2>10 DEF CountersOK
<1>9. ASSUME ControlStep PROVE CountersOK'
  <2>1. ctl \in Controlling /\ ctl' \in Controlling
    BY DEF TypeOK
  <2>2. UNCHANGED <<fate, stats>> /\ ctl.pc # "out"
    BY <1>9 DEF ControlStep, FlushSeesEmpty, FlushReadsIdle, FlushTimesOut, StopWorker, SwapThread,
                ReadSwapped, WakeWorker
  <2>3. ctl'.mode = ctl.mode /\ ctl'.calls = ctl.calls
    BY <1>9, <2>1 DEF ControlStep, FlushSeesEmpty, FlushReadsIdle, FlushTimesOut, StopWorker,
                      SwapThread, ReadSwapped, WakeWorker, FlushReturns, Controlling
  <2>4. Owed' <= Owed /\ Allowed' = Allowed /\ Owed' \in 0 .. 1
    BY <2>2, <2>3 DEF Owed, Allowed
  <2>5. CASE WakeWorker
    <3>1. Owed = 1 /\ Owed' = 0
      <4>1. ctl.pc = "wake" /\ ctl'.pc = "out"
        BY <2>1, <2>5 DEF WakeWorker, Controlling
      <4> QED BY <4>1 DEF Owed, ControlOK
    <3>2. Cardinality(SentinelsIn(queue')) <= Cardinality(SentinelsIn(queue)) + 1
      <4>1. Cardinality(SentinelsIn(Append(queue, Sentinel))) = Cardinality(SentinelsIn(queue)) + 1
        BY <1>t, SentinelsAppend
      <4>2. queue' = queue \/ queue' = Append(queue, Sentinel)
        BY <2>5 DEF WakeWorker
      <4>3. CASE queue' = queue
        BY <1>n, <4>3
      <4>4. CASE queue' = Append(queue, Sentinel)
        <5>1. SentinelsIn(queue') = SentinelsIn(Append(queue, Sentinel))
          BY <4>4
        <5> QED BY <1>n, <4>1, <5>1
      <4> QED BY <4>2, <4>3, <4>4
    <3>3. Cardinality(SentinelsIn(queue')) \in Nat
      <4>1. queue' \in Seq(Traces \cup {Sentinel})
        BY DEF TypeOK
      <4> QED BY <4>1, SentinelsFinite
    <3>4. Cardinality(SentinelsIn(queue')) + Owed' <= Cardinality(SentinelsIn(queue)) + Owed
      BY <1>n, <3>1, <3>2, <3>3
    <3> QED BY <2>2, <2>4, <3>4, CountsNothing
  <2>6. CASE ~WakeWorker
    <3>1. queue' = queue
      BY <1>9, <2>6 DEF ControlStep, FlushSeesEmpty, FlushReadsIdle, FlushTimesOut, StopWorker,
                        SwapThread, ReadSwapped
    <3>2. Cardinality(SentinelsIn(queue')) + Owed' <= Cardinality(SentinelsIn(queue)) + Owed
      BY <1>n, <2>4, <3>1
    <3> QED BY <2>2, <2>4, <3>2, CountsNothing
  <2> QED BY <2>5, <2>6
<1> QED BY <1>1, <1>2, <1>5, <1>7, <1>8, <1>9 DEF Next

\* Every post that raises is counted, and a batch is given up after one that did.
LEMMA FailuresNext ==
  ASSUME TypeOK, FailuresOK, [Next]_vars
  PROVE  FailuresOK'
<1> USE DEF workerVars
<1>0. /\ fate \in [Traces -> Fates] /\ attempt \in [Workers -> 0 .. MaxRetries - 1]
      /\ stats \in Stats /\ stats.failures \in Nat /\ MaxRetries \in Nat \ {0}
  BY SizeAssumption DEF TypeOK, Stats
<1>1. ASSUME stats'.failures = stats.failures, attempt' = attempt,
             \A t \in Traces : fate'[t] = fate[t]
                               \/ fate'[t] \notin {"spooled", "unspooled", "abandoned"}
      PROVE  FailuresOK'
  BY <1>1 DEF FailuresOK
<1>2. ASSUME NEW w \in Workers, NEW f, SendReturns(w, f), stats'.failures >= stats.failures,
             stats'.failures \in Nat,
             f \in {"spooled", "unspooled"} => stats'.failures >= MaxRetries,
             f = "abandoned" => stats'.failures > 0
      PROVE  FailuresOK'
  <2>1. \A t \in Traces : fate'[t] = IF t \in ToSet(batch[w]) THEN f ELSE fate[t]
    BY <1>2 DEF SendReturns, Settle
  <2>2. attempt'[w] = 0 /\ \A v \in Workers \ {w} : attempt'[v] = attempt[v]
    BY <1>0, <1>2 DEF SendReturns
  <2>3. \A v \in Workers : attempt'[v] <= stats'.failures
    BY <1>0, <1>2, <2>2 DEF FailuresOK
  <2> QED BY <1>0, <1>2, <2>1, <2>3 DEF FailuresOK
<1>3. ASSUME NEW c \in Callers, NEW t \in Traces, SubmitBegin(c, t) PROVE FailuresOK'
  BY <1>0, <1>1, <1>3 DEF SubmitBegin
<1>4. ASSUME NEW c \in Callers, SubmitStep(c) PROVE FailuresOK'
  <2>1. stats'.failures = stats.failures /\ attempt' = attempt
    BY <1>0, <1>4 DEF SubmitStep, ReadAlive, StartThread, ClearIdle, PutNowait, EvictOldest,
                      PutAgain, Stats
  <2>2. \A t \in Traces : fate'[t] = fate[t]
                          \/ fate'[t] \notin {"spooled", "unspooled", "abandoned"}
    BY <1>0, <1>4 DEF SubmitStep, ReadAlive, StartThread, ClearIdle, PutNowait, EvictOldest, PutAgain
  <2> QED BY <1>1, <2>1, <2>2
<1>5. ASSUME NEW w \in Workers, WorkerStep(w) \/ IntervalElapses(w) PROVE FailuresOK'
  <2>1. CASE \/ LoopTest(w) \/ Get(w) \/ GetTimesOut(w) \/ IdleCheck(w) \/ SetIdle(w) \/ Exit(w)
             \/ IntervalElapses(w)
    <3>1. UNCHANGED <<stats, attempt, fate>>
      BY <2>1 DEF LoopTest, Get, GetTimesOut, IdleCheck, SetIdle, Exit, IntervalElapses
    <3> QED BY <1>1, <3>1
  <2>2. CASE EncodeFails(w)
    BY <1>0, <1>2, <2>2 DEF EncodeFails
  <2>3. CASE DumpRaises(w)
    BY <1>1, <2>3 DEF DumpRaises, Settle
  <2>4. CASE StopBreaksRetry(w)
    <3>1. stats.failures > 0
      BY <1>0, <2>4 DEF StopBreaksRetry, MustBreak, FailuresOK
    <3> QED BY <1>0, <1>2, <2>4, <3>1 DEF StopBreaksRetry
  <2>5. CASE PostReturns(w)
    <3>1. stats'.failures = stats.failures
      BY <1>0, <2>5 DEF PostReturns, Stats
    <3>2. \E f \in {"delivered", "rejected"} : SendReturns(w, f)
      BY <2>5 DEF PostReturns
    <3> QED BY <1>0, <1>2, <3>1, <3>2
  <2>6. CASE PostRaises(w)
    <3>1. stats'.failures = stats.failures + 1
      BY <1>0, <2>6 DEF PostRaises, Stats
    <3>2. CASE attempt[w] < MaxRetries - 1
      <4>1. attempt' = [attempt EXCEPT ![w] = @ + 1] /\ fate' = fate
        BY <1>0, <2>6, <3>2 DEF PostRaises
      <4>2. \A v \in Workers : attempt'[v] <= stats'.failures
        BY <1>0, <3>1, <4>1 DEF FailuresOK
      <4> QED BY <1>0, <3>1, <4>1, <4>2 DEF FailuresOK
    <3>3. CASE attempt[w] = MaxRetries - 1
      <4>1. PICK f \in {"spooled", "unspooled"} : SendReturns(w, f)
        BY <1>0, <2>6, <3>3 DEF PostRaises
      <4>2. stats.failures >= MaxRetries - 1
        BY <1>0, <3>3 DEF FailuresOK
      <4> QED BY <1>0, <1>2, <3>1, <4>1, <4>2
    <3> QED BY <2>6, <3>2, <3>3 DEF PostRaises
  <2> QED BY <1>5, <2>1, <2>2, <2>3, <2>4, <2>5, <2>6 DEF WorkerStep
<1>6. ASSUME UNCHANGED vars \/ (\E mode \in Modes : FlushBegin(mode)) \/ ControlStep
      PROVE  FailuresOK'
  <2>1. UNCHANGED <<stats, attempt, fate>>
    BY <1>6 DEF vars, FlushBegin, ControlStep, FlushSeesEmpty, FlushReadsIdle, FlushTimesOut,
                StopWorker, SwapThread, ReadSwapped, WakeWorker
  <2> QED BY <1>1, <2>1
<1> QED BY <1>3, <1>4, <1>5, <1>6 DEF Next

-----------------------------------------------------------------------------
(***************************************************************************)
(* The controlling thread, the daemons, and what a flush() answers for.    *)
(***************************************************************************)
\* The controlling thread takes shutdown()'s steps in a shutdown() only.
LEMMA ControlNext ==
  ASSUME TypeOK, ControlOK, [Next]_vars
  PROVE  ControlOK' /\ (ctl.shut => ctl'.shut)
<1> USE DEF workerVars
<1>1. ctl \in Controlling
  BY DEF TypeOK
<1>2. CASE ctl' = ctl
  BY <1>2 DEF ControlOK
<1>3. ASSUME NEW mode \in Modes, FlushBegin(mode) PROVE ControlOK' /\ (ctl.shut => ctl'.shut)
  <2>1. /\ ctl'.pc = IF Alive(thread) THEN "poll" ELSE AfterFlush(mode)
        /\ ctl'.mode = mode /\ ctl'.shut = (ctl.shut \/ mode = "shutdown")
    BY <1>1, <1>3 DEF FlushBegin, Controlling
  <2>2. mode \in {"flush", "shutdown"}
    BY ChoiceAssumption
  <2> QED BY <2>1, <2>2 DEF ControlOK, AfterFlush
<1>4. ASSUME ControlStep PROVE ControlOK' /\ (ctl.shut => ctl'.shut)
  <2>1. ctl'.mode = ctl.mode /\ ctl'.shut = ctl.shut /\ ctl.pc # "out"
    BY <1>1, <1>4 DEF ControlStep, FlushSeesEmpty, FlushReadsIdle, FlushTimesOut, StopWorker,
                      SwapThread, ReadSwapped, WakeWorker, FlushReturns, Controlling
  <2>2. ctl'.pc \in {"stop", "swap", "isalive", "wake"} =>
          ctl.mode = "shutdown" \/ ctl.pc \in {"stop", "swap", "isalive", "wake"}
    BY <1>1, <1>4 DEF ControlStep, FlushSeesEmpty, FlushReadsIdle, FlushTimesOut, StopWorker,
                      SwapThread, ReadSwapped, WakeWorker, FlushReturns, AfterFlush, Controlling
  <2> QED BY <2>1, <2>2 DEF ControlOK
<1>5. ctl' = ctl \/ (\E mode \in Modes : FlushBegin(mode)) \/ ControlStep
  BY DEF Next, vars, SubmitBegin, SubmitStep, ReadAlive, StartThread, ClearIdle, PutNowait,
         EvictOldest, PutAgain, WorkerStep, LoopTest, Get, GetTimesOut, IdleCheck, SetIdle, Exit,
         EncodeFails, DumpRaises, StopBreaksRetry, PostReturns, PostRaises, IntervalElapses
<1> QED BY <1>2, <1>3, <1>4, <1>5

\* A daemon that is done holds nothing.
LEMMA DoneWorkersNext ==
  ASSUME TypeOK, DoneWorkersOK, [Next]_vars
  PROVE  DoneWorkersOK'
<1> USE DEF workerVars
<1>0. wpc \in [Workers -> WorkerPcs] /\ batch \in [Workers -> Seq(Traces)]
  BY DEF TypeOK
<1>1. CASE UNCHANGED <<wpc, batch>>
  BY <1>1 DEF DoneWorkersOK
<1>2. ASSUME NEW c \in Callers, StartThread(c) PROVE DoneWorkersOK'
  BY <1>0, <1>2 DEF StartThread, DoneWorkersOK
<1>3. ASSUME NEW w \in Workers, NEW p, Goto(w, p), batch' = batch,
             p \in {"unborn", "exit", "dead"} => batch[w] = << >>
      PROVE  DoneWorkersOK'
  BY <1>0, <1>3 DEF DoneWorkersOK, Goto
<1>4. ASSUME NEW w \in Workers, NEW f, SendReturns(w, f) PROVE DoneWorkersOK'
  <2>1. batch'[w] = << >> /\ \A v \in Workers \ {w} : batch'[v] = batch[v] /\ wpc'[v] = wpc[v]
    BY <1>0, <1>4 DEF SendReturns, Settle, Cleared, Goto
  <2> QED BY <2>1 DEF DoneWorkersOK
<1>5. ASSUME NEW w \in Workers, WorkerStep(w) \/ IntervalElapses(w) PROVE DoneWorkersOK'
  <2>1. CASE LoopTest(w)
    BY <1>3, <2>1 DEF LoopTest, AfterLoop
  <2>2. CASE Get(w)
    <3>1. CASE Head(queue) = Sentinel
      BY <1>3, <2>2, <3>1 DEF Get, AfterLoop
    <3>2. CASE Head(queue) # Sentinel
      <4>1. \E p \in {"send", "idlecheck"} : wpc' = [wpc EXCEPT ![w] = p]
        BY <2>2, <3>2 DEF Get, Decide, Goto
      <4>2. \A v \in Workers \ {w} : batch'[v] = batch[v]
        BY <1>0, <2>2, <3>2 DEF Get
      <4> QED BY <1>0, <4>1, <4>2 DEF DoneWorkersOK
    <3> QED BY <3>1, <3>2
  <2>3. CASE GetTimesOut(w)
    BY <1>3, <2>3 DEF GetTimesOut, Decide
  <2>4. CASE IdleCheck(w)
    BY <1>3, <2>4 DEF IdleCheck
  <2>5. CASE SetIdle(w)
    BY <1>3, <2>5 DEF SetIdle
  <2>6. CASE Exit(w)
    BY <1>3, <2>6 DEF Exit, DoneWorkersOK
  <2>7. CASE EncodeFails(w) \/ StopBreaksRetry(w) \/ PostReturns(w)
    BY <1>4, <2>7 DEF EncodeFails, StopBreaksRetry, PostReturns
  <2>10. CASE DumpRaises(w)
    <3>1. batch'[w] = << >> /\ \A v \in Workers \ {w} : batch'[v] = batch[v] /\ wpc'[v] = wpc[v]
      BY <1>0, <2>10 DEF DumpRaises, Settle, Cleared, Goto
    <3> QED BY <3>1 DEF DoneWorkersOK
  <2>8. CASE PostRaises(w)
    BY <1>1, <1>4, <2>8 DEF PostRaises
  <2>9. CASE IntervalElapses(w)
    BY <1>1, <2>9 DEF IntervalElapses
  <2> QED BY <1>5, <2>1, <2>2, <2>3, <2>4, <2>5, <2>6, <2>7, <2>8, <2>9, <2>10 DEF WorkerStep
<1>6. \/ UNCHANGED <<wpc, batch>>
      \/ \E c \in Callers : StartThread(c)
      \/ \E w \in Workers : WorkerStep(w) \/ IntervalElapses(w)
  BY DEF Next, vars, SubmitBegin, SubmitStep, ReadAlive, ClearIdle, PutNowait, EvictOldest, PutAgain,
         FlushBegin, ControlStep, FlushSeesEmpty, FlushReadsIdle, FlushTimesOut, StopWorker,
         SwapThread, ReadSwapped, WakeWorker
<1> QED BY <1>1, <1>2, <1>5, <1>6

\* A trace comes into a hand when it is new, and into the queue out of a hand.
LEMMA Comings ==
  ASSUME TypeOK, Whereabouts, [Next]_vars
  PROVE  \A t \in Traces : /\ fate'[t] = "new" => fate[t] = "new"
                           /\ t \in InHand' => t \in InHand \/ fate[t] = "new"
                           /\ t \in ToSet(queue') => t \in ToSet(queue) \/ t \in InHand
<1> DEFINE P == \A t \in Traces : /\ fate'[t] = "new" => fate[t] = "new"
                                  /\ t \in InHand' => t \in InHand \/ fate[t] = "new"
                                  /\ t \in ToSet(queue') => t \in ToSet(queue) \/ t \in InHand
<1> USE DEF workerVars
<1>0. HandsOK /\ fate \in [Traces -> Fates]
  BY DEF Whereabouts, TypeOK
<1>1. ASSUME UNCHANGED <<queue, sub>>, \A t \in Traces : fate'[t] = "new" => fate[t] = "new" PROVE P
  BY <1>1 DEF InHand
<1>2. ASSUME NEW c \in Callers, NEW t \in Traces, SubmitBegin(c, t) PROVE P
  <2>1. InHand' = InHand \cup {t}
    BY <1>2, TakesInHand
  <2>2. queue' = queue /\ fate[t] = "new" /\ fate' = [fate EXCEPT ![t] = "pending"]
    BY <1>2 DEF SubmitBegin
  <2> QED BY <1>0, <2>1, <2>2
<1>3. ASSUME NEW c \in Callers, SubmitStep(c) PROVE P
  <2>0. SubmitPcs \ {"out"} = {"isalive", "start", "clear", "put", "evict", "reput"}
    BY DEF SubmitPcs
  <2>1. sub[c].pc # "out" /\ \/ Leave(c)
                             \/ \E p \in SubmitPcs \ {"out"} : sub' = [sub EXCEPT ![c].pc = p]
    BY <1>3, <2>0 DEF SubmitStep, ReadAlive, StartThread, ClearIdle, PutNowait, EvictOldest, PutAgain
  <2>2. \A x : x \in InHand' => x \in InHand
    BY <1>0, <2>1, StaysInHand, LeavesHand
  <2>3. \A t \in Traces : fate'[t] = "new" => fate[t] = "new"
    BY <1>0, <1>3 DEF SubmitStep, ReadAlive, StartThread, ClearIdle, PutNowait, EvictOldest, PutAgain
  <2>4. \A t \in Traces : t \in ToSet(queue') => t \in ToSet(queue) \/ t \in InHand
    <3>1. CASE queue' = queue
      BY <3>1
    <3>2. CASE queue' = Append(queue, sub[c].trace) /\ Leave(c)
      <4>1. queue \in Seq(Traces \cup {Sentinel}) /\ Once(queue)
        BY DEF TypeOK, Whereabouts, QueueOK
      <4>2. sub[c].trace \in Traces /\ sub[c].trace \in InHand
        BY <1>0, <2>1, <3>2, LeavesHand
      <4>3. sub[c].trace \notin ToSet(queue)
        BY <4>2 DEF Whereabouts, Apart
      <4>4. ToSet(Append(queue, sub[c].trace)) = ToSet(queue) \cup {sub[c].trace}
        BY <4>1, <4>2, <4>3, OnceAppend
      <4> QED BY <3>2, <4>2, <4>4
    <3>3. CASE queue # << >> /\ queue' = Tail(queue)
      <4>1. ToSet(queue) = ToSet(Tail(queue)) \cup {Head(queue)}
        BY <3>3, QueueTail
      <4> QED BY <3>3, <4>1
    <3> QED BY <1>3, <3>1, <3>2, <3>3 DEF SubmitStep, ReadAlive, StartThread, ClearIdle, PutNowait,
                                          EvictOldest, PutAgain
  <2> QED BY <2>2, <2>3, <2>4
<1>4. ASSUME NEW w \in Workers, Get(w) PROVE P
  <2>1. queue # << >> /\ queue' = Tail(queue) /\ UNCHANGED <<sub, fate>>
    BY <1>4 DEF Get
  <2>2. ToSet(queue) = ToSet(queue') \cup {Head(queue)}
    BY <2>1, QueueTail
  <2> QED BY <2>1, <2>2 DEF InHand
<1>5. ASSUME NEW w \in Workers, (WorkerStep(w) /\ ~Get(w)) \/ IntervalElapses(w) PROVE P
  <2>1. UNCHANGED <<queue, sub>>
    BY <1>5 DEF WorkerStep, LoopTest, GetTimesOut, IdleCheck, SetIdle, Exit, EncodeFails,
                DumpRaises, StopBreaksRetry, PostReturns, PostRaises, IntervalElapses
  <2>2. fate' = fate \/ \E f \in Fates \ {"new"} : Settle(w, f)
    BY <1>5 DEF WorkerStep, LoopTest, GetTimesOut, IdleCheck, SetIdle, Exit, EncodeFails,
                DumpRaises, StopBreaksRetry, PostReturns, PostRaises, IntervalElapses, SendReturns,
                Fates
  <2>3. \A t \in Traces : fate'[t] = "new" => fate[t] = "new"
    BY <2>2 DEF Settle
  <2> QED BY <1>1, <2>1, <2>3
<1>6. ASSUME WakeWorker PROVE P
  <2>1. \A t \in Traces : t \in ToSet(queue') <=> t \in ToSet(queue)
    BY <1>6, Wakes
  <2> QED BY <1>6, <2>1 DEF WakeWorker, InHand
<1>7. ASSUME (\E mode \in Modes : FlushBegin(mode)) \/ (ControlStep /\ ~WakeWorker) PROVE P
  BY <1>1, <1>7 DEF FlushBegin, ControlStep, FlushSeesEmpty, FlushReadsIdle, FlushTimesOut,
                    StopWorker, SwapThread, ReadSwapped
<1>8. CASE UNCHANGED vars
  BY <1>1, <1>8 DEF vars
<1> QED BY <1>2, <1>3, <1>4, <1>5, <1>6, <1>7, <1>8 DEF Next, WorkerStep

\* What a flush() answers for stays out of hands, and out of the queue once it was empty.
LEMMA ScopeNext ==
  ASSUME TypeOK, TypeOK', Whereabouts, ScopeOK, [Next]_vars
  PROVE  ScopeOK'
<1> USE DEF workerVars
<1>1. \A t \in Traces : /\ fate'[t] = "new" => fate[t] = "new"
                        /\ t \in InHand' => t \in InHand \/ fate[t] = "new"
                        /\ t \in ToSet(queue') => t \in ToSet(queue) \/ t \in InHand
  BY Comings
<1>2. ctl \in Controlling /\ scope \subseteq Traces
  BY DEF TypeOK
<1>3. ASSUME scope' = scope,
             ctl'.pc = "sawempty" \/ (ctl'.waited /\ ctl'.drained) =>
               \/ ctl.pc = "sawempty" \/ (ctl.waited /\ ctl.drained)
               \/ queue = << >>
      PROVE  ScopeOK'
  <2>1. queue = << >> => ToSet(queue) = {}
    BY DEF ToSet
  <2> QED BY <1>1, <1>2, <1>3, <2>1 DEF ScopeOK
<1>4. ASSUME NEW mode \in Modes, FlushBegin(mode) PROVE ScopeOK'
  <2>1. /\ scope' = {t \in Traces : fate[t] # "new"} \ InHand
        /\ UNCHANGED <<queue, sub, fate>>
    BY <1>4 DEF FlushBegin
  <2>2. InHand' = InHand
    BY <2>1 DEF InHand
  <2>3. /\ ctl'.pc # "sawempty"
        /\ ~(ctl'.waited /\ ctl'.drained)
    BY <1>2, <1>4 DEF FlushBegin, AfterFlush, Controlling
  <2> QED BY <2>1, <2>2, <2>3 DEF ScopeOK
<1>5. ASSUME ControlStep PROVE ScopeOK'
  <2>1. scope' = scope
    BY <1>5 DEF ControlStep, FlushSeesEmpty, FlushReadsIdle, FlushTimesOut, StopWorker, SwapThread,
                ReadSwapped, WakeWorker
  <2>2. ctl'.pc = "sawempty" \/ (ctl'.waited /\ ctl'.drained) =>
               \/ ctl.pc = "sawempty" \/ (ctl.waited /\ ctl.drained)
               \/ queue = << >>
    <3>1. CASE FlushSeesEmpty
      BY <3>1 DEF FlushSeesEmpty
    <3>2. CASE FlushReadsIdle
      BY <3>2 DEF FlushReadsIdle
    <3>3. CASE FlushTimesOut
      BY <1>2, <3>3 DEF FlushTimesOut, FlushReturns, AfterFlush, Controlling
    <3>4. CASE StopWorker \/ SwapThread \/ ReadSwapped \/ WakeWorker
      BY <1>2, <3>4 DEF StopWorker, SwapThread, ReadSwapped, WakeWorker, Controlling
    <3> QED BY <1>5, <3>1, <3>2, <3>3, <3>4 DEF ControlStep
  <2> QED BY <1>3, <2>1, <2>2
<1>6. UNCHANGED <<ctl, scope>> \/ (\E mode \in Modes : FlushBegin(mode)) \/ ControlStep
  BY DEF Next, vars, SubmitBegin, SubmitStep, ReadAlive, StartThread, ClearIdle, PutNowait,
         EvictOldest, PutAgain, WorkerStep, LoopTest, Get, GetTimesOut, IdleCheck, SetIdle, Exit,
         EncodeFails, DumpRaises, StopBreaksRetry, PostReturns, PostRaises, IntervalElapses
<1> QED BY <1>3, <1>4, <1>5, <1>6

-----------------------------------------------------------------------------
(***************************************************************************)
(* The inductive invariant.                                                *)
(***************************************************************************)
\* It holds initially and every step keeps it.
LEMMA Inductive == (Init => IInv) /\ (IInv /\ [Next]_vars => IInv')
<1>1. Init => IInv
  <2>1. Init => ControlOK /\ DoneWorkersOK /\ ScopeOK /\ FailuresOK
    BY DEF Init, ControlOK, DoneWorkersOK, ScopeOK, FailuresOK
  <2> QED BY <2>1, TypeInit, WhereaboutsInit, CountersInit DEF IInv
<1>2. ASSUME IInv, [Next]_vars PROVE IInv'
  <2>1. TypeOK /\ Whereabouts /\ CountersOK /\ FailuresOK /\ ControlOK /\ DoneWorkersOK /\ ScopeOK /\ HandsOK
    BY <1>2 DEF IInv, Whereabouts
  <2>2. TypeOK'
    BY <1>2, <2>1, TypeNext
  <2>3. Whereabouts' /\ CountersOK' /\ FailuresOK' /\ ControlOK' /\ DoneWorkersOK' /\ ScopeOK'
    BY <1>2, <2>1, <2>2, WhereaboutsNext, CountersNext, FailuresNext, ControlNext,
         DoneWorkersNext, ScopeNext
  <2> QED BY <2>2, <2>3 DEF IInv
<1> QED BY <1>1, <1>2

\* The inductive invariant holds in every state the exporter reaches.
THEOREM InductiveInvariant == Spec => []IInv
BY Inductive, PTL DEF Spec

\* Every variable stays in its range, and the queue never outgrows its maxsize.
THEOREM TypeCorrect == Spec => []TypeOK
<1>1. IInv => TypeOK
  BY DEF IInv
<1> QED BY <1>1, InductiveInvariant, PTL

-----------------------------------------------------------------------------
(***************************************************************************)
(* "Lose visibly".                                                         *)
(***************************************************************************)
\* Without a second and with at least one there is one.
LEMMA OneOrNone ==
  ASSUME NEW S, \A x, y \in S : x = y
  PROVE  Cardinality(S) = IF S = {} THEN 0 ELSE 1
<1>1. CASE S = {}
  BY <1>1, FS_EmptySet
<1>2. CASE S # {}
  <2>1. PICK x \in S : TRUE
    BY <1>2
  <2>2. S = {x}
    BY <2>1
  <2> QED BY <1>2, <2>2, FS_Singleton
<1> QED BY <1>1, <1>2

\* A trace that submit() accepted is in one place until it has its fate, and in none after.
LEMMA InOnePlace == IInv => OnePlace
<1> SUFFICES ASSUME IInv, NEW t \in Traces
             PROVE  Places(t) = IF fate[t] = "pending" THEN 1 ELSE 0
  BY DEF OnePlace
<1>0. TypeOK /\ HandsOK /\ QueueOK /\ BatchesOK /\ Apart /\ PendingOK /\ t # Sentinel
  BY SentinelAssumption DEF IInv, Whereabouts
<1> DEFINE A == {c \in Callers : sub[c].trace = t}
           B == {i \in DOMAIN queue : queue[i] = t}
           C == {p \in Workers \X (1 .. Cardinality(Traces)) :
                   p[2] \in DOMAIN batch[p[1]] /\ batch[p[1]][p[2]] = t}
<1>1. Cardinality(A) = IF t \in InHand THEN 1 ELSE 0
  <2>1. \A c, d \in A : c = d
    BY <1>0 DEF HandsOK
  <2>2. A # {} <=> t \in InHand
    BY Hands
  <2> HIDE DEF A
  <2> QED BY <2>1, <2>2, OneOrNone
<1>2. Cardinality(B) = IF t \in ToSet(queue) THEN 1 ELSE 0
  <2>1. \A i, j \in B : i = j
    BY <1>0 DEF QueueOK, Once
  <2>2. B # {} <=> t \in ToSet(queue)
    BY DEF ToSet
  <2> HIDE DEF B
  <2> QED BY <2>1, <2>2, OneOrNone
<1>3. Cardinality(C) = IF Batched(t) THEN 1 ELSE 0
  <2>1. \A p, q \in C : p = q
    <3> SUFFICES ASSUME NEW p \in C, NEW q \in C PROVE p = q
      OBVIOUS
    <3>1. /\ p[1] \in Workers /\ p[2] \in DOMAIN batch[p[1]] /\ batch[p[1]][p[2]] = t
          /\ q[1] \in Workers /\ q[2] \in DOMAIN batch[q[1]] /\ batch[q[1]][q[2]] = t
          /\ p = <<p[1], p[2]>> /\ q = <<q[1], q[2]>>
      OBVIOUS
    <3>2. t \in ToSet(batch[p[1]]) /\ t \in ToSet(batch[q[1]])
      BY <3>1 DEF ToSet
    <3>3. p[1] = q[1]
      BY <1>0, <3>1, <3>2 DEF BatchesOK
    <3>4. p[2] = q[2]
      BY <1>0, <3>1, <3>3 DEF BatchesOK, Once
    <3> QED BY <3>1, <3>3, <3>4
  <2>2. C # {} => Batched(t)
    <3>1. ASSUME NEW p \in C PROVE Batched(t)
      <4>1. p[1] \in Workers /\ p[2] \in DOMAIN batch[p[1]] /\ batch[p[1]][p[2]] = t
        OBVIOUS
      <4> QED BY <4>1 DEF Batched, ToSet
    <3> QED BY <3>1
  <2>3. ASSUME Batched(t) PROVE C # {}
    <3>1. PICK w \in Workers : t \in ToSet(batch[w])
      BY <2>3 DEF Batched
    <3>2. PICK i \in DOMAIN batch[w] : batch[w][i] = t
      BY <3>1 DEF ToSet
    <3>3. batch[w] \in Seq(Traces) /\ Once(batch[w])
      BY <1>0 DEF TypeOK, BatchesOK
    <3>4. DOMAIN batch[w] = 1 .. Len(batch[w]) /\ Len(batch[w]) \in Nat
      BY <3>3
    <3>5. Len(batch[w]) <= Cardinality(Traces) /\ Cardinality(Traces) \in Nat
      <4>1. \A x \in ToSet(batch[w]) : x \in Traces
        BY <3>3 DEF ToSet
      <4>2. ToSet(batch[w]) \in SUBSET Traces
        BY <4>1
      <4> QED BY <3>3, <4>2, OnceCounts, SizeAssumption, FS_Subset, FS_CardinalityType
    <3>6. i \in 1 .. Cardinality(Traces)
      BY <3>2, <3>4, <3>5
    <3>7. <<w, i>> \in C
      BY <3>1, <3>2, <3>6
    <3> QED BY <3>7
  <2> HIDE DEF C
  <2> QED BY <2>1, <2>2, <2>3, OneOrNone
<1>4. Places(t) = Cardinality(A) + Cardinality(B) + Cardinality(C)
  BY DEF Places
<1> HIDE DEF A, B, C
<1>5. fate[t] = "pending" <=> t \in InHand \/ t \in ToSet(queue) \/ Batched(t)
  BY <1>0 DEF PendingOK
<1>6. /\ ~(t \in InHand /\ t \in ToSet(queue))
      /\ ~(t \in InHand /\ Batched(t))
      /\ ~(t \in ToSet(queue) /\ Batched(t))
  BY <1>0 DEF Apart
<1> QED BY <1>1, <1>2, <1>3, <1>4, <1>5, <1>6

\* ExportStats adds up.
LEMMA Honest == IInv => CountersHonest
<1> SUFFICES ASSUME IInv PROVE CountersHonest
  OBVIOUS
<1>1. TypeOK /\ CountersOK /\ FailuresOK
  BY DEF IInv
<1>2. /\ Cardinality(Dropped) \in Nat /\ Cardinality(SentinelsIn(queue)) \in Nat
      /\ Owed \in 0 .. 1 /\ Allowed \in Nat /\ stats.dropped \in Nat
  BY <1>1, CounterTypes
<1>3. /\ stats.exported = Cardinality(Counted)
      /\ stats.dropped >= Cardinality(Dropped)
      /\ stats.dropped <= Cardinality(Dropped) + Allowed
  BY <1>1, <1>2 DEF CountersOK
<1>4. /\ Of({"delivered", "rejected"}) = Counted /\ Of({"dropped"}) = Dropped
  BY DEF Of, Counted, Dropped
<1>5. /\ Of({"spooled", "unspooled"}) # {} => stats.failures >= MaxRetries
      /\ Of({"abandoned"}) # {} => stats.failures > 0
  BY <1>1 DEF Of, FailuresOK
<1> QED BY <1>3, <1>4, <1>5 DEF CountersHonest, Allowed

\* Whatever the host calls and whether or not the spool can be written, no interleaving sends a
\* trace twice or mislays it, and the counters tell what was sent and dropped.
THEOREM OnePlaceAndCounted == Spec => [](OnePlace /\ CountersHonest)
BY InductiveInvariant, InOnePlace, Honest, PTL

\* Until a shutdown() no step stops a daemon, swaps one out, or gives a trace up.
LEMMA UnshutNext ==
  ASSUME IInv, Unshut, [Next]_vars
  PROVE  Unshut'
<1> USE DEF workerVars
<1>0. TypeOK /\ Whereabouts /\ ControlOK /\ HandsOK
  BY DEF IInv, Whereabouts
<1>1. ctl.shut => ctl'.shut
  BY <1>0, ControlNext
<1> SUFFICES ASSUME ~ctl'.shut PROVE Unshut'
  BY DEF Unshut
<1>2. ~ctl.shut
  BY <1>1
<1>3. /\ stopping = FALSE
      /\ \A c \in Callers : sub[c].pc = "isalive" => thread # NoWorker
      /\ \A t \in Traces : fate[t] \notin {"abandoned", "swallowed"}
      /\ ctl.pc \notin {"stop", "swap", "isalive", "wake"}
  BY <1>0, <1>2 DEF Unshut, ControlOK, TypeOK
<1>4. sub \in [Callers -> Submitting] /\ fate \in [Traces -> Fates]
  BY <1>0 DEF TypeOK
<1>5. stopping' = FALSE
  BY <1>3 DEF Next, vars, SubmitBegin, SubmitStep, ReadAlive, StartThread, ClearIdle, PutNowait,
         EvictOldest, PutAgain, WorkerStep, LoopTest, Get, GetTimesOut, IdleCheck, SetIdle, Exit,
         EncodeFails, DumpRaises, StopBreaksRetry, PostReturns, PostRaises, IntervalElapses,
         FlushBegin, ControlStep, FlushSeesEmpty, FlushReadsIdle, FlushTimesOut, StopWorker,
         SwapThread, ReadSwapped, WakeWorker
<1>6. thread' = thread \/ thread' \in Workers
  BY <1>3 DEF Next, vars, SubmitBegin, SubmitStep, ReadAlive, StartThread, ClearIdle, PutNowait,
         EvictOldest, PutAgain, WorkerStep, LoopTest, Get, GetTimesOut, IdleCheck, SetIdle, Exit,
         EncodeFails, DumpRaises, StopBreaksRetry, PostReturns, PostRaises, IntervalElapses,
         FlushBegin, ControlStep, FlushSeesEmpty, FlushReadsIdle, FlushTimesOut, StopWorker,
         SwapThread, ReadSwapped, WakeWorker
<1>7. \A c \in Callers : sub'[c].pc = "isalive" => sub[c].pc = "isalive" \/ thread # NoWorker
  <2>1. ASSUME NEW c \in Callers, NEW t \in Traces, SubmitBegin(c, t),
               NEW d \in Callers, sub'[d].pc = "isalive"
        PROVE  sub[d].pc = "isalive" \/ thread # NoWorker
    BY <1>4, <2>1 DEF SubmitBegin
  <2>2. ASSUME NEW c \in Callers, SubmitStep(c), NEW d \in Callers, sub'[d].pc = "isalive"
        PROVE  sub[d].pc = "isalive"
    <3>1. \/ sub' = [sub EXCEPT ![c] = [pc |-> "out", trace |-> NoTrace]]
          \/ \E p \in {"start", "clear", "put", "evict", "reput"} : sub' = [sub EXCEPT ![c].pc = p]
      BY <2>2 DEF SubmitStep, ReadAlive, StartThread, ClearIdle, PutNowait, EvictOldest, PutAgain,
                  Leave
    <3> QED BY <1>4, <2>2, <3>1 DEF Submitting
  <2>3. \/ sub' = sub
        \/ \E c \in Callers, t \in Traces : SubmitBegin(c, t)
        \/ \E c \in Callers : SubmitStep(c)
    BY DEF Next, vars, WorkerStep, LoopTest, Get, GetTimesOut, IdleCheck, SetIdle, Exit,
           EncodeFails, DumpRaises, StopBreaksRetry, PostReturns, PostRaises, IntervalElapses,
           FlushBegin, ControlStep, FlushSeesEmpty, FlushReadsIdle, FlushTimesOut, StopWorker,
           SwapThread, ReadSwapped, WakeWorker
  <2> QED BY <2>1, <2>2, <2>3
<1>8. \A t \in Traces : fate'[t] \notin {"abandoned", "swallowed"}
  <2>1. ASSUME NEW c \in Callers, NEW t \in Traces, SubmitBegin(c, t)
        PROVE  \A x \in Traces : fate'[x] \notin {"abandoned", "swallowed"}
    BY <1>3, <1>4, <2>1 DEF SubmitBegin
  <2>2. ASSUME NEW c \in Callers, SubmitStep(c)
        PROVE  \A x \in Traces : fate'[x] \notin {"abandoned", "swallowed"}
    BY <1>3, <1>4, <2>2 DEF SubmitStep, ReadAlive, StartThread, ClearIdle, PutNowait, EvictOldest, PutAgain
  <2>3. ASSUME NEW w \in Workers, WorkerStep(w) \/ IntervalElapses(w)
        PROVE  fate' = fate \/ \E f \in Fates \ {"abandoned", "swallowed"} : Settle(w, f)
    <3>1. CASE StopBreaksRetry(w)
      BY <1>3, <3>1 DEF StopBreaksRetry, MustBreak
    <3>2. CASE PostRaises(w)
      BY <3>2 DEF PostRaises, SendReturns, Fates
    <3> QED BY <2>3, <3>1, <3>2 DEF WorkerStep, LoopTest, Get, GetTimesOut, IdleCheck, SetIdle, Exit,
                                    EncodeFails, DumpRaises, PostReturns, IntervalElapses,
                                    SendReturns, Fates
  <2>4. ASSUME NEW w \in Workers, WorkerStep(w) \/ IntervalElapses(w)
        PROVE  \A x \in Traces : fate'[x] \notin {"abandoned", "swallowed"}
    BY <1>3, <2>3, <2>4 DEF Settle
  <2>5. \/ fate' = fate
        \/ \E c \in Callers, t \in Traces : SubmitBegin(c, t)
        \/ \E c \in Callers : SubmitStep(c)
        \/ \E w \in Workers : WorkerStep(w) \/ IntervalElapses(w)
    BY DEF Next, vars, FlushBegin, ControlStep, FlushSeesEmpty, FlushReadsIdle, FlushTimesOut,
           StopWorker, SwapThread, ReadSwapped, WakeWorker
  <2> QED BY <1>3, <2>1, <2>2, <2>4, <2>5
<1> QED BY <1>3, <1>5, <1>6, <1>7, <1>8, SentinelAssumption DEF Unshut

\* "Lose visibly": every trace is in one place until it has one fate, the counters tell what
\* was sent, dropped and given up, and until a shutdown() no batch is given up before its last
\* attempt and submit() gives no trace up uncounted.
THEOREM LosesVisiblyAlways == Spec => []LosesVisibly
<1>1. Init => Unshut
  BY DEF Init, Unshut
<1>2. IInv /\ Unshut /\ [Next]_vars => Unshut'
  BY UnshutNext
<1>3. IInv /\ Unshut => LosesVisibly
  BY InOnePlace, Honest DEF LosesVisibly, Of, Unshut
<1> QED BY <1>1, <1>2, <1>3, Inductive, InductiveInvariant, PTL DEF Spec

-----------------------------------------------------------------------------
(***************************************************************************)
(* What True from flush() means.                                           *)
(***************************************************************************)
\* After a flush that waited and returned True the queue held nothing it answers for, and after
\* such a shutdown(), once the daemons are gone, nothing it answers for is left at all.
THEOREM DrainedAlways == Spec => []DrainedIsEmpty
<1>1. IInv => DrainedIsEmpty
  <2> SUFFICES ASSUME IInv PROVE DrainedIsEmpty
    OBVIOUS
  <2>1. TypeOK /\ Whereabouts /\ DoneWorkersOK /\ ScopeOK
    BY DEF IInv
  <2>2. FlushEmptiesQueue
    BY <2>1 DEF FlushEmptiesQueue, FlushedTrue, ReturnedTrue, ScopeOK
  <2>3. ASSUME FlushedTrue, \A w \in Workers : ~Alive(w) PROVE scope \cap Pending = {}
    <3>1. \A w \in Workers : batch[w] = << >>
      BY <2>1, <2>3, SentinelAssumption DEF Alive, DoneWorkersOK
    <3>2. \A t : ~Batched(t)
      BY <3>1 DEF Batched, ToSet
    <3>3. \A t \in scope : t \in Traces /\ t \notin InHand /\ t \notin ToSet(queue)
      BY <2>1, <2>3 DEF FlushedTrue, ReturnedTrue, ScopeOK, TypeOK
    <3> QED BY <2>1, <3>2, <3>3 DEF Pending, Whereabouts, PendingOK
  <2> QED BY <2>2, <2>3 DEF DrainedIsEmpty, ShutdownDrains
<1> QED BY <1>1, InductiveInvariant, PTL

(***************************************************************************)
(* The recorder.  Recorded says what holds of a program whatever its tasks *)
(* have done: where the open blocks of each lead back to, which block      *)
(* started which trace, and what became of the spans and traces that are   *)
(* over.  Entering a block (Opening) and leaving one (Closing) keep it.    *)
(***************************************************************************)
Statuses == {"ok", "error"}
Contexts == [trace : Nat, span : Nat]
Blocks == [kind : {"trace", "span", "noop"}, id : Nat, back : Nat, alone : BOOLEAN]
TraceRecords ==
  [sampled : BOOLEAN, status : Statuses, ended : BOOLEAN, spans : SUBSET Nat, dropped : Nat,
   lost : BOOLEAN]
SpanRecords ==
  [trace : Nat, parent : Nat, task : Tasks, status : Statuses, ended : BOOLEAN]
Snapshots ==
  [trace : Nat, status : Statuses, spans : SUBSET (Nat \X BOOLEAN \X Statuses)]
Programs ==
  [ctx : [Tasks -> Contexts], runs : [Tasks -> {"no", "bare", "copy"}],
   blocks : [Tasks -> Seq(Blocks)],
   traces : Seq(TraceRecords), spans : Seq(SpanRecords), sent : Seq(Snapshots)]

Depth(s, t) == Len(s.blocks[t])

\* A trace that is over reaches the exporter.
Handed(trace) == Kept(trace) /\ ~trace.lost

\* Nobody ends the trace x, and a place in it counts as outside every trace.
StrayIn(s, x) == x \in 1 .. Len(s.traces) /\ s.traces[x].lost /\ ~s.traces[x].ended
Clear(s, place) ==
  [trace |-> IF StrayIn(s, place.trace) THEN 0 ELSE place.trace, span |-> place.span]

\* The block b started the trace x.
Opens(s, b, x) ==
  \/ b.kind = "trace" /\ b.id = x
  \/ b.kind = "span" /\ b.alone /\ s.spans[b.id].trace = x

\* Leaving the block b takes a task's context from one place to the other.
Leaves(s, b, here, after) ==
  /\ b.kind = "trace" => after = Clear(s, [trace |-> b.back, span |-> here.span])
  /\ b.kind = "span" => /\ after.span = b.back
                        /\ IF b.alone THEN here.trace = s.spans[b.id].trace /\ after.trace = 0
                                      ELSE after.trace = here.trace
  /\ b.kind = "noop" => after = here

\* The places e that the open blocks of t lead back through, the traces that
\* nobody ends left aside.  The program's own threads end up nowhere, and are in no
\* other trace that a block still to be left did not start.
Unwinds(s, t, e) ==
  /\ e \in [1 .. Depth(s, t) + 1 -> Contexts]
  /\ e[1] = Clear(s, s.ctx[t])
  /\ \A k \in 1 .. Depth(s, t) + 1 : e[k].trace <= Len(s.traces)
  /\ \A k \in 1 .. Depth(s, t) : Leaves(s, s.blocks[t][k], e[k], e[k + 1])
  /\ s.runs[t] = "bare" =>
       /\ e[Depth(s, t) + 1] = Nowhere
       /\ \A k \in 1 .. Depth(s, t) + 1 : e[k].trace # 0 =>
             \E j \in k .. Depth(s, t) : Opens(s, s.blocks[t][j], e[k].trace)
UnwindsOK(s) == \A t \in Tasks : \E e : Unwinds(s, t, e)

\* A trace that a block started is open until that block, and no other, is left.
OpenersOK(s) ==
  /\ \A t \in Tasks : \A k \in 1 .. Depth(s, t) : \A x \in Nat :
       Opens(s, s.blocks[t][k], x) =>
         x \in 1 .. Len(s.traces) /\ ~s.traces[x].ended /\ ~s.traces[x].lost
  /\ \A t, u \in Tasks : \A k \in 1 .. Depth(s, t), j \in 1 .. Depth(s, u) : \A x \in Nat :
       Opens(s, s.blocks[t][k], x) /\ Opens(s, s.blocks[u][j], x) => t = u /\ k = j

SpanBlocksOK(s) ==
  /\ \A t \in Tasks : \A k \in 1 .. Depth(s, t) : s.blocks[t][k].kind = "span" =>
       /\ s.blocks[t][k].id \in 1 .. Len(s.spans)
       /\ ~s.spans[s.blocks[t][k].id].ended
  /\ \A t, u \in Tasks : \A k \in 1 .. Depth(s, t), j \in 1 .. Depth(s, u) :
       /\ s.blocks[t][k].kind = "span"
       /\ s.blocks[u][j].kind = "span"
       /\ s.blocks[t][k].id = s.blocks[u][j].id
       => t = u /\ k = j

IdleOK(s) ==
  \A u \in Tasks : s.runs[u] = "no" =>
    Depth(s, u) = 0 /\ \A i \in 1 .. Len(s.spans) : s.spans[i].task # u

RegisteredOK(s) ==
  /\ \A i \in 1 .. Len(s.spans) : /\ s.spans[i].trace \in 1 .. Len(s.traces)
                                  /\ i \in s.traces[s.spans[i].trace].spans
  /\ \A x \in 1 .. Len(s.traces) : s.traces[x].spans \subseteq 1 .. Len(s.spans)

\* A span of a thread of the program is within the block that started its trace,
\* unless nobody ends the trace.
Within(s, i) ==
  LET q == s.blocks[s.spans[i].task]
  IN  \E k, j \in 1 .. Len(q) :
        /\ k <= j /\ q[k].kind = "span" /\ q[k].id = i
        /\ Opens(s, q[j], s.spans[i].trace) \/ StrayIn(s, s.spans[i].trace)
Opened(s, t, x) == \E j \in 1 .. Depth(s, t) : Opens(s, s.blocks[t][j], x)

\* It was handed over as it is.
Told(s, i) ==
  \E k \in 1 .. Len(s.sent) : /\ s.sent[k].trace = s.spans[i].trace
                              /\ <<i, TRUE, s.spans[i].status>> \in s.sent[k].spans
OwnOK(s) ==
  \A i \in 1 .. Len(s.spans) : s.runs[s.spans[i].task] = "bare" =>
    LET trace == s.traces[s.spans[i].trace]
    IN  /\ ~s.spans[i].ended => Within(s, i)
        /\ ~trace.ended => \/ Opened(s, s.spans[i].task, s.spans[i].trace)
                           \/ StrayIn(s, s.spans[i].trace)
        /\ trace.ended => /\ s.spans[i].ended
                          /\ s.spans[i].status = "error" => trace.status = "error"
                          /\ Handed(trace) => Told(s, i)

SentOK(s) ==
  /\ \A k \in 1 .. Len(s.sent) :
       /\ s.sent[k].trace \in 1 .. Len(s.traces)
       /\ s.traces[s.sent[k].trace].ended
       /\ Handed(s.traces[s.sent[k].trace])
  /\ \A k, l \in 1 .. Len(s.sent) : s.sent[k].trace = s.sent[l].trace => k = l
  /\ \A x \in 1 .. Len(s.traces) : s.traces[x].ended /\ Handed(s.traces[x]) =>
       \E k \in 1 .. Len(s.sent) : s.sent[k].trace = x

Recorded(s) ==
  /\ s \in Programs
  /\ UnwindsOK(s)
  /\ OpenersOK(s)
  /\ SpanBlocksOK(s)
  /\ IdleOK(s)
  /\ RegisteredOK(s)
  /\ OwnOK(s)
  /\ SentOK(s)

\* What every operation of the task t leaves alone.
Keeps(s, r, t) ==
  /\ r.runs = s.runs
  /\ Len(s.traces) <= Len(r.traces)
  /\ Len(s.spans) <= Len(r.spans)
  /\ \A i \in 1 .. Len(s.spans) : /\ r.spans[i].trace = s.spans[i].trace
                                  /\ r.spans[i].task = s.spans[i].task
  /\ \A u \in Tasks : u # t => r.blocks[u] = s.blocks[u] /\ r.ctx[u] = s.ctx[u]
  /\ \A x \in 1 .. Len(s.traces) : StrayIn(r, x) <=> StrayIn(s, x)

\* The task t enters the block b, which may start a trace and open a span.
Opening(s, r, t, b) ==
  /\ Keeps(s, r, t)
  /\ r.sent = s.sent
  /\ Depth(r, t) = Depth(s, t) + 1
  /\ r.blocks[t][1] = b
  /\ \A k \in 1 .. Depth(s, t) : r.blocks[t][k + 1] = s.blocks[t][k]
  /\ \A x \in 1 .. Len(s.traces) : /\ r.traces[x].ended = s.traces[x].ended
                                   /\ r.traces[x].status = s.traces[x].status
                                   /\ r.traces[x].sampled = s.traces[x].sampled
                                   /\ r.traces[x].lost = s.traces[x].lost
                                   /\ s.traces[x].spans \subseteq r.traces[x].spans
  /\ \A x \in Len(s.traces) + 1 .. Len(r.traces) : ~r.traces[x].ended
  /\ \A x \in 1 .. Len(r.traces) : r.traces[x].spans \subseteq 1 .. Len(r.spans)
  /\ \A i \in 1 .. Len(s.spans) : r.spans[i] = s.spans[i]
  /\ \A i \in Len(s.spans) + 1 .. Len(r.spans) :
       /\ ~r.spans[i].ended
       /\ r.spans[i].task = t
       /\ r.spans[i].trace = r.ctx[t].trace
       /\ r.ctx[t].trace # 0
       /\ i \in r.traces[r.ctx[t].trace].spans
       /\ b.kind = "span" /\ b.id = i
  /\ r.ctx[t].trace <= Len(r.traces)
  /\ \A x \in Nat : Opens(r, b, x) =>
       x \in Len(s.traces) + 1 .. Len(r.traces) /\ ~r.traces[x].lost
  /\ b.kind = "span" => b.id \in Len(s.spans) + 1 .. Len(r.spans)
  /\ Leaves(r, b, Clear(r, r.ctx[t]), Clear(s, s.ctx[t]))
  /\ \/ r.ctx[t].trace = s.ctx[t].trace
     \/ Opens(r, b, r.ctx[t].trace)
     \/ StrayIn(r, r.ctx[t].trace)

\* The task t leaves the block b: the trace it started is over and handed over.
Closing(s, r, t, b) ==
  /\ Keeps(s, r, t)
  /\ Depth(s, t) = Depth(r, t) + 1
  /\ s.blocks[t][1] = b
  /\ \A k \in 1 .. Depth(r, t) : r.blocks[t][k] = s.blocks[t][k + 1]
  /\ Len(r.traces) = Len(s.traces)
  /\ Len(r.spans) = Len(s.spans)
  /\ \A x \in 1 .. Len(s.traces) :
       /\ r.traces[x].spans = s.traces[x].spans
       /\ ~Opens(s, b, x) => r.traces[x] = s.traces[x]
       /\ Opens(s, b, x) =>
            /\ r.traces[x].ended
            /\ \A i \in r.traces[x].spans :
                 r.spans[i].status = "error" => r.traces[x].status = "error"
  /\ \A i \in 1 .. Len(s.spans) :
       IF b.kind = "span" /\ b.id = i THEN r.spans[i].ended ELSE r.spans[i] = s.spans[i]
  /\ Len(s.sent) <= Len(r.sent) /\ Len(r.sent) <= Len(s.sent) + 1
  /\ \A k \in 1 .. Len(s.sent) : r.sent[k] = s.sent[k]
  /\ \A k \in Len(s.sent) + 1 .. Len(r.sent) :
       /\ Opens(s, b, r.sent[k].trace)
       /\ Handed(r.traces[r.sent[k].trace])
       /\ \A i \in r.traces[r.sent[k].trace].spans :
            <<i, r.spans[i].ended, r.spans[i].status>> \in r.sent[k].spans
  /\ \A x \in 1 .. Len(s.traces) : Opens(s, b, x) /\ Handed(r.traces[x]) =>
       Len(r.sent) = Len(s.sent) + 1 /\ r.sent[Len(r.sent)].trace = x
  /\ Leaves(s, b, Clear(s, s.ctx[t]), Clear(r, r.ctx[t]))

\* Blocks that were open start the traces they started.
LEMMA OpensStays ==
  ASSUME NEW s \in Programs, NEW r \in Programs, NEW t \in Tasks, SpanBlocksOK(s), Keeps(s, r, t),
         NEW u \in Tasks, NEW k \in 1 .. Depth(s, u), NEW x
  PROVE  Opens(r, s.blocks[u][k], x) <=> Opens(s, s.blocks[u][k], x)
  BY DEF SpanBlocksOK, Keeps, Opens

\* A place in a trace that was there is as clear as before.
LEMMA ClearStays ==
  ASSUME NEW s \in Programs, NEW r \in Programs, NEW t \in Tasks, Keeps(s, r, t),
         NEW p, p.trace \in Nat, p.trace <= Len(s.traces)
  PROVE  Clear(r, p) = Clear(s, p)
<1>1. ~StrayIn(r, 0) /\ ~StrayIn(s, 0)
  BY DEF StrayIn
<1>2. p.trace = 0 \/ p.trace \in 1 .. Len(s.traces)
  OBVIOUS
<1>3. StrayIn(r, p.trace) <=> StrayIn(s, p.trace)
  BY <1>1, <1>2 DEF Keeps
<1> QED BY <1>3 DEF Clear

\* So is the place of a task.
LEMMA ClearIsKept ==
  ASSUME NEW s \in Programs, NEW r \in Programs, NEW t \in Tasks, Keeps(s, r, t),
         NEW u \in Tasks, NEW e, Unwinds(s, u, e)
  PROVE  s.ctx[u].trace <= Len(s.traces) /\ Clear(r, s.ctx[u]) = Clear(s, s.ctx[u])
<1>1. s.ctx[u] \in Contexts /\ s.ctx[u].trace \in Nat /\ Len(s.traces) \in Nat /\ Depth(s, u) \in Nat
  BY DEF Programs, Contexts, Depth
<1>2. Clear(s, s.ctx[u]).trace <= Len(s.traces)
  BY <1>1 DEF Unwinds
<1>3. s.ctx[u].trace <= Len(s.traces)
  BY <1>1, <1>2 DEF Clear, StrayIn
<1> QED BY <1>1, <1>3, ClearStays

\* Leaving such a block leads from the same places to the same places.
LEMMA LeavesStays ==
  ASSUME NEW s \in Programs, NEW r \in Programs, NEW t \in Tasks, SpanBlocksOK(s), Keeps(s, r, t),
         NEW u \in Tasks, NEW k \in 1 .. Depth(s, u), NEW here, NEW after,
         after.trace <= Len(s.traces), Leaves(s, s.blocks[u][k], here, after)
  PROVE  Leaves(r, s.blocks[u][k], here, after)
<1>1. CASE s.blocks[u][k].kind = "trace"
  <2>1. PICK p : p = [trace |-> s.blocks[u][k].back, span |-> here.span]
    OBVIOUS
  <2>2. after = Clear(s, p)
    BY <1>1, <2>1 DEF Leaves
  <2>3. p.trace \in Nat /\ Len(s.traces) \in Nat
    <3>1. s.blocks[u][k] \in Blocks
      BY DEF Programs, Depth
    <3> QED BY <2>1, <3>1 DEF Blocks, Programs
  <2>4. p.trace <= Len(s.traces)
    BY <2>2, <2>3 DEF Clear, StrayIn
  <2>5. after = Clear(r, p)
    BY <2>2, <2>3, <2>4, ClearStays
  <2> QED BY <1>1, <2>1, <2>5 DEF Leaves
<1>2. CASE s.blocks[u][k].kind # "trace"
  BY <1>2 DEF SpanBlocksOK, Keeps, Leaves
<1> QED BY <1>1, <1>2

\* The types of what a program counts.
LEMMA Lengths ==
  ASSUME NEW s \in Programs
  PROVE  /\ Len(s.traces) \in Nat /\ Len(s.spans) \in Nat /\ Len(s.sent) \in Nat
         /\ \A t \in Tasks : Depth(s, t) \in Nat /\ s.ctx[t] \in Contexts
  BY DEF Programs, Depth

\* Places are integers.
LEMMA Between ==
  ASSUME NEW n, NEW k \in 1 .. n, NEW j \in 1 .. n
  PROVE  k \in Int /\ j \in Int
  OBVIOUS

\* The types of what its sequences hold.
LEMMA Elements ==
  ASSUME NEW s \in Programs
  PROVE  /\ \A x \in 1 .. Len(s.traces) : s.traces[x] \in TraceRecords
         /\ \A i \in 1 .. Len(s.spans) : s.spans[i] \in SpanRecords
         /\ \A k \in 1 .. Len(s.sent) : s.sent[k] \in Snapshots /\ s.sent[k].trace \in Nat
         /\ \A t \in Tasks : \A k \in 1 .. Depth(s, t) : s.blocks[t][k] \in Blocks
<1>1. /\ s.traces \in Seq(TraceRecords) /\ s.spans \in Seq(SpanRecords) /\ s.sent \in Seq(Snapshots)
      /\ s.blocks \in [Tasks -> Seq(Blocks)]
  BY DEF Programs
<1>2. \A k \in 1 .. Len(s.sent) : s.sent[k] \in Snapshots
  BY <1>1
<1>3. \A k \in 1 .. Len(s.sent) : s.sent[k].trace \in Nat
  BY <1>2 DEF Snapshots
<1> QED BY <1>1, <1>2, <1>3 DEF Depth

\* A span that is opened is in its trace's set.
LEMMA OpeningRegistered ==
  ASSUME NEW s \in Programs, NEW r \in Programs, NEW t \in Tasks, NEW b \in Blocks,
         RegisteredOK(s), Opening(s, r, t, b)
  PROVE  RegisteredOK(r)
<1> USE DEF Programs
<1>1. \A i \in 1 .. Len(r.spans) : /\ r.spans[i].trace \in 1 .. Len(r.traces)
                                   /\ i \in r.traces[r.spans[i].trace].spans
  <2> SUFFICES ASSUME NEW i \in 1 .. Len(r.spans)
               PROVE  /\ r.spans[i].trace \in 1 .. Len(r.traces)
                      /\ i \in r.traces[r.spans[i].trace].spans
    OBVIOUS
  <2>1. CASE i <= Len(s.spans)
    <3>1. i \in 1 .. Len(s.spans) /\ r.spans[i] = s.spans[i] /\ Len(s.traces) <= Len(r.traces)
      BY <2>1 DEF Opening, Keeps
    <3>2. /\ s.spans[i].trace \in 1 .. Len(s.traces)
          /\ i \in s.traces[s.spans[i].trace].spans
      BY <3>1 DEF RegisteredOK
    <3>3. s.traces[s.spans[i].trace].spans \subseteq r.traces[s.spans[i].trace].spans
      BY <3>2 DEF Opening
    <3>4. s.spans[i].trace \in 1 .. Len(r.traces)
      BY <3>1, <3>2
    <3> QED BY <3>1, <3>2, <3>3, <3>4
  <2>2. CASE i > Len(s.spans)
    <3>1. i \in Len(s.spans) + 1 .. Len(r.spans)
      BY <2>2
    <3>2. /\ r.spans[i].trace = r.ctx[t].trace /\ r.ctx[t].trace # 0
          /\ i \in r.traces[r.ctx[t].trace].spans /\ r.ctx[t].trace <= Len(r.traces)
      BY <3>1 DEF Opening
    <3> QED BY <3>2 DEF Contexts
  <2> QED BY <2>1, <2>2
<1>2. \A x \in 1 .. Len(r.traces) : r.traces[x].spans \subseteq 1 .. Len(r.spans)
  BY DEF Opening
<1> QED BY <1>1, <1>2 DEF RegisteredOK

\* A task that does not run opens nothing.
LEMMA OpeningIdle ==
  ASSUME NEW s \in Programs, NEW r \in Programs, NEW t \in Tasks, NEW b \in Blocks,
         s.runs[t] # "no", IdleOK(s), Opening(s, r, t, b)
  PROVE  IdleOK(r)
<1> SUFFICES ASSUME NEW u \in Tasks, r.runs[u] = "no"
             PROVE  Depth(r, u) = 0 /\ \A i \in 1 .. Len(r.spans) : r.spans[i].task # u
  BY DEF IdleOK
<1>1. s.runs[u] = "no" /\ u # t /\ r.blocks[u] = s.blocks[u]
  BY DEF Opening, Keeps
<1>2. Depth(s, u) = 0 /\ \A i \in 1 .. Len(s.spans) : s.spans[i].task # u
  BY <1>1 DEF IdleOK
<1>3. Depth(r, u) = 0
  BY <1>1, <1>2 DEF Depth
<1>4. ASSUME NEW i \in 1 .. Len(r.spans) PROVE r.spans[i].task # u
  <2>1. CASE i \in 1 .. Len(s.spans)
    BY <1>2, <2>1 DEF Opening
  <2>2. CASE i \in Len(s.spans) + 1 .. Len(r.spans)
    BY <1>1, <2>2 DEF Opening
  <2> QED BY <2>1, <2>2, Lengths
<1> QED BY <1>3, <1>4

\* Nothing is handed over when a block is entered.
LEMMA OpeningSent ==
  ASSUME NEW s \in Programs, NEW r \in Programs, NEW t \in Tasks, NEW b \in Blocks,
         SentOK(s), Opening(s, r, t, b)
  PROVE  SentOK(r)
<1>1. Len(s.traces) <= Len(r.traces) /\ r.sent = s.sent
  BY DEF Opening, Keeps
<1>2. \A x \in 1 .. Len(s.traces) : /\ r.traces[x].ended = s.traces[x].ended
                                    /\ Handed(r.traces[x]) = Handed(s.traces[x])
  BY DEF Opening, Handed, Kept
<1>3. ASSUME NEW k \in 1 .. Len(r.sent)
      PROVE  /\ r.sent[k].trace \in 1 .. Len(r.traces)
             /\ r.traces[r.sent[k].trace].ended
             /\ Handed(r.traces[r.sent[k].trace])
  <2>1. /\ s.sent[k].trace \in 1 .. Len(s.traces)
        /\ s.traces[s.sent[k].trace].ended
        /\ Handed(s.traces[s.sent[k].trace])
    BY <1>1 DEF SentOK
  <2>2. s.sent[k].trace \in 1 .. Len(r.traces)
    BY <1>1, <2>1, Lengths
  <2>3. r.sent[k] = s.sent[k]
    BY <1>1
  <2> QED BY <1>2, <2>1, <2>2, <2>3
<1>4. ASSUME NEW x \in 1 .. Len(r.traces), r.traces[x].ended, Handed(r.traces[x])
      PROVE  \E k \in 1 .. Len(r.sent) : r.sent[k].trace = x
  <2>1. CASE x \in 1 .. Len(s.traces)
    BY <1>1, <1>2, <1>4, <2>1 DEF SentOK
  <2>2. CASE x \in Len(s.traces) + 1 .. Len(r.traces)
    BY <1>4, <2>2 DEF Opening
  <2> QED BY <2>1, <2>2, Lengths
<1>5. \A k, l \in 1 .. Len(r.sent) : r.sent[k].trace = r.sent[l].trace => k = l
  BY <1>1 DEF SentOK
<1> QED BY <1>3, <1>4, <1>5 DEF SentOK

\* A block that is open is the one just entered or was open before.
LEMMA OpeningBlocks ==
  ASSUME NEW s \in Programs, NEW r \in Programs, NEW t \in Tasks, NEW b \in Blocks,
         Opening(s, r, t, b)
  PROVE  \A u \in Tasks : \A k \in 1 .. Depth(r, u) :
           \/ u = t /\ k = 1 /\ r.blocks[u][k] = b
           \/ u = t /\ k - 1 \in 1 .. Depth(s, u) /\ r.blocks[u][k] = s.blocks[u][k - 1]
           \/ u # t /\ k \in 1 .. Depth(s, u) /\ r.blocks[u][k] = s.blocks[u][k]
<1> SUFFICES ASSUME NEW u \in Tasks, NEW k \in 1 .. Depth(r, u)
             PROVE  \/ u = t /\ k = 1 /\ r.blocks[u][k] = b
                    \/ u = t /\ k - 1 \in 1 .. Depth(s, u) /\ r.blocks[u][k] = s.blocks[u][k - 1]
                    \/ u # t /\ k \in 1 .. Depth(s, u) /\ r.blocks[u][k] = s.blocks[u][k]
  OBVIOUS
<1>1. CASE u # t
  BY <1>1 DEF Opening, Keeps, Depth
<1>2. CASE u = t /\ k = 1
  BY <1>2 DEF Opening
<1>3. CASE u = t /\ k # 1
  <2>1. k - 1 \in 1 .. Depth(s, t)
    BY <1>3, Lengths DEF Opening
  <2>2. r.blocks[t][(k - 1) + 1] = s.blocks[t][k - 1]
    BY <2>1 DEF Opening
  <2> QED BY <1>3, <2>1, <2>2
<1> QED BY <1>1, <1>2, <1>3

\* An open block starts a new trace, or what it started before.
LEMMA OpeningStarts ==
  ASSUME NEW s \in Programs, NEW r \in Programs, NEW t \in Tasks, NEW b \in Blocks,
         SpanBlocksOK(s), Opening(s, r, t, b),
         NEW u \in Tasks, NEW k \in 1 .. Depth(r, u), NEW x \in Nat, Opens(r, r.blocks[u][k], x)
  PROVE  \/ u = t /\ k = 1 /\ x \in Len(s.traces) + 1 .. Len(r.traces)
         \/ u = t /\ k - 1 \in 1 .. Depth(s, u) /\ Opens(s, s.blocks[u][k - 1], x)
         \/ u # t /\ k \in 1 .. Depth(s, u) /\ Opens(s, s.blocks[u][k], x)
<1>1. Keeps(s, r, t)
  BY DEF Opening
<1>2. CASE u = t /\ k = 1 /\ r.blocks[u][k] = b
  BY <1>2 DEF Opening
<1>3. CASE u = t /\ k - 1 \in 1 .. Depth(s, u) /\ r.blocks[u][k] = s.blocks[u][k - 1]
  BY <1>1, <1>3, OpensStays
<1>4. CASE u # t /\ k \in 1 .. Depth(s, u) /\ r.blocks[u][k] = s.blocks[u][k]
  BY <1>1, <1>4, OpensStays
<1> QED BY <1>2, <1>3, <1>4, OpeningBlocks

\* A new trace is the only one that the new block starts.
LEMMA OpeningOpeners ==
  ASSUME NEW s \in Programs, NEW r \in Programs, NEW t \in Tasks, NEW b \in Blocks,
         SpanBlocksOK(s), OpenersOK(s), Opening(s, r, t, b)
  PROVE  OpenersOK(r)
<1> USE Lengths
<1>1. ASSUME NEW u \in Tasks, NEW k \in 1 .. Depth(r, u), NEW x \in Nat, Opens(r, r.blocks[u][k], x)
      PROVE  x \in 1 .. Len(r.traces) /\ ~r.traces[x].ended /\ ~r.traces[x].lost
  <2>1. CASE u = t /\ k = 1 /\ r.blocks[u][k] = b
    BY <1>1, <2>1 DEF Opening
  <2>2. ASSUME NEW j \in 1 .. Depth(s, u), Opens(s, s.blocks[u][j], x)
        PROVE  x \in 1 .. Len(r.traces) /\ ~r.traces[x].ended /\ ~r.traces[x].lost
    <3>1. x \in 1 .. Len(s.traces) /\ ~s.traces[x].ended /\ ~s.traces[x].lost
      BY <2>2 DEF OpenersOK
    <3>2. Len(s.traces) <= Len(r.traces)
      BY DEF Opening, Keeps
    <3>3. r.traces[x].ended = s.traces[x].ended /\ r.traces[x].lost = s.traces[x].lost
      BY <3>1 DEF Opening
    <3> QED BY <3>1, <3>2, <3>3
  <2>3. CASE ~(u = t /\ k = 1)
    BY <1>1, <2>2, <2>3, OpeningStarts
  <2>4. r.blocks[t][1] = b
    BY DEF Opening
  <2> QED BY <2>1, <2>3, <2>4
<1>2. ASSUME NEW u \in Tasks, NEW v \in Tasks, NEW k \in 1 .. Depth(r, u), NEW j \in 1 .. Depth(r, v),
             NEW x \in Nat, Opens(r, r.blocks[u][k], x), Opens(r, r.blocks[v][j], x)
      PROVE  u = v /\ k = j
  <2>1. \A w \in Tasks : \A l \in 1 .. Depth(s, w) :
          Opens(s, s.blocks[w][l], x) => ~(x \in Len(s.traces) + 1 .. Len(r.traces))
    BY DEF OpenersOK
  <2>2. \A l \in 1 .. Depth(s, u), m \in 1 .. Depth(s, v) :
          Opens(s, s.blocks[u][l], x) /\ Opens(s, s.blocks[v][m], x) => u = v /\ l = m
    BY DEF OpenersOK
  <2>3. \/ u = t /\ k = 1 /\ x \in Len(s.traces) + 1 .. Len(r.traces)
        \/ u = t /\ k - 1 \in 1 .. Depth(s, u) /\ Opens(s, s.blocks[u][k - 1], x)
        \/ u # t /\ k \in 1 .. Depth(s, u) /\ Opens(s, s.blocks[u][k], x)
    BY <1>2, OpeningStarts
  <2>4. \/ v = t /\ j = 1 /\ x \in Len(s.traces) + 1 .. Len(r.traces)
        \/ v = t /\ j - 1 \in 1 .. Depth(s, v) /\ Opens(s, s.blocks[v][j - 1], x)
        \/ v # t /\ j \in 1 .. Depth(s, v) /\ Opens(s, s.blocks[v][j], x)
    BY <1>2, OpeningStarts
  <2>5. CASE x \in Len(s.traces) + 1 .. Len(r.traces)
    <3>1. u = t /\ k = 1
      BY <2>1, <2>3, <2>5
    <3>2. v = t /\ j = 1
      BY <2>1, <2>4, <2>5
    <3> QED BY <3>1, <3>2
  <2>6. CASE ~(x \in Len(s.traces) + 1 .. Len(r.traces))
    <3>1. PICK l \in 1 .. Depth(s, u) :
            Opens(s, s.blocks[u][l], x) /\ ((u = t /\ k = l + 1) \/ (u # t /\ k = l))
      BY <2>3, <2>6
    <3>2. PICK m \in 1 .. Depth(s, v) :
            Opens(s, s.blocks[v][m], x) /\ ((v = t /\ j = m + 1) \/ (v # t /\ j = m))
      BY <2>4, <2>6
    <3>3. u = v /\ l = m
      BY <2>2, <3>1, <3>2
    <3> QED BY <3>1, <3>2, <3>3
  <2> QED BY <2>5, <2>6
<1> QED BY <1>1, <1>2 DEF OpenersOK

\* A new block opens a new span, or none.
LEMMA OpeningSpanBlocks ==
  ASSUME NEW s \in Programs, NEW r \in Programs, NEW t \in Tasks, NEW b \in Blocks,
         SpanBlocksOK(s), Opening(s, r, t, b)
  PROVE  SpanBlocksOK(r)
<1> USE Lengths
<1>1. ASSUME NEW u \in Tasks, NEW k \in 1 .. Depth(s, u), s.blocks[u][k].kind = "span"
      PROVE  /\ s.blocks[u][k].id \in 1 .. Len(s.spans)
             /\ s.blocks[u][k].id \in 1 .. Len(r.spans)
             /\ ~r.spans[s.blocks[u][k].id].ended
  <2>1. s.blocks[u][k].id \in 1 .. Len(s.spans) /\ ~s.spans[s.blocks[u][k].id].ended
    BY <1>1 DEF SpanBlocksOK
  <2>2. r.spans[s.blocks[u][k].id] = s.spans[s.blocks[u][k].id]
    BY <2>1 DEF Opening
  <2>3. Len(s.spans) <= Len(r.spans)
    BY DEF Opening, Keeps
  <2> QED BY <2>1, <2>2, <2>3
<1>2. b.kind = "span" => /\ b.id \in Len(s.spans) + 1 .. Len(r.spans)
                         /\ ~r.spans[b.id].ended
  BY DEF Opening
<1>3. ASSUME NEW u \in Tasks, NEW k \in 1 .. Depth(r, u), r.blocks[u][k].kind = "span"
      PROVE  /\ r.blocks[u][k].id \in 1 .. Len(r.spans)
             /\ ~r.spans[r.blocks[u][k].id].ended
             /\ \/ u = t /\ k = 1 /\ r.blocks[u][k].id \in Len(s.spans) + 1 .. Len(r.spans)
                \/ \E l \in 1 .. Depth(s, u) :
                     /\ s.blocks[u][l].kind = "span" /\ s.blocks[u][l].id = r.blocks[u][k].id
                     /\ s.blocks[u][l].id \in 1 .. Len(s.spans)
                     /\ (u = t /\ k = l + 1) \/ (u # t /\ k = l)
  <2>1. CASE u = t /\ k = 1 /\ r.blocks[u][k] = b
    BY <1>2, <1>3, <2>1
  <2>2. CASE u = t /\ k - 1 \in 1 .. Depth(s, u) /\ r.blocks[u][k] = s.blocks[u][k - 1]
    BY <1>1, <1>3, <2>2
  <2>3. CASE u # t /\ k \in 1 .. Depth(s, u) /\ r.blocks[u][k] = s.blocks[u][k]
    BY <1>1, <1>3, <2>3
  <2>4. \/ u = t /\ k = 1 /\ r.blocks[u][k] = b
        \/ u = t /\ k - 1 \in 1 .. Depth(s, u) /\ r.blocks[u][k] = s.blocks[u][k - 1]
        \/ u # t /\ k \in 1 .. Depth(s, u) /\ r.blocks[u][k] = s.blocks[u][k]
    BY OpeningBlocks
  <2> QED BY <2>1, <2>2, <2>3, <2>4
<1>4. ASSUME NEW u \in Tasks, NEW v \in Tasks, NEW k \in 1 .. Depth(r, u), NEW j \in 1 .. Depth(r, v),
             r.blocks[u][k].kind = "span", r.blocks[v][j].kind = "span",
             r.blocks[u][k].id = r.blocks[v][j].id
      PROVE  u = v /\ k = j
  <2>1. \A l \in 1 .. Depth(s, u), m \in 1 .. Depth(s, v) :
          s.blocks[u][l].kind = "span" /\ s.blocks[v][m].kind = "span"
            /\ s.blocks[u][l].id = s.blocks[v][m].id => u = v /\ l = m
    BY SMTT(20) DEF SpanBlocksOK
  <2>2. CASE r.blocks[u][k].id \in Len(s.spans) + 1 .. Len(r.spans)
    BY <1>3, <1>4, <2>2, SMTT(20)
  <2>3. CASE ~(r.blocks[u][k].id \in Len(s.spans) + 1 .. Len(r.spans))
    <3>1. PICK l \in 1 .. Depth(s, u) :
            /\ s.blocks[u][l].kind = "span" /\ s.blocks[u][l].id = r.blocks[u][k].id
            /\ (u = t /\ k = l + 1) \/ (u # t /\ k = l)
      BY <1>3, <1>4, <2>3
    <3>2. PICK m \in 1 .. Depth(s, v) :
            /\ s.blocks[v][m].kind = "span" /\ s.blocks[v][m].id = r.blocks[v][j].id
            /\ (v = t /\ j = m + 1) \/ (v # t /\ j = m)
      BY <1>3, <1>4, <2>3
    <3>3. u = v /\ l = m
      BY <1>4, <2>1, <3>1, <3>2
    <3> QED BY <3>1, <3>2, <3>3
  <2> QED BY <2>2, <2>3
<1>5. \A u \in Tasks : \A k \in 1 .. Depth(r, u) : r.blocks[u][k].kind = "span" =>
        /\ r.blocks[u][k].id \in 1 .. Len(r.spans)
        /\ ~r.spans[r.blocks[u][k].id].ended
  BY <1>3
<1>6. \A u, v \in Tasks : \A k \in 1 .. Depth(r, u), j \in 1 .. Depth(r, v) :
        /\ r.blocks[u][k].kind = "span"
        /\ r.blocks[v][j].kind = "span"
        /\ r.blocks[u][k].id = r.blocks[v][j].id
        => u = v /\ k = j
  BY <1>4
<1> QED BY <1>5, <1>6, Zenon DEF SpanBlocksOK

\* The new block leads back to the place it was entered from.
LEMMA OpeningUnwinds ==
  ASSUME NEW s \in Programs, NEW r \in Programs, NEW t \in Tasks, NEW b \in Blocks,
         SpanBlocksOK(s), UnwindsOK(s), Opening(s, r, t, b)
  PROVE  UnwindsOK(r)
<1> USE Lengths
<1> SUFFICES ASSUME NEW u \in Tasks PROVE \E e : Unwinds(r, u, e)
  BY DEF UnwindsOK
<1>1. PICK e : Unwinds(s, u, e)
  BY DEF UnwindsOK
<1>2. Keeps(s, r, t) /\ Len(s.traces) <= Len(r.traces) /\ r.runs = s.runs
  BY DEF Opening, Keeps
<1>3. /\ e \in [1 .. Depth(s, u) + 1 -> Contexts]
      /\ e[1] = Clear(r, s.ctx[u])
      /\ \A k \in 1 .. Depth(s, u) + 1 : e[k].trace <= Len(r.traces)
  <2>1. /\ e \in [1 .. Depth(s, u) + 1 -> Contexts]
        /\ e[1] = Clear(s, s.ctx[u])
        /\ \A k \in 1 .. Depth(s, u) + 1 : e[k].trace <= Len(s.traces)
    BY <1>1 DEF Unwinds
  <2>2. \A k \in 1 .. Depth(s, u) + 1 : e[k].trace \in Nat
    BY <2>1 DEF Contexts
  <2>3. Clear(r, s.ctx[u]) = Clear(s, s.ctx[u])
    BY <1>1, <1>2, ClearIsKept
  <2> QED BY <1>2, <2>1, <2>2, <2>3
<1>4. ASSUME NEW k \in 1 .. Depth(s, u)
      PROVE  Leaves(r, s.blocks[u][k], e[k], e[k + 1])
  <2>1. k + 1 \in 1 .. Depth(s, u) + 1
    OBVIOUS
  <2>2. e[k + 1].trace <= Len(s.traces) /\ Leaves(s, s.blocks[u][k], e[k], e[k + 1])
    BY <1>1, <2>1 DEF Unwinds
  <2> QED BY <1>2, <2>2, LeavesStays
<1>5. ASSUME s.runs[u] = "bare"
      PROVE  /\ e[Depth(s, u) + 1] = Nowhere
             /\ \A k \in 1 .. Depth(s, u) + 1 : e[k].trace # 0 =>
                  \E j \in k .. Depth(s, u) : Opens(r, s.blocks[u][j], e[k].trace)
  <2>1. ASSUME NEW k \in 1 .. Depth(s, u) + 1, e[k].trace # 0
        PROVE  \E j \in k .. Depth(s, u) : Opens(r, s.blocks[u][j], e[k].trace)
    <3>1. PICK j \in k .. Depth(s, u) : Opens(s, s.blocks[u][j], e[k].trace)
      BY <1>1, <1>5, <2>1 DEF Unwinds
    <3>2. Opens(r, s.blocks[u][j], e[k].trace)
      <4>1. j \in 1 .. Depth(s, u)
        BY <3>1
      <4> QED BY <1>2, <3>1, <4>1, SMTT(30), OpensStays
    <3> QED BY <3>2
  <2> QED BY <1>1, <1>5, <2>1 DEF Unwinds
<1>6. CASE u # t
  <2>1. r.blocks[u] = s.blocks[u] /\ r.ctx[u] = s.ctx[u] /\ Depth(r, u) = Depth(s, u)
    BY <1>2, <1>6 DEF Keeps, Depth
  <2>2. Unwinds(r, u, e)
    BY <1>2, <1>3, <1>4, <1>5, <2>1 DEF Unwinds
  <2> QED BY <2>2
<1>7. CASE u = t
  <2> DEFINE f == [k \in 1 .. Depth(r, t) + 1 |-> IF k = 1 THEN Clear(r, r.ctx[t]) ELSE e[k - 1]]
  <2>1. /\ Depth(r, t) = Depth(s, t) + 1 /\ r.blocks[t][1] = b
        /\ \A k \in 1 .. Depth(s, t) : r.blocks[t][k + 1] = s.blocks[t][k]
    BY DEF Opening
  <2>2. f \in [1 .. Depth(r, t) + 1 -> Contexts] /\ f[1] = Clear(r, r.ctx[t])
    <3>1. Clear(r, r.ctx[t]) \in Contexts
      BY DEF Clear, Contexts
    <3> QED BY <1>3, <1>7, <2>1, <3>1
  <2>3. \A k \in 1 .. Depth(r, t) + 1 : f[k] = IF k = 1 THEN Clear(r, r.ctx[t]) ELSE e[k - 1]
    OBVIOUS
  <2> HIDE DEF f
  <2>4. f[2] = Clear(s, s.ctx[t])
    BY <1>1, <1>7, <2>1, <2>3 DEF Unwinds
  <2>5. \A k \in 1 .. Depth(r, t) + 1 : f[k].trace <= Len(r.traces)
    <3>1. Clear(r, r.ctx[t]).trace <= Len(r.traces)
      BY DEF Opening, Clear
    <3> QED BY <1>3, <1>7, <2>1, <2>3, <3>1
  <2>6. ASSUME NEW k \in 1 .. Depth(r, t) PROVE Leaves(r, r.blocks[t][k], f[k], f[k + 1])
    <3>1. CASE k = 1
      BY <2>1, <2>2, <2>4, <3>1 DEF Opening
    <3>2. CASE k # 1
      <4>1. k - 1 \in 1 .. Depth(s, t) /\ (k - 1) + 1 = k
        BY <2>1, <3>2
      <4>2. Leaves(r, s.blocks[t][k - 1], e[k - 1], e[k])
        BY <1>4, <1>7, <4>1
      <4>3. f[k] = e[k - 1]
        BY <2>3, <3>2
      <4>4. f[k + 1] = e[k]
        BY <2>1, <2>3
      <4>5. r.blocks[t][k] = s.blocks[t][k - 1]
        BY <2>1, <4>1
      <4> QED BY <4>2, <4>3, <4>4, <4>5
    <3> QED BY <3>1, <3>2
  <2>7. ASSUME r.runs[t] = "bare"
        PROVE  /\ f[Depth(r, t) + 1] = Nowhere
               /\ \A k \in 1 .. Depth(r, t) + 1 : f[k].trace # 0 =>
                    \E j \in k .. Depth(r, t) : Opens(r, r.blocks[t][j], f[k].trace)
    <3>1. f[Depth(r, t) + 1] = Nowhere
      BY <1>2, <1>5, <1>7, <2>1, <2>3, <2>7
    <3>2. ASSUME NEW k \in 1 .. Depth(s, t) + 1, e[k].trace # 0
          PROVE  \E j \in k + 1 .. Depth(r, t) : Opens(r, r.blocks[t][j], e[k].trace)
      <4>1. PICK j \in k .. Depth(s, t) : Opens(r, s.blocks[t][j], e[k].trace)
        BY <1>2, <1>5, <1>7, <2>7, <3>2
      <4>2. j + 1 \in k + 1 .. Depth(r, t) /\ r.blocks[t][j + 1] = s.blocks[t][j]
        BY <2>1
      <4> QED BY <4>1, <4>2
    <3>3. ASSUME NEW k \in 1 .. Depth(r, t) + 1, f[k].trace # 0
          PROVE  \E j \in k .. Depth(r, t) : Opens(r, r.blocks[t][j], f[k].trace)
      <4>1. CASE k = 1 /\ Opens(r, b, r.ctx[t].trace)
        BY <2>1, <2>2, <3>3, <4>1 DEF Clear
      <4>0. CASE k = 1 /\ StrayIn(r, r.ctx[t].trace)
        BY <2>2, <3>3, <4>0 DEF Clear
      <4>2. CASE k = 1 /\ r.ctx[t].trace = s.ctx[t].trace
        <5>1. e[1].trace = f[k].trace /\ e[1].trace # 0
          BY <1>3, <1>7, <2>2, <3>3, <4>2 DEF Clear
        <5>2. PICK j \in 2 .. Depth(r, t) : Opens(r, r.blocks[t][j], f[k].trace)
          BY <3>2, <5>1
        <5> QED BY <4>2, <5>2
      <4>3. CASE k # 1
        <5>1. k - 1 \in 1 .. Depth(s, t) + 1 /\ f[k] = e[k - 1] /\ (k - 1) + 1 = k
          BY <2>1, <2>3, <4>3
        <5> QED BY <3>2, <3>3, <5>1
      <4> QED BY <4>0, <4>1, <4>2, <4>3 DEF Opening
    <3> QED BY <3>1, <3>3
  <2>8. Unwinds(r, t, f)
    BY <2>2, <2>5, <2>6, <2>7 DEF Unwinds
  <2> QED BY <1>7, <2>8
<1> QED BY <1>6, <1>7

\* A span opened by a thread of the program is within the block of its trace.
LEMMA OpeningOwn ==
  ASSUME NEW s \in Programs, NEW r \in Programs, NEW t \in Tasks, NEW b \in Blocks,
         Recorded(s), Opening(s, r, t, b)
  PROVE  OwnOK(r)
<1> USE Lengths
<1>1. /\ SpanBlocksOK(s) /\ OpenersOK(s) /\ RegisteredOK(s) /\ OwnOK(s) /\ Keeps(s, r, t)
      /\ r.runs = s.runs /\ Len(s.traces) <= Len(r.traces) /\ r.sent = s.sent
  BY DEF Recorded, Opening, Keeps
<1>2. ASSUME NEW u \in Tasks, NEW k \in 1 .. Depth(s, u)
      PROVE  \E j \in 1 .. Depth(r, u) : /\ r.blocks[u][j] = s.blocks[u][k]
                                         /\ j = IF u = t THEN k + 1 ELSE k
  <2>1. CASE u = t
    BY <2>1 DEF Opening
  <2>2. CASE u # t
    BY <1>1, <2>2 DEF Keeps, Depth
  <2> QED BY <2>1, <2>2
<1>3. SUFFICES ASSUME NEW i \in 1 .. Len(r.spans), r.runs[r.spans[i].task] = "bare"
      PROVE  /\ ~r.spans[i].ended => Within(r, i)
             /\ ~r.traces[r.spans[i].trace].ended =>
                  \/ Opened(r, r.spans[i].task, r.spans[i].trace)
                  \/ StrayIn(r, r.spans[i].trace)
             /\ r.traces[r.spans[i].trace].ended =>
                  /\ r.spans[i].ended
                  /\ r.spans[i].status = "error" => r.traces[r.spans[i].trace].status = "error"
                  /\ Handed(r.traces[r.spans[i].trace]) => Told(r, i)
  BY DEF OwnOK
<1> DEFINE u == r.spans[i].task
           x == r.spans[i].trace
<1>4. CASE i \in 1 .. Len(s.spans)
  <2>1. r.spans[i] = s.spans[i] /\ x \in 1 .. Len(s.traces) /\ u \in Tasks
    <3>1. r.spans[i] = s.spans[i]
      BY <1>4 DEF Opening
    <3>2. s.spans[i] \in SpanRecords
      BY <1>4 DEF Programs
    <3> QED BY <1>1, <1>4, <3>1, <3>2 DEF RegisteredOK, SpanRecords
  <2>2. /\ r.traces[x].ended = s.traces[x].ended
        /\ r.traces[x].status = s.traces[x].status
        /\ Handed(r.traces[x]) = Handed(s.traces[x])
        /\ StrayIn(r, x) <=> StrayIn(s, x)
    BY <1>1, <2>1 DEF Opening, Keeps, Handed, Kept
  <2>3. /\ ~s.spans[i].ended => Within(s, i)
        /\ ~s.traces[x].ended => Opened(s, u, x) \/ StrayIn(s, x)
        /\ s.traces[x].ended =>
             /\ s.spans[i].ended
             /\ s.spans[i].status = "error" => s.traces[x].status = "error"
             /\ Handed(s.traces[x]) => Told(s, i)
    BY <1>1, <1>3, <1>4, <2>1 DEF OwnOK
  <2>4. ASSUME Within(s, i) PROVE Within(r, i)
    <3>1. PICK k \in 1 .. Depth(s, u), j \in 1 .. Depth(s, u) :
            /\ k <= j /\ s.blocks[u][k].kind = "span" /\ s.blocks[u][k].id = i
            /\ Opens(s, s.blocks[u][j], x) \/ StrayIn(s, x)
      BY <2>1, <2>4 DEF Within, Depth
    <3>2. Opens(r, s.blocks[u][j], x) \/ StrayIn(r, x)
      BY <1>1, <2>1, <2>2, <3>1, OpensStays
    <3>3. PICK l \in 1 .. Depth(r, u) : /\ r.blocks[u][l] = s.blocks[u][k]
                                        /\ l = IF u = t THEN k + 1 ELSE k
      BY <1>2, <2>1
    <3>4. PICK m \in 1 .. Depth(r, u) : /\ r.blocks[u][m] = s.blocks[u][j]
                                        /\ m = IF u = t THEN j + 1 ELSE j
      BY <1>2, <2>1
    <3>5. l <= m
      <4>1. k \in Int /\ j \in Int /\ k <= j
        BY <3>1, Between
      <4> QED BY <3>3, <3>4, <4>1, SMTT(30)
    <3> QED BY <2>1, <3>1, <3>2, <3>3, <3>4, <3>5 DEF Within, Depth
  <2>5. ASSUME Opened(s, u, x) PROVE Opened(r, u, x)
    <3>1. PICK j \in 1 .. Depth(s, u) : Opens(s, s.blocks[u][j], x)
      BY <2>5 DEF Opened
    <3>2. Opens(r, s.blocks[u][j], x)
      BY <1>1, <2>1, <3>1, OpensStays
    <3>3. PICK m \in 1 .. Depth(r, u) : r.blocks[u][m] = s.blocks[u][j]
      BY <1>2, <2>1
    <3> QED BY <3>2, <3>3 DEF Opened
  <2>6. Told(s, i) => Told(r, i)
    BY <1>1, <2>1 DEF Told
  <2> QED BY <2>1, <2>2, <2>3, <2>4, <2>5, <2>6
<1>5. CASE i \in Len(s.spans) + 1 .. Len(r.spans)
  <2>1. /\ ~r.spans[i].ended /\ u = t /\ x = r.ctx[t].trace /\ x # 0 /\ x \in Nat
        /\ b.kind = "span" /\ b.id = i
        /\ r.blocks[t][1] = b /\ 1 \in 1 .. Depth(r, t)
    <3>1. /\ ~r.spans[i].ended /\ r.spans[i].task = t /\ r.spans[i].trace = r.ctx[t].trace
          /\ r.ctx[t].trace # 0 /\ b.kind = "span" /\ b.id = i
      BY <1>5 DEF Opening
    <3>2. r.blocks[t][1] = b /\ 1 \in 1 .. Depth(r, t)
      BY DEF Opening
    <3>3. r.ctx[t].trace \in Nat
      BY DEF Contexts
    <3> QED BY <3>1, <3>2, <3>3
  <2>2. UnwindsOK(r) /\ OpenersOK(r)
    BY <1>1, OpeningUnwinds, OpeningOpeners DEF Recorded
  <2>3. PICK e : Unwinds(r, t, e)
    BY <2>2 DEF UnwindsOK
  <2>4. CASE StrayIn(r, x)
    <3>1. Within(r, i)
      BY <2>1, <2>4 DEF Within, Depth
    <3> QED BY <2>1, <2>4, <3>1 DEF StrayIn
  <2>5. CASE ~StrayIn(r, x)
    <3>1. Clear(r, r.ctx[t]).trace = x
      BY <2>1, <2>5 DEF Clear
    <3>2. PICK j \in 1 .. Depth(r, t) : Opens(r, r.blocks[t][j], x)
      BY <1>3, <2>1, <2>3, <3>1 DEF Unwinds
    <3>3. Within(r, i) /\ Opened(r, u, x)
      BY <2>1, <3>2 DEF Within, Opened, Depth
    <3>4. ~r.traces[x].ended
      BY <2>1, <2>2, <3>2 DEF OpenersOK
    <3> QED BY <2>1, <3>3, <3>4
  <2> QED BY <2>4, <2>5
<1> QED BY <1>4, <1>5

\* The blocks that stay open after one is left.
LEMMA ClosingBlocks ==
  ASSUME NEW s \in Programs, NEW r \in Programs, NEW t \in Tasks, NEW b, Closing(s, r, t, b),
         NEW u \in Tasks
  PROVE  /\ \A k \in 1 .. Depth(r, u) : \E l \in 1 .. Depth(s, u) :
              r.blocks[u][k] = s.blocks[u][l] /\ l = IF u = t THEN k + 1 ELSE k
         /\ \A l \in 1 .. Depth(s, u) :
              \/ u = t /\ l = 1
              \/ \E k \in 1 .. Depth(r, u) :
                   r.blocks[u][k] = s.blocks[u][l] /\ l = IF u = t THEN k + 1 ELSE k
<1> USE Lengths
<1>1. CASE u # t
  BY <1>1 DEF Closing, Keeps, Depth
<1>2. CASE u = t
  <2>1. /\ Depth(s, t) = Depth(r, t) + 1
        /\ \A k \in 1 .. Depth(r, t) : r.blocks[t][k] = s.blocks[t][k + 1]
    BY DEF Closing
  <2>2. ASSUME NEW l \in 1 .. Depth(s, t), l # 1
        PROVE  \E k \in 1 .. Depth(r, t) : r.blocks[t][k] = s.blocks[t][l] /\ l = k + 1
    <3>1. l - 1 \in 1 .. Depth(r, t) /\ (l - 1) + 1 = l
      BY <2>1, <2>2
    <3>2. r.blocks[t][l - 1] = s.blocks[t][(l - 1) + 1]
      BY <2>1, <3>1
    <3> QED BY <3>1, <3>2
  <2>3. ASSUME NEW k \in 1 .. Depth(r, t)
        PROVE  \E l \in 1 .. Depth(s, t) : r.blocks[t][k] = s.blocks[t][l] /\ l = k + 1
    BY <2>1
  <2> QED BY <1>2, <2>2, <2>3
<1> QED BY <1>1, <1>2

\* What they started and which spans they hold; the block that is left is none of them.
LEMMA ClosingStarts ==
  ASSUME NEW s \in Programs, NEW r \in Programs, NEW t \in Tasks, NEW b,
         SpanBlocksOK(s), OpenersOK(s), Closing(s, r, t, b),
         NEW u \in Tasks, NEW k \in 1 .. Depth(r, u)
  PROVE  \E l \in 1 .. Depth(s, u) :
           /\ r.blocks[u][k] = s.blocks[u][l]
           /\ l = IF u = t THEN k + 1 ELSE k
           /\ \A x \in Nat : Opens(r, r.blocks[u][k], x) <=> Opens(s, s.blocks[u][l], x)
           /\ \A x \in Nat : Opens(r, r.blocks[u][k], x) => ~Opens(s, b, x)
           /\ r.blocks[u][k].kind = "span" => ~(b.kind = "span" /\ b.id = r.blocks[u][k].id)
<1> USE Lengths
<1>1. PICK l \in 1 .. Depth(s, u) : r.blocks[u][k] = s.blocks[u][l] /\ l = IF u = t THEN k + 1 ELSE k
  BY ClosingBlocks
<1>2. \A x \in Nat : Opens(r, s.blocks[u][l], x) <=> Opens(s, s.blocks[u][l], x)
  <2>1. Keeps(s, r, t)
    BY DEF Closing
  <2> QED BY <2>1, OpensStays
<1>3. s.blocks[t][1] = b /\ 1 \in 1 .. Depth(s, t) /\ ~(u = t /\ l = 1)
  <2>1. s.blocks[t][1] = b /\ Depth(s, t) = Depth(r, t) + 1
    BY DEF Closing
  <2> QED BY <1>1, <2>1
<1>4. \A x \in Nat : Opens(s, s.blocks[u][l], x) => ~Opens(s, b, x)
  BY <1>3 DEF OpenersOK
<1>5. s.blocks[u][l].kind = "span" => ~(b.kind = "span" /\ b.id = s.blocks[u][l].id)
  <2>1. SUFFICES ASSUME s.blocks[u][l].kind = "span", b.kind = "span", b.id = s.blocks[u][l].id
                 PROVE  FALSE
    OBVIOUS
  <2> QED BY <1>3, <2>1, SMTT(20) DEF SpanBlocksOK
<1> QED BY <1>1, <1>2, <1>4, <1>5

\* The trace that the block started is started by no other.
LEMMA ClosingOpeners ==
  ASSUME NEW s \in Programs, NEW r \in Programs, NEW t \in Tasks, NEW b,
         SpanBlocksOK(s), OpenersOK(s), Closing(s, r, t, b)
  PROVE  OpenersOK(r)
<1> USE Lengths
<1>1. ASSUME NEW u \in Tasks, NEW k \in 1 .. Depth(r, u), NEW x \in Nat, Opens(r, r.blocks[u][k], x)
      PROVE  x \in 1 .. Len(r.traces) /\ ~r.traces[x].ended /\ ~r.traces[x].lost
  <2>1. PICK l \in 1 .. Depth(s, u) : Opens(s, s.blocks[u][l], x) /\ ~Opens(s, b, x)
    BY <1>1, ClosingStarts
  <2>2. x \in 1 .. Len(s.traces) /\ ~s.traces[x].ended /\ ~s.traces[x].lost
    BY <2>1 DEF OpenersOK
  <2> QED BY <2>1, <2>2 DEF Closing
<1>2. ASSUME NEW u \in Tasks, NEW v \in Tasks, NEW k \in 1 .. Depth(r, u), NEW j \in 1 .. Depth(r, v),
             NEW x \in Nat, Opens(r, r.blocks[u][k], x), Opens(r, r.blocks[v][j], x)
      PROVE  u = v /\ k = j
  <2>1. PICK l \in 1 .. Depth(s, u) :
          Opens(s, s.blocks[u][l], x) /\ l = IF u = t THEN k + 1 ELSE k
    BY <1>2, ClosingStarts
  <2>2. PICK m \in 1 .. Depth(s, v) :
          Opens(s, s.blocks[v][m], x) /\ m = IF v = t THEN j + 1 ELSE j
    BY <1>2, ClosingStarts
  <2>3. u = v /\ l = m
    BY <2>1, <2>2 DEF OpenersOK
  <2> QED BY <2>1, <2>2, <2>3
<1> QED BY <1>1, <1>2 DEF OpenersOK

\* The span that is over had no other block.
LEMMA ClosingSpanBlocks ==
  ASSUME NEW s \in Programs, NEW r \in Programs, NEW t \in Tasks, NEW b,
         SpanBlocksOK(s), OpenersOK(s), Closing(s, r, t, b)
  PROVE  SpanBlocksOK(r)
<1> USE Lengths
<1>1. ASSUME NEW u \in Tasks, NEW k \in 1 .. Depth(r, u), r.blocks[u][k].kind = "span"
      PROVE  r.blocks[u][k].id \in 1 .. Len(r.spans) /\ ~r.spans[r.blocks[u][k].id].ended
  <2>1. PICK l \in 1 .. Depth(s, u) :
          /\ r.blocks[u][k] = s.blocks[u][l]
          /\ ~(b.kind = "span" /\ b.id = r.blocks[u][k].id)
    BY <1>1, SMTT(30), ClosingStarts
  <2>2. s.blocks[u][l].id \in 1 .. Len(s.spans) /\ ~s.spans[s.blocks[u][l].id].ended
    BY <1>1, <2>1 DEF SpanBlocksOK
  <2>3. \A i \in 1 .. Len(s.spans) : ~(b.kind = "span" /\ b.id = i) => r.spans[i] = s.spans[i]
    BY DEF Closing
  <2>4. Len(r.spans) = Len(s.spans)
    BY DEF Closing
  <2>5. r.spans[s.blocks[u][l].id] = s.spans[s.blocks[u][l].id]
    BY <2>1, <2>2, <2>3
  <2> QED BY <2>1, <2>2, <2>4, <2>5
<1>2. ASSUME NEW u \in Tasks, NEW v \in Tasks, NEW k \in 1 .. Depth(r, u), NEW j \in 1 .. Depth(r, v),
             r.blocks[u][k].kind = "span", r.blocks[v][j].kind = "span",
             r.blocks[u][k].id = r.blocks[v][j].id
      PROVE  u = v /\ k = j
  <2>1. PICK l \in 1 .. Depth(s, u) :
          r.blocks[u][k] = s.blocks[u][l] /\ l = IF u = t THEN k + 1 ELSE k
    BY ClosingBlocks
  <2>2. PICK m \in 1 .. Depth(s, v) :
          r.blocks[v][j] = s.blocks[v][m] /\ m = IF v = t THEN j + 1 ELSE j
    BY ClosingBlocks
  <2>3. u = v /\ l = m
    <3>1. /\ s.blocks[u][l].kind = "span" /\ s.blocks[v][m].kind = "span"
          /\ s.blocks[u][l].id = s.blocks[v][m].id
      BY <1>2, <2>1, <2>2
    <3> QED BY <3>1, SMTT(20) DEF SpanBlocksOK
  <2> QED BY <2>1, <2>2, <2>3
<1>3. \A u \in Tasks : \A k \in 1 .. Depth(r, u) : r.blocks[u][k].kind = "span" =>
        /\ r.blocks[u][k].id \in 1 .. Len(r.spans)
        /\ ~r.spans[r.blocks[u][k].id].ended
  BY <1>1
<1>4. \A u, v \in Tasks : \A k \in 1 .. Depth(r, u), j \in 1 .. Depth(r, v) :
        /\ r.blocks[u][k].kind = "span"
        /\ r.blocks[v][j].kind = "span"
        /\ r.blocks[u][k].id = r.blocks[v][j].id
        => u = v /\ k = j
  BY <1>2
<1> QED BY <1>3, <1>4, Zenon DEF SpanBlocksOK

\* A task that does not run leaves nothing.
LEMMA ClosingIdle ==
  ASSUME NEW s \in Programs, NEW r \in Programs, NEW t \in Tasks, NEW b,
         s.runs[t] # "no", IdleOK(s), Closing(s, r, t, b)
  PROVE  IdleOK(r)
<1> SUFFICES ASSUME NEW u \in Tasks, r.runs[u] = "no"
             PROVE  Depth(r, u) = 0 /\ \A i \in 1 .. Len(r.spans) : r.spans[i].task # u
  BY DEF IdleOK
<1>1. s.runs[u] = "no" /\ r.blocks[u] = s.blocks[u]
  BY DEF Closing, Keeps
<1>2. Depth(s, u) = 0 /\ \A i \in 1 .. Len(s.spans) : s.spans[i].task # u
  BY <1>1 DEF IdleOK
<1>3. Depth(r, u) = 0
  BY <1>1, <1>2 DEF Depth
<1>4. \A i \in 1 .. Len(r.spans) : r.spans[i].task # u
  BY <1>2 DEF Closing, Keeps
<1> QED BY <1>3, <1>4

\* No span leaves its trace's set.
LEMMA ClosingRegistered ==
  ASSUME NEW s \in Programs, NEW r \in Programs, NEW t \in Tasks, NEW b,
         RegisteredOK(s), Closing(s, r, t, b)
  PROVE  RegisteredOK(r)
<1>1. /\ Len(r.traces) = Len(s.traces) /\ Len(r.spans) = Len(s.spans)
      /\ \A x \in 1 .. Len(s.traces) : r.traces[x].spans = s.traces[x].spans
      /\ \A i \in 1 .. Len(s.spans) : r.spans[i].trace = s.spans[i].trace
  BY DEF Closing, Keeps
<1> QED BY <1>1 DEF RegisteredOK

\* The trace that is over was never handed over before.
LEMMA ClosingSent ==
  ASSUME NEW s \in Programs, NEW r \in Programs, NEW t \in Tasks, NEW b,
         OpenersOK(s), SentOK(s), Closing(s, r, t, b)
  PROVE  SentOK(r)
<1> USE Lengths
<1>1. /\ Len(r.traces) = Len(s.traces)
      /\ Len(s.sent) <= Len(r.sent) /\ Len(r.sent) <= Len(s.sent) + 1
      /\ \A k \in 1 .. Len(s.sent) : r.sent[k] = s.sent[k]
      /\ s.blocks[t][1] = b /\ 1 \in 1 .. Depth(s, t)
  <2>1. Depth(s, t) = Depth(r, t) + 1
    BY DEF Closing
  <2> QED BY <2>1 DEF Closing
<1>2. \A x \in Nat : Opens(s, b, x) => x \in 1 .. Len(s.traces) /\ ~s.traces[x].ended
  BY <1>1 DEF OpenersOK
<1>3. ASSUME NEW k \in 1 .. Len(s.sent)
      PROVE  /\ r.sent[k].trace \in 1 .. Len(r.traces)
             /\ r.traces[r.sent[k].trace].ended
             /\ Handed(r.traces[r.sent[k].trace])
             /\ ~Opens(s, b, r.sent[k].trace)
  <2>1. /\ s.sent[k].trace \in 1 .. Len(s.traces)
        /\ s.traces[s.sent[k].trace].ended
        /\ Handed(s.traces[s.sent[k].trace])
    BY DEF SentOK
  <2>2. ~Opens(s, b, s.sent[k].trace)
    BY <1>2, <2>1
  <2>3. r.traces[s.sent[k].trace] = s.traces[s.sent[k].trace]
    BY <2>1, <2>2 DEF Closing
  <2> QED BY <1>1, <2>1, <2>2, <2>3
<1>4. ASSUME NEW k \in 1 .. Len(r.sent), ~(k \in 1 .. Len(s.sent))
      PROVE  /\ r.sent[k].trace \in 1 .. Len(r.traces)
             /\ r.traces[r.sent[k].trace].ended
             /\ Handed(r.traces[r.sent[k].trace])
             /\ Opens(s, b, r.sent[k].trace)
             /\ k = Len(s.sent) + 1
  <2>1. k \in Len(s.sent) + 1 .. Len(r.sent) /\ k = Len(s.sent) + 1
    BY <1>1, <1>4
  <2>2. r.sent[k].trace \in Nat
    BY Elements
  <2>3. Opens(s, b, r.sent[k].trace) /\ Handed(r.traces[r.sent[k].trace])
    BY <2>1 DEF Closing
  <2>4. r.sent[k].trace \in 1 .. Len(s.traces)
    BY <1>2, <2>2, <2>3
  <2> QED BY <1>1, <2>1, <2>3, <2>4 DEF Closing
<1>5. ASSUME NEW k \in 1 .. Len(r.sent), NEW l \in 1 .. Len(r.sent), r.sent[k].trace = r.sent[l].trace
      PROVE  k = l
  <2>1. CASE k \in 1 .. Len(s.sent) /\ l \in 1 .. Len(s.sent)
    BY <1>1, <1>5, <2>1 DEF SentOK
  <2>2. CASE ~(k \in 1 .. Len(s.sent)) \/ ~(l \in 1 .. Len(s.sent))
    BY <1>3, <1>4, <1>5, <2>2
  <2> QED BY <2>1, <2>2
<1>6. ASSUME NEW x \in 1 .. Len(r.traces), r.traces[x].ended, Handed(r.traces[x])
      PROVE  \E k \in 1 .. Len(r.sent) : r.sent[k].trace = x
  <2>1. CASE Opens(s, b, x)
    <3>1. Len(r.sent) = Len(s.sent) + 1 /\ r.sent[Len(r.sent)].trace = x
      BY <1>1, <1>6, <2>1 DEF Closing
    <3>2. Len(r.sent) \in 1 .. Len(r.sent)
      BY <3>1
    <3> QED BY <3>1, <3>2
  <2>2. CASE ~Opens(s, b, x)
    <3>1. r.traces[x] = s.traces[x]
      BY <1>1, <2>2 DEF Closing
    <3>2. PICK k \in 1 .. Len(s.sent) : s.sent[k].trace = x
      BY <1>1, <1>6, <3>1 DEF SentOK
    <3> QED BY <1>1, <3>2
  <2> QED BY <2>1, <2>2
<1>7. \A k \in 1 .. Len(r.sent) : /\ r.sent[k].trace \in 1 .. Len(r.traces)
                                  /\ r.traces[r.sent[k].trace].ended
                                  /\ Handed(r.traces[r.sent[k].trace])
  BY <1>3, <1>4
<1> QED BY <1>5, <1>6, <1>7 DEF SentOK

\* A place is its trace and its span.
LEMMA SamePlace ==
  ASSUME NEW p \in Contexts, NEW q \in Contexts, p.trace = q.trace, p.span = q.span
  PROVE  p = q
  BY DEF Contexts

\* The rest of the blocks lead on from where this one led.
LEMMA ClosingUnwinds ==
  ASSUME NEW s \in Programs, NEW r \in Programs, NEW t \in Tasks, NEW b \in Blocks,
         SpanBlocksOK(s), OpenersOK(s), UnwindsOK(s), Closing(s, r, t, b)
  PROVE  UnwindsOK(r)
<1> USE Lengths
<1> SUFFICES ASSUME NEW u \in Tasks PROVE \E e : Unwinds(r, u, e)
  BY DEF UnwindsOK
<1>1. PICK e : Unwinds(s, u, e)
  BY DEF UnwindsOK
<1>2. Keeps(s, r, t) /\ Len(s.traces) = Len(r.traces) /\ r.runs = s.runs
  BY DEF Closing, Keeps
<1>3. /\ e \in [1 .. Depth(s, u) + 1 -> Contexts]
      /\ e[1] = Clear(r, s.ctx[u])
      /\ \A k \in 1 .. Depth(s, u) + 1 : e[k].trace <= Len(r.traces)
  BY <1>1, <1>2, ClearIsKept DEF Unwinds
<1>4. ASSUME NEW k \in 1 .. Depth(s, u)
      PROVE  Leaves(r, s.blocks[u][k], e[k], e[k + 1])
  <2>1. k + 1 \in 1 .. Depth(s, u) + 1
    OBVIOUS
  <2>2. e[k + 1].trace <= Len(s.traces) /\ Leaves(s, s.blocks[u][k], e[k], e[k + 1])
    BY <1>1, <2>1 DEF Unwinds
  <2> QED BY <1>2, <2>2, LeavesStays
<1>5. ASSUME s.runs[u] = "bare"
      PROVE  /\ e[Depth(s, u) + 1] = Nowhere
             /\ \A k \in 1 .. Depth(s, u) + 1 : e[k].trace # 0 =>
                  \E j \in k .. Depth(s, u) : Opens(r, s.blocks[u][j], e[k].trace)
  <2>1. ASSUME NEW k \in 1 .. Depth(s, u) + 1, e[k].trace # 0
        PROVE  \E j \in k .. Depth(s, u) : Opens(r, s.blocks[u][j], e[k].trace)
    <3>1. PICK j \in k .. Depth(s, u) : Opens(s, s.blocks[u][j], e[k].trace)
      BY <1>1, <1>5, <2>1 DEF Unwinds
    <3>2. Opens(r, s.blocks[u][j], e[k].trace)
      <4>1. j \in 1 .. Depth(s, u)
        BY <3>1
      <4> QED BY <1>2, <3>1, <4>1, SMTT(30), OpensStays
    <3> QED BY <3>2
  <2> QED BY <1>1, <1>5, <2>1 DEF Unwinds
<1>6. CASE u # t
  <2>1. r.blocks[u] = s.blocks[u] /\ r.ctx[u] = s.ctx[u] /\ Depth(r, u) = Depth(s, u)
    BY <1>2, <1>6 DEF Keeps, Depth
  <2>2. Unwinds(r, u, e)
    BY <1>2, <1>3, <1>4, <1>5, <2>1 DEF Unwinds
  <2> QED BY <2>2
<1>7. CASE u = t
  <2> DEFINE f == [k \in 1 .. Depth(r, t) + 1 |-> e[k + 1]]
  <2>1. /\ Depth(s, t) = Depth(r, t) + 1 /\ s.blocks[t][1] = b
        /\ \A k \in 1 .. Depth(r, t) : r.blocks[t][k] = s.blocks[t][k + 1]
    BY DEF Closing
  <2>2. f \in [1 .. Depth(r, t) + 1 -> Contexts] /\ \A k \in 1 .. Depth(r, t) + 1 : f[k] = e[k + 1]
    BY <1>3, <1>7, <2>1
  <2> HIDE DEF f
  <2>3. f[1] = Clear(r, r.ctx[t])
    <3>1. Leaves(s, b, e[1], e[2]) /\ Leaves(s, b, Clear(s, s.ctx[t]), Clear(r, r.ctx[t]))
      BY <1>1, <1>7, <2>1 DEF Unwinds, Closing
    <3>2. /\ e[1] = Clear(s, s.ctx[t]) /\ e[2] \in Contexts /\ Clear(r, r.ctx[t]) \in Contexts
          /\ f[1] = e[2]
      <4>1. e[1] = Clear(s, s.ctx[t]) /\ 2 \in 1 .. Depth(s, t) + 1
        BY <1>1, <1>7, <2>1 DEF Unwinds
      <4>2. f[1] = e[1 + 1]
        BY <2>2
      <4>3. Clear(r, r.ctx[t]) \in Contexts
        BY Lengths DEF Clear, Contexts
      <4> QED BY <1>3, <1>7, <4>1, <4>2, <4>3
    <3>3. e[2].trace = Clear(r, r.ctx[t]).trace /\ e[2].span = Clear(r, r.ctx[t]).span
      BY <3>1, <3>2 DEF Leaves, Blocks
    <3> QED BY <3>2, <3>3, SamePlace
  <2>4. \A k \in 1 .. Depth(r, t) + 1 : f[k].trace <= Len(r.traces)
    <3> SUFFICES ASSUME NEW k \in 1 .. Depth(r, t) + 1 PROVE f[k].trace <= Len(r.traces)
      OBVIOUS
    <3>1. k + 1 \in 1 .. Depth(s, t) + 1 /\ f[k] = e[k + 1]
      BY <2>1, <2>2
    <3> QED BY <1>3, <1>7, <3>1
  <2>5. ASSUME NEW k \in 1 .. Depth(r, t) PROVE Leaves(r, r.blocks[t][k], f[k], f[k + 1])
    <3>1. Leaves(r, s.blocks[t][k + 1], e[k + 1], e[(k + 1) + 1])
      BY <1>4, <1>7, <2>1
    <3>2. f[k] = e[k + 1] /\ f[k + 1] = e[(k + 1) + 1] /\ r.blocks[t][k] = s.blocks[t][k + 1]
      BY <2>1, <2>2
    <3> QED BY <3>1, <3>2
  <2>6. ASSUME r.runs[t] = "bare"
        PROVE  /\ f[Depth(r, t) + 1] = Nowhere
               /\ \A k \in 1 .. Depth(r, t) + 1 : f[k].trace # 0 =>
                    \E j \in k .. Depth(r, t) : Opens(r, r.blocks[t][j], f[k].trace)
    <3>1. f[Depth(r, t) + 1] = Nowhere
      BY <1>2, <1>5, <1>7, <2>1, <2>2, <2>6
    <3>2. ASSUME NEW k \in 1 .. Depth(r, t) + 1, f[k].trace # 0
          PROVE  \E j \in k .. Depth(r, t) : Opens(r, r.blocks[t][j], f[k].trace)
      <4>1. k + 1 \in 1 .. Depth(s, t) + 1 /\ e[k + 1] = f[k]
        BY <2>1, <2>2
      <4>2. PICK j \in k + 1 .. Depth(s, t) : Opens(r, s.blocks[t][j], f[k].trace)
        BY <1>2, <1>5, <1>7, <2>6, <3>2, <4>1
      <4>3. j - 1 \in k .. Depth(r, t) /\ j - 1 \in 1 .. Depth(r, t) /\ (j - 1) + 1 = j
        BY <2>1
      <4>4. r.blocks[t][j - 1] = s.blocks[t][(j - 1) + 1]
        BY <2>1, <4>3
      <4> QED BY <4>2, <4>3, <4>4
    <3> QED BY <3>1, <3>2
  <2>7. Unwinds(r, t, f)
    BY <2>2, <2>3, <2>4, <2>5, <2>6 DEF Unwinds
  <2> QED BY <1>7, <2>7
<1> QED BY <1>6, <1>7

\* Every span of a trace that is over is over, and was handed over as it is.
LEMMA ClosingOwn ==
  ASSUME NEW s \in Programs, NEW r \in Programs, NEW t \in Tasks, NEW b \in Blocks,
         Recorded(s), Closing(s, r, t, b)
  PROVE  OwnOK(r)
<1> USE Lengths
<1>1. /\ SpanBlocksOK(s) /\ OpenersOK(s) /\ RegisteredOK(s) /\ OwnOK(s) /\ Keeps(s, r, t)
      /\ r.runs = s.runs /\ Len(s.traces) = Len(r.traces) /\ Len(r.spans) = Len(s.spans)
      /\ s.blocks[t][1] = b /\ Depth(s, t) = Depth(r, t) + 1
  BY DEF Recorded, Closing, Keeps
<1>2. SUFFICES ASSUME NEW i \in 1 .. Len(r.spans), r.runs[r.spans[i].task] = "bare"
      PROVE  /\ ~r.spans[i].ended => Within(r, i)
             /\ ~r.traces[r.spans[i].trace].ended =>
                  \/ Opened(r, r.spans[i].task, r.spans[i].trace)
                  \/ StrayIn(r, r.spans[i].trace)
             /\ r.traces[r.spans[i].trace].ended =>
                  /\ r.spans[i].ended
                  /\ r.spans[i].status = "error" => r.traces[r.spans[i].trace].status = "error"
                  /\ Handed(r.traces[r.spans[i].trace]) => Told(r, i)
  BY DEF OwnOK
<1> DEFINE u == s.spans[i].task
           x == s.spans[i].trace
<1>3. /\ i \in 1 .. Len(s.spans) /\ r.spans[i].task = u /\ r.spans[i].trace = x
      /\ x \in 1 .. Len(s.traces) /\ x \in Nat /\ i \in s.traces[x].spans
  BY <1>1 DEF Keeps, RegisteredOK
<1>4. u \in Tasks
  BY <1>3, Elements DEF SpanRecords
<1>5. /\ ~s.spans[i].ended => Within(s, i)
      /\ ~s.traces[x].ended => Opened(s, u, x) \/ StrayIn(s, x)
      /\ s.traces[x].ended =>
           /\ s.spans[i].ended
           /\ s.spans[i].status = "error" => s.traces[x].status = "error"
           /\ Handed(s.traces[x]) => Told(s, i)
  BY <1>1, <1>2, <1>3 DEF OwnOK
<1>6. IF b.kind = "span" /\ b.id = i THEN r.spans[i].ended ELSE r.spans[i] = s.spans[i]
  BY <1>3 DEF Closing
\* An open span lies in blocks from k to j, and b is not k; nobody ends its trace
\* or j started it.
<1>7. ASSUME ~r.spans[i].ended
      PROVE  \E k, j \in 1 .. Depth(s, u) :
               /\ k <= j /\ ~(u = t /\ k = 1)
               /\ s.blocks[u][k].kind = "span" /\ s.blocks[u][k].id = i
               /\ Opens(s, s.blocks[u][j], x) \/ StrayIn(s, x)
  <2>1. ~(b.kind = "span" /\ b.id = i) /\ ~s.spans[i].ended
    BY <1>6, <1>7
  <2>2. PICK k, j \in 1 .. Depth(s, u) :
          /\ k <= j /\ s.blocks[u][k].kind = "span" /\ s.blocks[u][k].id = i
          /\ Opens(s, s.blocks[u][j], x) \/ StrayIn(s, x)
    BY <1>5, <2>1 DEF Within, Depth
  <2>3. ~(u = t /\ k = 1)
    BY <1>1, <2>1, <2>2
  <2> QED BY <2>2, <2>3
<1>0. \A l \in 1 .. Depth(s, u) : ~(u = t /\ l = 1) =>
        \E k \in 1 .. Depth(r, u) :
          r.blocks[u][k] = s.blocks[u][l] /\ l = IF u = t THEN k + 1 ELSE k
  <2> HIDE DEF u
  <2> QED BY <1>4, ClosingBlocks
<1>8. CASE Opens(s, b, x)
  <2>1. /\ r.traces[x].ended
        /\ r.traces[x].spans = s.traces[x].spans
        /\ \A j \in r.traces[x].spans :
             r.spans[j].status = "error" => r.traces[x].status = "error"
    BY <1>3, <1>8 DEF Closing
  <2>2. r.spans[i].ended
    <3>1. SUFFICES ASSUME ~r.spans[i].ended PROVE FALSE
      OBVIOUS
    <3>2. PICK k, j \in 1 .. Depth(s, u) :
            k <= j /\ ~(u = t /\ k = 1) /\ (Opens(s, s.blocks[u][j], x) \/ StrayIn(s, x))
      BY <1>7, <3>1
    <3>3. 1 \in 1 .. Depth(s, t) /\ ~StrayIn(s, x)
      <4>1. 1 \in 1 .. Depth(s, t)
        BY <1>1
      <4> QED BY <1>1, <1>3, <1>8, <4>1 DEF OpenersOK, StrayIn
    <3>4. u = t /\ j = 1
      <4>1. Opens(s, s.blocks[t][1], x) /\ u \in Tasks /\ x \in Nat
        BY <1>1, <1>3, <1>4, <1>8
      <4> QED BY <1>1, <3>2, <3>3, <4>1, SMTT(20) DEF OpenersOK
    <3> QED BY <3>2, <3>4
  <2>3. ASSUME Handed(r.traces[x]) PROVE Told(r, i)
    <3>1. Len(r.sent) = Len(s.sent) + 1 /\ r.sent[Len(r.sent)].trace = x
      BY <1>3, <1>8, <2>3 DEF Closing
    <3>2. Len(r.sent) \in Len(s.sent) + 1 .. Len(r.sent) /\ Len(r.sent) \in 1 .. Len(r.sent)
      BY <3>1
    <3>3. <<i, r.spans[i].ended, r.spans[i].status>> \in r.sent[Len(r.sent)].spans
      <4>1. \A j \in r.traces[r.sent[Len(r.sent)].trace].spans :
              <<j, r.spans[j].ended, r.spans[j].status>> \in r.sent[Len(r.sent)].spans
        BY <3>2 DEF Closing
      <4>2. i \in r.traces[x].spans
        BY <1>3, <2>1
      <4> QED BY <3>1, <4>1, <4>2
    <3>4. r.spans[i].ended = TRUE
      BY <2>2, Elements DEF SpanRecords
    <3> QED BY <1>3, <3>1, <3>2, <3>3, <3>4 DEF Told
  <2> QED BY <1>3, <2>1, <2>2, <2>3
<1>9. CASE ~Opens(s, b, x)
  <2>1. r.traces[x] = s.traces[x] /\ (StrayIn(r, x) <=> StrayIn(s, x))
    BY <1>1, <1>3, <1>9 DEF Closing, Keeps
  <2>2. \A j \in 1 .. Depth(s, u) : Opens(s, s.blocks[u][j], x) =>
          \E m \in 1 .. Depth(r, u) : /\ Opens(r, r.blocks[u][m], x)
                                      /\ r.blocks[u][m] = s.blocks[u][j]
                                      /\ j = IF u = t THEN m + 1 ELSE m
    <3> SUFFICES ASSUME NEW j \in 1 .. Depth(s, u), Opens(s, s.blocks[u][j], x)
                 PROVE  \E m \in 1 .. Depth(r, u) : /\ Opens(r, r.blocks[u][m], x)
                                                    /\ r.blocks[u][m] = s.blocks[u][j]
                                                    /\ j = IF u = t THEN m + 1 ELSE m
      OBVIOUS
    <3>1. ~(u = t /\ j = 1)
      BY <1>1, <1>9
    <3>2. PICK m \in 1 .. Depth(r, u) : /\ r.blocks[u][m] = s.blocks[u][j]
                                        /\ j = IF u = t THEN m + 1 ELSE m
      BY <1>0, <3>1
    <3>3. Opens(r, s.blocks[u][j], x)
      BY <1>1, <1>4, OpensStays
    <3> QED BY <3>2, <3>3
  <2>3. ASSUME ~r.spans[i].ended PROVE Within(r, i)
    <3>1. PICK k, j \in 1 .. Depth(s, u) :
            /\ k <= j /\ ~(u = t /\ k = 1)
            /\ s.blocks[u][k].kind = "span" /\ s.blocks[u][k].id = i
            /\ Opens(s, s.blocks[u][j], x) \/ StrayIn(s, x)
      BY <1>7, <2>3
    <3>2. PICK l \in 1 .. Depth(r, u) : /\ r.blocks[u][l] = s.blocks[u][k]
                                        /\ k = IF u = t THEN l + 1 ELSE l
      BY <1>0, <3>1
    <3>0. CASE StrayIn(s, x)
      <4>1. StrayIn(r, x) /\ r.blocks[u][l].kind = "span" /\ r.blocks[u][l].id = i
        BY <2>1, <3>0, <3>1, <3>2
      <4>2. l <= l
        BY Between
      <4> QED BY <1>3, <4>1, <4>2 DEF Within, Depth
    <3>5. CASE Opens(s, s.blocks[u][j], x)
      <4>1. PICK m \in 1 .. Depth(r, u) : /\ Opens(r, r.blocks[u][m], x)
                                          /\ j = IF u = t THEN m + 1 ELSE m
        BY <2>2, <3>5
      <4>2. l <= m
        <5>1. CASE u = t
          BY <3>1, <3>2, <4>1, <5>1
        <5>2. CASE u # t
          BY <3>1, <3>2, <4>1, <5>2
        <5> QED BY <5>1, <5>2
      <4> QED BY <1>3, <3>1, <3>2, <4>1, <4>2 DEF Within, Depth
    <3> QED BY <3>0, <3>1, <3>5
  <2>4. ~s.traces[x].ended => Opened(r, u, x) \/ StrayIn(r, x)
    BY <1>5, <2>1, <2>2 DEF Opened
  <2>5. ASSUME s.traces[x].ended
        PROVE  r.spans[i] = s.spans[i] /\ (Told(s, i) => Told(r, i))
    <3>1. s.spans[i].ended /\ 1 \in 1 .. Depth(s, t)
      BY <1>1, <1>5, <2>5
    <3>2. ~(b.kind = "span" /\ b.id = i)
      BY <1>1, <3>1 DEF SpanBlocksOK
    <3>3. r.spans[i] = s.spans[i]
      BY <1>6, <3>2
    <3>4. \A k \in 1 .. Len(s.sent) : k \in 1 .. Len(r.sent) /\ r.sent[k] = s.sent[k]
      BY DEF Closing
    <3> QED BY <3>3, <3>4 DEF Told
  <2> QED BY <1>3, <1>5, <2>1, <2>3, <2>4, <2>5
<1> QED BY <1>8, <1>9

\* A block goes in front of the others.
LEMMA Pushed ==
  ASSUME NEW q \in Seq(Blocks), NEW b \in Blocks
  PROVE  /\ <<b>> \o q \in Seq(Blocks)
         /\ Len(<<b>> \o q) = Len(q) + 1
         /\ (<<b>> \o q)[1] = b
         /\ \A k \in 1 .. Len(q) : (<<b>> \o q)[k + 1] = q[k]
<1>1. <<b>> \in Seq(Blocks) /\ Len(<<b>>) = 1 /\ <<b>>[1] = b
  OBVIOUS
<1>2. /\ <<b>> \o q \in Seq(Blocks)
      /\ Len(<<b>> \o q) = 1 + Len(q)
      /\ \A i \in 1 .. 1 + Len(q) : (<<b>> \o q)[i] = IF i <= 1 THEN <<b>>[i] ELSE q[i - 1]
  BY <1>1, ConcatProperties
<1> QED BY <1>1, <1>2

\* What the calls that operations are made of do to each field.
HasStarted(s, r) ==
  /\ r.ctx = s.ctx /\ r.runs = s.runs /\ r.blocks = s.blocks
  /\ r.spans = s.spans /\ r.sent = s.sent
  /\ Len(r.traces) = Len(s.traces) + 1
  /\ \A x \in 1 .. Len(s.traces) : r.traces[x] = s.traces[x]
  /\ ~r.traces[Len(s.traces) + 1].ended /\ r.traces[Len(s.traces) + 1].spans = {}
  /\ ~r.traces[Len(s.traces) + 1].lost

HasPlace(s, r, t, p) ==
  /\ r.runs = s.runs /\ r.blocks = s.blocks
  /\ r.traces = s.traces /\ r.spans = s.spans /\ r.sent = s.sent
  /\ r.ctx[t] = p
  /\ \A u \in Tasks : u # t => r.ctx[u] = s.ctx[u]

HasEntered(s, r, t, b) ==
  /\ r.ctx = s.ctx /\ r.runs = s.runs
  /\ r.traces = s.traces /\ r.spans = s.spans /\ r.sent = s.sent
  /\ Depth(r, t) = Depth(s, t) + 1 /\ r.blocks[t][1] = b
  /\ \A k \in 1 .. Depth(s, t) : r.blocks[t][k + 1] = s.blocks[t][k]
  /\ \A u \in Tasks : u # t => r.blocks[u] = s.blocks[u]

HasRegistered(s, r, x, span) ==
  /\ r.ctx = s.ctx /\ r.runs = s.runs /\ r.blocks = s.blocks /\ r.sent = s.sent
  /\ Len(r.traces) = Len(s.traces) /\ Len(r.spans) = Len(s.spans) + 1
  /\ \A z \in 1 .. Len(s.traces) :
       /\ r.traces[z].ended = s.traces[z].ended
       /\ r.traces[z].status = s.traces[z].status
       /\ r.traces[z].sampled = s.traces[z].sampled
       /\ r.traces[z].lost = s.traces[z].lost
       /\ r.traces[z].spans = IF z = x THEN s.traces[z].spans \cup {Len(s.spans) + 1}
                                       ELSE s.traces[z].spans
  /\ \A i \in 1 .. Len(s.spans) : r.spans[i] = s.spans[i]
  /\ r.spans[Len(s.spans) + 1] = span

HasRefused(s, r) ==
  /\ r.ctx = s.ctx /\ r.runs = s.runs /\ r.blocks = s.blocks
  /\ r.spans = s.spans /\ r.sent = s.sent
  /\ Len(r.traces) = Len(s.traces)
  /\ \A z \in 1 .. Len(s.traces) : /\ r.traces[z].ended = s.traces[z].ended
                                   /\ r.traces[z].status = s.traces[z].status
                                   /\ r.traces[z].sampled = s.traces[z].sampled
                                   /\ r.traces[z].lost = s.traces[z].lost
                                   /\ r.traces[z].spans = s.traces[z].spans

HasStrayed(s, r, x, alone) ==
  /\ r.ctx = s.ctx /\ r.runs = s.runs /\ r.blocks = s.blocks
  /\ r.spans = s.spans /\ r.sent = s.sent
  /\ Len(r.traces) = Len(s.traces)
  /\ \A z \in 1 .. Len(s.traces) : /\ r.traces[z].ended = s.traces[z].ended
                                   /\ r.traces[z].status = s.traces[z].status
                                   /\ r.traces[z].sampled = s.traces[z].sampled
                                   /\ r.traces[z].spans = s.traces[z].spans
                                   /\ z # x => r.traces[z].lost = s.traces[z].lost
  /\ r.traces[x].lost = (s.traces[x].lost \/ alone)

TraceHasEnded(s, r, x) ==
  /\ r.ctx = s.ctx /\ r.runs = s.runs /\ r.blocks = s.blocks
  /\ r.spans = s.spans /\ r.sent = s.sent
  /\ Len(r.traces) = Len(s.traces)
  /\ \A z \in 1 .. Len(s.traces) : r.traces[z].spans = s.traces[z].spans
  /\ \A z \in 1 .. Len(s.traces) : z # x => r.traces[z] = s.traces[z]
  /\ r.traces[x].ended /\ r.traces[x].lost = s.traces[x].lost
  /\ \A i \in r.traces[x].spans : r.spans[i].status = "error" => r.traces[x].status = "error"

SpanHasEnded(s, r, i) ==
  /\ r.ctx = s.ctx /\ r.runs = s.runs /\ r.blocks = s.blocks
  /\ r.traces = s.traces /\ r.sent = s.sent
  /\ Len(r.spans) = Len(s.spans)
  /\ \A j \in 1 .. Len(s.spans) : j # i => r.spans[j] = s.spans[j]
  /\ r.spans[i].ended /\ r.spans[i].trace = s.spans[i].trace /\ r.spans[i].task = s.spans[i].task

HasEmitted(s, r, x) ==
  /\ r.ctx = s.ctx /\ r.runs = s.runs /\ r.blocks = s.blocks /\ r.spans = s.spans
  /\ Len(r.traces) = Len(s.traces)
  /\ \A z \in 1 .. Len(s.traces) : z # x => r.traces[z] = s.traces[z]
  /\ r.traces[x].ended = s.traces[x].ended
  /\ r.traces[x].status = s.traces[x].status
  /\ r.traces[x].spans = s.traces[x].spans
  /\ Len(r.sent) = IF Handed(r.traces[x]) THEN Len(s.sent) + 1 ELSE Len(s.sent)
  /\ \A k \in 1 .. Len(s.sent) : r.sent[k] = s.sent[k]
  /\ Handed(r.traces[x]) =>
       /\ r.sent[Len(s.sent) + 1].trace = x
       /\ \A i \in s.traces[x].spans :
            <<i, s.spans[i].ended, s.spans[i].status>> \in r.sent[Len(s.sent) + 1].spans

HasPopped(s, r, t) ==
  /\ r.ctx = s.ctx /\ r.runs = s.runs
  /\ r.traces = s.traces /\ r.spans = s.spans /\ r.sent = s.sent
  /\ Depth(s, t) = Depth(r, t) + 1
  /\ \A k \in 1 .. Depth(r, t) : r.blocks[t][k] = s.blocks[t][k + 1]
  /\ \A u \in Tasks : u # t => r.blocks[u] = s.blocks[u]

\* StartTrace appends an open trace without spans.
LEMMA Started ==
  ASSUME NEW s \in Programs, NEW sampled \in BOOLEAN, NEW r, r = StartTrace(s, sampled)
  PROVE  r \in Programs /\ HasStarted(s, r)
<1> DEFINE new == [sampled |-> sampled, status |-> "ok", ended |-> FALSE, spans |-> {}, dropped |-> 0,
                  lost |-> FALSE]
<1>1. r = [ctx |-> s.ctx, runs |-> s.runs, blocks |-> s.blocks, traces |-> Append(s.traces, new),
           spans |-> s.spans, sent |-> s.sent]
  BY DEF StartTrace, Programs
<1>2. new \in TraceRecords /\ ~new.ended /\ new.spans = {} /\ ~new.lost
  BY DEF TraceRecords, Statuses
<1> HIDE DEF new
<1>3. /\ Append(s.traces, new) \in Seq(TraceRecords)
      /\ Len(Append(s.traces, new)) = Len(s.traces) + 1
      /\ \A x \in 1 .. Len(s.traces) : Append(s.traces, new)[x] = s.traces[x]
      /\ Append(s.traces, new)[Len(s.traces) + 1] = new
  BY <1>2, AppendProperties DEF Programs
<1>4. r \in Programs
  BY <1>1, <1>3 DEF Programs
<1> QED BY <1>1, <1>2, <1>3, <1>4 DEF HasStarted

\* A task moves to another place.
LEMMA Recontext ==
  ASSUME NEW s \in Programs, NEW c \in [Tasks -> Contexts], NEW r, r = [s EXCEPT !.ctx = c]
  PROVE  /\ r \in Programs
         /\ r.ctx = c /\ r.runs = s.runs /\ r.blocks = s.blocks
         /\ r.traces = s.traces /\ r.spans = s.spans /\ r.sent = s.sent
<1>1. r = [ctx |-> c, runs |-> s.runs, blocks |-> s.blocks,
           traces |-> s.traces, spans |-> s.spans, sent |-> s.sent]
  BY DEF Programs
<1>2. r \in Programs
  BY <1>1 DEF Programs
<1> QED BY <1>1, <1>2

\* Setting the current trace of a task.
LEMMA Placed ==
  ASSUME NEW s \in Programs, NEW t \in Tasks, NEW x \in Nat, NEW r, r = [s EXCEPT !.ctx[t].trace = x]
  PROVE  r \in Programs /\ HasPlace(s, r, t, [trace |-> x, span |-> s.ctx[t].span])
<1>1. s.ctx[t] \in Contexts
  BY DEF Programs
<1> DEFINE p == [trace |-> x, span |-> s.ctx[t].span]
<1>2. [s.ctx[t] EXCEPT !.trace = x] = p /\ p \in Contexts
  BY <1>1 DEF Contexts
<1>3. [s.ctx EXCEPT ![t].trace = x] = [s.ctx EXCEPT ![t] = [s.ctx[t] EXCEPT !.trace = x]]
  OBVIOUS
<1>4. [s EXCEPT !.ctx[t].trace = x] = [s EXCEPT !.ctx = [s.ctx EXCEPT ![t].trace = x]]
  OBVIOUS
<1> HIDE DEF p
<1>5. PICK c : c = [s.ctx EXCEPT ![t] = p]
  OBVIOUS
<1>6. PICK q : q = [s EXCEPT !.ctx = c]
  OBVIOUS
<1>7. c \in [Tasks -> Contexts] /\ c[t] = p /\ \A u \in Tasks : u # t => c[u] = s.ctx[u]
  BY <1>2, <1>5 DEF Programs
<1>8. /\ q \in Programs
      /\ q.ctx = c /\ q.runs = s.runs /\ q.blocks = s.blocks
      /\ q.traces = s.traces /\ q.spans = s.spans /\ q.sent = s.sent
  BY <1>6, <1>7, Recontext
<1>9. r = q
  BY <1>2, <1>3, <1>4, <1>5, <1>6
<1> QED BY <1>7, <1>8, <1>9 DEF p, HasPlace

\* Setting the current span of a task.
LEMMA Spanned ==
  ASSUME NEW s \in Programs, NEW t \in Tasks, NEW x \in Nat, NEW r, r = [s EXCEPT !.ctx[t].span = x]
  PROVE  r \in Programs /\ HasPlace(s, r, t, [trace |-> s.ctx[t].trace, span |-> x])
<1>1. s.ctx[t] \in Contexts
  BY DEF Programs
<1> DEFINE p == [trace |-> s.ctx[t].trace, span |-> x]
<1>2. [s.ctx[t] EXCEPT !.span = x] = p /\ p \in Contexts
  BY <1>1 DEF Contexts
<1>3. [s.ctx EXCEPT ![t].span = x] = [s.ctx EXCEPT ![t] = [s.ctx[t] EXCEPT !.span = x]]
  OBVIOUS
<1>4. [s EXCEPT !.ctx[t].span = x] = [s EXCEPT !.ctx = [s.ctx EXCEPT ![t].span = x]]
  OBVIOUS
<1> HIDE DEF p
<1>5. PICK c : c = [s.ctx EXCEPT ![t] = p]
  OBVIOUS
<1>6. PICK q : q = [s EXCEPT !.ctx = c]
  OBVIOUS
<1>7. c \in [Tasks -> Contexts] /\ c[t] = p /\ \A u \in Tasks : u # t => c[u] = s.ctx[u]
  BY <1>2, <1>5 DEF Programs
<1>8. /\ q \in Programs
      /\ q.ctx = c /\ q.runs = s.runs /\ q.blocks = s.blocks
      /\ q.traces = s.traces /\ q.spans = s.spans /\ q.sent = s.sent
  BY <1>6, <1>7, Recontext
<1>9. r = q
  BY <1>2, <1>3, <1>4, <1>5, <1>6
<1> QED BY <1>7, <1>8, <1>9 DEF p, HasPlace

\* Enter pushes a block.
LEMMA Entered ==
  ASSUME NEW s \in Programs, NEW t \in Tasks, NEW b \in Blocks, NEW r, r = Enter(s, t, b)
  PROVE  r \in Programs /\ HasEntered(s, r, t, b)
<1>1. s.blocks \in [Tasks -> Seq(Blocks)]
  BY DEF Programs
<1>2. r = [ctx |-> s.ctx, runs |-> s.runs, blocks |-> [s.blocks EXCEPT ![t] = <<b>> \o s.blocks[t]],
           traces |-> s.traces, spans |-> s.spans, sent |-> s.sent]
  BY DEF Enter, Programs
<1>3. /\ <<b>> \o s.blocks[t] \in Seq(Blocks)
      /\ Len(<<b>> \o s.blocks[t]) = Len(s.blocks[t]) + 1
      /\ (<<b>> \o s.blocks[t])[1] = b
      /\ \A k \in 1 .. Len(s.blocks[t]) : (<<b>> \o s.blocks[t])[k + 1] = s.blocks[t][k]
  BY <1>1, Pushed
<1>4. r \in Programs
  BY <1>1, <1>2, <1>3 DEF Programs
<1>5. r.blocks[t] = <<b>> \o s.blocks[t] /\ \A u \in Tasks : u # t => r.blocks[u] = s.blocks[u]
  BY <1>1, <1>2
<1> QED BY <1>2, <1>3, <1>4, <1>5 DEF Depth, HasEntered

\* A trace that has room takes a span.
LEMMA Registered ==
  ASSUME NEW s \in Programs, NEW x \in 1 .. Len(s.traces), NEW span \in SpanRecords, NEW r,
         ~Full(s.traces[x]), r = Register(s, x, span)
  PROVE  r \in Programs /\ HasRegistered(s, r, x, span)
<1>1. r = [s EXCEPT !.spans = Append(@, span), !.traces[x].spans = @ \cup {Len(s.spans) + 1}]
  BY DEF Register
<1>2. s.traces[x] \in TraceRecords
  BY Elements
<1>3. PICK y : y = [s.traces[x] EXCEPT !.spans = s.traces[x].spans \cup {Len(s.spans) + 1}]
  OBVIOUS
<1>4. PICK c : c = [s.traces EXCEPT ![x] = y]
  OBVIOUS
<1>5. PICK d : d = Append(s.spans, span)
  OBVIOUS
<1>6. r = [ctx |-> s.ctx, runs |-> s.runs, blocks |-> s.blocks, traces |-> c, spans |-> d, sent |-> s.sent]
  BY <1>1, <1>3, <1>4, <1>5 DEF Programs
<1>7. /\ y \in TraceRecords /\ y.ended = s.traces[x].ended /\ y.status = s.traces[x].status
      /\ y.sampled = s.traces[x].sampled /\ y.lost = s.traces[x].lost
      /\ y.spans = s.traces[x].spans \cup {Len(s.spans) + 1}
  BY <1>2, <1>3, Lengths DEF TraceRecords
<1>8. /\ c \in Seq(TraceRecords) /\ Len(c) = Len(s.traces) /\ c[x] = y
      /\ \A z \in 1 .. Len(s.traces) : z # x => c[z] = s.traces[z]
  BY <1>4, <1>7, ExceptSeq DEF Programs
<1>9. /\ d \in Seq(SpanRecords) /\ Len(d) = Len(s.spans) + 1 /\ d[Len(s.spans) + 1] = span
      /\ \A i \in 1 .. Len(s.spans) : d[i] = s.spans[i]
  BY <1>5, AppendProperties DEF Programs
<1>10. r \in Programs
  BY <1>6, <1>8, <1>9 DEF Programs
<1>11. \A z \in 1 .. Len(s.traces) :
         /\ c[z].ended = s.traces[z].ended
         /\ c[z].status = s.traces[z].status
         /\ c[z].sampled = s.traces[z].sampled
         /\ c[z].lost = s.traces[z].lost
         /\ c[z].spans = IF z = x THEN s.traces[z].spans \cup {Len(s.spans) + 1} ELSE s.traces[z].spans
  <2> SUFFICES ASSUME NEW z \in 1 .. Len(s.traces)
               PROVE  /\ c[z].ended = s.traces[z].ended
                      /\ c[z].status = s.traces[z].status
                      /\ c[z].sampled = s.traces[z].sampled
                      /\ c[z].lost = s.traces[z].lost
                      /\ c[z].spans = IF z = x THEN s.traces[z].spans \cup {Len(s.spans) + 1}
                                               ELSE s.traces[z].spans
    OBVIOUS
  <2> QED BY <1>7, <1>8
<1>12. /\ r.ctx = s.ctx /\ r.runs = s.runs /\ r.blocks = s.blocks /\ r.sent = s.sent
       /\ r.traces = c /\ r.spans = d
  BY <1>6
<1> QED BY <1>8, <1>9, <1>10, <1>11, <1>12 DEF HasRegistered

\* A full trace counts the span it refuses.
LEMMA Refused ==
  ASSUME NEW s \in Programs, NEW x \in 1 .. Len(s.traces), NEW span, NEW r,
         Full(s.traces[x]), r = Register(s, x, span)
  PROVE  r \in Programs /\ HasRefused(s, r)
<1>1. r = [s EXCEPT !.traces[x].dropped = @ + 1]
  BY DEF Register
<1>2. s.traces[x] \in TraceRecords
  BY Elements
<1>3. PICK y : y = [s.traces[x] EXCEPT !.dropped = s.traces[x].dropped + 1]
  OBVIOUS
<1>4. PICK c : c = [s.traces EXCEPT ![x] = y]
  OBVIOUS
<1>5. r = [ctx |-> s.ctx, runs |-> s.runs, blocks |-> s.blocks, traces |-> c,
           spans |-> s.spans, sent |-> s.sent]
  BY <1>1, <1>3, <1>4 DEF Programs
<1>6. /\ y \in TraceRecords /\ y.ended = s.traces[x].ended /\ y.status = s.traces[x].status
      /\ y.sampled = s.traces[x].sampled /\ y.spans = s.traces[x].spans
      /\ y.lost = s.traces[x].lost
  BY <1>2, <1>3 DEF TraceRecords
<1>7. /\ c \in Seq(TraceRecords) /\ Len(c) = Len(s.traces) /\ c[x] = y
      /\ \A z \in 1 .. Len(s.traces) : z # x => c[z] = s.traces[z]
  BY <1>4, <1>6, ExceptSeq DEF Programs
<1>8. r \in Programs
  BY <1>5, <1>7 DEF Programs
<1> QED BY <1>5, <1>6, <1>7, <1>8 DEF HasRefused

\* A program whose traces are others.
LEMMA Retraced ==
  ASSUME NEW s \in Programs, NEW c \in Seq(TraceRecords), NEW r,
         r = [ctx |-> s.ctx, runs |-> s.runs, blocks |-> s.blocks, traces |-> c,
              spans |-> s.spans, sent |-> s.sent]
  PROVE  r \in Programs
  BY DEF Programs

\* A trace that is left open is noted as lost.
LEMMA Strayed ==
  ASSUME NEW s \in Programs, NEW x \in 1 .. Len(s.traces), NEW alone \in BOOLEAN, NEW r,
         r = [s EXCEPT !.traces[x].lost = @ \/ alone]
  PROVE  r \in Programs /\ HasStrayed(s, r, x, alone)
<1>1. s.traces[x] \in TraceRecords
  BY Elements
<1>2. PICK y : y = [s.traces[x] EXCEPT !.lost = s.traces[x].lost \/ alone]
  OBVIOUS
<1>3. PICK c : c = [s.traces EXCEPT ![x] = y]
  OBVIOUS
<1>4. r = [ctx |-> s.ctx, runs |-> s.runs, blocks |-> s.blocks, traces |-> c,
           spans |-> s.spans, sent |-> s.sent]
  BY <1>2, <1>3 DEF Programs
<1>5. /\ y \in TraceRecords /\ y.ended = s.traces[x].ended /\ y.status = s.traces[x].status
      /\ y.sampled = s.traces[x].sampled /\ y.spans = s.traces[x].spans
      /\ y.lost = (s.traces[x].lost \/ alone)
  BY <1>1, <1>2 DEF TraceRecords
<1>6. /\ c \in Seq(TraceRecords) /\ Len(c) = Len(s.traces) /\ c[x] = y
      /\ \A z \in 1 .. Len(s.traces) : z # x => c[z] = s.traces[z]
  BY <1>3, <1>5, ExceptSeq DEF Programs
<1>7. r \in Programs
  BY <1>4, <1>6, Retraced
<1> QED BY <1>4, <1>5, <1>6, <1>7 DEF HasStrayed

\* EndTrace ends an open trace, as an error if one of its spans is one.
LEMMA TraceEnds ==
  ASSUME NEW s \in Programs, NEW x \in 1 .. Len(s.traces), NEW raised \in BOOLEAN, NEW r,
         ~s.traces[x].ended, r = EndTrace(s, x, raised)
  PROVE  r \in Programs /\ TraceHasEnded(s, r, x)
<1> DEFINE failed == \E i \in s.traces[x].spans : s.spans[i].status = "error"
           result == IF raised \/ failed THEN "error" ELSE s.traces[x].status
<1>1. r = [s EXCEPT !.traces[x] = [s.traces[x] EXCEPT !.ended = TRUE, !.status = result]]
  BY DEF EndTrace
<1>2. s.traces[x] \in TraceRecords
  BY Elements
<1>3. result \in Statuses /\ (failed => result = "error")
  BY <1>2 DEF TraceRecords, Statuses
<1> HIDE DEF result
<1>4. PICK y : y = [s.traces[x] EXCEPT !.ended = TRUE, !.status = result]
  OBVIOUS
<1>5. PICK c : c = [s.traces EXCEPT ![x] = y]
  OBVIOUS
<1>6. r = [ctx |-> s.ctx, runs |-> s.runs, blocks |-> s.blocks, traces |-> c,
           spans |-> s.spans, sent |-> s.sent]
  BY <1>1, <1>4, <1>5 DEF Programs
<1>7. /\ y \in TraceRecords /\ y.ended /\ y.status = result /\ y.spans = s.traces[x].spans
      /\ y.lost = s.traces[x].lost
  BY <1>2, <1>3, <1>4 DEF TraceRecords
<1>8. /\ c \in Seq(TraceRecords) /\ Len(c) = Len(s.traces) /\ c[x] = y
      /\ \A z \in 1 .. Len(s.traces) : z # x => c[z] = s.traces[z]
  BY <1>5, <1>7, ExceptSeq DEF Programs
<1>9. r \in Programs
  BY <1>6, <1>8 DEF Programs
<1>10. \A i \in r.traces[x].spans : r.spans[i].status = "error" => r.traces[x].status = "error"
  BY <1>3, <1>6, <1>7, <1>8
<1> QED BY <1>6, <1>7, <1>8, <1>9, <1>10 DEF TraceHasEnded

\* EndSpan ends a span.
LEMMA SpanEnds ==
  ASSUME NEW s \in Programs, NEW i \in 1 .. Len(s.spans), NEW raised \in BOOLEAN, NEW r,
         r = EndSpan(s, i, raised)
  PROVE  r \in Programs /\ SpanHasEnded(s, r, i)
<1> DEFINE result == IF raised THEN "error" ELSE s.spans[i].status
<1>1. r = [s EXCEPT !.spans[i] = [s.spans[i] EXCEPT !.ended = TRUE, !.status = result]]
  BY DEF EndSpan
<1>2. s.spans[i] \in SpanRecords
  BY Elements
<1>3. result \in Statuses
  BY <1>2 DEF SpanRecords, Statuses
<1> HIDE DEF result
<1>4. PICK y : y = [s.spans[i] EXCEPT !.ended = TRUE, !.status = result]
  OBVIOUS
<1>5. PICK c : c = [s.spans EXCEPT ![i] = y]
  OBVIOUS
<1>6. r = [ctx |-> s.ctx, runs |-> s.runs, blocks |-> s.blocks, traces |-> s.traces,
           spans |-> c, sent |-> s.sent]
  BY <1>1, <1>4, <1>5 DEF Programs
<1>7. /\ y \in SpanRecords /\ y.ended /\ y.trace = s.spans[i].trace /\ y.task = s.spans[i].task
  BY <1>2, <1>3, <1>4 DEF SpanRecords
<1>8. /\ c \in Seq(SpanRecords) /\ Len(c) = Len(s.spans) /\ c[i] = y
      /\ \A j \in 1 .. Len(s.spans) : j # i => c[j] = s.spans[j]
  BY <1>5, <1>7, ExceptSeq DEF Programs
<1>9. r \in Programs
  BY <1>6, <1>8 DEF Programs
<1> QED BY <1>6, <1>7, <1>8, <1>9 DEF SpanHasEnded

\* Emit hands a trace over if it is kept.
LEMMA Emitted ==
  ASSUME NEW s \in Programs, NEW x \in 1 .. Len(s.traces), NEW frozen \in BOOLEAN, NEW r,
         r = Emit(s, x, frozen), ~s.traces[x].lost, s.traces[x].spans \subseteq 1 .. Len(s.spans)
  PROVE  r \in Programs /\ HasEmitted(s, r, x)
<1>1. CASE ~Kept(s.traces[x])
  BY <1>1 DEF Emit, HasEmitted, Handed
<1>3. CASE Kept(s.traces[x]) /\ ~frozen
  <2>1. s.traces[x] \in TraceRecords
    BY Elements
  <2>2. PICK y : y = [s.traces[x] EXCEPT !.lost = TRUE]
    OBVIOUS
  <2>3. PICK c : c = [s.traces EXCEPT ![x] = y]
    OBVIOUS
  <2>4. r = [ctx |-> s.ctx, runs |-> s.runs, blocks |-> s.blocks, traces |-> c,
             spans |-> s.spans, sent |-> s.sent]
    BY <1>3, <2>2, <2>3 DEF Emit, Programs
  <2>5. /\ y \in TraceRecords /\ y.ended = s.traces[x].ended /\ y.status = s.traces[x].status
        /\ y.spans = s.traces[x].spans /\ y.lost
    BY <2>1, <2>2 DEF TraceRecords
  <2>6. /\ c \in Seq(TraceRecords) /\ Len(c) = Len(s.traces) /\ c[x] = y
        /\ \A z \in 1 .. Len(s.traces) : z # x => c[z] = s.traces[z]
    BY <2>3, <2>5, ExceptSeq DEF Programs
  <2>7. r \in Programs
    BY <2>4, <2>6, Retraced
  <2>8. /\ r.ctx = s.ctx /\ r.runs = s.runs /\ r.blocks = s.blocks /\ r.spans = s.spans
        /\ r.sent = s.sent /\ r.traces = c
    BY <2>4
  <2>9. ~Handed(r.traces[x])
    BY <2>5, <2>6, <2>8 DEF Handed
  <2>10. /\ r.traces[x].ended = s.traces[x].ended /\ r.traces[x].status = s.traces[x].status
         /\ r.traces[x].spans = s.traces[x].spans
         /\ Len(r.traces) = Len(s.traces)
         /\ \A z \in 1 .. Len(s.traces) : z # x => r.traces[z] = s.traces[z]
    BY <2>5, <2>6, <2>8
  <2>11. Len(r.sent) = (IF Handed(r.traces[x]) THEN Len(s.sent) + 1 ELSE Len(s.sent))
    BY <2>8, <2>9
  <2> QED BY <2>7, <2>8, <2>9, <2>10, <2>11, Zenon DEF HasEmitted
<1>2. CASE Kept(s.traces[x]) /\ frozen
  <2>1. PICK y : y = Snapshot(s, x)
    OBVIOUS
  <2>2. s.traces[x] \in TraceRecords /\ \A i \in s.traces[x].spans : i \in Nat /\ s.spans[i] \in SpanRecords
    BY Elements, Lengths
  <2>3. y \in Snapshots
    <3>1. s.traces[x].status \in Statuses
      BY <2>2 DEF TraceRecords
    <3>2. {<<i, s.spans[i].ended, s.spans[i].status>> : i \in s.traces[x].spans}
            \in SUBSET (Nat \X BOOLEAN \X Statuses)
      BY <2>2 DEF SpanRecords
    <3> QED BY <2>1, <3>1, <3>2, Lengths DEF Snapshot, Snapshots
  <2>4. /\ y.trace = x
        /\ \A i \in s.traces[x].spans : <<i, s.spans[i].ended, s.spans[i].status>> \in y.spans
    BY <2>1 DEF Snapshot
  <2>5. PICK c : c = Append(s.sent, y)
    OBVIOUS
  <2>6. r = [ctx |-> s.ctx, runs |-> s.runs, blocks |-> s.blocks, traces |-> s.traces,
             spans |-> s.spans, sent |-> c]
    BY <1>2, <2>1, <2>5 DEF Emit, Programs
  <2>7. /\ c \in Seq(Snapshots) /\ Len(c) = Len(s.sent) + 1 /\ c[Len(s.sent) + 1] = y
        /\ \A k \in 1 .. Len(s.sent) : c[k] = s.sent[k]
    BY <2>3, <2>5, AppendProperties DEF Programs
  <2>8. r \in Programs
    BY <2>6, <2>7 DEF Programs
  <2>9. /\ r.ctx = s.ctx /\ r.runs = s.runs /\ r.blocks = s.blocks /\ r.spans = s.spans
        /\ r.traces = s.traces /\ r.sent = c
    BY <2>6
  <2>10. Handed(r.traces[x])
    BY <1>2, <2>9 DEF Handed
  <2>11. Len(r.sent) = IF Handed(r.traces[x]) THEN Len(s.sent) + 1 ELSE Len(s.sent)
    BY <2>7, <2>9, <2>10
  <2> QED BY <2>4, <2>7, <2>8, <2>9, <2>10, <2>11 DEF HasEmitted
<1> QED BY <1>1, <1>2, <1>3

\* The innermost block of a task is gone.
LEMMA Popped ==
  ASSUME NEW s \in Programs, NEW t \in Tasks, Depth(s, t) # 0, NEW r,
         r = [s EXCEPT !.blocks[t] = Tail(@)]
  PROVE  r \in Programs /\ HasPopped(s, r, t)
<1>1. s.blocks \in [Tasks -> Seq(Blocks)] /\ s.blocks[t] \in Seq(Blocks) /\ s.blocks[t] # <<>>
  BY DEF Programs, Depth
<1>2. PICK c : c = [s.blocks EXCEPT ![t] = Tail(s.blocks[t])]
  OBVIOUS
<1>3. r = [ctx |-> s.ctx, runs |-> s.runs, blocks |-> c, traces |-> s.traces,
           spans |-> s.spans, sent |-> s.sent]
  BY <1>2 DEF Programs
<1>4. /\ Tail(s.blocks[t]) \in Seq(Blocks)
      /\ Len(Tail(s.blocks[t])) = Len(s.blocks[t]) - 1
      /\ \A k \in 1 .. Len(Tail(s.blocks[t])) : Tail(s.blocks[t])[k] = s.blocks[t][k + 1]
  BY <1>1, HeadTailProperties
<1>5. /\ c \in [Tasks -> Seq(Blocks)] /\ c[t] = Tail(s.blocks[t])
      /\ \A u \in Tasks : u # t => c[u] = s.blocks[u]
  BY <1>1, <1>2, <1>4
<1>6. PICK q : q = [ctx |-> s.ctx, runs |-> s.runs, blocks |-> c, traces |-> s.traces,
                    spans |-> s.spans, sent |-> s.sent]
  OBVIOUS
<1>7. q \in Programs
  BY <1>5, <1>6 DEF Programs
<1>8. r \in Programs
  BY <1>3, <1>6, <1>7
<1> QED BY <1>1, <1>3, <1>4, <1>5, <1>8 DEF Depth, HasPopped

\* with client.trace(...): a new trace, current from here on.
LEMMA OpenTraceOpens ==
  ASSUME NEW s \in Programs, NEW t \in Tasks, NEW sampled \in BOOLEAN, RegisteredOK(s), UnwindsOK(s),
         NEW r, r = OpenTrace(s, t, sampled)
  PROVE  r \in Programs /\ \E b \in Blocks : Opening(s, r, t, b)
<1> USE Lengths
<1>1. PICK n : n = Len(s.traces) + 1
  OBVIOUS
<1>2. PICK p : p = StartTrace(s, sampled)
  OBVIOUS
<1>3. p \in Programs /\ HasStarted(s, p)
  BY <1>2, Started
<1> n \in Nat /\ p \in Programs
  BY <1>1, <1>3
<1>4. PICK q : q = [p EXCEPT !.ctx[t].trace = n]
  OBVIOUS
<1>5. q \in Programs /\ HasPlace(p, q, t, [trace |-> n, span |-> p.ctx[t].span])
  BY <1>4, Placed
<1> q \in Programs
  BY <1>5
<1>6. PICK b : b = [kind |-> "trace", id |-> n, back |-> s.ctx[t].trace, alone |-> FALSE]
  OBVIOUS
<1>7. b \in Blocks /\ b.kind = "trace" /\ b.id = n /\ b.back = s.ctx[t].trace
  BY <1>6 DEF Blocks, Contexts
<1> b \in Blocks
  BY <1>7
<1>8. Len(p.traces) = n
  BY <1>1, <1>3 DEF HasStarted
<1>9. r \in Programs /\ HasEntered(q, r, t, b)
  <2>1. r = Enter(q, t, b)
    BY <1>2, <1>4, <1>6, <1>8 DEF OpenTrace
  <2> QED BY <2>1, Entered
<1>10. Depth(q, t) = Depth(s, t) /\ q.blocks = s.blocks
  BY <1>3, <1>5 DEF Depth, HasStarted, HasPlace
<1>11. /\ r.runs = s.runs /\ r.spans = s.spans /\ r.sent = s.sent
       /\ r.ctx[t] = [trace |-> n, span |-> s.ctx[t].span]
       /\ \A u \in Tasks : u # t => r.blocks[u] = s.blocks[u] /\ r.ctx[u] = s.ctx[u]
       /\ Len(r.traces) = Len(s.traces) + 1
       /\ \A x \in 1 .. Len(s.traces) : r.traces[x] = s.traces[x]
       /\ ~r.traces[n].ended /\ r.traces[n].spans = {} /\ ~r.traces[n].lost
  BY <1>1, <1>3, <1>5, <1>9, <1>10 DEF HasStarted, HasPlace, HasEntered
<1>12. Keeps(s, r, t)
  <2>1. \A x \in 1 .. Len(s.traces) : StrayIn(r, x) <=> StrayIn(s, x)
    <3> SUFFICES ASSUME NEW x \in 1 .. Len(s.traces) PROVE StrayIn(r, x) <=> StrayIn(s, x)
      OBVIOUS
    <3>1. x \in 1 .. Len(r.traces) /\ r.traces[x] = s.traces[x]
      BY <1>11
    <3> QED BY <3>1 DEF StrayIn
  <2> QED BY <1>11, <2>1 DEF Keeps
<1>13. /\ \A x \in Len(s.traces) + 1 .. Len(r.traces) : x = n
       /\ \A x \in 1 .. Len(r.traces) : x \in 1 .. Len(s.traces) \/ x = n
       /\ \A i \in Len(s.spans) + 1 .. Len(r.spans) : FALSE
  BY <1>1, <1>11
<1>14. \A x \in 1 .. Len(r.traces) : r.traces[x].spans \subseteq 1 .. Len(r.spans)
  BY <1>11, <1>13 DEF RegisteredOK
<1>15. /\ Leaves(r, b, Clear(r, r.ctx[t]), Clear(s, s.ctx[t]))
       /\ Opens(r, b, r.ctx[t].trace) /\ r.ctx[t].trace = n
       /\ \A x \in Nat : Opens(r, b, x) => x = n
  <2>1. PICK e : Unwinds(s, t, e)
    BY DEF UnwindsOK
  <2>2. Clear(r, s.ctx[t]) = Clear(s, s.ctx[t])
    BY <1>9, <1>12, <2>1, ClearIsKept
  <2>3. [trace |-> s.ctx[t].trace, span |-> s.ctx[t].span] = s.ctx[t]
    BY DEF Contexts
  <2>4. Clear(r, r.ctx[t]).span = s.ctx[t].span
    BY <1>11 DEF Clear
  <2>5. Leaves(r, b, Clear(r, r.ctx[t]), Clear(s, s.ctx[t]))
    BY <1>7, <2>2, <2>3, <2>4 DEF Leaves
  <2> QED BY <1>7, <1>11, <2>5 DEF Opens
<1>16. n \in Len(s.traces) + 1 .. Len(r.traces) /\ n <= Len(r.traces)
  BY <1>1, <1>11
<1>17. /\ Depth(r, t) = Depth(s, t) + 1
       /\ r.blocks[t][1] = b
       /\ \A k \in 1 .. Depth(s, t) : r.blocks[t][k + 1] = s.blocks[t][k]
  BY <1>9, <1>10 DEF HasEntered
<1>18. Opening(s, r, t, b)
  BY <1>7, <1>11, <1>12, <1>13, <1>14, <1>15, <1>16, <1>17 DEF Opening
<1> QED BY <1>9, <1>18

\* A trace that cannot be started: a block that does nothing.
LEMMA OpenNothingOpens ==
  ASSUME NEW s \in Programs, NEW t \in Tasks, RegisteredOK(s), UnwindsOK(s),
         NEW r, r = OpenNothing(s, t)
  PROVE  r \in Programs /\ \E b \in Blocks : Opening(s, r, t, b)
<1> USE Lengths
<1>1. Noop \in Blocks /\ Noop.kind = "noop"
  BY DEF Noop, Blocks
<1> Noop \in Blocks
  BY <1>1
<1>2. r \in Programs /\ HasEntered(s, r, t, Noop)
  BY Entered DEF OpenNothing
<1>3. PICK e : Unwinds(s, t, e)
  BY DEF UnwindsOK
<1>4. Keeps(s, r, t)
  <2>1. \A x \in 1 .. Len(s.traces) : StrayIn(r, x) <=> StrayIn(s, x)
    BY <1>2 DEF StrayIn, HasEntered
  <2> QED BY <1>2, <2>1 DEF Keeps, HasEntered
<1>5. s.ctx[t].trace <= Len(s.traces) /\ Clear(r, s.ctx[t]) = Clear(s, s.ctx[t])
  BY <1>2, <1>3, <1>4, ClearIsKept
<1>6. Leaves(r, Noop, Clear(r, r.ctx[t]), Clear(s, s.ctx[t])) /\ \A y \in Nat : ~Opens(r, Noop, y)
  BY <1>1, <1>2, <1>5 DEF Leaves, Opens, HasEntered
<1>7. /\ r.ctx = s.ctx /\ r.traces = s.traces /\ r.spans = s.spans /\ r.sent = s.sent
      /\ Depth(r, t) = Depth(s, t) + 1 /\ r.blocks[t][1] = Noop
      /\ \A k \in 1 .. Depth(s, t) : r.blocks[t][k + 1] = s.blocks[t][k]
      /\ \A x \in Len(s.traces) + 1 .. Len(r.traces) : FALSE
      /\ \A i \in Len(s.spans) + 1 .. Len(r.spans) : FALSE
  BY <1>2 DEF HasEntered
<1>8. Opening(s, r, t, Noop)
  BY <1>1, <1>4, <1>5, <1>6, <1>7 DEF Opening, RegisteredOK
<1> QED BY <1>2, <1>8

\* with client.span(...): in the current trace or in one of its own; nowhere when it is full or fails.
LEMMA OpenSpanOpens ==
  ASSUME NEW s \in Programs, NEW t \in Tasks, NEW sampled \in BOOLEAN, NEW known \in BOOLEAN,
         RegisteredOK(s), UnwindsOK(s), NEW r, r = OpenSpan(s, t, sampled, known)
  PROVE  r \in Programs /\ \E b \in Blocks : Opening(s, r, t, b)
<1> USE Lengths
\* It is in the trace x, the current one or a new one.
<1> DEFINE alone == s.ctx[t].trace = 0
           here  == IF alone THEN [StartTrace(s, sampled) EXCEPT !.ctx[t].trace = Len(s.traces) + 1]
                             ELSE s
           x     == here.ctx[t].trace
           span  == [trace |-> x, parent |-> s.ctx[t].span, task |-> t, status |-> "ok", ended |-> FALSE]
           noted == IF known THEN Register(here, x, span) ELSE here
           kind  == [kind |-> "span", id |-> Len(noted.spans), back |-> s.ctx[t].span, alone |-> alone]
<1>0. r = IF ~known \/ Full(here.traces[x])
          THEN Enter([noted EXCEPT !.traces[x].lost = @ \/ alone], t, Noop)
          ELSE Enter([noted EXCEPT !.ctx[t].span = Len(noted.spans)], t, kind)
  BY DEF OpenSpan
<1>4. span = [trace |-> x, parent |-> s.ctx[t].span, task |-> t, status |-> "ok", ended |-> FALSE]
  OBVIOUS
<1>6. noted = IF known THEN Register(here, x, span) ELSE here
  OBVIOUS
<1>9. kind = [kind |-> "span", id |-> Len(noted.spans), back |-> s.ctx[t].span, alone |-> alone]
  OBVIOUS
<1> HIDE DEF span, noted, kind
<1>1. here = IF alone THEN [StartTrace(s, sampled) EXCEPT !.ctx[t].trace = Len(s.traces) + 1] ELSE s
  OBVIOUS
<1>2. x = here.ctx[t].trace
  OBVIOUS
<1> HIDE DEF here, x
<1>3. /\ here \in Programs /\ x \in 1 .. Len(here.traces)
      /\ here.runs = s.runs /\ here.blocks = s.blocks /\ here.spans = s.spans /\ here.sent = s.sent
      /\ here.ctx[t] = [trace |-> x, span |-> s.ctx[t].span]
      /\ \A u \in Tasks : u # t => here.ctx[u] = s.ctx[u]
      /\ \A z \in 1 .. Len(s.traces) : here.traces[z] = s.traces[z]
      /\ IF alone THEN /\ x = Len(s.traces) + 1 /\ Len(here.traces) = x
                       /\ ~here.traces[x].ended /\ here.traces[x].spans = {}
                       /\ ~here.traces[x].lost
                  ELSE x = s.ctx[t].trace /\ Len(here.traces) = Len(s.traces)
  <2>1. CASE alone
    <3>1. PICK p : p = StartTrace(s, sampled)
      OBVIOUS
    <3>2. p \in Programs /\ HasStarted(s, p)
      BY <3>1, Started
    <3> p \in Programs /\ Len(s.traces) + 1 \in Nat
      BY <3>2
    <3>3. here = [p EXCEPT !.ctx[t].trace = Len(s.traces) + 1]
      BY <1>1, <2>1, <3>1
    <3>4. here \in Programs /\ HasPlace(p, here, t, [trace |-> Len(s.traces) + 1, span |-> p.ctx[t].span])
      BY <3>3, Placed
    <3>5. x = Len(s.traces) + 1
      BY <1>2, <3>4 DEF HasPlace
    <3>6. /\ p.ctx = s.ctx /\ p.runs = s.runs /\ p.blocks = s.blocks
          /\ p.spans = s.spans /\ p.sent = s.sent
          /\ Len(p.traces) = Len(s.traces) + 1
          /\ \A z \in 1 .. Len(s.traces) : p.traces[z] = s.traces[z]
          /\ ~p.traces[Len(s.traces) + 1].ended /\ p.traces[Len(s.traces) + 1].spans = {}
          /\ ~p.traces[Len(s.traces) + 1].lost
      BY <3>2 DEF HasStarted
    <3>7. /\ here.runs = p.runs /\ here.blocks = p.blocks
          /\ here.traces = p.traces /\ here.spans = p.spans /\ here.sent = p.sent
          /\ here.ctx[t] = [trace |-> Len(s.traces) + 1, span |-> p.ctx[t].span]
          /\ \A u \in Tasks : u # t => here.ctx[u] = p.ctx[u]
      BY <3>4 DEF HasPlace
    <3> QED BY <2>1, <3>4, <3>5, <3>6, <3>7, SMTT(30)
  <2>2. CASE ~alone
    <3>1. here = s /\ x = s.ctx[t].trace
      BY <1>1, <1>2, <2>2
    <3>2. PICK e : Unwinds(s, t, e)
      BY DEF UnwindsOK
    <3>3. s.ctx[t].trace <= Len(s.traces)
      <4>1. Clear(s, s.ctx[t]).trace <= Len(s.traces)
        BY <3>2 DEF Unwinds
      <4> QED BY <4>1 DEF Clear, StrayIn
    <3>4. s.ctx[t] = [trace |-> s.ctx[t].trace, span |-> s.ctx[t].span] /\ s.ctx[t].trace \in Nat
      BY DEF Contexts
    <3> QED BY <2>2, <3>1, <3>3, <3>4
  <2> QED BY <2>1, <2>2
<1> HIDE DEF alone
<1> here \in Programs /\ x \in 1 .. Len(here.traces) /\ x \in Nat
  BY <1>3
<1>5. span \in SpanRecords /\ span.trace = x /\ span.task = t /\ ~span.ended
  BY <1>4 DEF SpanRecords, Contexts, Statuses
<1> span \in SpanRecords
  BY <1>5
<1>7. CASE ~known \/ Full(here.traces[x])
  <2>1. Noop \in Blocks /\ Noop.kind = "noop"
    BY DEF Noop, Blocks
  <2> Noop \in Blocks
    BY <2>1
  <2>2. noted \in Programs /\ HasRefused(here, noted)
    <3>1. CASE known
      BY <1>6, <1>7, <3>1, Refused
    <3>2. CASE ~known
      BY <1>6, <3>2 DEF HasRefused
    <3> QED BY <3>1, <3>2
  <2> noted \in Programs /\ x \in 1 .. Len(noted.traces)
    BY <2>2 DEF HasRefused
  <2>3. PICK q : q = [noted EXCEPT !.traces[x].lost = @ \/ alone]
    OBVIOUS
  <2>4. q \in Programs /\ HasStrayed(noted, q, x, alone)
    <3>1. alone \in BOOLEAN
      BY DEF alone
    <3> QED BY <2>3, <3>1, Strayed
  <2> q \in Programs
    BY <2>4
  <2>5. r \in Programs /\ HasEntered(q, r, t, Noop)
    <3>1. r = Enter(q, t, Noop)
      BY <1>0, <1>7, <2>3
    <3> QED BY <3>1, Entered
  <2>6. /\ r.runs = s.runs /\ r.spans = s.spans /\ r.sent = s.sent
        /\ r.ctx[t] = [trace |-> x, span |-> s.ctx[t].span]
        /\ \A u \in Tasks : u # t => r.blocks[u] = s.blocks[u] /\ r.ctx[u] = s.ctx[u]
        /\ Len(r.traces) = Len(here.traces)
    BY <1>3, <2>2, <2>4, <2>5 DEF HasRefused, HasStrayed, HasEntered
  <2>7. /\ \A z \in 1 .. Len(here.traces) :
             /\ r.traces[z].ended = here.traces[z].ended
             /\ r.traces[z].status = here.traces[z].status
             /\ r.traces[z].sampled = here.traces[z].sampled
             /\ r.traces[z].spans = here.traces[z].spans
             /\ z # x \/ ~alone => r.traces[z].lost = here.traces[z].lost
        /\ alone => r.traces[x].lost
    <3>1. r.traces = q.traces
      BY <2>5 DEF HasEntered
    <3>2. ~alone => q.traces[x].lost = noted.traces[x].lost
      <4>1. noted.traces[x] \in TraceRecords /\ q.traces[x] \in TraceRecords
        <5>1. Len(q.traces) = Len(noted.traces)
          BY <2>4 DEF HasStrayed
        <5> QED BY <5>1, Elements
      <4>2. q.traces[x].lost \in BOOLEAN /\ noted.traces[x].lost \in BOOLEAN
        BY <4>1 DEF TraceRecords
      <4>3. q.traces[x].lost = (noted.traces[x].lost \/ alone)
        BY <2>4 DEF HasStrayed
      <4> QED BY <4>2, <4>3
    <3>3. alone => q.traces[x].lost
      BY <2>4 DEF HasStrayed
    <3> SUFFICES ASSUME NEW z \in 1 .. Len(here.traces)
                 PROVE  /\ q.traces[z].ended = here.traces[z].ended
                        /\ q.traces[z].status = here.traces[z].status
                        /\ q.traces[z].sampled = here.traces[z].sampled
                        /\ q.traces[z].spans = here.traces[z].spans
                        /\ z # x \/ ~alone => q.traces[z].lost = here.traces[z].lost
      BY <3>1, <3>3
    <3>4. /\ z \in 1 .. Len(noted.traces)
          /\ noted.traces[z].ended = here.traces[z].ended
          /\ noted.traces[z].status = here.traces[z].status
          /\ noted.traces[z].sampled = here.traces[z].sampled
          /\ noted.traces[z].spans = here.traces[z].spans
          /\ noted.traces[z].lost = here.traces[z].lost
      BY <2>2 DEF HasRefused
    <3>5. /\ q.traces[z].ended = noted.traces[z].ended
          /\ q.traces[z].status = noted.traces[z].status
          /\ q.traces[z].sampled = noted.traces[z].sampled
          /\ q.traces[z].spans = noted.traces[z].spans
          /\ z # x => q.traces[z].lost = noted.traces[z].lost
      BY <2>4, <3>4 DEF HasStrayed
    <3> QED BY <3>2, <3>4, <3>5
  <2> x \in 1 .. Len(here.traces)
    BY <1>3
  <2>8. \A z \in 1 .. Len(s.traces) : /\ r.traces[z].ended = s.traces[z].ended
                                      /\ r.traces[z].status = s.traces[z].status
                                      /\ r.traces[z].sampled = s.traces[z].sampled
                                      /\ r.traces[z].spans = s.traces[z].spans
                                      /\ r.traces[z].lost = s.traces[z].lost
                                      /\ z \in 1 .. Len(r.traces)
    <3> SUFFICES ASSUME NEW z \in 1 .. Len(s.traces)
                 PROVE  /\ r.traces[z].ended = s.traces[z].ended
                        /\ r.traces[z].status = s.traces[z].status
                        /\ r.traces[z].sampled = s.traces[z].sampled
                        /\ r.traces[z].spans = s.traces[z].spans
                        /\ r.traces[z].lost = s.traces[z].lost
                        /\ z \in 1 .. Len(r.traces)
      OBVIOUS
    <3>1. here.traces[z] = s.traces[z] /\ z \in 1 .. Len(here.traces) /\ (z = x => ~alone)
      BY <1>3
    <3>2. /\ r.traces[z].ended = here.traces[z].ended
          /\ r.traces[z].status = here.traces[z].status
          /\ r.traces[z].sampled = here.traces[z].sampled
          /\ r.traces[z].spans = here.traces[z].spans
          /\ r.traces[z].lost = here.traces[z].lost
      BY <2>7, <3>1
    <3> QED BY <2>6, <3>1, <3>2
  <2>9. \A z \in Len(s.traces) + 1 .. Len(r.traces) :
          alone /\ z = x /\ ~r.traces[z].ended /\ r.traces[z].spans = {}
    <3> SUFFICES ASSUME NEW z \in Len(s.traces) + 1 .. Len(r.traces)
                 PROVE  alone /\ z = x /\ ~r.traces[z].ended /\ r.traces[z].spans = {}
      OBVIOUS
    <3>1. alone
      <4>1. ~alone => Len(r.traces) = Len(s.traces)
        BY <1>3, <2>6
      <4> QED BY <4>1
    <3>2. z = x /\ ~here.traces[x].ended /\ here.traces[x].spans = {}
      BY <1>3, <2>6, <3>1
    <3>3. r.traces[x].ended = here.traces[x].ended /\ r.traces[x].spans = here.traces[x].spans
      BY <2>7
    <3> QED BY <3>1, <3>2, <3>3
  <2>10. Keeps(s, r, t)
    <3>1. \A z \in 1 .. Len(s.traces) : StrayIn(r, z) <=> StrayIn(s, z)
      BY <2>8 DEF StrayIn
    <3>2. Len(s.traces) <= Len(r.traces)
      BY <1>3, <2>6
    <3> QED BY <2>6, <3>1, <3>2 DEF Keeps
  \* A new trace is left to nobody; the current one stays what it was.
  <2>11. Clear(r, r.ctx[t]) = Clear(s, s.ctx[t]) /\ (alone => StrayIn(r, x))
    <3>1. CASE alone
      <4>1. StrayIn(r, x) /\ s.ctx[t].trace = 0 /\ ~StrayIn(s, 0)
        <5>1. s.ctx[t].trace = 0 /\ ~StrayIn(s, 0)
          BY <3>1 DEF StrayIn, alone
        <5>2. x \in 1 .. Len(r.traces)
          BY <2>6
        <5>3. ~here.traces[x].ended /\ r.traces[x].ended = here.traces[x].ended
          BY <1>3, <2>7, <3>1
        <5>4. r.traces[x].lost
          BY <2>7, <3>1
        <5> QED BY <5>1, <5>2, <5>3, <5>4 DEF StrayIn
      <4> QED BY <2>6, <4>1 DEF Clear
    <3>2. CASE ~alone
      <4>1. r.ctx[t] = s.ctx[t]
        BY <1>3, <2>6, <3>2 DEF Contexts
      <4>2. PICK e : Unwinds(s, t, e)
        BY DEF UnwindsOK
      <4> QED BY <2>5, <2>10, <3>2, <4>1, <4>2, ClearIsKept
    <3> QED BY <3>1, <3>2
  <2>12. Leaves(r, Noop, Clear(r, r.ctx[t]), Clear(s, s.ctx[t])) /\ \A y \in Nat : ~Opens(r, Noop, y)
    BY <2>1, <2>11 DEF Leaves, Opens
  <2>13. /\ Depth(r, t) = Depth(s, t) + 1
         /\ r.blocks[t][1] = Noop
         /\ \A k \in 1 .. Depth(s, t) : r.blocks[t][k + 1] = s.blocks[t][k]
    <3>1. Depth(q, t) = Depth(s, t) /\ q.blocks = s.blocks
      BY <1>3, <2>2, <2>4 DEF HasRefused, HasStrayed, Depth
    <3> QED BY <2>5, <3>1 DEF HasEntered
  <2>14. \A z \in 1 .. Len(r.traces) : r.traces[z].spans \subseteq 1 .. Len(r.spans)
    <3> SUFFICES ASSUME NEW z \in 1 .. Len(r.traces)
                 PROVE  r.traces[z].spans \subseteq 1 .. Len(r.spans)
      OBVIOUS
    <3>1. CASE z \in 1 .. Len(s.traces)
      BY <2>6, <2>8, <3>1 DEF RegisteredOK
    <3>2. CASE z \in Len(s.traces) + 1 .. Len(r.traces)
      BY <2>9, <3>2
    <3> QED BY <3>1, <3>2
  <2>15. /\ r.ctx[t].trace <= Len(r.traces)
         /\ \A i \in Len(s.spans) + 1 .. Len(r.spans) : FALSE
         /\ r.ctx[t].trace = s.ctx[t].trace \/ StrayIn(r, r.ctx[t].trace)
    BY <1>3, <2>6, <2>11
  <2>16. Opening(s, r, t, Noop)
    BY <2>1, <2>6, <2>8, <2>9, <2>10, <2>12, <2>13, <2>14, <2>15 DEF Opening
  <2> QED BY <2>5, <2>16
<1>8. CASE known /\ ~Full(here.traces[x])
  <2>1. PICK m : m = Len(s.spans) + 1
    OBVIOUS
  <2>2. noted \in Programs /\ HasRegistered(here, noted, x, span)
    BY <1>6, <1>8, Registered
  <2> noted \in Programs /\ m \in Nat
    BY <2>1, <2>2
  <2>3. PICK q : q = [noted EXCEPT !.ctx[t].span = m]
    OBVIOUS
  <2>4. q \in Programs /\ HasPlace(noted, q, t, [trace |-> noted.ctx[t].trace, span |-> m])
    BY <2>3, Spanned
  <2> q \in Programs
    BY <2>4
  <2>5. PICK b : b = kind
    OBVIOUS
  <2>7. Len(noted.spans) = m
    BY <1>3, <2>1, <2>2 DEF HasRegistered
  <2>6. b \in Blocks /\ b.kind = "span" /\ b.id = m /\ b.back = s.ctx[t].span /\ (b.alone <=> alone)
    BY <1>9, <2>5, <2>7 DEF Blocks, Contexts, alone
  <2> b \in Blocks
    BY <2>6
  <2>8. r \in Programs /\ HasEntered(q, r, t, b)
    <3>1. r = Enter(q, t, b)
      <4>1. r = Enter([noted EXCEPT !.ctx[t].span = Len(noted.spans)], t, kind)
        BY <1>0, <1>8
      <4> QED BY <2>3, <2>5, <2>7, <4>1
    <3> QED BY <3>1, Entered
  <2>9. /\ r.runs = s.runs /\ r.sent = s.sent
        /\ r.ctx[t] = [trace |-> x, span |-> m]
        /\ \A u \in Tasks : u # t => r.blocks[u] = s.blocks[u] /\ r.ctx[u] = s.ctx[u]
        /\ Len(r.traces) = Len(here.traces) /\ Len(r.spans) = m
    <3>1. /\ r.ctx = q.ctx /\ r.runs = q.runs /\ r.traces = q.traces /\ r.spans = q.spans
          /\ r.sent = q.sent /\ \A u \in Tasks : u # t => r.blocks[u] = q.blocks[u]
      BY <2>8 DEF HasEntered
    <3>2. /\ q.runs = noted.runs /\ q.blocks = noted.blocks /\ q.traces = noted.traces
          /\ q.spans = noted.spans /\ q.sent = noted.sent
          /\ q.ctx[t] = [trace |-> noted.ctx[t].trace, span |-> m]
          /\ \A u \in Tasks : u # t => q.ctx[u] = noted.ctx[u]
      BY <2>4 DEF HasPlace
    <3>3. /\ noted.ctx = here.ctx /\ noted.runs = here.runs /\ noted.blocks = here.blocks
          /\ noted.sent = here.sent /\ Len(noted.traces) = Len(here.traces)
      BY <2>2 DEF HasRegistered
    <3> QED BY <1>3, <2>7, <3>1, <3>2, <3>3
  <2>10. r.traces = noted.traces /\ r.spans = noted.spans
    BY <2>4, <2>8 DEF HasPlace, HasEntered
  <2>11. /\ \A i \in 1 .. Len(s.spans) : r.spans[i] = s.spans[i]
         /\ r.spans[m] = span
    BY <1>3, <2>1, <2>2, <2>10 DEF HasRegistered
  <2>12. /\ x \in 1 .. Len(r.traces)
         /\ IF alone THEN x = Len(s.traces) + 1 /\ Len(r.traces) = x
                     ELSE x = s.ctx[t].trace /\ Len(r.traces) = Len(s.traces)
    BY <1>3, <2>9
  <2>13. \A z \in 1 .. Len(r.traces) :
           /\ r.traces[z].ended = here.traces[z].ended
           /\ r.traces[z].status = here.traces[z].status
           /\ r.traces[z].sampled = here.traces[z].sampled
           /\ r.traces[z].lost = here.traces[z].lost
           /\ r.traces[z].spans = IF z = x THEN here.traces[z].spans \cup {m} ELSE here.traces[z].spans
    <3>1. Len(here.spans) + 1 = m /\ Len(r.traces) = Len(here.traces)
      BY <1>3, <2>1, <2>9
    <3>2. \A z \in 1 .. Len(here.traces) :
            /\ noted.traces[z].ended = here.traces[z].ended
            /\ noted.traces[z].status = here.traces[z].status
            /\ noted.traces[z].sampled = here.traces[z].sampled
            /\ noted.traces[z].lost = here.traces[z].lost
            /\ noted.traces[z].spans = IF z = x THEN here.traces[z].spans \cup {Len(here.spans) + 1}
                                              ELSE here.traces[z].spans
      BY <2>2 DEF HasRegistered
    <3> SUFFICES ASSUME NEW z \in 1 .. Len(r.traces)
                 PROVE  /\ r.traces[z].ended = here.traces[z].ended
                        /\ r.traces[z].status = here.traces[z].status
                        /\ r.traces[z].sampled = here.traces[z].sampled
                        /\ r.traces[z].lost = here.traces[z].lost
                        /\ r.traces[z].spans = IF z = x THEN here.traces[z].spans \cup {m}
                                                        ELSE here.traces[z].spans
      OBVIOUS
    <3>3. z \in 1 .. Len(here.traces)
      BY <3>1
    <3> QED BY <2>10, <3>1, <3>2, <3>3
  <2>14. \A z \in 1 .. Len(s.traces) : z \in 1 .. Len(r.traces) /\ here.traces[z] = s.traces[z]
    BY <1>3, <2>12
  <2>15. \A z \in 1 .. Len(r.traces) :
           z \in 1 .. Len(s.traces) \/ (/\ alone /\ z = x /\ ~here.traces[z].ended
               /\ here.traces[z].spans = {} /\ ~here.traces[z].lost)
    BY <1>3, <2>12
  <2>16. \A z \in 1 .. Len(r.traces) : r.traces[z].spans \subseteq 1 .. Len(r.spans)
    <3> SUFFICES ASSUME NEW z \in 1 .. Len(r.traces)
                 PROVE  r.traces[z].spans \subseteq 1 .. Len(r.spans)
      OBVIOUS
    <3>1. here.traces[z].spans \subseteq 1 .. Len(s.spans)
      BY <2>14, <2>15 DEF RegisteredOK
    <3>2. r.traces[z].spans \subseteq here.traces[z].spans \cup {m}
      BY <2>13
    <3>3. Len(r.spans) = Len(s.spans) + 1 /\ m = Len(s.spans) + 1
      BY <2>1, <2>9
    <3>4. 1 .. Len(s.spans) \subseteq 1 .. Len(r.spans) /\ m \in 1 .. Len(r.spans)
      BY <3>3
    <3> QED BY <3>1, <3>2, <3>4
  <2>17. \A z \in Len(s.traces) + 1 .. Len(r.traces) : ~r.traces[z].ended
    <3> SUFFICES ASSUME NEW z \in Len(s.traces) + 1 .. Len(r.traces)
                 PROVE  ~r.traces[z].ended
      OBVIOUS
    <3>1. z \in 1 .. Len(r.traces) /\ z \notin 1 .. Len(s.traces)
      OBVIOUS
    <3> QED BY <2>13, <2>15, <3>1
  <2>18. \A z \in 1 .. Len(s.traces) : /\ r.traces[z].ended = s.traces[z].ended
                                       /\ r.traces[z].status = s.traces[z].status
                                       /\ r.traces[z].sampled = s.traces[z].sampled
                                       /\ r.traces[z].lost = s.traces[z].lost
                                       /\ s.traces[z].spans \subseteq r.traces[z].spans
    <3> SUFFICES ASSUME NEW z \in 1 .. Len(s.traces)
                 PROVE  /\ r.traces[z].ended = s.traces[z].ended
                        /\ r.traces[z].status = s.traces[z].status
                        /\ r.traces[z].sampled = s.traces[z].sampled
                        /\ r.traces[z].lost = s.traces[z].lost
                        /\ s.traces[z].spans \subseteq r.traces[z].spans
      OBVIOUS
    <3>1. z \in 1 .. Len(r.traces) /\ here.traces[z] = s.traces[z]
      BY <2>14
    <3>2. /\ r.traces[z].ended = here.traces[z].ended
          /\ r.traces[z].status = here.traces[z].status
          /\ r.traces[z].sampled = here.traces[z].sampled
          /\ r.traces[z].lost = here.traces[z].lost
          /\ here.traces[z].spans \subseteq r.traces[z].spans
      BY <2>13, <3>1
    <3> QED BY <3>1, <3>2
  <2>19. Keeps(s, r, t)
    <3>1. Len(s.traces) <= Len(r.traces) /\ Len(s.spans) <= Len(r.spans)
      BY <2>1, <2>9, <2>12, SMTT(20)
    <3>2. \A z \in 1 .. Len(s.traces) : StrayIn(r, z) <=> StrayIn(s, z)
      BY <2>14, <2>18 DEF StrayIn
    <3> QED BY <2>9, <2>11, <3>1, <3>2 DEF Keeps
  <2>20. Depth(q, t) = Depth(s, t) /\ q.blocks = s.blocks
    BY <1>3, <2>2, <2>4 DEF HasRegistered, HasPlace, Depth
  <2>21. /\ Depth(r, t) = Depth(s, t) + 1
         /\ r.blocks[t][1] = b
         /\ \A k \in 1 .. Depth(s, t) : r.blocks[t][k + 1] = s.blocks[t][k]
    BY <2>8, <2>20 DEF HasEntered
  <2>22. /\ Leaves(r, b, Clear(r, r.ctx[t]), Clear(s, s.ctx[t]))
         /\ \A y \in Nat : Opens(r, b, y) => alone /\ y = x
         /\ r.ctx[t].trace = s.ctx[t].trace \/ Opens(r, b, r.ctx[t].trace)
    <3>1. /\ \A y \in Nat : Opens(r, b, y) => alone /\ y = x
          /\ r.ctx[t].trace = s.ctx[t].trace \/ Opens(r, b, r.ctx[t].trace)
      BY <1>5, <2>6, <2>9, <2>11, <2>12 DEF Opens, alone
    <3>2. Clear(s, s.ctx[t]).span = b.back
      BY <2>6 DEF Clear
    <3>3. CASE alone
      <4>1. ~StrayIn(r, x) /\ r.spans[b.id].trace = x
        BY <1>3, <1>5, <2>6, <2>11, <2>12, <2>13, <3>3 DEF StrayIn
      <4>2. Clear(r, r.ctx[t]).trace = x
        BY <2>9, <4>1 DEF Clear
      <4>3. Clear(s, s.ctx[t]).trace = 0
        BY <3>3 DEF Clear, alone
      <4> QED BY <2>6, <3>1, <3>2, <3>3, <4>1, <4>2, <4>3 DEF Leaves
    <3>4. CASE ~alone
      <4>1. StrayIn(r, x) <=> StrayIn(s, x)
        BY <2>12, <2>19, <3>4 DEF Keeps
      <4>2. Clear(r, r.ctx[t]).trace = Clear(s, s.ctx[t]).trace
        BY <2>9, <2>12, <3>4, <4>1 DEF Clear
      <4> QED BY <2>6, <3>1, <3>2, <3>4, <4>2 DEF Leaves
    <3> QED BY <3>3, <3>4
  <2>23. \A i \in Len(s.spans) + 1 .. Len(r.spans) :
           /\ ~r.spans[i].ended
           /\ r.spans[i].task = t
           /\ r.spans[i].trace = r.ctx[t].trace
           /\ r.ctx[t].trace # 0
           /\ i \in r.traces[r.ctx[t].trace].spans
           /\ b.kind = "span" /\ b.id = i
    <3> SUFFICES ASSUME NEW i \in Len(s.spans) + 1 .. Len(r.spans)
                 PROVE  /\ ~r.spans[i].ended
                        /\ r.spans[i].task = t
                        /\ r.spans[i].trace = r.ctx[t].trace
                        /\ r.ctx[t].trace # 0
                        /\ i \in r.traces[r.ctx[t].trace].spans
                        /\ b.kind = "span" /\ b.id = i
      OBVIOUS
    <3>1. i = m /\ r.ctx[t].trace = x
      BY <2>1, <2>9
    <3>2. m \in r.traces[x].spans
      BY <2>12, <2>13
    <3> QED BY <1>5, <2>6, <2>11, <2>12, <3>1, <3>2, SMTT(20)
  <2>24. /\ r.ctx[t].trace <= Len(r.traces)
         /\ \A y \in Nat : Opens(r, b, y) =>
              y \in Len(s.traces) + 1 .. Len(r.traces) /\ ~r.traces[y].lost
         /\ b.id \in Len(s.spans) + 1 .. Len(r.spans)
    <3>1. alone => ~r.traces[x].lost
      BY <1>3, <2>12, <2>13
    <3> QED BY <2>1, <2>6, <2>9, <2>12, <2>22, <3>1
  <2>25. Opening(s, r, t, b)
    BY <2>9, <2>11, <2>16, <2>17, <2>18, <2>19, <2>21, <2>22, <2>23, <2>24 DEF Opening
  <2> QED BY <2>8, <2>25
<1> QED BY <1>7, <1>8

\* What leaving a block does to the blocks, the spans, and the trace x it started.
Pops(s, r, t) ==
  /\ r.runs = s.runs
  /\ Depth(s, t) = Depth(r, t) + 1
  /\ \A k \in 1 .. Depth(r, t) : r.blocks[t][k] = s.blocks[t][k + 1]
  /\ \A u \in Tasks : u # t => r.blocks[u] = s.blocks[u] /\ r.ctx[u] = s.ctx[u]

EndsSpan(s, r, b) ==
  /\ Len(r.spans) = Len(s.spans)
  /\ \A i \in 1 .. Len(s.spans) :
       IF b.kind = "span" /\ b.id = i THEN r.spans[i].ended ELSE r.spans[i] = s.spans[i]
  /\ \A i \in 1 .. Len(s.spans) : /\ r.spans[i].trace = s.spans[i].trace
                                  /\ r.spans[i].task = s.spans[i].task

HandsOver(s, r, x) ==
  /\ Len(r.traces) = Len(s.traces)
  /\ \A y \in 1 .. Len(s.traces) : r.traces[y].spans = s.traces[y].spans
  /\ \A y \in 1 .. Len(s.traces) : y # x => r.traces[y] = s.traces[y]
  /\ r.traces[x].ended
  /\ \A i \in r.traces[x].spans : r.spans[i].status = "error" => r.traces[x].status = "error"
  /\ Len(r.sent) = IF Handed(r.traces[x]) THEN Len(s.sent) + 1 ELSE Len(s.sent)
  /\ \A k \in 1 .. Len(s.sent) : r.sent[k] = s.sent[k]
  /\ Handed(r.traces[x]) =>
       /\ r.sent[Len(s.sent) + 1].trace = x
       /\ \A i \in r.traces[x].spans :
            <<i, r.spans[i].ended, r.spans[i].status>> \in r.sent[Len(s.sent) + 1].spans

\* Handing over a trace that was not lost leaves the others as they were.
LEMMA HandingKeeps ==
  ASSUME NEW s \in Programs, NEW r \in Programs, NEW t \in Tasks, NEW b \in Blocks,
         NEW x \in 1 .. Len(s.traces), ~s.traces[x].lost,
         Pops(s, r, t), EndsSpan(s, r, b), HandsOver(s, r, x)
  PROVE  Keeps(s, r, t)
<1> USE Lengths
<1>1. Len(s.traces) <= Len(r.traces) /\ Len(s.spans) <= Len(r.spans)
  BY DEF EndsSpan, HandsOver
<1>2. \A y \in 1 .. Len(s.traces) : StrayIn(r, y) <=> StrayIn(s, y)
  <2> SUFFICES ASSUME NEW y \in 1 .. Len(s.traces) PROVE StrayIn(r, y) <=> StrayIn(s, y)
    OBVIOUS
  <2>1. CASE y = x
    BY <2>1 DEF HandsOver, StrayIn
  <2>2. CASE y # x
    BY <2>2 DEF HandsOver, StrayIn
  <2> QED BY <2>1, <2>2
<1> QED BY <1>1, <1>2 DEF Keeps, Pops, EndsSpan

\* A block whose trace ended and was handed over has been left.
LEMMA ClosesTrace ==
  ASSUME NEW s \in Programs, NEW r \in Programs, NEW t \in Tasks, NEW b \in Blocks,
         NEW x \in 1 .. Len(s.traces), s.blocks[t][1] = b,
         \A y \in Nat : Opens(s, b, y) <=> y = x,
         Keeps(s, r, t), Pops(s, r, t), EndsSpan(s, r, b), HandsOver(s, r, x),
         Leaves(s, b, Clear(s, s.ctx[t]), Clear(r, r.ctx[t]))
  PROVE  Closing(s, r, t, b)
<1> USE Lengths
<1>2. \A y \in 1 .. Len(s.traces) :
        /\ r.traces[y].spans = s.traces[y].spans
        /\ ~Opens(s, b, y) => r.traces[y] = s.traces[y]
        /\ Opens(s, b, y) =>
             /\ r.traces[y].ended
             /\ \A i \in r.traces[y].spans :
                  r.spans[i].status = "error" => r.traces[y].status = "error"
  <2>1. \A y \in 1 .. Len(s.traces) : Opens(s, b, y) <=> y = x
    OBVIOUS
  <2> QED BY <2>1 DEF HandsOver
<1>3. /\ Len(s.sent) <= Len(r.sent) /\ Len(r.sent) <= Len(s.sent) + 1
      /\ \A k \in 1 .. Len(s.sent) : r.sent[k] = s.sent[k]
  BY DEF HandsOver
<1>4. \A k \in Len(s.sent) + 1 .. Len(r.sent) :
        /\ Opens(s, b, r.sent[k].trace)
        /\ Handed(r.traces[r.sent[k].trace])
        /\ \A i \in r.traces[r.sent[k].trace].spans :
             <<i, r.spans[i].ended, r.spans[i].status>> \in r.sent[k].spans
  <2> SUFFICES ASSUME NEW k \in Len(s.sent) + 1 .. Len(r.sent)
               PROVE  /\ Opens(s, b, r.sent[k].trace)
                      /\ Handed(r.traces[r.sent[k].trace])
                      /\ \A i \in r.traces[r.sent[k].trace].spans :
                           <<i, r.spans[i].ended, r.spans[i].status>> \in r.sent[k].spans
    OBVIOUS
  <2>1. Handed(r.traces[x]) /\ k = Len(s.sent) + 1
    BY DEF HandsOver
  <2>2. r.sent[k].trace = x
    BY <2>1 DEF HandsOver
  <2>3. \A i \in r.traces[x].spans : <<i, r.spans[i].ended, r.spans[i].status>> \in r.sent[k].spans
    BY <2>1 DEF HandsOver
  <2> QED BY <2>1, <2>2, <2>3
<1>5. \A y \in 1 .. Len(s.traces) : Opens(s, b, y) /\ Handed(r.traces[y]) =>
        Len(r.sent) = Len(s.sent) + 1 /\ r.sent[Len(r.sent)].trace = y
  BY DEF HandsOver
<1>6. /\ Len(r.traces) = Len(s.traces) /\ Len(r.spans) = Len(s.spans)
      /\ Depth(s, t) = Depth(r, t) + 1
      /\ \A k \in 1 .. Depth(r, t) : r.blocks[t][k] = s.blocks[t][k + 1]
  BY DEF HandsOver, EndsSpan, Pops
<1>7. \A i \in 1 .. Len(s.spans) :
        IF b.kind = "span" /\ b.id = i THEN r.spans[i].ended ELSE r.spans[i] = s.spans[i]
  BY DEF EndsSpan
<1> QED BY <1>2, <1>3, <1>4, <1>5, <1>6, <1>7 DEF Closing

\* So has a block that started no trace.
LEMMA ClosesNone ==
  ASSUME NEW s \in Programs, NEW r \in Programs, NEW t \in Tasks, NEW b \in Blocks,
         s.blocks[t][1] = b, RegisteredOK(s), \A y \in 1 .. Len(s.traces) : ~Opens(s, b, y),
         Pops(s, r, t), EndsSpan(s, r, b), r.traces = s.traces, r.sent = s.sent,
         Leaves(s, b, Clear(s, s.ctx[t]), Clear(s, r.ctx[t]))
  PROVE  Closing(s, r, t, b)
<1> USE Lengths
<1>1. Keeps(s, r, t)
  <2>1. Len(s.spans) <= Len(r.spans)
    BY DEF EndsSpan
  <2>2. \A y \in 1 .. Len(s.traces) : StrayIn(r, y) <=> StrayIn(s, y)
    BY DEF StrayIn
  <2> QED BY <2>1, <2>2 DEF Keeps, Pops, EndsSpan
<1>2. /\ Len(r.spans) = Len(s.spans)
      /\ Depth(s, t) = Depth(r, t) + 1
      /\ \A k \in 1 .. Depth(r, t) : r.blocks[t][k] = s.blocks[t][k + 1]
      /\ \A k \in Len(s.sent) + 1 .. Len(r.sent) : FALSE
      /\ Len(s.sent) <= Len(r.sent) /\ Len(r.sent) <= Len(s.sent) + 1
  BY DEF EndsSpan, Pops
<1>3. \A i \in 1 .. Len(s.spans) :
        IF b.kind = "span" /\ b.id = i THEN r.spans[i].ended ELSE r.spans[i] = s.spans[i]
  BY DEF EndsSpan
<1>4. Clear(r, r.ctx[t]) = Clear(s, r.ctx[t])
  BY DEF Clear, StrayIn
<1> QED BY <1>1, <1>2, <1>3, <1>4 DEF Closing

\* Leaving a trace's block ends the trace and hands it over.
LEMMA LeavesTrace ==
  ASSUME NEW s \in Programs, NEW t \in Tasks, NEW b \in Blocks, b.kind = "trace",
         NEW x \in 1 .. Len(s.traces), NEW left \in Programs, NEW p \in Programs,
         NEW q \in Programs, NEW r \in Programs,
         HasPopped(s, left, t), TraceHasEnded(left, p, x),
         HasPlace(p, q, t, [trace |-> b.back, span |-> p.ctx[t].span]), HasEmitted(q, r, x)
  PROVE  /\ Pops(s, r, t) /\ EndsSpan(s, r, b) /\ HandsOver(s, r, x)
         /\ r.ctx[t] = [trace |-> b.back, span |-> s.ctx[t].span]
<1>1. /\ r.runs = s.runs /\ r.spans = s.spans /\ r.blocks = left.blocks /\ q.sent = s.sent
      /\ q.traces = p.traces /\ q.spans = s.spans
      /\ r.ctx[t] = [trace |-> b.back, span |-> s.ctx[t].span]
      /\ \A u \in Tasks : u # t => r.ctx[u] = s.ctx[u]
  BY DEF HasPopped, TraceHasEnded, HasPlace, HasEmitted
<1>2. Pops(s, r, t)
  BY <1>1 DEF Pops, HasPopped, Depth
<1>3. EndsSpan(s, r, b)
  BY <1>1 DEF EndsSpan
<1>4. HandsOver(s, r, x)
  <2>1. /\ Len(p.traces) = Len(s.traces)
        /\ \A y \in 1 .. Len(s.traces) : p.traces[y].spans = s.traces[y].spans
        /\ \A y \in 1 .. Len(s.traces) : y # x => p.traces[y] = s.traces[y]
        /\ p.traces[x].ended
        /\ \A i \in p.traces[x].spans : s.spans[i].status = "error" => p.traces[x].status = "error"
    BY DEF HasPopped, TraceHasEnded
  <2>2. /\ Len(r.traces) = Len(p.traces)
        /\ \A y \in 1 .. Len(p.traces) : y # x => r.traces[y] = p.traces[y]
        /\ r.traces[x].ended = p.traces[x].ended
        /\ r.traces[x].status = p.traces[x].status
        /\ r.traces[x].spans = p.traces[x].spans
    BY <1>1 DEF HasEmitted
  <2>3. /\ Len(r.sent) = IF Handed(r.traces[x]) THEN Len(s.sent) + 1 ELSE Len(s.sent)
        /\ \A k \in 1 .. Len(s.sent) : r.sent[k] = s.sent[k]
        /\ Handed(r.traces[x]) =>
             /\ r.sent[Len(s.sent) + 1].trace = x
             /\ \A i \in p.traces[x].spans :
                  <<i, s.spans[i].ended, s.spans[i].status>> \in r.sent[Len(s.sent) + 1].spans
    BY <1>1 DEF HasEmitted
  <2>4. \A y \in 1 .. Len(s.traces) : r.traces[y].spans = s.traces[y].spans
    <3> SUFFICES ASSUME NEW y \in 1 .. Len(s.traces) PROVE r.traces[y].spans = s.traces[y].spans
      OBVIOUS
    <3>1. CASE y = x
      BY <2>1, <2>2, <3>1
    <3>2. CASE y # x
      BY <2>1, <2>2, <3>2
    <3> QED BY <3>1, <3>2
  <2>5. /\ Len(r.traces) = Len(s.traces)
        /\ \A y \in 1 .. Len(s.traces) : y # x => r.traces[y] = s.traces[y]
        /\ r.traces[x].ended
        /\ \A i \in r.traces[x].spans : r.spans[i].status = "error" => r.traces[x].status = "error"
    BY <1>1, <2>1, <2>2
  <2>6. Handed(r.traces[x]) =>
          /\ r.sent[Len(s.sent) + 1].trace = x
          /\ \A i \in r.traces[x].spans :
               <<i, r.spans[i].ended, r.spans[i].status>> \in r.sent[Len(s.sent) + 1].spans
    BY <1>1, <2>2, <2>3
  <2> QED BY <2>3, <2>4, <2>5, <2>6 DEF HandsOver
<1> QED BY <1>1, <1>2, <1>3, <1>4

\* Leaving a span's block ends the span.
LEMMA LeavesSpan ==
  ASSUME NEW s \in Programs, NEW t \in Tasks, NEW b \in Blocks, b.kind = "span",
         NEW left \in Programs, NEW p \in Programs, NEW r \in Programs,
         HasPopped(s, left, t), SpanHasEnded(left, p, b.id),
         HasPlace(p, r, t, [trace |-> p.ctx[t].trace, span |-> b.back])
  PROVE  /\ Pops(s, r, t) /\ EndsSpan(s, r, b) /\ r.traces = s.traces /\ r.sent = s.sent
         /\ r.ctx[t] = [trace |-> s.ctx[t].trace, span |-> b.back]
<1>1. /\ r.runs = s.runs /\ r.traces = s.traces /\ r.sent = s.sent /\ r.blocks = left.blocks
      /\ r.spans = p.spans
      /\ r.ctx[t] = [trace |-> s.ctx[t].trace, span |-> b.back]
      /\ \A u \in Tasks : u # t => r.ctx[u] = s.ctx[u]
  BY DEF HasPopped, SpanHasEnded, HasPlace
<1>2. Pops(s, r, t)
  BY <1>1 DEF Pops, HasPopped, Depth
<1>3. EndsSpan(s, r, b)
  <2>1. /\ Len(p.spans) = Len(s.spans)
        /\ \A j \in 1 .. Len(s.spans) : j # b.id => p.spans[j] = s.spans[j]
        /\ p.spans[b.id].ended
        /\ p.spans[b.id].trace = s.spans[b.id].trace /\ p.spans[b.id].task = s.spans[b.id].task
    BY DEF HasPopped, SpanHasEnded
  <2> QED BY <1>1, <2>1 DEF EndsSpan
<1> QED BY <1>1, <1>2, <1>3

\* The span's block is left, but not its trace; and both are.
SpanLeft(s, p, t, b) ==
  /\ Pops(s, p, t) /\ EndsSpan(s, p, b) /\ p.traces = s.traces /\ p.sent = s.sent
  /\ p.ctx[t] = [trace |-> s.ctx[t].trace, span |-> b.back]

LoneLeft(s, r, t, b, x) ==
  /\ Pops(s, r, t) /\ EndsSpan(s, r, b) /\ HandsOver(s, r, x)
  /\ r.ctx[t] = [trace |-> 0, span |-> b.back]

\* A span in a trace of its own ends that trace, too.
LEMMA LeavesLone ==
  ASSUME NEW s \in Programs, NEW t \in Tasks, NEW b \in Blocks,
         NEW p \in Programs, NEW v \in Programs, NEW w \in Programs, NEW r \in Programs,
         NEW x \in 1 .. Len(s.traces),
         SpanLeft(s, p, t, b), TraceHasEnded(p, v, x), HasEmitted(v, w, x),
         HasPlace(w, r, t, [trace |-> 0, span |-> w.ctx[t].span])
  PROVE  LoneLeft(s, r, t, b, x)
<1>0. /\ Pops(s, p, t) /\ EndsSpan(s, p, b) /\ p.traces = s.traces /\ p.sent = s.sent
      /\ p.ctx[t] = [trace |-> s.ctx[t].trace, span |-> b.back]
  BY DEF SpanLeft
<1>1. /\ r.runs = p.runs /\ r.spans = p.spans /\ r.blocks = p.blocks
      /\ v.sent = p.sent /\ r.sent = w.sent /\ v.spans = p.spans
      /\ r.traces = w.traces
      /\ r.ctx[t] = [trace |-> 0, span |-> b.back]
      /\ \A u \in Tasks : u # t => r.ctx[u] = p.ctx[u]
  BY <1>0 DEF TraceHasEnded, HasPlace, HasEmitted
<1>2. Pops(s, r, t)
  BY <1>0, <1>1 DEF Pops, Depth
<1>3. EndsSpan(s, r, b)
  BY <1>0, <1>1 DEF EndsSpan
<1>4. HandsOver(s, r, x)
  <2>1. /\ Len(v.traces) = Len(s.traces)
        /\ \A y \in 1 .. Len(s.traces) : v.traces[y].spans = s.traces[y].spans
        /\ \A y \in 1 .. Len(s.traces) : y # x => v.traces[y] = s.traces[y]
        /\ v.traces[x].ended
        /\ \A i \in v.traces[x].spans : p.spans[i].status = "error" => v.traces[x].status = "error"
    BY <1>0, <1>1 DEF TraceHasEnded
  <2>2. /\ Len(r.traces) = Len(v.traces)
        /\ \A y \in 1 .. Len(v.traces) : y # x => r.traces[y] = v.traces[y]
        /\ r.traces[x].ended = v.traces[x].ended
        /\ r.traces[x].status = v.traces[x].status
        /\ r.traces[x].spans = v.traces[x].spans
    BY <1>1 DEF HasEmitted
  <2>3. /\ Len(r.sent) = IF Handed(r.traces[x]) THEN Len(s.sent) + 1 ELSE Len(s.sent)
        /\ \A k \in 1 .. Len(s.sent) : r.sent[k] = s.sent[k]
        /\ Handed(r.traces[x]) =>
             /\ r.sent[Len(s.sent) + 1].trace = x
             /\ \A i \in v.traces[x].spans :
                  <<i, p.spans[i].ended, p.spans[i].status>> \in r.sent[Len(s.sent) + 1].spans
    BY <1>0, <1>1 DEF HasEmitted
  <2>4. \A y \in 1 .. Len(s.traces) : r.traces[y].spans = s.traces[y].spans
    <3> SUFFICES ASSUME NEW y \in 1 .. Len(s.traces) PROVE r.traces[y].spans = s.traces[y].spans
      OBVIOUS
    <3>1. CASE y = x
      BY <2>1, <2>2, <3>1
    <3>2. CASE y # x
      BY <2>1, <2>2, <3>2
    <3> QED BY <3>1, <3>2
  <2>5. /\ Len(r.traces) = Len(s.traces)
        /\ \A y \in 1 .. Len(s.traces) : y # x => r.traces[y] = s.traces[y]
        /\ r.traces[x].ended
        /\ \A i \in r.traces[x].spans : r.spans[i].status = "error" => r.traces[x].status = "error"
    BY <1>1, <2>1, <2>2
  <2>6. Handed(r.traces[x]) =>
          /\ r.sent[Len(s.sent) + 1].trace = x
          /\ \A i \in r.traces[x].spans :
               <<i, r.spans[i].ended, r.spans[i].status>> \in r.sent[Len(s.sent) + 1].spans
    BY <1>1, <2>2, <2>3
  <2> QED BY <2>3, <2>4, <2>5, <2>6 DEF HandsOver
<1> QED BY <1>1, <1>2, <1>3, <1>4 DEF LoneLeft

\* The innermost block of a task is left, whichever it is.
LEMMA CloseCloses ==
  ASSUME NEW s \in Programs, NEW t \in Tasks, NEW raised \in BOOLEAN, NEW frozen \in BOOLEAN,
         s.blocks[t] # <<>>, RegisteredOK(s), OpenersOK(s), SpanBlocksOK(s), UnwindsOK(s),
         NEW r, r = Close(s, t, raised, frozen)
  PROVE  r \in Programs /\ \E b \in Blocks : Closing(s, r, t, b)
<1> USE Lengths
<1>1. PICK b : b = Head(s.blocks[t])
  OBVIOUS
<1>2. b = s.blocks[t][1] /\ b \in Blocks /\ 1 \in 1 .. Depth(s, t) /\ Depth(s, t) # 0
  <2>1. s.blocks[t] \in Seq(Blocks)
    BY DEF Programs
  <2> QED BY <1>1, <2>1 DEF Depth
<1> b \in Blocks /\ Depth(s, t) # 0 /\ b.back \in Nat
  BY <1>2 DEF Blocks
<1>3. PICK left : left = [s EXCEPT !.blocks[t] = Tail(@)]
  OBVIOUS
<1>4. left \in Programs /\ HasPopped(s, left, t)
  BY <1>3, Popped
<1> left \in Programs
  BY <1>4
<1>5. /\ Len(left.traces) = Len(s.traces) /\ Len(left.spans) = Len(s.spans)
      /\ left.traces = s.traces
  BY <1>4 DEF HasPopped
<1>6. CASE b.kind = "trace"
  <2>1. PICK x : x = b.id
    OBVIOUS
  <2>2. x \in Nat /\ \A y \in Nat : Opens(s, b, y) <=> y = x
    BY <1>6, <2>1 DEF Opens, Blocks
  <2>3. x \in 1 .. Len(s.traces) /\ ~s.traces[x].ended /\ ~s.traces[x].lost
    BY <1>2, <2>2 DEF OpenersOK
  <2> x \in 1 .. Len(s.traces) /\ x \in 1 .. Len(left.traces)
    BY <1>5, <2>3
  <2>4. PICK p : p = EndTrace(left, x, raised)
    OBVIOUS
  <2>5. p \in Programs /\ TraceHasEnded(left, p, x)
    BY <1>5, <2>3, <2>4, TraceEnds
  <2> p \in Programs
    BY <2>5
  <2>6. PICK q : q = [p EXCEPT !.ctx[t].trace = b.back]
    OBVIOUS
  <2>7. q \in Programs /\ HasPlace(p, q, t, [trace |-> b.back, span |-> p.ctx[t].span])
    BY <2>6, Placed
  <2>8. /\ Len(q.traces) = Len(s.traces) /\ ~q.traces[x].lost
        /\ q.traces[x].spans \subseteq 1 .. Len(q.spans)
    <3>1. q.traces = p.traces /\ q.spans = p.spans
      BY <2>7 DEF HasPlace
    <3>2. Len(p.traces) = Len(s.traces) /\ p.spans = left.spans
          /\ p.traces[x].spans = left.traces[x].spans /\ ~p.traces[x].lost
      BY <1>5, <2>3, <2>5 DEF TraceHasEnded
    <3>3. left.traces[x].spans \subseteq 1 .. Len(left.spans)
      BY <1>5 DEF RegisteredOK
    <3> QED BY <3>1, <3>2, <3>3
  <2> q \in Programs /\ x \in 1 .. Len(q.traces)
    BY <2>7, <2>8
  <2>9. r = Emit(q, x, frozen)
    BY <1>1, <1>3, <1>6, <2>1, <2>4, <2>6 DEF Close
  <2>10. r \in Programs /\ HasEmitted(q, r, x)
    BY <2>8, <2>9, Emitted
  <2> r \in Programs
    BY <2>10
  <2>11. /\ Pops(s, r, t) /\ EndsSpan(s, r, b) /\ HandsOver(s, r, x)
         /\ r.ctx[t] = [trace |-> b.back, span |-> s.ctx[t].span]
    BY <1>4, <1>6, <2>5, <2>7, <2>10, LeavesTrace
  <2>14. Keeps(s, r, t)
    BY <2>3, <2>11, HandingKeeps
  <2>15. r.ctx[t].trace \in Nat /\ r.ctx[t].trace <= Len(s.traces)
    <3>1. PICK e : Unwinds(s, t, e)
      BY DEF UnwindsOK
    <3>2. Leaves(s, b, e[1], e[2]) /\ e[2].trace <= Len(s.traces)
      BY <1>2, <3>1 DEF Unwinds
    <3>3. e[2].trace = IF StrayIn(s, b.back) THEN 0 ELSE b.back
      BY <1>6, <3>2 DEF Leaves, Clear
    <3> QED BY <2>11, <3>2, <3>3 DEF StrayIn
  <2>16. Clear(r, r.ctx[t]) = Clear(s, r.ctx[t])
    BY <2>14, <2>15, ClearStays
  <2>12. Leaves(s, b, Clear(s, s.ctx[t]), Clear(r, r.ctx[t]))
    <3>1. Clear(s, s.ctx[t]).span = s.ctx[t].span
      BY DEF Clear
    <3> QED BY <1>6, <2>11, <2>16, <3>1 DEF Leaves
  <2>13. Closing(s, r, t, b)
    BY <1>2, <2>2, <2>11, <2>12, <2>14, ClosesTrace
  <2> QED BY <2>13
<1>7. CASE b.kind = "span"
  <2>1. b.id \in 1 .. Len(s.spans)
    BY <1>2, <1>7 DEF SpanBlocksOK
  <2> b.id \in 1 .. Len(left.spans)
    BY <1>5, <2>1
  <2>2. PICK m : m = EndSpan(left, b.id, raised)
    OBVIOUS
  <2>3. m \in Programs /\ SpanHasEnded(left, m, b.id)
    BY <2>2, SpanEnds
  <2> m \in Programs
    BY <2>3
  <2>4. PICK p : p = [m EXCEPT !.ctx[t].span = b.back]
    OBVIOUS
  <2>5. p \in Programs /\ HasPlace(m, p, t, [trace |-> m.ctx[t].trace, span |-> b.back])
    BY <2>4, Spanned
  <2> p \in Programs
    BY <2>5
  <2>6. /\ Pops(s, p, t) /\ EndsSpan(s, p, b) /\ p.traces = s.traces /\ p.sent = s.sent
        /\ p.ctx[t] = [trace |-> s.ctx[t].trace, span |-> b.back]
    BY <1>4, <1>7, <2>3, <2>5, LeavesSpan
  <2>7. r = IF b.alone THEN CloseImplicitTrace(p, t, frozen) ELSE p
    BY <1>1, <1>3, <1>7, <2>2, <2>4 DEF Close
  <2>8. CASE ~b.alone
    <3>1. r = p
      BY <2>7, <2>8
    <3>2. \A y \in 1 .. Len(s.traces) : ~Opens(s, b, y)
      BY <1>7, <2>8 DEF Opens
    <3>3. Leaves(s, b, Clear(s, s.ctx[t]), Clear(s, p.ctx[t]))
      BY <1>7, <2>6, <2>8 DEF Leaves, Clear
    <3>4. Closing(s, p, t, b)
      BY <1>2, <2>6, <3>2, <3>3, ClosesNone
    <3> QED BY <3>1, <3>4
  <2>9. CASE b.alone
    <3>1. PICK x : x = Clear(s, s.ctx[t]).trace
      OBVIOUS
    <3>2. x = s.spans[b.id].trace /\ x \in Nat
      <4>1. PICK e : Unwinds(s, t, e)
        BY DEF UnwindsOK
      <4>2. Leaves(s, b, e[1], e[2]) /\ e[1] = Clear(s, s.ctx[t])
        BY <1>2, <4>1 DEF Unwinds
      <4> QED BY <1>7, <2>9, <3>1, <4>2 DEF Leaves, Contexts, Clear
    <3>3. \A y \in Nat : Opens(s, b, y) <=> y = x
      BY <1>7, <2>9, <3>2 DEF Opens
    <3>4. x \in 1 .. Len(s.traces) /\ ~s.traces[x].ended /\ ~s.traces[x].lost
      BY <1>2, <3>2, <3>3 DEF OpenersOK
    <3>5. x = p.ctx[t].trace /\ x # 0
      BY <2>6, <3>1, <3>4 DEF Clear
    <3> x \in 1 .. Len(s.traces) /\ x \in 1 .. Len(p.traces)
      BY <2>6, <3>4
    <3>6. PICK v : v = EndTrace(p, x, FALSE)
      OBVIOUS
    <3>7. v \in Programs /\ TraceHasEnded(p, v, x)
      BY <2>6, <3>4, <3>6, TraceEnds
    <3>8. /\ Len(v.traces) = Len(s.traces) /\ ~v.traces[x].lost
          /\ v.traces[x].spans \subseteq 1 .. Len(v.spans)
      <4>1. /\ Len(v.traces) = Len(p.traces) /\ v.spans = p.spans
            /\ v.traces[x].spans = p.traces[x].spans /\ ~v.traces[x].lost
        BY <2>6, <3>4, <3>7 DEF TraceHasEnded
      <4>2. Len(p.spans) = Len(s.spans)
        BY <2>6 DEF EndsSpan
      <4>3. s.traces[x].spans \subseteq 1 .. Len(s.spans)
        BY DEF RegisteredOK
      <4> QED BY <2>6, <4>1, <4>2, <4>3
    <3> v \in Programs /\ x \in 1 .. Len(v.traces)
      BY <3>7, <3>8
    <3>9. PICK w : w = Emit(v, x, frozen)
      OBVIOUS
    <3>10. w \in Programs /\ HasEmitted(v, w, x)
      BY <3>8, <3>9, Emitted
    <3> w \in Programs
      BY <3>10
    <3>11. r = [w EXCEPT !.ctx[t].trace = 0]
      BY <2>7, <2>9, <3>5, <3>6, <3>9 DEF CloseImplicitTrace
    <3>12. r \in Programs /\ HasPlace(w, r, t, [trace |-> 0, span |-> w.ctx[t].span])
      BY <3>11, Placed
    <3> r \in Programs
      BY <3>12
    <3>13. /\ Pops(s, r, t) /\ EndsSpan(s, r, b) /\ HandsOver(s, r, x)
           /\ r.ctx[t] = [trace |-> 0, span |-> b.back]
      <4>1. SpanLeft(s, p, t, b)
        BY <2>6 DEF SpanLeft
      <4>2. LoneLeft(s, r, t, b, x)
        BY <3>7, <3>10, <3>12, <4>1, LeavesLone
      <4> QED BY <4>2 DEF LoneLeft
    <3>14. Leaves(s, b, Clear(s, s.ctx[t]), Clear(r, r.ctx[t]))
      <4>1. Clear(r, r.ctx[t]).trace = 0 /\ Clear(r, r.ctx[t]).span = b.back
        BY <3>13 DEF Clear
      <4> QED BY <1>7, <2>9, <3>1, <3>2, <4>1 DEF Leaves
    <3>16. Keeps(s, r, t)
      BY <3>4, <3>13, HandingKeeps
    <3>15. Closing(s, r, t, b)
      BY <1>2, <3>3, <3>13, <3>14, <3>16, ClosesTrace
    <3> QED BY <3>15
  <2> QED BY <2>8, <2>9
<1>8. CASE b.kind = "noop"
  <2>1. r = left
    BY <1>1, <1>3, <1>8 DEF Close
  <2>2. /\ Pops(s, left, t) /\ EndsSpan(s, left, b) /\ left.traces = s.traces /\ left.sent = s.sent
        /\ left.ctx = s.ctx
    BY <1>4, <1>8 DEF HasPopped, Pops, EndsSpan
  <2>3. Leaves(s, b, Clear(s, s.ctx[t]), Clear(s, left.ctx[t])) /\ \A y \in 1 .. Len(s.traces) : ~Opens(s, b, y)
    BY <1>8, <2>2 DEF Leaves, Opens
  <2>4. Closing(s, left, t, b)
    BY <1>2, <2>2, <2>3, ClosesNone
  <2> QED BY <2>1, <2>4
<1> QED BY <1>6, <1>7, <1>8 DEF Blocks

\* A task that starts has no blocks and no spans, and a place it can stay at.
LEMMA SpawnKeeps ==
  ASSUME NEW s, Recorded(s), NEW t \in Tasks, NEW child \in Tasks, NEW copied \in BOOLEAN,
         s.runs[child] = "no", NEW r, r = Spawn(s, t, child, copied)
  PROVE  Recorded(r)
<1>1. s \in Programs /\ s.ctx \in [Tasks -> Contexts] /\ s.runs \in [Tasks -> {"no", "bare", "copy"}]
  BY DEF Recorded, Programs
<1>2. PICK c : c = [s.ctx EXCEPT ![child] = IF copied THEN s.ctx[t] ELSE Nowhere]
  OBVIOUS
<1>3. PICK d : d = [s.runs EXCEPT ![child] = IF copied THEN "copy" ELSE "bare"]
  OBVIOUS
<1>4. r = [ctx |-> c, runs |-> d, blocks |-> s.blocks, traces |-> s.traces, spans |-> s.spans,
           sent |-> s.sent]
  BY <1>1, <1>2, <1>3 DEF Spawn, Programs
<1> r \in Programs
  <2>1. c \in [Tasks -> Contexts]
    BY <1>1, <1>2 DEF Nowhere, Contexts
  <2>2. d \in [Tasks -> {"no", "bare", "copy"}]
    BY <1>1, <1>3
  <2> QED BY <1>1, <1>4, <2>1, <2>2 DEF Programs
<1>5. /\ r.blocks = s.blocks /\ r.traces = s.traces /\ r.spans = s.spans /\ r.sent = s.sent
      /\ \A u \in Tasks : Depth(r, u) = Depth(s, u)
      /\ \A u \in Tasks : u # child => r.ctx[u] = s.ctx[u] /\ r.runs[u] = s.runs[u]
      /\ r.ctx[child] = (IF copied THEN s.ctx[t] ELSE Nowhere)
      /\ r.runs[child] = (IF copied THEN "copy" ELSE "bare")
  BY <1>1, <1>2, <1>3, <1>4 DEF Depth
<1>6. \A b, x : Opens(r, b, x) <=> Opens(s, b, x)
  BY <1>5 DEF Opens
<1>7. \A b, here, after : Leaves(r, b, here, after) <=> Leaves(s, b, here, after)
  <2>1. \A p : Clear(r, p) = Clear(s, p)
    BY <1>5 DEF Clear, StrayIn
  <2> QED BY <1>5, <2>1 DEF Leaves
<1>8. Depth(s, child) = 0 /\ \A i \in 1 .. Len(s.spans) : s.spans[i].task # child
  BY DEF Recorded, IdleOK
<1>9. UnwindsOK(r)
  <2> SUFFICES ASSUME NEW u \in Tasks PROVE \E e : Unwinds(r, u, e)
    BY DEF UnwindsOK
  <2>1. CASE u # child
    <3>1. PICK e : Unwinds(s, u, e)
      BY DEF Recorded, UnwindsOK
    <3>2. r.ctx[u] = s.ctx[u] /\ r.runs[u] = s.runs[u] /\ Depth(r, u) = Depth(s, u)
      BY <1>5, <2>1
    <3>4. Clear(r, s.ctx[u]) = Clear(s, s.ctx[u])
      BY <1>5 DEF Clear, StrayIn
    <3>3. Unwinds(r, u, e)
      BY <1>5, <1>6, <1>7, <3>1, <3>2, <3>4 DEF Unwinds
    <3> QED BY <3>3
  <2>2. CASE u = child
    <3>0. PICK c0 : c0 = Clear(r, r.ctx[child])
      OBVIOUS
    <3>1. PICK e : e = [k \in 1 .. 1 |-> c0]
      OBVIOUS
    <3>2. Depth(r, child) = 0
      BY <1>5, <1>8
    <3>3. c0 \in Contexts /\ e \in [1 .. 0 + 1 -> Contexts] /\ e[1] = c0
      <4>1. r.ctx[child] \in Contexts
        BY DEF Programs
      <4>2. c0 \in Contexts
        BY <3>0, <4>1 DEF Contexts, Clear
      <4> QED BY <3>1, <4>2
    <3>4. c0.trace <= Len(r.traces)
      <4>1. PICK f : Unwinds(s, t, f)
        BY DEF Recorded, UnwindsOK
      <4>2. Clear(s, s.ctx[t]).trace <= Len(s.traces)
        BY <1>1, <4>1, Lengths DEF Unwinds
      <4>3. Clear(s, Nowhere).trace <= Len(s.traces)
        BY <1>1, Lengths DEF Nowhere, Clear
      <4>4. c0 = Clear(s, s.ctx[t]) \/ c0 = Clear(s, Nowhere)
        BY <1>5, <3>0 DEF Clear, StrayIn
      <4> QED BY <1>5, <4>2, <4>3, <4>4
    <3>5. r.runs[child] = "bare" => c0 = Nowhere
      BY <1>5, <3>0 DEF Nowhere, Clear
    <3>6. Nowhere.trace = 0
      BY DEF Nowhere
    <3>7. \A k \in 1 .. 0 + 1 : e[k] = c0
      BY <3>1
    <3>8. \A k \in 1 .. 0 : FALSE
      OBVIOUS
    <3>9. Unwinds(r, child, e)
      BY <3>0, <3>2, <3>3, <3>4, <3>5, <3>6, <3>7, <3>8 DEF Unwinds
    <3> QED BY <2>2, <3>9
  <2> QED BY <2>1, <2>2
<1>10. OpenersOK(r)
  BY <1>5, <1>6 DEF Recorded, OpenersOK
<1>11. SpanBlocksOK(r)
  <2>1. SpanBlocksOK(s)
    BY DEF Recorded
  <2>2. r.blocks = s.blocks /\ r.spans = s.spans
    BY <1>5
  <2> QED BY <2>1, <2>2, SMTT(20) DEF SpanBlocksOK, Depth
<1>12. IdleOK(r)
  BY <1>5 DEF Recorded, IdleOK
<1>13. RegisteredOK(r)
  BY <1>5 DEF Recorded, RegisteredOK
<1>14. SentOK(r)
  <2>1. SentOK(s)
    BY DEF Recorded
  <2> QED BY <1>5, <2>1, SMTT(20) DEF SentOK
<1>15. OwnOK(r)
  <2> SUFFICES ASSUME NEW i \in 1 .. Len(s.spans), r.runs[s.spans[i].task] = "bare"
               PROVE  LET trace == s.traces[s.spans[i].trace]
                      IN  /\ ~s.spans[i].ended => Within(r, i)
                          /\ ~trace.ended => \/ Opened(r, s.spans[i].task, s.spans[i].trace)
                                             \/ StrayIn(r, s.spans[i].trace)
                          /\ trace.ended => /\ s.spans[i].ended
                                            /\ s.spans[i].status = "error" => trace.status = "error"
                                            /\ Handed(trace) => Told(r, i)
    BY <1>5 DEF OwnOK
  <2>6. StrayIn(r, s.spans[i].trace) <=> StrayIn(s, s.spans[i].trace)
    BY <1>5 DEF StrayIn
  <2>1. s.spans[i].task \in Tasks
    BY <1>1, Elements DEF SpanRecords
  <2>2. s.runs[s.spans[i].task] = "bare"
    BY <1>5, <1>8, <2>1
  <2>3. Within(s, i) <=> Within(r, i)
    <3>1. PICK q : q = s.blocks[s.spans[i].task]
      OBVIOUS
    <3>2. Within(s, i) <=> \E k, j \in 1 .. Len(q) :
            /\ k <= j /\ q[k].kind = "span" /\ q[k].id = i
            /\ Opens(s, q[j], s.spans[i].trace) \/ StrayIn(s, s.spans[i].trace)
      BY <3>1 DEF Within
    <3>3. Within(r, i) <=> \E k, j \in 1 .. Len(q) :
            /\ k <= j /\ q[k].kind = "span" /\ q[k].id = i
            /\ Opens(r, q[j], s.spans[i].trace) \/ StrayIn(r, s.spans[i].trace)
      BY <1>5, <3>1 DEF Within
    <3> QED BY <1>6, <2>6, <3>2, <3>3
  <2>4. Opened(s, s.spans[i].task, s.spans[i].trace) <=> Opened(r, s.spans[i].task, s.spans[i].trace)
    BY <1>5, <1>6, <2>1 DEF Opened
  <2>5. Told(s, i) <=> Told(r, i)
    BY <1>5 DEF Told
  <2> QED BY <2>2, <2>3, <2>4, <2>5, <2>6 DEF Recorded, OwnOK
<1> QED BY <1>9, <1>10, <1>11, <1>12, <1>13, <1>14, <1>15 DEF Recorded

\* Before anything is recorded.
LEMMA BeginsRecorded ==
  ASSUME NEW s, s = Begin
  PROVE  Recorded(s)
<1>1. s \in Programs
  <2>1. <<>> \in Seq(Blocks) /\ <<>> \in Seq(TraceRecords) /\ <<>> \in Seq(SpanRecords)
        /\ <<>> \in Seq(Snapshots)
    OBVIOUS
  <2>2. Nowhere \in Contexts
    BY DEF Nowhere, Contexts
  <2> QED BY <2>1, <2>2 DEF Begin, Programs
<1>2. /\ Len(s.traces) = 0 /\ Len(s.spans) = 0 /\ Len(s.sent) = 0
      /\ \A t \in Tasks : Depth(s, t) = 0 /\ s.ctx[t] = Nowhere
  BY DEF Begin, Depth
<1>3. UnwindsOK(s)
  <2> SUFFICES ASSUME NEW t \in Tasks PROVE \E e : Unwinds(s, t, e)
    BY DEF UnwindsOK
  <2>1. PICK e : e = [k \in 1 .. 1 |-> Nowhere]
    OBVIOUS
  <2>2. e \in [1 .. 0 + 1 -> Contexts] /\ \A k \in 1 .. 0 + 1 : e[k] = Nowhere
    BY <2>1 DEF Nowhere, Contexts
  <2>3. Nowhere.trace = 0
    BY DEF Nowhere
  <2>5. Clear(s, Nowhere) = Nowhere
    BY DEF Clear, Nowhere
  <2>4. Unwinds(s, t, e)
    BY <1>2, <2>2, <2>3, <2>5 DEF Unwinds
  <2> QED BY <2>4
<1>4. OpenersOK(s) /\ SpanBlocksOK(s) /\ IdleOK(s) /\ RegisteredOK(s) /\ OwnOK(s) /\ SentOK(s)
  BY <1>2 DEF OpenersOK, SpanBlocksOK, IdleOK, RegisteredOK, OwnOK, SentOK
<1> QED BY <1>1, <1>3, <1>4 DEF Recorded

\* Entering a block.
LEMMA OpeningKeeps ==
  ASSUME NEW s, NEW r \in Programs, NEW t \in Tasks, NEW b \in Blocks,
         Recorded(s), s.runs[t] # "no", Opening(s, r, t, b)
  PROVE  Recorded(r)
<1>1. /\ s \in Programs /\ UnwindsOK(s) /\ OpenersOK(s) /\ SpanBlocksOK(s) /\ IdleOK(s)
      /\ RegisteredOK(s) /\ SentOK(s)
  BY DEF Recorded
<1> s \in Programs
  BY <1>1
<1>2. UnwindsOK(r)
  BY <1>1, OpeningUnwinds
<1>3. OpenersOK(r)
  BY <1>1, OpeningOpeners
<1>4. SpanBlocksOK(r)
  BY <1>1, OpeningSpanBlocks
<1>5. IdleOK(r)
  BY <1>1, OpeningIdle
<1>6. RegisteredOK(r)
  BY <1>1, OpeningRegistered
<1>7. OwnOK(r)
  BY OpeningOwn
<1>8. SentOK(r)
  BY <1>1, OpeningSent
<1> QED BY <1>2, <1>3, <1>4, <1>5, <1>6, <1>7, <1>8 DEF Recorded

\* Leaving a block.
LEMMA ClosingKeeps ==
  ASSUME NEW s, NEW r \in Programs, NEW t \in Tasks, NEW b \in Blocks,
         Recorded(s), s.runs[t] # "no", Closing(s, r, t, b)
  PROVE  Recorded(r)
<1>1. /\ s \in Programs /\ UnwindsOK(s) /\ OpenersOK(s) /\ SpanBlocksOK(s) /\ IdleOK(s)
      /\ RegisteredOK(s) /\ SentOK(s)
  BY DEF Recorded
<1> s \in Programs
  BY <1>1
<1>2. UnwindsOK(r)
  BY <1>1, ClosingUnwinds
<1>3. OpenersOK(r)
  BY <1>1, ClosingOpeners
<1>4. SpanBlocksOK(r)
  BY <1>1, ClosingSpanBlocks
<1>5. IdleOK(r)
  BY <1>1, ClosingIdle
<1>6. RegisteredOK(r)
  BY <1>1, ClosingRegistered
<1>7. OwnOK(r)
  BY ClosingOwn
<1>8. SentOK(r)
  BY <1>1, ClosingSent
<1> QED BY <1>2, <1>3, <1>4, <1>5, <1>6, <1>7, <1>8 DEF Recorded

\* What a task of a program does.
LEMMA RecordedStep ==
  ASSUME Recorded(program), [(\E t \in Tasks : Step(t)) \/ NextProcess]_program
  PROVE  Recorded(program)'
<1>1. PICK s : s = program
  OBVIOUS
<1>2. PICK r : r = program'
  OBVIOUS
<1>3. /\ Recorded(s) /\ s \in Programs /\ RegisteredOK(s) /\ OpenersOK(s) /\ SpanBlocksOK(s)
      /\ UnwindsOK(s)
  BY <1>1 DEF Recorded
<1> s \in Programs
  BY <1>3
<1>4. CASE r = s
  BY <1>1, <1>2, <1>4
<1>5. CASE \E t \in Tasks : Step(t)
  <2>1. PICK t \in Tasks : Step(t)
    BY <1>5
  <2>2. PICK b \in BOOLEAN, ok \in BOOLEAN :
          \/ r = OpenTrace(s, t, b)
          \/ r = OpenNothing(s, t)
          \/ r = OpenSpan(s, t, b, ok)
          \/ s.blocks[t] # <<>> /\ r = Close(s, t, b, ok)
          \/ \E u \in Tasks : s.runs[u] = "no" /\ r = Spawn(s, t, u, b)
    BY <1>1, <1>2, <2>1, ZenonT(30) DEF Step
  <2>3. s.runs[t] # "no"
    BY <1>1, <2>1 DEF Step
  <2>4. CASE r = OpenTrace(s, t, b)
    <3>1. r \in Programs /\ \E x \in Blocks : Opening(s, r, t, x)
      BY <1>3, <2>4, OpenTraceOpens
    <3>2. Recorded(r)
      BY <1>3, <2>3, <3>1, OpeningKeeps
    <3> QED BY <1>2, <3>2
  <2>8. CASE r = OpenNothing(s, t)
    <3>1. r \in Programs /\ \E x \in Blocks : Opening(s, r, t, x)
      BY <1>3, <2>8, OpenNothingOpens
    <3>2. Recorded(r)
      BY <1>3, <2>3, <3>1, OpeningKeeps
    <3> QED BY <1>2, <3>2
  <2>5. CASE r = OpenSpan(s, t, b, ok)
    <3>1. r \in Programs /\ \E x \in Blocks : Opening(s, r, t, x)
      BY <1>3, <2>5, OpenSpanOpens
    <3>2. Recorded(r)
      BY <1>3, <2>3, <3>1, OpeningKeeps
    <3> QED BY <1>2, <3>2
  <2>6. CASE s.blocks[t] # <<>> /\ r = Close(s, t, b, ok)
    <3>1. r \in Programs /\ \E x \in Blocks : Closing(s, r, t, x)
      BY <1>3, <2>6, CloseCloses
    <3>2. Recorded(r)
      BY <1>3, <2>3, <3>1, ClosingKeeps
    <3> QED BY <1>2, <3>2
  <2>7. CASE \E u \in Tasks : s.runs[u] = "no" /\ r = Spawn(s, t, u, b)
    <3>1. PICK u \in Tasks : s.runs[u] = "no" /\ r = Spawn(s, t, u, b)
      BY <2>7
    <3>2. Recorded(r)
      BY <1>3, <3>1, SpawnKeeps
    <3> QED BY <1>2, <3>2
  <2> QED BY <2>2, <2>4, <2>5, <2>6, <2>7, <2>8
<1>6. CASE NextProcess
  <2>1. r = Begin
    BY <1>2, <1>6 DEF NextProcess
  <2>2. Recorded(r)
    BY <2>1, BeginsRecorded
  <2> QED BY <1>2, <2>2
<1> QED BY <1>1, <1>2, <1>4, <1>5, <1>6

\* No trace is handed over twice.
LEMMA HandedOnce ==
  ASSUME Recorded(program), NEW x \in 1 .. Len(program.traces)
  PROVE  SentTimes(x) = IF program.traces[x].ended /\ Handed(program.traces[x]) THEN 1 ELSE 0
<1>1. program \in Programs /\ SentOK(program)
  BY DEF Recorded
<1>2. DOMAIN program.sent = 1 .. Len(program.sent)
  BY <1>1 DEF Programs
<1>3. PICK sends : sends = {k \in DOMAIN program.sent : program.sent[k].trace = x}
  OBVIOUS
<1>4. SentTimes(x) = Cardinality(sends)
  BY <1>3 DEF SentTimes
<1>5. CASE program.traces[x].ended /\ Handed(program.traces[x])
  <2>1. PICK k \in 1 .. Len(program.sent) : program.sent[k].trace = x
    BY <1>1, <1>5 DEF SentOK
  <2>2. sends = {k}
    BY <1>1, <1>2, <1>3, <2>1 DEF SentOK
  <2>3. Cardinality({k}) = 1
    BY FS_Singleton
  <2> QED BY <1>4, <1>5, <2>2, <2>3
<1>6. CASE ~(program.traces[x].ended /\ Handed(program.traces[x]))
  <2>1. sends = {}
    BY <1>1, <1>2, <1>3, <1>6 DEF SentOK
  <2> QED BY <1>4, <1>6, <2>1, FS_EmptySet
<1> QED BY <1>5, <1>6

\* A program that is recorded is kept.
LEMMA RecordedIsKept ==
  ASSUME Recorded(program)
  PROVE  RecordingKept
<1>1. /\ program \in Programs /\ SentOK(program) /\ OwnOK(program) /\ UnwindsOK(program)
      /\ RegisteredOK(program)
  BY DEF Recorded
<1>2. /\ DOMAIN program.traces = 1 .. Len(program.traces)
      /\ DOMAIN program.spans = 1 .. Len(program.spans)
      /\ DOMAIN program.sent = 1 .. Len(program.sent)
  BY <1>1 DEF Programs
<1>3. \A x \in DOMAIN program.traces :
        SentTimes(x) = IF /\ program.traces[x].ended /\ Kept(program.traces[x])
                          /\ ~program.traces[x].lost THEN 1 ELSE 0
  BY <1>2, HandedOnce DEF Handed
<1>4. ASSUME NEW i \in Own, program.spans[i].ended, TraceOf(i).ended
      PROVE  /\ program.spans[i].status = "error" => TraceOf(i).status = "error"
             /\ Kept(TraceOf(i)) /\ ~TraceOf(i).lost => Sent(i)
  <2>1. i \in 1 .. Len(program.spans) /\ program.runs[program.spans[i].task] = "bare"
    BY <1>2 DEF Own
  <2>2. Told(program, i) => Sent(i)
    BY <1>2 DEF Told, Sent
  <2> QED BY <1>1, <1>4, <2>1, <2>2 DEF OwnOK, TraceOf, Handed
<1>5. ASSUME NEW t \in Tasks, program.runs[t] = "bare", program.blocks[t] = <<>>
      PROVE  /\ program.ctx[t].span = 0
             /\ program.ctx[t].trace # 0 => Stray(program.ctx[t].trace)
             /\ \A i \in Own : program.spans[i].task = t =>
                  /\ program.spans[i].ended
                  /\ TraceOf(i).ended \/ Stray(program.spans[i].trace)
  <2>1. Depth(program, t) = 0
    BY <1>5 DEF Depth
  <2>2. PICK e : Unwinds(program, t, e)
    BY <1>1 DEF UnwindsOK
  <2>3. /\ program.ctx[t].span = 0
        /\ program.ctx[t].trace # 0 => Stray(program.ctx[t].trace)
    <3>1. Clear(program, program.ctx[t]) = Nowhere
      BY <1>5, <2>1, <2>2 DEF Unwinds
    <3> QED BY <3>1 DEF Clear, Nowhere, StrayIn, Stray
  <2>4. ASSUME NEW i \in Own, program.spans[i].task = t
        PROVE  /\ program.spans[i].ended
               /\ TraceOf(i).ended \/ Stray(program.spans[i].trace)
    <3>1. i \in 1 .. Len(program.spans)
      BY <1>2 DEF Own
    <3>2. ~Within(program, i) /\ ~Opened(program, t, program.spans[i].trace)
      BY <2>1, <2>4 DEF Within, Opened, Depth
    <3> QED BY <1>1, <1>5, <2>4, <3>1, <3>2 DEF OwnOK, TraceOf, StrayIn, Stray
  <2> QED BY <2>3, <2>4
<1> QED BY <1>3, <1>4, <1>5 DEF RecordingKept

\* The SDK "loses visibly", for any tasks and any limit on the spans of a trace:
\* the failures that the recorder's calls swallow cost a trace only when its
\* snapshot is one of them, or its own span was refused and nobody ends it.
THEOREM RecordingIsKept == ProgramSpec => []RecordingKept
<1>1. program = Begin => Recorded(program)
  BY BeginsRecorded
<1>2. Recorded(program) /\ [(\E t \in Tasks : Step(t)) \/ NextProcess]_program => Recorded(program)'
  BY RecordedStep
<1>3. Recorded(program) => RecordingKept
  BY RecordedIsKept
<1> QED BY <1>1, <1>2, <1>3, PTL DEF ProgramSpec
==============================================================================
