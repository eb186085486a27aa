----------------------------- MODULE SdkExporter -----------------------------
(***************************************************************************)
(* The SDK's batching exporter (packages/python-sdk/.../exporter.py).      *)
(*                                                                         *)
(* Application threads (Callers) hand finished traces to a bounded queue;  *)
(* a daemon thread batches them and posts each batch with retries; a       *)
(* controlling thread calls flush() and shutdown().  submit() after        *)
(* shutdown() starts a new daemon thread, so there is a pool of thread     *)
(* identities (Workers), each started at most once.                        *)
(*                                                                         *)
(* One action is one step between two points where the GIL can switch:     *)
(* queue operations and Event operations are atomic, a check of one        *)
(* followed by a use of another is not.  A trace stands for a trace with   *)
(* one span; `due` is the flush interval having elapsed.                   *)
(***************************************************************************)
EXTENDS Naturals, Sequences, FiniteSets, SequencesExt

CONSTANTS
  Traces,       \* the traces the host application finishes
  Callers,      \* application threads that call submit()
  Workers,      \* daemon-thread identities (bounds the restarts)
  NoWorker,     \* self._thread is None
  NoTrace,      \* a caller outside submit()
  Sentinel,     \* the None that wakes the worker
  Capacity,     \* queue.Queue(maxsize=_capacity(config))
  BatchSize,    \* config.batch_size, in one-span traces
  MaxRetries,   \* config.max_retries
  MaxControls,  \* bound on the flush()/shutdown() calls
  Modes,        \* which of "flush", "shutdown" the host calls
  Outcomes,     \* what a post may do: "ok", "rejected" (4xx), "raises"
  Encodes,      \* what _encode may do: the batch "fits", is "refused" (json.dumps fails,
                \* or it is too large), or model_dump "raises" on a value of the host's
  Spools        \* BOOLEAN subset: is spool_dir set and writable

ASSUME SizeAssumption ==
  /\ Capacity \in Nat \ {0}
  /\ BatchSize \in Nat \ {0}
  /\ MaxRetries \in Nat \ {0}
  /\ MaxControls \in Nat
  /\ IsFiniteSet(Traces)
ASSUME SentinelAssumption ==
  /\ NoWorker \notin Workers
  /\ NoTrace \notin Traces
  /\ Sentinel \notin Traces
ASSUME ChoiceAssumption ==
  /\ Modes \subseteq {"flush", "shutdown"}
  /\ Outcomes \subseteq {"ok", "rejected", "raises"}
  /\ Encodes \subseteq {"fits", "refused", "raises"}
  /\ Spools \subseteq BOOLEAN

VARIABLES
  queue,     \* self._queue
  thread,    \* self._thread
  stopping,  \* self._stopping
  idle,      \* self._idle
  wpc,       \* where each daemon thread is in _run/_send_batch
  batch,     \* its local batch
  due,       \* flush_interval_s has elapsed since its last_flush
  attempt,   \* its loop variable in _send_batch
  sub,       \* where each caller is in submit(), and with which trace
  ctl,       \* the controlling thread: pc, mode, flush result, the thread it swapped
             \* out, calls made; ghosts: its flush waited, a shutdown() has been called
  scope,     \* ghost: traces enqueued before the current flush() began
  fate,      \* ghost: what became of each trace
  stats      \* ExportStats.exported_traces, .dropped_traces and .failures

workerVars == <<wpc, batch, due, attempt>>
vars == <<queue, thread, stopping, idle, workerVars, sub, ctl, scope, fate, stats>>

Fates == {"new", "pending", "delivered", "rejected", "spooled", "dropped",
         "abandoned", "unspooled", "swallowed", "unencodable", "crashed"}
WorkerPcs == {"unborn", "loop", "get", "send", "idlecheck", "setidle",
              "sendlast", "exit", "dead"}
SubmitPcs == {"out", "isalive", "start", "clear", "put", "evict", "reput"}
ControlPcs == {"out", "poll", "sawempty", "stop", "swap", "isalive", "wake"}

Alive(w) == w # NoWorker /\ wpc[w] \notin {"unborn", "dead"}
InBatch(t) == {w \in Workers : t \in ToSet(batch[w])}
Pending == {t \in Traces : fate[t] = "pending"}

Init ==
  /\ queue = <<>>
  /\ thread = NoWorker
  /\ stopping = FALSE
  /\ idle = TRUE
  /\ wpc = [w \in Workers |-> "unborn"]
  /\ batch = [w \in Workers |-> <<>>]
  /\ due = [w \in Workers |-> FALSE]
  /\ attempt = [w \in Workers |-> 0]
  /\ sub = [c \in Callers |-> [pc |-> "out", trace |-> NoTrace]]
  /\ ctl = [pc |-> "out", mode |-> "flush", drained |-> FALSE, worker |-> NoWorker,
            calls |-> 0, waited |-> FALSE, shut |-> FALSE]
  /\ scope = {}
  /\ fate = [t \in Traces |-> "new"]
  /\ stats = [exported |-> 0, dropped |-> 0, failures |-> 0]

(***************************************************************************)
(* submit()                                                                *)
(***************************************************************************)
Leave(c) == sub' = [sub EXCEPT ![c] = [pc |-> "out", trace |-> NoTrace]]

\* submit(), and in _ensure_started the first of two unlocked reads of self._thread.
SubmitBegin(c, t) ==
  /\ sub[c].pc = "out"
  /\ fate[t] = "new"
  /\ sub' = [sub EXCEPT ![c] =
       [pc |-> IF thread = NoWorker THEN "start" ELSE "isalive", trace |-> t]]
  /\ fate' = [fate EXCEPT ![t] = "pending"]
  /\ UNCHANGED <<queue, thread, stopping, idle, workerVars, ctl, scope, stats>>

\* If shutdown swapped the thread out in between, None.is_alive() raises, and
\* never_raises swallows it together with the trace.
ReadAlive(c) ==
  /\ sub[c].pc = "isalive"
  /\ \/ /\ thread = NoWorker
        /\ fate' = [fate EXCEPT ![sub[c].trace] = "swallowed"]
        /\ Leave(c)
     \/ /\ thread # NoWorker
        /\ sub' = [sub EXCEPT ![c].pc = IF Alive(thread) THEN "clear" ELSE "start"]
        /\ UNCHANGED fate
  /\ UNCHANGED <<queue, thread, stopping, idle, workerVars, ctl, scope, stats>>

\* Under self._lock; its only other holder is shutdown's swap.
StartThread(c) ==
  /\ sub[c].pc = "start"
  /\ sub' = [sub EXCEPT ![c].pc = "clear"]
  /\ \/ /\ Alive(thread)
        /\ UNCHANGED <<thread, stopping, wpc>>
     \/ /\ ~Alive(thread)
        /\ stopping' = FALSE
        /\ \E w \in Workers :
             /\ wpc[w] = "unborn"
             /\ thread' = w
             /\ wpc' = [wpc EXCEPT ![w] = "loop"]
  /\ UNCHANGED <<queue, idle, batch, due, attempt, ctl, scope, fate, stats>>

ClearIdle(c) ==
  /\ sub[c].pc = "clear"
  /\ idle' = FALSE
  /\ sub' = [sub EXCEPT ![c].pc = "put"]
  /\ UNCHANGED <<queue, thread, stopping, workerVars, ctl, scope, fate, stats>>

HasRoom == Len(queue) < Capacity

PutNowait(c) ==
  /\ sub[c].pc = "put"
  /\ \/ /\ HasRoom
        /\ queue' = Append(queue, sub[c].trace)
        /\ Leave(c)
     \/ /\ ~HasRoom
        /\ sub' = [sub EXCEPT ![c].pc = "evict"]
        /\ UNCHANGED queue
  /\ UNCHANGED <<thread, stopping, idle, workerVars, ctl, scope, fate, stats>>

\* get_nowait in the Full handler takes whatever is oldest, the sentinel included.
EvictOldest(c) ==
  /\ sub[c].pc = "evict"
  /\ stats' = [stats EXCEPT !.dropped = @ + 1]
  /\ \/ /\ queue # <<>>
        /\ queue' = Tail(queue)
        /\ fate' = IF Head(queue) = Sentinel THEN fate
                   ELSE [fate EXCEPT ![Head(queue)] = "dropped"]
        /\ sub' = [sub EXCEPT ![c].pc = "reput"]
     \/ /\ queue = <<>>
        /\ fate' = [fate EXCEPT ![sub[c].trace] = "dropped"]
        /\ Leave(c)
        /\ UNCHANGED queue
  /\ UNCHANGED <<thread, stopping, idle, workerVars, ctl, scope>>

PutAgain(c) ==
  /\ sub[c].pc = "reput"
  /\ Leave(c)
  /\ \/ /\ HasRoom
        /\ queue' = Append(queue, sub[c].trace)
        /\ UNCHANGED <<fate, stats>>
     \/ /\ ~HasRoom
        /\ stats' = [stats EXCEPT !.dropped = @ + 1]
        /\ fate' = [fate EXCEPT ![sub[c].trace] = "dropped"]
        /\ UNCHANGED queue
  /\ UNCHANGED <<thread, stopping, idle, workerVars, ctl, scope>>

SubmitStep(c) ==
  \/ ReadAlive(c) \/ StartThread(c) \/ ClearIdle(c)
  \/ PutNowait(c) \/ EvictOldest(c) \/ PutAgain(c)

(***************************************************************************)
(* _run() and _send_batch()                                                *)
(***************************************************************************)
Goto(w, pc) == wpc' = [wpc EXCEPT ![w] = pc]

\* Mutant: a batch is sent only when it is full.
BugReady(held, elapsed) == Len(held) >= BatchSize
Ready(held, elapsed) == held # <<>> /\ (elapsed \/ Len(held) >= BatchSize)

\* Mutant: the loop ends without sending what it still holds.
BugAfterLoop(w) == "exit"
AfterLoop(w) == IF batch[w] # <<>> THEN "sendlast" ELSE "exit"

LoopTest(w) ==
  /\ wpc[w] = "loop"
  /\ Goto(w, IF stopping THEN AfterLoop(w) ELSE "get")
  /\ UNCHANGED <<queue, thread, stopping, idle, batch, due, attempt, sub, ctl, scope, fate, stats>>

Decide(w, held) == Goto(w, IF Ready(held, due[w]) THEN "send" ELSE "idlecheck")

Get(w) ==
  /\ wpc[w] = "get"
  /\ queue # <<>>
  /\ queue' = Tail(queue)
  /\ \/ /\ Head(queue) = Sentinel
        /\ Goto(w, AfterLoop(w))
        /\ UNCHANGED batch
     \/ /\ Head(queue) # Sentinel
        /\ batch' = [batch EXCEPT ![w] = Append(@, Head(queue))]
        /\ Decide(w, batch'[w])
  /\ UNCHANGED <<thread, stopping, idle, due, attempt, sub, ctl, scope, fate, stats>>

GetTimesOut(w) ==
  /\ wpc[w] = "get"
  /\ queue = <<>>
  /\ due[w]
  /\ Decide(w, batch[w])
  /\ UNCHANGED <<queue, thread, stopping, idle, batch, due, attempt, sub, ctl, scope, fate, stats>>

\* The monotonic clock passes last_flush + flush_interval_s.  Only what follows a get()
\* reads the clock, so it may as well pass while the thread is in get().
IntervalElapses(w) ==
  /\ wpc[w] = "get"
  /\ ~due[w]
  /\ due' = [due EXCEPT ![w] = TRUE]
  /\ UNCHANGED <<queue, thread, stopping, idle, wpc, batch, attempt, sub, ctl, scope, fate, stats>>

IdleCheck(w) ==
  /\ wpc[w] = "idlecheck"
  /\ Goto(w, IF batch[w] = <<>> /\ queue = <<>> THEN "setidle" ELSE "loop")
  /\ UNCHANGED <<queue, thread, stopping, idle, batch, due, attempt, sub, ctl, scope, fate, stats>>

SetIdle(w) ==
  /\ wpc[w] = "setidle"
  /\ idle' = TRUE
  /\ Goto(w, "loop")
  /\ UNCHANGED <<queue, thread, stopping, batch, due, attempt, sub, ctl, scope, fate, stats>>

Exit(w) ==
  /\ wpc[w] = "exit"
  /\ idle' = TRUE
  /\ Goto(w, "dead")
  /\ UNCHANGED <<queue, thread, stopping, batch, due, attempt, sub, ctl, scope, fate, stats>>

Cleared(w) == [batch EXCEPT ![w] = <<>>]

\* The batch is gone, whatever became of it.
Settle(w, f) ==
  /\ fate' = [t \in Traces |-> IF t \in ToSet(batch[w]) THEN f ELSE fate[t]]
  /\ batch' = Cleared(w)

\* _send_batch returns; last_flush is reset inside the loop only.
SendReturns(w, f) ==
  /\ Settle(w, f)
  /\ attempt' = [attempt EXCEPT ![w] = 0]
  /\ due' = [due EXCEPT ![w] = FALSE]
  /\ Goto(w, IF wpc[w] = "send" THEN "idlecheck" ELSE "exit")

Sending(w) == wpc[w] \in {"send", "sendlast"}

EncodeFails(w) ==
  /\ Sending(w)
  /\ attempt[w] = 0
  /\ "refused" \in Encodes
  /\ SendReturns(w, "unencodable")
  /\ UNCHANGED <<queue, thread, stopping, idle, sub, ctl, scope, stats>>

\* model_dump is outside _encode's try, and nothing catches what it raises: the thread dies
\* in _send_batch with its batch, and sets no event on the way.
DumpRaises(w) ==
  /\ Sending(w)
  /\ attempt[w] = 0
  /\ "raises" \in Encodes
  /\ Settle(w, "crashed")
  /\ Goto(w, "dead")
  /\ UNCHANGED <<queue, thread, stopping, idle, due, attempt, sub, ctl, scope, stats>>

\* Mutant: one failure is enough to give up.
BugMustBreak(w) == attempt[w] > 0
MustBreak(w) == stopping /\ attempt[w] > 0

\* The retry loop gives up when a stop arrives between two attempts.
StopBreaksRetry(w) ==
  /\ Sending(w)
  /\ MustBreak(w)
  /\ SendReturns(w, "abandoned")
  /\ UNCHANGED <<queue, thread, stopping, idle, sub, ctl, scope, stats>>

Exported(w) == stats.exported + Len(batch[w])

\* _post returned: 2xx, or a 4xx that is only logged.  Both count as exported.
PostReturns(w) ==
  /\ Sending(w)
  /\ "fits" \in Encodes
  /\ ~MustBreak(w)
  /\ \E outcome \in Outcomes \ {"raises"} :
       SendReturns(w, IF outcome = "ok" THEN "delivered" ELSE "rejected")
  /\ stats' = [stats EXCEPT !.exported = Exported(w)]
  /\ UNCHANGED <<queue, thread, stopping, idle, sub, ctl, scope>>

\* _post raised (5xx, 429, transport error): back off, or spool on the last attempt.
PostRaises(w) ==
  /\ Sending(w)
  /\ "fits" \in Encodes
  /\ ~MustBreak(w)
  /\ "raises" \in Outcomes
  /\ \/ /\ attempt[w] < MaxRetries - 1
        /\ attempt' = [attempt EXCEPT ![w] = @ + 1]
        /\ UNCHANGED <<wpc, batch, due, fate>>
     \/ /\ attempt[w] = MaxRetries - 1
        /\ \E written \in Spools : SendReturns(w, IF written THEN "spooled" ELSE "unspooled")
  /\ stats' = [stats EXCEPT !.failures = @ + 1]
  /\ UNCHANGED <<queue, thread, stopping, idle, sub, ctl, scope>>

WorkerStep(w) ==
  \/ LoopTest(w) \/ Get(w) \/ GetTimesOut(w) \/ IdleCheck(w) \/ SetIdle(w) \/ Exit(w)
  \/ EncodeFails(w) \/ DumpRaises(w) \/ StopBreaksRetry(w) \/ PostReturns(w) \/ PostRaises(w)

(***************************************************************************)
(* flush() and shutdown()                                                  *)
(***************************************************************************)
InHand == {sub[c].trace : c \in Callers} \ {NoTrace}

\* flush() ends with this result; shutdown() goes on to stop the worker.
AfterFlush(mode) == IF mode = "flush" THEN "out" ELSE "stop"
FlushReturns(result) == ctl' = [ctl EXCEPT !.pc = AfterFlush(ctl.mode), !.drained = result]

\* Without a live thread flush() returns True at once.
FlushBegin(mode) ==
  /\ ctl.pc = "out"
  /\ ctl.calls < MaxControls
  /\ scope' = {t \in Traces : fate[t] # "new"} \ InHand
  /\ ctl' = [ctl EXCEPT !.pc = IF Alive(thread) THEN "poll" ELSE AfterFlush(mode),
                        !.mode = mode,
                        !.drained = ~Alive(thread),
                        !.waited = Alive(thread),
                        !.calls = @ + 1,
                        !.shut = @ \/ mode = "shutdown"]
  /\ UNCHANGED <<queue, thread, stopping, idle, workerVars, sub, fate, stats>>

FlushSeesEmpty ==
  /\ ctl.pc = "poll"
  /\ queue = <<>>
  /\ ctl' = [ctl EXCEPT !.pc = "sawempty"]
  /\ UNCHANGED <<queue, thread, stopping, idle, workerVars, sub, scope, fate, stats>>

FlushReadsIdle ==
  /\ ctl.pc = "sawempty"
  /\ IF idle THEN FlushReturns(TRUE) ELSE ctl' = [ctl EXCEPT !.pc = "poll"]
  /\ UNCHANGED <<queue, thread, stopping, idle, workerVars, sub, scope, fate, stats>>

FlushTimesOut ==
  /\ ctl.pc = "poll"
  /\ FlushReturns(FALSE)
  /\ UNCHANGED <<queue, thread, stopping, idle, workerVars, sub, scope, fate, stats>>

StopWorker ==
  /\ ctl.pc = "stop"
  /\ stopping' = TRUE
  /\ ctl' = [ctl EXCEPT !.pc = "swap"]
  /\ UNCHANGED <<queue, thread, idle, workerVars, sub, scope, fate, stats>>

SwapThread ==
  /\ ctl.pc = "swap"
  /\ thread' = NoWorker
  /\ ctl' = [ctl EXCEPT !.pc = IF thread = NoWorker THEN "out" ELSE "isalive", !.worker = thread]
  /\ UNCHANGED <<queue, stopping, idle, workerVars, sub, scope, fate, stats>>

\* thread.is_alive(), of the thread it swapped out.
ReadSwapped ==
  /\ ctl.pc = "isalive"
  /\ ctl' = [ctl EXCEPT !.pc = IF Alive(ctl.worker) THEN "wake" ELSE "out", !.worker = NoWorker]
  /\ UNCHANGED <<queue, thread, stopping, idle, workerVars, sub, scope, fate, stats>>

\* put_nowait(None); on a full queue it raises, never_raises swallows it and the
\* join is skipped.  Otherwise join waits at most a second, or until the exit.
WakeWorker ==
  /\ ctl.pc = "wake"
  /\ ctl' = [ctl EXCEPT !.pc = "out"]
  /\ queue' = IF HasRoom THEN Append(queue, Sentinel) ELSE queue
  /\ UNCHANGED <<thread, stopping, idle, workerVars, sub, scope, fate, stats>>

ControlStep ==
  \/ FlushSeesEmpty \/ FlushReadsIdle \/ FlushTimesOut
  \/ StopWorker \/ SwapThread \/ ReadSwapped \/ WakeWorker

Next ==
  \/ \E c \in Callers, t \in Traces : SubmitBegin(c, t)
  \/ \E c \in Callers : SubmitStep(c)
  \/ \E w \in Workers : WorkerStep(w) \/ IntervalElapses(w)
  \/ \E mode \in Modes : FlushBegin(mode)
  \/ ControlStep

Spec == Init /\ [][Next]_vars

\* Threads are scheduled, the daemon's clock advances and posts end (export_timeout_s);
\* nothing is assumed of the host calling flush() or shutdown().
FairSpec ==
  /\ Spec
  /\ \A c \in Callers : WF_vars(SubmitStep(c))
  /\ \A w \in Workers : WF_vars(WorkerStep(w) \/ IntervalElapses(w))

(***************************************************************************)
(* Properties                                                              *)
(***************************************************************************)
Submitting == [pc : SubmitPcs, trace : Traces \cup {NoTrace}]
Controlling == [pc : ControlPcs, mode : {"flush", "shutdown"}, drained : BOOLEAN,
                worker : Workers \cup {NoWorker}, calls : 0 .. MaxControls,
                waited : BOOLEAN, shut : BOOLEAN]
Stats == [exported : Nat, dropped : Nat, failures : Nat]

\* Every variable stays in its range, and the queue never outgrows maxsize.
TypeOK ==
  /\ queue \in Seq(Traces \cup {Sentinel})
  /\ Len(queue) <= Capacity
  /\ thread \in Workers \cup {NoWorker}
  /\ stopping \in BOOLEAN
  /\ idle \in BOOLEAN
  /\ wpc \in [Workers -> WorkerPcs]
  /\ batch \in [Workers -> Seq(Traces)]
  /\ due \in [Workers -> BOOLEAN]
  /\ attempt \in [Workers -> 0 .. MaxRetries - 1]
  /\ sub \in [Callers -> Submitting]
  /\ ctl \in Controlling
  /\ scope \subseteq Traces
  /\ fate \in [Traces -> Fates]
  /\ stats \in Stats

\* Where a trace is: in callers' hands, queued, or in a worker's batch.
Places(t) ==
  Cardinality({c \in Callers : sub[c].trace = t})
  + Cardinality({i \in DOMAIN queue : queue[i] = t})
  + Cardinality({p \in Workers \X (1 .. Cardinality(Traces)) :
                   p[2] \in DOMAIN batch[p[1]] /\ batch[p[1]][p[2]] = t})

\* A trace that submit() accepted is in exactly one place until it has one fate, and
\* in none afterwards: no interleaving of callers, restarted workers and shutdown
\* sends it twice or mislays it.
OnePlace == \A t \in Traces : Places(t) = IF fate[t] = "pending" THEN 1 ELSE 0

Of(fates) == {t \in Traces : fate[t] \in fates}

\* ExportStats adds up: exported_traces is what the posts that returned carried,
\* dropped_traces counts every evicted or refused trace, and exceeds them only by
\* the sentinels that eviction took for traces; a batch given up after its last post shows
\* as that many failures, one given up between two posts as one at least.
CountersHonest ==
  /\ stats.exported = Cardinality(Of({"delivered", "rejected"}))
  /\ stats.dropped >= Cardinality(Of({"dropped"}))
  /\ stats.dropped <= Cardinality(Of({"dropped"}))
                      + IF "shutdown" \in Modes THEN ctl.calls ELSE 0
  /\ Of({"spooled", "unspooled"}) # {} => stats.failures >= MaxRetries
  /\ Of({"abandoned"}) # {} => stats.failures > 0

\* "Lose visibly": every accepted trace is in one place until it has one fate, the counters
\* tell what was sent, dropped and given up, and until someone shuts the exporter down no
\* batch is given up before its last attempt, and a trace leaves no counter behind only if
\* its batch did not serialise or was too large.
LosesVisibly ==
  /\ OnePlace
  /\ CountersHonest
  /\ ctl.shut \/ Of({"abandoned", "swallowed"}) = {}

\* "Silent loss is worse than visible loss": no trace disappears without a counter.
NothingVanishes == Of({"swallowed", "unencodable", "crashed"}) = {}

ReturnedTrue == ctl.calls > 0 /\ ctl.pc \in {"out", "stop"} /\ ctl.drained
FlushedTrue == ReturnedTrue /\ ctl.waited

\* "Wait for the queue to drain": flush() that returns True left none of the traces queued
\* before it in the queue.
TrueMeansEmpty == ReturnedTrue => scope \cap ToSet(queue) = {}

\* The same for a flush() that had a thread to wait for.
FlushEmptiesQueue == FlushedTrue => scope \cap ToSet(queue) = {}

\* flush() that returns True left none of the traces queued before it unsent.
FlushDrains == FlushedTrue => scope \cap Pending = {}

\* After a shutdown() whose flush waited and succeeded and whose worker is gone, every trace
\* queued before it has met its fate, although flush() alone may return early.
ShutdownDrains ==
  (FlushedTrue /\ ctl.mode = "shutdown" /\ ctl.pc = "out" /\ \A w \in Workers : ~Alive(w))
    => scope \cap Pending = {}

\* What is left of the promise that True means drained, since flush() can return early, and
\* without a look at the queue when its thread is gone: after a flush that waited the queue
\* was empty, and after such a shutdown nothing is left at all.
DrainedIsEmpty == FlushEmptiesQueue /\ ShutdownDrains

\* The daemon died of a batch that did not serialise, and no later submit() replaced it.
DaemonDied == thread # NoWorker /\ ~Alive(thread)

\* "Never block" and lose nothing: in the end every submit() has returned, also when the
\* daemon was stopped or died and never runs again, and every accepted trace has been sent,
\* spooled, dropped or lost with its batch, unless someone called shutdown() or the daemon
\* died of a batch and left the queue behind.
EverySettles ==
  <>[](/\ \A c \in Callers : sub[c].pc = "out"
       /\ ctl.shut \/ DaemonDied \/ \A t \in Traces : fate[t] # "pending")

\* The same without the exception: the daemon outlives what it cannot send.
AllSettle == <>[](ctl.shut \/ \A t \in Traces : fate[t] # "pending")
=============================================================================
