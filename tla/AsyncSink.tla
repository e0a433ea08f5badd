------------------------------ MODULE AsyncSink ------------------------------
(***************************************************************************)
(* The queued asynchronous sink of logwise_runtime/src/sinks.rs: AsyncSink, *)
(* its FlushBarrier, the worker thread, and the Drop of the last handle.    *)
(*                                                                          *)
(* One action per atomic step of the code: an atomic load or store, a lock  *)
(* acquisition, or a critical section whose reads nothing else can write.   *)
(* A queued record is its sequence number.  The writer behind the sink is   *)
(* external: it appears as the records it took (written), those it refused  *)
(* (failed), and the prefix its last successful flush covers (durable).     *)
(***************************************************************************)
EXTENDS Integers, Sequences, FiniteSets

CONSTANTS Threads,    \* threads that were given a clone of the sink
          Worker,     \* the sink's own worker thread
          Nobody,     \* the owner of a free lock
          Capacity,   \* AsyncShared::capacity
          Policies,   \* the overflow policies a sink may be built with
          Faults,     \* what the writer may do: "write", "flush", "panic"
          MaxEmits,   \* bound: calls of emit in a behaviour
          MaxFlushes  \* bound: calls of flush in a behaviour

ASSUME CapacityAssumption == Capacity \in Nat
ASSUME ThreadsAssumption == /\ Worker \notin Threads
                            /\ Nobody \notin Threads \cup {Worker}
ASSUME PoliciesAssumption == Policies \subseteq {"DropNewest", "OverwriteOldest"}
ASSUME BoundsAssumption == MaxEmits \in Nat /\ MaxFlushes \in Nat

VARIABLES
    overflow,      \* OverflowPolicy, fixed at construction
    events,        \* Queue::events
    shutdown,      \* Queue::shutdown
    queueLock,     \* owner of AsyncShared::queue
    progressLock,  \* owner of AsyncShared::progress_lock
    nextSequence, processed, requested, flushed, stopped,   \* the atomics
    wakers,        \* threads whose waker is in AsyncShared::wakers
    flushError,    \* sequence of last_flush_error, 0 for None
    writeError,    \* sequence of last_write_error, 0 for None
    stats,         \* accepted, dropped, overwritten, writeErrors
    handles,       \* threads that still own a clone of the sink
    pc,            \* where each thread is
    seen,          \* the value of requested_flush an overwriting emit loaded
    mode,          \* who evaluates FlushBarrier::result: wait, poll, repoll
    barrier,       \* the thread's FlushBarrier and the answer it gave
    wpc,           \* where the worker is
    cur,           \* the record the worker has popped, 0 for None
    written, failed, durable,   \* the external writer
    mishaps,       \* history: its panics, and its flushes whose failure the worker looked at
    evicted,       \* history: records that OverwriteOldest removed
    calls          \* history: calls of emit and of flush so far

queueVars == <<overflow, events, shutdown, queueLock, nextSequence, evicted>>
flushVars == <<processed, requested, flushed, stopped>>
errorVars == <<flushError, writeError>>
barrierVars == <<mode, barrier, progressLock, wakers>>
writerVars == <<written, failed, durable, mishaps>>
workerVars == <<wpc, cur, writerVars>>
vars == <<queueVars, flushVars, errorVars, barrierVars, workerVars, stats, pc, seen,
          handles, calls>>

Answers == {"ok", "error", "broken"}

ThreadSteps ==
    {"idle", "emitTryLock", "emitRoom", "emitOverwrite", "emitNotify",
     "flushLock", "flushRead", "flushPublish", "flushNotify",
     "waitLock", "resultFlushed", "resultStopped", "resultErrors", "parked",
     "register", "dropShutdown", "dropRequest", "dropNotify", "dropJoin"}
WorkerSteps ==
    {"lock", "pop", "park", "waiting", "write", "check", "flush", "publish",
     "notify", "wake", "stopLock", "stopCheck", "finalFlush", "stop",
     "panicked", "done"}

StatsRecord == [accepted: Nat, dropped: Nat, overwritten: Nat, writeErrors: Nat]
BarrierRecord == [target: Nat, answer: {"none", "open"} \cup Answers]
CallsRecord == [emit: Nat, flush: Nat]

TypeOK ==
    /\ overflow \in Policies
    /\ events \in Seq(Nat)
    /\ shutdown \in BOOLEAN /\ stopped \in BOOLEAN
    /\ queueLock \in Threads \cup {Worker, Nobody}
    /\ progressLock \in Threads \cup {Nobody}
    /\ nextSequence \in Nat /\ processed \in Nat
    /\ requested \in Nat /\ flushed \in Nat
    /\ flushError \in Nat /\ writeError \in Nat
    /\ wakers \subseteq Threads
    /\ handles \subseteq Threads
    /\ stats \in StatsRecord
    /\ pc \in [Threads -> ThreadSteps]
    /\ seen \in [Threads -> Nat]
    /\ mode \in [Threads -> {"wait", "poll", "repoll"}]
    /\ barrier \in [Threads -> BarrierRecord]
    /\ wpc \in WorkerSteps /\ cur \in Nat
    /\ written \in Seq(Nat) /\ failed \subseteq Nat /\ durable \in Nat
    /\ mishaps \in Nat
    /\ evicted \subseteq Nat /\ calls \in CallsRecord

Init ==
    /\ overflow \in Policies
    /\ events = <<>> /\ shutdown = FALSE
    /\ queueLock = Nobody /\ progressLock = Nobody
    /\ nextSequence = 0 /\ processed = 0 /\ requested = 0 /\ flushed = 0
    /\ stopped = FALSE
    /\ wakers = {}
    /\ flushError = 0 /\ writeError = 0
    /\ stats = [accepted |-> 0, dropped |-> 0, overwritten |-> 0, writeErrors |-> 0]
    /\ handles = Threads
    /\ pc = [t \in Threads |-> "idle"]
    /\ seen = [t \in Threads |-> 0]
    /\ mode = [t \in Threads |-> "wait"]
    /\ barrier = [t \in Threads |-> [target |-> 0, answer |-> "none"]]
    /\ wpc = "lock" /\ cur = 0
    /\ written = <<>> /\ failed = {} /\ durable = 0 /\ mishaps = 0
    /\ evicted = {} /\ calls = [emit |-> 0, flush |-> 0]

Goto(t, step) == pc' = [pc EXCEPT ![t] = step]
\* Variant: a refused emit is not counted.
CountDroppedNot == UNCHANGED stats
CountDropped == stats' = [stats EXCEPT !.dropped = @ + 1]

\* Variant: the notification is forgotten.
NotifyWorkNot == UNCHANGED wpc

\* Condvar::notify_one on `work`: the worker is its only waiter.
NotifyWork == wpc' = IF wpc = "waiting" THEN "lock" ELSE wpc

-----------------------------------------------------------------------------
(* EventSink::emit *)

EmitStart(t) ==
    /\ pc[t] = "idle" /\ t \in handles /\ calls.emit < MaxEmits
    /\ calls' = [calls EXCEPT !.emit = @ + 1]
    /\ IF Capacity = 0 \/ stopped
       THEN CountDropped /\ UNCHANGED pc
       ELSE Goto(t, "emitTryLock") /\ UNCHANGED stats
    /\ UNCHANGED <<queueVars, flushVars, errorVars, workerVars, seen,
                   barrierVars, handles>>

EmitTryLock(t) ==
    /\ pc[t] = "emitTryLock"
    /\ IF queueLock = Nobody
       THEN queueLock' = t /\ Goto(t, "emitRoom") /\ UNCHANGED stats
       ELSE CountDropped /\ Goto(t, "idle") /\ UNCHANGED queueLock
    /\ UNCHANGED <<overflow, events, shutdown, nextSequence, evicted,
                   flushVars, errorVars, workerVars, seen, barrierVars,
                   handles, calls>>

\* The queue guard goes out of scope and nothing was queued.
EmitRefuse(t) ==
    /\ CountDropped
    /\ queueLock' = Nobody
    /\ Goto(t, "idle")
    /\ UNCHANGED <<events, nextSequence, evicted>>

\* Append the record under the next sequence and release the queue.
EmitPush(t, room, lost) ==
    /\ nextSequence' = nextSequence + 1
    /\ events' = Append(room, nextSequence + 1)
    /\ evicted' = evicted \cup lost
    /\ stats' = [stats EXCEPT !.accepted = @ + 1,
                              !.overwritten = @ + Cardinality(lost)]
    /\ queueLock' = Nobody
    /\ Goto(t, "emitNotify")

\* Variant: one record too many.
FullOffByOne == Len(events) = Capacity + 1
Full == Len(events) = Capacity

EmitRoom(t) ==
    /\ pc[t] = "emitRoom"
    /\ \/ /\ ~Full
          /\ EmitPush(t, events, {})
          /\ UNCHANGED seen
       \/ /\ Full /\ overflow = "DropNewest"
          /\ EmitRefuse(t)
          /\ UNCHANGED seen
       \/ /\ Full /\ overflow = "OverwriteOldest"
          /\ seen' = [seen EXCEPT ![t] = requested]
          /\ Goto(t, "emitOverwrite")
          /\ UNCHANGED <<events, queueLock, nextSequence, evicted, stats>>
    /\ UNCHANGED <<overflow, shutdown, flushVars, errorVars, workerVars,
                   barrierVars, handles, calls>>

\* Variant: the last record a barrier covers is taken for one behind it.
GuaranteedBefore(t) == seen[t] > flushed /\ Head(events) < seen[t]
Guaranteed(t) == seen[t] > flushed /\ Head(events) <= seen[t]

\* The value of requested_flush was loaded a step ago, flushed_sequence now.
EmitOverwrite(t) ==
    /\ pc[t] = "emitOverwrite"
    /\ IF Guaranteed(t)
       THEN EmitRefuse(t)
       ELSE EmitPush(t, Tail(events), {Head(events)})
    /\ seen' = [seen EXCEPT ![t] = 0]
    /\ UNCHANGED <<overflow, shutdown, flushVars, errorVars, workerVars,
                   barrierVars, handles, calls>>

EmitNotify(t) ==
    /\ pc[t] = "emitNotify"
    /\ NotifyWork
    /\ Goto(t, "idle")
    /\ UNCHANGED <<queueVars, flushVars, errorVars, cur, writerVars, stats,
                   seen, barrierVars, handles, calls>>

-----------------------------------------------------------------------------
(* AsyncSink::flush *)

FlushStart(t) ==
    /\ pc[t] = "idle" /\ t \in handles /\ barrier[t].answer # "open"
    /\ calls.flush < MaxFlushes
    /\ calls' = [calls EXCEPT !.flush = @ + 1]
    /\ Goto(t, "flushLock")
    /\ UNCHANGED <<queueVars, flushVars, errorVars, workerVars, stats, seen,
                   barrierVars, handles>>

FlushLock(t) ==
    /\ pc[t] = "flushLock" /\ queueLock = Nobody
    /\ queueLock' = t
    /\ Goto(t, "flushRead")
    /\ UNCHANGED <<overflow, events, shutdown, nextSequence, evicted,
                   flushVars, errorVars, workerVars, stats, seen,
                   barrierVars, handles, calls>>

\* Variant: next_sequence read as the sequence the next record will get.
FlushTargetOffByOne == nextSequence - 1
FlushTarget == nextSequence

FlushRead(t) ==
    /\ pc[t] = "flushRead"
    /\ barrier' = [barrier EXCEPT ![t] = [target |-> FlushTarget, answer |-> "none"]]
    /\ queueLock' = Nobody
    /\ Goto(t, "flushPublish")
    /\ UNCHANGED <<overflow, events, shutdown, nextSequence, evicted,
                   flushVars, errorVars, workerVars, stats, seen, mode,
                   progressLock, wakers, handles, calls>>

RaiseRequest(target) == requested' = IF target > requested THEN target ELSE requested

\* requested_flush.fetch_max, outside the queue's lock.
FlushPublish(t) ==
    /\ pc[t] = "flushPublish"
    /\ RaiseRequest(barrier[t].target)
    /\ Goto(t, "flushNotify")
    /\ UNCHANGED <<queueVars, processed, flushed, stopped, errorVars,
                   workerVars, stats, seen, barrierVars, handles, calls>>

FlushNotify(t) ==
    /\ pc[t] = "flushNotify"
    /\ NotifyWork
    /\ barrier' = [barrier EXCEPT ![t].answer = "open"]
    /\ Goto(t, "idle")
    /\ UNCHANGED <<queueVars, flushVars, errorVars, cur, writerVars, stats,
                   seen, mode, progressLock, wakers, handles, calls>>

-----------------------------------------------------------------------------
(* FlushBarrier: wait, and poll as a Future.  Both go through result. *)

WaitStart(t) ==
    /\ pc[t] = "idle" /\ barrier[t].answer = "open"
    /\ mode' = [mode EXCEPT ![t] = "wait"]
    /\ Goto(t, "waitLock")
    /\ UNCHANGED <<queueVars, flushVars, errorVars, workerVars, stats, seen,
                   barrier, progressLock, wakers, handles, calls>>

WaitLock(t) ==
    /\ pc[t] = "waitLock" /\ progressLock = Nobody
    /\ progressLock' = t
    /\ Goto(t, "resultFlushed")
    /\ UNCHANGED <<queueVars, flushVars, errorVars, workerVars, stats, seen,
                   mode, barrier, wakers, handles, calls>>

PollStart(t) ==
    /\ pc[t] = "idle" /\ barrier[t].answer = "open"
    /\ mode' = [mode EXCEPT ![t] = "poll"]
    /\ Goto(t, "resultFlushed")
    /\ UNCHANGED <<queueVars, flushVars, errorVars, workerVars, stats, seen,
                   barrier, progressLock, wakers, handles, calls>>

\* Variant: the barrier looks at what was asked for.
CoveredAsked(target) == requested >= target
Covered(target) == flushed >= target

ResultFlushed(t) ==
    /\ pc[t] = "resultFlushed"
    /\ Goto(t, IF Covered(barrier[t].target) THEN "resultErrors"
                                             ELSE "resultStopped")
    /\ UNCHANGED <<queueVars, flushVars, errorVars, barrierVars, workerVars,
                   stats, seen, handles, calls>>

\* The barrier's owner has its answer; wait also drops the progress guard.
Answer(t, answer) ==
    /\ barrier' = [barrier EXCEPT ![t].answer = answer]
    /\ progressLock' = IF mode[t] = "wait" THEN Nobody ELSE progressLock
    /\ mode' = [mode EXCEPT ![t] = "wait"]
    /\ Goto(t, "idle")

\* stopped is loaded a step after flushed_sequence was.
ResultStopped(t) ==
    /\ pc[t] = "resultStopped"
    /\ \/ stopped /\ Answer(t, "broken")
       \/ /\ ~stopped /\ mode[t] = "wait"
          /\ progressLock' = Nobody
          /\ Goto(t, "parked")
          /\ UNCHANGED <<mode, barrier>>
       \/ /\ ~stopped /\ mode[t] = "poll"
          /\ Goto(t, "register")
          /\ UNCHANGED <<mode, barrier, progressLock>>
       \/ /\ ~stopped /\ mode[t] = "repoll"
          /\ mode' = [mode EXCEPT ![t] = "wait"]
          /\ Goto(t, "idle")
          /\ UNCHANGED <<barrier, progressLock>>
    /\ UNCHANGED <<queueVars, flushVars, errorVars, workerVars, stats, seen,
                   wakers, handles, calls>>

\* Variant: the error of the flush that covered exactly the target is missed.
FlushFailedLater(target) == flushError # 0 /\ flushError > target
FlushFailed(target) == flushError # 0 /\ flushError >= target
WriteFailed(target) == writeError # 0 /\ writeError <= target

\* Two mutexes, one step: what a covered barrier reads of last_write_error is
\* settled (set once, and by a record it covers), so only last_flush_error moves.
ResultErrors(t) ==
    LET target == barrier[t].target IN
    /\ pc[t] = "resultErrors"
    /\ Answer(t, IF FlushFailed(target) \/ WriteFailed(target) THEN "error"
                                                                ELSE "ok")
    /\ UNCHANGED <<queueVars, flushVars, errorVars, workerVars, stats, seen,
                   wakers, handles, calls>>

PollRegister(t) ==
    /\ pc[t] = "register"
    /\ wakers' = wakers \cup {t}
    /\ mode' = [mode EXCEPT ![t] = "repoll"]
    /\ Goto(t, "resultFlushed")
    /\ UNCHANGED <<queueVars, flushVars, errorVars, workerVars, stats, seen,
                   barrier, progressLock, handles, calls>>

\* Condvar::wait may return although nobody notified.
WaitSpuriousWake(t) ==
    /\ pc[t] = "parked"
    /\ Goto(t, "waitLock")
    /\ UNCHANGED <<queueVars, flushVars, errorVars, barrierVars, workerVars,
                   stats, seen, handles, calls>>

-----------------------------------------------------------------------------
(* Dropping a handle; the last one runs AsyncInner::drop. *)

ReleaseHandle(t) ==
    /\ pc[t] = "idle" /\ t \in handles
    /\ handles' = handles \ {t}
    /\ Goto(t, IF handles = {t} THEN "dropShutdown" ELSE "idle")
    /\ UNCHANGED <<queueVars, flushVars, errorVars, barrierVars, workerVars,
                   stats, seen, calls>>

DropShutdown(t) ==
    /\ pc[t] = "dropShutdown" /\ queueLock = Nobody
    /\ shutdown' = TRUE
    /\ Goto(t, "dropRequest")
    /\ UNCHANGED <<overflow, events, queueLock, nextSequence, evicted, flushVars,
                   errorVars, barrierVars, workerVars, stats, seen, handles,
                   calls>>

DropRequest(t) ==
    /\ pc[t] = "dropRequest"
    /\ requested' = nextSequence
    /\ Goto(t, "dropNotify")
    /\ UNCHANGED <<queueVars, processed, flushed, stopped, errorVars, barrierVars,
                   workerVars, stats, seen, handles, calls>>

DropNotify(t) ==
    /\ pc[t] = "dropNotify"
    /\ NotifyWork
    /\ Goto(t, "dropJoin")
    /\ UNCHANGED <<queueVars, flushVars, errorVars, barrierVars, cur, writerVars,
                   stats, seen, handles, calls>>

DropJoin(t) ==
    /\ pc[t] = "dropJoin" /\ wpc = "done"
    /\ Goto(t, "idle")
    /\ UNCHANGED <<queueVars, flushVars, errorVars, barrierVars, workerVars,
                   stats, seen, handles, calls>>

-----------------------------------------------------------------------------
(* worker_loop *)

WorkerLock ==
    /\ wpc = "lock" /\ queueLock = Nobody
    /\ queueLock' = Worker
    /\ wpc' = "pop"
    /\ UNCHANGED <<overflow, events, shutdown, nextSequence, evicted, flushVars,
                   errorVars, barrierVars, cur, writerVars, stats, pc, seen,
                   handles, calls>>

MustGoOn == requested > flushed \/ shutdown

\* requested_flush is loaded here while a flush may be about to raise it.
WorkerPop ==
    /\ wpc = "pop"
    /\ \/ /\ events # <<>>
          /\ cur' = Head(events) /\ events' = Tail(events)
          /\ queueLock' = Nobody
          /\ wpc' = "write"
       \/ /\ events = <<>> /\ MustGoOn
          /\ queueLock' = Nobody
          /\ wpc' = "check"
          /\ UNCHANGED <<cur, events>>
       \/ /\ events = <<>> /\ ~MustGoOn
          /\ wpc' = "park"
          /\ UNCHANGED <<cur, events, queueLock>>
    /\ UNCHANGED <<overflow, shutdown, nextSequence, evicted, flushVars,
                   errorVars, barrierVars, writerVars, stats, pc, seen, handles,
                   calls>>

\* work.wait releases the queue and enqueues the worker in one step.
WorkerPark ==
    /\ wpc = "park"
    /\ queueLock' = Nobody
    /\ wpc' = "waiting"
    /\ UNCHANGED <<overflow, events, shutdown, nextSequence, evicted, flushVars,
                   errorVars, barrierVars, cur, writerVars, stats, pc, seen,
                   handles, calls>>

WorkerSpuriousWake ==
    /\ wpc = "waiting"
    /\ wpc' = "lock"
    /\ UNCHANGED <<queueVars, flushVars, errorVars, barrierVars, cur, writerVars,
                   stats, pc, seen, handles, calls>>

\* Variant: an error of the writer is not counted.
CountWriteErrorNot == UNCHANGED stats
CountWriteError == stats' = [stats EXCEPT !.writeErrors = @ + 1]

WorkerWrite ==
    /\ wpc = "write"
    /\ \/ written' = Append(written, cur) /\ UNCHANGED <<failed, writeError, stats>>
       \/ /\ "write" \in Faults
          /\ failed' = failed \cup {cur}
          /\ CountWriteError
          /\ writeError' = IF writeError = 0 THEN cur ELSE writeError
          /\ UNCHANGED written
    /\ processed' = cur
    /\ cur' = 0
    /\ wpc' = "check"
    /\ UNCHANGED <<queueVars, requested, flushed, stopped, flushError, barrierVars,
                   durable, mishaps, pc, seen, handles, calls>>

WorkerCheck ==
    /\ wpc = "check"
    /\ wpc' = IF requested <= processed /\ requested > flushed THEN "flush"
                                                                ELSE "stopLock"
    /\ UNCHANGED <<queueVars, flushVars, errorVars, barrierVars, cur, writerVars,
                   stats, pc, seen, handles, calls>>

WorkerFlush ==
    /\ wpc = "flush"
    /\ \/ /\ durable' = processed /\ flushError' = 0
          /\ UNCHANGED <<stats, mishaps>>
       \/ /\ "flush" \in Faults
          /\ mishaps' = mishaps + 1
          /\ CountWriteError
          /\ flushError' = processed
          /\ UNCHANGED durable
    /\ wpc' = "publish"
    /\ UNCHANGED <<queueVars, flushVars, writeError, barrierVars, cur, written,
                   failed, pc, seen, handles, calls>>

WorkerPublish ==
    /\ wpc = "publish"
    /\ flushed' = processed
    /\ wpc' = "notify"
    /\ UNCHANGED <<queueVars, processed, requested, stopped, errorVars, barrierVars,
                   cur, writerVars, stats, pc, seen, handles, calls>>

\* notify_progress: notify_all under the barriers' own lock ...
WorkerNotify ==
    /\ wpc = "notify" /\ progressLock = Nobody
    /\ pc' = [t \in Threads |-> IF pc[t] = "parked" THEN "waitLock" ELSE pc[t]]
    /\ wpc' = "wake"
    /\ UNCHANGED <<queueVars, flushVars, errorVars, barrierVars, cur, writerVars,
                   stats, seen, handles, calls>>

\* ... then takes and wakes the wakers (being polled again is the executor's
\* business); the worker that has stopped returns from here.
WorkerWake ==
    /\ wpc = "wake"
    /\ wakers' = {}
    /\ wpc' = IF stopped THEN "done" ELSE "stopLock"
    /\ UNCHANGED <<queueVars, flushVars, errorVars, mode, barrier, progressLock,
                   cur, writerVars, stats, pc, seen, handles, calls>>

WorkerStopLock ==
    /\ wpc = "stopLock" /\ queueLock = Nobody
    /\ queueLock' = Worker
    /\ wpc' = "stopCheck"
    /\ UNCHANGED <<overflow, events, shutdown, nextSequence, evicted, flushVars,
                   errorVars, barrierVars, cur, writerVars, stats, pc, seen,
                   handles, calls>>

\* Variant: the worker leaves although records are queued.
ShouldStopEarly == shutdown
ShouldStop == shutdown /\ events = <<>>

WorkerStopCheck ==
    /\ wpc = "stopCheck"
    /\ queueLock' = Nobody
    /\ wpc' = IF ~ShouldStop THEN "lock"
              ELSE IF flushed < processed THEN "finalFlush" ELSE "stop"
    /\ UNCHANGED <<overflow, events, shutdown, nextSequence, evicted, flushVars,
                   errorVars, barrierVars, cur, writerVars, stats, pc, seen,
                   handles, calls>>

\* The result of this flush is discarded.
WorkerFinalFlush ==
    /\ wpc = "finalFlush"
    /\ \/ durable' = processed
       \/ "flush" \in Faults /\ UNCHANGED durable
    /\ flushed' = processed
    /\ wpc' = "stop"
    /\ UNCHANGED <<queueVars, processed, requested, stopped, errorVars, barrierVars,
                   cur, written, failed, mishaps, stats, pc, seen, handles, calls>>

\* Variant: the worker leaves without notify_progress.
WorkerStopSilent ==
    /\ wpc = "stop"
    /\ stopped' = TRUE
    /\ wpc' = "done"
    /\ UNCHANGED <<queueVars, processed, requested, flushed, errorVars, barrierVars,
                   cur, writerVars, stats, pc, seen, handles, calls>>

WorkerStop ==
    /\ wpc = "stop"
    /\ stopped' = TRUE
    /\ wpc' = "notify"
    /\ UNCHANGED <<queueVars, processed, requested, flushed, errorVars, barrierVars,
                   cur, writerVars, stats, pc, seen, handles, calls>>

\* The writer panics in write_event or flush: worker_loop unwinds.
WriterPanic ==
    /\ wpc \in {"write", "flush", "finalFlush"} /\ "panic" \in Faults
    /\ wpc' = "panicked"
    /\ mishaps' = mishaps + 1
    /\ UNCHANGED <<queueVars, flushVars, errorVars, barrierVars, cur, written, failed,
                   durable, stats, pc, seen, handles, calls>>

WorkerPanicked ==
    /\ wpc = "panicked"
    /\ CountWriteError
    /\ stopped' = TRUE
    /\ wpc' = "notify"
    /\ UNCHANGED <<queueVars, processed, requested, flushed, errorVars, barrierVars,
                   cur, writerVars, pc, seen, handles, calls>>

-----------------------------------------------------------------------------

\* What a thread does once it is inside a call.
CallStep(t) ==
    \/ EmitTryLock(t) \/ EmitRoom(t) \/ EmitOverwrite(t) \/ EmitNotify(t)
    \/ FlushLock(t) \/ FlushRead(t) \/ FlushPublish(t) \/ FlushNotify(t)
    \/ WaitLock(t) \/ ResultFlushed(t) \/ ResultStopped(t) \/ ResultErrors(t)
    \/ PollRegister(t)
    \/ DropShutdown(t) \/ DropRequest(t) \/ DropNotify(t) \/ DropJoin(t)

CallStart(t) ==
    \/ EmitStart(t) \/ FlushStart(t) \/ WaitStart(t) \/ PollStart(t)
    \/ ReleaseHandle(t)

WorkerStep ==
    \/ WorkerLock \/ WorkerPop \/ WorkerPark \/ WorkerWrite \/ WorkerCheck
    \/ WorkerFlush \/ WorkerPublish \/ WorkerNotify \/ WorkerWake
    \/ WorkerStopLock \/ WorkerStopCheck \/ WorkerFinalFlush \/ WorkerStop
    \/ WriterPanic \/ WorkerPanicked

Next ==
    \/ WorkerStep
    \/ WorkerSpuriousWake
    \/ \E t \in Threads : CallStep(t) \/ CallStart(t) \/ WaitSpuriousWake(t)

Spec == Init /\ [][Next]_vars

\* A thread is scheduled and no mutex starves it: strong fairness of what a
\* thread does inside a call and of the worker.  Starting a call and a
\* spurious wake-up are nobody's duty.
Fairness ==
    /\ SF_vars(WorkerStep)
    /\ \A t \in Threads : SF_vars(CallStep(t))
FairSpec == Spec /\ Fairness

-----------------------------------------------------------------------------
(* Properties *)

Elements(s) == {s[i] : i \in 1..Len(s)}
Increasing(s) == \A i, j \in 1..Len(s) : i < j => s[i] < s[j]

Deciding == {t \in Threads : pc[t] \in {"emitTryLock", "emitRoom", "emitOverwrite"}}
InFlight == IF cur = 0 THEN <<>> ELSE <<cur>>

\* A panic is counted once worker_loop has unwound.
PanicUncounted == IF wpc = "panicked" THEN 1 ELSE 0

\* "Loss is accounted for": every record that got a sequence is in exactly one
\* place (queued, in the worker's hand, written, refused by the writer, or
\* overwritten), and the four counters of SinkStats say how many emits ended
\* in each way, whatever emits collide on the try_lock, and how often the
\* writer refused a record, failed a flush or panicked.  The one failure they
\* miss is that of the flush at shutdown, whose result is discarded.
LossAccounted ==
    /\ Elements(events) \cup Elements(InFlight) \cup Elements(written)
          \cup failed \cup evicted = 1..nextSequence
    /\ Len(events) + Len(InFlight) + Len(written)
          + Cardinality(failed) + Cardinality(evicted) = nextSequence
    /\ stats.accepted = nextSequence
    /\ stats.overwritten = Cardinality(evicted)
    /\ stats.accepted + stats.dropped + Cardinality(Deciding) = calls.emit
    /\ stats.writeErrors + PanicUncounted = Cardinality(failed) + mishaps

\* The writer sees records in the order emit numbered them, across eviction,
\* failed writes and the worker's unlocked window, and the queue keeps its
\* bound.
FifoWithinCapacity ==
    /\ Increasing(written \o InFlight \o events)
    /\ \A s \in failed : \A q \in Elements(InFlight \o events) : s < q
    /\ Len(events) <= Capacity

\* work.wait never sleeps through a record or through the shutdown flag: each
\* is written under the queue's lock, so whoever wrote it still owes its
\* notify_one while the worker is in the wait set.
ParkedWorkerIsOwedAWake ==
    wpc = "waiting" =>
        /\ events # <<>> => \E t \in Threads : pc[t] = "emitNotify"
        /\ shutdown => \E t \in Threads : pc[t] \in {"dropRequest", "dropNotify"}

\* AsyncInner::drop: a worker that stopped without a panic has handed every
\* accepted record to the writer and answers every barrier as covered.
StoppedMeansDrained ==
    (stopped /\ "panic" \notin Faults) =>
        /\ events = <<>> /\ cur = 0
        /\ processed = nextSequence /\ flushed = nextSequence

Answered(t, answer) == barrier[t].answer = "open" /\ barrier'[t].answer = answer

\* While the sink lives, a barrier that answers Ok is backed by a writer.flush
\* that succeeded after its last record, whichever flush of another barrier
\* set or cleared last_flush_error in between.
LiveOkIsDurable ==
    [][\A t \in Threads :
         Answered(t, "ok") => shutdown \/ durable >= barrier[t].target]_vars

\* "Once a barrier exists, prior accepted records may no longer be overwritten
\* out from under its guarantee" holds of the emits that look after flush has
\* raised requested_flush.  One that looked before may still evict: only such an
\* emit takes a record at or below the target of a barrier that has no answer.
OnlyAnEarlierLookEvicts ==
    [][\A s \in evicted' \ evicted, b \in Threads :
         barrier[b].answer = "open" /\ s <= barrier[b].target =>
             \E t \in Threads : pc[t] = "emitOverwrite" /\ pc'[t] # pc[t]
                                  /\ seen[t] < barrier[b].target]_vars

Contract == INSTANCE SinkContract WITH
    issued <- nextSequence, pending <- events, inHand <- cur,
    delivered <- written, spoiled <- failed, closed <- stopped,
    barrier <- [t \in Threads |->
                  [target |-> barrier[t].target,
                   answer |-> IF barrier[t].answer = "open" THEN "none"
                                                            ELSE barrier[t].answer]]

\* The threads, locks and atomics implement the sink's contract.
ImplementsContract == Contract!Spec

Waiting(t) == mode[t] = "wait" /\
    pc[t] \in {"waitLock", "resultFlushed", "resultStopped", "resultErrors", "parked"}

\* An accepted record reaches the writer or is overwritten, unless the worker
\* died; nobody has to flush for it.
AcceptedIsHandled ==
    \A s \in 1..MaxEmits :
        (s \in Elements(events)) ~> (s \notin Elements(events) \/ stopped)

\* Dropping the last handle joins the worker and returns, and a barrier that
\* outlives the sink is answered, by wait or through its waker.
DropCompletes ==
    \A t \in Threads :
        /\ (pc[t] = "dropShutdown") ~> (pc[t] = "idle")
        /\ (handles = {} /\ Waiting(t)) ~> ~Waiting(t)
        /\ (handles = {} /\ t \in wakers)
              ~> (t \notin wakers \/ barrier[t].answer # "open")

\* flush_blocking and emergency_drain return.
FlushBlockingReturns ==
    \A t \in Threads : Waiting(t) ~> ~Waiting(t)
=============================================================================
