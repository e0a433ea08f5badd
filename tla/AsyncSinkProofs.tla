--------------------------- MODULE AsyncSinkProofs ---------------------------
(***************************************************************************)
(* Proofs about AsyncSink for any number of threads, any capacity and any  *)
(* fault of the writer: type correctness, mutual exclusion of the queue,   *)
(* that the worker never sleeps through a record or the shutdown flag, that *)
(* every record is written, failed, evicted or dropped and counted as that, *)
(* that the writer is given them in order and the queue is empty when the  *)
(* worker stops, that a barrier answered Ok while a handle is left is on   *)
(* durable records, and that all of this implements SinkContract.          *)
(*                                                                         *)
(* Type correctness is not inductive: evicting the oldest record needs one *)
(* to be there, which holds because the queue was full when its lock was   *)
(* taken and nobody else changes it.  So exclusion is proved with it.      *)
(*                                                                         *)
(* The rest follows from SinkInv, which says where each record is: along   *)
(* one line of increasing sequences from the writer over the worker's hand *)
(* to the queue, or in one of the two sets of the lost.                    *)
(***************************************************************************)
EXTENDS AsyncSink, FiniteSetTheorems, TLAPS

\* The steps at which a thread, or the worker, holds the queue's lock.
HoldingSteps == {"emitRoom", "emitOverwrite", "flushRead"}
WorkerHoldingSteps == {"pop", "park", "stopCheck"}

\* The lock's owner is the one inside a critical section of the queue.
QueueExclusion ==
    /\ \A t \in Threads : pc[t] \in HoldingSteps <=> queueLock = t
    /\ wpc \in WorkerHoldingSteps <=> queueLock = Worker

\* An emit that found the queue full finds a record to evict.
OldestIsThere ==
    \A t \in Threads :
        /\ pc[t] \in {"emitTryLock", "emitRoom"} => Capacity > 0
        /\ pc[t] = "emitOverwrite" => events # <<>>

\* The worker decides to sleep on an empty queue that is not shut down.
SleepIsJustified ==
    wpc = "park" => events = <<>> /\ ~shutdown

Safe == TypeOK /\ QueueExclusion /\ OldestIsThere
IInv == Safe /\ SleepIsJustified /\ ParkedWorkerIsOwedAWake

-----------------------------------------------------------------------------
(* Type correctness and exclusion *)

\* The initial state is safe.
LEMMA SafeInit == Init => Safe
<1> SUFFICES ASSUME Init PROVE Safe
  OBVIOUS
<1>1. TypeOK
  <2>1. stats \in StatsRecord /\ calls \in CallsRecord
    BY DEF Init, StatsRecord, CallsRecord
  <2>2. barrier \in [Threads -> BarrierRecord]
    BY DEF Init, BarrierRecord
  <2>3. /\ pc \in [Threads -> ThreadSteps] /\ wpc \in WorkerSteps
        /\ mode \in [Threads -> {"wait", "poll", "repoll"}]
        /\ seen \in [Threads -> Nat]
    BY DEF Init, ThreadSteps, WorkerSteps
  <2>4. events \in Seq(Nat) /\ written \in Seq(Nat)
    BY DEF Init
  <2> QED
    BY <2>1, <2>2, <2>3, <2>4 DEF Init, TypeOK
<1>2. QueueExclusion
  BY ThreadsAssumption DEF Init, QueueExclusion, HoldingSteps, WorkerHoldingSteps
<1>3. OldestIsThere
  BY DEF Init, OldestIsThere
<1> QED  BY <1>1, <1>2, <1>3 DEF Safe

\* What emit and the worker add to the counters are numbers.
LEMMA CounterTypes ==
    ASSUME stats \in StatsRecord, calls \in CallsRecord
    PROVE  /\ CountDropped => stats' \in StatsRecord
           /\ CountWriteError => stats' \in StatsRecord
           /\ \A n \in Nat : [stats EXCEPT !.accepted = @ + 1, !.overwritten = @ + n]
                               \in StatsRecord
           /\ [calls EXCEPT !.emit = @ + 1] \in CallsRecord
           /\ [calls EXCEPT !.flush = @ + 1] \in CallsRecord
<1>1. CountDropped => stats' \in StatsRecord
  BY DEF StatsRecord, CountDropped
<1>2. CountWriteError => stats' \in StatsRecord
  BY DEF StatsRecord, CountWriteError
<1>3. \A n \in Nat : [stats EXCEPT !.accepted = @ + 1, !.overwritten = @ + n]
                       \in StatsRecord
  <2> SUFFICES ASSUME NEW n \in Nat
               PROVE  [stats EXCEPT !.accepted = @ + 1, !.overwritten = @ + n]
                         \in StatsRecord
    OBVIOUS
  <2> DEFINE x == stats.accepted + 1
  <2> DEFINE y == stats.overwritten + n
  <2>1. x \in Nat /\ y \in Nat
    BY DEF StatsRecord
  <2> HIDE DEF x, y
  <2>2. [stats EXCEPT !.accepted = x, !.overwritten = y] \in StatsRecord
    BY <2>1 DEF StatsRecord
  <2> QED  BY <2>2 DEF x, y
<1>4. /\ [calls EXCEPT !.emit = @ + 1] \in CallsRecord
      /\ [calls EXCEPT !.flush = @ + 1] \in CallsRecord
  BY DEF CallsRecord
<1> QED  BY <1>1, <1>2, <1>3, <1>4

\* Answering, opening and retargeting a barrier.
LEMMA BarrierTypes ==
    ASSUME barrier \in [Threads -> BarrierRecord], NEW t \in Threads
    PROVE  /\ \A answer \in Answers \cup {"open"} :
                 [barrier EXCEPT ![t].answer = answer] \in [Threads -> BarrierRecord]
           /\ \A target \in Nat :
                 [barrier EXCEPT ![t] = [target |-> target, answer |-> "none"]]
                    \in [Threads -> BarrierRecord]
BY DEF BarrierRecord, Answers

\* Pushing a record: the queue stays a queue and a refusal is counted.
LEMMA PushTypes ==
    ASSUME TypeOK, NEW t \in Threads, NEW room \in Seq(Nat),
           NEW lost \in SUBSET Nat, Cardinality(lost) \in Nat,
           EmitPush(t, room, lost)
    PROVE  /\ nextSequence' \in Nat /\ events' \in Seq(Nat)
           /\ evicted' \subseteq Nat /\ stats' \in StatsRecord
           /\ queueLock' = Nobody
           /\ pc' \in [Threads -> ThreadSteps]
<1>1. stats' \in StatsRecord
  BY CounterTypes DEF EmitPush, TypeOK
<1>2. nextSequence' \in Nat /\ events' \in Seq(Nat)
  <2>1. nextSequence + 1 \in Nat
    BY DEF TypeOK
  <2> QED  BY <2>1 DEF EmitPush
<1>4. evicted' \subseteq Nat /\ queueLock' = Nobody
  BY DEF EmitPush, TypeOK
<1>3. pc' \in [Threads -> ThreadSteps]
  BY DEF EmitPush, TypeOK, Goto, ThreadSteps
<1> QED  BY <1>1, <1>2, <1>3, <1>4

\* Every step keeps the state well typed.
LEMMA TypeNext ==
    ASSUME Safe, [Next]_vars
    PROVE  TypeOK'
<1> USE DEF Safe, TypeOK, ThreadSteps, WorkerSteps,
           queueVars, flushVars, errorVars, barrierVars,
        writerVars, workerVars, Goto
<1>1. ASSUME NEW t \in Threads, CallStep(t)
      PROVE  TypeOK'
  <2>1. CASE EmitTryLock(t)
    <3>1. stats' \in StatsRecord
      BY <2>1, CounterTypes DEF EmitTryLock
    <3>2. queueLock' \in Threads \cup {Worker, Nobody} /\ pc' \in [Threads -> ThreadSteps]
      BY <2>1 DEF EmitTryLock
    <3> QED  BY <2>1, <3>1, <3>2 DEF EmitTryLock
  <2>2. CASE EmitRoom(t)
    <3>1. CASE ~Full /\ EmitPush(t, events, {}) /\ UNCHANGED seen
      <4>1. Cardinality({}) \in Nat
        BY FS_EmptySet
      <4>2. /\ nextSequence' \in Nat /\ events' \in Seq(Nat) /\ stats' \in StatsRecord
            /\ evicted' \subseteq Nat /\ queueLock' = Nobody
            /\ pc' \in [Threads -> ThreadSteps]
        <5> HIDE DEF TypeOK, ThreadSteps, Goto
        <5>1. TypeOK /\ events \in Seq(Nat) /\ {} \in SUBSET Nat
          BY DEF Safe, TypeOK
        <5> QED  BY <3>1, <4>1, <5>1, PushTypes
      <4> QED  BY <2>2, <3>1, <4>2 DEF EmitRoom
    <3>2. CASE EmitRefuse(t) /\ UNCHANGED seen
      <4>1. stats' \in StatsRecord
        BY <3>2, CounterTypes DEF EmitRefuse
      <4> QED  BY <2>2, <3>2, <4>1 DEF EmitRoom, EmitRefuse
    <3>3. CASE /\ seen' = [seen EXCEPT ![t] = requested]
               /\ Goto(t, "emitOverwrite")
               /\ UNCHANGED <<events, queueLock, nextSequence, evicted, stats>>
      BY <2>2, <3>3 DEF EmitRoom
    <3> QED  BY <2>2, <3>1, <3>2, <3>3 DEF EmitRoom
  <2>3. CASE EmitOverwrite(t)
    <3>1. CASE EmitPush(t, Tail(events), {Head(events)})
      <4>1. events # <<>>
        BY <2>3 DEF EmitOverwrite, OldestIsThere
      <4>2. Tail(events) \in Seq(Nat) /\ {Head(events)} \in SUBSET Nat
        BY <4>1
      <4>3. Cardinality({Head(events)}) = 1
        BY FS_Singleton
      <4>4. Cardinality({Head(events)}) \in Nat
        BY <4>3
      <4>5. /\ nextSequence' \in Nat /\ events' \in Seq(Nat) /\ stats' \in StatsRecord
            /\ evicted' \subseteq Nat /\ queueLock' = Nobody
            /\ pc' \in [Threads -> ThreadSteps]
        <5> HIDE DEF TypeOK, ThreadSteps, Goto
        <5>1. TypeOK
          BY DEF Safe
        <5> QED  BY <3>1, <4>2, <4>4, <5>1, PushTypes
      <4> QED  BY <2>3, <4>5 DEF EmitOverwrite
    <3>2. CASE EmitRefuse(t)
      <4>1. stats' \in StatsRecord
        BY <3>2, CounterTypes DEF EmitRefuse
      <4> QED  BY <2>3, <3>2, <4>1 DEF EmitOverwrite, EmitRefuse
    <3> QED  BY <2>3, <3>1, <3>2 DEF EmitOverwrite
  <2>4. CASE EmitNotify(t)
    BY <2>4 DEF EmitNotify, NotifyWork
  <2>5. CASE FlushLock(t)
    BY <2>5 DEF FlushLock
  <2>6. CASE FlushRead(t)
    <3>1. FlushTarget \in Nat
      BY DEF FlushTarget
    <3>2. barrier' \in [Threads -> BarrierRecord]
      BY <2>6, <3>1, BarrierTypes DEF FlushRead
    <3> QED  BY <2>6, <3>2 DEF FlushRead
  <2>7. CASE FlushPublish(t)
    <3>1. requested' \in Nat
      BY <2>7 DEF FlushPublish, RaiseRequest, BarrierRecord
    <3>2. pc' \in [Threads -> ThreadSteps]
      BY <2>7 DEF FlushPublish
    <3> HIDE DEF ThreadSteps, WorkerSteps, Goto
    <3> QED  BY <2>7, <3>1, <3>2 DEF FlushPublish
  <2>8. CASE FlushNotify(t)
    BY <2>8, BarrierTypes DEF FlushNotify, NotifyWork
  <2>9. CASE WaitLock(t)
    BY <2>9 DEF WaitLock
  <2>10. CASE ResultFlushed(t)
    BY <2>10 DEF ResultFlushed
  <2>11. CASE ResultStopped(t)
    <3>1. CASE Answer(t, "broken")
      <4>1. barrier' \in [Threads -> BarrierRecord]
        BY <3>1, BarrierTypes DEF Answer, Answers
      <4>2. /\ mode' \in [Threads -> {"wait", "poll", "repoll"}]
            /\ progressLock' \in Threads \cup {Nobody} /\ pc' \in [Threads -> ThreadSteps]
        BY <3>1 DEF Answer
      <4> QED  BY <2>11, <4>1, <4>2 DEF ResultStopped
    <3>2. CASE ~Answer(t, "broken")
      <4>1. barrier' = barrier
        BY <2>11, <3>2 DEF ResultStopped
      <4>2. mode' \in [Threads -> {"wait", "poll", "repoll"}]
        BY <2>11, <3>2 DEF ResultStopped
      <4>3. progressLock' \in Threads \cup {Nobody} /\ pc' \in [Threads -> ThreadSteps]
        BY <2>11, <3>2 DEF ResultStopped
      <4> QED  BY <2>11, <4>1, <4>2, <4>3 DEF ResultStopped
    <3> QED  BY <3>1, <3>2
  <2>12. CASE ResultErrors(t)
    <3>1. PICK answer \in Answers : Answer(t, answer)
      BY <2>12 DEF ResultErrors, Answers
    <3>2. UNCHANGED <<queueVars, flushVars, errorVars, workerVars, stats, seen,
                      wakers, handles, calls>>
      BY <2>12 DEF ResultErrors
    <3>3. barrier' \in [Threads -> BarrierRecord]
      BY <3>1, BarrierTypes DEF Answer
    <3>4. /\ mode' \in [Threads -> {"wait", "poll", "repoll"}]
          /\ progressLock' \in Threads \cup {Nobody} /\ pc' \in [Threads -> ThreadSteps]
      BY <3>1 DEF Answer
    <3> QED  BY <3>2, <3>3, <3>4
  <2>13. CASE PollRegister(t)
    BY <2>13 DEF PollRegister
  <2>14. CASE DropShutdown(t)
    BY <2>14 DEF DropShutdown
  <2>15. CASE DropRequest(t)
    BY <2>15 DEF DropRequest
  <2>16. CASE DropNotify(t)
    BY <2>16 DEF DropNotify, NotifyWork
  <2>17. CASE DropJoin(t)
    BY <2>17 DEF DropJoin
  <2> QED
    BY <1>1, <2>1, <2>2, <2>3, <2>4, <2>5, <2>6, <2>7, <2>8, <2>9, <2>10,
       <2>11, <2>12, <2>13, <2>14, <2>15, <2>16, <2>17 DEF CallStep
<1>2. ASSUME NEW t \in Threads, CallStart(t)
      PROVE  TypeOK'
  <2>1. CASE EmitStart(t)
    <3>1. stats' \in StatsRecord /\ calls' \in CallsRecord
      BY <2>1, CounterTypes DEF EmitStart
    <3>2. pc' \in [Threads -> ThreadSteps]
      BY <2>1 DEF EmitStart
    <3> HIDE DEF ThreadSteps, WorkerSteps, Goto
    <3> QED  BY <2>1, <3>1, <3>2 DEF EmitStart
  <2>2. CASE FlushStart(t)
    <3>1. calls' \in CallsRecord
      BY <2>2, CounterTypes DEF FlushStart
    <3>2. pc' \in [Threads -> ThreadSteps]
      BY <2>2 DEF FlushStart
    <3> HIDE DEF ThreadSteps, WorkerSteps, Goto
    <3> QED  BY <2>2, <3>1, <3>2 DEF FlushStart
  <2>3. CASE WaitStart(t)
    BY <2>3 DEF WaitStart
  <2>4. CASE PollStart(t)
    BY <2>4 DEF PollStart
  <2>5. CASE ReleaseHandle(t)
    BY <2>5 DEF ReleaseHandle
  <2> QED
    BY <1>2, <2>1, <2>2, <2>3, <2>4, <2>5 DEF CallStart
<1>3. CASE WorkerStep
  <2>1. CASE WorkerLock
    BY <2>1 DEF WorkerLock
  <2>2. CASE WorkerPop
    <3>1. CASE events # <<>> /\ cur' = Head(events) /\ events' = Tail(events)
      <4>1. cur' \in Nat /\ events' \in Seq(Nat)
        BY <3>1
      <4> QED  BY <2>2, <4>1, <3>1 DEF WorkerPop
    <3>2. CASE UNCHANGED <<cur, events>>
      BY <2>2, <3>2 DEF WorkerPop
    <3> QED  BY <2>2, <3>1, <3>2 DEF WorkerPop
  <2>3. CASE WorkerPark
    BY <2>3 DEF WorkerPark
  <2>4. CASE WorkerWrite
    <3>1. CASE written' = Append(written, cur) /\ UNCHANGED <<failed, writeError, stats>>
      <4>1. written' \in Seq(Nat)
        BY <3>1
      <4> QED  BY <2>4, <3>1, <4>1 DEF WorkerWrite
    <3>2. CASE /\ failed' = failed \cup {cur} /\ CountWriteError
               /\ writeError' = IF writeError = 0 THEN cur ELSE writeError
               /\ UNCHANGED written
      <4>1. stats' \in StatsRecord
        BY <3>2, CounterTypes
      <4>2. failed' \subseteq Nat /\ writeError' \in Nat /\ UNCHANGED written
        BY <3>2
      <4> QED  BY <2>4, <4>1, <4>2 DEF WorkerWrite
    <3> QED  BY <2>4, <3>1, <3>2 DEF WorkerWrite
  <2>5. CASE WorkerCheck
    BY <2>5 DEF WorkerCheck
  <2>6. CASE WorkerFlush
    <3>1. stats' \in StatsRecord
      BY <2>6, CounterTypes DEF WorkerFlush
    <3>2. durable' \in Nat /\ flushError' \in Nat /\ wpc' = "publish"
      BY <2>6 DEF WorkerFlush
    <3> QED  BY <2>6, <3>1, <3>2 DEF WorkerFlush
  <2>7. CASE WorkerPublish
    BY <2>7 DEF WorkerPublish
  <2>8. CASE WorkerNotify
    BY <2>8 DEF WorkerNotify
  <2>9. CASE WorkerWake
    BY <2>9 DEF WorkerWake
  <2>10. CASE WorkerStopLock
    BY <2>10 DEF WorkerStopLock
  <2>11. CASE WorkerStopCheck
    BY <2>11 DEF WorkerStopCheck, ShouldStop
  <2>12. CASE WorkerFinalFlush
    BY <2>12 DEF WorkerFinalFlush
  <2>13. CASE WorkerStop
    BY <2>13 DEF WorkerStop
  <2>14. CASE WriterPanic
    BY <2>14 DEF WriterPanic
  <2>15. CASE WorkerPanicked
    BY <2>15, CounterTypes DEF WorkerPanicked
  <2> QED
    BY <1>3, <2>1, <2>2, <2>3, <2>4, <2>5, <2>6, <2>7, <2>8, <2>9, <2>10,
       <2>11, <2>12, <2>13, <2>14, <2>15 DEF WorkerStep
<1>4. CASE WorkerSpuriousWake \/ \E t \in Threads : WaitSpuriousWake(t)
  <2>1. CASE WorkerSpuriousWake
    BY <2>1 DEF WorkerSpuriousWake
  <2>2. ASSUME NEW t \in Threads, WaitSpuriousWake(t)
        PROVE  TypeOK'
    BY <2>2 DEF WaitSpuriousWake
  <2> QED  BY <1>4, <2>1, <2>2
<1>5. CASE UNCHANGED vars
  BY <1>5 DEF vars
<1> QED  BY <1>1, <1>2, <1>3, <1>4, <1>5 DEF Next

\* The lock is taken when it is free and released by its owner.
LEMMA ExclusionNext ==
    ASSUME Safe, [Next]_vars
    PROVE  QueueExclusion'
<1>0. pc \in [Threads -> ThreadSteps] /\ QueueExclusion
  BY DEF Safe, TypeOK
<1> USE <1>0, ThreadsAssumption
    DEF QueueExclusion, HoldingSteps, WorkerHoldingSteps,
        queueVars, flushVars, errorVars, barrierVars,
        writerVars, workerVars, Goto
<1>1. ASSUME NEW t \in Threads, CallStep(t)
      PROVE  QueueExclusion'
  <2>1. CASE EmitTryLock(t)
    BY <2>1 DEF EmitTryLock, CountDropped
  <2>2. CASE EmitRoom(t)
    BY <2>2 DEF EmitRoom, EmitPush, EmitRefuse, CountDropped, Full
  <2>3. CASE EmitOverwrite(t)
    BY <2>3 DEF EmitOverwrite, EmitPush, EmitRefuse, CountDropped
  <2>4. CASE EmitNotify(t)
    BY <2>4 DEF EmitNotify, NotifyWork
  <2>5. CASE FlushLock(t)
    BY <2>5 DEF FlushLock
  <2>6. CASE FlushRead(t)
    BY <2>6 DEF FlushRead, FlushTarget
  <2>7. CASE FlushPublish(t)
    BY <2>7 DEF FlushPublish, RaiseRequest
  <2>8. CASE FlushNotify(t)
    BY <2>8 DEF FlushNotify, NotifyWork
  <2>9. CASE WaitLock(t)
    BY <2>9 DEF WaitLock
  <2>10. CASE ResultFlushed(t)
    BY <2>10 DEF ResultFlushed
  <2>11. CASE ResultStopped(t)
    BY <2>11 DEF ResultStopped, Answer
  <2>12. CASE ResultErrors(t)
    BY <2>12 DEF ResultErrors, Answer
  <2>13. CASE PollRegister(t)
    BY <2>13 DEF PollRegister
  <2>14. CASE DropShutdown(t)
    BY <2>14 DEF DropShutdown
  <2>15. CASE DropRequest(t)
    BY <2>15 DEF DropRequest
  <2>16. CASE DropNotify(t)
    BY <2>16 DEF DropNotify, NotifyWork
  <2>17. CASE DropJoin(t)
    BY <2>17 DEF DropJoin
  <2> QED
    BY <1>1, <2>1, <2>2, <2>3, <2>4, <2>5, <2>6, <2>7, <2>8, <2>9, <2>10,
       <2>11, <2>12, <2>13, <2>14, <2>15, <2>16, <2>17 DEF CallStep
<1>2. ASSUME NEW t \in Threads, CallStart(t)
      PROVE  QueueExclusion'
  <2>1. CASE EmitStart(t)
    BY <2>1 DEF EmitStart, CountDropped
  <2>2. CASE FlushStart(t)
    BY <2>2 DEF FlushStart
  <2>3. CASE WaitStart(t)
    BY <2>3 DEF WaitStart
  <2>4. CASE PollStart(t)
    BY <2>4 DEF PollStart
  <2>5. CASE ReleaseHandle(t)
    BY <2>5 DEF ReleaseHandle
  <2> QED
    BY <1>2, <2>1, <2>2, <2>3, <2>4, <2>5 DEF CallStart
<1>3. CASE WorkerStep
  <2>1. CASE WorkerLock
    BY <2>1 DEF WorkerLock
  <2>2. CASE WorkerPop
    BY <2>2 DEF WorkerPop
  <2>3. CASE WorkerPark
    BY <2>3 DEF WorkerPark
  <2>4. CASE WorkerWrite
    BY <2>4 DEF WorkerWrite, CountWriteError
  <2>5. CASE WorkerCheck
    BY <2>5 DEF WorkerCheck
  <2>6. CASE WorkerFlush
    BY <2>6 DEF WorkerFlush, CountWriteError
  <2>7. CASE WorkerPublish
    BY <2>7 DEF WorkerPublish
  <2>8. CASE WorkerNotify
    BY <2>8 DEF WorkerNotify
  <2>9. CASE WorkerWake
    BY <2>9 DEF WorkerWake
  <2>10. CASE WorkerStopLock
    BY <2>10 DEF WorkerStopLock
  <2>11. CASE WorkerStopCheck
    BY <2>11 DEF WorkerStopCheck, ShouldStop
  <2>12. CASE WorkerFinalFlush
    BY <2>12 DEF WorkerFinalFlush
  <2>13. CASE WorkerStop
    BY <2>13 DEF WorkerStop
  <2>14. CASE WriterPanic
    BY <2>14 DEF WriterPanic
  <2>15. CASE WorkerPanicked
    BY <2>15 DEF WorkerPanicked, CountWriteError
  <2> QED
    BY <1>3, <2>1, <2>2, <2>3, <2>4, <2>5, <2>6, <2>7, <2>8, <2>9, <2>10,
       <2>11, <2>12, <2>13, <2>14, <2>15 DEF WorkerStep
<1>4. CASE WorkerSpuriousWake \/ \E t \in Threads : WaitSpuriousWake(t)
  BY <1>4 DEF WorkerSpuriousWake, WaitSpuriousWake
<1>5. CASE UNCHANGED vars
  BY <1>5 DEF vars
<1> QED  BY <1>1, <1>2, <1>3, <1>4, <1>5 DEF Next

\* Nobody takes a record from under an emit that is about to evict it.
LEMMA OldestNext ==
    ASSUME Safe, [Next]_vars
    PROVE  OldestIsThere'
<1>0. /\ pc \in [Threads -> ThreadSteps] /\ events \in Seq(Nat)
      /\ QueueExclusion /\ OldestIsThere
  BY DEF Safe, TypeOK
<1> USE <1>0, ThreadsAssumption, CapacityAssumption
    DEF QueueExclusion, OldestIsThere, HoldingSteps,
        WorkerHoldingSteps, queueVars, flushVars, errorVars, barrierVars,
        writerVars, workerVars, Goto
<1>1. ASSUME NEW t \in Threads, CallStep(t)
      PROVE  OldestIsThere'
  <2>1. CASE EmitTryLock(t)
    BY <2>1 DEF EmitTryLock, CountDropped
  <2>2. CASE EmitRoom(t)
    BY <2>2 DEF EmitRoom, EmitPush, EmitRefuse, CountDropped, Full
  <2>3. CASE EmitOverwrite(t)
    BY <2>3 DEF EmitOverwrite, EmitPush, EmitRefuse, CountDropped
  <2>4. CASE EmitNotify(t)
    BY <2>4 DEF EmitNotify, NotifyWork
  <2>5. CASE FlushLock(t)
    BY <2>5 DEF FlushLock
  <2>6. CASE FlushRead(t)
    BY <2>6 DEF FlushRead, FlushTarget
  <2>7. CASE FlushPublish(t)
    BY <2>7 DEF FlushPublish, RaiseRequest
  <2>8. CASE FlushNotify(t)
    BY <2>8 DEF FlushNotify, NotifyWork
  <2>9. CASE WaitLock(t)
    BY <2>9 DEF WaitLock
  <2>10. CASE ResultFlushed(t)
    BY <2>10 DEF ResultFlushed
  <2>11. CASE ResultStopped(t)
    BY <2>11 DEF ResultStopped, Answer
  <2>12. CASE ResultErrors(t)
    BY <2>12 DEF ResultErrors, Answer
  <2>13. CASE PollRegister(t)
    BY <2>13 DEF PollRegister
  <2>14. CASE DropShutdown(t)
    BY <2>14 DEF DropShutdown
  <2>15. CASE DropRequest(t)
    BY <2>15 DEF DropRequest
  <2>16. CASE DropNotify(t)
    BY <2>16 DEF DropNotify, NotifyWork
  <2>17. CASE DropJoin(t)
    BY <2>17 DEF DropJoin
  <2> QED
    BY <1>1, <2>1, <2>2, <2>3, <2>4, <2>5, <2>6, <2>7, <2>8, <2>9, <2>10,
       <2>11, <2>12, <2>13, <2>14, <2>15, <2>16, <2>17 DEF CallStep
<1>2. ASSUME NEW t \in Threads, CallStart(t)
      PROVE  OldestIsThere'
  <2>1. CASE EmitStart(t)
    BY <2>1 DEF EmitStart, CountDropped
  <2>2. CASE FlushStart(t)
    BY <2>2 DEF FlushStart
  <2>3. CASE WaitStart(t)
    BY <2>3 DEF WaitStart
  <2>4. CASE PollStart(t)
    BY <2>4 DEF PollStart
  <2>5. CASE ReleaseHandle(t)
    BY <2>5 DEF ReleaseHandle
  <2> QED
    BY <1>2, <2>1, <2>2, <2>3, <2>4, <2>5 DEF CallStart
<1>3. CASE WorkerStep
  <2>1. CASE WorkerLock
    BY <2>1 DEF WorkerLock
  <2>2. CASE WorkerPop
    BY <2>2 DEF WorkerPop
  <2>3. CASE WorkerPark
    BY <2>3 DEF WorkerPark
  <2>4. CASE WorkerWrite
    BY <2>4 DEF WorkerWrite, CountWriteError
  <2>5. CASE WorkerCheck
    BY <2>5 DEF WorkerCheck
  <2>6. CASE WorkerFlush
    BY <2>6 DEF WorkerFlush, CountWriteError
  <2>7. CASE WorkerPublish
    BY <2>7 DEF WorkerPublish
  <2>8. CASE WorkerNotify
    BY <2>8 DEF WorkerNotify
  <2>9. CASE WorkerWake
    BY <2>9 DEF WorkerWake
  <2>10. CASE WorkerStopLock
    BY <2>10 DEF WorkerStopLock
  <2>11. CASE WorkerStopCheck
    BY <2>11 DEF WorkerStopCheck, ShouldStop
  <2>12. CASE WorkerFinalFlush
    BY <2>12 DEF WorkerFinalFlush
  <2>13. CASE WorkerStop
    BY <2>13 DEF WorkerStop
  <2>14. CASE WriterPanic
    BY <2>14 DEF WriterPanic
  <2>15. CASE WorkerPanicked
    BY <2>15 DEF WorkerPanicked, CountWriteError
  <2> QED
    BY <1>3, <2>1, <2>2, <2>3, <2>4, <2>5, <2>6, <2>7, <2>8, <2>9, <2>10,
       <2>11, <2>12, <2>13, <2>14, <2>15 DEF WorkerStep
<1>4. CASE WorkerSpuriousWake \/ \E t \in Threads : WaitSpuriousWake(t)
  BY <1>4 DEF WorkerSpuriousWake, WaitSpuriousWake
<1>5. CASE UNCHANGED vars
  BY <1>5 DEF vars
<1> QED  BY <1>1, <1>2, <1>3, <1>4, <1>5 DEF Next

LEMMA SafeNext == Safe /\ [Next]_vars => Safe'
BY TypeNext, ExclusionNext, OldestNext DEF Safe

\* Every variable keeps its type under every interleaving and writer fault.
THEOREM TypeCorrect == Spec => []TypeOK
<1>1. Init => Safe
  BY SafeInit
<1>2. Safe /\ [Next]_vars => Safe'
  BY SafeNext
<1>3. Safe => TypeOK
  BY DEF Safe
<1> QED  BY <1>1, <1>2, <1>3, PTL DEF Spec

-----------------------------------------------------------------------------
(* The worker's sleep *)

\* While the worker is between its last look and its wait it holds the lock.
LEMMA SleepNext ==
    ASSUME Safe, SleepIsJustified, [Next]_vars
    PROVE  SleepIsJustified'
<1> USE ThreadsAssumption
    DEF Safe, QueueExclusion, HoldingSteps, WorkerHoldingSteps,
        SleepIsJustified, queueVars, flushVars, errorVars, barrierVars,
        writerVars, workerVars, Goto
<1>1. ASSUME NEW t \in Threads, CallStep(t)
      PROVE  SleepIsJustified'
  <2>1. CASE EmitTryLock(t)
    BY <2>1 DEF EmitTryLock, CountDropped
  <2>2. CASE EmitRoom(t)
    BY <2>2 DEF EmitRoom, EmitPush, EmitRefuse, CountDropped, Full
  <2>3. CASE EmitOverwrite(t)
    BY <2>3 DEF EmitOverwrite, EmitPush, EmitRefuse, CountDropped
  <2>4. CASE EmitNotify(t)
    BY <2>4 DEF EmitNotify, NotifyWork
  <2>5. CASE FlushLock(t)
    BY <2>5 DEF FlushLock
  <2>6. CASE FlushRead(t)
    BY <2>6 DEF FlushRead, FlushTarget
  <2>7. CASE FlushPublish(t)
    BY <2>7 DEF FlushPublish, RaiseRequest
  <2>8. CASE FlushNotify(t)
    BY <2>8 DEF FlushNotify, NotifyWork
  <2>9. CASE WaitLock(t)
    BY <2>9 DEF WaitLock
  <2>10. CASE ResultFlushed(t)
    BY <2>10 DEF ResultFlushed
  <2>11. CASE ResultStopped(t)
    BY <2>11 DEF ResultStopped, Answer
  <2>12. CASE ResultErrors(t)
    BY <2>12 DEF ResultErrors, Answer
  <2>13. CASE PollRegister(t)
    BY <2>13 DEF PollRegister
  <2>14. CASE DropShutdown(t)
    BY <2>14 DEF DropShutdown
  <2>15. CASE DropRequest(t)
    BY <2>15 DEF DropRequest
  <2>16. CASE DropNotify(t)
    BY <2>16 DEF DropNotify, NotifyWork
  <2>17. CASE DropJoin(t)
    BY <2>17 DEF DropJoin
  <2> QED
    BY <1>1, <2>1, <2>2, <2>3, <2>4, <2>5, <2>6, <2>7, <2>8, <2>9, <2>10,
       <2>11, <2>12, <2>13, <2>14, <2>15, <2>16, <2>17 DEF CallStep
<1>2. ASSUME NEW t \in Threads, CallStart(t)
      PROVE  SleepIsJustified'
  <2>1. CASE EmitStart(t)
    BY <2>1 DEF EmitStart, CountDropped
  <2>2. CASE FlushStart(t)
    BY <2>2 DEF FlushStart
  <2>3. CASE WaitStart(t)
    BY <2>3 DEF WaitStart
  <2>4. CASE PollStart(t)
    BY <2>4 DEF PollStart
  <2>5. CASE ReleaseHandle(t)
    BY <2>5 DEF ReleaseHandle
  <2> QED
    BY <1>2, <2>1, <2>2, <2>3, <2>4, <2>5 DEF CallStart
<1>3. CASE WorkerStep
  <2>1. CASE WorkerLock
    BY <2>1 DEF WorkerLock
  <2>2. CASE WorkerPop
    BY <2>2 DEF WorkerPop, MustGoOn
  <2>3. CASE WorkerPark
    BY <2>3 DEF WorkerPark
  <2>4. CASE WorkerWrite
    BY <2>4 DEF WorkerWrite, CountWriteError
  <2>5. CASE WorkerCheck
    BY <2>5 DEF WorkerCheck
  <2>6. CASE WorkerFlush
    BY <2>6 DEF WorkerFlush, CountWriteError
  <2>7. CASE WorkerPublish
    BY <2>7 DEF WorkerPublish
  <2>8. CASE WorkerNotify
    BY <2>8 DEF WorkerNotify
  <2>9. CASE WorkerWake
    BY <2>9 DEF WorkerWake
  <2>10. CASE WorkerStopLock
    BY <2>10 DEF WorkerStopLock
  <2>11. CASE WorkerStopCheck
    BY <2>11 DEF WorkerStopCheck, ShouldStop
  <2>12. CASE WorkerFinalFlush
    BY <2>12 DEF WorkerFinalFlush
  <2>13. CASE WorkerStop
    BY <2>13 DEF WorkerStop
  <2>14. CASE WriterPanic
    BY <2>14 DEF WriterPanic
  <2>15. CASE WorkerPanicked
    BY <2>15 DEF WorkerPanicked, CountWriteError
  <2> QED
    BY <1>3, <2>1, <2>2, <2>3, <2>4, <2>5, <2>6, <2>7, <2>8, <2>9, <2>10,
       <2>11, <2>12, <2>13, <2>14, <2>15 DEF WorkerStep
<1>4. CASE WorkerSpuriousWake \/ \E t \in Threads : WaitSpuriousWake(t)
  BY <1>4 DEF WorkerSpuriousWake, WaitSpuriousWake
<1>5. CASE UNCHANGED vars
  BY <1>5 DEF vars
<1> QED  BY <1>1, <1>2, <1>3, <1>4, <1>5 DEF Next

\* Whoever makes the worker's sleep unjustified has a notify_one to do.
LEMMA WakeNext ==
    ASSUME Safe, SleepIsJustified, ParkedWorkerIsOwedAWake, [Next]_vars
    PROVE  ParkedWorkerIsOwedAWake'
<1> USE DEF Safe, TypeOK, SleepIsJustified, ParkedWorkerIsOwedAWake,
           queueVars, flushVars, errorVars, barrierVars,
        writerVars, workerVars, Goto
<1>1. ASSUME NEW t \in Threads, CallStep(t)
      PROVE  ParkedWorkerIsOwedAWake'
  <2>1. CASE EmitTryLock(t)
    BY <2>1 DEF EmitTryLock, CountDropped
  <2>2. CASE EmitRoom(t)
    BY <2>2 DEF EmitRoom, EmitPush, EmitRefuse, CountDropped, Full
  <2>3. CASE EmitOverwrite(t)
    BY <2>3 DEF EmitOverwrite, EmitPush, EmitRefuse, CountDropped
  <2>4. CASE EmitNotify(t)
    BY <2>4 DEF EmitNotify, NotifyWork
  <2>5. CASE FlushLock(t)
    BY <2>5 DEF FlushLock
  <2>6. CASE FlushRead(t)
    BY <2>6 DEF FlushRead, FlushTarget
  <2>7. CASE FlushPublish(t)
    BY <2>7 DEF FlushPublish, RaiseRequest
  <2>8. CASE FlushNotify(t)
    BY <2>8 DEF FlushNotify, NotifyWork
  <2>9. CASE WaitLock(t)
    BY <2>9 DEF WaitLock
  <2>10. CASE ResultFlushed(t)
    BY <2>10 DEF ResultFlushed
  <2>11. CASE ResultStopped(t)
    BY <2>11 DEF ResultStopped, Answer
  <2>12. CASE ResultErrors(t)
    BY <2>12 DEF ResultErrors, Answer
  <2>13. CASE PollRegister(t)
    BY <2>13 DEF PollRegister
  <2>14. CASE DropShutdown(t)
    BY <2>14 DEF DropShutdown
  <2>15. CASE DropRequest(t)
    BY <2>15 DEF DropRequest
  <2>16. CASE DropNotify(t)
    BY <2>16 DEF DropNotify, NotifyWork
  <2>17. CASE DropJoin(t)
    BY <2>17 DEF DropJoin
  <2> QED
    BY <1>1, <2>1, <2>2, <2>3, <2>4, <2>5, <2>6, <2>7, <2>8, <2>9, <2>10,
       <2>11, <2>12, <2>13, <2>14, <2>15, <2>16, <2>17 DEF CallStep
<1>2. ASSUME NEW t \in Threads, CallStart(t)
      PROVE  ParkedWorkerIsOwedAWake'
  <2>1. CASE EmitStart(t)
    BY <2>1 DEF EmitStart, CountDropped
  <2>2. CASE FlushStart(t)
    BY <2>2 DEF FlushStart
  <2>3. CASE WaitStart(t)
    BY <2>3 DEF WaitStart
  <2>4. CASE PollStart(t)
    BY <2>4 DEF PollStart
  <2>5. CASE ReleaseHandle(t)
    BY <2>5 DEF ReleaseHandle
  <2> QED
    BY <1>2, <2>1, <2>2, <2>3, <2>4, <2>5 DEF CallStart
<1>3. CASE WorkerStep
  <2>1. CASE WorkerLock
    BY <2>1 DEF WorkerLock
  <2>2. CASE WorkerPop
    BY <2>2 DEF WorkerPop
  <2>3. CASE WorkerPark
    BY <2>3 DEF WorkerPark
  <2>4. CASE WorkerWrite
    BY <2>4 DEF WorkerWrite, CountWriteError
  <2>5. CASE WorkerCheck
    BY <2>5 DEF WorkerCheck
  <2>6. CASE WorkerFlush
    BY <2>6 DEF WorkerFlush, CountWriteError
  <2>7. CASE WorkerPublish
    BY <2>7 DEF WorkerPublish
  <2>8. CASE WorkerNotify
    BY <2>8 DEF WorkerNotify
  <2>9. CASE WorkerWake
    BY <2>9 DEF WorkerWake
  <2>10. CASE WorkerStopLock
    BY <2>10 DEF WorkerStopLock
  <2>11. CASE WorkerStopCheck
    BY <2>11 DEF WorkerStopCheck, ShouldStop
  <2>12. CASE WorkerFinalFlush
    BY <2>12 DEF WorkerFinalFlush
  <2>13. CASE WorkerStop
    BY <2>13 DEF WorkerStop
  <2>14. CASE WriterPanic
    BY <2>14 DEF WriterPanic
  <2>15. CASE WorkerPanicked
    BY <2>15 DEF WorkerPanicked, CountWriteError
  <2> QED
    BY <1>3, <2>1, <2>2, <2>3, <2>4, <2>5, <2>6, <2>7, <2>8, <2>9, <2>10,
       <2>11, <2>12, <2>13, <2>14, <2>15 DEF WorkerStep
<1>4. CASE WorkerSpuriousWake \/ \E t \in Threads : WaitSpuriousWake(t)
  BY <1>4 DEF WorkerSpuriousWake, WaitSpuriousWake
<1>5. CASE UNCHANGED vars
  BY <1>5 DEF vars
<1> QED  BY <1>1, <1>2, <1>3, <1>4, <1>5 DEF Next

\* Condvar::notify_one is never lost for a record or for the shutdown flag.
\* (It can be for a flush: see FlushBlockingReturns.)
THEOREM WorkerIsOwedAWake == Spec => []ParkedWorkerIsOwedAWake
<1>1. Init => IInv
  BY SafeInit DEF Init, IInv, SleepIsJustified, ParkedWorkerIsOwedAWake
<1>2. IInv /\ [Next]_vars => IInv'
  BY SafeNext, SleepNext, WakeNext DEF IInv
<1>3. IInv => ParkedWorkerIsOwedAWake
  BY DEF IInv
<1> QED  BY <1>1, <1>2, <1>3, PTL DEF Spec

\* At most one thread, the worker included, is in a critical section of the
\* queue.
THEOREM QueueLockExcludes == Spec => []QueueExclusion
<1>1. Init => Safe
  BY SafeInit
<1>2. Safe /\ [Next]_vars => Safe'
  BY SafeNext
<1>3. Safe => QueueExclusion
  BY DEF Safe
<1> QED  BY <1>1, <1>2, <1>3, PTL DEF Spec
-----------------------------------------------------------------------------
(* What the queue, the worker and the barriers hold, whoever moves them.     *)
(*                                                                           *)
(* A record's sequence says where it is: processed is behind every record    *)
(* in the worker's hand, that record is behind every queued one, and the     *)
(* newest record is the last of the line.  So a covered barrier has nothing  *)
(* of its own left in the queue, and a queue found empty at shutdown means   *)
(* that every record was handed to the writer.                               *)

EmitSteps == {"emitTryLock", "emitRoom", "emitOverwrite", "emitNotify"}
FlushSteps == {"flushLock", "flushRead", "flushPublish", "flushNotify"}
WaitSteps == {"waitLock", "resultFlushed", "resultStopped", "resultErrors",
              "parked", "register"}
DropSteps == {"dropShutdown", "dropRequest", "dropNotify", "dropJoin"}
LeavingSteps == {"notify", "wake", "done"}

\* Whoever is inside emit or flush owns a handle, and the sink is shut down by
\* the thread that dropped the last one.
HandlesHeld ==
    /\ \A t \in Threads : pc[t] \in EmitSteps \cup FlushSteps => t \in handles
    /\ \A t \in Threads : pc[t] \in DropSteps => handles = {}
    /\ shutdown => handles = {}

\* What a thread's barrier says while the thread is inside a call.
BarrierPhase ==
    /\ \A t \in Threads : pc[t] \in {"flushPublish", "flushNotify"}
                             => barrier[t].answer = "none"
    /\ \A t \in Threads : pc[t] \in WaitSteps => barrier[t].answer = "open"
    /\ \A t \in Threads : pc[t] = "resultErrors" => flushed >= barrier[t].target

\* What the worker holds at each of its steps; flushed follows processed.
WorkerHand ==
    /\ wpc = "write" => cur # 0
    /\ cur # 0 => wpc \in {"write", "panicked"} \/ stopped
    /\ stopped => wpc \in LeavingSteps
    /\ flushed <= processed

\* The order of sequences along the line from the writer to the queue's tail.
Ordered ==
    /\ Increasing(events) /\ Increasing(written)
    /\ \A s \in Elements(events) : processed < s /\ cur < s /\ s <= nextSequence
    /\ \A s \in Elements(events) : \A e \in evicted : e < s
    /\ \A e \in evicted : e <= nextSequence
    /\ cur \notin evicted /\ 0 \notin evicted
    /\ cur # 0 => processed < cur
    /\ cur <= nextSequence /\ processed <= nextSequence
    /\ \A s \in Elements(written) \cup failed : s <= processed

\* The last record numbered is the last of the line.
NewestIsLast ==
    IF events # <<>> THEN events[Len(events)] = nextSequence
    ELSE nextSequence = (IF cur # 0 THEN cur ELSE processed)

\* An emit that found the queue full still finds it full.
RoomKept ==
    /\ Len(events) <= Capacity
    /\ \A t \in Threads : pc[t] = "emitOverwrite" => Len(events) = Capacity

Line == HandlesHeld /\ BarrierPhase /\ WorkerHand /\ Ordered /\ NewestIsLast /\ RoomKept

\* Every record is somewhere, and once; counts of finite sets.
Placed ==
    /\ Elements(events) \cup Elements(InFlight) \cup Elements(written)
          \cup failed \cup evicted = 1..nextSequence
    /\ IsFiniteSet(failed) /\ IsFiniteSet(evicted)
    /\ Len(events) + Len(InFlight) + Len(written)
          + Cardinality(failed) + Cardinality(evicted) = nextSequence

\* The counters of SinkStats count the records and the emits.
Counted ==
    /\ IsFiniteSet(Deciding)
    /\ stats.accepted = nextSequence
    /\ stats.overwritten = Cardinality(evicted)
    /\ stats.accepted + stats.dropped + Cardinality(Deciding) = calls.emit

\* What the writer refused or got wrong, the fourth counter counts.
MishapsCounted ==
    stats.writeErrors + PanicUncounted = Cardinality(failed) + mishaps

\* Until the last handle is dropped, what is flushed is durable or an error
\* that covers it stands.
FlushIsDurable ==
    \/ shutdown
    \/ /\ IF flushError = 0 THEN durable >= flushed ELSE flushError >= flushed
       /\ wpc = "publish" =>
             IF flushError = 0 THEN durable >= processed ELSE flushError >= processed
       /\ wpc \notin {"finalFlush", "stop"}

\* The worker stops on an empty queue that nobody can fill any more.
Drained ==
    /\ wpc \in {"finalFlush", "stop"} => shutdown /\ events = <<>> /\ cur = 0
    /\ wpc = "stop" => flushed = processed
    /\ "panic" \notin Faults =>
          /\ wpc # "panicked"
          /\ stopped => /\ shutdown /\ events = <<>> /\ cur = 0
                        /\ flushed = processed

\* last_write_error is the first record the writer refused.
FirstRefusal ==
    /\ \A s \in failed : writeError # 0 /\ writeError <= s
    /\ writeError # 0 => writeError \in failed

SinkInv ==
    Line /\ Placed /\ Counted /\ MishapsCounted /\ FlushIsDurable /\ Drained /\ FirstRefusal

-----------------------------------------------------------------------------
(* What a step does to the line of records *)

line == <<events, nextSequence, evicted, cur, written, failed, processed, writeError>>

PushedNew ==
    /\ Len(events) # Capacity
    /\ nextSequence' = nextSequence + 1
    /\ events' = Append(events, nextSequence + 1)
    /\ UNCHANGED <<evicted, cur, written, failed, processed, writeError>>

PushedOver ==
    /\ events # <<>>
    /\ nextSequence' = nextSequence + 1
    /\ events' = Append(Tail(events), nextSequence + 1)
    /\ evicted' = evicted \cup {Head(events)}
    /\ UNCHANGED <<cur, written, failed, processed, writeError>>

Popped ==
    /\ events # <<>> /\ cur = 0
    /\ cur' = Head(events) /\ events' = Tail(events)
    /\ UNCHANGED <<nextSequence, evicted, written, failed, processed, writeError>>

Handed ==
    /\ cur # 0 /\ cur' = 0 /\ processed' = cur
    /\ \/ written' = Append(written, cur) /\ UNCHANGED <<failed, writeError>>
       \/ /\ failed' = failed \cup {cur} /\ UNCHANGED written
          /\ writeError' = IF writeError = 0 THEN cur ELSE writeError
    /\ UNCHANGED <<events, nextSequence, evicted>>

\* A thread moves the line by pushing only.
LEMMA ThreadLineStep ==
    ASSUME Safe, NEW t \in Threads, CallStep(t) \/ CallStart(t) \/ WaitSpuriousWake(t)
    PROVE  \/ UNCHANGED line
           \/ (PushedNew \/ PushedOver) /\ pc[t] \in {"emitRoom", "emitOverwrite"}
<1> USE DEF line, queueVars, flushVars, errorVars, writerVars, workerVars
<1>1. CASE EmitTryLock(t) \/ EmitNotify(t)
  BY <1>1 DEF EmitTryLock, EmitNotify, NotifyWork
<1>2. CASE EmitRoom(t)
  <2>1. CASE ~Full /\ EmitPush(t, events, {})
    BY <1>2, <2>1 DEF EmitRoom, EmitPush, Full, PushedNew
  <2>2. CASE EmitRefuse(t)
    BY <1>2, <2>2 DEF EmitRoom, EmitRefuse
  <2>3. CASE UNCHANGED <<events, queueLock, nextSequence, evicted, stats>>
    BY <1>2, <2>3 DEF EmitRoom
  <2> QED  BY <1>2, <2>1, <2>2, <2>3 DEF EmitRoom
<1>3. CASE EmitOverwrite(t)
  <2>1. CASE EmitPush(t, Tail(events), {Head(events)})
    BY <1>3, <2>1 DEF EmitOverwrite, EmitPush, PushedOver, Safe, OldestIsThere
  <2>2. CASE EmitRefuse(t)
    BY <1>3, <2>2 DEF EmitOverwrite, EmitRefuse
  <2> QED  BY <1>3, <2>1, <2>2 DEF EmitOverwrite
<1>4. CASE FlushLock(t) \/ FlushRead(t) \/ FlushPublish(t) \/ FlushNotify(t)
  BY <1>4 DEF FlushLock, FlushRead, FlushPublish, FlushNotify, NotifyWork
<1>5. CASE \/ WaitLock(t) \/ ResultFlushed(t) \/ ResultStopped(t)
           \/ ResultErrors(t) \/ PollRegister(t)
  BY <1>5 DEF WaitLock, ResultFlushed, ResultStopped, ResultErrors, PollRegister
<1>6. CASE DropShutdown(t) \/ DropRequest(t) \/ DropNotify(t) \/ DropJoin(t)
  BY <1>6 DEF DropShutdown, DropRequest, DropNotify, DropJoin, NotifyWork
<1>7. CASE CallStart(t) \/ WaitSpuriousWake(t)
  BY <1>7 DEF CallStart, EmitStart, FlushStart, WaitStart, PollStart,
              ReleaseHandle, WaitSpuriousWake
<1> QED  BY <1>1, <1>2, <1>3, <1>4, <1>5, <1>6, <1>7 DEF CallStep

\* The worker moves it by taking the oldest record and by handing it over.
LEMMA WorkerLineStep ==
    ASSUME WorkerHand, WorkerStep \/ WorkerSpuriousWake
    PROVE  \/ UNCHANGED line
           \/ Popped /\ wpc = "pop" /\ wpc' = "write"
           \/ Handed /\ wpc = "write" /\ wpc' = "check"
<1> USE DEF line, queueVars, flushVars, errorVars, writerVars
<1>1. CASE WorkerPop
  <2>1. cur = 0
    BY <1>1 DEF WorkerPop, WorkerHand, LeavingSteps
  <2> QED  BY <1>1, <2>1 DEF WorkerPop, Popped
<1>2. CASE WorkerWrite
  BY <1>2 DEF WorkerWrite, WorkerHand, Handed
<1>3. CASE \/ WorkerLock \/ WorkerPark \/ WorkerCheck \/ WorkerFlush \/ WorkerPublish
           \/ WorkerNotify \/ WorkerWake \/ WorkerSpuriousWake
  BY <1>3 DEF WorkerLock, WorkerPark, WorkerCheck, WorkerFlush, WorkerPublish,
              WorkerNotify, WorkerWake, WorkerSpuriousWake
<1>4. CASE \/ WorkerStopLock \/ WorkerStopCheck \/ WorkerFinalFlush \/ WorkerStop
           \/ WriterPanic \/ WorkerPanicked
  BY <1>4 DEF WorkerStopLock, WorkerStopCheck, WorkerFinalFlush, WorkerStop,
              WriterPanic, WorkerPanicked
<1> QED  BY <1>1, <1>2, <1>3, <1>4 DEF WorkerStep

\* Every step leaves the line alone or moves one record along it.
LEMMA LineStep ==
    ASSUME Safe, WorkerHand, [Next]_vars
    PROVE  UNCHANGED line \/ PushedNew \/ PushedOver \/ Popped \/ Handed
<1>1. CASE UNCHANGED vars
  BY <1>1 DEF vars, line, queueVars, flushVars, errorVars, writerVars, workerVars
<1> QED  BY <1>1, ThreadLineStep, WorkerLineStep DEF Next

-----------------------------------------------------------------------------
(* The invariants of the line *)

LineTypes ==
    /\ events \in Seq(Nat) /\ written \in Seq(Nat)
    /\ nextSequence \in Nat /\ processed \in Nat /\ cur \in Nat
    /\ failed \subseteq Nat /\ evicted \subseteq Nat

\* What Append puts where.
LEMMA AppendMoves ==
    ASSUME NEW s \in Seq(Nat), NEW n \in Nat
    PROVE  /\ Append(s, n) \in Seq(Nat) /\ Append(s, n) # <<>>
           /\ Len(Append(s, n)) = Len(s) + 1 /\ Len(s) \in Nat
           /\ Append(s, n)[Len(s) + 1] = n
           /\ \A i \in 1..Len(s) : Append(s, n)[i] = s[i]
           /\ \A i \in 1..(Len(s) + 1) : i \in 1..Len(s) \/ i = Len(s) + 1
OBVIOUS

\* What Tail keeps.
LEMMA TailMoves ==
    ASSUME NEW s \in Seq(Nat), s # <<>>
    PROVE  /\ Tail(s) \in Seq(Nat) /\ Len(Tail(s)) = Len(s) - 1 /\ Len(s) \in Nat \ {0}
           /\ Head(s) = s[1] /\ 1 \in 1..Len(s) /\ s[1] \in Nat
           /\ \A i \in 1..Len(Tail(s)) : /\ i + 1 \in 1..Len(s) /\ Tail(s)[i] = s[i + 1]
                                         /\ Tail(s)[i] \in Nat
OBVIOUS

\* The elements of a queue after Append and after Tail.
LEMMA ElementsMove ==
    ASSUME NEW s \in Seq(Nat)
    PROVE  /\ Elements(s) \subseteq Nat
           /\ \A n \in Nat : Elements(Append(s, n)) = Elements(s) \cup {n}
           /\ s # <<>> => /\ Head(s) \in Nat
                          /\ Elements(s) = {Head(s)} \cup Elements(Tail(s))
<1>1. Elements(s) \subseteq Nat
  BY DEF Elements
<1>2. ASSUME NEW n \in Nat
      PROVE  Elements(Append(s, n)) = Elements(s) \cup {n}
  BY AppendMoves DEF Elements
<1>3. ASSUME s # <<>>
      PROVE  Head(s) \in Nat /\ Elements(s) = {Head(s)} \cup Elements(Tail(s))
  <2>1. ASSUME NEW i \in 1..Len(s)
        PROVE  s[i] \in {Head(s)} \cup Elements(Tail(s))
    <3> DEFINE k == i - 1
    <3>1. k + 1 = i /\ (i = 1 \/ k \in 1..Len(Tail(s)))
      BY <1>3, TailMoves
    <3> HIDE DEF k
    <3>2. CASE i = 1
      BY <1>3, <3>2, TailMoves
    <3>3. CASE k \in 1..Len(Tail(s))
      BY <1>3, <3>1, <3>3, TailMoves DEF Elements
    <3> QED  BY <3>1, <3>2, <3>3
  <2>2. Elements(s) \subseteq {Head(s)} \cup Elements(Tail(s))
    BY <2>1 DEF Elements
  <2>3. {Head(s)} \cup Elements(Tail(s)) \subseteq Elements(s)
    BY <1>3, TailMoves DEF Elements
  <2> QED  BY <1>3, <2>2, <2>3, TailMoves
<1> QED  BY <1>1, <1>2, <1>3

\* Appending to an increasing sequence something above all of it.
LEMMA IncreasingAppend ==
    ASSUME NEW s \in Seq(Nat), Increasing(s), NEW n \in Nat,
           \A x \in Elements(s) : x < n
    PROVE  Increasing(Append(s, n))
<1> DEFINE u == Append(s, n)
<1>1. /\ Len(u) = Len(s) + 1 /\ Len(s) \in Nat /\ u[Len(s) + 1] = n
      /\ \A i \in 1..Len(s) : u[i] = s[i] /\ s[i] < n
  BY AppendMoves DEF Elements
<1> SUFFICES ASSUME NEW i \in 1..Len(u), NEW j \in 1..Len(u), i < j
             PROVE  u[i] < u[j]
  BY DEF Increasing
<1> HIDE DEF u
<1>2. i \in 1..Len(s) /\ u[i] = s[i]
  BY <1>1
<1>3. CASE j = Len(s) + 1
  BY <1>1, <1>2, <1>3
<1>4. CASE j # Len(s) + 1
  <2>1. j \in 1..Len(s) /\ u[j] = s[j]
    BY SMTT(30), <1>1, <1>4
  <2> QED  BY <1>2, <2>1 DEF Increasing
<1> QED  BY <1>3, <1>4

\* Dropping the head of an increasing sequence: it is below the rest.
LEMMA IncreasingTail ==
    ASSUME NEW s \in Seq(Nat), Increasing(s), s # <<>>
    PROVE  /\ Increasing(Tail(s))
           /\ \A x \in Elements(Tail(s)) : Head(s) < x
BY TailMoves DEF Increasing, Elements

\* Sequences stay in order as records are pushed, evicted, taken and handed over.
LEMMA OrderedNext ==
    ASSUME LineTypes, Ordered,
           UNCHANGED line \/ PushedNew \/ PushedOver \/ Popped \/ Handed
    PROVE  Ordered'
<1> DEFINE Queued == Elements(events)
<1> DEFINE Taken == Elements(written)
<1> DEFINE new == nextSequence + 1
<1>1. /\ Queued \subseteq Nat /\ Taken \subseteq Nat /\ new \in Nat /\ new > nextSequence
      /\ \A s \in Queued : s < new
      /\ nextSequence \in Nat /\ processed \in Nat /\ cur \in Nat
      /\ failed \subseteq Nat /\ evicted \subseteq Nat
  BY ElementsMove DEF LineTypes, Ordered
<1>2. CASE UNCHANGED line
  <2>1. Queued' = Queued /\ Taken' = Taken /\ Increasing(events)' /\ Increasing(written)'
    BY <1>2 DEF line, Ordered, Elements, Increasing
  <2> QED  BY <1>2, <2>1 DEF line, Ordered
<1>3. CASE PushedNew
  <2>1. Queued' = Queued \cup {new} /\ Increasing(events')
    BY <1>1, <1>3, ElementsMove, IncreasingAppend DEF LineTypes, Ordered, PushedNew
  <2>2. Taken' = Taken /\ Increasing(written)'
    BY <1>3 DEF PushedNew, Ordered, Elements, Increasing
  <2> HIDE DEF Queued, Taken
  <2>3. /\ nextSequence' = new
        /\ UNCHANGED <<evicted, cur, failed, processed>>
    BY <1>3 DEF PushedNew
  <2> HIDE DEF new
  <2> QED  BY <1>1, <2>1, <2>2, <2>3 DEF Ordered, Queued, Taken
<1>4. CASE PushedOver
  <2> DEFINE rest == Tail(events)
  <2>1. /\ rest \in Seq(Nat) /\ Increasing(rest) /\ Head(events) \in Nat
        /\ Queued = {Head(events)} \cup Elements(rest)
        /\ \A x \in Elements(rest) : Head(events) < x
    BY <1>4, IncreasingTail, TailMoves, ElementsMove DEF LineTypes, Ordered, PushedOver
  <2>2. Elements(Append(rest, new)) = Elements(rest) \cup {new} /\ Increasing(Append(rest, new))
    BY <1>1, <2>1, ElementsMove, IncreasingAppend
  <2>3. events' = Append(rest, new) /\ evicted' = evicted \cup {Head(events)}
    BY <1>4 DEF PushedOver
  <2>4. Taken' = Taken /\ Increasing(written)'
    BY <1>4 DEF PushedOver, Ordered, Elements, Increasing
  <2> HIDE DEF rest, Queued, Taken
  <2>5. Elements(events') = Elements(rest) \cup {new} /\ Increasing(events')
    BY <2>2, <2>3
  <2>6. /\ processed < Head(events) /\ cur < Head(events) /\ Head(events) <= nextSequence
        /\ \A e \in evicted : e < Head(events)
        /\ \A s \in Elements(rest) : processed < s /\ cur < s /\ s <= nextSequence
    BY <2>1, <2>3 DEF Ordered, Queued
  <2>7. /\ UNCHANGED <<processed, cur, failed>> /\ nextSequence' = new
        /\ \A e \in evicted' : e <= nextSequence
    BY <1>4, <2>3, <2>6 DEF PushedOver, Ordered
  <2> HIDE DEF new
  <2>8. \A s \in Elements(events') : processed < s /\ cur < s /\ s <= new
    BY <1>1, <2>1, <2>5, <2>6 DEF Ordered, Queued
  <2>9. \A s \in Elements(events') : \A e \in evicted' : e < s
    <3>1. ASSUME NEW s \in Elements(rest), NEW e \in evicted'
          PROVE  e < s
      <4>1. s \in Queued /\ (e \in evicted \/ e = Head(events)) /\ Head(events) < s
        BY <2>1, <2>3
      <4> QED  BY <4>1 DEF Ordered, Queued
    <3>2. ASSUME NEW e \in evicted'
          PROVE  e < new
      <4>1. e \in Nat /\ e <= nextSequence
        BY <2>1, <2>3, <2>6 DEF LineTypes, Ordered
      <4> QED  BY <1>1, <4>1
    <3> QED  BY <2>5, <3>1, <3>2
  <2>10. /\ cur \notin evicted' /\ 0 \notin evicted'
         /\ \A e \in evicted' : e <= new
         /\ cur <= new /\ processed <= new
    BY SMTT(30), <1>1, <2>1, <2>3, <2>6, <2>7 DEF LineTypes, Ordered
  <2>11. \A s \in Elements(written)' \cup failed' : s <= processed'
    BY <2>4, <2>7 DEF Ordered, Taken
  <2> QED  BY <2>4, <2>5, <2>7, <2>8, <2>9, <2>10, <2>11 DEF Ordered
<1>5. CASE Popped
  <2>1. /\ Increasing(events') /\ cur' = Head(events) /\ cur' \in Nat
        /\ Queued = {cur'} \cup Queued'
        /\ \A x \in Queued' : cur' < x
    BY <1>5, IncreasingTail, ElementsMove DEF LineTypes, Ordered, Popped
  <2>2. Taken' = Taken /\ Increasing(written)'
    BY <1>5 DEF Popped, Ordered, Elements, Increasing
  <2> HIDE DEF Queued, Taken
  <2>3. cur = 0 /\ UNCHANGED <<nextSequence, evicted, failed, processed>>
    BY <1>5 DEF Popped
  <2> QED  BY <1>1, <2>1, <2>2, <2>3 DEF Ordered, Queued, Taken
<1>6. CASE Handed
  <2>1. Queued' = Queued /\ Increasing(events)'
    BY <1>6 DEF Handed, Ordered, Elements, Increasing
  <2>2. /\ \A s \in Taken' \cup failed' : s \in Taken \cup failed \/ s = cur
        /\ Increasing(written)'
    <3>1. CASE written' = Append(written, cur) /\ failed' = failed
      <4>1. \A x \in Taken : x < cur
        BY <1>1, <1>6 DEF LineTypes, Ordered, Handed
      <4> QED  BY <3>1, <4>1, ElementsMove, IncreasingAppend DEF LineTypes, Ordered
    <3>2. CASE written' = written /\ failed' = failed \cup {cur}
      BY <3>2 DEF Ordered
    <3> QED  BY <1>6, <3>1, <3>2 DEF Handed
  <2> HIDE DEF Queued, Taken
  <2>3. /\ cur # 0 /\ cur' = 0 /\ processed' = cur
        /\ UNCHANGED <<nextSequence, evicted>>
    BY <1>6 DEF Handed
  <2>4. \A s \in Queued' : processed' < s /\ cur' < s /\ s <= nextSequence
    BY <1>1, <2>1, <2>3 DEF Ordered, Queued
  <2>5. \A s \in Taken' \cup failed' : s <= cur
    <3>1. processed < cur /\ \A s \in Taken \cup failed : s <= processed
      BY <2>3 DEF Ordered, Taken
    <3>2. \A s \in Taken \cup failed : s <= cur
      BY <1>1, <3>1
    <3>3. cur <= cur
      BY <1>1
    <3> QED  BY <2>2, <3>2, <3>3
  <2> QED  BY <1>1, <2>1, <2>2, <2>3, <2>4, <2>5 DEF Ordered, Queued, Taken
<1> QED  BY <1>2, <1>3, <1>4, <1>5, <1>6

\* The newest record stays the last of the line.
LEMMA NewestNext ==
    ASSUME LineTypes, Ordered, NewestIsLast,
           UNCHANGED line \/ PushedNew \/ PushedOver \/ Popped \/ Handed
    PROVE  NewestIsLast'
<1>1. CASE UNCHANGED line
  BY <1>1 DEF line, NewestIsLast
<1>2. CASE PushedNew
  BY <1>2, AppendMoves DEF LineTypes, NewestIsLast, PushedNew
<1>3. CASE PushedOver
  <2> DEFINE rest == Tail(events)
             new == nextSequence + 1
  <2>1. events' = Append(rest, new) /\ nextSequence' = new
    BY <1>3 DEF PushedOver
  <2>2. rest \in Seq(Nat) /\ new \in Nat
    BY <1>3, TailMoves DEF LineTypes, PushedOver
  <2> HIDE DEF rest, new
  <2> QED  BY <2>1, <2>2, AppendMoves DEF NewestIsLast
<1>4. CASE Popped
  <2>1. events[Len(events)] = nextSequence
    BY <1>4 DEF NewestIsLast, Popped
  <2>2. cur' = events[1] /\ cur' # 0 /\ nextSequence' = nextSequence
    <3>1. Head(events) = events[1] /\ Head(events) \in Elements(events)
      BY <1>4, ElementsMove, TailMoves DEF LineTypes, Popped
    <3> QED  BY <1>4, <3>1 DEF LineTypes, Ordered, Popped
  <2>3. Len(events') = Len(events) - 1 /\ Len(events) \in Nat \ {0} /\ events' \in Seq(Nat)
        /\ \A i \in 1..Len(events') : events'[i] = events[i + 1]
    BY <1>4, TailMoves DEF LineTypes, Popped
  <2>4. CASE events' = <<>>
    <3>1. Len(events) = 1
      BY <2>3, <2>4
    <3>2. nextSequence' = cur'
      BY <2>1, <2>2, <3>1
    <3> QED  BY <2>2, <2>4, <3>2 DEF NewestIsLast
  <2>5. CASE events' # <<>>
    <3>1. Len(events') \in Nat \ {0}
      BY <2>3, <2>5
    <3>2. events'[Len(events')] = events[Len(events)]
      BY <2>3, <3>1
    <3> QED  BY <2>1, <2>2, <2>5, <3>2 DEF NewestIsLast
  <2> QED  BY <2>4, <2>5
<1>5. CASE Handed
  BY <1>5 DEF LineTypes, NewestIsLast, Handed
<1> QED  BY <1>1, <1>2, <1>3, <1>4, <1>5
\* The worker's hand as a set and as a length.
LEMMA HandIs ==
    ASSUME cur \in Nat
    PROVE  /\ Elements(InFlight) = IF cur = 0 THEN {} ELSE {cur}
           /\ Len(InFlight) = IF cur = 0 THEN 0 ELSE 1
BY DEF InFlight, Elements

\* Every record is in one place before and after it moves.
LEMMA PlacedNext ==
    ASSUME LineTypes, LineTypes', Ordered, Placed,
           UNCHANGED line \/ PushedNew \/ PushedOver \/ Popped \/ Handed
    PROVE  Placed'
<1> DEFINE Queued == Elements(events)
<1> DEFINE Taken == Elements(written)
<1> DEFINE Hand == IF cur = 0 THEN {} ELSE {cur}
<1> DEFINE hand == IF cur = 0 THEN 0 ELSE 1
<1> DEFINE new == nextSequence + 1
<1>1. /\ \A s : (s \in Queued \/ s \in Hand \/ s \in Taken \/ s \in failed \/ s \in evicted)
                   <=> s \in 1..nextSequence
      /\ Len(events) + hand + Len(written) + Cardinality(failed) + Cardinality(evicted)
            = nextSequence
      /\ IsFiniteSet(failed) /\ IsFiniteSet(evicted)
  <2>1. Queued \cup Hand \cup Taken \cup failed \cup evicted = 1..nextSequence
    BY HandIs DEF LineTypes, Placed
  <2> HIDE DEF Queued, Hand, Taken
  <2>2. \A s : (s \in Queued \/ s \in Hand \/ s \in Taken \/ s \in failed \/ s \in evicted)
                  <=> s \in 1..nextSequence
    BY <2>1
  <2> QED  BY <2>2, HandIs DEF LineTypes, Placed
<1>2. /\ Len(events) \in Nat /\ Len(written) \in Nat /\ nextSequence \in Nat /\ cur \in Nat
      /\ Cardinality(failed) \in Nat /\ Cardinality(evicted) \in Nat /\ cur' \in Nat
  <2>1. Len(events) \in Nat /\ Len(written) \in Nat
    BY DEF LineTypes
  <2>2. Cardinality(failed) \in Nat /\ Cardinality(evicted) \in Nat
    BY <1>1, FS_CardinalityType
  <2>3. nextSequence \in Nat /\ cur \in Nat /\ cur' \in Nat
    BY DEF LineTypes
  <2> QED  BY <2>1, <2>2, <2>3
<1> SUFFICES
      /\ \A s : (s \in Queued' \/ s \in Hand' \/ s \in Taken' \/ s \in failed' \/ s \in evicted')
                   <=> s \in 1..nextSequence'
      /\ Len(events') + hand' + Len(written') + Cardinality(failed') + Cardinality(evicted')
            = nextSequence'
      /\ IsFiniteSet(failed') /\ IsFiniteSet(evicted')
  <2>1. Elements(InFlight)' = Hand' /\ Len(InFlight)' = hand'
    BY <1>2, HandIs DEF InFlight, Elements
  <2> HIDE DEF Queued, Hand, Taken, hand
  <2>2. Queued' \cup Hand' \cup Taken' \cup failed' \cup evicted' = 1..nextSequence'
    OBVIOUS
  <2> QED  BY <2>1, <2>2 DEF Placed, Queued, Taken
<1>3. CASE UNCHANGED line
  BY <1>1, <1>3 DEF line, Elements
<1>4. CASE PushedNew
  <2>1. /\ Queued' = Queued \cup {new} /\ Len(events') = Len(events) + 1
        /\ nextSequence' = new /\ UNCHANGED <<written, failed, evicted, cur>>
    BY <1>4, ElementsMove, AppendMoves DEF LineTypes, PushedNew
  <2>2. Taken' = Taken /\ Hand' = Hand /\ hand' = hand
    BY <2>1 DEF Elements
  <2>3. \A s : s \in 1..new <=> s \in 1..nextSequence \/ s = new
    BY <1>2
  <2> HIDE DEF Queued, Hand, Taken, hand
  <2>4. \A s : (s \in Queued' \/ s \in Hand' \/ s \in Taken' \/ s \in failed' \/ s \in evicted')
                  <=> s \in 1..nextSequence'
    BY <1>1, <2>1, <2>2, <2>3
  <2>5. Len(events') + hand' + Len(written') + Cardinality(failed') + Cardinality(evicted')
           = nextSequence'
    <3>1. hand \in Nat
      BY DEF hand
    <3>2. Len(events) + hand + Len(written) + Cardinality(failed) + Cardinality(evicted)
             = nextSequence
      BY <1>1
    <3> QED  BY SMTT(30), <1>2, <2>1, <2>2, <3>1, <3>2
  <2> QED  BY <1>1, <2>1, <2>4, <2>5
<1>5. CASE PushedOver
  <2> DEFINE rest == Tail(events)
  <2> DEFINE oldest == Head(events)
  <2>1. /\ Queued = {oldest} \cup Elements(rest) /\ rest \in Seq(Nat)
        /\ Len(rest) = Len(events) - 1
    BY <1>5, ElementsMove, TailMoves DEF LineTypes, PushedOver
  <2>2. /\ events' = Append(rest, new) /\ evicted' = evicted \cup {oldest}
        /\ nextSequence' = new /\ UNCHANGED <<written, failed, cur>>
    BY <1>5 DEF PushedOver
  <2>3. Queued' = Elements(rest) \cup {new} /\ Len(events') = Len(rest) + 1
    <3>1. new \in Nat
      BY <1>2
    <3> HIDE DEF rest, new
    <3> QED  BY <2>1, <2>2, <3>1, ElementsMove, AppendMoves
  <2>4. Taken' = Taken /\ Hand' = Hand /\ hand' = hand
    BY <2>2 DEF Elements
  <2>5. \A s : s \in 1..new <=> s \in 1..nextSequence \/ s = new
    BY <1>2
  <2>6. oldest \notin evicted
    <3>1. oldest \in Nat /\ \A e \in evicted : e < oldest
      BY <1>5, <2>1, ElementsMove DEF LineTypes, PushedOver, Ordered
    <3> QED  BY <3>1
  <2>7. IsFiniteSet(evicted') /\ Cardinality(evicted') = Cardinality(evicted) + 1
    BY <1>1, <2>2, <2>6, FS_AddElement
  <2> HIDE DEF Queued, Hand, Taken, rest, oldest
  <2>8. \A s : (s \in Queued' \/ s \in evicted') <=> (s \in Queued \/ s \in evicted \/ s = new)
    BY <2>1, <2>2, <2>3
  <2>9. /\ \A s : (s \in Queued' \/ s \in Hand' \/ s \in Taken' \/ s \in failed' \/ s \in evicted')
                      <=> s \in 1..nextSequence'
    BY <1>1, <2>2, <2>4, <2>5, <2>8
  <2>10. Len(events') + hand' + Len(written') + Cardinality(failed') + Cardinality(evicted')
            = nextSequence'
    <3>1. Len(events') = Len(events) /\ hand \in Nat
      BY <1>2, <2>1, <2>3 DEF hand
    <3>2. /\ Len(written') = Len(written) /\ Cardinality(failed') = Cardinality(failed)
          /\ nextSequence' = nextSequence + 1
      BY <2>2 DEF new
    <3>3. Len(events) + hand + Len(written) + Cardinality(failed) + Cardinality(evicted)
             = nextSequence
      BY <1>1
    <3>4. hand' = hand /\ Cardinality(evicted') = Cardinality(evicted) + 1
      BY <2>4, <2>7
    <3>5. /\ Len(events) \in Nat /\ Len(written) \in Nat /\ nextSequence \in Nat
          /\ Cardinality(failed) \in Nat /\ Cardinality(evicted) \in Nat
      BY <1>2
    <3> QED  BY SMTT(30), <3>1, <3>2, <3>3, <3>4, <3>5
  <2> QED  BY <1>1, <2>2, <2>7, <2>9, <2>10
<1>6. CASE Popped
  <2>1. /\ cur = 0 /\ cur' = Head(events) /\ cur' # 0
        /\ Queued = {cur'} \cup Queued' /\ Len(events') = Len(events) - 1
        /\ UNCHANGED <<written, failed, evicted, nextSequence>>
    <3>1. /\ cur = 0 /\ cur' = Head(events) /\ events' = Tail(events) /\ events # <<>>
          /\ UNCHANGED <<written, failed, evicted, nextSequence>>
      BY <1>6 DEF Popped
    <3>2. Head(events) \in Queued /\ Head(events) \in Nat
          /\ Queued = {cur'} \cup Queued' /\ Len(events') = Len(events) - 1
      BY <3>1, ElementsMove, TailMoves DEF LineTypes
    <3> QED  BY <1>2, <3>1, <3>2 DEF Ordered
  <2>2. Taken' = Taken /\ Hand = {} /\ hand = 0 /\ Hand' = {cur'} /\ hand' = 1
    BY <2>1 DEF Elements
  <2> HIDE DEF Queued, Hand, Taken, hand
  <2> QED  BY <1>1, <1>2, <2>1, <2>2
<1>7. CASE Handed
  <2>1. /\ Hand = {cur} /\ Hand' = {} /\ hand = 1 /\ hand' = 0 /\ Queued' = Queued
        /\ UNCHANGED <<events, nextSequence, evicted>>
    BY <1>7 DEF Handed, Elements
  <2>2. CASE written' = Append(written, cur) /\ failed' = failed
    <3>1. Taken' = Taken \cup {cur} /\ Len(written') = Len(written) + 1
      BY <2>2, ElementsMove, AppendMoves DEF LineTypes
    <3> HIDE DEF Queued, Hand, Taken, hand
    <3> QED  BY <1>1, <1>2, <2>1, <2>2, <3>1
  <2>3. CASE failed' = failed \cup {cur} /\ written' = written
    <3>1. cur \notin failed
      <4>1. processed \in Nat /\ processed < cur /\ \A s \in failed : s <= processed
        BY <1>7 DEF LineTypes, Ordered, Handed
      <4> QED  BY <1>2, <4>1
    <3>2. IsFiniteSet(failed') /\ Cardinality(failed') = Cardinality(failed) + 1
      BY <1>1, <2>3, <3>1, FS_AddElement
    <3>3. Taken' = Taken
      BY <2>3 DEF Elements
    <3> HIDE DEF Queued, Hand, Taken, hand
    <3> QED  BY <1>1, <1>2, <2>1, <2>3, <3>2, <3>3
  <2> QED  BY <1>7, <2>2, <2>3 DEF Handed
<1> QED  BY <1>3, <1>4, <1>5, <1>6, <1>7

\* The first refusal is kept: later ones are of later records.
LEMMA FirstRefusalNext ==
    ASSUME LineTypes, writeError \in Nat, Ordered, FirstRefusal,
           UNCHANGED line \/ PushedNew \/ PushedOver \/ Popped \/ Handed
    PROVE  FirstRefusal'
<1>1. CASE Handed
  <2>1. cur # 0 /\ cur \in Nat /\ \A s \in failed : s < cur
    BY <1>1 DEF Handed, Ordered, LineTypes
  <2>2. CASE UNCHANGED <<failed, writeError>>
    BY <2>2 DEF FirstRefusal
  <2>3. CASE /\ failed' = failed \cup {cur}
             /\ writeError' = IF writeError = 0 THEN cur ELSE writeError
    <3>1. CASE writeError = 0
      BY <2>1, <2>3, <3>1 DEF FirstRefusal
    <3>2. CASE writeError # 0
      BY <2>1, <2>3, <3>2 DEF FirstRefusal
    <3> QED  BY <3>1, <3>2
  <2> QED  BY <1>1, <2>2, <2>3 DEF Handed
<1>2. CASE UNCHANGED <<failed, writeError>>
  BY <1>2 DEF FirstRefusal
<1> QED  BY <1>1, <1>2 DEF line, PushedNew, PushedOver, Popped
-----------------------------------------------------------------------------
(* Handles, barriers and the worker's hand: one case per group of actions    *)

StepTypes ==
    /\ pc \in [Threads -> ThreadSteps] /\ wpc \in WorkerSteps
    /\ barrier \in [Threads -> BarrierRecord]
    /\ cur \in Nat /\ processed \in Nat /\ requested \in Nat /\ flushed \in Nat
    /\ flushError \in Nat /\ writeError \in Nat /\ durable \in Nat

LEMMA TypesSuffice == TypeOK => StepTypes /\ LineTypes
BY DEF TypeOK, StepTypes, LineTypes

\* A thread leaves emit and flush before it drops its handle.
LEMMA HandlesNext ==
    ASSUME StepTypes, HandlesHeld, [Next]_vars
    PROVE  HandlesHeld'
<1> USE DEF StepTypes, HandlesHeld, EmitSteps, FlushSteps, DropSteps, Goto,
            queueVars, flushVars, errorVars, barrierVars, writerVars, workerVars
<1>1. ASSUME NEW t \in Threads, CallStep(t)
      PROVE  HandlesHeld'
  <2>1. CASE EmitTryLock(t) \/ EmitRoom(t) \/ EmitOverwrite(t) \/ EmitNotify(t)
    BY <2>1 DEF EmitTryLock, EmitRoom, EmitOverwrite, EmitNotify, EmitPush, EmitRefuse
  <2>2. CASE FlushLock(t) \/ FlushRead(t) \/ FlushPublish(t) \/ FlushNotify(t)
    BY <2>2 DEF FlushLock, FlushRead, FlushPublish, FlushNotify
  <2>3. CASE \/ WaitLock(t) \/ ResultFlushed(t) \/ ResultStopped(t)
             \/ ResultErrors(t) \/ PollRegister(t)
    BY <2>3 DEF WaitLock, ResultFlushed, ResultStopped, ResultErrors, PollRegister, Answer
  <2>4. CASE DropShutdown(t) \/ DropRequest(t) \/ DropNotify(t) \/ DropJoin(t)
    BY <2>4 DEF DropShutdown, DropRequest, DropNotify, DropJoin
  <2> QED  BY <1>1, <2>1, <2>2, <2>3, <2>4 DEF CallStep
<1>2. ASSUME NEW t \in Threads, CallStart(t) \/ WaitSpuriousWake(t)
      PROVE  HandlesHeld'
  <2>1. CASE EmitStart(t) \/ FlushStart(t)
    BY <2>1 DEF EmitStart, FlushStart
  <2>2. CASE WaitStart(t) \/ PollStart(t) \/ WaitSpuriousWake(t)
    BY <2>2 DEF WaitStart, PollStart, WaitSpuriousWake
  <2>3. CASE ReleaseHandle(t)
    BY <2>3 DEF ReleaseHandle
  <2> QED  BY <1>2, <2>1, <2>2, <2>3 DEF CallStart
<1>3. CASE WorkerStep \/ WorkerSpuriousWake
  <2>1. CASE WorkerNotify
    BY <2>1 DEF WorkerNotify
  <2>2. CASE ~WorkerNotify
    BY <1>3, <2>2
       DEF WorkerStep, WorkerLock, WorkerPop, WorkerPark, WorkerWrite, WorkerCheck,
           WorkerFlush, WorkerPublish, WorkerWake, WorkerStopLock, WorkerStopCheck,
           WorkerFinalFlush, WorkerStop, WriterPanic, WorkerPanicked, WorkerSpuriousWake
  <2> QED  BY <2>1, <2>2
<1>4. CASE UNCHANGED vars
  BY <1>4 DEF vars
<1> QED  BY <1>1, <1>2, <1>3, <1>4 DEF Next

\* flushed never falls back behind a barrier that was found covered.
LEMMA FlushedGrows ==
    ASSUME StepTypes, WorkerHand, [Next]_vars
    PROVE  flushed' \in Nat /\ flushed' >= flushed
<1>1. CASE WorkerPublish \/ WorkerFinalFlush
  BY <1>1 DEF StepTypes, WorkerHand, WorkerPublish, WorkerFinalFlush
<1>2. CASE flushed' = flushed
  BY <1>2 DEF StepTypes
<1>3. ASSUME NEW t \in Threads, CallStep(t)
      PROVE  flushed' = flushed
  BY <1>3
     DEF CallStep, EmitTryLock, EmitRoom, EmitOverwrite, EmitNotify, FlushLock, FlushRead,
         FlushPublish, FlushNotify, WaitLock, ResultFlushed, ResultStopped, ResultErrors,
         PollRegister, DropShutdown, DropRequest, DropNotify, DropJoin, flushVars
<1>4. ASSUME NEW t \in Threads, CallStart(t) \/ WaitSpuriousWake(t)
      PROVE  flushed' = flushed
  BY <1>4 DEF CallStart, EmitStart, FlushStart, WaitStart, PollStart, ReleaseHandle,
              WaitSpuriousWake, flushVars
<1>5. CASE (WorkerStep \/ WorkerSpuriousWake) /\ ~(WorkerPublish \/ WorkerFinalFlush)
  BY <1>2, <1>5
     DEF WorkerStep, WorkerLock, WorkerPop, WorkerPark, WorkerWrite, WorkerCheck,
         WorkerFlush, WorkerNotify, WorkerWake, WorkerStopLock, WorkerStopCheck,
         WorkerStop, WriterPanic, WorkerPanicked, WorkerSpuriousWake, flushVars
<1>6. CASE UNCHANGED vars
  BY <1>2, <1>6 DEF vars, flushVars
<1> QED  BY <1>1, <1>2, <1>3, <1>4, <1>5, <1>6 DEF Next

\* A barrier is open while its owner asks it, and covered when it is answered.
LEMMA BarrierNext ==
    ASSUME StepTypes, WorkerHand, BarrierPhase, [Next]_vars
    PROVE  BarrierPhase'
<1> USE FlushedGrows
    DEF StepTypes, BarrierRecord, BarrierPhase, WaitSteps, Goto,
        queueVars, flushVars, errorVars, barrierVars, writerVars, workerVars
<1>1. ASSUME NEW t \in Threads, CallStep(t)
      PROVE  BarrierPhase'
  <2>1. CASE EmitTryLock(t) \/ EmitRoom(t) \/ EmitOverwrite(t) \/ EmitNotify(t)
    <3>1. UNCHANGED <<barrier, mode, flushed>>
      BY <2>1 DEF EmitTryLock, EmitRoom, EmitOverwrite, EmitNotify
    <3>2. \E step \in {"idle", "emitRoom", "emitOverwrite", "emitNotify"} :
             pc' = [pc EXCEPT ![t] = step]
      BY <2>1 DEF EmitTryLock, EmitRoom, EmitOverwrite, EmitNotify, EmitPush, EmitRefuse
    <3>3. pc[t] \in {"emitTryLock", "emitRoom", "emitOverwrite", "emitNotify"}
      BY <2>1 DEF EmitTryLock, EmitRoom, EmitOverwrite, EmitNotify
    <3> QED  BY <3>1, <3>2, <3>3
  <2>2. CASE FlushLock(t) \/ FlushRead(t) \/ FlushPublish(t) \/ FlushNotify(t)
    BY <2>2 DEF FlushLock, FlushRead, FlushPublish, FlushNotify
  <2>3. CASE WaitLock(t) \/ ResultFlushed(t) \/ PollRegister(t)
    BY <2>3 DEF WaitLock, ResultFlushed, PollRegister, Covered
  <2>4. CASE ResultStopped(t) \/ ResultErrors(t)
    BY <2>4 DEF ResultStopped, ResultErrors, Answer
  <2>5. CASE DropShutdown(t) \/ DropRequest(t) \/ DropNotify(t) \/ DropJoin(t)
    BY <2>5 DEF DropShutdown, DropRequest, DropNotify, DropJoin
  <2> QED  BY <1>1, <2>1, <2>2, <2>3, <2>4, <2>5 DEF CallStep
<1>2. ASSUME NEW t \in Threads, CallStart(t) \/ WaitSpuriousWake(t)
      PROVE  BarrierPhase'
  <2>1. CASE EmitStart(t) \/ FlushStart(t) \/ ReleaseHandle(t)
    BY <2>1 DEF EmitStart, FlushStart, ReleaseHandle
  <2>2. CASE WaitStart(t) \/ PollStart(t) \/ WaitSpuriousWake(t)
    BY <2>2 DEF WaitStart, PollStart, WaitSpuriousWake
  <2> QED  BY <1>2, <2>1, <2>2 DEF CallStart
<1>3. CASE WorkerStep \/ WorkerSpuriousWake
  <2>1. CASE WorkerNotify
    BY <2>1 DEF WorkerNotify
  <2>2. UNCHANGED <<pc, barrier>> \/ WorkerNotify
    BY <1>3
       DEF WorkerStep, WorkerLock, WorkerPop, WorkerPark, WorkerWrite, WorkerCheck,
           WorkerFlush, WorkerPublish, WorkerWake, WorkerStopLock, WorkerStopCheck,
           WorkerFinalFlush, WorkerStop, WriterPanic, WorkerPanicked, WorkerSpuriousWake
  <2> QED  BY <2>1, <2>2
<1>4. CASE UNCHANGED vars
  BY <1>4 DEF vars
<1> QED  BY <1>1, <1>2, <1>3, <1>4 DEF Next

\* What the worker holds, and that it stops for good.
LEMMA HandNext ==
    ASSUME StepTypes, LineTypes, Ordered, WorkerHand, [Next]_vars
    PROVE  WorkerHand'
<1> USE DEF StepTypes, WorkerHand, LeavingSteps, NotifyWork,
            queueVars, flushVars, errorVars, writerVars, workerVars
<1>1. ASSUME NEW t \in Threads, CallStep(t)
      PROVE  WorkerHand'
  <2>1. \/ UNCHANGED <<cur, stopped, processed, flushed, wpc>>
        \/ UNCHANGED <<cur, stopped, processed, flushed>> /\ NotifyWork
    BY <1>1
       DEF CallStep, EmitTryLock, EmitRoom, EmitOverwrite, EmitNotify, FlushLock, FlushRead,
           FlushPublish, FlushNotify, WaitLock, ResultFlushed, ResultStopped, ResultErrors,
           PollRegister, DropShutdown, DropRequest, DropNotify, DropJoin
  <2> QED  BY <2>1
<1>2. ASSUME NEW t \in Threads, CallStart(t) \/ WaitSpuriousWake(t)
      PROVE  WorkerHand'
  BY <1>2 DEF CallStart, EmitStart, FlushStart, WaitStart, PollStart, ReleaseHandle,
              WaitSpuriousWake
<1>3. CASE WorkerStep \/ WorkerSpuriousWake
  <2>1. CASE WorkerPop
    <3>1. events # <<>> => Head(events) \in Nat /\ processed < Head(events)
      BY ElementsMove DEF Ordered, LineTypes
    <3> QED  BY <2>1, <3>1 DEF WorkerPop
  <2>2. CASE WorkerWrite
    BY <2>2 DEF WorkerWrite, Ordered
  <2>3. CASE WorkerLock \/ WorkerPark \/ WorkerCheck \/ WorkerFlush \/ WorkerPublish
    BY <2>3 DEF WorkerLock, WorkerPark, WorkerCheck, WorkerFlush, WorkerPublish
  <2>4. CASE WorkerNotify \/ WorkerWake \/ WorkerStopLock \/ WorkerStopCheck
    BY <2>4 DEF WorkerNotify, WorkerWake, WorkerStopLock, WorkerStopCheck
  <2>5. CASE WorkerFinalFlush \/ WorkerStop \/ WriterPanic \/ WorkerPanicked \/ WorkerSpuriousWake
    BY <2>5 DEF WorkerFinalFlush, WorkerStop, WriterPanic, WorkerPanicked, WorkerSpuriousWake
  <2> QED  BY <1>3, <2>1, <2>2, <2>3, <2>4, <2>5 DEF WorkerStep
<1>4. CASE UNCHANGED vars
  BY <1>4 DEF vars
<1> QED  BY <1>1, <1>2, <1>3, <1>4 DEF Next
\* The bound on the queue, as it moves.
LEMMA BoundKept ==
    ASSUME LineTypes, Len(events) <= Capacity,
           UNCHANGED line \/ PushedNew \/ PushedOver \/ Popped \/ Handed
    PROVE  Len(events') <= Capacity
<1> USE CapacityAssumption DEF LineTypes
<1>1. CASE PushedNew
  BY <1>1, AppendMoves DEF PushedNew
<1>2. CASE PushedOver
  BY <1>2, AppendMoves, TailMoves DEF PushedOver
<1>3. CASE Popped
  BY <1>3, TailMoves DEF Popped
<1> QED  BY <1>1, <1>2, <1>3 DEF line, Handed

\* Nobody makes room, or takes it, while an emit is about to evict.
LEMMA RoomNext ==
    ASSUME Safe, StepTypes, LineTypes, WorkerHand, RoomKept, [Next]_vars
    PROVE  RoomKept'
<1>1. Len(events') <= Capacity
  BY BoundKept, LineStep DEF RoomKept
<1> SUFFICES ASSUME NEW u \in Threads, pc'[u] = "emitOverwrite"
             PROVE  Len(events') = Capacity
  BY <1>1 DEF RoomKept
<1> USE ThreadsAssumption
    DEF StepTypes, RoomKept, Goto, HoldingSteps, WorkerHoldingSteps,
        queueVars, flushVars, errorVars, barrierVars, writerVars, workerVars
<1>2. /\ QueueExclusion
      /\ \A t \in Threads : pc[t] \in HoldingSteps /\ pc[u] \in HoldingSteps => t = u
      /\ wpc \in WorkerHoldingSteps => pc[u] \notin HoldingSteps
  BY DEF Safe, QueueExclusion
<1>3. ASSUME NEW t \in Threads, CallStep(t)
      PROVE  Len(events') = Capacity
  <2>1. CASE EmitRoom(t)
    BY <1>2, <2>1 DEF EmitRoom, EmitPush, EmitRefuse, Full
  <2>2. CASE EmitOverwrite(t)
    BY <1>2, <2>2 DEF EmitOverwrite, EmitPush, EmitRefuse
  <2>3. CASE EmitTryLock(t) \/ EmitNotify(t)
    BY <2>3 DEF EmitTryLock, EmitNotify
  <2>4. CASE FlushLock(t) \/ FlushRead(t) \/ FlushPublish(t) \/ FlushNotify(t)
    BY <2>4 DEF FlushLock, FlushRead, FlushPublish, FlushNotify
  <2>5. CASE \/ WaitLock(t) \/ ResultFlushed(t) \/ ResultStopped(t)
             \/ ResultErrors(t) \/ PollRegister(t)
    BY <2>5 DEF WaitLock, ResultFlushed, ResultStopped, ResultErrors, PollRegister, Answer
  <2>6. CASE DropShutdown(t) \/ DropRequest(t) \/ DropNotify(t) \/ DropJoin(t)
    BY <2>6 DEF DropShutdown, DropRequest, DropNotify, DropJoin
  <2> QED  BY <1>3, <2>1, <2>2, <2>3, <2>4, <2>5, <2>6 DEF CallStep
<1>4. ASSUME NEW t \in Threads, CallStart(t) \/ WaitSpuriousWake(t)
      PROVE  Len(events') = Capacity
  BY <1>4 DEF CallStart, EmitStart, FlushStart, WaitStart, PollStart, ReleaseHandle,
              WaitSpuriousWake
<1>5. CASE WorkerStep \/ WorkerSpuriousWake
  <2>1. pc[u] = "emitOverwrite"
    BY <1>5
       DEF WorkerStep, WorkerLock, WorkerPop, WorkerPark, WorkerWrite, WorkerCheck,
           WorkerFlush, WorkerPublish, WorkerNotify, WorkerWake, WorkerStopLock,
           WorkerStopCheck, WorkerFinalFlush, WorkerStop, WriterPanic, WorkerPanicked,
           WorkerSpuriousWake
  <2>2. ~Popped \/ wpc # "pop"
    BY <1>2, <2>1
  <2> QED  BY <1>5, <2>1, <2>2, WorkerLineStep DEF line, Handed
<1>6. CASE UNCHANGED vars
  BY <1>6 DEF vars
<1> QED  BY <1>3, <1>4, <1>5, <1>6 DEF Next

-----------------------------------------------------------------------------
(* Flushes *)

\* What a thread may do to the worker's flushes: nothing, but shut down.
LEMMA ThreadLeavesFlush ==
    ASSUME StepTypes, NEW t \in Threads,
           CallStep(t) \/ CallStart(t) \/ WaitSpuriousWake(t)
    PROVE  /\ UNCHANGED <<cur, processed, flushed, stopped, flushError, durable>>
           /\ wpc' = wpc \/ (wpc = "waiting" /\ wpc' = "lock")
           /\ shutdown => shutdown'
<1> USE DEF queueVars, flushVars, errorVars, barrierVars, writerVars, workerVars, NotifyWork
<1>1. CASE EmitTryLock(t) \/ EmitRoom(t) \/ EmitOverwrite(t) \/ EmitNotify(t)
  BY <1>1 DEF EmitTryLock, EmitRoom, EmitOverwrite, EmitNotify, EmitPush, EmitRefuse
<1>2. CASE FlushLock(t) \/ FlushRead(t) \/ FlushPublish(t) \/ FlushNotify(t)
  BY <1>2 DEF FlushLock, FlushRead, FlushPublish, FlushNotify
<1>3. CASE \/ WaitLock(t) \/ ResultFlushed(t) \/ ResultStopped(t)
           \/ ResultErrors(t) \/ PollRegister(t)
  BY <1>3 DEF WaitLock, ResultFlushed, ResultStopped, ResultErrors, PollRegister
<1>4. CASE DropShutdown(t) \/ DropRequest(t) \/ DropNotify(t) \/ DropJoin(t)
  BY <1>4 DEF DropShutdown, DropRequest, DropNotify, DropJoin
<1>5. CASE CallStart(t) \/ WaitSpuriousWake(t)
  BY <1>5 DEF CallStart, EmitStart, FlushStart, WaitStart, PollStart, ReleaseHandle,
              WaitSpuriousWake
<1> QED  BY <1>1, <1>2, <1>3, <1>4, <1>5 DEF CallStep

\* A flush that covers more than was written, or an error it replaced.
LEMMA DurableNext ==
    ASSUME StepTypes, StepTypes', WorkerHand, FlushIsDurable, [Next]_vars
    PROVE  FlushIsDurable'
<1> USE DEF StepTypes, FlushIsDurable, WorkerHand, LeavingSteps
<1>1. ASSUME NEW t \in Threads, CallStep(t) \/ CallStart(t) \/ WaitSpuriousWake(t)
      PROVE  FlushIsDurable'
  BY <1>1, ThreadLeavesFlush
<1>2. CASE WorkerStep \/ WorkerSpuriousWake
  <2> USE DEF queueVars, flushVars, errorVars, writerVars
  <2>1. CASE WorkerFlush
    BY <2>1 DEF WorkerFlush
  <2>2. CASE WorkerPublish
    BY <2>2 DEF WorkerPublish
  <2>3. CASE WorkerStopCheck
    BY <2>3 DEF WorkerStopCheck, ShouldStop
  <2>4. CASE WorkerFinalFlush
    BY <2>4 DEF WorkerFinalFlush
  <2>5. CASE WorkerWrite
    BY <2>5 DEF WorkerWrite
  <2>6. CASE WorkerLock \/ WorkerPop \/ WorkerPark \/ WorkerCheck \/ WorkerSpuriousWake
    BY <2>6 DEF WorkerLock, WorkerPop, WorkerPark, WorkerCheck, WorkerSpuriousWake
  <2>7. CASE WorkerNotify \/ WorkerWake \/ WorkerStopLock
    BY <2>7 DEF WorkerNotify, WorkerWake, WorkerStopLock
  <2>8. CASE WorkerStop \/ WriterPanic \/ WorkerPanicked
    BY <2>8 DEF WorkerStop, WriterPanic, WorkerPanicked
  <2> QED  BY <1>2, <2>1, <2>2, <2>3, <2>4, <2>5, <2>6, <2>7, <2>8 DEF WorkerStep
<1>3. CASE UNCHANGED vars
  BY <1>3 DEF vars, queueVars, flushVars, errorVars, writerVars, workerVars
<1> QED  BY <1>1, <1>2, <1>3 DEF Next

\* Once shut down and found empty, the queue stays empty: nobody owns a handle.
LEMMA DrainedNext ==
    ASSUME Safe, StepTypes, StepTypes', HandlesHeld, WorkerHand, Drained, [Next]_vars
    PROVE  Drained'
<1> USE DEF StepTypes, Drained, WorkerHand, LeavingSteps
<1>1. ASSUME NEW t \in Threads, CallStep(t) \/ CallStart(t) \/ WaitSpuriousWake(t)
      PROVE  Drained'
  <2>1. shutdown => events' = events
    <3>1. shutdown => pc[t] \notin {"emitRoom", "emitOverwrite"}
      BY DEF HandlesHeld, EmitSteps
    <3> QED  BY <1>1, <3>1, ThreadLineStep DEF line
  <2> QED  BY <1>1, <2>1, ThreadLeavesFlush
<1>2. CASE WorkerStep \/ WorkerSpuriousWake
  <2> USE DEF queueVars, flushVars, errorVars, writerVars
  <2>1. CASE WorkerPop \/ WorkerWrite
    <3>1. CASE WorkerPop
      BY <3>1 DEF WorkerPop
    <3>2. CASE WorkerWrite
      BY <3>2 DEF WorkerWrite
    <3> QED  BY <2>1, <3>1, <3>2
  <2>2. CASE WorkerFlush \/ WorkerPublish
    BY <2>2 DEF WorkerFlush, WorkerPublish
  <2>3. CASE WorkerStopCheck
    BY <2>3 DEF WorkerStopCheck, ShouldStop
  <2>4. CASE WorkerFinalFlush \/ WorkerStop
    BY <2>4 DEF WorkerFinalFlush, WorkerStop
  <2>5. CASE WorkerLock \/ WorkerPark \/ WorkerCheck \/ WorkerSpuriousWake
    BY <2>5 DEF WorkerLock, WorkerPark, WorkerCheck, WorkerSpuriousWake
  <2>6. CASE WorkerNotify \/ WorkerWake \/ WorkerStopLock
    BY <2>6 DEF WorkerNotify, WorkerWake, WorkerStopLock
  <2>7. CASE WriterPanic \/ WorkerPanicked
    BY <2>7 DEF WriterPanic, WorkerPanicked
  <2> QED  BY <1>2, <2>1, <2>2, <2>3, <2>4, <2>5, <2>6, <2>7 DEF WorkerStep
<1>3. CASE UNCHANGED vars
  BY <1>3 DEF vars, queueVars, flushVars, errorVars, writerVars, workerVars
<1> QED  BY <1>1, <1>2, <1>3 DEF Next
-----------------------------------------------------------------------------
(* SinkStats *)

DecidingSteps == {"emitTryLock", "emitRoom", "emitOverwrite"}

\* A thread that goes to another step joins or leaves those that are deciding.
LEMMA DecidingMoves ==
    ASSUME StepTypes, NEW t \in Threads, NEW step, Goto(t, step)
    PROVE  /\ t \in Deciding <=> pc[t] \in DecidingSteps
           /\ step \in DecidingSteps => Deciding' = Deciding \cup {t}
           /\ step \notin DecidingSteps => Deciding' = Deciding \ {t}
BY DEF StepTypes, Goto, Deciding, DecidingSteps

\* Emits that are deciding, counted as one joins or leaves.
LEMMA DecidingCount ==
    ASSUME IsFiniteSet(Deciding), NEW t
    PROVE  /\ Cardinality(Deciding) \in Nat
           /\ IsFiniteSet(Deciding \cup {t}) /\ IsFiniteSet(Deciding \ {t})
           /\ t \in Deciding => /\ Deciding \cup {t} = Deciding
                                /\ Cardinality(Deciding \ {t}) = Cardinality(Deciding) - 1
           /\ t \notin Deciding => /\ Deciding \ {t} = Deciding
                                   /\ Cardinality(Deciding \cup {t}) = Cardinality(Deciding) + 1
BY FS_CardinalityType, FS_AddElement, FS_RemoveElement

\* What the counters say, as numbers.
Tally(accepted, dropped, overwritten, emits) ==
    /\ stats'.accepted = accepted /\ stats'.dropped = dropped
    /\ stats'.overwritten = overwritten /\ calls'.emit = emits

\* A refused emit is counted once, when it stops deciding.
LEMMA RefusalCounted ==
    ASSUME StepTypes, stats \in StatsRecord, calls \in CallsRecord, Counted,
           NEW t \in Threads, pc[t] \in DecidingSteps, Goto(t, "idle"), CountDropped,
           UNCHANGED <<nextSequence, evicted, calls>>
    PROVE  Counted'
<1>1. t \in Deciding /\ Deciding' = Deciding \ {t}
  BY DecidingMoves DEF DecidingSteps
<1>2. Tally(stats.accepted, stats.dropped + 1, stats.overwritten, calls.emit)
  BY DEF CountDropped, StatsRecord, Tally
<1>3. stats.accepted \in Nat /\ stats.dropped \in Nat /\ calls.emit \in Nat
  BY DEF StatsRecord, CallsRecord
<1>4. /\ IsFiniteSet(Deciding') /\ Cardinality(Deciding) \in Nat
      /\ Cardinality(Deciding') = Cardinality(Deciding) - 1
  BY <1>1, DecidingCount DEF Counted
<1> QED  BY <1>2, <1>3, <1>4 DEF Counted, Tally

\* A record that is pushed counts as accepted, what it evicts as overwritten.
LEMMA PushCounted ==
    ASSUME StepTypes, stats \in StatsRecord, calls \in CallsRecord, Counted,
           nextSequence \in Nat, NEW t \in Threads, pc[t] \in DecidingSteps,
           NEW room, NEW lost, EmitPush(t, room, lost), UNCHANGED calls,
           Cardinality(lost) \in Nat,
           Cardinality(evicted \cup lost) = Cardinality(evicted) + Cardinality(lost)
    PROVE  Counted'
<1>1. t \in Deciding /\ Deciding' = Deciding \ {t}
  BY DecidingMoves DEF DecidingSteps, EmitPush
<1>2. Tally(stats.accepted + 1, stats.dropped, stats.overwritten + Cardinality(lost), calls.emit)
  BY DEF EmitPush, StatsRecord, Tally
<1>3. stats.accepted \in Nat /\ stats.dropped \in Nat /\ calls.emit \in Nat
  BY DEF StatsRecord, CallsRecord
<1>4. /\ IsFiniteSet(Deciding') /\ Cardinality(Deciding) \in Nat
      /\ Cardinality(Deciding') = Cardinality(Deciding) - 1
  BY <1>1, DecidingCount DEF Counted
<1>5. nextSequence' = nextSequence + 1 /\ evicted' = evicted \cup lost
  BY DEF EmitPush
<1> QED  BY <1>2, <1>3, <1>4, <1>5 DEF Counted, Tally

\* A step that is none of emit's business leaves the count alone.
LEMMA StillCounted ==
    ASSUME Counted, stats \in StatsRecord, calls \in CallsRecord,
           UNCHANGED <<nextSequence, evicted>>, Deciding' = Deciding,
           stats' = stats \/ CountWriteError,
           calls' = calls \/ calls' = [calls EXCEPT !.flush = @ + 1]
    PROVE  Counted'
<1>1. /\ stats'.accepted = stats.accepted /\ stats'.dropped = stats.dropped
      /\ stats'.overwritten = stats.overwritten
  BY DEF StatsRecord, CountWriteError
<1>2. calls'.emit = calls.emit
  BY DEF CallsRecord
<1> QED  BY <1>1, <1>2 DEF Counted

\* The four counters and the emits that are still deciding add up.
LEMMA CountedNext ==
    ASSUME Safe, LineTypes, StepTypes, WorkerHand, Ordered, Placed, Counted, [Next]_vars
    PROVE  Counted'
<1>1. stats \in StatsRecord /\ calls \in CallsRecord
  BY DEF Safe, TypeOK
<1>2. ASSUME NEW t \in Threads, CallStep(t)
      PROVE  Counted'
  <2>1. CASE EmitTryLock(t)
    <3>1. CASE queueLock' = t /\ Goto(t, "emitRoom") /\ UNCHANGED stats
      <4>1. Deciding' = Deciding
        BY <2>1, <3>1, DecidingMoves DEF EmitTryLock, DecidingSteps
      <4> QED  BY <1>1, <2>1, <3>1, <4>1, StillCounted DEF EmitTryLock
    <3>2. CASE CountDropped /\ Goto(t, "idle") /\ UNCHANGED queueLock
      BY <1>1, <2>1, <3>2, RefusalCounted DEF EmitTryLock, DecidingSteps
    <3> QED  BY <2>1, <3>1, <3>2 DEF EmitTryLock
  <2>2. CASE EmitRoom(t)
    <3>1. pc[t] \in DecidingSteps /\ UNCHANGED calls
      BY <2>2 DEF EmitRoom, DecidingSteps
    <3>2. CASE EmitPush(t, events, {})
      <4>1. /\ Cardinality({}) = 0 /\ Cardinality(evicted) \in Nat
            /\ evicted \cup {} = evicted
        BY FS_EmptySet, FS_CardinalityType DEF Placed
      <4>2. Cardinality(evicted \cup {}) = Cardinality(evicted) + Cardinality({})
        BY <4>1
      <4>3. nextSequence \in Nat /\ Cardinality({}) \in Nat
        BY <4>1 DEF LineTypes
      <4> QED  BY <1>1, <3>1, <3>2, <4>2, <4>3, PushCounted
    <3>3. CASE EmitRefuse(t)
      BY <1>1, <3>1, <3>3, RefusalCounted DEF EmitRefuse
    <3>4. CASE /\ Goto(t, "emitOverwrite")
               /\ UNCHANGED <<events, queueLock, nextSequence, evicted, stats>>
      <4>1. Deciding' = Deciding
        BY <3>1, <3>4, DecidingMoves DEF DecidingSteps
      <4> QED  BY <1>1, <3>1, <3>4, <4>1, StillCounted
    <3> QED  BY <2>2, <3>2, <3>3, <3>4 DEF EmitRoom
  <2>3. CASE EmitOverwrite(t)
    <3>1. pc[t] \in DecidingSteps /\ UNCHANGED calls
      BY <2>3 DEF EmitOverwrite, DecidingSteps
    <3>2. CASE EmitPush(t, Tail(events), {Head(events)})
      <4>1. events # <<>>
        BY <2>3 DEF EmitOverwrite, Safe, OldestIsThere
      <4>2. Head(events) \notin evicted
        <5>1. Head(events) \in Nat /\ \A e \in evicted : e < Head(events)
          BY <4>1, ElementsMove DEF LineTypes, Ordered
        <5> QED  BY <5>1
      <4>3. Cardinality({Head(events)}) = 1
        BY FS_Singleton
      <4>4. Cardinality(evicted \cup {Head(events)}) = Cardinality(evicted) + 1
        BY <4>2, FS_AddElement DEF Placed
      <4>5. nextSequence \in Nat /\ Cardinality({Head(events)}) \in Nat
        BY <4>3 DEF LineTypes
      <4>6. Cardinality(evicted \cup {Head(events)})
              = Cardinality(evicted) + Cardinality({Head(events)})
        BY <4>3, <4>4
      <4> QED  BY <1>1, <3>1, <3>2, <4>5, <4>6, PushCounted
    <3>3. CASE EmitRefuse(t)
      BY <1>1, <3>1, <3>3, RefusalCounted DEF EmitRefuse
    <3> QED  BY <2>3, <3>2, <3>3 DEF EmitOverwrite
  <2>4. CASE ~EmitTryLock(t) /\ ~EmitRoom(t) /\ ~EmitOverwrite(t)
    <3> USE DEF queueVars, flushVars, errorVars, barrierVars, writerVars, workerVars
    <3>1. /\ UNCHANGED <<nextSequence, evicted, stats, calls>>
          /\ \E step \in ThreadSteps \ DecidingSteps : Goto(t, step)
          /\ pc[t] \notin DecidingSteps
      <4>1. CASE EmitNotify(t)
        BY <4>1 DEF EmitNotify, ThreadSteps, DecidingSteps
      <4>2. CASE FlushLock(t) \/ FlushRead(t) \/ FlushPublish(t) \/ FlushNotify(t)
        BY <4>2 DEF FlushLock, FlushRead, FlushPublish, FlushNotify, ThreadSteps, DecidingSteps
      <4>3. CASE WaitLock(t) \/ ResultFlushed(t) \/ PollRegister(t)
        BY <4>3 DEF WaitLock, ResultFlushed, PollRegister, ThreadSteps, DecidingSteps
      <4>4. CASE ResultStopped(t) \/ ResultErrors(t)
        BY <4>4 DEF ResultStopped, ResultErrors, Answer, ThreadSteps, DecidingSteps
      <4>5. CASE DropShutdown(t) \/ DropRequest(t) \/ DropNotify(t) \/ DropJoin(t)
        BY <4>5 DEF DropShutdown, DropRequest, DropNotify, DropJoin, ThreadSteps, DecidingSteps
      <4> QED  BY <1>2, <2>4, <4>1, <4>2, <4>3, <4>4, <4>5 DEF CallStep
    <3>2. Deciding' = Deciding
      BY <3>1, DecidingMoves
    <3> QED  BY <1>1, <3>1, <3>2, StillCounted
  <2> QED  BY <2>1, <2>2, <2>3, <2>4
<1>3. ASSUME NEW t \in Threads, CallStart(t) \/ WaitSpuriousWake(t)
      PROVE  Counted'
  <2> USE DEF queueVars
  <2>1. CASE EmitStart(t)
    <3>1. /\ calls' = [calls EXCEPT !.emit = @ + 1] /\ UNCHANGED <<nextSequence, evicted>>
          /\ pc[t] = "idle"
          /\ \/ CountDropped /\ UNCHANGED pc
             \/ Goto(t, "emitTryLock") /\ UNCHANGED stats
      BY <2>1 DEF EmitStart
    <3>2. /\ stats.accepted \in Nat /\ stats.dropped \in Nat /\ calls.emit \in Nat
          /\ calls'.emit = calls.emit + 1
      BY <1>1, <3>1 DEF StatsRecord, CallsRecord
    <3>3. CASE CountDropped /\ UNCHANGED pc
      <4>1. Deciding' = Deciding /\ Cardinality(Deciding) \in Nat
        BY <3>3, DecidingCount DEF Deciding, Counted
      <4>2. Tally(stats.accepted, stats.dropped + 1, stats.overwritten, calls.emit + 1)
        BY <1>1, <3>2, <3>3 DEF CountDropped, StatsRecord, Tally
      <4> QED  BY <3>1, <3>2, <4>1, <4>2 DEF Counted, Tally
    <3>4. CASE Goto(t, "emitTryLock") /\ UNCHANGED stats
      <4>1. t \notin Deciding /\ Deciding' = Deciding \cup {t}
        BY <3>1, <3>4, DecidingMoves DEF DecidingSteps
      <4>2. /\ IsFiniteSet(Deciding') /\ Cardinality(Deciding) \in Nat
            /\ Cardinality(Deciding') = Cardinality(Deciding) + 1
        BY <4>1, DecidingCount DEF Counted
      <4> QED  BY <3>1, <3>2, <3>4, <4>2 DEF Counted
    <3> QED  BY <3>1, <3>3, <3>4
  <2>2. CASE FlushStart(t) \/ WaitStart(t) \/ PollStart(t) \/ ReleaseHandle(t) \/ WaitSpuriousWake(t)
    <3>1. /\ UNCHANGED <<nextSequence, evicted, stats>>
          /\ calls' = calls \/ calls' = [calls EXCEPT !.flush = @ + 1]
          /\ \E step \in ThreadSteps \ DecidingSteps : Goto(t, step)
          /\ pc[t] \notin DecidingSteps
      BY <2>2 DEF FlushStart, WaitStart, PollStart, ReleaseHandle, WaitSpuriousWake,
                  ThreadSteps, DecidingSteps
    <3>2. Deciding' = Deciding
      BY <3>1, DecidingMoves
    <3> QED  BY <1>1, <3>1, <3>2, StillCounted
  <2> QED  BY <1>3, <2>1, <2>2 DEF CallStart
<1>4. CASE WorkerStep \/ WorkerSpuriousWake
  <2>1. UNCHANGED <<nextSequence, evicted>>
    BY <1>4, WorkerLineStep DEF line, Popped, Handed
  <2>2. Deciding' = Deciding /\ calls' = calls /\ (stats' = stats \/ CountWriteError)
    <3>1. CASE WorkerNotify
      BY <3>1 DEF WorkerNotify, Deciding, StepTypes
    <3>2. CASE ~WorkerNotify
      <4>1. pc' = pc /\ calls' = calls /\ (stats' = stats \/ CountWriteError)
        BY <1>4, <3>2
           DEF WorkerStep, WorkerLock, WorkerPop, WorkerPark, WorkerWrite, WorkerCheck,
               WorkerFlush, WorkerPublish, WorkerWake, WorkerStopLock, WorkerStopCheck,
               WorkerFinalFlush, WorkerStop, WriterPanic, WorkerPanicked, WorkerSpuriousWake
      <4> QED  BY <4>1 DEF Deciding
    <3> QED  BY <3>1, <3>2
  <2> QED  BY <1>1, <2>1, <2>2, StillCounted
<1>5. CASE UNCHANGED vars
  BY <1>1, <1>5, StillCounted DEF vars, queueVars, Deciding
<1> QED  BY <1>2, <1>3, <1>4, <1>5 DEF Next

\* No call of a thread is the writer's mishap.
LEMMA ThreadHasNoMishap ==
    ASSUME stats \in StatsRecord, NEW t \in Threads,
           CallStep(t) \/ CallStart(t) \/ WaitSpuriousWake(t)
    PROVE  /\ failed' = failed /\ mishaps' = mishaps
           /\ stats'.writeErrors = stats.writeErrors
           /\ wpc' = "panicked" <=> wpc = "panicked"
<1> USE DEF queueVars, flushVars, errorVars, writerVars, workerVars
<1>1. CountDropped => stats'.writeErrors = stats.writeErrors
  BY DEF CountDropped, StatsRecord
<1>2. NotifyWork => (wpc' = "panicked" <=> wpc = "panicked")
  BY DEF NotifyWork
<1>3. \A room, lost : EmitPush(t, room, lost) => stats'.writeErrors = stats.writeErrors
  BY DEF EmitPush, StatsRecord
<1>4. CASE EmitTryLock(t) \/ EmitNotify(t)
  BY <1>1, <1>2, <1>4 DEF EmitTryLock, EmitNotify
<1>5. CASE EmitRoom(t)
  BY <1>1, <1>3, <1>5 DEF EmitRoom, EmitRefuse
<1>6. CASE EmitOverwrite(t)
  BY <1>1, <1>3, <1>6 DEF EmitOverwrite, EmitRefuse
<1>7. CASE FlushLock(t) \/ FlushRead(t) \/ FlushPublish(t) \/ FlushNotify(t)
  BY <1>2, <1>7 DEF FlushLock, FlushRead, FlushPublish, FlushNotify
<1>8. CASE \/ WaitLock(t) \/ ResultFlushed(t) \/ ResultStopped(t)
           \/ ResultErrors(t) \/ PollRegister(t)
  BY <1>8 DEF WaitLock, ResultFlushed, ResultStopped, ResultErrors, PollRegister
<1>9. CASE DropShutdown(t) \/ DropRequest(t) \/ DropNotify(t) \/ DropJoin(t)
  BY <1>2, <1>9 DEF DropShutdown, DropRequest, DropNotify, DropJoin
<1>10. CASE CallStart(t) \/ WaitSpuriousWake(t)
  BY <1>1, <1>10 DEF CallStart, EmitStart, FlushStart, WaitStart, PollStart,
                     ReleaseHandle, WaitSpuriousWake
<1> QED  BY <1>4, <1>5, <1>6, <1>7, <1>8, <1>9, <1>10 DEF CallStep

\* A refused record is a new one, a failed flush is counted at once, and a panic
\* when it has unwound the worker's loop.
LEMMA MishapsNext ==
    ASSUME stats \in StatsRecord, mishaps \in Nat, LineTypes, Ordered, Placed, MishapsCounted,
           WorkerHand, [Next]_vars
    PROVE  MishapsCounted'
<1> USE DEF queueVars, flushVars, errorVars, writerVars
<1>1. IsFiniteSet(failed) /\ Cardinality(failed) \in Nat /\ stats.writeErrors \in Nat
  BY FS_CardinalityType DEF Placed, StatsRecord
<1>2. CountWriteError => stats'.writeErrors = stats.writeErrors + 1
  BY DEF CountWriteError, StatsRecord
<1>3. ASSUME failed' = failed, mishaps' = mishaps, stats'.writeErrors = stats.writeErrors,
             wpc' = "panicked" <=> wpc = "panicked"
      PROVE  MishapsCounted'
  BY <1>3 DEF MishapsCounted, PanicUncounted
<1>4. CASE \E t \in Threads : CallStep(t) \/ CallStart(t) \/ WaitSpuriousWake(t)
  BY <1>3, <1>4, ThreadHasNoMishap
<1>5. CASE WorkerWrite
  <2>1. wpc # "panicked" /\ wpc' # "panicked" /\ mishaps' = mishaps
    BY <1>5 DEF WorkerWrite
  <2>2. CASE UNCHANGED <<failed, writeError, stats>>
    BY <1>3, <2>1, <2>2
  <2>3. CASE failed' = failed \cup {cur} /\ CountWriteError
    <3>1. cur \notin failed
      <4>1. cur # 0
        BY <1>5 DEF WorkerWrite, WorkerHand
      <4> QED  BY <4>1 DEF Ordered, LineTypes
    <3>2. Cardinality(failed') = Cardinality(failed) + 1
      BY <1>1, <2>3, <3>1, FS_AddElement
    <3> QED  BY <1>1, <1>2, <2>1, <2>3, <3>2 DEF MishapsCounted, PanicUncounted
  <2> QED  BY <1>5, <2>2, <2>3 DEF WorkerWrite
<1>6. CASE WorkerFlush
  <2>1. wpc # "panicked" /\ wpc' # "panicked" /\ failed' = failed
    BY <1>6 DEF WorkerFlush
  <2>2. CASE UNCHANGED <<stats, mishaps>>
    BY <1>3, <2>1, <2>2
  <2>3. CASE mishaps' = mishaps + 1 /\ CountWriteError
    BY <1>1, <1>2, <2>1, <2>3 DEF MishapsCounted, PanicUncounted
  <2> QED  BY <1>6, <2>2, <2>3 DEF WorkerFlush
<1>7. CASE WriterPanic
  <2>1. /\ wpc # "panicked" /\ wpc' = "panicked" /\ failed' = failed
        /\ stats' = stats /\ mishaps' = mishaps + 1
    BY <1>7 DEF WriterPanic
  <2> QED  BY <1>1, <2>1 DEF MishapsCounted, PanicUncounted
<1>8. CASE WorkerPanicked
  <2>1. /\ wpc = "panicked" /\ wpc' # "panicked" /\ failed' = failed
        /\ mishaps' = mishaps /\ CountWriteError
    BY <1>8 DEF WorkerPanicked
  <2> QED  BY <1>1, <1>2, <2>1 DEF MishapsCounted, PanicUncounted
<1>9. CASE \/ WorkerLock \/ WorkerPop \/ WorkerPark \/ WorkerCheck \/ WorkerPublish
           \/ WorkerNotify \/ WorkerWake \/ WorkerSpuriousWake
  <2>1. /\ failed' = failed /\ mishaps' = mishaps /\ stats' = stats
        /\ wpc # "panicked" /\ wpc' # "panicked"
    BY <1>9 DEF WorkerLock, WorkerPop, WorkerPark, WorkerCheck, WorkerPublish,
                WorkerNotify, WorkerWake, WorkerSpuriousWake
  <2> QED  BY <1>3, <2>1
<1>10. CASE WorkerStopLock \/ WorkerStopCheck \/ WorkerFinalFlush \/ WorkerStop
  <2>1. /\ failed' = failed /\ mishaps' = mishaps /\ stats' = stats
        /\ wpc # "panicked" /\ wpc' # "panicked"
    BY <1>10 DEF WorkerStopLock, WorkerStopCheck, WorkerFinalFlush, WorkerStop
  <2> QED  BY <1>3, <2>1
<1>11. CASE UNCHANGED vars
  BY <1>3, <1>11 DEF vars, workerVars
<1> QED  BY <1>4, <1>5, <1>6, <1>7, <1>8, <1>9, <1>10, <1>11 DEF Next, WorkerStep
-----------------------------------------------------------------------------
(* The inductive invariant and what it gives *)

Inv == Safe /\ SinkInv

LEMMA SinkInvInit == Init => Inv
<1> SUFFICES ASSUME Init PROVE Inv
  OBVIOUS
<1>1. Safe
  BY SafeInit
<1>2. Line
  <2>1. HandlesHeld /\ BarrierPhase /\ WorkerHand
    BY DEF Init, HandlesHeld, BarrierPhase, WorkerHand, EmitSteps, FlushSteps, DropSteps,
           WaitSteps
  <2>2. Ordered /\ NewestIsLast
    BY DEF Init, Ordered, NewestIsLast, Increasing, Elements
  <2>3. RoomKept
    BY CapacityAssumption DEF Init, RoomKept
  <2> QED  BY <2>1, <2>2, <2>3 DEF Line
<1>3. Placed
  BY FS_EmptySet DEF Init, Placed, Elements, InFlight
<1>4. Counted
  <2>1. Deciding = {}
    BY DEF Init, Deciding
  <2> QED  BY <2>1, FS_EmptySet DEF Init, Counted
<1>5. MishapsCounted
  BY FS_EmptySet DEF Init, MishapsCounted, PanicUncounted
<1>6. FlushIsDurable /\ Drained /\ FirstRefusal
  BY DEF Init, FlushIsDurable, Drained, FirstRefusal
<1> QED  BY <1>1, <1>2, <1>3, <1>4, <1>5, <1>6 DEF Inv, SinkInv

LEMMA SinkInvNext == Inv /\ [Next]_vars => Inv'
<1> SUFFICES ASSUME Inv, [Next]_vars PROVE Inv'
  OBVIOUS
<1>1. Safe /\ Safe'
  BY SafeNext DEF Inv
<1>2. StepTypes /\ LineTypes /\ StepTypes' /\ LineTypes'
  <2>1. TypeOK /\ TypeOK'
    BY <1>1 DEF Safe
  <2> QED  BY <2>1, TypesSuffice DEF StepTypes, LineTypes, TypeOK
<1>3. /\ HandlesHeld /\ BarrierPhase /\ WorkerHand /\ Ordered /\ NewestIsLast /\ RoomKept
      /\ Placed /\ Counted /\ MishapsCounted /\ FlushIsDurable /\ Drained /\ FirstRefusal
  BY DEF Inv, SinkInv, Line
<1>4. UNCHANGED line \/ PushedNew \/ PushedOver \/ Popped \/ Handed
  BY <1>1, <1>3, LineStep
<1>5. Line'
  <2>1. Ordered' /\ NewestIsLast'
    BY <1>2, <1>3, <1>4, OrderedNext, NewestNext
  <2>2. HandlesHeld' /\ BarrierPhase' /\ WorkerHand'
    BY <1>2, <1>3, HandlesNext, BarrierNext, HandNext
  <2>3. RoomKept'
    BY <1>1, <1>2, <1>3, RoomNext
  <2> QED  BY <2>1, <2>2, <2>3 DEF Line
<1>6. Placed' /\ Counted'
  BY <1>1, <1>2, <1>3, <1>4, PlacedNext, CountedNext
<1>7. FlushIsDurable' /\ Drained'
  BY <1>1, <1>2, <1>3, DurableNext, DrainedNext
<1>8. FirstRefusal'
  <2>1. writeError \in Nat
    BY <1>2 DEF StepTypes
  <2> QED  BY <1>2, <1>3, <1>4, <2>1, FirstRefusalNext
<1>9. MishapsCounted'
  <2>1. stats \in StatsRecord /\ mishaps \in Nat
    BY <1>1 DEF Safe, TypeOK
  <2> QED  BY <1>2, <1>3, <2>1, MishapsNext
<1> QED  BY <1>1, <1>5, <1>6, <1>7, <1>8, <1>9 DEF Inv, SinkInv

LEMMA InvHolds == Spec => []Inv
BY SinkInvInit, SinkInvNext, PTL DEF Spec

\* Every record that emit numbered is in exactly one place, every emit in
\* exactly one counter, whatever collides on the try_lock, and every refusal,
\* failed flush and panic of the writer in write_errors.
THEOREM LossIsAccounted == Spec => []LossAccounted
<1>1. Inv => LossAccounted
  BY DEF Inv, SinkInv, Placed, Counted, MishapsCounted, LossAccounted
<1> QED  BY <1>1, InvHolds, PTL

\* Two increasing sequences, the first below the second.
LEMMA IncreasingConcat ==
    ASSUME NEW s \in Seq(Nat), NEW u \in Seq(Nat), Increasing(s), Increasing(u),
           \A x \in Elements(s), y \in Elements(u) : x < y
    PROVE  /\ s \o u \in Seq(Nat) /\ Increasing(s \o u)
           /\ Elements(s \o u) = Elements(s) \cup Elements(u)
<1> DEFINE c == s \o u
<1>1. /\ c \in Seq(Nat) /\ Len(c) = Len(s) + Len(u) /\ Len(s) \in Nat /\ Len(u) \in Nat
      /\ \A i \in 1..Len(s) : c[i] = s[i]
      /\ \A i \in 1..Len(u) : c[Len(s) + i] = u[i]
  OBVIOUS
<1>2. \A i \in 1..Len(c) : i \in 1..Len(s) \/ \E k \in 1..Len(u) : i = Len(s) + k
  <2> SUFFICES ASSUME NEW i \in 1..Len(c), i \notin 1..Len(s)
               PROVE  \E k \in 1..Len(u) : i = Len(s) + k
    OBVIOUS
  <2>1. i - Len(s) \in 1..Len(u) /\ i = Len(s) + (i - Len(s))
    BY <1>1
  <2> QED  BY <2>1
<1> HIDE DEF c
<1>3. Increasing(c)
  <2> SUFFICES ASSUME NEW i \in 1..Len(c), NEW j \in 1..Len(c), i < j
               PROVE  c[i] < c[j]
    BY DEF Increasing
  <2>1. CASE i \in 1..Len(s) /\ j \in 1..Len(s)
    BY <1>1, <2>1 DEF Increasing
  <2>2. CASE i \in 1..Len(s) /\ j \notin 1..Len(s)
    <3>1. PICK k \in 1..Len(u) : j = Len(s) + k
      BY <1>2, <2>2
    <3> QED  BY <1>1, <2>2, <3>1 DEF Elements
  <2>3. CASE i \notin 1..Len(s)
    <3>1. PICK k \in 1..Len(u) : i = Len(s) + k
      BY <1>2, <2>3
    <3>2. j \notin 1..Len(s)
      BY <1>1, <2>3
    <3>3. PICK l \in 1..Len(u) : j = Len(s) + l
      BY <1>2, <3>2
    <3>4. k < l
      BY <1>1, <3>1, <3>3
    <3> QED  BY <1>1, <3>1, <3>3, <3>4 DEF Increasing
  <2> QED  BY <2>1, <2>2, <2>3
<1>4. Elements(c) \subseteq Elements(s) \cup Elements(u)
  <2>1. \A i \in 1..Len(c) : c[i] \in Elements(s) \cup Elements(u)
    <3>1. \A i \in 1..Len(s) : c[i] \in Elements(s)
      BY <1>1 DEF Elements
    <3>2. \A i \in 1..Len(u) : c[Len(s) + i] \in Elements(u)
      BY <1>1 DEF Elements
    <3> QED  BY <1>2, <3>1, <3>2
  <2> QED  BY <2>1 DEF Elements
<1>5. Elements(s) \cup Elements(u) \subseteq Elements(c)
  <2>1. \A i \in 1..Len(s) : i \in 1..Len(c)
    BY <1>1
  <2>2. \A i \in 1..Len(u) : Len(s) + i \in 1..Len(c)
    BY <1>1
  <2>3. Elements(s) \subseteq Elements(c)
    BY <1>1, <2>1 DEF Elements
  <2>4. Elements(u) \subseteq Elements(c)
    BY <1>1, <2>2 DEF Elements
  <2> QED  BY <2>3, <2>4
<1> QED  BY <1>1, <1>3, <1>4, <1>5 DEF c

\* The writer sees records in the order emit numbered them, and the queue
\* keeps its bound, through eviction, failed writes and the unlocked window.
THEOREM FifoKept == Spec => []FifoWithinCapacity
<1>1. Inv => FifoWithinCapacity
  <2> SUFFICES ASSUME Inv PROVE FifoWithinCapacity
    OBVIOUS
  <2>1. LineTypes /\ Ordered /\ RoomKept
    BY TypesSuffice DEF Inv, Safe, SinkInv, Line
  <2>2. /\ Elements(InFlight) = IF cur = 0 THEN {} ELSE {cur}
        /\ InFlight \in Seq(Nat) /\ Increasing(InFlight)
    BY <2>1, HandIs DEF LineTypes, InFlight, Increasing
  <2>3. /\ Elements(events) \subseteq Nat /\ Elements(written) \subseteq Nat
        /\ Elements(InFlight) \subseteq Nat
        /\ processed \in Nat /\ cur \in Nat /\ failed \subseteq Nat
        /\ events \in Seq(Nat) /\ written \in Seq(Nat)
    BY <2>1, <2>2, ElementsMove DEF LineTypes
  <2>4. /\ \A x \in Elements(written) \cup failed : x <= processed
        /\ \A x \in Elements(InFlight) : processed < x
        /\ \A y \in Elements(events) : processed < y /\ cur < y
    BY <2>1, <2>2 DEF Ordered
  <2>5. /\ \A x \in Elements(written) \cup failed, y \in Elements(InFlight) : x < y
        /\ \A x \in Elements(written) \cup failed, y \in Elements(events) : x < y
        /\ \A x \in Elements(InFlight), y \in Elements(events) : x < y
    <3>1. \A x \in Elements(written) \cup failed :
             x \in Nat /\ \A y \in Nat : processed < y => x < y
      <4>1. \A x, y \in Nat : x <= processed /\ processed < y => x < y
        BY <2>3
      <4>2. Elements(written) \cup failed \subseteq Nat
        BY <2>3
      <4> QED  BY <2>4, <4>1, <4>2
    <3>2. \A x \in Elements(InFlight) : x = cur
      BY <2>2
    <3>3. \A y \in Elements(InFlight) \cup Elements(events) : y \in Nat /\ processed < y
      BY <2>3, <2>4
    <3> QED  BY <2>4, <3>1, <3>2, <3>3
  <2>6. Increasing(events) /\ Increasing(written)
    BY <2>1 DEF Ordered
  <2>7. /\ written \o InFlight \in Seq(Nat) /\ Increasing(written \o InFlight)
        /\ Elements(written \o InFlight) = Elements(written) \cup Elements(InFlight)
    BY <2>2, <2>3, <2>5, <2>6, IncreasingConcat
  <2>8. Increasing(written \o InFlight \o events)
    BY <2>3, <2>5, <2>6, <2>7, IncreasingConcat
  <2>9. Elements(InFlight \o events) = Elements(InFlight) \cup Elements(events)
    BY <2>2, <2>3, <2>5, <2>6, IncreasingConcat
  <2>10. Len(events) <= Capacity
    BY <2>1 DEF RoomKept
  <2> QED  BY <2>5, <2>8, <2>9, <2>10 DEF FifoWithinCapacity
<1> QED  BY <1>1, InvHolds, PTL

\* A worker that stopped without a panic handed every accepted record to the
\* writer and covers every barrier: AsyncInner::drop loses nothing.
THEOREM StopDrains == Spec => []StoppedMeansDrained
<1>1. Inv => StoppedMeansDrained
  BY DEF Inv, SinkInv, Line, Drained, NewestIsLast, StoppedMeansDrained
<1> QED  BY <1>1, InvHolds, PTL

\* Only ResultErrors answers a barrier Ok, and nobody changes its target then.
LEMMA WhoAnswersOk ==
    ASSUME StepTypes, [Next]_vars, NEW t \in Threads, Answered(t, "ok")
    PROVE  /\ pc[t] = "resultErrors"
           /\ ~FlushFailed(barrier[t].target) /\ ~WriteFailed(barrier[t].target)
<1> USE DEF Answered, StepTypes, BarrierRecord, barrierVars
<1>1. ASSUME NEW u \in Threads, CallStep(u)
      PROVE  pc[t] = "resultErrors" /\ ~FlushFailed(barrier[t].target)
                 /\ ~WriteFailed(barrier[t].target)
  <2>1. CASE ResultErrors(u)
    BY <2>1 DEF ResultErrors, Answer
  <2>2. CASE ResultStopped(u)
    BY <2>2 DEF ResultStopped, Answer
  <2>3. CASE FlushRead(u) \/ FlushNotify(u)
    BY <2>3 DEF FlushRead, FlushNotify
  <2>4. CASE EmitTryLock(u) \/ EmitRoom(u) \/ EmitOverwrite(u) \/ EmitNotify(u)
    BY <2>4 DEF EmitTryLock, EmitRoom, EmitOverwrite, EmitNotify
  <2>5. CASE \/ FlushLock(u) \/ FlushPublish(u) \/ WaitLock(u) \/ ResultFlushed(u)
             \/ PollRegister(u)
    BY <2>5 DEF FlushLock, FlushPublish, WaitLock, ResultFlushed, PollRegister
  <2>6. CASE DropShutdown(u) \/ DropRequest(u) \/ DropNotify(u) \/ DropJoin(u)
    BY <2>6 DEF DropShutdown, DropRequest, DropNotify, DropJoin
  <2> QED  BY <1>1, <2>1, <2>2, <2>3, <2>4, <2>5, <2>6 DEF CallStep
<1>2. ASSUME NEW u \in Threads, CallStart(u) \/ WaitSpuriousWake(u)
      PROVE  FALSE
  BY <1>2 DEF CallStart, EmitStart, FlushStart, WaitStart, PollStart, ReleaseHandle,
              WaitSpuriousWake
<1>3. ~(WorkerStep \/ WorkerSpuriousWake)
  BY DEF WorkerStep, WorkerLock, WorkerPop, WorkerPark, WorkerWrite, WorkerCheck,
         WorkerFlush, WorkerPublish, WorkerNotify, WorkerWake, WorkerStopLock,
         WorkerStopCheck, WorkerFinalFlush, WorkerStop, WriterPanic, WorkerPanicked,
         WorkerSpuriousWake
<1>4. ~(UNCHANGED vars)
  BY DEF vars
<1> QED  BY <1>1, <1>2, <1>3, <1>4 DEF Next

\* While the sink lives, Ok means that a writer.flush succeeded after the
\* barrier's last record.
THEOREM OkIsDurable == Spec => LiveOkIsDurable
<1>1. ASSUME Inv, [Next]_vars, NEW t \in Threads, Answered(t, "ok")
      PROVE  shutdown \/ durable >= barrier[t].target
  <2>1. StepTypes /\ BarrierPhase /\ FlushIsDurable
    BY <1>1, TypesSuffice DEF Inv, Safe, SinkInv, Line
  <2>2. pc[t] = "resultErrors" /\ ~FlushFailed(barrier[t].target)
    BY <1>1, <2>1, WhoAnswersOk
  <2>3. flushed >= barrier[t].target
    BY <2>1, <2>2 DEF BarrierPhase
  <2>4. /\ barrier[t].target \in Nat /\ flushed \in Nat /\ durable \in Nat
        /\ flushError \in Nat
    BY <2>1 DEF StepTypes, BarrierRecord
  <2> QED  BY <2>1, <2>2, <2>3, <2>4 DEF FlushIsDurable, FlushFailed
<1>2. Inv /\ [Next]_vars =>
         [\A t \in Threads : Answered(t, "ok") => shutdown \/ durable >= barrier[t].target]_vars
  BY <1>1
<1> QED  BY <1>2, InvHolds, PTL DEF Spec, LiveOkIsDurable

\* An emit evicts a record a barrier covers only if it loaded requested_flush
\* before the barrier's flush raised it.
THEOREM EvictionsLookedEarlier == Spec => OnlyAnEarlierLookEvicts
<1>1. ASSUME Inv, [Next]_vars, NEW s \in evicted' \ evicted, NEW b \in Threads,
             barrier[b].answer = "open", s <= barrier[b].target
      PROVE  \E t \in Threads : pc[t] = "emitOverwrite" /\ pc'[t] # pc[t]
                                   /\ seen[t] < barrier[b].target
  <2>1. StepTypes /\ LineTypes /\ Ordered /\ WorkerHand /\ Safe
    BY <1>1, TypesSuffice DEF Inv, Safe, SinkInv, Line
  <2>2. PICK t \in Threads : EmitOverwrite(t)
    <3>1. evicted' # evicted
      BY <1>1
    <3>2. ASSUME NEW t \in Threads, CallStep(t) \/ CallStart(t) \/ WaitSpuriousWake(t)
          PROVE  EmitOverwrite(t)
      <4>1. pc[t] \in {"emitRoom", "emitOverwrite"}
        BY <2>1, <3>1, <3>2, ThreadLineStep DEF line
      <4>2. EmitRoom(t) \/ EmitOverwrite(t)
        BY <3>2, <4>1
           DEF CallStep, CallStart, WaitSpuriousWake, EmitTryLock, EmitNotify, FlushLock,
               FlushRead, FlushPublish, FlushNotify, WaitLock, ResultFlushed, ResultStopped,
               ResultErrors, PollRegister, DropShutdown, DropRequest, DropNotify, DropJoin,
               EmitStart, FlushStart, WaitStart, PollStart, ReleaseHandle
      <4>3. ~EmitRoom(t)
        BY <3>1 DEF EmitRoom, EmitPush, EmitRefuse
      <4> QED  BY <4>2, <4>3
    <3>3. ~(WorkerStep \/ WorkerSpuriousWake)
      BY <2>1, <3>1, WorkerLineStep DEF line, Popped, Handed
    <3>4. ~(UNCHANGED vars)
      BY <3>1 DEF vars, queueVars
    <3> QED  BY <1>1, <3>2, <3>3, <3>4 DEF Next
  <2>3. ~Guaranteed(t) /\ evicted' = evicted \cup {Head(events)} /\ pc'[t] # pc[t]
    <3>1. EmitPush(t, Tail(events), {Head(events)}) /\ ~Guaranteed(t)
      BY <1>1, <2>2 DEF EmitOverwrite, EmitRefuse
    <3>2. pc[t] = "emitOverwrite" /\ pc' = [pc EXCEPT ![t] = "emitNotify"]
      BY <2>2, <3>1 DEF EmitOverwrite, EmitPush, Goto
    <3>3. pc'[t] = "emitNotify"
      BY <2>1, <3>2 DEF StepTypes
    <3> QED  BY <3>1, <3>2, <3>3 DEF EmitPush
  <2>4. s = Head(events) /\ pc[t] = "emitOverwrite"
    BY <1>1, <2>2, <2>3 DEF EmitOverwrite
  <2>5. processed < s
    <3>1. events # <<>>
      BY <2>1, <2>4 DEF Safe, OldestIsThere
    <3>2. Head(events) \in Elements(events)
      BY <2>1, <3>1 DEF LineTypes, Elements
    <3> QED  BY <2>1, <2>4, <3>2 DEF Ordered
  <2>6. /\ seen[t] \in Nat /\ flushed \in Nat /\ processed \in Nat /\ s \in Nat
        /\ barrier[b].target \in Nat
    <3>1. seen[t] \in Nat
      BY <2>1 DEF Safe, TypeOK
    <3>2. s \in Nat
      <4>1. events # <<>>
        BY <2>1, <2>4 DEF Safe, OldestIsThere
      <4> QED  BY <2>1, <2>4, <4>1 DEF LineTypes
    <3> QED  BY <2>1, <3>1, <3>2 DEF StepTypes, LineTypes, BarrierRecord
  <2>7. flushed <= processed
    BY <2>1 DEF WorkerHand
  <2>8. seen[t] < barrier[b].target
    BY <1>1, <2>3, <2>4, <2>5, <2>6, <2>7 DEF Guaranteed
  <2> QED  BY <2>3, <2>4, <2>8
<1>2. Inv /\ [Next]_vars =>
         [\A s \in evicted' \ evicted, b \in Threads :
            barrier[b].answer = "open" /\ s <= barrier[b].target =>
                \E t \in Threads : pc[t] = "emitOverwrite" /\ pc'[t] # pc[t]
                                     /\ seen[t] < barrier[b].target]_vars
  BY <1>1
<1> QED  BY <1>2, InvHolds, PTL DEF Spec, OnlyAnEarlierLookEvicts

-----------------------------------------------------------------------------
(* The sink implements SinkContract                                          *)

Shown == [t \in Threads |->
            [target |-> barrier[t].target,
             answer |-> IF barrier[t].answer = "open" THEN "none" ELSE barrier[t].answer]]

\* What a covered barrier asked for has left the line.
LEMMA CoveredIsSettled ==
    ASSUME LineTypes, Ordered, Placed, WorkerHand, flushed \in Nat,
           NEW target \in Nat, flushed >= target
    PROVE  \A s \in 1..target :
              /\ s \notin Elements(events) /\ s # cur
              /\ target <= nextSequence
              /\ s \in Elements(written) \cup failed \cup evicted
<1> SUFFICES ASSUME NEW s \in 1..target
             PROVE  /\ s \notin Elements(events) /\ s # cur
                    /\ target <= nextSequence
                    /\ s \in Elements(written) \cup failed \cup evicted
  OBVIOUS
<1>1. /\ processed \in Nat /\ nextSequence \in Nat /\ cur \in Nat
      /\ processed <= nextSequence /\ flushed <= processed
  BY DEF LineTypes, Ordered, WorkerHand
<1>2. s <= processed /\ s \in 1..nextSequence /\ s # 0 /\ target <= nextSequence
  BY <1>1
<1>3. s \notin Elements(events)
  <2>1. \A q \in Elements(events) : q \in Nat /\ processed < q
    BY ElementsMove DEF LineTypes, Ordered
  <2> QED  BY <1>1, <1>2, <2>1
<1>4. s # cur
  <2>1. cur # 0 => processed < cur
    BY DEF Ordered
  <2> QED  BY <1>1, <1>2, <2>1
<1>5. s \notin Elements(InFlight)
  BY <1>1, <1>2, <1>4, HandIs
<1>6. s \in Elements(events) \cup Elements(InFlight) \cup Elements(written) \cup failed \cup evicted
  BY <1>2 DEF Placed
<1> QED  BY <1>2, <1>3, <1>4, <1>5, <1>6

\* The line and the answers, as the contract sees them.
LEMMA ContractStill ==
    UNCHANGED line /\ stopped' = stopped /\ Shown' = Shown => UNCHANGED Contract!vars
BY DEF line, Shown, Contract!vars

\* A push is an acceptance, with or without an eviction.
LEMMA ContractPush ==
    ASSUME LineTypes, Len(events) <= Capacity, PushedNew \/ PushedOver,
           PushedOver => Len(events) = Capacity,
           stopped' = stopped, Shown' = Shown
    PROVE  Contract!Next
<1>1. CASE PushedNew
  <2>1. Len(events) < Capacity
    BY <1>1, CapacityAssumption DEF LineTypes, PushedNew
  <2> QED  BY <1>1, <2>1 DEF PushedNew, Shown, Contract!Next, Contract!Accept
<1>2. CASE PushedOver
  <2>1. Capacity > 0 /\ Len(events) = Capacity
    BY <1>2, TailMoves DEF LineTypes, PushedOver
  <2> QED  BY <1>2, <2>1 DEF PushedOver, Shown, Contract!Next, Contract!AcceptEvicting
<1> QED  BY <1>1, <1>2

\* An answer is justified: Ok by what was written or evicted, an error by a
\* settled prefix, BrokenPipe by the stop.
LEMMA ContractTell ==
    ASSUME StepTypes, NEW t \in Threads, NEW answer \in Answers,
           barrier[t].answer = "open",
           barrier' = [barrier EXCEPT ![t].answer = answer],
           UNCHANGED line, stopped' = stopped,
           \/ answer = "ok" /\ \A s \in 1..barrier[t].target : s \in Elements(written) \cup evicted
           \/ answer = "error" /\ \A s \in 1..barrier[t].target : s \notin Elements(events) /\ s # cur
           \/ answer = "broken" /\ stopped
    PROVE  Contract!Next
<1>1. Shown[t].answer = "none" /\ Shown[t].target = barrier[t].target
  BY DEF Shown
<1>2. Shown' = [Shown EXCEPT ![t].answer = answer]
  <2>1. /\ barrier'[t].target = barrier[t].target /\ barrier'[t].answer = answer
        /\ \A u \in Threads \ {t} : barrier'[u] = barrier[u]
    BY DEF StepTypes, BarrierRecord
  <2>2. answer # "open"
    BY DEF Answers
  <2> QED  BY <2>1, <2>2 DEF Shown
<1>3. Contract!Delivered = Elements(written) /\ Contract!Pending = Elements(events)
  BY DEF Contract!Delivered, Contract!Pending, Elements
<1>4. Contract!Tell(t, answer)
  BY <1>1, <1>2, <1>3 DEF Contract!Tell, Contract!Settled, Shown, line
<1> QED  BY <1>4 DEF Contract!Next, Answers

\* Every step of a thread is an acceptance, a question, an answer or nothing.
LEMMA ThreadImplements ==
    ASSUME Inv, StepTypes, LineTypes, NEW t \in Threads,
           CallStep(t) \/ CallStart(t) \/ WaitSpuriousWake(t)
    PROVE  Contract!Next \/ UNCHANGED Contract!vars
<1>1. /\ Safe /\ Ordered /\ Placed /\ WorkerHand /\ RoomKept /\ BarrierPhase /\ FirstRefusal
  BY DEF Inv, SinkInv, Line
<1>2. stopped' = stopped
  BY ThreadLeavesFlush
<1> USE DEF queueVars, flushVars, errorVars, barrierVars, writerVars, workerVars
<1>3. CASE EmitRoom(t) \/ EmitOverwrite(t)
  <2>1. Shown' = Shown
    BY <1>3 DEF EmitRoom, EmitOverwrite, Shown
  <2>2. PushedOver => Len(events) = Capacity
    <3>1. CASE EmitOverwrite(t)
      BY <1>1, <3>1 DEF RoomKept, EmitOverwrite
    <3>2. CASE EmitRoom(t) /\ PushedOver
      BY <3>2 DEF EmitRoom, EmitRefuse, EmitPush, Full, PushedOver, LineTypes
    <3> QED  BY <1>3, <3>1, <3>2
  <2>3. UNCHANGED line \/ PushedNew \/ PushedOver
    BY <1>1, ThreadLineStep
  <2> QED  BY <1>1, <1>2, <2>1, <2>2, <2>3, ContractStill, ContractPush DEF RoomKept
<1>4. CASE FlushRead(t)
  <2>1. /\ UNCHANGED line
        /\ barrier' = [barrier EXCEPT ![t] = [target |-> nextSequence, answer |-> "none"]]
    BY <1>4 DEF FlushRead, FlushTarget, line
  <2>2. Shown' = [Shown EXCEPT ![t] = [target |-> nextSequence, answer |-> "none"]]
    BY <2>1 DEF Shown, StepTypes
  <2>3. Contract!Ask(t)
    BY <1>2, <2>1, <2>2 DEF Contract!Ask, Shown, line
  <2> QED  BY <2>3 DEF Contract!Next
<1>5. CASE FlushNotify(t)
  <2>1. barrier[t].answer = "none" /\ barrier' = [barrier EXCEPT ![t].answer = "open"]
    BY <1>1, <1>5 DEF FlushNotify, BarrierPhase
  <2>2. Shown' = Shown
    BY <2>1 DEF Shown, StepTypes, BarrierRecord
  <2>3. UNCHANGED line
    BY <1>5 DEF FlushNotify, line
  <2> QED  BY <1>2, <2>2, <2>3, ContractStill
<1>6. CASE ResultStopped(t)
  <2>1. UNCHANGED line /\ barrier[t].answer = "open"
    BY <1>1, <1>6 DEF ResultStopped, line, BarrierPhase, WaitSteps
  <2>2. CASE stopped /\ Answer(t, "broken")
    BY <1>2, <2>1, <2>2, ContractTell DEF Answer, Answers
  <2>3. CASE barrier' = barrier
    BY <1>2, <2>1, <2>3, ContractStill DEF Shown
  <2> QED  BY <1>6, <2>2, <2>3 DEF ResultStopped
<1>7. CASE ResultErrors(t)
  <2> DEFINE target == barrier[t].target
  <2>1. /\ UNCHANGED line /\ barrier[t].answer = "open"
        /\ target \in Nat /\ flushed \in Nat /\ flushed >= target
    BY <1>1, <1>7 DEF ResultErrors, line, BarrierPhase, WaitSteps, StepTypes, BarrierRecord
  <2>2. \A s \in 1..target : /\ s \notin Elements(events) /\ s # cur
                             /\ s \in Elements(written) \cup failed \cup evicted
    BY <1>1, <2>1, CoveredIsSettled
  <2>3. CASE FlushFailed(target) \/ WriteFailed(target)
    <3>1. barrier' = [barrier EXCEPT ![t].answer = "error"]
      BY <1>7, <2>3 DEF ResultErrors, Answer
    <3> QED  BY <1>2, <2>1, <2>2, <3>1, ContractTell DEF Answers
  <2>4. CASE ~(FlushFailed(target) \/ WriteFailed(target))
    <3>1. barrier' = [barrier EXCEPT ![t].answer = "ok"]
      BY <1>7, <2>4 DEF ResultErrors, Answer
    <3>2. \A s \in 1..target : s \notin failed
      <4>1. writeError \in Nat /\ failed \subseteq Nat
        BY DEF StepTypes, LineTypes
      <4> QED  BY <1>1, <2>1, <2>4, <4>1 DEF WriteFailed, FirstRefusal
    <3>3. \A s \in 1..target : s \in Elements(written) \cup evicted
      BY <2>2, <3>2
    <3> QED  BY <1>2, <2>1, <3>1, <3>3, ContractTell DEF Answers
  <2> QED  BY <2>3, <2>4
<1>8. CASE /\ ~EmitRoom(t) /\ ~EmitOverwrite(t) /\ ~FlushRead(t) /\ ~FlushNotify(t)
           /\ ~ResultStopped(t) /\ ~ResultErrors(t)
  <2>1. UNCHANGED line /\ barrier' = barrier
    <3>1. CASE CallStep(t)
      BY <1>8, <3>1
         DEF CallStep, EmitTryLock, EmitNotify, FlushLock, FlushPublish, WaitLock,
             ResultFlushed, PollRegister, DropShutdown, DropRequest, DropNotify, DropJoin, line
    <3>2. CASE CallStart(t) \/ WaitSpuriousWake(t)
      BY <3>2 DEF CallStart, EmitStart, FlushStart, WaitStart, PollStart, ReleaseHandle,
                  WaitSpuriousWake, line
    <3> QED  BY <3>1, <3>2
  <2> QED  BY <1>2, <2>1, ContractStill DEF Shown
<1> QED  BY <1>3, <1>4, <1>5, <1>6, <1>7, <1>8

\* Every step of the worker takes a record, hands it over, closes or stutters.
LEMMA WorkerImplements ==
    ASSUME Inv, StepTypes, WorkerStep \/ WorkerSpuriousWake
    PROVE  Contract!Next \/ UNCHANGED Contract!vars
<1>1. WorkerHand
  BY DEF Inv, SinkInv, Line
<1> USE DEF queueVars, flushVars, errorVars, barrierVars, writerVars, workerVars
<1>2. barrier' = barrier /\ Shown' = Shown
  <2>1. barrier' = barrier
    BY DEF WorkerStep, WorkerLock, WorkerPop, WorkerPark, WorkerWrite, WorkerCheck,
           WorkerFlush, WorkerPublish, WorkerNotify, WorkerWake, WorkerStopLock,
           WorkerStopCheck, WorkerFinalFlush, WorkerStop, WriterPanic, WorkerPanicked,
           WorkerSpuriousWake
  <2> QED  BY <2>1 DEF Shown
<1>3. CASE WorkerStop \/ WorkerPanicked
  <2>1. UNCHANGED line /\ ~stopped /\ stopped'
    BY <1>1, <1>3 DEF WorkerStop, WorkerPanicked, WorkerHand, LeavingSteps, line
  <2> QED  BY <1>2, <2>1 DEF Contract!Next, Contract!Close, Shown, line
<1>4. CASE ~WorkerStop /\ ~WorkerPanicked
  <2>1. stopped' = stopped
    BY <1>4 DEF WorkerStep, WorkerLock, WorkerPop, WorkerPark, WorkerWrite, WorkerCheck,
           WorkerFlush, WorkerPublish, WorkerNotify, WorkerWake, WorkerStopLock,
           WorkerStopCheck, WorkerFinalFlush, WriterPanic, WorkerSpuriousWake
  <2>2. CASE UNCHANGED line
    BY <1>2, <2>1, <2>2, ContractStill
  <2>3. CASE Popped /\ wpc = "pop"
    <3>1. ~stopped
      BY <1>1, <2>3 DEF WorkerHand, LeavingSteps
    <3> QED  BY <1>2, <2>1, <2>3, <3>1 DEF Contract!Next, Contract!Take, Popped, Shown
  <2>4. CASE Handed /\ wpc = "write"
    <3>1. ~stopped
      BY <1>1, <2>4 DEF WorkerHand, LeavingSteps
    <3> QED  BY <1>2, <2>1, <2>4, <3>1 DEF Contract!Next, Contract!Put, Handed, Shown
  <2> QED  BY <1>1, <2>2, <2>3, <2>4, WorkerLineStep
<1> QED  BY <1>3, <1>4

\* The threads, locks, atomics and the worker implement the sink's contract:
\* order, bound, no silent loss, and no barrier answered before its prefix is
\* settled.
THEOREM Implementation == Spec => ImplementsContract
<1>1. Init => Contract!Init
  BY DEF Init, Contract!Init
<1>2. ASSUME Inv, [Next]_vars
      PROVE  Contract!Next \/ UNCHANGED Contract!vars
  <2>1. StepTypes /\ LineTypes
    BY <1>2, TypesSuffice DEF Inv, Safe
  <2>2. CASE UNCHANGED vars
    <3>1. UNCHANGED line /\ stopped' = stopped /\ barrier' = barrier
      BY <2>2 DEF vars, queueVars, flushVars, errorVars, barrierVars, writerVars,
                  workerVars, line
    <3> QED  BY <3>1, ContractStill DEF Shown
  <2> QED  BY <1>2, <2>1, <2>2, ThreadImplements, WorkerImplements DEF Next
<1>3. Inv /\ [Next]_vars => [Contract!Next]_Contract!vars
  BY <1>2
<1> QED  BY <1>1, <1>3, InvHolds, PTL DEF Spec, ImplementsContract, Contract!Spec
=============================================================================
