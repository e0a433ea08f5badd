# A verification project for logwise

logwise is a structured logging facade for Rust (`src/src`, no dependencies, no
allocation), a runtime that delivers what the facade collects
(`src/logwise_runtime`), bridges from `log` and `tracing`, and a wasm transport.
This directory holds TLA+ modules for the parts of it that are hard to test, the
TLC configurations that check them, and TLAPS proofs about them. Paths below are
relative to `src/`; `sinks.rs`, `facade_runtime.rs`, `flight_recorder.rs` and
`spinlock.rs` are in `logwise_runtime/src`, `dispatch.rs` is `src/dispatch.rs`
(the legacy runtime's own `logwise_runtime/src/dispatch.rs` is named in full).

## 1. Inventory

### How the parts meet

A log macro owns a static `Callsite`. It asks the process `Dispatch` which field
groups anybody wants (`Callsite::interest`, through a two-word cache), evaluates
those fields only, and hands an `Event` to `Dispatch::emit`. The installed
dispatcher is the `Runtime`: a baseline mask, activations with a deadline, sinks
with filters, and the spans and contexts of the facade, each under a `Spinlock`.
`Runtime::emit` fans an event out to the sinks that match it: an `AsyncSink` hands
it to a worker thread, a `FlightRecorder` keeps a bounded history, an
`InMemorySink` a bounded buffer. The bridges turn `log` records and `tracing`
spans into the same calls. The older half of `logwise_runtime` (global loggers,
thread-local contexts, tasks, intervals, heartbeats) is a second, separate path.

### Components

| Component | State | Operations | What is hard | What makes it correct |
|---|---|---|---|---|
| **AsyncSink** (`sinks.rs` 226-707) | a queue and a shutdown flag under a mutex; five atomics; two error slots; wakers; a second mutex and condition variable for barriers | `emit`, `flush`, `FlushBarrier::wait`/`poll`, `Drop`, `worker_loop` | threads, try_lock, two condition variables, atomics read outside the lock, writer errors and panics, shutdown | losses are counted once; order; a barrier's answer is true; nobody sleeps for ever |
| **Call-site interest** (`dispatch.rs` 150-300, `facade_runtime.rs` 185-460) | two cache words per call site; baseline, activations, sinks, generation, catalog | `interest`, `contextual_interest`, `set_interest`, `add_sink`, `remove_sink`, `activate`, expiry | configuration and generation move in two steps; two cache words in two stores; clocks | no stale mask is believed; deadlines hold without an event |
| **Spinlock** (`spinlock.rs`) | one byte | `with`, `with_mut` | stale compare-exchange, count against the writer's mark, contention | exclusion, exact count, progress |
| **FlightRecorder** (`flight_recorder.rs`) | shards of records under mutexes, a common counter | `emit`, `read_since`, `tail`, `stats` | numbered before visible, shards read one after another, try_lock | a cursor steps over nothing; losses by cause; bounded retention |
| **Dispatcher installation** (`dispatch.rs` 306-402) | a three-valued state, a slot of two words | `install_dispatcher`, `dispatcher` | two installers, readers in between | one installer wins; nobody reads a half-written slot |
| **Runtime delivery, contexts, spans** (`facade_runtime.rs` 500-882) | registrations, span and context tables, a ring of 1024 completed spans, a thread-local dispatch flag | `emit`, `remove_sink`, `create_context`, `enter`/`exit`, spans, `drain` | a sink that logs or panics, a sink removed while it is called, retention | every matching sink sees an event once; no recursion; loss is counted |
| **InMemorySink** (`sinks.rs` 153-224) | a buffer and counters behind a try_lock | `emit`, `drain` | contention and capacity | bounded, counted |
| **Heartbeat** (`heartbeat.rs`) | a channel, the watcher's list of deadlines | `new`, `Drop`, the watcher loop | a late guard against the watcher's own time-out; messages behind their deadline | a missed deadline is reported once, and while the hang lasts |
| **Tracing bridge** (`logwise_compat_tracing`) | a thread-local reentrancy flag, a stack of entered spans | `on_new_span`, `on_enter`, `on_exit`, `on_event`, `on_close` | spans exited out of order, nested calls | the current context is that of the innermost entered span |
| **Log bridge** (`logwise_compat_log`) | the same kind of flag | `enabled`, `log`, `flush` | reentrancy, beside the other bridge | no recursion |
| **Legacy runtime** (`global_logger.rs`, `inmemory_logger.rs`, `context/*`, `interval.rs`) | global loggers, thread-local context chain, tasks, buffers, a drain timer | `set_global_loggers`, `Context::push`/`pop`, `Task`, `ApplyContext`, interval guards, `periodic_drain_to_console` | pops out of order, futures that move between threads, a waker against a timer | the context of a task is restored; its completion comes last and its statistics are complete; a drain is not forgotten |
| **Wasm transport** (`logwise_runtime_wasm`) | three atomic counters: sequence, events lost, values cut | `encode`, `emit` | limits of buffers, scratch space and values; a host that refuses; senders in between | loss is visible to the reader; an envelope is true to its event |
| **Foreign text ingress** (`foreign.rs`) | a chained panic hook, redirected file descriptors | install, restore, capture | operating system I/O | - |
| **Procedural macros, values, privacy wrappers** | none | token rewriting, formatting | - | - |

`PROJECT.json` lists the hazards each of them is exposed to, at their lines.

## 2. Modules

| Module | Stands for | State and actions |
|---|---|---|
| `AsyncSink` | `AsyncSink`, `FlushBarrier`, `worker_loop`, `AsyncInner::drop` | One action per atomic access, lock acquisition or critical section. `events`, `shutdown`, `queueLock` are the mutex-protected `Queue`; `nextSequence`, `processed`, `requested`, `flushed`, `stopped` the atomics; `flushError`, `writeError` the two error slots by sequence; `pc` and `wpc` say where a thread and the worker are. A record is its sequence number. |
| `SinkContract` | abstract | What a sink promises, without threads: accept, evict, take, put, ask, tell, close. `AsyncSink` implements it (`ImplementsContract`). |
| `InterestCache` | `Callsite::interest` over the mutable `Runtime` | Loggers run the cache probe, the recomputation, the two stores and the contextual refinement step by step; administrators change the configuration and then bump the generation; `Tick` moves the clock. A mask is a set of field groups. |
| `Spinlock` | `spinlock.rs` | One action per atomic access on the byte; the width is `LockedWrite + 1`. |
| `SharedLock` | abstract | A readers-writer lock with a limit on readers. `Spinlock` implements it (`ImplementsSharedLock`); `InterestCache` uses what it promises, by making a section under the lock one action. |
| `Runtime` | the log macros, `Runtime::emit`, `add_sink`, `remove_sink`, spans (`facade_runtime.rs`), `InMemorySink` | A log call: interest, evaluated fields, dispatch flag and snapshot, then per sink a call, what the sink does, and the release of the snapshot's handle. `fan` is the stack of emits a thread is inside, so a nested one is a second frame. Registration, removal with its announcement and its drop, `drain` in two steps, spans with their retention. |
| `FlightRecorder` | `flight_recorder.rs` | Writers: take the shard (evicting), number, push. Readers: load the watermark, then shard by shard. |
| `DispatchSlot` | `install_dispatcher` and the reads of `dispatch.rs` 340-402 | One action per access of the state word or of half of the pointer; `Dispatcher` is what a call site reads. |
| `WriteOnce` | abstract | A slot that is written once. `DispatchSlot` implements it inside `Bridges` (`ImplementsSlot`). |
| `Bridges` | `logwise_compat_tracing`, `logwise_compat_log`, `src/context.rs`, the context table of `facade_runtime.rs` | EXTENDS `DispatchSlot`: every callback of the layer and every log record before, during and after the installation. `entered` is the registry's span stack, `guards` the context guards and open calls in the order they were made; a call that reaches a sink stays open, and the sink may trace, log, enter and exit until `EndCall`. The registry of `tracing_subscriber` is external. |
| `TaskContexts` | `context/*`, `interval.rs`, `global_logger.rs`, `logwise_runtime/src/dispatch.rs` and the macros that call it | Contexts by number with their parents; who keeps one alive (`Holders`); the polls a thread is inside; a record between its prelude and its sending; intervals. `Reap` drops what nobody holds, with the reports of the tasks that go. |
| `Watchdog` | `heartbeat.rs`, `inmemory_logger.rs` | Guards, the channel, the watcher's loop; the logger they report to; the drain future with its waker, its timer threads and the executor. `clock` is every reading of the time. |
| `WireTransport` | `logwise_runtime_wasm/src/wire.rs` | Senders call `encode` or `emit` with buffers of their own; one action per access to a counter, the encoder as functions of the event and the limits, recursive functions where the encoder loops, so that they can be proved about; what they are checked against (`IsLongest`, `Public`) is defined without recursion. A text is the sequence of its characters' widths; what an event can be is `EventsAssumption`, the shape the borrowed types give it. |
| `MC...` | TLC instances | Symmetry sets and the constants that a `.cfg` cannot write. |
| `...Proofs` | TLAPS proofs | See section 5. |

Granularity. An action contains at most one access to state that another thread
can write in the same place. Several reads under a mutex are one action only
when everything they read is written under that mutex; `EmitRoom` and
`EmitOverwrite`, and `FlushRead` and `FlushPublish`, are separate because
`requested_flush` is written outside the queue's lock, and that is where two of
the disagreements of section 4 come from. Memory is sequentially consistent: the orderings
the code names (acquire, release, acq-rel on the words that matter) are not
weakened, so a reordering of relaxed accesses to different words is outside the
models.

The writer behind an `AsyncSink` is external. It takes a record, refuses it
(`"write" \in Faults`), fails to flush (`"flush"`), or panics (`"panic"`);
`durable` is the prefix that its last successful flush covers.

History variables (`calls`, `evicted`, `mishaps`, `received`, `emits`, `begun`, `own`, `shown`,
`missed`, `told`, `late`, `reported`, and the
`quiet`, `expired` and `at` fields in `InterestCache`) are written and never
read by a guard other than a bound, with one exception: a sink or activation is
used once per behaviour (`begun`).

## 3. Runs

| Run | Bounds | What it shows |
|---|---|---|
| `async_safety` | 2 threads, capacity 1, both overflow policies, failing writes and flushes, 2 emits, 2 flushes | Every emit is in one of the counters of `SinkStats`, and the fourth, `write_errors`, is how many records the writer refused and how often it failed a flush or panicked, the flush at shutdown excepted (`LossAccounted`), the writer sees records in order and the queue keeps its bound (`FifoWithinCapacity`), the worker does not sleep through a record or shutdown (`ParkedWorkerIsOwedAWake`), a worker that stopped has drained (`StoppedMeansDrained`), a live sink's `Ok` is durable (`LiveOkIsDurable`), a record below an open barrier is evicted only by an emit that looked before the barrier was raised (`OnlyAnEarlierLookEvicts`), and the whole implements `SinkContract`. |
| `async_live` | the same with a writer that may panic and one flush, under fairness | Accepted records leave the queue (`AcceptedIsHandled`), and `Drop` returns and releases every barrier that outlives the sink (`DropCompletes`). |
| `interest_cache` | 2 loggers, 1 administrator, 2 sinks (one scoped to a context), 1 activation, tag modulus 2, 2 configuration changes, one tick | No stale pair of cache words is believed (`NoStaleHit`), a call that begins after the configuration settled is asked for exactly what it selects (`QuietCallIsExact`), and an activation ends at its deadline with no event to announce it (`TtlEnforced`). |
| `spinlock` | 4 threads, `LockedWrite = 3` | Refinement of `SharedLock` (a writer is alone, readers stay below the limit), and `SomebodyGetsIn`. Deadlock is checked. |
| `flight_recorder` | 3 writers on 2 shards (two of them share one), capacity 3, 5 emits, one reader | A cursor steps over nothing (`NoSilentSkip`), every number is retained, in hand or evicted and counted, within the capacity (`LossAccounted`), and a poller reads the whole stream once writers rest (`PollerCatchesUp`). |
| `runtime` | 2 threads, 2 sinks (a local `InMemorySink` of capacity 1 under both policies, a remote callback that may panic and log), a structured and an ad-hoc call site, retention 2, 3 log calls and spans together | No emit is inside another on its thread and the flag outlives none (`NoRecursion`), every sink registered all along is called once whatever is added, removed or panics (`EveryViewOnce`) and sees all it may (`CompleteView`), an `InMemorySink` counts each loss once (`MemoryAccounted`), and the newest completed spans are kept (`NewestSpansKept`). |
| `bridges` | 1 thread, 2 application spans and 1 of the sink's, at most 3 open calls and entered spans, 1 link, 2 installers | Whenever no call is open the thread reports under its innermost entered span and both flags are clear, in whatever order spans were entered and exited (`InnermostContext`); a filter with descendants selects the subtree of spans (`LineageFollowsSpans`); the installation is a write-once slot (`ImplementsSlot`). |
| `task_contexts` | 2 threads, 2 futures, 2 intervals, 1 logger, 3 units of work (contexts, futures, intervals, traces, records, exits) | Code runs under the context it chose or its future's (`OwnContext`); no synchronous record or guard of a task reaches a logger after its completion (`CompletionIsLast`); a dropped task's statistics account for every interval begun under it (`StatisticsComplete`). |
| `watchdog` | 2 guards, deadline 1, drains of 1 and of longer than the clock, clock up to 2, 1 timer thread between disarming and waking | A late guard is reported exactly once (`LateIsReportedOnce`); a pending drain is owed a poll (`DrainIsOwedAPoll`); under fairness a hang is shown while it lasts (`HangIsShown`). |
| `wire_transport` | 2 senders, 3 calls, 3 events (one that cannot be encoded), buffers and scratch space that suffice or do not | The counters of an envelope cover every earlier loss and exceed them by no more than overlapping calls lost (`ReaderReconstructs`); an envelope shows each public value up to its limit and tells what it leaves out (`EnvelopeIsFaithful`). |
| `lost_wakeup`, `bridge_reentry` | see section 4 | Each is expected to fail: the code disagrees with what its documentation or tests say. |

Why the bounds are enough. Capacity 1 makes every second emit meet a full queue,
and with two threads an emit, a flush, the worker and the drop of the last handle
can all be between two of their steps at once; a barrier can be overtaken by
another barrier, by an eviction, and by the shutdown. Two emits and two flushes
are the fewest calls with which each thread's error can be cleared or replaced
by the other's. A tag modulus of 2 makes generations collide after two changes,
so both sides of `NoStaleHit` occur. `LockedWrite = 3` puts four threads at the
ceiling of two readers and makes a wrap-around reachable. Capacity 3 on two
shards is uneven (2 and 1), both shards overflow within five emits, and a reader
can find either of them busy. In `runtime`, two sinks are the fewest with which a
panic in one can cost the other its view, in either order of registration; three
calls let one sink log inside a fan-out while the other thread fans out too, and
overflow a buffer of one and a span window of two. The two call sites have a field of
each privacy, a detail, and the text that a remote sink may not have.

In `bridges` three open frames hold a callback, what its sink enters or traces,
and one call below that, which is where a refused entry shows; two spans are
enough to exit one below the other or to enter one twice, and what one thread
does never touches another's stacks. In `task_contexts` every action occurs in
some behaviour, and three units of work are what it takes to create a context,
begin an interval or wrap a future under it and let something else go in between;
a future is polled by either thread, inside the other or after it. In `watchdog` a
deadline of 1 and a clock up to 2 put a drop before, at and past the deadline, and
two guards let the watcher sleep towards one deadline while the other is
registered, reported or completed. In `wire_transport` three calls of two senders
are one that loses, one that overlaps it and one that reads; the limits of the
instance cut inside a character, between two pieces and at an exact fit.

`CHECK_DEADLOCK FALSE` is given where the system may really stop: a sink whose
calls are used up or whose last handle is gone, a recorder without further
emits, an idle call site after its last configuration change.

### Fairness

- `AsyncSink`: strong fairness of the worker and of each thread's steps inside a
  call. Threads are scheduled by the operating system, and the mutexes are not
  FIFO: a thread that finds the queue free again and again and is beaten to it
  each time is what weak fairness would allow and what a real mutex, with a
  finite number of callers, does not do for ever. No call has to be started and
  no spurious wake-up has to happen.
- `Spinlock`: weak fairness only. A single contender may starve, as in the code;
  what is checked is that somebody gets in.
- `Runtime`, `Bridges`, `TaskContexts`, `WireTransport`: none; what is checked of
  them is safety.
- `Watchdog`: weak fairness of the clock, the watcher's thread, the timer threads,
  the poll function once it runs, and an executor that polls what it was woken
  for. A guard need never be dropped, which is what a hang is; no poll without a
  wake-up and no call of `drain_logs` has to happen.
- `FlightRecorder`: weak fairness of a writer inside `emit` and of a reader,
  which polls for ever. One reader: two pollers that only `try_lock` can find
  each other in a shard every time, so the property does not hold for two, and
  the code does not promise it.

## 4. Findings

1. **A flush can sleep for ever** (`lost_wakeup`). `flush` raises
   `requested_flush` and notifies after it has released the queue's lock
   (`sinks.rs` 423). The worker, holding the lock, may have seen nothing to do
   (630) and not wait yet (635); the notification then wakes nobody, and
   `flush_blocking` returns only when something else wakes the worker.
2. **The tracing layer can be re-entered** (`bridge_reentry`).
   `(!active.replace(true)).then_some(Self)` (`logwise_compat_tracing/src/lib.rs`
   86) builds its argument before it looks at the condition. A refused entry
   therefore drops a `BridgeGuard`, and that clears the flag of the callback that
   is still open: of two events a sink traces, the first is dropped and the second
   reaches the sinks again. The log bridge looks before it enters (`enabled`), so
   it is not affected.

Met while modelling, visible in the definitions named here and shown by no run:

- An emit under `OverwriteOldest` loads `requested_flush` (`sinks.rs` 468) and
  evicts afterwards (481), under the queue's lock; `flush` raises `requested_flush`
  after it has released that lock (423), and can do so in between (`EmitRoom`,
  `EmitOverwrite`). The record is overwritten below a barrier that has been
  returned and that answers `Ok`, where the comment at 476-477 says that this no
  longer happens "once a barrier exists". `OnlyAnEarlierLookEvicts` says what does
  hold: an emit that looks after the barrier was raised evicts nothing below it.
  The eviction is counted, so `LossAccounted` holds all along.
- The documentation of `PerfwarnIntervalIf` (`interval.rs` 186-188) says that the
  interval is added to the task's statistics if the elapsed time exceeds the
  threshold. The code adds it before it compares (251), and
  `Task::add_task_interval_if` (`context/task.rs` 86-108) compares nothing: a
  conditional interval below its threshold is part of what the task reports.
  `StatisticsComplete` states what the code does, for both kinds of interval; the
  documented sentence does not hold of it.
- The worker of a dropped sink discards the result of its last `writer.flush()`
  (675) and publishes `flushed_sequence`; a barrier that outlives the sink answers
  `Ok` (the exception in `LiveOkIsDurable`).
- `result` loads `flushed_sequence` (568) before `stopped`; a worker that covers
  the barrier and stops in between makes it report a broken pipe.
- `Runtime::emit` may hold the last handle of a sink that was removed meanwhile
  (`facade_runtime.rs` 650-659); its destructor then runs in the log call.
- `heartbeat.rs` 85 says that a guard dropped before its deadline logs no warning.
  The watcher judges a completion by the time it receives it (282-284), so a guard
  that was dropped in time is reported if its message is late. `LateIsReportedOnce`
  says what does hold: late guards are reported once, and nobody twice.
- `wire.rs` 13-15 says that the counters let a reader reconstruct "exactly" what
  it did not receive. A number is drawn before the counters are loaded, so with
  overlapping calls `dropped_before` may count what a later call lost;
  `ReaderReconstructs` gives the exact bound.

A writer that panics leaves the queued records unwritten and uncounted
(`sinks.rs` 396). That is visible as the `stopped` alternative of
`AcceptedIsHandled` and the exception of `StoppedMeansDrained`; the
documentation makes no promise about it.

## 5. Proofs

Each proof module extends the module it is about; the theorems hold for every
value of the constants that satisfies the named `ASSUME`s of that module.

- **`AsyncSinkProofs`**: `TypeCorrect`, `WorkerIsOwedAWake`, `QueueLockExcludes`,
  `LossIsAccounted`, `FifoKept`, `StopDrains`, `OkIsDurable`,
  `EvictionsLookedEarlier`, `Implementation`.
  The first three rest on `QueueExclusion` (the lock's owner is the one in the
  critical section), `OldestIsThere` (an emit that is about to evict still finds
  a record, which needs exclusion) and `SleepIsJustified` (a worker about to wait
  saw an empty queue and no shutdown, and the lock it holds keeps that so). The
  other six are about where a record is, and none of them is inductive without
  the others, so `SinkInv` holds them together: `Line` is the order of sequences
  from what is written, over the record in the worker's hand, to the queue's tail,
  with what each step of a handle, a barrier and the worker knows of it; `Placed`
  finds every number drawn in one place and no number in two; `Counted` adds the
  emits that have not decided to the counters; `MishapsCounted`, that
  `write_errors` is the records refused and the flushes failed, and a panic once the
  worker has unwound;
  `FlushIsDurable` says that until
  the last handle is dropped, what is flushed is durable or covered by an error;
  `Drained`, that the worker stops on a queue nobody can fill any more;
  `FirstRefusal`, that the write error is the first record refused.
  `EvictionsLookedEarlier` is `Ordered` with the order of `flushed` and `processed`:
  what is queued is not flushed, so an emit that saw the request refuses.
  `Implementation` goes through the actions one by one and names the step of
  `SinkContract`, or the stutter, that each one is.
- **`InterestCacheProofs`**: `TypeCorrect`, `CacheIsNeverStale`, `AnswersAreExact`,
  `DeadlinesAreKept`. `Provenance` says where the two words come from, which makes
  the tag distinguish generations less than `TagModulus` apart; `Currency` says
  that, with no bump owed, whatever was computed for the current generation agrees
  with the configuration. `CallInv` adds the call that is under way: what had
  expired when it began has expired at every clock value it samples
  (`Deadlines`), no activation's own groups get into a mask that outlives the call
  (`Grants`), and a call that nothing disturbed carries, from step to step, the
  part of the configuration it has been through (`Exactness`). The proof needs
  nothing about the number of threads, sinks or activations.
- **`AtomicsProofs`**: the two components that are words shared by threads and
  nothing else, `Spinlock` and `WireTransport`; the two arguments do not touch.
  For `Spinlock`: `TypeCorrect`, `WordCounts`, `MutualExclusion`,
  `Implementation`. `WordInv` counts readers in the word while there is no
  writer. It needs the set of readers to be finite (it is, whatever `Threads`
  is, because the word bounds it) and the typing clause that no reader swaps a
  word at the ceiling. `Implementation` maps every step to a step of `SharedLock`
  or a stutter.
  For `WireTransport`: `ReaderIsTold` and `EnvelopeTellsAll`, both from
  `TransportInv`. A reader learns of losses from the counters the envelopes carry,
  and a call loads `dropped` and `truncated` in two accesses, while other calls
  lose and cut. The invariant says that the counters are exact at every moment
  (`Counts`: the number of calls lost, the sum of the values cut), which needs the
  calls that are not decided to be those senders are in, one each (`InProgress`),
  and a call that is not beside a later one to be decided before that one began
  (`Overlaps`). Then what a call has loaded lies between the losses before it and
  those together with what was beside it (`Loaded`), it stays so while others go
  on, and the envelope says the same (`Told`). Each action is an instance of one
  lemma about a sender that moves (`MoveKeeps`), or is `Begin`. The sums over
  calls need induction on the number of their elements, as in
  `TaskContextsProofs`. `Carried` ties an envelope to what was logged; that the
  encoder's functions give the longest beginning the limits admit is proved by
  induction along the characters (`Cut`), the pieces (`Formatted`) and the fields
  (`Retained`), and that the k-th field written is the k-th public one (`Public`)
  by counting. Nothing is assumed of the limits: any of them may be 0.
- **`FlightRecorderProofs`**: `TypeCorrect`, `CursorNeverSkips`, `LossIsAccounted`.
  `Locked` makes a writer that has numbered a record keep the reader out of its
  shard; `Numbered` finds every numbered record somewhere; `Pending` says of a
  read under way that what it has not met is in a shard ahead of it, unless it met
  a busy one. The last fact is what `NoSilentSkip` lacks to be inductive.
  `LossInv` adds that a number is in one place only (`Apart`) and that a writer
  inside a shard has made room (`Room`): what is retained injects into the slots
  of the shards, and the capacity follows from theirs.
- **`RuntimeProofs`**: `TypeCorrect`, `DispatchIsNotReentered`, `EveryFieldArrives`,
  `LossesAreCounted`, `NewestSpansAreKept`, `ViewsRunOnce`. `IInv` says of each
  thread that it has at most one frame, that the flag is set with it, and that what
  the call evaluated covers what each steady sink asks for; `ProjectionIsAsked`
  shows that `sink_interest` covers `project_event`. `MInv` adds the counters of
  each `InMemorySink`, with the set of emits that have reached it and not yet
  decided, which is finite whatever `Threads` is because each of them was offered
  once. `SpanInv` has a span active, being ended or pushed, and only once, which is
  what makes the window the end of what was pushed, and the rest taken or counted
  as lost. `OnceInv` has every steady sink among those called or those left in the
  snapshot, which are apart; that the snapshot holds each matching registration
  once is an induction along the registrations (`Views` is recursive).
- **`BridgesProofs`**: `Implementation`, `TypeCorrect`, `InnermostIsCurrent`,
  `LineageIsTheTree`, three arguments about parts that do not touch.
  `SlotInv` is the types of the slot, that at most one installer has passed the
  swap (`Winner`), and which halves of the pointer it has written at each step
  (`Written`); with these, what a call site reads is nothing or the whole pointer
  of the one winner, and every step of `Bridges` is a step of `WriteOnce` or a
  stutter.
  `StackInv` relates each thread's guards to its entered spans: each guard
  restores what is below it or has changed nothing (`Restores`), and stands for its
  span's context (`Stands`); on both stacks a sink's spans are those above an open
  call (`Layers`), below the calls the stacks agree (`AppPairs`), above them a
  guard goes with an entrance in the same call (`SinkPairs`); a flag that is set
  was set by an open call (`Flagged`). The hard step is an exit below the top,
  which unwinds the guards above the exited span and makes them again.
  `TreeInv` says that a span has a context of its own, whose parent is the parent
  span's context (`OwnContext`), that a parent was seen before its children
  (`Elders`), and that some rank orders the spans (`Ranked`). That the recursive
  functions `Lineage` and `Above` satisfy their equations is proved from
  reachability (`UnfoldingExists`); that they agree, by induction on the rank.
- **`TaskContextsProofs`**: `OwnContextKept`, `TypeCorrect`, `CompletionComesLast`,
  `StatisticsAreComplete`. When a poll returns, the context it
  saved must be what the code below had chosen; `Saved` says so for every poll of
  a stack, and holds because only the running poll changes the thread's context.
  The lemmas `Chosen`, `Pushed` and `Popped` are the three things that can happen
  to a stack; every other action is `Aside`.
  `TaskInv` adds what the drop of a context depends on. Parents are older than
  their children (`Rooted`), which gives the recursive `Chain` and `TaskOf` their
  values (`ClimbExists`) and lets what is true of them be shown from the oldest on;
  the live contexts are those on the chain of one that is held (`Held`); a record
  being written and an open interval name a task on the chain of what their thread
  or they hold (`Recorded`, `Begun`), so it is alive; and only tasks that are not
  were told complete (`Finished`). A future is polled in one place (`Polled`), so
  that the context of the poll that returns stays held. Every step either leaves
  the holders among what was alive or is new and then drops the rest (`Dropping`),
  or touches no holder (`Resting`).
  `TallyInv` adds that a task's running statistics are the sum over its ended
  intervals (`Tallied`). The sum is a fold that chooses its elements: that it has a
  value, that it does not depend on which element comes first and that it grows by
  what an interval took is proved by induction on the number of elements
  (`SumsExist`, `SumsTakeAny`, `TotalGrows`). No bound on `Intervals` is needed,
  because only finitely many can have ended.
- **`WatchdogProofs`**: `TypeCorrect`, `DrainIsWoken`, `LateOnce`. `DrainInv` adds
  the moment between storing the waker and arming the timer. `WatchInv` holds the
  history of each guard: which of its two messages are queued, each once and in
  order (`Ordered`), and what the watcher has counted since it heard of the guard.
  The channel is treated as a set of messages by the lemmas `Appended` and `Taken`.

Induction. The library's induction theorems take an operator as a parameter, which
the installed provers cannot instantiate. Where a proof needs induction it is over
a set of numbers (`SetInduction`, or the least number outside the set), and where
a definition is a recursive function the proof first shows that a function with
that equation exists (`RecursionExists`, `UnfoldingExists`, `ClimbExists`,
`SumsExist`).

Every invariant that a passing run checks is stated by a theorem. The type
invariant of `Bridges` is only proved (`TypeCorrect`). Only model-checked: every
liveness property, since the prover does not handle fairness and `ENABLED`, and the
two disagreements of section 4 that runs show, which are counterexamples.

## 6. What is left out of the modelled parts

- `AsyncSink`: truncation of long strings when a record is copied; the main
  thread of a wasm program, which detaches the worker instead of joining it; the
  sink's own interest filter (that is `InterestCache`).
- `InterestCache`: `rendered_template` and the privacy wrappers decide what a
  granted field contains, not whether it is granted; whether a filter matches a
  call site or a context is a constant, since neither changes.
- `Spinlock`: weak memory. `FlightRecorder`: the projection of private fields;
  `tail` and `stats`, which change no state.
- `Runtime`: what an interest mask may be is taken from a settled configuration
  (`InterestCache` is about how it gets there): a sink that is being added or
  removed is counted or not. Filters are constants, baseline and activations only
  widen a mask and are left out. The interest of a span is taken as granted.
  Destructors of sinks return without logging or panicking, and a callback does
  not configure the runtime; a field whose `Display` panics or logs while an
  `InMemorySink` copies it is left out. Contexts are in `Bridges`.
- `Bridges`: the fields a visitor records. A call reads the dispatcher once (the
  module's header says why that is enough). A sink exits the spans it enters
  before it returns and does not nest them. A dispatcher that panics is left out.
- `TaskContexts`: the wording of records and the scale of an interval, which is
  only printed; a logger that logs or configures; a poisoned mutex; the recursive
  drop of a very long chain of parents; labels, since intervals of a task share
  one. `nesting_level`, `has_parent` and the like change no state.
- `Watchdog`: the context a record is written under (`TaskContexts`); the channel
  and the executor are external. `heartbeat_loop` is never disconnected, because
  the sender is in a static.
- `WireTransport`: the layout of the bytes beyond what is counted; wrap-around of
  the 64-bit counters. A `Debug` or `Display` is assumed to hand on the error
  `write_str` returns and to originate none (`WritePiece`): `formatted` discards
  what `fmt::write` answers (349), so one that goes on after an error could leave
  a gap in its text, and one that fails by itself a beginning that is not said to
  be cut. One that panics after the number is drawn is left out as well.

Not modelled at all:

- Foreign text ingress (`foreign.rs`): a chained panic hook and redirected file
  descriptors, operating system I/O that hands lines to `Runtime::emit`.
- The parser of the procedural macros: compile-time token rewriting. What the
  macros expand to is in `TaskContexts` and `Runtime`.
- Values, metadata and privacy wrappers: plain data and formatting. The choice of
  fields they lead to is in `Runtime` and `WireTransport`.
- Weak memory: see section 2.

## 7. Plan

1. *(done)* `AsyncSink` with `SinkContract`; `InterestCache`; `Spinlock` with
   `SharedLock`; `FlightRecorder`; `Runtime`; their first theorems.
2. *(done)* `DispatchSlot` with `WriteOnce`, composed with `Bridges`;
   `TaskContexts`; `Watchdog`; `WireTransport`; theorems of the first three.
3. *(done)* Further theorems: the accounting, order, draining and durability of
   `AsyncSink` and its refinement of `SinkContract`; deadlines and exactness of
   `InterestCache`; once-only delivery and span retention of `Runtime`; capacity
   of `FlightRecorder`; the stacks and the tree of `Bridges`; completion and
   statistics of `TaskContexts`; the counters and the envelopes of
   `WireTransport`.
4. Two threads in `bridges` that hand a span to one another, which the layer
   supports and the stacks keep apart.
