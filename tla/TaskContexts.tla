---------------------------- MODULE TaskContexts ----------------------------
(***************************************************************************)
(* The legacy logging runtime of logwise_runtime: contexts and the tasks    *)
(* they define, ApplyContext around the polls of a future, intervals, the   *)
(* calls of the logging macros and the global loggers they report to.       *)
(*                                                                          *)
(* A context is an Arc: it lives while a handle, a thread, a poll's saved   *)
(* context, a future or an interval reaches it, and the task it defines     *)
(* reports when it goes (Reap, the last conjunct of every action that may   *)
(* drop one).  A context is numbered by its place in ctx and a task by the  *)
(* context that defines it.  The default context of each thread, made on    *)
(* first use, and the detached one are there from the start: neither logs   *)
(* its completion.  The intervals of a task share one label.                *)
(***************************************************************************)
EXTENDS Integers, Sequences, FiniteSets, FiniteSetsExt, Functions

CONSTANTS Threads, Futures, Intervals, Loggers, NoRecord,
          Internal,               \* whether the calling domain is internal
          Durations, Threshold,   \* what intervals take, what perfwarn_if allows
          MaxLoggers,             \* bound: installed loggers
          MaxWork                 \* bound: contexts, futures, intervals, traces begun, threads gone,
                                  \* records being formatted and loggers removed

ASSUME TimesAssumption == Durations \subseteq Nat \ {0} /\ Threshold \in Nat \ {0}
ASSUME ThreadsAssumption == IsFiniteSet(Threads)
ASSUME InternalAssumption == Internal \subseteq BOOLEAN

VARIABLES ctx,        \* every context created: ContextInner
          live,       \* those not dropped yet
          handles,    \* those the application holds a Context of
          current,    \* CONTEXT, per thread; Gone once its destructor has run
          polls,      \* the polls of ApplyContext running on a thread, innermost last
          own,        \* history: what code outside every poll made current
          future,     \* ApplyContext, with the record its async call is sending
          interval,   \* the three interval types
          writing,    \* the record a thread is formatting
          loggers,    \* GLOBAL_LOGGERS_PTR
          stats, limits,   \* TaskMutable, summed over the task's intervals
          reported,   \* what a dropped task's statistics said
          told,       \* tasks whose Finished record a logger has
          late        \* tasks a logger heard of after that, from a synchronous call

vars == <<ctx, live, handles, current, polls, own, future, interval, writing,
          loggers, stats, limits, reported, told, late>>
contextVars == <<ctx, handles>>
reportVars == <<stats, limits, late>>

Gone == 0
Ids == 1..Len(ctx)
Top(s) == s[Len(s)]
Lists(S) == UNION {[1..n -> S] : n \in 0..MaxLoggers}

-----------------------------------------------------------------------------
(* Contexts and tasks                                                       *)

Inner(parent, task, completes, tracing) ==
    [parent |-> parent, task |-> task, completes |-> completes, tracing |-> tracing]

Detached == Cardinality(Threads) + 1

\* task(): the nearest context up the chain that defines one.
TaskOf[c \in Nat] ==
    IF c \notin Ids THEN Gone ELSE IF ctx[c].task THEN c ELSE TaskOf[ctx[c].parent]

Chain[c \in Nat] == IF c \notin Ids THEN {} ELSE {c} \cup Chain[ctx[c].parent]

Work == Len(ctx) - Detached + Cardinality({f \in Futures : future[f].phase # "new"})
        + Cardinality({i \in Intervals : interval[i].phase # "new"})
        + Cardinality({c \in Ids : ctx[c].tracing})
        + Cardinality({t \in Threads : current[t] = Gone})
        + Cardinality({t \in Threads : writing[t] # NoRecord})
        + MaxLoggers - Len(loggers)

\* Context::current(): a thread whose cell is gone logs under the detached one.
Current(t) == IF current[t] = Gone THEN Detached ELSE current[t]

\* Variant: an interval keeps its task's number and not the context.
HoldersWithoutIntervals ==
    {Detached} \cup handles \cup {current[t] : t \in Threads}
    \cup (UNION {{p.prior : p \in {polls[t][i] : i \in DOMAIN polls[t]}} : t \in Threads})
    \cup {future[f].ctx : f \in Futures}
Holders == HoldersWithoutIntervals \cup {interval[i].ctx : i \in Intervals}

Alive == UNION {Chain[c] : c \in Holders}

\* Task::drop: statistics above the thresholds, then the completion.
Report(c) ==
    IF stats'[c] # 0 /\ (limits'[c] = 0 \/ stats'[c] > limits'[c]) THEN stats'[c] ELSE 0

Installed(l) == \E i \in DOMAIN loggers : loggers[i] = l

Reap ==
    /\ live' = Alive'
    /\ LET dropped == {c \in live \ live' : ctx[c].task}
       IN  /\ reported' = [c \in 1..Len(ctx') |->
                 IF c \in dropped THEN Report(c) ELSE IF c \in Ids THEN reported[c] ELSE 0]
           /\ told' = [l \in Loggers |-> IF Installed(l)
                 THEN told[l] \cup {c \in dropped : ctx[c].completes} ELSE told[l]]

Create(inner) ==
    /\ Work < MaxWork
    /\ ctx' = Append(ctx, inner)
    /\ stats' = Append(stats, 0) /\ limits' = Append(limits, 0)

New == Len(ctx) + 1

\* A thread's code makes c current: set_current does nothing once the cell is gone.
MakeCurrent(t, c) ==
    IF current[t] = Gone THEN UNCHANGED <<current, polls, own>>
    ELSE /\ current' = [current EXCEPT ![t] = c]
         /\ IF polls[t] = <<>> THEN own' = [own EXCEPT ![t] = c] /\ UNCHANGED polls
            ELSE polls' = [polls EXCEPT ![t][Len(polls[t])].own = c] /\ UNCHANGED own

Init ==
    LET n == Detached
    IN  /\ ctx = [c \in 1..n |-> Inner(0, TRUE, FALSE, FALSE)]
        /\ live = 1..n
        /\ handles = {}
        /\ current \in {c \in [Threads -> 1..(n - 1)] : IsInjective(c)}
        /\ own = current
        /\ polls = [t \in Threads |-> <<>>]
        /\ future = [f \in Futures |-> [phase |-> "new", ctx |-> Gone, sending |-> NoRecord]]
        /\ interval = [i \in Intervals |-> [phase |-> "new", kind |-> "plain", ctx |-> Gone,
                                            owner |-> Gone, spent |-> 0]]
        /\ writing = [t \in Threads |-> NoRecord]
        /\ \E l \in Loggers : loggers = <<l>>
        /\ stats = [c \in 1..n |-> 0] /\ limits = [c \in 1..n |-> 0]
        /\ reported = [c \in 1..n |-> 0]
        /\ told = [l \in Loggers |-> {}] /\ late = [l \in Loggers |-> {}]

\* A thread runs code of its own: not inside a record, nor awaiting a logger.
Runs(t) ==
    /\ writing[t] = NoRecord
    /\ polls[t] # <<>> => future[Top(polls[t]).future].sending = NoRecord

\* Any context may be the parent: one that is not current is made so first.
NewTask(t, parent, completes) ==
    /\ Runs(t) /\ parent \in {0, Current(t)}
    /\ Create(Inner(parent, TRUE, completes, FALSE))
    /\ handles' = handles \cup {New}
    /\ UNCHANGED <<current, polls, own, future, interval, writing, loggers, late>>
    /\ Reap

\* The child inherits the tracing state its parent has now.
FromParent(t) ==
    /\ Runs(t)
    /\ Create(Inner(Current(t), FALSE, FALSE, ctx[Current(t)].tracing))
    /\ handles' = handles \cup {New}
    /\ UNCHANGED <<current, polls, own, future, interval, writing, loggers, late>>
    /\ Reap

SetCurrent(t, c) ==
    /\ Runs(t) /\ c \in handles
    /\ MakeCurrent(t, c)
    /\ UNCHANGED <<contextVars, future, interval, writing, loggers, reportVars>>
    /\ Reap

DropHandle(c) ==
    /\ handles' = handles \ {c}
    /\ UNCHANGED <<ctx, current, polls, own, future, interval, writing, loggers, reportVars>>
    /\ Reap

\* The runtime's own domain is internal: a debug build logs the completion.
Reset(t) ==
    /\ Runs(t)
    /\ Create(Inner(0, TRUE, TRUE, FALSE))
    /\ MakeCurrent(t, New)
    /\ UNCHANGED <<handles, future, interval, writing, loggers, late>>
    /\ Reap

-----------------------------------------------------------------------------
(* Records                                                                  *)

\* A logger has been told that the task a record names has finished.
Deliver(task, targets) ==
    late' = [l \in Loggers |-> IF l \in targets /\ task \in told[l]
                               THEN late[l] \cup {task} ELSE late[l]]

InstalledNow == {l \in Loggers : Installed(l)}

\* To every logger there is: the loop that ends each *_sync_post and, where the
\* runtime writes a record of its own, that record, formatted and sent in one step.
Say(task) == Deliver(task, InstalledNow)

\* Contexts below id go with it; a root or an unknown id only warns.
Pop(t, id) ==
    /\ Runs(t)
    /\ IF id \in Chain[Current(t)] /\ ctx[id].parent # 0
       THEN MakeCurrent(t, ctx[id].parent) /\ UNCHANGED late
       ELSE Say(TaskOf[Current(t)]) /\ UNCHANGED <<current, polls, own>>
    /\ UNCHANGED <<contextVars, future, interval, writing, loggers, stats, limits>>
    /\ Reap

CurrentlyTracing(t) == current[t] # Gone /\ ctx[current[t]].tracing

BeginTrace(t) ==
    /\ Runs(t) /\ Work < MaxWork
    /\ ctx' = [ctx EXCEPT ![Current(t)].tracing = TRUE]
    /\ IF current[t] = Gone THEN UNCHANGED late ELSE Say(TaskOf[current[t]])
    /\ UNCHANGED <<live, handles, current, polls, own, future, interval, writing,
                   loggers, stats, limits, reported, told>>

\* *_pre: the prelude reads the current task, then user code formats.  The
\* *_async! macros are for the body of a future.
Pre(t, awaits) ==
    /\ Runs(t) /\ Work < MaxWork
    /\ awaits => polls[t] # <<>>
    /\ writing' = [writing EXCEPT ![t] = [task |-> TaskOf[Current(t)], awaits |-> awaits]]
    /\ UNCHANGED <<ctx, live, handles, current, polls, own, future, interval, loggers,
                   stats, limits, reported, told, late>>

\* *_sync_post: to every logger installed by now.
SyncPost(t) ==
    /\ writing[t] # NoRecord /\ ~writing[t].awaits
    /\ Say(writing[t].task)
    /\ writing' = [writing EXCEPT ![t] = NoRecord]
    /\ UNCHANGED <<ctx, live, handles, current, polls, own, future, interval, loggers,
                   stats, limits, reported, told>>

\* *_async_post: the future awaits each logger of a snapshot in turn.
AsyncPost(t) ==
    /\ writing[t] # NoRecord /\ writing[t].awaits
    /\ future' = [future EXCEPT ![Top(polls[t]).future].sending =
                    IF loggers = <<>> THEN NoRecord ELSE loggers]
    /\ writing' = [writing EXCEPT ![t] = NoRecord]
    /\ UNCHANGED <<ctx, live, handles, current, polls, own, interval, loggers,
                   stats, limits, reported, told, late>>

\* The next logger's future is ready.
Awaited(t) ==
    /\ polls[t] # <<>> /\ writing[t] = NoRecord
    /\ LET f == Top(polls[t]).future
       IN  /\ future[f].sending # NoRecord
           /\ future' = [future EXCEPT ![f].sending =
                           IF Len(@) = 1 THEN NoRecord ELSE Tail(@)]
    /\ UNCHANGED <<ctx, live, handles, current, polls, own, interval, writing, loggers,
                   stats, limits, reported, told, late>>

\* log_enabled! in a debug build: what the domain and the trace decide.
EnabledTrace(t) == CurrentlyTracing(t)
EnabledDebugInternal(t, internal) == internal \/ CurrentlyTracing(t)

\* The functions of logwise_runtime's dispatch.rs behind each macro ...
TraceRecord(t, awaits) == Pre(t, awaits)
DebugInternalRecord(t, awaits) == Pre(t, awaits)
InfoRecord(t, awaits) == Pre(t, awaits)
WarnRecord(t) == Pre(t, FALSE)
ErrorRecord(t, awaits) == Pre(t, awaits)
MandatoryRecord(t, awaits) == Pre(t, awaits)
ProfileRecord(t, awaits) == Pre(t, awaits)

\* ... and what the macros expand to, Info in a debug build and the last four
\* in every build.
TraceCall(t, awaits) == EnabledTrace(t) /\ TraceRecord(t, awaits)
DebugInternalCall(t, awaits) ==
    \E internal \in Internal : EnabledDebugInternal(t, internal) /\ DebugInternalRecord(t, awaits)
InfoCall(t, awaits) == InfoRecord(t, awaits)
WarnCall(t) == WarnRecord(t)
ErrorCall(t, awaits) == ErrorRecord(t, awaits)
MandatoryCall(t, awaits) == MandatoryRecord(t, awaits)
ProfileCall(t, awaits) == ProfileRecord(t, awaits)

Call(t) ==
    \/ WarnCall(t)
    \/ \E awaits \in BOOLEAN :
         \/ TraceCall(t, awaits) \/ DebugInternalCall(t, awaits) \/ InfoCall(t, awaits)
         \/ ErrorCall(t, awaits) \/ MandatoryCall(t, awaits) \/ ProfileCall(t, awaits)

AddLogger(l) ==
    /\ Len(loggers) < MaxLoggers
    /\ loggers' = Append(loggers, l)
    /\ UNCHANGED <<ctx, live, handles, current, polls, own, future, interval, writing,
                   stats, limits, reported, told, late>>

SetLoggers(list) ==
    /\ Work + Len(loggers) - Len(list) =< MaxWork
    /\ loggers' = list
    /\ UNCHANGED <<ctx, live, handles, current, polls, own, future, interval, writing,
                   stats, limits, reported, told, late>>

-----------------------------------------------------------------------------
(* ApplyContext                                                             *)

Wrap(t, f, c) ==
    /\ Runs(t) /\ Work < MaxWork /\ future[f].phase = "new" /\ c \in handles \cup {Current(t)}
    /\ future' = [future EXCEPT ![f].phase = "idle", ![f].ctx = c]
    /\ UNCHANGED <<ctx, live, handles, current, polls, own, interval, writing, loggers,
                   stats, limits, reported, told, late>>

Poll(t, f) ==
    /\ Runs(t) /\ current[t] # Gone /\ future[f].phase = "idle"
    /\ polls' = [polls EXCEPT ![t] = Append(@,
                    [future |-> f, prior |-> current[t], own |-> future[f].ctx])]
    /\ current' = [current EXCEPT ![t] = future[f].ctx]
    /\ future' = [future EXCEPT ![f].phase = "polled"]
    /\ UNCHANGED <<contextVars, own, interval, writing, loggers, reportVars>>
    /\ Reap

\* Variant: the context is put back after the inner poll returns.
RestoredUnlessPanic(t, outcome) ==
    IF outcome = "panic" THEN current[t] ELSE Top(polls[t]).prior
Restored(t, outcome) == Top(polls[t]).prior

\* Pending, ready, or a panic, which also unwinds a record being formatted.
\* A poll that awaits a logger only returns when that logger is pending.
Return(t, outcome) ==
    /\ polls[t] # <<>>
    /\ writing[t] # NoRecord => outcome = "panic"
    /\ future[Top(polls[t]).future].sending # NoRecord => outcome # "ready"
    /\ polls' = [polls EXCEPT ![t] = SubSeq(@, 1, Len(@) - 1)]
    /\ current' = [current EXCEPT ![t] = Restored(t, outcome)]
    /\ future' = [future EXCEPT ![Top(polls[t]).future].phase =
                    IF outcome = "pending" THEN "idle" ELSE "done"]
    /\ writing' = [writing EXCEPT ![t] = NoRecord]
    /\ UNCHANGED <<contextVars, own, interval, loggers, reportVars>>
    /\ Reap

DropFuture(f) ==
    /\ future[f].phase \in {"idle", "done"}
    /\ future' = [future EXCEPT ![f] = [phase |-> "dropped", ctx |-> Gone, sending |-> NoRecord]]
    /\ UNCHANGED <<contextVars, current, polls, own, interval, writing, loggers, reportVars>>
    /\ Reap

\* The destructor of the thread's cell; what logs after it is detached.
ThreadExit(t) ==
    /\ Runs(t) /\ Work < MaxWork /\ polls[t] = <<>> /\ current[t] # Gone
    /\ current' = [current EXCEPT ![t] = Gone]
    /\ own' = [own EXCEPT ![t] = Gone]
    /\ UNCHANGED <<contextVars, polls, future, interval, writing, loggers, reportVars>>
    /\ Reap

-----------------------------------------------------------------------------
(* Intervals                                                                *)

Begin(t, i, kind) ==
    /\ Runs(t) /\ Work < MaxWork /\ interval[i].phase = "new"
    /\ interval' = [interval EXCEPT ![i] = [phase |-> "open", kind |-> kind, spent |-> 0,
                       ctx |-> Current(t), owner |-> TaskOf[Current(t)]]]
    /\ UNCHANGED <<ctx, live, handles, current, polls, own, future, writing, loggers,
                   stats, limits, reported, told>>

PerfwarnBegin(t, i) == Begin(t, i, "plain") /\ Say(TaskOf[Current(t)])
PerfwarnBeginIf(t, i) == Begin(t, i, "if") /\ UNCHANGED late
ProfileBegin(t, i) == Begin(t, i, "profile") /\ Say(TaskOf[Current(t)])

\* perfwarn_begin! and perfwarn!, whose block ends with the interval; the
\* conditional macro; and profile_begin! and #[profile] around a body.
PerfwarnCall(t, i) == PerfwarnBegin(t, i)
PerfwarnIfCall(t, i) == PerfwarnBeginIf(t, i)
ProfiledCall(t, i) == ProfileBegin(t, i)

\* Variant: the time goes to the task that is current where the guard drops.
ChargedHere(t, i) == TaskOf[Current(t)]
Charged(t, i) == TaskOf[interval[i].ctx]

\* Drop, on whatever thread the guard has got to.
End(t, i, kind, spent) ==
    /\ Runs(t) /\ interval[i].phase = "open" /\ interval[i].kind = kind
    /\ interval' = [interval EXCEPT ![i].phase = "ended", ![i].ctx = Gone, ![i].spent = spent]
    /\ UNCHANGED <<contextVars, current, polls, own, future, writing, loggers>>

PerfwarnEnd(t, i, spent) ==
    /\ End(t, i, "plain", spent)
    /\ stats' = [stats EXCEPT ![Charged(t, i)] = @ + spent]
    /\ Say(Charged(t, i))
    /\ UNCHANGED limits
    /\ Reap

PerfwarnIfEnd(t, i, spent) ==
    /\ End(t, i, "if", spent)
    /\ stats' = [stats EXCEPT ![Charged(t, i)] = @ + spent]
    /\ limits' = [limits EXCEPT ![Charged(t, i)] = @ + Threshold]
    /\ IF spent > Threshold THEN Say(Charged(t, i)) ELSE UNCHANGED late
    /\ Reap

ProfileEnd(t, i, spent) ==
    /\ End(t, i, "profile", spent)
    /\ Say(Charged(t, i))
    /\ UNCHANGED <<stats, limits>>
    /\ Reap

-----------------------------------------------------------------------------

Thread(t) ==
    \/ \E parent \in 0..Len(ctx), completes \in Internal : NewTask(t, parent, completes)
    \/ FromParent(t) \/ Reset(t)
    \/ \E c \in Ids : SetCurrent(t, c) \/ Pop(t, c)
    \/ BeginTrace(t) \/ Call(t) \/ SyncPost(t) \/ AsyncPost(t) \/ Awaited(t)
    \/ \E f \in Futures : Poll(t, f) \/ \E c \in Ids : Wrap(t, f, c)
    \/ \E outcome \in {"pending", "ready", "panic"} : Return(t, outcome)
    \/ ThreadExit(t)
    \/ \E i \in Intervals :
         \/ PerfwarnCall(t, i) \/ PerfwarnIfCall(t, i) \/ ProfiledCall(t, i)
         \/ \E spent \in Durations :
              PerfwarnEnd(t, i, spent) \/ PerfwarnIfEnd(t, i, spent) \/ ProfileEnd(t, i, spent)

Next ==
    \/ \E t \in Threads : Thread(t)
    \/ \E c \in handles : DropHandle(c)
    \/ \E f \in Futures : DropFuture(f)
    \/ \E l \in Loggers : AddLogger(l)
    \/ \E list \in Lists(Loggers) : SetLoggers(list)

Spec == Init /\ [][Next]_vars

-----------------------------------------------------------------------------
(* Properties *)

TypeOK ==
    /\ ctx \in Seq([parent : 0..Len(ctx), task : BOOLEAN, completes : BOOLEAN,
                    tracing : BOOLEAN])
    /\ live \subseteq Ids /\ handles \subseteq live
    /\ current \in [Threads -> live \cup {Gone}]
    /\ own \in [Threads -> Ids \cup {Gone}]
    /\ polls \in [Threads -> Seq([future : Futures, prior : live, own : Ids])]
    /\ future \in [Futures -> [phase : {"new", "idle", "polled", "done", "dropped"},
                               ctx : live \cup {Gone},
                               sending : {NoRecord} \cup Seq(Loggers)]]
    /\ interval \in [Intervals -> [phase : {"new", "open", "ended"}, spent : Nat,
                                   kind : {"plain", "if", "profile"},
                                   ctx : live \cup {Gone}, owner : Ids \cup {Gone}]]
    /\ writing \in [Threads -> [task : Ids, awaits : BOOLEAN] \cup {NoRecord}]
    /\ loggers \in Seq(Loggers)
    /\ {stats, limits, reported} \subseteq [Ids -> Nat]
    /\ {told, late} \subseteq [Loggers -> SUBSET Ids]

\* Futures polled inside one another, moved between threads, that change the
\* context and panic: code runs under the context it has chosen itself, or
\* under its future's, and never under one another poll has left behind.
OwnContext ==
    \A t \in Threads : current[t] = IF polls[t] = <<>> THEN own[t] ELSE Top(polls[t]).own

\* "Finished task" is the last a logger hears of a task from any thread's
\* synchronous calls and guards.
CompletionIsLast == \A l \in Loggers : late[l] = {}

Ended(task, kinds) ==
    {i \in Intervals : /\ interval[i].owner = task /\ interval[i].kind \in kinds
                       /\ interval[i].phase = "ended"}

TimeSpent(task) == MapThenSumSet(LAMBDA i : interval[i].spent, Ended(task, {"plain", "if"}))
TimeAllowed(task) == Threshold * Cardinality(Ended(task, {"if"}))

\* A task's statistics, written when its last context goes, account for every
\* interval begun under it, wherever and whenever the interval ended.  This is
\* what add_task_interval_if does: it adds every duration and every threshold,
\* where the documentation of PerfwarnIntervalIf (interval.rs 186-188) has only
\* the intervals added that exceed their threshold.
StatisticsComplete ==
    \A c \in Ids \ live : ctx[c].task =>
        /\ \A i \in Intervals : interval[i].owner = c => interval[i].phase = "ended"
        /\ reported[c] = IF TimeAllowed(c) = 0 \/ TimeSpent(c) > TimeAllowed(c)
                         THEN TimeSpent(c) ELSE 0
==============================================================================
