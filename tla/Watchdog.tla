------------------------------ MODULE Watchdog ------------------------------
(***************************************************************************)
(* Heartbeat guards, the thread that watches their deadlines, the in-memory *)
(* logger they report to and the future that drains it to the console with  *)
(* the help of a timer thread.                                              *)
(*                                                                          *)
(* The steps of a guard belong to whatever thread holds it.  Every reading  *)
(* of Instant::now is a reading of clock.  The channel (wasm_lite_std) and  *)
(* the executor that polls the future are external: a channel delivers in   *)
(* order and may report a timeout from the deadline on; an executor polls a *)
(* future it was woken for and may poll any other.  PerfWarn is enabled in  *)
(* every build, so HeartbeatGuard::new never returns its inert guard.       *)
(***************************************************************************)
EXTENDS Integers, Sequences, FiniteSets, FiniteSetsExt

CONSTANTS Guards, None,
          Deadlines,     \* the durations guards are given
          Drains,        \* the durations the drain is given
          Period,        \* 100 ms
          MaxTime,       \* bound: the clock, at which a timer sleeps no longer
          MaxDisarmed    \* bound: timer threads between clearing armed and waking

ASSUME TimesAssumption ==
    Deadlines \cup Drains \cup {Period, MaxTime, MaxDisarmed} \subseteq Nat
ASSUME NoneAssumption == None \notin Nat

VARIABLES clock,
          guard,      \* HeartbeatGuard; late: dropped at its deadline or after
          channel,    \* CHANNEL: not initialized, watched, or the spawn has failed
          queue,      \* the messages the watcher has not received
          watched,    \* heartbeats: the guards registered,
          warned,     \*   and those of them already reported
          loop,       \* where heartbeat_loop is
          logs,       \* InMemoryLogger::logs
          shown,      \* history: guards whose missed record the console or the application has
          missed,     \* history: "missed deadline" records, per guard
          drain,      \* PeriodicDrainToConsole
          woken,      \* the executor owes the drain a poll
          waker,      \* DrainTimerState::waker holds one
          armed,      \* DrainTimerState::armed
          sleeping,   \* when the armed timer thread wakes up
          disarmed    \* timer threads that have cleared armed and not woken anyone

guardVars == <<guard, channel, missed>>
watcherVars == <<watched, warned, loop>>
drainVars == <<drain, woken, waker, armed, sleeping, disarmed>>
vars == <<clock, guardVars, queue, watcherVars, logs, shown, drainVars>>

Record(g, kind) == [guard |-> g, kind |-> kind]
Records == [guard : Guards, kind : {"missed", "dropped"}]
Messages == [guard : Guards, kind : {"Register", "Complete"}]

Init ==
    /\ clock = 0
    /\ guard = [g \in Guards |-> [phase |-> "new", deadline |-> 0, late |-> FALSE]]
    /\ channel = "unset" /\ queue = <<>>
    /\ watched = {} /\ warned = {} /\ loop = "receive"
    /\ logs = {} /\ shown = {} /\ missed = [g \in Guards |-> 0]
    /\ drain = [phase |-> "new", ends |-> None]
    /\ woken = TRUE
    /\ waker = FALSE /\ armed = FALSE /\ sleeping = None /\ disarmed = 0

Tick ==
    /\ clock < MaxTime
    /\ clock' = clock + 1
    /\ UNCHANGED <<guardVars, queue, watcherVars, logs, shown, drainVars>>

-----------------------------------------------------------------------------
(* The guard *)

\* HeartbeatGuard::new reads the clock ...
Create(g, duration) ==
    /\ guard[g].phase = "new"
    /\ guard' = [guard EXCEPT ![g].phase = "created", ![g].deadline = clock + duration]
    /\ UNCHANGED <<clock, channel, missed, queue, watcherVars, logs, shown, drainVars>>

\* A send to a watcher that never started is an error the guard ignores.
Sent(message, up) == IF up = "watched" THEN Append(queue, message) ELSE queue

\* ... and registers, the first guard spawning the watcher if it can.
Register(g) ==
    /\ guard[g].phase = "created"
    /\ channel' \in IF channel = "unset" THEN {"watched", "failed"} ELSE {channel}
    /\ queue' = Sent([guard |-> g, kind |-> "Register"], channel')
    /\ guard' = [guard EXCEPT ![g].phase = "open"]
    /\ UNCHANGED <<clock, missed, watcherVars, logs, shown, drainVars>>

Expired(g) == clock >= guard[g].deadline

\* Drop reads the clock, and reports at the drop site past the deadline ...
Drop(g) ==
    /\ guard[g].phase = "open"
    /\ guard' = [guard EXCEPT ![g].phase = "dropping", ![g].late = Expired(g)]
    /\ logs' = IF clock > guard[g].deadline THEN logs \cup {Record(g, "dropped")} ELSE logs
    /\ UNCHANGED <<clock, channel, missed, queue, watcherVars, shown, drainVars>>

\* ... and tells the watcher.
SendComplete(g) ==
    /\ guard[g].phase = "dropping"
    /\ queue' = Sent([guard |-> g, kind |-> "Complete"], channel)
    /\ guard' = [guard EXCEPT ![g].phase = "dropped"]
    /\ UNCHANGED <<clock, channel, missed, watcherVars, logs, shown, drainVars>>

-----------------------------------------------------------------------------
(* heartbeat_loop *)

\* Variant: a guard reported once stays due.
PendingForEver == watched
Pending == watched \ warned

LogMissed(S) ==
    /\ logs' = logs \cup {Record(g, "missed") : g \in S}
    /\ missed' = [g \in Guards |-> IF g \in S THEN missed[g] + 1 ELSE missed[g]]

Hears(kind) ==
    /\ channel = "watched" /\ loop = "receive"
    /\ queue # <<>> /\ Head(queue).kind = kind
    /\ queue' = Tail(queue)
    /\ loop' = "check"

ReceiveRegister ==
    /\ Hears("Register")
    /\ watched' = watched \cup {Head(queue).guard}
    /\ UNCHANGED <<clock, guardVars, warned, logs, shown, drainVars>>

\* Variant: a completed guard is forgotten without a look at its deadline.
MissedUnseenForgotten(g) == {}
\* A guard is judged when the watcher hears of its drop.
MissedUnseen(g) == {h \in Pending : h = g /\ Expired(h)}

ReceiveComplete ==
    /\ Hears("Complete")
    /\ watched' = watched \ {Head(queue).guard}
    /\ warned' = warned \ {Head(queue).guard}
    /\ LogMissed(MissedUnseen(Head(queue).guard))
    /\ UNCHANGED <<clock, guard, channel, shown, drainVars>>

\* Variant: the watcher waits for a message whatever is pending.
DeadlinesAheadNone == {}
\* The loop waits for the earliest deadline not reported yet, or for ever.
DeadlinesAhead == {guard[g].deadline : g \in Pending}

ReceiveTimeout ==
    /\ channel = "watched" /\ loop = "receive"
    /\ DeadlinesAhead # {} /\ clock >= Min(DeadlinesAhead)
    /\ loop' = "check"
    /\ UNCHANGED <<clock, guardVars, queue, watched, warned, logs, shown, drainVars>>

CheckDeadlines ==
    /\ loop = "check"
    /\ LET due == {g \in Pending : Expired(g)}
       IN  LogMissed(due) /\ warned' = warned \cup due
    /\ loop' = "receive"
    /\ UNCHANGED <<clock, guard, channel, queue, watched, shown, drainVars>>

-----------------------------------------------------------------------------
(* The logger and its drain *)

Empty ==
    /\ shown' = shown \cup {g \in Guards : Record(g, "missed") \in logs}
    /\ logs' = {}

DrainLogs ==
    /\ Empty
    /\ UNCHANGED <<clock, guardVars, queue, watcherVars, drainVars>>

\* The first poll starts the duration, which may outlast the clock.
Ends == IF drain.ends # None THEN {drain.ends}
        ELSE {Min({clock + duration, MaxTime + 1}) : duration \in Drains}

\* A poll prints everything, last a warning of its own when it is the last.
PollDrain ==
    /\ drain.phase \in {"new", "pending"}
    /\ woken' = FALSE
    /\ \E ends \in Ends :
         drain' = [ends |-> ends, phase |-> IF clock >= ends THEN "done" ELSE "first"]
    /\ Empty
    /\ UNCHANGED <<clock, guardVars, queue, watcherVars, waker, armed, sleeping, disarmed>>

StoreWaker(from, to) ==
    /\ drain.phase = from
    /\ waker' = TRUE
    /\ drain' = [drain EXCEPT !.phase = to]
    /\ UNCHANGED <<clock, guardVars, queue, watcherVars, logs, shown, woken, armed,
                   sleeping, disarmed>>

\* armed.swap, which spawns a timer thread unless one is asleep.
Arm(from, to) ==
    /\ drain.phase = from
    /\ armed' = TRUE
    /\ sleeping' = IF armed THEN sleeping ELSE Min({clock + Period, MaxTime})
    /\ drain' = [drain EXCEPT !.phase = to]
    /\ UNCHANGED <<clock, guardVars, queue, watcherVars, logs, shown, woken, waker, disarmed>>

\* Variant: the timer is armed before the waker is there.
PollRegistersSwapped == Arm("first", "second") \/ StoreWaker("second", "pending")
PollRegisters == StoreWaker("first", "second") \/ Arm("second", "pending")

TimerDisarms ==
    /\ sleeping # None /\ clock >= sleeping /\ disarmed < MaxDisarmed
    /\ armed' = FALSE /\ sleeping' = None
    /\ disarmed' = disarmed + 1
    /\ UNCHANGED <<clock, guardVars, queue, watcherVars, logs, shown, drain, woken, waker>>

TimerWakes ==
    /\ disarmed > 0
    /\ disarmed' = disarmed - 1
    /\ waker' = FALSE
    /\ woken' = (woken \/ waker)
    /\ UNCHANGED <<clock, guardVars, queue, watcherVars, logs, shown, drain, armed, sleeping>>

-----------------------------------------------------------------------------

Watcher == ReceiveRegister \/ ReceiveComplete \/ ReceiveTimeout \/ CheckDeadlines

Next ==
    \/ Tick
    \/ \E g \in Guards :
         \/ \E duration \in Deadlines : Create(g, duration)
         \/ Register(g) \/ Drop(g) \/ SendComplete(g)
    \/ Watcher
    \/ DrainLogs \/ PollDrain \/ PollRegisters \/ TimerDisarms \/ TimerWakes

\* Time passes, threads run, and an executor polls what it was woken for; a
\* guard need never be dropped.
Fairness ==
    /\ WF_vars(Tick) /\ WF_vars(Watcher)
    /\ WF_vars(woken /\ PollDrain) /\ WF_vars(PollRegisters)
    /\ WF_vars(TimerDisarms) /\ WF_vars(TimerWakes)

Spec == Init /\ [][Next]_vars /\ Fairness

-----------------------------------------------------------------------------
(* Properties *)

TypeOK ==
    /\ clock \in 0..MaxTime
    /\ guard \in [Guards -> [phase : {"new", "created", "open", "dropping", "dropped"},
                             deadline : Nat, late : BOOLEAN]]
    /\ channel \in {"unset", "watched", "failed"} /\ queue \in Seq(Messages)
    /\ watched \subseteq Guards /\ warned \subseteq watched
    /\ loop \in {"receive", "check"}
    /\ logs \subseteq Records /\ shown \subseteq Guards
    /\ missed \in [Guards -> {0, 1}]
    /\ drain \in [phase : {"new", "pending", "first", "second", "done"},
                  ends : Nat \cup {None}]
    /\ {woken, waker, armed} \subseteq BOOLEAN
    /\ sleeping \in Nat \cup {None} /\ (armed <=> sleeping # None)
    /\ disarmed \in 0..MaxDisarmed

Told(g) == \E i \in DOMAIN queue : queue[i].guard = g

\* A guard dropped at or past its deadline was reported exactly once by the
\* time the watcher has heard of the drop, whether the deadline check, the drop
\* or another guard's message came first.
LateIsReportedOnce ==
    \A g \in Guards :
        /\ missed[g] <= 1
        /\ (channel = "watched" /\ guard[g].phase = "dropped" /\ ~Told(g)
              /\ guard[g].late) => missed[g] = 1

\* A pending drain that nobody is about to poll has a waker stored and a timer
\* thread still to take it, even one that is between disarming and waking.
DrainIsOwedAPoll ==
    drain.phase = "pending" /\ ~woken => waker /\ (sleeping # None \/ disarmed > 0)

\* A hang is shown while it lasts: a guard nobody drops is reported past its
\* deadline by a watcher that was asleep, and the report reaches the console or
\* the application as long as the drain goes on.
HangIsShown ==
    \A g \in Guards :
        (guard[g].phase = "open" /\ Expired(g) /\ channel = "watched")
            ~> (g \in shown \/ drain.phase = "done")
==============================================================================
