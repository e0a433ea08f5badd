------------------------------- MODULE Runtime -------------------------------
(***************************************************************************)
(* What a log call and a span go through once the Runtime of                *)
(* logwise_runtime/src/facade_runtime.rs is installed: the macro asks for   *)
(* its interest and evaluates the fields that are wanted (macros.rs), emit  *)
(* projects them for every matching sink, and a span is kept in a bounded   *)
(* window after it ends.  The sinks are InMemorySinks (sinks.rs) and        *)
(* callbacks of the application, which may log, panic or be removed         *)
(* meanwhile.                                                               *)
(*                                                                          *)
(* One action per section under the state's Spinlock (module Spinlock), per *)
(* lock operation of a sink, and per call into one.  How interest is cached *)
(* is the subject of module InterestCache; here a call gets what a settled  *)
(* configuration guarantees it.                                             *)
(***************************************************************************)
EXTENDS Integers, Sequences, FiniteSets

CONSTANTS Threads, Nobody,
          Sinks,        \* registrations that may be made
          Capability,   \* sink -> capability it is registered with
          Detail,       \* sink -> "Core" or "Full"
          Memory,       \* the sinks that are InMemorySinks
          Policies,     \* the overflow policies an InMemorySink may be built with
          Capacity,     \* InMemorySink::capacity
          Kept,         \* sinks of which the application keeps a handle
          Panicking,    \* sinks whose emit may panic
          Chatty,       \* sinks whose emit may log
          Sites,        \* call sites
          Kind,         \* site -> "Event" or "AdHocText"
          FieldsOf,     \* site -> groups of its fields
          Matches,      \* sink -> sites its filter matches
          Retention,    \* COMPLETED_SPAN_RETENTION
          MaxCalls      \* bound: log calls and spans in a behaviour

Privacies == {"SupportSafe", "LocalOnly", "Secret"}
Groups == Privacies \X {"Core", "Detail"}
Capabilities == {"Remote", "LocalRetained", "TrustedEphemeral"}

ASSUME ThreadAssumption == Nobody \notin Threads
ASSUME SinkAssumption ==
    /\ Capability \in [Sinks -> Capabilities] /\ Detail \in [Sinks -> {"Core", "Full"}]
    /\ Memory \subseteq Sinks /\ Kept \subseteq Sinks
    /\ Panicking \subseteq Sinks \ Memory /\ Chatty \subseteq Sinks \ Memory
    /\ Policies \subseteq {"DropNewest", "OverwriteOldest"}
ASSUME SiteAssumption ==
    /\ Kind \in [Sites -> {"Event", "AdHocText"}]
    /\ FieldsOf \in [Sites -> SUBSET Groups]
    /\ Matches \in [Sinks -> SUBSET Sites]
ASSUME NumberAssumption ==
    Capacity \in Nat /\ Retention \in Nat \ {0} /\ MaxCalls \in Nat

VARIABLES
    sinks,        \* State::sinks
    settling,     \* sinks whose addition or removal is not yet announced
    task,         \* the sink a configuring or draining thread works on
    inDispatch,   \* IN_DISPATCH of each thread
    fan,          \* the emits each thread is inside, the innermost last
    call,         \* a log call between its interest and its emit
    delivery,     \* sink_panics, reentrant_events_dropped, and spans' drops
    overflow, records, lock, stats,    \* of each InMemorySink
    nextSpan, active, completed,       \* the spans
    ending,       \* the span a thread has taken out of active_spans, 0 for none
    pc, calls,
    begun,        \* history: sinks that were ever added
    steady,       \* history: sinks that see all of a thread's call
    visited,      \* history: sinks that a thread's outermost emit called
    offered, drained,                  \* history, per sink
    pushed, taken, lost                \* history, of completed spans

configVars == <<sinks, settling, task, begun>>
emitVars == <<inDispatch, fan, call, steady, visited>>
memoryVars == <<overflow, records, lock, stats, drained>>
spanVars == <<nextSpan, active, completed, ending, pushed, taken, lost>>
vars == <<configVars, emitVars, delivery, memoryVars, spanVars, pc, calls, offered>>

Elements(s) == {s[i] : i \in 1..Len(s)}

Steps == {"idle", "evaluated", "view", "called", "store", "release",
          "announceAdd", "announceRemove", "dropping", "drain", "spanPush"}
Frame == [left: Seq(Sinks), site: Sites, given: SUBSET Groups, shown: SUBSET Groups]
StatsRecord == [accepted: Nat, dropped: Nat, overwritten: Nat]
DeliveryRecord == [panics: Nat, reentrant: Nat, spansDropped: Nat]

Top(t) == fan[t][Len(fan[t])]
Current(t) == Head(Top(t).left)
InView(t) == fan[t] # <<>> /\ Top(t).left # <<>>

\* A thread that has a sink at hand is in an emit that has not passed it.
TypeOK ==
    /\ \A t \in Threads :
          /\ pc[t] \in {"called", "store", "release"} => InView(t)
          /\ pc[t] = "store" => Current(t) \in Memory
          /\ pc[t] = "view" => fan[t] # <<>>
    /\ sinks \in Seq(Sinks) /\ settling \subseteq Sinks /\ begun \subseteq Sinks
    /\ task \in [Threads -> SUBSET Sinks]
    /\ inDispatch \in [Threads -> BOOLEAN]
    /\ fan \in [Threads -> Seq(Frame)]
    /\ call \in [Threads -> SUBSET [site: Sites, given: SUBSET Groups]]
    /\ delivery \in DeliveryRecord
    /\ overflow \in [Memory -> Policies]
    /\ records \in [Memory -> Seq(SUBSET Groups)] /\ stats \in [Memory -> StatsRecord]
    /\ lock \in [Memory -> Threads \cup {Nobody}]
    /\ nextSpan \in Nat /\ active \subseteq Nat \X Threads /\ completed \in Seq(Nat)
    /\ ending \in [Threads -> Nat]
    /\ pc \in [Threads -> Steps] /\ calls \in Nat
    /\ steady \in [Threads -> SUBSET Sinks] /\ visited \in [Threads -> Seq(Sinks)]
    /\ offered \in [Memory -> Nat] /\ drained \in [Memory -> Nat]
    /\ pushed \in Seq(Nat) /\ taken \subseteq Nat /\ lost \subseteq Nat

Init ==
    /\ sinks = <<>> /\ settling = {} /\ begun = {}
    /\ task = [t \in Threads |-> {}]
    /\ inDispatch = [t \in Threads |-> FALSE]
    /\ fan = [t \in Threads |-> <<>>] /\ call = [t \in Threads |-> {}]
    /\ delivery = [panics |-> 0, reentrant |-> 0, spansDropped |-> 0]
    /\ overflow \in [Memory -> Policies]
    /\ records = [s \in Memory |-> <<>>] /\ lock = [s \in Memory |-> Nobody]
    /\ stats = [s \in Memory |-> [accepted |-> 0, dropped |-> 0, overwritten |-> 0]]
    /\ nextSpan = 0 /\ active = {} /\ completed = <<>>
    /\ ending = [t \in Threads |-> 0]
    /\ pc = [t \in Threads |-> "idle"] /\ calls = 0
    /\ steady = [t \in Threads |-> {}] /\ visited = [t \in Threads |-> <<>>]
    /\ offered = [s \in Memory |-> 0] /\ drained = [s \in Memory |-> 0]
    /\ pushed = <<>> /\ taken = {} /\ lost = {}

Goto(t, step) == pc' = [pc EXCEPT ![t] = step]

-----------------------------------------------------------------------------
(* Who may see what *)

\* Variant: local fields are not asked for on behalf of a local sink.
AskedForLess == [Remote |-> {"SupportSafe"},
                 LocalRetained |-> {"SupportSafe"},
                 TrustedEphemeral |-> Privacies]
AskedFor == [Remote |-> {"SupportSafe"},
             LocalRetained |-> {"SupportSafe", "LocalOnly"},
             TrustedEphemeral |-> Privacies]

\* sink_interest
SinkInterest(s) ==
    AskedFor[Capability[s]] \X (IF Detail[s] = "Core" THEN {"Core"} ELSE {"Core", "Detail"})

PrivacyAllowed(capability, privacy) ==
    \/ capability = "Remote" /\ privacy = "SupportSafe"
    \/ capability = "LocalRetained" /\ privacy # "Secret"
    \/ capability = "TrustedEphemeral"

\* project_event
Project(s, fields) ==
    {g \in fields : /\ PrivacyAllowed(Capability[s], g[1])
                    /\ Detail[s] = "Full" \/ g[2] = "Core"}

\* Dispatch::interest and contextual_interest look at the filter, emit also
\* keeps ad-hoc text from remote sinks.
Wanting(site, among) == {s \in among : site \in Matches[s]}
Accepts(s, site) ==
    /\ ~(Kind[site] = "AdHocText" /\ Capability[s] = "Remote")
    /\ site \in Matches[s]

\* interest.any() for structured events, wants(LocalOnly, Core) for log!.
Enabled(site, mask) ==
    IF Kind[site] = "AdHocText" THEN <<"LocalOnly", "Core">> \in mask ELSE mask # {}

\* __logwise_field_values: the fields evaluated for a mask.
Evaluated(site, mask) == FieldsOf[site] \cap mask

-----------------------------------------------------------------------------
(* A log call, and Dispatch::emit *)

Announced == Elements(sinks) \ settling

\* The macro: a sink that is being added or removed may still be reckoned
\* with or not.
LogStart(t, site) ==
    /\ pc[t] = "idle" /\ calls < MaxCalls
    /\ calls' = calls + 1
    /\ \E unsettled \in SUBSET settling :
          LET mask == UNION {SinkInterest(s) :
                               s \in Wanting(site, Announced \cup unsettled)} IN
          \/ Enabled(site, mask)
             /\ call' = [call EXCEPT ![t] =
                            {[site |-> site, given |-> Evaluated(site, mask)]}]
             /\ steady' = [steady EXCEPT ![t] = {s \in Announced : Accepts(s, site)}]
             /\ Goto(t, "evaluated")
          \/ ~Enabled(site, mask) /\ UNCHANGED <<call, steady, pc>>
    /\ UNCHANGED <<configVars, inDispatch, fan, visited, delivery, memoryVars,
                   spanVars, offered>>

\* Variant: a nested emit is let in.
RefusedNever(t) == FALSE
Refused(t) == inDispatch[t]

\* The registrations that are given a view of an event, in their order.
Views(site) ==
    LET upTo[n \in 0..Len(sinks)] ==
          IF n = 0 THEN <<>>
          ELSE IF Accepts(sinks[n], site) THEN Append(upTo[n - 1], sinks[n])
          ELSE upTo[n - 1]
    IN  upTo[Len(sinks)]

\* Where a thread goes on when it is no longer in the innermost emit.
Outside(depth) == IF depth = 0 THEN "idle" ELSE "called"

\* emit sets the flag and snapshots the registrations, or is refused.
Dispatch(t, event) ==
    IF Refused(t)
    THEN /\ delivery' = [delivery EXCEPT !.reentrant = @ + 1]
         /\ Goto(t, Outside(Len(fan[t])))
         /\ UNCHANGED <<inDispatch, fan>>
    ELSE /\ inDispatch' = [inDispatch EXCEPT ![t] = TRUE]
         /\ fan' = [fan EXCEPT ![t] = Append(@,
               [left |-> Views(event.site),
                site |-> event.site, given |-> event.given, shown |-> {}])]
         /\ Goto(t, "view")
         /\ UNCHANGED delivery

EmitStart(t) ==
    /\ pc[t] = "evaluated"
    /\ \E event \in call[t] : Dispatch(t, event)
    /\ call' = [call EXCEPT ![t] = {}]
    /\ visited' = [visited EXCEPT ![t] = <<>>]
    /\ UNCHANGED <<configVars, steady, memoryVars, spanVars, calls, offered>>

\* The next sink is called with its projection of the event.
CallSink(t) ==
    /\ pc[t] = "view" /\ InView(t)
    /\ fan' = [fan EXCEPT ![t][Len(fan[t])].shown = Project(Current(t), Top(t).given)]
    /\ visited' = [visited EXCEPT ![t] = Append(@, Current(t))]
    /\ offered' = [s \in Memory |-> IF s = Current(t) THEN offered[s] + 1 ELSE offered[s]]
    /\ Goto(t, "called")
    /\ UNCHANGED <<configVars, inDispatch, call, steady, delivery, memoryVars,
                   spanVars, calls>>

\* A callback returns ...
SinkReturn(t) ==
    /\ pc[t] = "called" /\ Current(t) \notin Memory
    /\ Goto(t, "release")
    /\ UNCHANGED <<configVars, emitVars, delivery, memoryVars, spanVars, calls,
                   offered>>

\* Variant: without catch_unwind the other views are not reached.
LeftAfterPanicNone(t) == SubSeq(Top(t).left, 1, 1)
\* Variant: the registration is dropped twice.
LeftAfterPanicTwice(t) == Tail(Top(t).left)
LeftAfterPanic(t) == Top(t).left

\* ... or panics, which is caught and counted ...
SinkPanic(t) ==
    /\ pc[t] = "called" /\ Current(t) \in Panicking
    /\ delivery' = [delivery EXCEPT !.panics = @ + 1]
    /\ fan' = [fan EXCEPT ![t][Len(fan[t])].left = LeftAfterPanic(t)]
    /\ Goto(t, "release")
    /\ UNCHANGED <<configVars, inDispatch, call, steady, visited, memoryVars,
                   spanVars, calls, offered>>

\* ... or logs.
SinkLog(t, site) ==
    /\ pc[t] = "called" /\ Current(t) \in Chatty /\ calls < MaxCalls
    /\ calls' = calls + 1
    /\ Dispatch(t, [site |-> site, given |-> FieldsOf[site]])
    /\ UNCHANGED <<configVars, call, steady, visited, memoryVars, spanVars, offered>>

\* The loop's clone of the registration is dropped.
Release(t) ==
    /\ pc[t] = "release"
    /\ fan' = [fan EXCEPT ![t][Len(fan[t])].left = Tail(Top(t).left),
                          ![t][Len(fan[t])].shown = {}]
    /\ Goto(t, "view")
    /\ UNCHANGED <<configVars, inDispatch, call, steady, visited, delivery,
                   memoryVars, spanVars, calls, offered>>

ResetDispatch(t) == inDispatch' = [inDispatch EXCEPT ![t] = FALSE]

EmitEnd(t) ==
    /\ pc[t] = "view" /\ ~InView(t)
    /\ fan' = [fan EXCEPT ![t] = SubSeq(@, 1, Len(@) - 1)]
    /\ ResetDispatch(t)
    /\ steady' = [steady EXCEPT ![t] = {}]
    /\ visited' = [visited EXCEPT ![t] = <<>>]
    /\ Goto(t, Outside(Len(fan[t]) - 1))
    /\ UNCHANGED <<configVars, call, delivery, memoryVars, spanVars, calls, offered>>

-----------------------------------------------------------------------------
(* InMemorySink *)

Contended(s) == Capacity = 0 \/ lock[s] # Nobody

MemoryTryLock(t) ==
    LET s == Current(t) IN
    /\ pc[t] = "called" /\ s \in Memory
    /\ \/ /\ Capacity > 0 /\ lock[s] = Nobody
          /\ lock' = [lock EXCEPT ![s] = t]
          /\ Goto(t, "store")
          /\ UNCHANGED stats
       \/ /\ Contended(s)
          /\ stats' = [stats EXCEPT ![s].dropped = @ + 1]
          /\ Goto(t, "release")
          /\ UNCHANGED lock
    /\ UNCHANGED <<configVars, emitVars, delivery, overflow, records, drained, spanVars, calls,
                   offered>>

\* Variant: one record too many.
FullOffByOne(s) == Len(records[s]) = Capacity + 1
Full(s) == Len(records[s]) = Capacity

\* The record is the projection.
MemoryStore(t) ==
    LET s == Current(t) IN
    /\ pc[t] = "store"
    /\ \/ /\ ~Full(s)
          /\ records' = [records EXCEPT ![s] = Append(@, Top(t).shown)]
          /\ stats' = [stats EXCEPT ![s].accepted = @ + 1]
       \/ /\ Full(s) /\ overflow[s] = "DropNewest"
          /\ stats' = [stats EXCEPT ![s].dropped = @ + 1]
          /\ UNCHANGED records
       \/ /\ Full(s) /\ overflow[s] = "OverwriteOldest"
          /\ records' = [records EXCEPT ![s] = Append(Tail(@), Top(t).shown)]
          /\ stats' = [stats EXCEPT ![s].accepted = @ + 1, ![s].overwritten = @ + 1]
    /\ lock' = [lock EXCEPT ![s] = Nobody]
    /\ Goto(t, "release")
    /\ UNCHANGED <<configVars, emitVars, delivery, overflow, drained, spanVars, calls, offered>>

\* drain waits for the lock.
DrainLock(t, s) ==
    /\ pc[t] = "idle" /\ s \in Kept \cap Memory /\ lock[s] = Nobody
    /\ lock' = [lock EXCEPT ![s] = t]
    /\ task' = [task EXCEPT ![t] = {s}]
    /\ Goto(t, "drain")
    /\ UNCHANGED <<sinks, settling, begun, emitVars, delivery, overflow, records, stats,
                   drained, spanVars, calls, offered>>

DrainTake(t) ==
    /\ pc[t] = "drain"
    /\ \E s \in task[t] :
          /\ records' = [records EXCEPT ![s] = <<>>]
          /\ drained' = [drained EXCEPT ![s] = @ + Len(records[s])]
          /\ lock' = [lock EXCEPT ![s] = Nobody]
    /\ task' = [task EXCEPT ![t] = {}]
    /\ Goto(t, "idle")
    /\ UNCHANGED <<sinks, settling, begun, emitVars, delivery, overflow, stats, spanVars, calls,
                   offered>>

-----------------------------------------------------------------------------
(* add_sink and remove_sink *)

AddSink(t, s) ==
    /\ pc[t] = "idle" /\ s \notin begun
    /\ sinks' = Append(sinks, s)
    /\ begun' = begun \cup {s}
    /\ settling' = settling \cup {s}
    /\ task' = [task EXCEPT ![t] = {s}]
    /\ Goto(t, "announceAdd")
    /\ UNCHANGED <<emitVars, delivery, memoryVars, spanVars, calls, offered>>

\* The generation is advanced.
AnnounceAdd(t) ==
    /\ pc[t] = "announceAdd"
    /\ settling' = settling \ task[t]
    /\ task' = [task EXCEPT ![t] = {}]
    /\ Goto(t, "idle")
    /\ UNCHANGED <<sinks, begun, emitVars, delivery, memoryVars, spanVars, calls, offered>>

\* Whoever looks for a removed sink later does not find it.
RemoveSink(t, s) ==
    /\ pc[t] = "idle" /\ s \in Announced
    /\ \E position \in 1..Len(sinks) :
          /\ sinks[position] = s
          /\ sinks' = SubSeq(sinks, 1, position - 1) \o SubSeq(sinks, position + 1, Len(sinks))
    /\ settling' = settling \cup {s}
    /\ steady' = [u \in Threads |-> steady[u] \ {s}]
    /\ task' = [task EXCEPT ![t] = {s}]
    /\ Goto(t, "announceRemove")
    /\ UNCHANGED <<begun, inDispatch, fan, call, visited, delivery, memoryVars, spanVars,
                   calls, offered>>

AnnounceRemove(t) ==
    /\ pc[t] = "announceRemove"
    /\ settling' = settling \ task[t]
    /\ Goto(t, "dropping")
    /\ UNCHANGED <<sinks, task, begun, emitVars, delivery, memoryVars, spanVars, calls,
                   offered>>

\* drop(removed), when no lock is held.
DropRegistration(t) ==
    /\ pc[t] = "dropping"
    /\ task' = [task EXCEPT ![t] = {}]
    /\ Goto(t, "idle")
    /\ UNCHANGED <<sinks, settling, begun, emitVars, delivery, memoryVars, spanVars, calls,
                   offered>>

-----------------------------------------------------------------------------
(* Spans: a guard is not Send, so its thread ends it. *)

StartSpan(t) ==
    /\ pc[t] = "idle" /\ calls < MaxCalls
    /\ calls' = calls + 1
    /\ nextSpan' = nextSpan + 1
    /\ active' = active \cup {<<nextSpan + 1, t>>}
    /\ UNCHANGED <<configVars, emitVars, delivery, memoryVars, completed, ending, pushed,
                   taken, lost, pc, offered>>

\* end_span takes the span out of active_spans under one acquisition ...
EndSpan(t) ==
    /\ pc[t] = "idle"
    /\ \E span \in active :
          /\ span[2] = t
          /\ active' = active \ {span}
          /\ ending' = [ending EXCEPT ![t] = span[1]]
    /\ Goto(t, "spanPush")
    /\ UNCHANGED <<configVars, emitVars, delivery, memoryVars, nextSpan, completed, pushed,
                   taken, lost, calls, offered>>

\* Variant: the newest retained span makes room.
RoomNewest == SubSeq(completed, 1, Len(completed) - 1)
Room == Tail(completed)

\* ... and keeps it under another.
PushSpan(t) ==
    LET full == Len(completed) = Retention
        room == IF full THEN Room ELSE completed IN
    /\ pc[t] = "spanPush"
    /\ completed' = Append(room, ending[t])
    /\ lost' = lost \cup (Elements(completed) \ Elements(room))
    /\ delivery' = [delivery EXCEPT !.spansDropped = @ + (IF full THEN 1 ELSE 0)]
    /\ pushed' = Append(pushed, ending[t])
    /\ ending' = [ending EXCEPT ![t] = 0]
    /\ Goto(t, "idle")
    /\ UNCHANGED <<configVars, emitVars, memoryVars, nextSpan, active, taken, calls,
                   offered>>

TakeCompletedSpans(t) ==
    /\ pc[t] = "idle" /\ completed # <<>>
    /\ taken' = taken \cup Elements(completed)
    /\ completed' = <<>>
    /\ UNCHANGED <<configVars, emitVars, delivery, memoryVars, nextSpan, active, ending,
                   pushed, lost, pc, calls, offered>>

-----------------------------------------------------------------------------

EmitStep(t) ==
    \/ EmitStart(t) \/ CallSink(t) \/ MemoryTryLock(t) \/ MemoryStore(t)
    \/ SinkReturn(t) \/ SinkPanic(t) \/ Release(t) \/ EmitEnd(t)
    \/ \E site \in Sites : SinkLog(t, site)

ConfigStep(t) ==
    \/ \E s \in Sinks : AddSink(t, s) \/ RemoveSink(t, s) \/ DrainLock(t, s)
    \/ AnnounceAdd(t) \/ AnnounceRemove(t) \/ DropRegistration(t) \/ DrainTake(t)

SpanStep(t) == StartSpan(t) \/ EndSpan(t) \/ PushSpan(t) \/ TakeCompletedSpans(t)

Next == \E t \in Threads :
    \/ \E site \in Sites : LogStart(t, site)
    \/ EmitStep(t) \/ ConfigStep(t) \/ SpanStep(t)

Spec == Init /\ [][Next]_vars

-----------------------------------------------------------------------------
(* Properties *)

\* "Recursive sink logging is counted and dropped": no thread is inside two
\* emits, and the flag outlives neither a panic nor a fan-out.
NoRecursion ==
    \A t \in Threads : Len(fan[t]) <= 1 /\ (inDispatch[t] <=> fan[t] # <<>>)

\* "The remaining views still run": when an emit ends, every matching sink that
\* was registered from before the call until now has been called, whatever was
\* added, removed or panicked meanwhile, and no sink was called twice.
EveryViewOnce ==
    [][\A t \in Threads :
         /\ (fan[t] # <<>> /\ fan'[t] = <<>>) => steady[t] \subseteq Elements(visited[t])
         /\ visited'[t] # visited[t] /\ visited'[t] # <<>> =>
               Current(t) \notin Elements(visited[t])]_vars

\* What a call site evaluates for the union of the views is enough for each of
\* them: a sink registered all along sees every field its capability and detail
\* admit, although sink_interest, wants and project_event decide apart.
CompleteView ==
    \A t \in Threads : (pc[t] = "called" /\ Current(t) \in steady[t]) =>
        Top(t).shown = Project(Current(t), FieldsOf[Top(t).site])

Deciding(s) == {t \in Threads : pc[t] \in {"called", "store"} /\ Current(t) = s}

\* Each event offered to an InMemorySink is retained, drained, overwritten or
\* dropped, in exactly one counter, whatever emits and drains collide on its
\* lock.
MemoryAccounted ==
    \A s \in Memory :
        /\ Len(records[s]) <= Capacity
        /\ stats[s].accepted = Len(records[s]) + drained[s] + stats[s].overwritten
        /\ offered[s] = stats[s].accepted + stats[s].dropped + Cardinality(Deciding(s))

\* "Keep the newest, and account for what that cost": completed spans are the
\* last to have ended of those not taken, and the counter tells the rest.
NewestSpansKept ==
    LET kept == Elements(completed) IN
    /\ Len(completed) <= Retention
    /\ delivery.spansDropped = Cardinality(lost)
    /\ Elements(pushed) = kept \cup taken \cup lost
    /\ Cardinality(kept) + Cardinality(taken) + Cardinality(lost) = Len(pushed)
    /\ \A i, j \in 1..Len(pushed) :
          i < j /\ pushed[j] \in lost => pushed[i] \in taken \cup lost
=============================================================================
