------------------------------ MODULE Bridges ------------------------------
(***************************************************************************)
(* The ingress bridges: the LogwiseLayer of logwise_compat_tracing and the  *)
(* LogwiseLogger of logwise_compat_log, over the facade's context guards    *)
(* and the dispatcher's context registry.                                   *)
(*                                                                          *)
(* A callback or a record that is emitted runs the installed sink, which    *)
(* may use tracing and log itself: the call stays open as a frame until     *)
(* EndCall.  The application uses the spans outside SinkSpans, a sink those *)
(* in SinkSpans, whose entries it exits before it returns and never nests.  *)
(* So the guards of ENTERED and those local to open callbacks form one      *)
(* stack per thread, kept in the order of creation.  A call reads the       *)
(* dispatcher once here: a dispatcher that appears between two of its reads *)
(* finds the thread's context NONE and the span's token NONE, as before.    *)
(***************************************************************************)
EXTENDS DispatchSlot, Integers, Sequences, FiniteSets

CONSTANTS Threads, Spans, SinkSpans, NoSpan,
          MaxNesting,   \* bound: open calls and entered spans per thread
          MaxLinks      \* bound: links of all contexts together

ASSUME SpansAssumption == SinkSpans \subseteq Spans /\ NoSpan \notin Spans
ASSUME BoundAssumption == {MaxNesting, MaxLinks} \subseteq Nat

VARIABLES span,       \* the subscriber's registry, with the SpanState extension
          contexts,   \* RuntimeState::contexts: token i is the i-th created
          entered,    \* the registry's own stack of entered spans, per thread
          guards,     \* live ContextGuards and open calls, per thread
          current,    \* CURRENT_CONTEXT, per thread
          inTracing, inLog   \* IN_BRIDGE of each crate, per thread

bridgeVars == <<span, contexts, entered, guards, current, inTracing, inLog>>
vars == <<slotVars, bridgeVars>>

NONE == 0
Tokens == 0..Len(contexts)
Top(s) == s[Len(s)]

SpanRecord(phase, bridged, ctx, parent) ==
    [phase |-> phase, bridged |-> bridged, ctx |-> ctx, parent |-> parent]

Entry(kind, s, ctx, guard) ==
    [kind |-> kind, span |-> s, ctx |-> ctx, active |-> guard.active,
     previous |-> guard.previous, depth |-> guard.depth]

Entries == [kind : {"span", "tracing", "log"}, span : Spans \cup {NoSpan}, ctx : Tokens,
            active : BOOLEAN, previous : Tokens, depth : Nat]

TypeOK ==
    /\ SlotTypeOK
    /\ span \in [Spans -> [phase : {"new", "open", "closed"}, bridged : BOOLEAN,
                           ctx : Tokens, parent : Spans \cup {NoSpan}]]
    /\ contexts \in Seq([parent : Tokens, links : SUBSET Tokens])
    /\ entered \in [Threads -> Seq(Spans)]
    /\ guards \in [Threads -> Seq(Entries)]
    /\ current \in [Threads -> Tokens]
    /\ inTracing \in [Threads -> BOOLEAN]
    /\ inLog \in [Threads -> BOOLEAN]

Init ==
    /\ SlotInit
    /\ span = [s \in Spans |-> SpanRecord("new", FALSE, NONE, NoSpan)]
    /\ contexts = <<>>
    /\ entered = [t \in Threads |-> <<>>]
    /\ guards = [t \in Threads |-> <<>>]
    /\ current = [t \in Threads |-> NONE]
    /\ inTracing = [t \in Threads |-> FALSE]
    /\ inLog = [t \in Threads |-> FALSE]

-----------------------------------------------------------------------------
(* Who is running on a thread: the sink of the topmost open call, or the    *)
(* application.                                                             *)

Frames(t) == {i \in DOMAIN guards[t] : guards[t][i].kind # "span"}
Topmost(t) == CHOOSE i \in Frames(t) : \A j \in Frames(t) : j <= i
Nesting(t) == Cardinality(Frames(t)) + Len(entered[t])
Quiet(t) == Frames(t) = {}

\* The entries of the registry's stack the running code may remove.
Floor(t) == IF Quiet(t) THEN 0 ELSE guards[t][Topmost(t)].depth
Own(t) == IF Quiet(t) THEN Spans \ SinkSpans ELSE SinkSpans
Known(t) == {s \in Own(t) : span[s].phase = "open"}
IsEntered(s) == \E t \in Threads : \E i \in DOMAIN entered[t] : entered[t][i] = s

-----------------------------------------------------------------------------
(* The facade: context::enter, its guard, and the runtime's registry        *)

Present == Dispatcher # None

Guard(t, ctx) ==
    [active |-> Present, previous |-> IF Present THEN current[t] ELSE NONE,
     depth |-> Len(entered[t])]
NoGuard(t) == [active |-> FALSE, previous |-> NONE, depth |-> Len(entered[t])]

Entering(t, ctx) == IF Present THEN ctx ELSE current[t]
Dropping(entry, ctx) == IF entry.active THEN entry.previous ELSE ctx

CreateContext(parent) ==
    contexts' = IF Present THEN Append(contexts, [parent |-> parent, links |-> {}])
                           ELSE contexts
NewToken == IF Present THEN Len(contexts) + 1 ELSE NONE

LinkContext(ctx, related) ==
    contexts' = IF Present /\ ctx \in 1..Len(contexts)
                THEN [contexts EXCEPT ![ctx].links = @ \cup {related}] ELSE contexts

\* A token's parent was created before it: the walk of is_descendant ends.
Lineage[ctx \in Nat] ==
    IF ctx \notin 1..Len(contexts) THEN {} ELSE {ctx} \cup Lineage[contexts[ctx].parent]

MatchesContext(filter, ctx) ==
    IF filter.descendants THEN filter.context \in Lineage[ctx] ELSE filter.context = ctx

-----------------------------------------------------------------------------
(* LogwiseLayer                                                             *)

\* A refused guard is built all the same by then_some, and its drop clears
\* the flag of the call that holds it.
Refused(t) ==
    /\ inTracing[t]
    /\ inTracing' = [inTracing EXCEPT ![t] = FALSE]
    /\ UNCHANGED <<guards, current, contexts>>

\* The rest of a callback: under the span's context, an event some sink wants
\* leaves a frame open; otherwise both guards are dropped again.
Callback(t, entry, wanted) ==
    /\ ~inTracing[t]
    /\ IF wanted
       THEN /\ Present /\ Nesting(t) < MaxNesting
            /\ guards' = [guards EXCEPT ![t] = Append(@, entry)]
            /\ current' = [current EXCEPT ![t] = entry.ctx]
            /\ inTracing' = [inTracing EXCEPT ![t] = TRUE]
       ELSE UNCHANGED <<guards, current, inTracing>>

InSpan(t, s, ctx) == Entry("tracing", s, Entering(t, ctx), Guard(t, ctx))
NoSpanEntered(t) == Entry("tracing", NoSpan, current[t], NoGuard(t))

\* The registry's lookup_current: a span entered again counts where it first was.
First(t, i) == \A j \in 1..(i - 1) : entered[t][j] # entered[t][i]
Innermost(t) ==
    LET firsts == {i \in DOMAIN entered[t] : First(t, i)}
    IN  IF firsts = {} THEN NoSpan
        ELSE entered[t][CHOOSE i \in firsts : \A j \in firsts : j <= i]

\* Attributes and events name a root, a parent, or the current span.
Parents(t) == {NoSpan, Innermost(t)} \cup Known(t)

Bridged(s) == s # NoSpan /\ span[s].bridged

\* Variant: the current span is the parent even of a span that names another.
ParentContextCurrent(t, parent) ==
    IF Bridged(Innermost(t)) THEN span[Innermost(t)].ctx ELSE NONE
ParentContext(t, parent) == IF Bridged(parent) THEN span[parent].ctx ELSE NONE

NewSpan(t, s, parent, wanted) ==
    /\ s \in Own(t) /\ span[s].phase = "new" /\ parent \in Parents(t)
    /\ \/ /\ Refused(t)
          /\ span' = [span EXCEPT ![s] = SpanRecord("open", FALSE, NONE, parent)]
       \/ /\ Callback(t, InSpan(t, s, NewToken), wanted)
          /\ CreateContext(ParentContext(t, parent))
          /\ span' = [span EXCEPT ![s] = SpanRecord("open", TRUE, NewToken, parent)]
    /\ UNCHANGED <<entered, inLog>>

\* A span the bridge has refused carries no SpanState: nothing is emitted.
AboutSpan(t, s, wanted) ==
    /\ Bridged(s) \/ ~wanted
    /\ Callback(t, InSpan(t, s, span[s].ctx), wanted)

OnRecord(t, s, wanted) ==
    /\ s \in Known(t)
    /\ Refused(t) \/ (AboutSpan(t, s, wanted) /\ UNCHANGED contexts)
    /\ UNCHANGED <<span, entered, inLog>>

Linked == Cardinality(UNION {{<<i, r>> : r \in contexts[i].links} : i \in 1..Len(contexts)})

OnFollowsFrom(t, s, related, wanted) ==
    /\ {s, related} \subseteq Known(t) /\ s # related
    /\ \/ Refused(t)
       \/ /\ AboutSpan(t, s, wanted)
          /\ Bridged(related) \/ ~wanted
          /\ IF Bridged(s) /\ Bridged(related)
             THEN Linked < MaxLinks /\ LinkContext(span[s].ctx, span[related].ctx)
             ELSE UNCHANGED contexts
    /\ UNCHANGED <<span, entered, inLog>>

OnEvent(t, parent, wanted) ==
    /\ parent \in Parents(t)
    /\ \/ Refused(t)
       \/ /\ Callback(t, IF Bridged(parent) THEN InSpan(t, parent, span[parent].ctx)
                                            ELSE NoSpanEntered(t), wanted)
          /\ UNCHANGED contexts
    /\ UNCHANGED <<span, entered, inLog>>

\* The last handle is dropped: no thread has entered it, no open child holds it.
OnClose(t, s, wanted) ==
    /\ s \in Known(t) /\ ~IsEntered(s)
    /\ \A c \in Spans : span[c].parent = s => span[c].phase # "open"
    /\ \A u \in Threads : \A i \in Frames(u) : guards[u][i].span # s
    /\ Refused(t) \/ (AboutSpan(t, s, wanted) /\ UNCHANGED contexts)
    /\ span' = [span EXCEPT ![s].phase = "closed"]
    /\ UNCHANGED <<entered, inLog>>

-----------------------------------------------------------------------------
(* on_enter and on_exit, which an active bridge ignores                     *)

OnEnter(t, s) ==
    /\ s \in Known(t) /\ Nesting(t) < MaxNesting
    /\ Quiet(t) \/ ~IsEntered(s)
    /\ entered' = [entered EXCEPT ![t] = Append(@, s)]
    /\ IF ~inTracing[t] /\ Bridged(s)
       THEN /\ guards' = [guards EXCEPT ![t] =
                            Append(@, Entry("span", s, Entering(t, span[s].ctx),
                                            Guard(t, span[s].ctx)))]
            /\ current' = [current EXCEPT ![t] = Entering(t, span[s].ctx)]
       ELSE UNCHANGED <<guards, current>>
    /\ UNCHANGED <<span, contexts, inTracing, inLog>>

Last(s, seq) == CHOOSE i \in DOMAIN seq : seq[i] = s /\ \A j \in (i + 1)..Len(seq) : seq[j] # s
Without(seq, i) == SubSeq(seq, 1, i - 1) \o SubSeq(seq, i + 1, Len(seq))

EntriesOf(t, s) == {i \in DOMAIN guards[t] : guards[t][i].kind = "span" /\ guards[t][i].span = s}

\* The token left after the entries from p up are dropped, the topmost first.
Unwound(t, p) ==
    LET active == {i \in p..Len(guards[t]) : guards[t][i].active}
    IN  IF active = {} THEN current[t]
        ELSE guards[t][CHOOSE i \in active : \A j \in active : i <= j].previous

\* The entries above p are dropped from the top down, p is dropped, and those
\* above are entered again in their order: each restores what is below it now.
\* Variant: only p is popped, as a stack that matches by position would.
ReenteredByPosition(t, p) == Without(guards[t], p)
Reentered(t, p) ==
    [i \in 1..(Len(guards[t]) - 1) |->
        IF i < p THEN guards[t][i]
        ELSE LET above == guards[t][i + 1]
                 below == IF i = p THEN Unwound(t, p)
                                   ELSE Entering(t, span[guards[t][i].span].ctx)
             IN  IF ~Present THEN above
                 ELSE [above EXCEPT !.active = TRUE, !.previous = below,
                                    !.ctx = span[above.span].ctx]]

OnExit(t, s) ==
    /\ \E i \in DOMAIN entered[t] : entered[t][i] = s /\ i > Floor(t)
    /\ entered' = [entered EXCEPT ![t] = Without(@, Last(s, @))]
    /\ IF ~inTracing[t] /\ EntriesOf(t, s) # {}
       THEN LET p == CHOOSE i \in EntriesOf(t, s) : \A j \in EntriesOf(t, s) : j <= i
            IN  /\ guards' = [guards EXCEPT ![t] = Reentered(t, p)]
                /\ current' = [current EXCEPT ![t] =
                      IF p = Len(guards[t]) THEN Unwound(t, p)
                                            ELSE Entering(t, span[Top(guards[t]).span].ctx)]
       ELSE UNCHANGED <<guards, current>>
    /\ UNCHANGED <<span, contexts, inTracing, inLog>>

-----------------------------------------------------------------------------
(* LogwiseLogger, and the return of a sink                                  *)

Enabled(t) == ~inLog[t] /\ inLog' = [inLog EXCEPT ![t] = TRUE]

\* A record nobody wants, or that comes while the flag is set, does nothing.
Log(t) ==
    /\ Present /\ Nesting(t) < MaxNesting
    /\ Enabled(t)
    /\ guards' = IF inLog'[t]
                 THEN [guards EXCEPT ![t] = Append(@, Entry("log", NoSpan, current[t], NoGuard(t)))]
                 ELSE guards
    /\ UNCHANGED <<span, contexts, entered, current, inTracing>>

\* Both guards of the call go: the context's first, then the flag's.
EndCall(t) ==
    /\ guards[t] # <<>> /\ Top(guards[t]).kind # "span"
    /\ Len(entered[t]) = Top(guards[t]).depth
    /\ guards' = [guards EXCEPT ![t] = SubSeq(@, 1, Len(@) - 1)]
    /\ current' = [current EXCEPT ![t] = Dropping(Top(guards[t]), @)]
    /\ IF Top(guards[t]).kind = "log"
       THEN inLog' = [inLog EXCEPT ![t] = FALSE] /\ UNCHANGED inTracing
       ELSE inTracing' = [inTracing EXCEPT ![t] = FALSE] /\ UNCHANGED inLog
    /\ UNCHANGED <<span, contexts, entered>>

-----------------------------------------------------------------------------

Bridge(t) ==
    \/ \E s \in Spans, wanted \in BOOLEAN :
         \/ \E parent \in Parents(t) : NewSpan(t, s, parent, wanted)
         \/ OnRecord(t, s, wanted)
         \/ \E related \in Spans : OnFollowsFrom(t, s, related, wanted)
         \/ OnClose(t, s, wanted)
    \/ \E parent \in Parents(t), wanted \in BOOLEAN : OnEvent(t, parent, wanted)
    \/ \E s \in Spans : OnEnter(t, s) \/ OnExit(t, s)
    \/ Log(t)
    \/ EndCall(t)

Next ==
    \/ SlotNext /\ UNCHANGED bridgeVars
    \/ (\E t \in Threads : Bridge(t)) /\ UNCHANGED slotVars

Spec == Init /\ [][Next]_vars

-----------------------------------------------------------------------------
(* Properties *)

\* Spans exited out of order, entered twice, or around a sink that traces and
\* logs: while no call is open the thread reports under the innermost span it
\* has entered, and under none when it has left them all.
InnermostContext ==
    \A t \in Threads : Quiet(t) =>
        /\ current[t] = IF entered[t] = <<>> THEN NONE ELSE span[Top(entered[t])].ctx
        /\ ~inTracing[t] /\ ~inLog[t]

\* The spans of tracing's tree at or above one, as far up as the bridge saw them.
Above[s \in Spans] ==
    {s} \cup (IF Bridged(span[s].parent) THEN Above[span[s].parent] ELSE {})

\* A filter on a span's context with descendants selects exactly the spans
\* below it in tracing's tree, whatever was current when they were created; a
\* span the bridge never saw cuts the tree.
LineageFollowsSpans ==
    \A a, b \in Spans : span[a].ctx # NONE /\ Bridged(b) =>
        (MatchesContext([context |-> span[a].ctx, descendants |-> TRUE], span[b].ctx)
            <=> a \in Above[b])

CallsOpen(t, kind) == {i \in Frames(t) : guards[t][i].kind = kind}

\* "The layer's guard must prevent this from cycling back into logwise."
TracingBridgeIsNotReentered == \A t \in Threads : Cardinality(CallsOpen(t, "tracing")) <= 1
==============================================================================
