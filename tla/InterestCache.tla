---------------------------- MODULE InterestCache ----------------------------
(***************************************************************************)
(* Whether a log call is wanted: the generation-keyed cache of one Callsite *)
(* (src/src/dispatch.rs) in front of the mutable Runtime                    *)
(* (logwise_runtime/src/facade_runtime.rs).                                 *)
(*                                                                          *)
(* A log call loads the generation, tries the two cache words, recomputes   *)
(* on a miss, and refines a contextual mask.  Meanwhile other threads       *)
(* change the configuration and then advance the generation.  An action is  *)
(* one atomic access or one section under the runtime's Spinlock (module    *)
(* Spinlock).  A mask is a set of field groups.  Whether a filter matches   *)
(* this call site and a context is a constant of the model.                 *)
(***************************************************************************)
EXTENDS Integers, FiniteSets

CONSTANTS Loggers,         \* threads that reach the call site
          Admins,          \* threads that configure the runtime
          Groups,          \* field groups (Interest bits without CONTEXTUAL)
          CONTEXTUAL,      \* Interest::CONTEXTUAL
          Baselines,       \* masks given to set_interest
          Sinks,           \* sinks whose filter matches the call site
          SinkGroups,      \* sink -> sink_interest(capability, detail)
          SinkContexts,    \* sink -> contexts its filter selects
          Activations,     \* activations whose filter matches the call site
          ActivationGroups,
          ActivationContexts,
          Scoped,          \* those whose filter names a context
          Contexts,
          TagModulus,      \* 2^(usize::BITS - INTEREST_WIDTH)
          Unpopulated,     \* usize::MAX
          Ttl,             \* time to live of an activation
          MaxTime, MaxGeneration   \* bounds

ASSUME ThreadAssumption == Loggers \cap Admins = {}
ASSUME MaskAssumption ==
    /\ CONTEXTUAL \notin Groups
    /\ Baselines \subseteq SUBSET (Groups \cup {CONTEXTUAL})
    /\ SinkGroups \in [Sinks -> SUBSET Groups]
    /\ ActivationGroups \in [Activations -> SUBSET Groups]
ASSUME FilterAssumption ==
    /\ SinkContexts \in [Sinks -> SUBSET Contexts]
    /\ ActivationContexts \in [Activations -> SUBSET Contexts]
    /\ Scoped \subseteq Sinks \cup Activations
    /\ \A s \in Sinks \ Scoped : SinkContexts[s] = Contexts
    /\ \A a \in Activations \ Scoped : ActivationContexts[a] = Contexts
ASSUME NumberAssumption ==
    /\ TagModulus \in Nat \ {0} /\ Unpopulated \notin Nat
    /\ Ttl \in Nat /\ MaxTime \in Nat /\ MaxGeneration \in Nat

VARIABLES
    now,          \* the clock behind Instant::now
    generation,   \* Runtime::generation
    baseline,     \* Runtime::baseline_interest
    sinks,        \* registrations in State::sinks
    live,         \* the activations in State::activations
    due,          \* Activation::expires
    pushing,      \* the activation a thread inside activate is about to push
    catalogued,   \* the call site's metadata is in State::catalog
    cacheGen,     \* Cache::generation
    word,         \* Cache::tagged_interest, and the generation it is from
    pc,           \* where each thread is
    call,         \* the locals of a log call, and what it returned
    begun         \* history: sinks and activations ever used

config    == <<baseline, sinks, live>>
cacheVars == <<cacheGen, word>>
activationVars == <<due, pushing, begun>>
vars == <<now, generation, config, catalogued, cacheVars, pc, call, activationVars>>

Mask == SUBSET (Groups \cup {CONTEXTUAL})
CallRecord == [gen: Nat, part: Mask, mask: Mask, deadline: Nat,
               context: Contexts, quiet: BOOLEAN, expired: SUBSET Activations]
Threads == Loggers \cup Admins

LoggerSteps == {"idle", "cacheGen", "cacheWord", "pruneCheck", "prune", "pruneBump",
                "baseline", "union", "storeWord", "storeGen", "refine",
                "ctxNow", "ctxActivations", "ctxBump", "ctxSinks"}
AdminSteps == {"idle", "activate", "bump"}

\* Threads that changed the configuration and owe an advance_generation.
Owing == {t \in Threads : pc[t] \in {"bump", "pruneBump", "ctxBump"}}

TypeOK ==
    /\ now \in Nat /\ generation \in Nat
    /\ baseline \in SUBSET Groups /\ sinks \subseteq Sinks
    /\ live \subseteq Activations /\ due \in [Activations -> Nat]
    /\ pushing \in [Admins -> SUBSET Activations]
    /\ catalogued \in BOOLEAN
    /\ cacheGen \in Nat \cup {Unpopulated}
    /\ word \in [tag: Nat, mask: Mask, at: Nat \cup {-1}]
    /\ pc \in [Threads -> LoggerSteps \cup AdminSteps]
    /\ \A r \in Loggers : pc[r] \in LoggerSteps
    /\ call \in [Loggers -> CallRecord]
    /\ begun \subseteq Sinks \cup Activations

Tag(gen) == gen % TagModulus

\* sink_interest: a filter that needs the context is asked again later.
SinkAsks(s) == IF s \in Scoped THEN {CONTEXTUAL} ELSE SinkGroups[s]

\* Dispatch::interest over the configuration as it stands.
UnionOf(base) ==
    base \cup (UNION {SinkAsks(s) : s \in sinks}) \cup {CONTEXTUAL : a \in live}
Eval == UnionOf(baseline)

GivenBy(taking) == UNION {SinkGroups[s] : s \in taking}
GrantedBy(acts, context) ==
    UNION {ActivationGroups[a] : a \in {b \in acts : context \in ActivationContexts[b]}}

\* Dispatch::contextual_interest over the configuration as it stands.
EvalIn(context) ==
    baseline \cup GrantedBy({a \in live : due[a] > now}, context)
       \cup GivenBy({s \in sinks : context \in SinkContexts[s]})

Init ==
    /\ now = 0 /\ generation = 0
    /\ baseline = {} /\ sinks = {} /\ live = {}
    /\ due = [a \in Activations |-> 0] /\ pushing = [w \in Admins |-> {}]
    /\ catalogued = FALSE
    /\ cacheGen = Unpopulated
    /\ word = [tag |-> 0, mask |-> {}, at |-> -1]
    /\ pc = [t \in Threads |-> "idle"]
    /\ call \in [Loggers -> {[gen |-> 0, part |-> {}, mask |-> {}, deadline |-> 0,
                              context |-> c, quiet |-> FALSE, expired |-> {}] :
                                c \in Contexts}]
    /\ begun = {}

Goto(t, step) == pc' = [pc EXCEPT ![t] = step]

\* The configuration or the clock moves under every call in progress, and
\* under the answers already given.
Disturb == call' = [r \in Loggers |-> [call[r] EXCEPT !.quiet = FALSE]]

-----------------------------------------------------------------------------
(* Callsite::interest *)

Begin(r, context) ==
    /\ pc[r] = "idle"
    /\ call' = [call EXCEPT ![r] =
          [gen |-> generation, part |-> {}, mask |-> {}, deadline |-> 0,
           context |-> context,
           quiet |-> \A w \in Admins : pc[w] # "bump",
           expired |-> {a \in Activations \cap begun : due[a] <= now}]]
    /\ Goto(r, "cacheGen")
    /\ UNCHANGED <<now, generation, config, catalogued, cacheVars,
                   activationVars>>

LoadCacheGen(r) ==
    /\ pc[r] = "cacheGen"
    /\ Goto(r, IF cacheGen = call[r].gen THEN "cacheWord" ELSE "pruneCheck")
    /\ UNCHANGED <<now, generation, config, catalogued, cacheVars, call,
                   activationVars>>

\* Variant: the mask is believed whatever generation it is tagged with.
TagMatchesAny(gen) == TRUE
TagMatches(gen) == word.tag = Tag(gen)

\* The collision that Cache::tag concedes.
Collides == word.at + TagModulus <= generation

\* A word tagged for another generation is a miss.
LoadCacheWord(r) ==
    /\ pc[r] = "cacheWord"
    /\ IF TagMatches(call[r].gen)
       THEN /\ call' = [call EXCEPT ![r].mask = word.mask, ![r].gen = 0,
                                    ![r].quiet = @ /\ ~Collides]
            /\ Goto(r, "refine")
       ELSE /\ UNCHANGED call
            /\ Goto(r, "pruneCheck")
    /\ UNCHANGED <<now, generation, config, catalogued, cacheVars,
                   activationVars>>

StoreWord(r) ==
    /\ pc[r] = "storeWord"
    /\ word' = [tag |-> Tag(call[r].gen), mask |-> call[r].mask, at |-> call[r].gen]
    /\ Goto(r, "storeGen")
    /\ UNCHANGED <<now, generation, config, catalogued, cacheGen, call,
                   activationVars>>

StoreGen(r) ==
    /\ pc[r] = "storeGen"
    /\ cacheGen' = call[r].gen
    /\ call' = [call EXCEPT ![r].gen = 0]
    /\ Goto(r, "refine")
    /\ UNCHANGED <<now, generation, config, catalogued, word, activationVars>>

-----------------------------------------------------------------------------
(* Runtime::interest *)

\* prune_expired_activations: nothing to do, or sample the clock ...
PruneCheck(r) ==
    /\ pc[r] = "pruneCheck"
    /\ IF live = {}
       THEN Goto(r, "baseline") /\ UNCHANGED call
       ELSE Goto(r, "prune") /\ call' = [call EXCEPT ![r].deadline = now]
    /\ UNCHANGED <<now, generation, config, catalogued, cacheVars,
                   activationVars>>

\* ... and drop, under the lock, what had expired when it was sampled.
Retained(time) == {a \in live : due[a] > time}

Prune(r) ==
    /\ pc[r] = "prune"
    /\ live' = Retained(call[r].deadline)
    /\ call' = [call EXCEPT ![r].deadline = 0]
    /\ Goto(r, IF live' # live THEN "pruneBump" ELSE "baseline")
    /\ UNCHANGED <<now, generation, baseline, sinks, catalogued, cacheVars,
                   activationVars>>

AdvanceGeneration == generation' = generation + 1

PruneBump(r) ==
    /\ pc[r] = "pruneBump"
    /\ AdvanceGeneration
    /\ Goto(r, "baseline")
    /\ UNCHANGED <<now, config, catalogued, cacheVars, call, activationVars>>

LoadBaseline(r) ==
    /\ pc[r] = "baseline"
    /\ call' = [call EXCEPT ![r].part = baseline]
    /\ Goto(r, "union")
    /\ UNCHANGED <<now, generation, config, catalogued, cacheVars,
                   activationVars>>

\* Variant: an activation puts its own groups into the cached mask.
InterestInDirect(base) ==
    base \cup GivenBy(sinks) \cup (UNION {ActivationGroups[a] : a \in live})
InterestIn(base) == UnionOf(base)

Union(r) ==
    /\ pc[r] = "union"
    /\ call' = [call EXCEPT ![r].mask = InterestIn(call[r].part), ![r].part = {}]
    /\ catalogued' = TRUE
    /\ Goto(r, "storeWord")
    /\ UNCHANGED <<now, generation, config, cacheVars, activationVars>>

-----------------------------------------------------------------------------
(* Callsite::contextual_interest and Runtime::contextual_interest *)

\* The call returns.  A local that is not read again is cleared throughout.
Return(r, mask) ==
    /\ call' = [call EXCEPT ![r].mask = mask, ![r].part = {}]
    /\ Goto(r, "idle")

Refine(r) ==
    /\ pc[r] = "refine"
    /\ IF CONTEXTUAL \in call[r].mask
       THEN /\ call' = [call EXCEPT ![r].part = baseline, ![r].mask = {}]
            /\ Goto(r, "ctxNow")
       ELSE Return(r, call[r].mask)
    /\ UNCHANGED <<now, generation, config, catalogued, cacheVars,
                   activationVars>>

CtxNow(r) ==
    /\ pc[r] = "ctxNow"
    /\ call' = [call EXCEPT ![r].deadline = now]
    /\ Goto(r, "ctxActivations")
    /\ UNCHANGED <<now, generation, config, catalogued, cacheVars,
                   activationVars>>

\* activation_interest: one section prunes and unions what is left.
CtxActivations(r) ==
    /\ pc[r] = "ctxActivations"
    /\ live' = Retained(call[r].deadline)
    /\ call' = [call EXCEPT ![r].part = @ \cup GrantedBy(live', call[r].context),
                            ![r].deadline = 0]
    /\ Goto(r, IF live' # live THEN "ctxBump" ELSE "ctxSinks")
    /\ UNCHANGED <<now, generation, baseline, sinks, catalogued, cacheVars,
                   activationVars>>

CtxBump(r) ==
    /\ pc[r] = "ctxBump"
    /\ AdvanceGeneration
    /\ Goto(r, "ctxSinks")
    /\ UNCHANGED <<now, config, catalogued, cacheVars, call, activationVars>>

CtxSinks(r) ==
    /\ pc[r] = "ctxSinks"
    /\ Return(r, call[r].part
                   \cup GivenBy({s \in sinks : call[r].context \in SinkContexts[s]}))
    /\ UNCHANGED <<now, generation, config, catalogued, cacheVars,
                   activationVars>>

-----------------------------------------------------------------------------
(* Configuration: each operation mutates, then advances the generation. *)

\* Variant: the request for refinement is stored with the mask.
WithoutContextualNot(mask) == mask
WithoutContextual(mask) == mask \ {CONTEXTUAL}

SetInterest(w, mask) ==
    /\ pc[w] = "idle" /\ generation < MaxGeneration
    /\ baseline' = WithoutContextual(mask)
    /\ Disturb
    /\ Goto(w, "bump")
    /\ UNCHANGED <<now, generation, sinks, live, catalogued, cacheVars,
                   activationVars>>

AddSink(w, s) ==
    /\ pc[w] = "idle" /\ generation < MaxGeneration
    /\ s \notin begun
    /\ sinks' = sinks \cup {s}
    /\ begun' = begun \cup {s}
    /\ Disturb
    /\ Goto(w, "bump")
    /\ UNCHANGED <<now, generation, baseline, live, catalogued, cacheVars,
                   due, pushing>>

\* Variant: a removal does not advance the generation.
AfterRemovalNothing == "idle"
AfterRemoval == "bump"

RemoveSink(w, s) ==
    /\ pc[w] = "idle" /\ generation < MaxGeneration
    /\ s \in sinks
    /\ sinks' = sinks \ {s}
    /\ Disturb
    /\ Goto(w, AfterRemoval)
    /\ UNCHANGED <<now, generation, baseline, live, catalogued, cacheVars,
                   activationVars>>

\* activate: a selector nobody has observed is refused unless it names a
\* context; the deadline runs from here ...
ActivateCheck(w, a) ==
    /\ pc[w] = "idle" /\ generation < MaxGeneration
    /\ a \notin begun
    /\ catalogued \/ a \in Scoped
    /\ begun' = begun \cup {a}
    /\ due' = [due EXCEPT ![a] = now + Ttl]
    /\ pushing' = [pushing EXCEPT ![w] = {a}]
    /\ Goto(w, "activate")
    /\ UNCHANGED <<now, generation, config, catalogued, cacheVars, call>>

\* ... and the section that checked is not the one that pushes.
ActivatePush(w) ==
    /\ pc[w] = "activate"
    /\ live' = live \cup pushing[w]
    /\ pushing' = [pushing EXCEPT ![w] = {}]
    /\ Disturb
    /\ Goto(w, "bump")
    /\ UNCHANGED <<now, generation, baseline, sinks, catalogued, cacheVars, due, begun>>

Bump(w) ==
    /\ pc[w] = "bump"
    /\ AdvanceGeneration
    /\ Goto(w, "idle")
    /\ UNCHANGED <<now, config, catalogued, cacheVars, call, activationVars>>

Tick ==
    /\ now < MaxTime
    /\ now' = now + 1
    /\ Disturb
    /\ UNCHANGED <<generation, config, catalogued, cacheVars, pc,
                   activationVars>>

-----------------------------------------------------------------------------

LoggerNext(r) ==
    \/ \E context \in Contexts : Begin(r, context)
    \/ LoadCacheGen(r) \/ LoadCacheWord(r) \/ StoreWord(r) \/ StoreGen(r)
    \/ PruneCheck(r) \/ Prune(r) \/ PruneBump(r) \/ LoadBaseline(r) \/ Union(r)
    \/ Refine(r) \/ CtxNow(r) \/ CtxActivations(r) \/ CtxBump(r) \/ CtxSinks(r)

AdminNext(w) ==
    \/ \E mask \in Baselines : SetInterest(w, mask)
    \/ \E s \in Sinks : AddSink(w, s) \/ RemoveSink(w, s)
    \/ \E a \in Activations : ActivateCheck(w, a)
    \/ ActivatePush(w) \/ Bump(w)

Next ==
    \/ \E r \in Loggers : LoggerNext(r)
    \/ \E w \in Admins : AdminNext(w)
    \/ Tick

Spec == Init /\ [][Next]_vars

-----------------------------------------------------------------------------
(* Properties *)

Hit == cacheGen = generation /\ TagMatches(generation)

\* "A stale interest that then looks current": while nobody owes a bump, a
\* pair of cache words that any caller would accept holds the mask of the
\* configuration as it stands, unless the word is TagModulus generations old
\* or more, however the four stores of two missing callers interleaved.
NoStaleHit ==
    (Owing = {} /\ Hit) => (word.mask = Eval \/ Collides)

\* Once set_interest, activate, add_sink and remove_sink have returned, the
\* next log call is asked for exactly the groups the configuration selects in
\* its context, through a hit or a miss, with expired activations removed by
\* whichever thread comes first.
QuietCallIsExact ==
    \A r \in Loggers : (pc[r] = "idle" /\ call[r].quiet) =>
        call[r].mask = EvalIn(call[r].context)

GroupsBesides(a) ==
    WithoutContextual(UNION Baselines) \cup GivenBy(Sinks)
       \cup (UNION {ActivationGroups[b] : b \in Activations \ {a}})

\* "A direct field mask could remain in the call-site cache after its
\* deadline": a call that starts at or after an activation's deadline is never
\* asked for groups that only this activation grants, even though no event
\* advances the generation when the deadline passes.
TtlEnforced ==
    \A r \in Loggers : pc[r] = "idle" =>
        \A a \in call[r].expired :
            call[r].mask \cap ActivationGroups[a] \subseteq GroupsBesides(a)
=============================================================================
