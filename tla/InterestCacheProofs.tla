------------------------- MODULE InterestCacheProofs -------------------------
(*****************************************************************************)
(* Proofs about InterestCache, for any number of threads, sinks, activations *)
(* and field groups and any tag width: type correctness, that no pair of     *)
(* cache words a caller would accept is stale (NoStaleHit), that a call which*)
(* nothing disturbs gets the exact answer (QuietCallIsExact), and that a     *)
(* deadline is kept although nothing advances the generation when it passes  *)
(* (TtlEnforced).                                                            *)
(*                                                                           *)
(* NoStaleHit is not inductive.  Currency strengthens it with the masks on   *)
(* their way to the cache: while nobody owes an advance of the generation,   *)
(* whatever a thread computed for the current generation is computed from    *)
(* the current configuration.  Provenance says where the two words come      *)
(* from; it makes the tag tell generations less than TagModulus apart.       *)
(*                                                                           *)
(* The two properties of an answer need more, because other calls prune      *)
(* expired activations and advance the generation under a call that is       *)
(* otherwise undisturbed.  Exactness follows a call from step to step and    *)
(* bounds the words it may accept from below (FreshSince); Deadlines and     *)
(* Grants say that a mask which outlives a call holds no activation's groups.*)
(*****************************************************************************)
EXTENDS InterestCache, TLAPS

\* Every word and every call carries a generation that has existed, and the
\* cached generation is stored after a word that carries a tag.
Provenance ==
    /\ word.at <= generation
    /\ word.at # -1 => word.tag = Tag(word.at)
    /\ cacheGen # Unpopulated => word.at # -1
    /\ \A r \in Loggers : call[r].gen <= generation
    /\ \A r \in Loggers : pc[r] = "storeGen" => word.at # -1

\* What is computed for the current generation is computed from the current
\* configuration: the configuration only moves together with a bump.
Currency ==
    Owing = {} =>
        /\ word.at = generation => word.mask = Eval
        /\ \A r \in Loggers : call[r].gen = generation =>
              /\ pc[r] = "union" => call[r].part = baseline
              /\ pc[r] = "storeWord" => call[r].mask = Eval

IInv == TypeOK /\ Provenance /\ Currency

-----------------------------------------------------------------------------
(* Arithmetic of the tag *)

\* A multiple of m that lies in 0..m-1 is zero.
LEMMA SmallMultiple ==
    ASSUME NEW p \in Int, NEW q \in Int, NEW m \in Nat,
           m * (q - p) >= 0, m * (q - p) < m
    PROVE  q = p
<1>1. CASE q - p >= 1
  <2>1. m * (q - p) >= m
    BY <1>1
  <2> QED  BY <2>1
<1>2. CASE q - p <= -1
  <2>1. m * (q - p) <= -m
    BY <1>2
  <2> QED  BY <2>1
<1> QED  BY <1>1, <1>2

\* A number is a multiple of m and the remainder that % returns.
LEMMA Division ==
    \A a, m \in Nat :
        m > 0 => \E q \in Nat : a = m * q + (a % m) /\ a % m \in 0 .. (m - 1)
OBVIOUS

\* Generations less than TagModulus apart have different tags.
LEMMA TagIsExact ==
    ASSUME NEW a \in Nat, NEW g \in Nat, a <= g, g < a + TagModulus,
           Tag(a) = Tag(g)
    PROVE  a = g
<1>1. TagModulus \in Nat /\ TagModulus > 0
  BY NumberAssumption
<1>2. PICK p \in Nat : a = TagModulus * p + (a % TagModulus)
  BY <1>1, Division
<1>3. PICK q \in Nat : g = TagModulus * q + (g % TagModulus)
  BY <1>1, Division
<1>4. a % TagModulus = g % TagModulus /\ a % TagModulus \in Nat
  BY <1>1, Division DEF Tag
<1>5. g - a = TagModulus * (q - p)
  BY <1>1, <1>2, <1>3, <1>4
<1>6. TagModulus * (q - p) >= 0 /\ TagModulus * (q - p) < TagModulus
  BY <1>1, <1>5
<1>7. q = p
  BY <1>1, <1>6, SmallMultiple
<1> QED  BY <1>1, <1>5, <1>7

LEMMA TagType == \A g \in Nat : Tag(g) \in Nat
BY NumberAssumption DEF Tag

\* Every mask the runtime computes is a mask.
LEMMA MaskTypes ==
    ASSUME TypeOK
    PROVE  /\ \A base \in Mask : InterestIn(base) \in Mask
           /\ \A a \in SUBSET Activations, c \in Contexts : GrantedBy(a, c) \in Mask
           /\ \A s \in SUBSET Sinks : GivenBy(s) \in Mask
<1>1. \A s \in Sinks : SinkGroups[s] \subseteq Groups \cup {CONTEXTUAL}
  BY MaskAssumption
<1>2. \A a \in Activations : ActivationGroups[a] \subseteq Groups \cup {CONTEXTUAL}
  BY MaskAssumption
<1>3. sinks \subseteq Sinks
  BY DEF TypeOK
<1>4. \A base \in Mask : InterestIn(base) \in Mask
  <2>1. \A s \in sinks : SinkAsks(s) \subseteq Groups \cup {CONTEXTUAL}
    BY <1>1, <1>3 DEF SinkAsks
  <2> QED  BY <2>1 DEF InterestIn, UnionOf, Mask
<1>5. \A a \in SUBSET Activations, c \in Contexts : GrantedBy(a, c) \in Mask
  <2> SUFFICES ASSUME NEW a \in SUBSET Activations, NEW c \in Contexts
               PROVE  GrantedBy(a, c) \subseteq Groups \cup {CONTEXTUAL}
    BY DEF Mask
  <2> QED  BY <1>2 DEF GrantedBy
<1>6. \A s \in SUBSET Sinks : GivenBy(s) \in Mask
  BY <1>1 DEF GivenBy, Mask
<1> QED  BY <1>4, <1>5, <1>6

-----------------------------------------------------------------------------
(* Type correctness *)

\* The initial state is well typed.
LEMMA TypeInit == Init => TypeOK
<1> SUFFICES ASSUME Init PROVE TypeOK
  OBVIOUS
<1>1. call \in [Loggers -> CallRecord]
  <2>1. \A c \in Contexts :
           [gen |-> 0, part |-> {}, mask |-> {}, deadline |-> 0, context |-> c,
            quiet |-> FALSE, expired |-> {}] \in CallRecord
    BY DEF CallRecord, Mask
  <2> QED  BY <2>1 DEF Init
<1>2. word \in [tag: Nat, mask: Mask, at: Nat \cup {-1}]
  BY DEF Init, Mask
<1> QED  BY <1>1, <1>2 DEF Init, TypeOK, Threads, LoggerSteps, AdminSteps

\* Invalidating every answer leaves well typed records.
LEMMA DisturbType ==
    ASSUME call \in [Loggers -> CallRecord], Disturb
    PROVE  call' \in [Loggers -> CallRecord]
BY ZenonT(60) DEF Disturb, CallRecord

\* So does storing a mask, with or without a partial one.
LEMMA UpdateType ==
    ASSUME call \in [Loggers -> CallRecord], NEW r \in Loggers, NEW m \in Mask
    PROVE  /\ [call EXCEPT ![r].mask = m, ![r].part = {}] \in [Loggers -> CallRecord]
           /\ [call EXCEPT ![r].part = m, ![r].deadline = 0] \in [Loggers -> CallRecord]
<1>1. {} \in Mask
  BY DEF Mask
<1> QED  BY ZenonT(60), <1>1 DEF CallRecord

\* And forgetting the generation, starting a partial mask or noting the time.
LEMMA LocalType ==
    ASSUME call \in [Loggers -> CallRecord], NEW r \in Loggers, NEW m \in Mask, NEW n \in Nat
    PROVE  /\ [call EXCEPT ![r].gen = n] \in [Loggers -> CallRecord]
           /\ [call EXCEPT ![r].part = m] \in [Loggers -> CallRecord]
           /\ [call EXCEPT ![r].deadline = n] \in [Loggers -> CallRecord]
BY DEF CallRecord


\* Every step of every thread and of the clock keeps the state well typed.
LEMMA TypeNext ==
    ASSUME TypeOK, [Next]_vars
    PROVE  TypeOK'
<1> USE ThreadAssumption DEF TypeOK, config, cacheVars, activationVars, Goto, Threads
<1>1. ASSUME NEW r \in Loggers, LoggerNext(r)
      PROVE  TypeOK'
  <2>1. ASSUME NEW context \in Contexts, Begin(r, context)
        PROVE  TypeOK'
    BY <2>1 DEF Begin, LoggerSteps, CallRecord, Mask
  <2>2. CASE LoadCacheGen(r)
    BY <2>2 DEF LoadCacheGen, LoggerSteps, CallRecord
  <2>3. CASE LoadCacheWord(r)
    <3>1. call' \in [Loggers -> CallRecord]
      BY SMTT(30), <2>3 DEF LoadCacheWord, TagMatches, Collides, CallRecord
    <3> QED  BY <2>3, <3>1 DEF LoadCacheWord, LoggerSteps
  <2>4. CASE StoreWord(r)
    BY <2>4, TagType DEF StoreWord, LoggerSteps, CallRecord
  <2>5. CASE StoreGen(r)
    <3>1. call' \in [Loggers -> CallRecord] /\ cacheGen' \in Nat
      BY <2>5, LocalType DEF StoreGen, CallRecord
    <3> QED  BY <2>5, <3>1 DEF StoreGen, LoggerSteps
  <2>6. CASE PruneCheck(r)
    <3>1. call' \in [Loggers -> CallRecord]
      <4>1. {} \in Mask /\ now \in Nat
        BY DEF Mask
      <4>2. [call EXCEPT ![r].deadline = now] \in [Loggers -> CallRecord]
        BY <4>1, LocalType
      <4> QED  BY <2>6, <4>2 DEF PruneCheck
    <3> QED  BY <2>6, <3>1 DEF PruneCheck, LoggerSteps
  <2>7. CASE Prune(r)
    <3>1. live' \in SUBSET Activations
      BY <2>7 DEF Prune, Retained
    <3>2. call' \in [Loggers -> CallRecord]
      BY SMTT(30), <2>7 DEF Prune, CallRecord
    <3>3. pc' = [pc EXCEPT ![r] = "pruneBump"] \/ pc' = [pc EXCEPT ![r] = "baseline"]
      BY <2>7 DEF Prune
    <3> QED  BY <2>7, <3>1, <3>2, <3>3 DEF Prune, LoggerSteps
  <2>8. CASE PruneBump(r)
    BY <2>8 DEF PruneBump, AdvanceGeneration, LoggerSteps, CallRecord
  <2>9. CASE LoadBaseline(r)
    <3>1. call' \in [Loggers -> CallRecord]
      BY <2>9, LocalType DEF LoadBaseline, Mask
    <3> QED  BY <2>9, <3>1 DEF LoadBaseline, LoggerSteps
  <2>10. CASE Union(r)
    <3>1. InterestIn(call[r].part) \in Mask
      BY MaskTypes DEF CallRecord
    <3>2. call' \in [Loggers -> CallRecord]
      BY <2>10, <3>1, UpdateType DEF Union
    <3> QED  BY <2>10, <3>2 DEF Union, LoggerSteps
  <2>11. CASE Refine(r)
    BY SMTT(30), <2>11 DEF Refine, Return, Mask, LoggerSteps, CallRecord
  <2>12. CASE CtxNow(r)
    <3>1. call' \in [Loggers -> CallRecord]
      <4>1. {} \in Mask /\ now \in Nat
        BY DEF Mask
      <4>2. [call EXCEPT ![r].deadline = now] \in [Loggers -> CallRecord]
        BY <4>1, LocalType
      <4> QED  BY <2>12, <4>2 DEF CtxNow
    <3> QED  BY <2>12, <3>1 DEF CtxNow, LoggerSteps
  <2>13. CASE CtxActivations(r)
    <3>1. live' \in SUBSET Activations
      BY <2>13 DEF CtxActivations, Retained
    <3>2. GrantedBy(live', call[r].context) \in Mask
      BY <3>1, MaskTypes DEF CallRecord
    <3>3. call' \in [Loggers -> CallRecord]
      <4>1. call[r].part \cup GrantedBy(live', call[r].context) \in Mask
        BY <3>2 DEF CallRecord, Mask
      <4> QED  BY <2>13, <4>1, UpdateType DEF CtxActivations
    <3>4. pc' = [pc EXCEPT ![r] = "ctxBump"] \/ pc' = [pc EXCEPT ![r] = "ctxSinks"]
      BY <2>13 DEF CtxActivations
    <3> QED  BY <2>13, <3>1, <3>3, <3>4 DEF CtxActivations, LoggerSteps
  <2>14. CASE CtxBump(r)
    BY <2>14 DEF CtxBump, AdvanceGeneration, LoggerSteps, CallRecord
  <2>15. CASE CtxSinks(r)
    <3>1. GivenBy({s \in sinks : call[r].context \in SinkContexts[s]}) \in Mask
      BY MaskTypes
    <3>2. call' \in [Loggers -> CallRecord]
      <4>1. call[r].part \cup GivenBy({s \in sinks : call[r].context \in SinkContexts[s]})
               \in Mask
        BY <3>1 DEF CallRecord, Mask
      <4> QED  BY ZenonT(60), <2>15, <4>1, UpdateType DEF CtxSinks, Return
    <3> QED  BY <2>15, <3>2 DEF CtxSinks, Return, LoggerSteps
  <2> QED
    BY <1>1, <2>1, <2>2, <2>3, <2>4, <2>5, <2>6, <2>7, <2>8, <2>9, <2>10, <2>11,
       <2>12, <2>13, <2>14, <2>15 DEF LoggerNext
<1>2. ASSUME NEW w \in Admins, AdminNext(w)
      PROVE  TypeOK'
  <2>1. ASSUME NEW mask \in Baselines, SetInterest(w, mask)
        PROVE  TypeOK'
    <3>1. WithoutContextual(mask) \in SUBSET Groups
      BY MaskAssumption DEF WithoutContextual
    <3> QED  BY <2>1, <3>1, DisturbType DEF SetInterest, AdminSteps
  <2>2. ASSUME NEW s \in Sinks, AddSink(w, s)
        PROVE  TypeOK'
    BY <2>2, DisturbType DEF AddSink, AdminSteps
  <2>3. ASSUME NEW s \in Sinks, RemoveSink(w, s)
        PROVE  TypeOK'
    BY <2>3, DisturbType DEF RemoveSink, AfterRemoval, AdminSteps
  <2>4. ASSUME NEW a \in Activations, ActivateCheck(w, a)
        PROVE  TypeOK'
    BY <2>4, NumberAssumption DEF ActivateCheck, AdminSteps
  <2>5. CASE ActivatePush(w)
    BY <2>5, DisturbType DEF ActivatePush, AdminSteps
  <2>6. CASE Bump(w)
    BY <2>6 DEF Bump, AdvanceGeneration, AdminSteps
  <2> QED
    BY <1>2, <2>1, <2>2, <2>3, <2>4, <2>5, <2>6 DEF AdminNext
<1>3. CASE Tick
  BY <1>3, DisturbType DEF Tick
<1>4. CASE UNCHANGED vars
  BY <1>4 DEF vars
<1> QED  BY <1>1, <1>2, <1>3, <1>4 DEF Next

\* Every variable keeps its type, whatever the configuration calls do.
THEOREM TypeCorrect == Spec => []TypeOK
<1>1. Init => TypeOK
  BY TypeInit
<1>2. TypeOK /\ [Next]_vars => TypeOK'
  BY TypeNext
<1> QED  BY <1>1, <1>2, PTL DEF Spec

-----------------------------------------------------------------------------
(* The cache never looks current when it is stale *)

\* Tags and generations only come from StoreWord, and only StoreGen, which
\* follows it, publishes a generation.
LEMMA ProvenanceNext ==
    ASSUME TypeOK, Provenance, [Next]_vars
    PROVE  Provenance'
<1> USE ThreadAssumption, NumberAssumption
    DEF TypeOK, CallRecord, Provenance, config, cacheVars, activationVars, Goto, Threads
<1>1. ASSUME NEW r \in Loggers, LoggerNext(r)
      PROVE  Provenance'
  <2>1. ASSUME NEW context \in Contexts, Begin(r, context)
        PROVE  Provenance'
    BY <2>1 DEF Begin
  <2>2. CASE LoadCacheGen(r)
    BY <2>2 DEF LoadCacheGen
  <2>3. CASE LoadCacheWord(r)
    BY SMTT(30), <2>3 DEF LoadCacheWord
  <2>4. CASE StoreWord(r)
    BY <2>4 DEF StoreWord
  <2>5. CASE StoreGen(r)
    BY <2>5 DEF StoreGen
  <2>6. CASE PruneCheck(r)
    BY <2>6 DEF PruneCheck
  <2>7. CASE Prune(r)
    BY <2>7 DEF Prune
  <2>8. CASE PruneBump(r) \/ CtxBump(r)
    BY <2>8 DEF PruneBump, CtxBump, AdvanceGeneration
  <2>9. CASE LoadBaseline(r)
    BY <2>9 DEF LoadBaseline
  <2>10. CASE Union(r)
    BY <2>10 DEF Union
  <2>11. CASE Refine(r)
    BY <2>11 DEF Refine, Return
  <2>12. CASE CtxNow(r)
    BY <2>12 DEF CtxNow
  <2>13. CASE CtxActivations(r)
    BY <2>13 DEF CtxActivations
  <2>14. CASE CtxSinks(r)
    BY <2>14 DEF CtxSinks, Return
  <2> QED
    BY <1>1, <2>1, <2>2, <2>3, <2>4, <2>5, <2>6, <2>7, <2>8, <2>9, <2>10, <2>11,
       <2>12, <2>13, <2>14 DEF LoggerNext
<1>2. ASSUME NEW w \in Admins, AdminNext(w)
      PROVE  Provenance'
  <2>1. \/ UNCHANGED generation
        \/ generation' = generation + 1
    BY <1>2 DEF AdminNext, SetInterest, AddSink, RemoveSink, ActivateCheck,
                ActivatePush, Bump, AdvanceGeneration
  <2>2. UNCHANGED <<cacheGen, word>>
    BY <1>2 DEF AdminNext, SetInterest, AddSink, RemoveSink, ActivateCheck,
                ActivatePush, Bump
  <2>3. \A r \in Loggers : pc'[r] = pc[r]
    BY <1>2 DEF AdminNext, SetInterest, AddSink, RemoveSink, ActivateCheck,
                ActivatePush, Bump
  <2>4. UNCHANGED call \/ Disturb
    BY <1>2 DEF AdminNext, SetInterest, AddSink, RemoveSink, ActivateCheck,
                ActivatePush, Bump
  <2>5. \A r \in Loggers : call'[r].gen = call[r].gen
    BY <2>4 DEF Disturb
  <2> QED  BY <2>1, <2>2, <2>3, <2>5
<1>3. CASE Tick
  BY <1>3 DEF Tick, Disturb
<1>4. CASE UNCHANGED vars
  BY <1>4 DEF vars
<1> QED  BY <1>1, <1>2, <1>3, <1>4 DEF Next

BumpSteps == {"bump", "pruneBump", "ctxBump"}

\* A thread that has changed the configuration owes a bump: nothing is claimed.
LEMMA OwingStep ==
    ASSUME NEW t \in Threads, pc'[t] \in BumpSteps
    PROVE  Currency'
BY DEF Currency, Owing, BumpSteps

\* After a bump nothing in flight or in the cache is of the new generation.
LEMMA BumpStep ==
    ASSUME TypeOK, Provenance, generation' = generation + 1, UNCHANGED word,
           \A r \in Loggers : call'[r].gen = call[r].gen
    PROVE  Currency'
BY DEF TypeOK, CallRecord, Currency, Provenance

\* A step that moves one thread, neither from nor to one that owes a bump or
\* carries a mask, and leaves the configuration and the word alone.
LEMMA OrdinaryStep ==
    ASSUME TypeOK, Currency, NEW t \in Threads, NEW step,
           pc' = [pc EXCEPT ![t] = step],
           pc[t] \notin BumpSteps,
           step \notin BumpSteps \cup {"union", "storeWord"},
           UNCHANGED <<generation, word, baseline, sinks, live>>,
           \A r \in Loggers \ {t} : call'[r] = call[r]
    PROVE  Currency'
<1>1. Owing' = Owing
  BY DEF Owing, BumpSteps, TypeOK
<1>2. Eval' = Eval
  BY DEF Eval, UnionOf, SinkAsks
<1>3. \A r \in Loggers : pc'[r] \in {"union", "storeWord"} =>
         r # t /\ pc'[r] = pc[r] /\ call'[r] = call[r]
  BY DEF TypeOK, Threads
<1> QED  BY <1>1, <1>2, <1>3 DEF Currency

\* One case per action: a bump, a step that owes one, a step that carries a
\* mask a little further, or a step that does not matter.
LEMMA CurrencyNext ==
    ASSUME TypeOK, Provenance, Currency, [Next]_vars
    PROVE  Currency'
<1> USE ThreadAssumption DEF config, cacheVars, activationVars, Goto, Threads
<1>1. ASSUME NEW r \in Loggers, LoggerNext(r)
      PROVE  Currency'
  <2>1. ASSUME NEW context \in Contexts, Begin(r, context)
        PROVE  Currency'
    <3>1. \A q \in Loggers \ {r} : call'[q] = call[q]
      BY <2>1 DEF Begin, TypeOK
    <3> QED  BY <2>1, <3>1, OrdinaryStep DEF Begin, BumpSteps
  <2>2. CASE LoadCacheGen(r)
    BY <2>2, OrdinaryStep DEF LoadCacheGen, BumpSteps
  <2>3. CASE LoadCacheWord(r)
    <3>1. \A q \in Loggers \ {r} : call'[q] = call[q]
      BY <2>3 DEF LoadCacheWord, TypeOK
    <3> QED  BY <2>3, <3>1, OrdinaryStep DEF LoadCacheWord, BumpSteps
  <2>4. CASE StoreWord(r)
    <3>1. Owing' = Owing /\ Eval' = Eval
      BY <2>4 DEF StoreWord, Owing, Eval, UnionOf, SinkAsks, TypeOK
    <3>2. \A q \in Loggers : pc'[q] \in {"union", "storeWord"} => pc'[q] = pc[q]
      BY <2>4 DEF StoreWord, TypeOK
    <3> QED  BY <2>4, <3>1, <3>2 DEF StoreWord, Currency, TypeOK
  <2>5. CASE StoreGen(r)
    <3>1. \A q \in Loggers \ {r} : call'[q] = call[q]
      BY <2>5 DEF StoreGen, TypeOK
    <3> QED  BY <2>5, <3>1, OrdinaryStep DEF StoreGen, BumpSteps
  <2>6. CASE PruneCheck(r)
    <3>1. \A q \in Loggers \ {r} : call'[q] = call[q]
      BY <2>6 DEF PruneCheck, TypeOK
    <3> QED  BY <2>6, <3>1, OrdinaryStep DEF PruneCheck, BumpSteps
  <2>7. CASE Prune(r)
    <3>1. CASE live' = live
      <4>1. \A q \in Loggers \ {r} : call'[q] = call[q]
        BY <2>7 DEF Prune, TypeOK
      <4> QED  BY <2>7, <3>1, <4>1, OrdinaryStep DEF Prune, BumpSteps
    <3>2. CASE live' # live
      <4>1. pc'[r] = "pruneBump"
        BY <2>7, <3>2 DEF Prune, TypeOK
      <4> QED  BY <4>1, OwingStep DEF BumpSteps
    <3> QED  BY <3>1, <3>2
  <2>8. CASE PruneBump(r) \/ CtxBump(r)
    BY <2>8, BumpStep DEF PruneBump, CtxBump, AdvanceGeneration
  <2>9. CASE LoadBaseline(r)
    <3>1. Owing' = Owing /\ Eval' = Eval
      BY <2>9 DEF LoadBaseline, Owing, Eval, UnionOf, SinkAsks, TypeOK
    <3>2. \A q \in Loggers \ {r} : pc'[q] = pc[q] /\ call'[q] = call[q]
      BY <2>9 DEF LoadBaseline, TypeOK
    <3>3. pc'[r] = "union" /\ call'[r].part = baseline
      BY <2>9 DEF LoadBaseline, TypeOK, CallRecord
    <3> QED  BY <2>9, <3>1, <3>2, <3>3 DEF LoadBaseline, Currency
  <2>10. CASE Union(r)
    <3>1. Owing' = Owing /\ Eval' = Eval
      BY <2>10 DEF Union, Owing, Eval, UnionOf, SinkAsks, TypeOK
    <3>2. \A q \in Loggers \ {r} : pc'[q] = pc[q] /\ call'[q] = call[q]
      BY <2>10 DEF Union, TypeOK
    <3>3. pc'[r] = "storeWord" /\ call'[r].gen = call[r].gen
      BY <2>10 DEF Union, TypeOK, CallRecord
    <3>4. call'[r].mask = UnionOf(call[r].part)
      BY <2>10 DEF Union, InterestIn, TypeOK, CallRecord
    <3>5. Owing = {} /\ call[r].gen = generation => call'[r].mask = Eval
      BY <2>10, <3>4 DEF Union, Currency, Eval
    <3> QED  BY <2>10, <3>1, <3>2, <3>3, <3>5 DEF Union, Currency
  <2>11. CASE Refine(r)
    <3>1. \A q \in Loggers \ {r} : call'[q] = call[q]
      BY <2>11 DEF Refine, Return, TypeOK
    <3> QED  BY <2>11, <3>1, OrdinaryStep DEF Refine, Return, BumpSteps
  <2>12. CASE CtxNow(r)
    <3>1. \A q \in Loggers \ {r} : call'[q] = call[q]
      BY <2>12 DEF CtxNow, TypeOK
    <3> QED  BY <2>12, <3>1, OrdinaryStep DEF CtxNow, BumpSteps
  <2>13. CASE CtxActivations(r)
    <3>1. CASE live' = live
      <4>1. \A q \in Loggers \ {r} : call'[q] = call[q]
        BY <2>13 DEF CtxActivations, TypeOK
      <4> QED  BY <2>13, <3>1, <4>1, OrdinaryStep DEF CtxActivations, BumpSteps
    <3>2. CASE live' # live
      <4>1. pc'[r] = "ctxBump"
        BY <2>13, <3>2 DEF CtxActivations, TypeOK
      <4> QED  BY <4>1, OwingStep DEF BumpSteps
    <3> QED  BY <3>1, <3>2
  <2>14. CASE CtxSinks(r)
    <3>1. \A q \in Loggers \ {r} : call'[q] = call[q]
      BY <2>14 DEF CtxSinks, Return, TypeOK
    <3> QED  BY <2>14, <3>1, OrdinaryStep DEF CtxSinks, Return, BumpSteps
  <2> QED
    BY <1>1, <2>1, <2>2, <2>3, <2>4, <2>5, <2>6, <2>7, <2>8, <2>9, <2>10, <2>11,
       <2>12, <2>13, <2>14 DEF LoggerNext
<1>2. ASSUME NEW w \in Admins, AdminNext(w)
      PROVE  Currency'
  <2>1. CASE (\E mask \in Baselines : SetInterest(w, mask))
             \/ (\E s \in Sinks : AddSink(w, s) \/ RemoveSink(w, s))
             \/ ActivatePush(w)
    <3>1. pc'[w] = "bump"
      BY <2>1 DEF SetInterest, AddSink, RemoveSink, AfterRemoval, ActivatePush, TypeOK
    <3> QED  BY <3>1, OwingStep DEF BumpSteps
  <2>2. ASSUME NEW a \in Activations, ActivateCheck(w, a)
        PROVE  Currency'
    BY <2>2, OrdinaryStep DEF ActivateCheck, BumpSteps
  <2>3. CASE Bump(w)
    BY <2>3, BumpStep DEF Bump, AdvanceGeneration
  <2> QED  BY <1>2, <2>1, <2>2, <2>3 DEF AdminNext
<1>3. CASE Tick
  <2>1. \A r \in Loggers : call'[r].gen = call[r].gen /\ call'[r].part = call[r].part
                           /\ call'[r].mask = call[r].mask
    BY <1>3 DEF Tick, Disturb, TypeOK, CallRecord
  <2>2. Owing' = Owing /\ Eval' = Eval
    BY <1>3 DEF Tick, Owing, Eval, UnionOf, SinkAsks
  <2> QED  BY <1>3, <2>1, <2>2 DEF Tick, Currency
<1>4. CASE UNCHANGED vars
  BY <1>4 DEF vars, Currency, Owing, Eval, UnionOf, SinkAsks
<1> QED  BY <1>1, <1>2, <1>3, <1>4 DEF Next

\* What a caller would accept is a mask of the current generation, and that is
\* the mask of the current configuration.
LEMMA HitIsCurrent == IInv => NoStaleHit
<1> SUFFICES ASSUME IInv, Owing = {}, Hit, ~Collides
             PROVE  word.mask = Eval
  BY DEF NoStaleHit
<1>1. word.at # -1 /\ word.tag = Tag(word.at) /\ word.tag = Tag(generation)
  BY NumberAssumption DEF IInv, TypeOK, Provenance, Hit, TagMatches
<1>2. word.at \in Nat /\ generation \in Nat
  BY <1>1 DEF IInv, TypeOK
<1>3. word.at <= generation /\ generation < word.at + TagModulus
  BY <1>2, NumberAssumption DEF IInv, Provenance, Collides
<1>4. word.at = generation
  BY <1>1, <1>2, <1>3, TagIsExact
<1> QED  BY <1>4 DEF IInv, Currency

\* However the cache stores of missing callers, the configuration changes and
\* the bumps of the generation interleave, the cache never serves a stale mask
\* except across the collision that Cache::tag concedes.
THEOREM CacheIsNeverStale == Spec => []NoStaleHit
<1>1. Init => IInv
  <2> SUFFICES ASSUME Init PROVE IInv
    OBVIOUS
  <2>1. TypeOK
    BY TypeInit
  <2>2. /\ generation = 0 /\ word.at = -1 /\ cacheGen = Unpopulated
        /\ \A r \in Loggers : call[r].gen = 0 /\ pc[r] = "idle"
    BY DEF Init, Threads
  <2>3. Provenance
    BY <2>2 DEF Provenance
  <2>4. Currency
    BY <2>2 DEF Currency
  <2> QED  BY <2>1, <2>3, <2>4 DEF IInv
<1>2. IInv /\ [Next]_vars => IInv'
  BY TypeNext, ProvenanceNext, CurrencyNext DEF IInv
<1>3. IInv => NoStaleHit
  BY HitIsCurrent
<1> QED  BY <1>1, <1>2, <1>3, PTL DEF Spec

-----------------------------------------------------------------------------
(* What an expired activation may have left behind *)

\* Groups that some baseline or some sink may ask for.
Unlimited == WithoutContextual(UNION Baselines) \cup GivenBy(Sinks)

\* Where a call carries only what the cache may hold.
CacheSteps == {"cacheGen", "cacheWord", "pruneCheck", "prune", "pruneBump", "baseline",
               "union", "storeWord", "storeGen", "refine", "ctxNow", "ctxActivations"}

\* Deadlines are sampled from the clock, and activate fixes one for good: what
\* had expired when a call began has expired at every sample it takes.
Deadlines ==
    /\ live \subseteq begun
    /\ \A w \in Admins : pushing[w] \subseteq begun
    /\ \A r \in Loggers :
          /\ call[r].deadline <= now
          /\ call[r].expired \subseteq begun
          /\ \A a \in call[r].expired :
                /\ due[a] <= now
                /\ pc[r] = "ctxActivations" => due[a] <= call[r].deadline

\* No activation puts its own groups into a mask that outlives the call, and
\* an expired one puts them nowhere.
Grants ==
    /\ baseline \subseteq Unlimited
    /\ word.mask \subseteq Unlimited \cup {CONTEXTUAL}
    /\ \A r \in Loggers :
          /\ pc[r] \in CacheSteps =>
                /\ call[r].part \subseteq Unlimited \cup {CONTEXTUAL}
                /\ call[r].mask \subseteq Unlimited \cup {CONTEXTUAL}
          /\ \A a \in call[r].expired :
                (call[r].part \cup call[r].mask) \cap ActivationGroups[a]
                   \subseteq GroupsBesides(a)

-----------------------------------------------------------------------------
(* What a call that nothing disturbs carries from step to step *)

\* A mask that no context refines is what every context is to be asked for.
Fresh(mask) ==
    CONTEXTUAL \notin mask =>
        /\ mask = baseline \cup GivenBy(sinks)
        /\ sinks \cap Scoped = {}
        /\ live = {}

\* What is computed for generation gen or a later one is fresh: a bump that
\* only follows a pruning may make the generation run ahead.
FreshSince(gen) ==
    /\ word.at >= gen => Fresh(word.mask)
    /\ \A r \in Loggers : call[r].gen >= gen =>
          /\ pc[r] = "union" => call[r].part = baseline
          /\ pc[r] = "storeWord" => Fresh(call[r].mask)

AdminsDone == \A w \in Admins : pc[w] # "bump"

\* The steps at which a call still knows the generation it loaded.
KeyedSteps == {"cacheGen", "cacheWord", "pruneCheck", "prune", "pruneBump", "baseline",
               "union", "storeWord"}

Unexpired == {a \in live : due[a] > now}

\* What call r holds, provided that nothing disturbed it.
Exact(r) ==
    /\ pc[r] \in KeyedSteps => FreshSince(call[r].gen)
    /\ pc[r] \in {"storeGen", "refine"} => Fresh(call[r].mask)
    /\ pc[r] \in {"ctxNow", "ctxActivations"} => call[r].part = baseline
    /\ pc[r] = "ctxActivations" => call[r].deadline = now
    /\ pc[r] \in {"ctxBump", "ctxSinks"} =>
          call[r].part = baseline \cup GrantedBy(Unexpired, call[r].context)
    /\ pc[r] = "idle" => call[r].mask = EvalIn(call[r].context)

Exactness ==
    /\ AdminsDone => FreshSince(generation)
    /\ \A r \in Loggers : pc[r] = "cacheWord" => word.at # -1
    /\ \A r \in Loggers : call[r].quiet => Exact(r)

\* Nothing but activate sets a deadline, and it sets a new one; the clock only
\* moves forward.
LEMMA DeadlinesNext ==
    ASSUME TypeOK, Deadlines, [Next]_vars
    PROVE  Deadlines'
<1> USE ThreadAssumption
    DEF TypeOK, CallRecord, Deadlines, config, cacheVars, activationVars, Goto, Threads
<1>1. ASSUME NEW r \in Loggers, LoggerNext(r)
      PROVE  Deadlines'
  <2>1. ASSUME NEW context \in Contexts, Begin(r, context)
        PROVE  Deadlines'
    BY <2>1 DEF Begin
  <2>2. CASE LoadCacheGen(r) \/ LoadCacheWord(r) \/ StoreWord(r) \/ StoreGen(r)
    BY SMTT(30), <2>2 DEF LoadCacheGen, LoadCacheWord, StoreWord, StoreGen
  <2>3. CASE PruneCheck(r) \/ CtxNow(r)
    BY SMTT(30), <2>3 DEF PruneCheck, CtxNow
  <2>4. CASE Prune(r) \/ CtxActivations(r)
    <3>1. live' \subseteq live
      BY <2>4 DEF Prune, CtxActivations, Retained
    <3>2. pc'[r] # "ctxActivations"
      BY <2>4 DEF Prune, CtxActivations
    <3>3. \A q \in Loggers : /\ call'[q].expired = call[q].expired
                             /\ call'[q].deadline \in {call[q].deadline, 0}
                             /\ q # r => call'[q] = call[q] /\ pc'[q] = pc[q]
      BY <2>4 DEF Prune, CtxActivations
    <3>4. UNCHANGED <<now, activationVars>>
      BY <2>4 DEF Prune, CtxActivations
    <3> QED  BY <3>1, <3>2, <3>3, <3>4
  <2>5. CASE PruneBump(r) \/ CtxBump(r) \/ LoadBaseline(r) \/ Union(r)
    <3>1. CASE PruneBump(r) \/ CtxBump(r)
      BY <3>1 DEF PruneBump, CtxBump
    <3>2. CASE LoadBaseline(r)
      BY <3>2 DEF LoadBaseline
    <3>3. CASE Union(r)
      BY <3>3 DEF Union
    <3> QED  BY <2>5, <3>1, <3>2, <3>3
  <2>6. CASE Refine(r) \/ CtxSinks(r)
    BY <2>6 DEF Refine, CtxSinks, Return
  <2> QED
    BY <1>1, <2>1, <2>2, <2>3, <2>4, <2>5, <2>6 DEF LoggerNext
<1>2. ASSUME NEW w \in Admins, AdminNext(w)
      PROVE  Deadlines'
  <2>1. ASSUME NEW mask \in Baselines, SetInterest(w, mask)
        PROVE  Deadlines'
    BY <2>1 DEF SetInterest, Disturb
  <2>2. ASSUME NEW s \in Sinks, AddSink(w, s) \/ RemoveSink(w, s)
        PROVE  Deadlines'
    <3>1. \A r \in Loggers : /\ call'[r].expired = call[r].expired
                             /\ call'[r].deadline = call[r].deadline
                             /\ pc'[r] = pc[r]
      BY <2>2 DEF AddSink, RemoveSink, Disturb
    <3>2. begun \subseteq begun' /\ UNCHANGED <<now, live, due, pushing>>
      BY <2>2 DEF AddSink, RemoveSink
    <3> QED  BY <3>1, <3>2
  <2>3. ASSUME NEW a \in Activations, ActivateCheck(w, a)
        PROVE  Deadlines'
    BY <2>3 DEF ActivateCheck
  <2>4. CASE ActivatePush(w) \/ Bump(w)
    BY <2>4 DEF ActivatePush, Bump, Disturb
  <2> QED  BY <1>2, <2>1, <2>2, <2>3, <2>4 DEF AdminNext
<1>3. CASE Tick
  BY SMTT(30), <1>3 DEF Tick, Disturb
<1>4. CASE UNCHANGED vars
  BY <1>4 DEF vars
<1> QED  BY <1>1, <1>2, <1>3, <1>4 DEF Next

\* What the runtime adds to a mask, and who alone could have added it.
LEMMA GroupSources ==
    ASSUME TypeOK
    PROVE  /\ \A s \in SUBSET Sinks : GivenBy(s) \subseteq Unlimited
           /\ \A base \in SUBSET (Unlimited \cup {CONTEXTUAL}) :
                 InterestIn(base) \subseteq Unlimited \cup {CONTEXTUAL}
           /\ \A a \in Activations :
                 (Unlimited \cup {CONTEXTUAL}) \cap ActivationGroups[a]
                    \subseteq GroupsBesides(a)
           /\ \A a \in Activations, acts \in SUBSET Activations, c \in Contexts :
                 a \notin acts => GrantedBy(acts, c) \subseteq GroupsBesides(a)
<1>1. \A s \in SUBSET Sinks : GivenBy(s) \subseteq Unlimited
  BY DEF GivenBy, Unlimited
<1>2. ASSUME NEW base \in SUBSET (Unlimited \cup {CONTEXTUAL})
      PROVE  InterestIn(base) \subseteq Unlimited \cup {CONTEXTUAL}
  <2>1. \A s \in sinks : SinkAsks(s) \subseteq Unlimited \cup {CONTEXTUAL}
    BY DEF SinkAsks, Unlimited, GivenBy, TypeOK
  <2> QED  BY <2>1 DEF InterestIn, UnionOf
<1>3. ASSUME NEW a \in Activations
      PROVE  (Unlimited \cup {CONTEXTUAL}) \cap ActivationGroups[a] \subseteq GroupsBesides(a)
  <2>1. CONTEXTUAL \notin ActivationGroups[a]
    BY MaskAssumption
  <2> QED  BY <2>1 DEF Unlimited, GroupsBesides
<1>4. ASSUME NEW a \in Activations, NEW acts \in SUBSET Activations, NEW c \in Contexts,
             a \notin acts
      PROVE  GrantedBy(acts, c) \subseteq GroupsBesides(a)
  BY <1>4 DEF GrantedBy, GroupsBesides
<1> QED  BY <1>1, <1>2, <1>3, <1>4

\* Groups cross from an activation into a mask in CtxActivations only, and
\* there the section that reads the activations has dropped the expired ones.
LEMMA GrantsNext ==
    ASSUME TypeOK, Deadlines, Grants, [Next]_vars
    PROVE  Grants'
<1> DEFINE Cached == Unlimited \cup {CONTEXTUAL}
           Bounded(m) == m \subseteq Cached
           Spares(r, m) == \A a \in call[r].expired :
                              m \cap ActivationGroups[a] \subseteq GroupsBesides(a)
<1>a. \A r \in Loggers, m \in SUBSET Cached : Spares(r, m)
  BY GroupSources DEF TypeOK, CallRecord
<1>b. \A r \in Loggers : call[r].expired \subseteq Activations
  BY DEF TypeOK, CallRecord
<1>c. baseline \subseteq Cached
  BY DEF Grants
\* A step of one thread decides what that thread carries, and nothing else.
<1>d. ASSUME NEW r \in Loggers, NEW step, NEW rec,
             call' = [call EXCEPT ![r] = rec], pc' = [pc EXCEPT ![r] = step],
             UNCHANGED baseline, word'.mask \subseteq Cached,
             step \in CacheSteps => Bounded(rec.part) /\ Bounded(rec.mask),
             \A a \in rec.expired :
                (rec.part \cup rec.mask) \cap ActivationGroups[a] \subseteq GroupsBesides(a)
      PROVE  Grants'
  <2>1. \A q \in Loggers \ {r} : call'[q] = call[q] /\ pc'[q] = pc[q]
    BY <1>d DEF TypeOK
  <2>2. call'[r] = rec /\ pc'[r] = step
    BY <1>d DEF TypeOK, Threads
  <2>3. ASSUME NEW q \in Loggers
        PROVE  /\ pc'[q] \in CacheSteps => Bounded(call'[q].part) /\ Bounded(call'[q].mask)
               /\ \A a \in call'[q].expired :
                     (call'[q].part \cup call'[q].mask) \cap ActivationGroups[a]
                        \subseteq GroupsBesides(a)
    <3>1. CASE q = r
      BY <1>d, <2>2, <3>1
    <3>2. CASE q # r
      BY <2>1, <3>2 DEF Grants
    <3> QED  BY <3>1, <3>2
  <2> QED  BY <1>d, <2>3 DEF Grants, Unlimited
<1>1. ASSUME NEW r \in Loggers, LoggerNext(r)
      PROVE  Grants'
  <2> DEFINE c == call[r]
  <2>a. /\ c.part \in Mask /\ c.mask \in Mask /\ c.context \in Contexts
        /\ word.mask \subseteq Cached
        /\ pc[r] \in CacheSteps => Bounded(c.part) /\ Bounded(c.mask)
        /\ \A a \in c.expired :
              (c.part \cup c.mask) \cap ActivationGroups[a] \subseteq GroupsBesides(a)
    BY DEF TypeOK, CallRecord, Grants
  <2>1. ASSUME NEW context \in Contexts, Begin(r, context)
        PROVE  Grants'
    <3> DEFINE rec == [gen |-> generation, part |-> {}, mask |-> {}, deadline |-> 0,
                       context |-> context, quiet |-> \A w \in Admins : pc[w] # "bump",
                       expired |-> {a \in Activations \cap begun : due[a] <= now}]
    <3>1. /\ call' = [call EXCEPT ![r] = rec] /\ pc' = [pc EXCEPT ![r] = "cacheGen"]
          /\ UNCHANGED <<baseline, word>>
      BY <2>1 DEF Begin, Goto, config, cacheVars
    <3>2. rec.part = {} /\ rec.mask = {}
      OBVIOUS
    <3> HIDE DEF rec
    <3> QED  BY <3>1, <3>2, <2>a, <1>d
  <2>2. CASE LoadCacheGen(r) \/ PruneBump(r) \/ CtxBump(r)
    <3>1. /\ call' = [call EXCEPT ![r] = c]
          /\ UNCHANGED <<baseline, word>>
          /\ \/ pc[r] \in CacheSteps /\ \E step \in CacheSteps : Goto(r, step)
             \/ Goto(r, "ctxSinks")
      BY <2>2 DEF LoadCacheGen, PruneBump, CtxBump, config, cacheVars, TypeOK, CacheSteps, Goto
    <3>2. CASE pc[r] \in CacheSteps /\ \E step \in CacheSteps : Goto(r, step)
      BY <2>a, <3>1, <3>2, <1>d DEF Goto
    <3>3. CASE Goto(r, "ctxSinks")
      BY <2>a, <3>1, <3>3, <1>d DEF Goto, CacheSteps
    <3> QED  BY <3>1, <3>2, <3>3
  <2>3. CASE LoadCacheWord(r) \/ StoreWord(r) \/ StoreGen(r) \/ PruneCheck(r) \/ Prune(r)
             \/ LoadBaseline(r) \/ Union(r) \/ CtxNow(r)
    <3>1. InterestIn(c.part) \in SUBSET Cached \/ pc[r] # "union"
      BY <2>a, GroupSources DEF CacheSteps
    <3>2. pc[r] \in CacheSteps
      BY <2>3 DEF LoadCacheWord, StoreWord, StoreGen, PruneCheck, Prune, LoadBaseline,
                  Union, CtxNow, CacheSteps
    <3>3. \E step \in CacheSteps : pc' = [pc EXCEPT ![r] = step]
      BY <2>3 DEF LoadCacheWord, StoreWord, StoreGen, PruneCheck, Prune, LoadBaseline,
                  Union, CtxNow, CacheSteps, Goto
    <3>4. /\ UNCHANGED baseline
          /\ word'.mask \in {word.mask, c.mask}
      BY <2>3 DEF LoadCacheWord, StoreWord, StoreGen, PruneCheck, Prune, LoadBaseline,
                  Union, CtxNow, config, cacheVars
    <3>5. \E rec : /\ call' = [call EXCEPT ![r] = rec]
                   /\ rec.part \in {c.part, baseline, {}}
                   /\ \/ rec.mask \in {c.mask, word.mask}
                      \/ pc[r] = "union" /\ rec.mask = InterestIn(c.part)
                   /\ rec.expired = c.expired
      <4>1. call' = [call EXCEPT ![r] = call'[r]]
        BY <2>3 DEF LoadCacheWord, StoreWord, StoreGen, PruneCheck, Prune, LoadBaseline,
                    Union, CtxNow, TypeOK
      <4>2. /\ call'[r].part \in {c.part, baseline, {}}
            /\ call'[r].expired = c.expired
            /\ \/ call'[r].mask \in {c.mask, word.mask}
               \/ pc[r] = "union" /\ call'[r].mask = InterestIn(c.part)
        BY <2>3 DEF LoadCacheWord, StoreWord, StoreGen, PruneCheck, Prune, LoadBaseline,
                    Union, CtxNow, TypeOK, CallRecord
      <4> QED  BY <4>1, <4>2
    <3>6. PICK rec : /\ call' = [call EXCEPT ![r] = rec]
                     /\ Bounded(rec.part) /\ Bounded(rec.mask)
                     /\ rec.expired = c.expired
      BY <3>1, <3>2, <3>5, <2>a, <1>c
    <3>7. Spares(r, rec.part \cup rec.mask)
      BY <3>6, <1>a
    <3> QED  BY <3>2, <3>3, <3>4, <3>6, <3>7, <2>a, <1>d
  <2>4. CASE Refine(r)
    <3>1. CASE CONTEXTUAL \in c.mask
      <4> DEFINE rec == [c EXCEPT !.part = baseline, !.mask = {}]
      <4>1. /\ call' = [call EXCEPT ![r] = rec] /\ pc' = [pc EXCEPT ![r] = "ctxNow"]
            /\ UNCHANGED <<baseline, word>>
        BY <2>4, <3>1 DEF Refine, Goto, config, cacheVars, TypeOK, CallRecord
      <4>2. rec.part = baseline /\ rec.mask = {} /\ rec.expired = c.expired
        BY DEF TypeOK, CallRecord
      <4>3. Spares(r, rec.part \cup rec.mask)
        BY <4>2, <1>a, <1>c
      <4> QED  BY <4>1, <4>2, <4>3, <1>c, <2>a, <1>d
    <3>2. CASE CONTEXTUAL \notin c.mask
      <4> DEFINE rec == [c EXCEPT !.mask = c.mask, !.part = {}]
      <4>1. /\ call' = [call EXCEPT ![r] = rec] /\ pc' = [pc EXCEPT ![r] = "idle"]
            /\ UNCHANGED <<baseline, word>>
        BY <2>4, <3>2 DEF Refine, Return, Goto, config, cacheVars, TypeOK, CallRecord
      <4>2. rec.part = {} /\ rec.mask = c.mask /\ rec.expired = c.expired
        BY DEF TypeOK, CallRecord
      <4> QED  BY <4>1, <4>2, <2>a, <1>d DEF CacheSteps
    <3> QED  BY <3>1, <3>2
  <2>5. CASE CtxActivations(r)
    <3> DEFINE granted == GrantedBy(live', c.context)
               rec == [c EXCEPT !.part = c.part \cup granted, !.deadline = 0]
    <3>1. live' = Retained(c.deadline) /\ live' \in SUBSET Activations
      BY <2>5 DEF CtxActivations, Retained, TypeOK
    <3>2. \A a \in c.expired : a \notin live'
      BY <2>5, <3>1 DEF CtxActivations, Retained, Deadlines, TypeOK, CallRecord
    <3>3. \A a \in c.expired : granted \subseteq GroupsBesides(a)
      BY <3>1, <3>2, <2>a, <1>b, GroupSources
    <3>4. /\ call' = [call EXCEPT ![r] = rec]
          /\ pc' = [pc EXCEPT ![r] = "ctxBump"] \/ pc' = [pc EXCEPT ![r] = "ctxSinks"]
          /\ UNCHANGED <<baseline, word>>
      BY <2>5 DEF CtxActivations, Goto, cacheVars, TypeOK, CallRecord
    <3>5. rec.part = c.part \cup granted /\ rec.mask = c.mask /\ rec.expired = c.expired
      BY DEF TypeOK, CallRecord
    <3>6. \A a \in rec.expired :
             (rec.part \cup rec.mask) \cap ActivationGroups[a] \subseteq GroupsBesides(a)
      BY <3>3, <3>5, <2>a
    <3> HIDE DEF rec, granted
    <3> QED  BY <3>4, <3>6, <2>a, <1>d DEF CacheSteps
  <2>6. CASE CtxSinks(r)
    <3> DEFINE given == GivenBy({s \in sinks : c.context \in SinkContexts[s]})
               rec == [c EXCEPT !.mask = c.part \cup given, !.part = {}]
    <3>1. given \in SUBSET Cached
      BY GroupSources DEF TypeOK
    <3>2. /\ call' = [call EXCEPT ![r] = rec] /\ pc' = [pc EXCEPT ![r] = "idle"]
          /\ UNCHANGED <<baseline, word>>
      BY <2>6 DEF CtxSinks, Return, Goto, config, cacheVars, TypeOK, CallRecord
    <3>3. rec.part = {} /\ rec.mask = c.part \cup given /\ rec.expired = c.expired
      BY DEF TypeOK, CallRecord
    <3>4. Spares(r, given)
      BY <3>1, <1>a
    <3>5. \A a \in rec.expired :
             (rec.part \cup rec.mask) \cap ActivationGroups[a] \subseteq GroupsBesides(a)
      BY <3>3, <3>4, <2>a
    <3> HIDE DEF rec, given
    <3> QED  BY <3>2, <3>5, <2>a, <1>d DEF CacheSteps
  <2> QED
    BY <1>1, <2>1, <2>2, <2>3, <2>4, <2>5, <2>6 DEF LoggerNext
<1>e. ASSUME UNCHANGED word, baseline' \subseteq Unlimited,
             \A r \in Loggers : /\ call'[r].part = call[r].part
                                /\ call'[r].mask = call[r].mask
                                /\ call'[r].expired = call[r].expired
                                /\ pc'[r] = pc[r]
      PROVE  Grants'
  BY <1>e DEF Grants
<1>2. ASSUME NEW w \in Admins, AdminNext(w)
      PROVE  Grants'
  <2>1. UNCHANGED word
    BY <1>2 DEF AdminNext, SetInterest, AddSink, RemoveSink, ActivateCheck,
                ActivatePush, Bump, cacheVars
  <2>2. \A r \in Loggers : pc'[r] = pc[r]
    BY <1>2, ThreadAssumption DEF AdminNext, SetInterest, AddSink, RemoveSink,
                ActivateCheck, ActivatePush, Bump, Goto, TypeOK, Threads
  <2>3. UNCHANGED call \/ Disturb
    BY <1>2 DEF AdminNext, SetInterest, AddSink, RemoveSink, ActivateCheck,
                ActivatePush, Bump
  <2>4. \A r \in Loggers : /\ call'[r].part = call[r].part
                           /\ call'[r].mask = call[r].mask
                           /\ call'[r].expired = call[r].expired
    BY <2>3 DEF Disturb, TypeOK, CallRecord
  <2>5. baseline' \subseteq Unlimited
    <3>1. ASSUME NEW mask \in Baselines, SetInterest(w, mask)
          PROVE  baseline' \subseteq Unlimited
      BY <3>1 DEF SetInterest, WithoutContextual, Unlimited
    <3>2. CASE UNCHANGED baseline
      BY <3>2 DEF Grants
    <3> QED
      BY <1>2, <3>1, <3>2 DEF AdminNext, AddSink, RemoveSink, ActivateCheck,
                              ActivatePush, Bump, config
  <2> QED  BY <2>1, <2>2, <2>4, <2>5, <1>e
<1>3. CASE Tick
  <2>1. \A r \in Loggers : /\ call'[r].part = call[r].part
                           /\ call'[r].mask = call[r].mask
                           /\ call'[r].expired = call[r].expired
    BY <1>3 DEF Tick, Disturb, TypeOK, CallRecord
  <2> QED  BY <1>3, <2>1, <1>e DEF Tick, config, cacheVars, Grants
<1>4. CASE UNCHANGED vars
  BY <1>4, <1>e DEF vars, config, cacheVars, Grants
<1> QED  BY <1>1, <1>2, <1>3, <1>4 DEF Next

\* What every step of a log call leaves alone: others' locals, the clock and
\* the configuration, up to activations that have expired.
LEMMA LoggerStep ==
    ASSUME TypeOK, Deadlines, NEW q \in Loggers, LoggerNext(q)
    PROVE  /\ UNCHANGED <<now, baseline, sinks, due>>
           /\ live' \subseteq live /\ Unexpired' = Unexpired
           /\ \A t \in Threads \ {q} : pc'[t] = pc[t]
           /\ \A r \in Loggers \ {q} : call'[r] = call[r]
<1> USE DEF TypeOK, CallRecord, Deadlines, config, cacheVars, activationVars, Goto, Threads
<1>1. ASSUME NEW context \in Contexts, Begin(q, context)
      PROVE  /\ UNCHANGED <<now, config, due>>
             /\ \A t \in Threads \ {q} : pc'[t] = pc[t]
             /\ \A r \in Loggers \ {q} : call'[r] = call[r]
  BY <1>1 DEF Begin
<1>2. CASE LoadCacheGen(q) \/ LoadCacheWord(q) \/ StoreWord(q) \/ StoreGen(q)
           \/ PruneCheck(q) \/ PruneBump(q) \/ LoadBaseline(q) \/ Union(q)
           \/ Refine(q) \/ CtxNow(q) \/ CtxBump(q) \/ CtxSinks(q)
  <2>1. /\ UNCHANGED <<now, config, due>>
        /\ \A t \in Threads \ {q} : pc'[t] = pc[t]
        /\ \A r \in Loggers \ {q} : call'[r] = call[r]
    BY <1>2 DEF LoadCacheGen, LoadCacheWord, StoreWord, StoreGen, PruneCheck, PruneBump,
                LoadBaseline, Union, Refine, Return, CtxNow, CtxBump, CtxSinks
  <2> QED  BY <2>1 DEF Unexpired
<1>3. CASE Prune(q) \/ CtxActivations(q)
  <2>1. live' = Retained(call[q].deadline) /\ UNCHANGED <<now, baseline, sinks, due>>
    BY <1>3 DEF Prune, CtxActivations
  <2>2. Unexpired' = Unexpired
    BY <2>1 DEF Unexpired, Retained
  <2>3. /\ \A t \in Threads \ {q} : pc'[t] = pc[t]
        /\ \A r \in Loggers \ {q} : call'[r] = call[r]
    BY <1>3 DEF Prune, CtxActivations
  <2> QED  BY <2>1, <2>2, <2>3 DEF Retained
<1> QED
  BY <1>1, <1>2, <1>3 DEF LoggerNext, Unexpired

\* Pruning leaves a fresh mask fresh.
LEMMA FreshKept ==
    ASSUME UNCHANGED <<baseline, sinks>>, live' \subseteq live
    PROVE  \A mask : Fresh(mask) => Fresh(mask)'
BY DEF Fresh, GivenBy

\* The mask of the configuration as it stands is fresh.
LEMMA EvalIsFresh == Fresh(InterestIn(baseline))
<1> SUFFICES ASSUME CONTEXTUAL \notin InterestIn(baseline)
             PROVE  /\ InterestIn(baseline) = baseline \cup GivenBy(sinks)
                    /\ sinks \cap Scoped = {}
                    /\ live = {}
  BY DEF Fresh
<1>1. live = {}
  BY DEF InterestIn, UnionOf
<1>2. \A s \in sinks : CONTEXTUAL \notin SinkAsks(s)
  BY DEF InterestIn, UnionOf
<1>3. \A s \in sinks : s \notin Scoped /\ SinkAsks(s) = SinkGroups[s]
  BY <1>2 DEF SinkAsks
<1> QED  BY <1>1, <1>3 DEF InterestIn, UnionOf, GivenBy

\* A call that misses computes from the configuration as it stands.
LEMMA FreshSinceStep ==
    ASSUME TypeOK, Deadlines, NEW q \in Loggers, LoggerNext(q), NEW gen \in Nat,
           FreshSince(gen)
    PROVE  FreshSince(gen)'
<1>1. /\ UNCHANGED <<baseline, sinks>> /\ live' \subseteq live
      /\ \A r \in Loggers \ {q} : call'[r] = call[r] /\ pc'[r] = pc[r]
  BY LoggerStep DEF Threads
<1>2. \A mask : Fresh(mask) => Fresh(mask)'
  BY <1>1, FreshKept
<1>3. \/ word' = word
      \/ pc[q] = "storeWord" /\ word'.at = call[q].gen /\ word'.mask = call[q].mask
  BY DEF LoggerNext, Begin, LoadCacheGen, LoadCacheWord, StoreWord, StoreGen, PruneCheck,
         Prune, PruneBump, LoadBaseline, Union, Refine, CtxNow, CtxActivations, CtxBump,
         CtxSinks, cacheVars
<1>4. pc'[q] = "union" => call'[q].part = baseline'
  BY <1>1 DEF LoggerNext, Begin, LoadCacheGen, LoadCacheWord, StoreWord, StoreGen, PruneCheck,
         Prune, PruneBump, LoadBaseline, Union, Refine, CtxNow, CtxActivations, CtxBump,
         CtxSinks, Return, Goto, TypeOK, CallRecord, Threads
<1>5. pc'[q] = "storeWord" =>
         /\ pc[q] = "union" /\ call'[q].gen = call[q].gen
         /\ call'[q].mask = InterestIn(call[q].part)
  BY DEF LoggerNext, Begin, LoadCacheGen, LoadCacheWord, StoreWord, StoreGen, PruneCheck,
         Prune, PruneBump, LoadBaseline, Union, Refine, CtxNow, CtxActivations, CtxBump,
         CtxSinks, Return, Goto, TypeOK, CallRecord, Threads
<1>6. pc'[q] = "storeWord" /\ call'[q].gen >= gen => Fresh(call'[q].mask)
  BY <1>5, EvalIsFresh DEF FreshSince
<1>7. word'.at >= gen => Fresh(word'.mask)
  BY <1>3 DEF FreshSince
<1> HIDE DEF Fresh
<1> QED  BY <1>1, <1>2, <1>4, <1>6, <1>7 DEF FreshSince

\* No step of another thread's log call spoils what call r holds.
LEMMA OthersStep ==
    ASSUME TypeOK, Deadlines, NEW q \in Loggers, LoggerNext(q),
           NEW r \in Loggers \ {q}, Exact(r)
    PROVE  Exact(r)'
<1>1. /\ UNCHANGED <<now, baseline, sinks, due>>
      /\ live' \subseteq live /\ Unexpired' = Unexpired
      /\ call'[r] = call[r] /\ pc'[r] = pc[r]
  BY LoggerStep DEF Threads
<1>2. Fresh(call[r].mask) => Fresh(call[r].mask)'
  <2>1. \A mask : Fresh(mask) => Fresh(mask)'
    BY <1>1, FreshKept
  <2> QED  BY <1>1, <2>1 DEF Fresh
<1>3. FreshSince(call[r].gen) => FreshSince(call[r].gen)'
  <2>1. \A gen \in Nat : FreshSince(gen) => FreshSince(gen)'
    BY FreshSinceStep
  <2>2. call[r].gen \in Nat
    BY DEF TypeOK, CallRecord
  <2> QED  BY <1>1, <2>1, <2>2 DEF FreshSince
<1>4. GrantedBy(Unexpired, call[r].context)' = GrantedBy(Unexpired, call[r].context)
  BY <1>1 DEF GrantedBy
<1>5. EvalIn(call[r].context)' = EvalIn(call[r].context)
  BY <1>1, <1>4 DEF EvalIn, Unexpired, GivenBy
<1> QED  BY <1>1, <1>2, <1>3, <1>4, <1>5 DEF Exact

\* A word that a call accepts and that is not TagModulus generations old was
\* stored for the call's generation or a later one.
LEMMA AcceptedIsRecent ==
    ASSUME TypeOK, Provenance, NEW r \in Loggers, word.at # -1,
           TagMatches(call[r].gen), ~Collides
    PROVE  word.at >= call[r].gen
<1>1. word.at \in Nat /\ call[r].gen \in Nat /\ generation \in Nat
  BY DEF TypeOK, CallRecord
<1>2. word.at <= generation /\ call[r].gen <= generation
      /\ Tag(word.at) = Tag(call[r].gen)
  BY DEF Provenance, TagMatches
<1>3. generation < word.at + TagModulus
  BY <1>1, NumberAssumption DEF Collides
<1>4. word.at < call[r].gen => word.at = call[r].gen
  BY <1>1, <1>2, <1>3, TagIsExact, NumberAssumption
<1> QED  BY <1>1, <1>4

\* Nobody filters on a context, so every context gets every sink.
LEMMA UncontextualIsExact ==
    ASSUME TypeOK, NEW mask, Fresh(mask), CONTEXTUAL \notin mask, NEW c \in Contexts
    PROVE  mask = EvalIn(c)
<1>1. \A s \in sinks : c \in SinkContexts[s]
  BY FilterAssumption DEF Fresh, TypeOK
<1>2. GrantedBy({a \in live : due[a] > now}, c) = {}
  BY DEF Fresh, GrantedBy
<1> QED  BY <1>1, <1>2 DEF Fresh, EvalIn

\* Up to the mask, a call keeps the generation it loaded.
LEMMA KeyKept ==
    ASSUME TypeOK, NEW r \in Loggers,
           \/ LoadCacheGen(r) \/ PruneCheck(r) \/ Prune(r) \/ PruneBump(r)
           \/ LoadBaseline(r) \/ Union(r)
           \/ LoadCacheWord(r) /\ ~TagMatches(call[r].gen)
    PROVE  call'[r].gen = call[r].gen /\ call'[r].quiet = call[r].quiet
BY DEF TypeOK, CallRecord, LoadCacheGen, PruneCheck, Prune, PruneBump, LoadBaseline, Union,
       LoadCacheWord

\* Each step of a call that nothing disturbs carries what the next one needs.
LEMMA OwnStep ==
    ASSUME TypeOK, Deadlines, Provenance, Exactness,
           NEW r \in Loggers, LoggerNext(r), call'[r].quiet
    PROVE  Exact(r)'
<1> DEFINE c == call[r]
<1>a. /\ UNCHANGED <<now, baseline, sinks, due>>
      /\ live' \subseteq live /\ Unexpired' = Unexpired
  BY LoggerStep
<1>b. /\ c.gen \in Nat /\ generation \in Nat /\ c.context \in Contexts
      /\ r \in Threads
  BY DEF TypeOK, CallRecord, Threads
<1>c. \A gen \in Nat : FreshSince(gen) => FreshSince(gen)'
  BY FreshSinceStep
<1>d. \A mask : Fresh(mask) => Fresh(mask)'
  BY <1>a, FreshKept
<1> USE DEF TypeOK, CallRecord, Threads, Goto
<1>1. ASSUME NEW context \in Contexts, Begin(r, context)
      PROVE  Exact(r)'
  <2>1. pc'[r] = "cacheGen" /\ call'[r].gen = generation /\ AdminsDone
    BY <1>1 DEF Begin, AdminsDone
  <2>2. FreshSince(generation)'
    <3>1. FreshSince(generation)
      BY <2>1 DEF Exactness
    <3>2. generation' = generation
      BY <1>1 DEF Begin
    <3> QED  BY <1>b, <1>c, <3>1, <3>2 DEF FreshSince
  <2>3. FreshSince(call[r].gen)'
    <3>1. generation' = generation
      BY <1>1 DEF Begin
    <3> QED  BY <2>1, <2>2, <3>1 DEF FreshSince
  <2> QED  BY <2>1, <2>3 DEF Exact, KeyedSteps
<1>2. CASE \/ LoadCacheGen(r) \/ PruneCheck(r) \/ Prune(r) \/ PruneBump(r)
           \/ LoadBaseline(r) \/ Union(r)
           \/ LoadCacheWord(r) /\ ~TagMatches(c.gen)
  <2>1. pc[r] \in KeyedSteps /\ pc'[r] \in KeyedSteps
    BY <1>2 DEF LoadCacheGen, PruneCheck, Prune, PruneBump, LoadBaseline, Union,
                LoadCacheWord, KeyedSteps
  <2>2. call'[r].gen = c.gen /\ call'[r].quiet = c.quiet
    BY <1>2, KeyKept
  <2>3. FreshSince(c.gen)'
    BY <2>1, <2>2, <1>b, <1>c DEF Exactness, Exact
  <2>4. FreshSince(call[r].gen)'
    BY <2>2, <2>3 DEF FreshSince
  <2> QED  BY <2>1, <2>4 DEF Exact, KeyedSteps
<1>3. CASE LoadCacheWord(r) /\ TagMatches(c.gen)
  <2>1. /\ pc[r] = "cacheWord" /\ pc'[r] = "refine" /\ call'[r].mask = word.mask
        /\ c.quiet /\ ~Collides
    BY <1>3 DEF LoadCacheWord
  <2>2. word.at >= c.gen
    BY <1>3, <2>1, AcceptedIsRecent DEF Exactness
  <2>3. Fresh(word.mask)
    BY <2>1, <2>2 DEF Exactness, Exact, KeyedSteps, FreshSince
  <2>4. Fresh(call[r].mask)'
    BY <2>1, <2>3, <1>d DEF Fresh
  <2> QED  BY <2>1, <2>4 DEF Exact, KeyedSteps
<1>4. CASE StoreWord(r) \/ StoreGen(r)
  <2>1. /\ pc[r] \in {"storeWord", "storeGen"} /\ pc'[r] \in {"storeGen", "refine"}
        /\ call'[r].mask = c.mask /\ c.quiet
    BY <1>4 DEF StoreWord, StoreGen
  <2>2. Fresh(c.mask)
    BY <2>1, <1>b DEF Exactness, Exact, KeyedSteps, FreshSince
  <2>3. Fresh(call[r].mask)'
    BY <2>1, <2>2, <1>d DEF Fresh
  <2> QED  BY <2>1, <2>3 DEF Exact, KeyedSteps
<1>5. CASE Refine(r)
  <2>1. c.quiet /\ Fresh(c.mask)
    BY <1>5 DEF Refine, Return, Exactness, Exact
  <2>2. CASE CONTEXTUAL \in c.mask
    <3>1. pc'[r] = "ctxNow" /\ call'[r].part = baseline
      BY <1>5, <2>2 DEF Refine
    <3> QED  BY <3>1, <1>a DEF Exact, KeyedSteps
  <2>3. CASE CONTEXTUAL \notin c.mask
    <3>1. pc'[r] = "idle" /\ call'[r].mask = c.mask /\ call'[r].context = c.context
      BY <1>5, <2>3 DEF Refine, Return
    <3>2. c.mask = EvalIn(c.context)
      BY <2>1, <2>3, <1>b, UncontextualIsExact
    <3>3. EvalIn(c.context)' = EvalIn(c.context)
      BY <3>1, <1>a DEF EvalIn, Unexpired, GivenBy, GrantedBy
    <3> QED  BY <3>1, <3>2, <3>3 DEF Exact, KeyedSteps
  <2> QED  BY <2>2, <2>3
<1>6. CASE CtxNow(r)
  <2>1. /\ pc[r] = "ctxNow" /\ pc'[r] = "ctxActivations" /\ c.quiet
        /\ call'[r].part = c.part /\ call'[r].deadline = now
    BY <1>6 DEF CtxNow
  <2> QED  BY <2>1, <1>a DEF Exactness, Exact, KeyedSteps
<1>7. CASE CtxActivations(r)
  <2>1. /\ pc[r] = "ctxActivations" /\ pc'[r] \in {"ctxBump", "ctxSinks"} /\ c.quiet
        /\ call'[r].part = c.part \cup GrantedBy(live', c.context)
        /\ call'[r].context = c.context
        /\ live' = Retained(c.deadline)
    BY <1>7 DEF CtxActivations
  <2>2. c.part = baseline /\ c.deadline = now
    BY <2>1 DEF Exactness, Exact
  <2>3. live' = Unexpired
    BY <2>1, <2>2 DEF Retained, Unexpired
  <2>4. call'[r].part = baseline \cup GrantedBy(Unexpired, c.context)
    BY <2>1, <2>2, <2>3
  <2>5. (baseline \cup GrantedBy(Unexpired, call[r].context))'
           = baseline \cup GrantedBy(Unexpired, c.context)
    BY <2>1, <1>a DEF GrantedBy
  <2> QED  BY <2>1, <2>4, <2>5 DEF Exact, KeyedSteps
<1>8. CASE CtxBump(r)
  <2>1. /\ pc[r] = "ctxBump" /\ pc'[r] = "ctxSinks" /\ call' = call
    BY <1>8 DEF CtxBump
  <2>2. (baseline \cup GrantedBy(Unexpired, call[r].context))'
           = baseline \cup GrantedBy(Unexpired, c.context)
    BY <2>1, <1>a DEF GrantedBy
  <2> QED  BY <2>1, <2>2 DEF Exactness, Exact, KeyedSteps
<1>9. CASE CtxSinks(r)
  <2>1. /\ pc[r] = "ctxSinks" /\ pc'[r] = "idle" /\ c.quiet
        /\ call'[r].context = c.context
        /\ call'[r].mask = c.part \cup GivenBy({s \in sinks : c.context \in SinkContexts[s]})
    BY <1>9 DEF CtxSinks, Return
  <2>2. call'[r].mask = EvalIn(c.context)
    BY <2>1 DEF Exactness, Exact, EvalIn, Unexpired
  <2>3. EvalIn(call[r].context)' = EvalIn(c.context)
    BY <2>1, <1>a DEF EvalIn, Unexpired, GivenBy, GrantedBy
  <2> QED  BY <2>1, <2>2, <2>3 DEF Exact, KeyedSteps
<1> QED
  BY <1>1, <1>2, <1>3, <1>4, <1>5, <1>6, <1>7, <1>8, <1>9 DEF LoggerNext

\* A configuration call and the clock disturb every call in progress and every
\* answer; the other steps of an administrator leave them as they are.
LEMMA ExactnessNext ==
    ASSUME TypeOK, Deadlines, Provenance, Exactness, [Next]_vars
    PROVE  Exactness'
\* While the generation moves on, nothing is of the new one yet.
<1>a. ASSUME generation' = generation + 1, UNCHANGED word,
             \A r \in Loggers : call'[r].gen = call[r].gen
      PROVE  FreshSince(generation)'
  BY <1>a DEF FreshSince, Provenance, TypeOK, CallRecord
\* A step that touches neither the call site nor the configuration.
<1>b. ASSUME UNCHANGED <<generation, baseline, sinks, live, word>>,
             \A r \in Loggers : /\ pc'[r] = pc[r]
                                /\ call'[r].gen = call[r].gen
                                /\ call'[r].part = call[r].part
                                /\ call'[r].mask = call[r].mask
      PROVE  /\ \A mask : Fresh(mask) => Fresh(mask)'
             /\ \A gen \in Nat : FreshSince(gen) => FreshSince(gen)'
             /\ FreshSince(generation) => FreshSince(generation)'
  <2>1. \A mask : Fresh(mask) => Fresh(mask)'
    BY <1>b, FreshKept
  <2>2. \A mask : Fresh(mask)' <=> Fresh(mask)
    BY <1>b DEF Fresh, GivenBy
  <2> QED  BY <1>b, <2>1, <2>2 DEF FreshSince
<1>1. ASSUME NEW q \in Loggers, LoggerNext(q)
      PROVE  Exactness'
  <2>a. AdminsDone' <=> AdminsDone
    BY <1>1, LoggerStep, ThreadAssumption DEF AdminsDone, Threads
  <2>1. AdminsDone' => FreshSince(generation)'
    <3>1. CASE PruneBump(q) \/ CtxBump(q)
      BY <3>1, <1>a DEF PruneBump, CtxBump, AdvanceGeneration, cacheVars
    <3>2. CASE UNCHANGED generation
      <4>1. \A gen \in Nat : FreshSince(gen) => FreshSince(gen)'
        BY <1>1, FreshSinceStep
      <4> QED  BY <2>a, <3>2, <4>1 DEF Exactness, FreshSince, TypeOK
    <3> QED
      BY <1>1, <3>1, <3>2 DEF LoggerNext, Begin, LoadCacheGen, LoadCacheWord, StoreWord,
         StoreGen, PruneCheck, Prune, LoadBaseline, Union, Refine, CtxNow, CtxActivations,
         CtxSinks
  <2>2. ASSUME NEW r \in Loggers, pc'[r] = "cacheWord"
        PROVE  word'.at # -1
    <3>1. word' = word \/ word'.at = call[q].gen
      BY <1>1 DEF LoggerNext, Begin, LoadCacheGen, LoadCacheWord, StoreWord, StoreGen,
         PruneCheck, Prune, PruneBump, LoadBaseline, Union, Refine, CtxNow, CtxActivations,
         CtxBump, CtxSinks, cacheVars
    <3>2. \/ pc[r] = "cacheWord"
          \/ r = q /\ LoadCacheGen(q) /\ cacheGen = call[q].gen
      <4>1. CASE r # q
        BY <1>1, <2>2, <4>1, LoggerStep DEF Threads
      <4>2. CASE r = q
        BY <1>1, <2>2, <4>2 DEF LoggerNext, Begin, LoadCacheGen, LoadCacheWord, StoreWord,
           StoreGen, PruneCheck, Prune, PruneBump, LoadBaseline, Union, Refine, Return,
           CtxNow, CtxActivations, CtxBump, CtxSinks, Goto, TypeOK, Threads
      <4> QED  BY <4>1, <4>2
    <3>3. call[q].gen \in Nat
      BY DEF TypeOK, CallRecord
    <3>4. word.at # -1
      BY <3>2, <3>3, NumberAssumption DEF Exactness, Provenance
    <3> QED  BY <3>1, <3>3, <3>4
  <2>3. ASSUME NEW r \in Loggers, call'[r].quiet
        PROVE  Exact(r)'
    <3>1. CASE r = q
      BY <1>1, <2>3, <3>1, OwnStep
    <3>2. CASE r # q
      <4>1. call'[r] = call[r]
        BY <1>1, <3>2, LoggerStep
      <4>2. Exact(r)
        BY <2>3, <4>1 DEF Exactness
      <4> QED  BY <1>1, <3>2, <4>2, OthersStep
    <3> QED  BY <3>1, <3>2
  <2> QED  BY <2>1, <2>2, <2>3 DEF Exactness
<1>2. ASSUME NEW w \in Admins, AdminNext(w)
      PROVE  Exactness'
  <2>a. w \in Threads /\ w \notin Loggers /\ \A r \in Loggers : r \in Threads /\ r # w
    BY ThreadAssumption DEF Threads
  <2>b. \A r \in Loggers : pc'[r] = pc[r]
    BY <1>2, <2>a DEF AdminNext, SetInterest, AddSink, RemoveSink, ActivateCheck,
                      ActivatePush, Bump, Goto, TypeOK
  <2>c. UNCHANGED word
    BY <1>2 DEF AdminNext, SetInterest, AddSink, RemoveSink, ActivateCheck,
                ActivatePush, Bump, cacheVars
  <2>d. \A r \in Loggers : pc'[r] = "cacheWord" => word'.at # -1
    BY <2>b, <2>c DEF Exactness
  <2>1. CASE \/ \E mask \in Baselines : SetInterest(w, mask)
             \/ \E s \in Sinks : AddSink(w, s) \/ RemoveSink(w, s)
             \/ ActivatePush(w)
    <3>1. ~AdminsDone'
      <4>1. pc'[w] = "bump"
        BY <2>1, <2>a DEF SetInterest, AddSink, RemoveSink, AfterRemoval, ActivatePush,
                          Goto, TypeOK
      <4> QED  BY <4>1 DEF AdminsDone
    <3>2. \A r \in Loggers : ~call'[r].quiet
      BY <2>1 DEF SetInterest, AddSink, RemoveSink, ActivatePush, Disturb, TypeOK, CallRecord
    <3> QED  BY <3>1, <3>2, <2>d DEF Exactness
  <2>2. CASE Bump(w)
    <3>1. FreshSince(generation)'
      BY <2>2, <1>a DEF Bump, AdvanceGeneration, cacheVars
    <3>2. ASSUME NEW r \in Loggers, call'[r].quiet
          PROVE  Exact(r)'
      <4>1. UNCHANGED <<now, baseline, sinks, live, due, word, call>>
        BY <2>2 DEF Bump, config, cacheVars, activationVars
      <4>2. Exact(r)
        BY <3>2, <4>1 DEF Exactness
      <4> QED
        BY <4>1, <4>2, <2>b DEF Exact, FreshSince, Fresh, GivenBy, EvalIn, GrantedBy, Unexpired
    <3> QED  BY <3>1, <3>2, <2>d DEF Exactness
  <2>3. ASSUME NEW a \in Activations, ActivateCheck(w, a)
        PROVE  Exactness'
    <3>1. UNCHANGED <<now, generation, baseline, sinks, live, word, call>>
      BY <2>3 DEF ActivateCheck, config, cacheVars
    <3>2. AdminsDone' <=> AdminsDone
      BY <2>3, <2>a DEF ActivateCheck, AdminsDone, Goto, TypeOK, Threads
    <3>3. \A b \in live : due'[b] = due[b]
      BY <2>3 DEF ActivateCheck, Deadlines, TypeOK
    <3>4. Unexpired' = Unexpired
      BY <3>1, <3>3 DEF Unexpired
    <3>5. ASSUME NEW r \in Loggers, call'[r].quiet
          PROVE  Exact(r)'
      <4>1. Exact(r)
        BY <3>1, <3>5 DEF Exactness
      <4>2. EvalIn(call[r].context)' = EvalIn(call[r].context)
        BY <3>1, <3>4 DEF EvalIn, Unexpired, GrantedBy, GivenBy
      <4>3. GrantedBy(Unexpired, call[r].context)' = GrantedBy(Unexpired, call[r].context)
        BY <3>1, <3>4 DEF GrantedBy
      <4> QED
        BY <3>1, <4>1, <4>2, <4>3, <2>b DEF Exact, FreshSince, Fresh, GivenBy
    <3>6. AdminsDone' => FreshSince(generation)'
      BY <3>1, <3>2, <2>b, <1>b DEF Exactness
    <3> QED  BY <3>5, <3>6, <2>d DEF Exactness
  <2> QED  BY <1>2, <2>1, <2>2, <2>3 DEF AdminNext
<1>3. CASE Tick
  <2>1. UNCHANGED <<generation, baseline, sinks, live, word, pc>>
    BY <1>3 DEF Tick, config, cacheVars
  <2>2. \A r \in Loggers : /\ ~call'[r].quiet
                           /\ call'[r].gen = call[r].gen
                           /\ call'[r].part = call[r].part
                           /\ call'[r].mask = call[r].mask
    BY <1>3 DEF Tick, Disturb, TypeOK, CallRecord
  <2>3. AdminsDone' => FreshSince(generation)'
    BY <2>1, <2>2, <1>b DEF Exactness, AdminsDone
  <2> QED  BY <2>1, <2>2, <2>3 DEF Exactness
<1>4. CASE UNCHANGED vars
  <2>1. UNCHANGED <<now, generation, baseline, sinks, live, due, word, pc, call>>
    BY <1>4 DEF vars, config, cacheVars, activationVars
  <2> QED
    BY <2>1 DEF Exactness, AdminsDone, Exact, FreshSince, Fresh, GivenBy, EvalIn,
                GrantedBy, Unexpired
<1> QED  BY <1>1, <1>2, <1>3, <1>4 DEF Next

CallInv == TypeOK /\ Provenance /\ Deadlines /\ Grants /\ Exactness

\* No configuration, no activation and no answer yet.
LEMMA CallInit == Init => CallInv
<1> SUFFICES ASSUME Init PROVE CallInv
  OBVIOUS
<1>1. TypeOK
  BY TypeInit
<1>2. /\ now = 0 /\ generation = 0 /\ baseline = {} /\ live = {} /\ begun = {}
      /\ \A w \in Admins : pushing[w] = {}
      /\ word.at = -1 /\ word.mask = {} /\ cacheGen = Unpopulated
  BY DEF Init
<1>3. ASSUME NEW r \in Loggers
      PROVE  /\ pc[r] = "idle" /\ call[r].gen = 0 /\ call[r].part = {}
             /\ call[r].mask = {} /\ call[r].deadline = 0 /\ ~call[r].quiet
             /\ call[r].expired = {}
  BY DEF Init, Threads
<1>4. Provenance
  BY <1>2, <1>3 DEF Provenance
<1>5. Deadlines
  BY <1>2, <1>3 DEF Deadlines
<1>6. Grants
  BY <1>2, <1>3 DEF Grants
<1>7. Exactness
  BY <1>2, <1>3 DEF Exactness, FreshSince
<1> QED  BY <1>1, <1>4, <1>5, <1>6, <1>7 DEF CallInv

LEMMA CallNext == CallInv /\ [Next]_vars => CallInv'
BY TypeNext, ProvenanceNext, DeadlinesNext, GrantsNext, ExactnessNext DEF CallInv

\* A log call that starts after a deadline is never asked for what only the
\* expired activation grants, through a hit, a miss or a refinement.
THEOREM DeadlinesAreKept == Spec => []TtlEnforced
<1>1. CallInv => TtlEnforced
  <2> SUFFICES ASSUME CallInv, NEW r \in Loggers, NEW a \in call[r].expired
               PROVE  call[r].mask \cap ActivationGroups[a] \subseteq GroupsBesides(a)
    BY DEF TtlEnforced
  <2> QED  BY DEF CallInv, Grants
<1> QED  BY <1>1, CallInit, CallNext, PTL DEF Spec

\* A log call that no configuration change and no tick overlaps is asked for
\* exactly the groups the configuration selects in its context.
THEOREM AnswersAreExact == Spec => []QuietCallIsExact
<1>1. CallInv => QuietCallIsExact
  BY DEF CallInv, Exactness, Exact, QuietCallIsExact
<1> QED  BY <1>1, CallInit, CallNext, PTL DEF Spec
=============================================================================
