---------------------------- MODULE BridgesProofs ----------------------------
(****************************************************************************)
(* Proofs about Bridges for any installers, threads and spans.              *)
(*                                                                          *)
(* The slot: the process dispatcher, written in two words by whichever      *)
(* installer claimed the slot, implements WriteOnce, whatever the bridges   *)
(* do meanwhile. That readers never meet a torn pointer is not inductive:   *)
(* the invariant says who has claimed the slot (Winner) and how much of the *)
(* pointer that installer has written by the time it says so (Written).     *)
(*                                                                          *)
(* The stacks: while no call is open a thread is under the innermost span   *)
(* it entered. StackInv says what every entry of a guard or of the entered  *)
(* stack restores, and which entries a call that is still open pushed.      *)
(*                                                                          *)
(* The tree: contexts hang below one another as tracing's spans do. TreeInv *)
(* says that a token belongs to one span, that a span's parent was seen     *)
(* before it, and that some rank orders them, along which the lineage is    *)
(* followed by induction.                                                   *)
(****************************************************************************)
EXTENDS Bridges, SequenceTheorems, WellFoundedInduction, TLAPS

Active == {"writing", "written", "ok"}

\* One installer at most gets past the claim, and nobody is refused before.
Winner ==
    /\ \A i, j \in Installers : installing[i] \in Active /\ installing[j] \in Active => i = j
    /\ state = UNINSTALLED => \A i \in Installers : installing[i] = "pending"
    /\ state # UNINSTALLED => \E i \in Installers : installing[i] \in Active

\* What the pointer's words hold: the claimant's dispatcher or nothing yet.
Written ==
    /\ state # UNINSTALLED \/ \A h \in Halves : slot[h] = None
    /\ \A i \in Installers : installing[i] \in Active => \A h \in Halves : slot[h] \in {None, i}
    /\ \A i \in Installers : installing[i] \in {"written", "ok"} => \A h \in Halves : slot[h] = i
    /\ \A i \in Installers : installing[i] = "ok" <=> state = INSTALLED /\ installing[i] \in Active

SlotInv == SlotTypeOK /\ Winner /\ Written

USE DEF Active

-----------------------------------------------------------------------------
(* The inductive invariant *)

LEMMA SlotInvInit == SlotInit => SlotInv
BY DEF SlotInit, SlotInv, SlotTypeOK, Winner, Written, UNINSTALLED, INSTALLING, INSTALLED

\* The claim, the write of each word and the publication, one case each.
LEMMA SlotInvNext ==
    ASSUME SlotInv, [SlotNext]_slotVars
    PROVE  SlotInv'
<1> USE DEF UNINSTALLED, INSTALLING, INSTALLED
<1>1. ASSUME NEW i \in Installers, Claim(i)
      PROVE  SlotInv'
  <2>1. installing' = [installing EXCEPT ![i] = "writing"] /\ state = UNINSTALLED
        /\ state' = INSTALLING /\ slot' = slot
    BY <1>1 DEF Claim, Claimable
  <2>2. \A j \in Installers : installing[j] = "pending"
    BY <2>1 DEF SlotInv, Winner
  <2>3. SlotTypeOK'
    BY <2>1 DEF SlotInv, SlotTypeOK
  <2>4. \A j \in Installers : installing'[j] = IF j = i THEN "writing" ELSE "pending"
    BY <2>1, <2>2 DEF SlotInv, SlotTypeOK
  <2>5. Winner'
    BY <2>1, <2>4 DEF Winner
  <2>6. Written'
    BY <2>1, <2>4 DEF SlotInv, Written
  <2> QED  BY <2>3, <2>5, <2>6 DEF SlotInv
<1>2. ASSUME NEW i \in Installers, Refuse(i)
      PROVE  SlotInv'
  <2>1. installing' = [installing EXCEPT ![i] = "refused"] /\ installing[i] = "pending"
        /\ state # UNINSTALLED /\ state' = state /\ slot' = slot
    BY <1>2 DEF Refuse, Claimable
  <2>2. \A j \in Installers : installing'[j] = IF j = i THEN "refused" ELSE installing[j]
    BY <2>1 DEF SlotInv, SlotTypeOK
  <2>3. SlotTypeOK'
    BY <2>1 DEF SlotInv, SlotTypeOK
  <2> QED  BY <2>1, <2>2, <2>3 DEF SlotInv, Winner, Written
<1>3. ASSUME NEW i \in Installers, NEW half \in Halves, WriteHalf(i, half)
      PROVE  SlotInv'
  <2>1. installing[i] = "writing" /\ slot' = [slot EXCEPT ![half] = i] /\ state' = state
    BY <1>3 DEF WriteHalf
  <2>2. PICK step \in {"writing", "written"} :
          /\ installing' = [installing EXCEPT ![i] = step]
          /\ step = "written" => \A h \in Halves : slot'[h] = i
    BY <1>3 DEF WriteHalf
  <2>3. \A j \in Installers : installing'[j] = IF j = i THEN step ELSE installing[j]
    BY <2>2 DEF SlotInv, SlotTypeOK
  <2>4. \A h \in Halves : slot'[h] = IF h = half THEN i ELSE slot[h]
    BY <2>1 DEF SlotInv, SlotTypeOK
  <2>5. SlotTypeOK'
    BY <2>1, <2>2 DEF SlotInv, SlotTypeOK
  <2>6. Winner'
    BY <2>1, <2>2, <2>3 DEF SlotInv, Winner
  <2>7. \A j \in Installers : installing[j] \in Active => j = i
    BY <2>1 DEF SlotInv, Winner
  <2>8. state # UNINSTALLED
    BY <2>1 DEF SlotInv, Winner
  <2>9. Written'
    BY <2>1, <2>2, <2>3, <2>4, <2>7, <2>8 DEF SlotInv, Written
  <2> QED  BY <2>5, <2>6, <2>9 DEF SlotInv
<1>4. ASSUME NEW i \in Installers, Publish(i)
      PROVE  SlotInv'
  <2>1. installing[i] = "written" /\ installing' = [installing EXCEPT ![i] = "ok"]
        /\ state' = INSTALLED /\ slot' = slot
    BY <1>4 DEF Publish
  <2>2. \A j \in Installers : installing'[j] = IF j = i THEN "ok" ELSE installing[j]
    BY <2>1 DEF SlotInv, SlotTypeOK
  <2>3. SlotTypeOK'
    BY <2>1 DEF SlotInv, SlotTypeOK
  <2>4. \A j \in Installers : installing[j] \in Active => j = i
    BY <2>1 DEF SlotInv, Winner
  <2>5. Winner'
    BY <2>1, <2>2, <2>4 DEF SlotInv, Winner
  <2>6. Written'
    BY <2>1, <2>2, <2>4 DEF SlotInv, Written
  <2> QED  BY <2>3, <2>5, <2>6 DEF SlotInv
<1>5. CASE UNCHANGED slotVars
  BY <1>5 DEF SlotInv, SlotTypeOK, Winner, Written, slotVars
<1> QED  BY <1>1, <1>2, <1>3, <1>4, <1>5 DEF SlotNext, Install

\* What the bridges do leaves the slot alone.
LEMMA SlotIsApart == Spec => SlotSpec
<1>1. Init => SlotInit
  BY DEF Init
<1>2. [Next]_vars => [SlotNext]_slotVars
  BY DEF Next, vars, slotVars
<1> QED  BY <1>1, <1>2, PTL DEF Spec, SlotSpec

-----------------------------------------------------------------------------
(* The refinement *)

\* What a call site reads while the pointer is written, and afterwards.
LEMMA Reads ==
    ASSUME SlotInv
    PROVE  /\ state # INSTALLED => Dispatcher = None
           /\ \A i \in Installers : installing[i] = "ok" => Dispatcher = i
BY DEF SlotInv, Written, Dispatcher, Visible, Halves, INSTALLED

\* Each step of the slot is one of WriteOnce or changes nothing it shows.
LEMMA StepRefines ==
    ASSUME SlotInv, SlotInv', [SlotNext]_slotVars
    PROVE  [Promise!Next]_<<Dispatcher, [i \in Installers |-> Answer(i)]>>
<1> DEFINE answers == [i \in Installers |-> Answer(i)]
<1> USE DEF UNINSTALLED, INSTALLING, INSTALLED
<1>1. ASSUME NEW i \in Installers, Claim(i) \/ \E h \in Halves : WriteHalf(i, h)
      PROVE  Dispatcher' = Dispatcher /\ answers' = answers
  <2>1. PICK step \in {"writing", "written"} :
          /\ installing' = [installing EXCEPT ![i] = step]
          /\ installing[i] \in {"pending", "writing"}
    BY <1>1 DEF Claim, WriteHalf
  <2>2. state # INSTALLED /\ state' # INSTALLED
    <3>1. CASE Claim(i)
      BY <3>1 DEF Claim, Claimable
    <3>2. CASE \E h \in Halves : WriteHalf(i, h)
      BY <3>2 DEF WriteHalf, SlotInv, Winner, Written
    <3> QED  BY <1>1, <3>1, <3>2
  <2>3. \A j \in Installers : Answer(j)' = Answer(j)
    BY <2>1 DEF Answer, SlotInv, SlotTypeOK
  <2> QED  BY <2>2, <2>3, Reads DEF Dispatcher, Visible
<1>2. ASSUME NEW i \in Installers, Refuse(i)
      PROVE  Promise!Refuse(i)
  <2>1. installing' = [installing EXCEPT ![i] = "refused"] /\ installing[i] = "pending"
        /\ state # UNINSTALLED /\ state' = state /\ slot' = slot
    BY <1>2 DEF Refuse, Claimable
  <2>2. Dispatcher' = Dispatcher
    BY <2>1 DEF Dispatcher, Visible
  <2>3. \A j \in Installers : Answer(j)' = IF j = i THEN "refused" ELSE Answer(j)
    BY <2>1 DEF Answer, SlotInv, SlotTypeOK
  <2>4. PICK j \in Installers : installing[j] \in Active
    BY <2>1 DEF SlotInv, Winner
  <2>5. j # i /\ answers[j] # "refused" /\ answers[i] = "pending"
    BY <2>1, <2>4 DEF Answer
  <2>6. answers' = [answers EXCEPT ![i] = "refused"]
    BY <2>3
  <2> QED  BY <2>2, <2>5, <2>6 DEF Promise!Refuse
<1>3. ASSUME NEW i \in Installers, Publish(i)
      PROVE  Promise!Install(i)
  <2>1. installing[i] = "written" /\ installing' = [installing EXCEPT ![i] = "ok"]
    BY <1>3 DEF Publish
  <2>2. \A j \in Installers : Answer(j)' = IF j = i THEN "ok" ELSE Answer(j)
    BY <2>1 DEF Answer, SlotInv, SlotTypeOK
  <2>3. answers' = [answers EXCEPT ![i] = "ok"] /\ answers[i] = "pending"
    BY <2>1, <2>2 DEF Answer
  <2>4. state # INSTALLED
    BY <2>1 DEF SlotInv, Winner, Written
  <2>5. Dispatcher = None
    BY <2>4, Reads
  <2>6. installing'[i] = "ok"
    BY <2>1 DEF SlotInv, SlotTypeOK
  <2>7. Dispatcher' = i
    BY <2>6 DEF SlotInv, Written, Dispatcher, Visible, Halves
  <2> QED  BY <2>3, <2>5, <2>7 DEF Promise!Install
<1>4. CASE UNCHANGED slotVars
  BY <1>4 DEF slotVars, Dispatcher, Visible, Answer
<1> HIDE DEF answers
<1> QED  BY <1>1, <1>2, <1>3, <1>4 DEF SlotNext, Install, Promise!Next, answers

\* Of two installers that race while call sites read, one is told Ok and every
\* reader sees no dispatcher or, for ever after, that installer's whole pointer.
THEOREM Implementation == Spec => ImplementsSlot
<1>1. SlotSpec => []SlotInv
  BY SlotInvInit, SlotInvNext, PTL DEF SlotSpec
<1>2. SlotInit => Promise!Init
  BY DEF SlotInit, Promise!Init, Dispatcher, Visible, Answer, UNINSTALLED, INSTALLED
<1>3. SlotInv /\ SlotInv' /\ [SlotNext]_slotVars
        => [Promise!Next]_<<Dispatcher, [i \in Installers |-> Answer(i)]>>
  BY StepRefines
<1>4. SlotSpec => Promise!Spec
  BY <1>1, <1>2, <1>3, PTL DEF SlotSpec, Promise!Spec
<1> QED  BY <1>4, SlotIsApart DEF ImplementsSlot

-----------------------------------------------------------------------------
(* The stacks of a thread *)

\* What was current below an entry of a stack.
Under(g, i) == IF i = 1 THEN NONE ELSE g[i - 1].ctx

\* Each entry restores what is below it, or has changed nothing.
Restores(t) ==
    /\ \A i \in 1..Len(guards[t]) :
          IF guards[t][i].active THEN guards[t][i].previous = Under(guards[t], i)
                                 ELSE guards[t][i].ctx = Under(guards[t], i)
    /\ current[t] = Under(guards[t], Len(guards[t]) + 1)

\* The entry of a span stands for its context, which it has had from the start.
Stands(t) ==
    \A i \in 1..Len(guards[t]) : guards[t][i].kind = "span" =>
        /\ guards[t][i].span \in Spans /\ span[guards[t][i].span].phase # "new"
        /\ guards[t][i].ctx = span[guards[t][i].span].ctx

\* On both stacks a sink's spans are those above an open call.
Layers(t) ==
    /\ \A k \in 1..Len(entered[t]) :
          entered[t][k] \in SinkSpans <=> \E f \in Frames(t) : guards[t][f].depth < k
    /\ \A i \in 1..Len(guards[t]) : guards[t][i].kind = "span" =>
          (guards[t][i].span \in SinkSpans <=> \E f \in Frames(t) : f < i)
    /\ \A f \in Frames(t) : guards[t][f].depth <= Len(entered[t])
    /\ \A f, h \in Frames(t) : f < h => guards[t][f].depth <= guards[t][h].depth

\* Below the calls the stacks agree.
AppPairs(t) ==
    /\ \A i \in 1..Len(guards[t]) : (\A f \in Frames(t) : i < f) =>
          i \in 1..Len(entered[t]) /\ entered[t][i] = guards[t][i].span
    /\ \A k \in 1..Len(entered[t]) : entered[t][k] \notin SinkSpans =>
          k \in 1..Len(guards[t]) /\ \A f \in Frames(t) : k < f

\* Above them, the guard of a span goes with its entrance in the same call.
SinkPairs(t) ==
    /\ \A i \in 1..Len(guards[t]) : guards[t][i].kind = "span" /\ guards[t][i].span \in SinkSpans =>
          \E k \in 1..Len(entered[t]) :
             /\ entered[t][k] = guards[t][i].span
             /\ \A f \in Frames(t) : f < i <=> guards[t][f].depth < k
    /\ \A i, j \in 1..Len(guards[t]) :
          /\ guards[t][i].kind = "span" /\ guards[t][j].kind = "span"
          /\ guards[t][i].span = guards[t][j].span /\ guards[t][i].span \in SinkSpans
          => i = j

\* A flag that is set was set by an open call, the bridge's above every guard.
Flagged(t) ==
    /\ inTracing[t] => \E f \in Frames(t) :
          guards[t][f].kind = "tracing" /\ \A i \in 1..Len(guards[t]) : f < i => i \in Frames(t)
    /\ inLog[t] => \E f \in Frames(t) : guards[t][f].kind = "log"

\* Nothing has a context before there is a dispatcher, the bridge knows the
\* application's spans, and a sink's span is entered once.
Rest ==
    /\ ~Present => contexts = <<>> /\ \A t \in Threads : \A i \in 1..Len(guards[t]) :
                                          ~guards[t][i].active
    /\ \A s \in Spans \ SinkSpans : span[s].phase # "new" => span[s].bridged
    /\ \A t, u \in Threads : \A k \in 1..Len(entered[t]), m \in 1..Len(entered[u]) :
          entered[t][k] = entered[u][m] /\ entered[t][k] \in SinkSpans => t = u /\ k = m

Stack(t) == Restores(t) /\ Stands(t) /\ Layers(t) /\ AppPairs(t) /\ SinkPairs(t) /\ Flagged(t)

StackInv == TypeOK /\ Rest /\ \A t \in Threads : Stack(t)

BridgeTypes ==
    /\ span \in [Spans -> [phase : {"new", "open", "closed"}, bridged : BOOLEAN,
                           ctx : Tokens, parent : Spans \cup {NoSpan}]]
    /\ contexts \in Seq([parent : Tokens, links : SUBSET Tokens])
    /\ entered \in [Threads -> Seq(Spans)]
    /\ guards \in [Threads -> Seq(Entries)]
    /\ current \in [Threads -> Tokens]
    /\ inTracing \in [Threads -> BOOLEAN]
    /\ inLog \in [Threads -> BOOLEAN]

\* The parts of the type invariant about one thread, element by element.
LEMMA ThreadTypes ==
    ASSUME BridgeTypes, NEW t \in Threads
    PROVE  /\ guards[t] \in Seq(Entries) /\ entered[t] \in Seq(Spans)
           /\ Len(guards[t]) \in Nat /\ Len(entered[t]) \in Nat
           /\ DOMAIN guards[t] = 1..Len(guards[t]) /\ DOMAIN entered[t] = 1..Len(entered[t])
           /\ \A i \in 1..Len(guards[t]) : guards[t][i] \in Entries
           /\ \A k \in 1..Len(entered[t]) : entered[t][k] \in Spans
           /\ current[t] \in Tokens /\ inTracing[t] \in BOOLEAN /\ inLog[t] \in BOOLEAN
<1>1. guards[t] \in Seq(Entries) /\ entered[t] \in Seq(Spans)
  BY DEF BridgeTypes
<1>2. current[t] \in Tokens /\ inTracing[t] \in BOOLEAN /\ inLog[t] \in BOOLEAN
  BY DEF BridgeTypes
<1> QED  BY <1>1, <1>2

LEMMA FramesAre ==
    ASSUME BridgeTypes, NEW t \in Threads
    PROVE  \A i : i \in Frames(t) <=> i \in 1..Len(guards[t]) /\ guards[t][i].kind # "span"
BY ThreadTypes DEF Frames

LEMMA OrderIsLess == \A x, y \in Nat : <<x, y>> \in OpToRel(<, Nat) <=> x < y
BY DEF OpToRel

\* A nonempty set of positions has a greatest and a least element.
LEMMA GreatestIn ==
    ASSUME NEW n \in Nat, NEW S \in SUBSET (1..n), S # {}
    PROVE  \E i \in S : \A j \in S : j <= i
<1> DEFINE T == {n - i : i \in S}
<1>1. T # {} /\ T \subseteq Nat
  <2>1. \A i \in S : n - i \in Nat
    OBVIOUS
  <2> QED  BY <2>1
<1>2. IsWellFoundedOn(OpToRel(<, Nat), Nat)
  BY NatLessThanWellFounded
<1>3. PICK m \in T : \A y \in T : ~ (<<y, m>> \in OpToRel(<, Nat))
  BY <1>1, <1>2, WFMin
<1>4. PICK i \in S : m = n - i
  BY <1>3
<1>5. ASSUME NEW j \in S
      PROVE  j <= i
  <2>1. n - j \in T /\ n - j \in Nat /\ m \in Nat
    BY <1>1
  <2>2. ~(n - j < m)
    BY <1>3, <2>1, OrderIsLess
  <2> QED  BY <1>4, <2>2
<1> QED  BY <1>5

LEMMA LeastIn ==
    ASSUME NEW S \in SUBSET Nat, S # {}
    PROVE  \E i \in S : \A j \in S : i <= j
<1>1. IsWellFoundedOn(OpToRel(<, Nat), Nat)
  BY NatLessThanWellFounded
<1>2. PICK m \in S : \A y \in S : ~ (<<y, m>> \in OpToRel(<, Nat))
  BY <1>1, WFMin
<1>3. \A y \in S : ~(y < m)
  BY <1>2, OrderIsLess
<1>4. \A y \in S : m <= y
  BY <1>3
<1> QED  BY <1>4

LEMMA TopmostIs ==
    ASSUME BridgeTypes, NEW t \in Threads, ~Quiet(t)
    PROVE  Topmost(t) \in Frames(t) /\ \A f \in Frames(t) : f <= Topmost(t)
<1>1. Frames(t) \in SUBSET (1..Len(guards[t])) /\ Len(guards[t]) \in Nat
  BY FramesAre, ThreadTypes
<1>2. Frames(t) # {}
  BY DEF Quiet
<1>3. \E i \in Frames(t) : \A j \in Frames(t) : j <= i
  BY <1>1, <1>2, GreatestIn
<1> QED  BY <1>3 DEF Topmost

-----------------------------------------------------------------------------
(* What the stacks say when no call is open *)

LEMMA QuietAgree ==
    ASSUME StackInv, BridgeTypes, NEW t \in Threads, Quiet(t)
    PROVE  /\ Len(guards[t]) = Len(entered[t])
           /\ \A i \in 1..Len(guards[t]) : /\ guards[t][i].kind = "span"
                                           /\ entered[t][i] = guards[t][i].span
                                           /\ guards[t][i].ctx = span[guards[t][i].span].ctx
           /\ ~inTracing[t] /\ ~inLog[t]
           /\ \A k \in 1..Len(entered[t]) : entered[t][k] \notin SinkSpans
<1>1. \A f : f \notin Frames(t)
  BY DEF Quiet
<1>2. Stack(t) /\ Len(guards[t]) \in Nat /\ Len(entered[t]) \in Nat
  BY ThreadTypes DEF StackInv
<1>3. \A k \in 1..Len(entered[t]) : entered[t][k] \notin SinkSpans
  BY <1>1, <1>2 DEF Stack, Layers
<1>4. \A i \in 1..Len(guards[t]) : i \in 1..Len(entered[t]) /\ entered[t][i] = guards[t][i].span
  BY <1>1, <1>2 DEF Stack, AppPairs
<1>5. \A k \in 1..Len(entered[t]) : k \in 1..Len(guards[t])
  BY <1>2, <1>3 DEF Stack, AppPairs
<1>6. Len(guards[t]) = Len(entered[t])
  <2>1. Len(guards[t]) = 0 \/ Len(guards[t]) \in 1..Len(guards[t])
    BY <1>2
  <2>2. Len(entered[t]) = 0 \/ Len(entered[t]) \in 1..Len(entered[t])
    BY <1>2
  <2>3. Len(guards[t]) <= Len(entered[t])
    BY <1>2, <1>4, <2>1
  <2>4. Len(entered[t]) <= Len(guards[t])
    BY <1>2, <1>5, <2>2
  <2> QED  BY <1>2, <2>3, <2>4
<1>7. \A i \in 1..Len(guards[t]) : guards[t][i].kind = "span"
  BY <1>1, FramesAre
<1>8. ~inTracing[t] /\ ~inLog[t]
  BY <1>1, <1>2 DEF Stack, Flagged
<1> QED  BY <1>2, <1>3, <1>4, <1>6, <1>7, <1>8 DEF Stack, Stands

LEMMA InnermostFollows == StackInv => InnermostContext
<1> SUFFICES ASSUME StackInv, NEW t \in Threads, Quiet(t)
             PROVE  /\ current[t] = IF entered[t] = <<>> THEN NONE ELSE span[Top(entered[t])].ctx
                    /\ ~inTracing[t] /\ ~inLog[t]
  BY DEF InnermostContext
<1>1. BridgeTypes
  BY DEF StackInv, TypeOK, BridgeTypes
<1>2. Len(guards[t]) = Len(entered[t]) /\ Len(entered[t]) \in Nat /\ entered[t] \in Seq(Spans)
  BY <1>1, QuietAgree, ThreadTypes
<1>3. current[t] = Under(guards[t], Len(guards[t]) + 1)
  BY DEF StackInv, Stack, Restores
<1>4. CASE entered[t] = <<>>
  <2>1. Len(guards[t]) + 1 = 1
    BY <1>2, <1>4
  <2> QED  BY <1>1, <1>3, <1>4, <2>1, QuietAgree DEF Under
<1>5. CASE entered[t] # <<>>
  <2>1. Len(entered[t]) \in 1..Len(entered[t])
    BY <1>2, <1>5, EmptySeq
  <2>2. current[t] = guards[t][Len(guards[t])].ctx
    BY <1>2, <1>3, <2>1 DEF Under
  <2> QED  BY <1>1, <1>2, <1>5, <2>1, <2>2, QuietAgree DEF Top
<1> QED  BY <1>4, <1>5

-----------------------------------------------------------------------------
(* How a call changes the stacks of its thread *)

\* A span keeps its context and stays known to the bridge.
SpansKept ==
    \A s \in Spans : span[s].phase # "new" =>
        span'[s].phase # "new" /\ span'[s].ctx = span[s].ctx

\* What an entry stands for is still so after a step that keeps the spans.
LEMMA EntryStands ==
    ASSUME SpansKept, NEW u \in Threads, Stands(u), NEW i \in 1..Len(guards[u]),
           NEW g, g = guards[u][i], g.kind = "span"
    PROVE  g.span \in Spans /\ span'[g.span].phase # "new" /\ g.ctx = span'[g.span].ctx
<1>1. g.span \in Spans /\ span[g.span].phase # "new" /\ g.ctx = span[g.span].ctx
  BY DEF Stands
<1> QED  BY <1>1 DEF SpansKept

LEMMA StackKept ==
    ASSUME BridgeTypes, SpansKept, NEW u \in Threads, Stack(u),
           guards'[u] = guards[u], entered'[u] = entered[u], current'[u] = current[u],
           inTracing'[u] => inTracing[u], inLog'[u] => inLog[u]
    PROVE  Stack(u)'
<1>0. Frames(u)' = Frames(u)
  BY DEF Frames
<1>1. Restores(u)'
  BY DEF Stack, Restores
<1>2. Stands(u)'
  BY ThreadTypes DEF Stack, Stands, SpansKept
<1>3. Layers(u)' /\ AppPairs(u)'
  BY <1>0 DEF Stack, Layers, AppPairs
<1>4. SinkPairs(u)'
  BY <1>0 DEF Stack, SinkPairs
<1>5. Flagged(u)'
  BY <1>0 DEF Stack, Flagged
<1> QED  BY <1>1, <1>2, <1>3, <1>4, <1>5 DEF Stack

\* The elements of a stack that grew by one.
LEMMA Grown ==
    ASSUME NEW S, NEW s \in Seq(S), NEW e
    PROVE  /\ Len(Append(s, e)) = Len(s) + 1 /\ DOMAIN Append(s, e) = 1..Len(s) + 1
           /\ \A i \in 1..Len(s) : Append(s, e)[i] = s[i]
           /\ Append(s, e)[Len(s) + 1] = e
OBVIOUS

\* The elements of a stack that lost its top.
LEMMA Shrunk ==
    ASSUME NEW S, NEW s \in Seq(S), s # <<>>
    PROVE  /\ SubSeq(s, 1, Len(s) - 1) \in Seq(S)
           /\ Len(SubSeq(s, 1, Len(s) - 1)) = Len(s) - 1
           /\ DOMAIN SubSeq(s, 1, Len(s) - 1) = 1..Len(s) - 1
           /\ \A i \in 1..Len(s) - 1 : SubSeq(s, 1, Len(s) - 1)[i] = s[i]
           /\ Len(s) \in 1..Len(s)
<1>1. Len(s) \in Nat /\ Len(s) # 0
  BY EmptySeq
<1> DEFINE m == Len(s) - 1
           q == SubSeq(s, 1, m)
<1>2. m \in Int /\ 1 \in Int /\ Len(s) \in 1..Len(s) /\ m \in Nat
  BY <1>1
<1>3. \A i \in 1..m : i \in 1..Len(s)
  BY <1>1
<1>4. \A i \in 1..m : s[i] \in S
  BY <1>3
<1> HIDE DEF m
<1>5. /\ q \in Seq(S) /\ Len(q) = (IF 1 <= m THEN m - 1 + 1 ELSE 0)
      /\ \A i \in 1..m - 1 + 1 : q[i] = s[1 + i - 1]
  BY <1>2, <1>4, SubSeqProperties
<1> HIDE DEF q
<1>6. Len(q) = m /\ m - 1 + 1 = m /\ \A i \in 1..m : 1 + i - 1 = i
  BY <1>2, <1>5
<1>7. DOMAIN q = 1..m
  BY <1>5, <1>6
<1> QED  BY <1>2, <1>5, <1>6, <1>7 DEF m, q

\* A call opens: its frame goes on top of the guards.
LEMMA FramePushed ==
    ASSUME BridgeTypes, SpansKept, NEW t \in Threads, Stack(t), NEW e,
           e.kind \in {"tracing", "log"}, e.depth = Len(entered[t]),
           IF e.active THEN e.previous = current[t] ELSE e.ctx = current[t],
           guards'[t] = Append(guards[t], e), entered'[t] = entered[t], current'[t] = e.ctx,
           inTracing'[t] => inTracing[t] \/ e.kind = "tracing",
           inLog'[t] => inLog[t] \/ e.kind = "log"
    PROVE  Stack(t)'
<1> DEFINE n == Len(guards[t])
<1>0. /\ n \in Nat /\ Len(entered[t]) \in Nat
      /\ Len(guards'[t]) = n + 1 /\ DOMAIN guards'[t] = 1..n + 1
      /\ \A i \in 1..n : guards'[t][i] = guards[t][i]
      /\ guards'[t][n + 1] = e
  BY Grown, ThreadTypes
<1>1. \A f \in Frames(t) : f \in 1..n
  BY FramesAre
<1>2. \A f : f \in Frames(t)' <=> f \in Frames(t) \/ f = n + 1
  BY <1>0, FramesAre DEF Frames
<1>3. \A i \in 1..n + 1 : i \in 1..n \/ i = n + 1
  BY <1>0
<1> HIDE DEF n
<1>4. Restores(t)'
  <2>1. \A i \in 1..n : Under(guards'[t], i) = Under(guards[t], i)
    BY <1>0 DEF Under
  <2>2. Under(guards'[t], n + 1) = current[t]
    BY <1>0 DEF Under, Stack, Restores, n
  <2>3. Under(guards'[t], (n + 1) + 1) = current'[t]
    BY <1>0 DEF Under
  <2> QED  BY <1>0, <1>3, <2>1, <2>2, <2>3 DEF Stack, Restores, n
<1>5. Stands(t)'
  <2>1. ASSUME NEW i \in 1..n, guards'[t][i].kind = "span"
        PROVE  /\ guards'[t][i].span \in Spans /\ span'[guards'[t][i].span].phase # "new"
               /\ guards'[t][i].ctx = span'[guards'[t][i].span].ctx
    BY <1>0, <2>1, EntryStands DEF Stack, n
  <2> QED  BY <1>0, <1>3, <2>1 DEF Stands
<1>6. Layers(t)'
  <2>1. \A k \in 1..Len(entered[t]) : ~(e.depth < k)
    BY <1>0
  <2>2. \A k \in 1..Len(entered'[t]) :
          entered'[t][k] \in SinkSpans <=> \E f \in Frames(t)' : guards'[t][f].depth < k
    BY <1>0, <1>1, <1>2, <2>1 DEF Stack, Layers
  <2>3. \A i \in 1..n + 1 : guards'[t][i].kind = "span" =>
          (guards'[t][i].span \in SinkSpans <=> \E f \in Frames(t)' : f < i)
    <3>1. \A i \in 1..n : ~(n + 1 < i)
      BY <1>0
    <3> QED  BY <1>0, <1>1, <1>2, <1>3, <3>1 DEF Stack, Layers, n
  <2>4. \A f \in Frames(t)' : guards'[t][f].depth <= Len(entered[t])
    BY <1>0, <1>1, <1>2 DEF Stack, Layers
  <2>5. \A f, h \in Frames(t)' : f < h => guards'[t][f].depth <= guards'[t][h].depth
    <3>1. \A f \in Frames(t) : ~(n + 1 < f) /\ guards[t][f].depth <= Len(entered[t])
      BY <1>0, <1>1 DEF Stack, Layers
    <3> QED  BY <1>0, <1>1, <1>2, <3>1 DEF Stack, Layers
  <2> QED  BY <1>0, <2>2, <2>3, <2>4, <2>5 DEF Layers
<1>7. AppPairs(t)'
  <2>1. \A i \in 1..n + 1 : (\A f \in Frames(t)' : i < f) => i \in 1..n
    <3>1. n + 1 \in Frames(t)' /\ ~(n + 1 < n + 1)
      BY <1>0, <1>2
    <3> QED  BY <1>3, <3>1
  <2>2. \A i \in 1..n : i < n + 1
    BY <1>0
  <2> QED  BY <1>0, <1>2, <1>3, <2>1, <2>2 DEF Stack, AppPairs, n
<1>8. SinkPairs(t)'
  <2>0. \A i \in 1..n + 1 : guards'[t][i].kind = "span" => i \in 1..n
    BY <1>0, <1>3
  <2>1. \A i \in 1..n : ~(n + 1 < i)
    BY <1>0
  <2>2. \A k \in 1..Len(entered[t]) : ~(guards'[t][n + 1].depth < k)
    BY <1>0
  <2>3. \A i \in 1..n, k \in 1..Len(entered[t]) :
          (\A f \in Frames(t) : f < i <=> guards[t][f].depth < k)
          => \A f \in Frames(t)' : f < i <=> guards'[t][f].depth < k
    BY <1>0, <1>1, <1>2, <2>1, <2>2
  <2>4. ASSUME NEW i \in 1..n + 1, guards'[t][i].kind = "span", guards'[t][i].span \in SinkSpans
        PROVE  \E k \in 1..Len(entered'[t]) :
                 /\ entered'[t][k] = guards'[t][i].span
                 /\ \A f \in Frames(t)' : f < i <=> guards'[t][f].depth < k
    <3>1. i \in 1..n /\ guards'[t][i] = guards[t][i]
      BY <1>0, <2>0, <2>4
    <3>2. PICK k \in 1..Len(entered[t]) :
            /\ entered[t][k] = guards[t][i].span
            /\ \A f \in Frames(t) : f < i <=> guards[t][f].depth < k
      BY <2>4, <3>1 DEF Stack, SinkPairs, n
    <3> QED  BY <2>3, <3>1, <3>2
  <2>5. ASSUME NEW i \in 1..n + 1, NEW j \in 1..n + 1,
               guards'[t][i].kind = "span", guards'[t][j].kind = "span",
               guards'[t][i].span = guards'[t][j].span, guards'[t][i].span \in SinkSpans
        PROVE  i = j
    BY <1>0, <2>0, <2>5 DEF Stack, SinkPairs, n
  <2> QED  BY <1>0, <2>4, <2>5 DEF SinkPairs
<1>9. Flagged(t)'
  <2>1. inLog'[t] => \E f \in Frames(t)' : guards'[t][f].kind = "log"
    BY <1>0, <1>1, <1>2 DEF Stack, Flagged
  <2>2. CASE e.kind = "tracing"
    <3>1. n + 1 \in Frames(t)' /\ guards'[t][n + 1].kind = "tracing"
      BY <1>0, <1>2, <2>2
    <3>2. \A i \in 1..n + 1 : ~(n + 1 < i)
      BY <1>0
    <3> QED  BY <1>0, <2>1, <3>1, <3>2 DEF Flagged
  <2>3. CASE e.kind # "tracing" /\ inTracing'[t]
    <3>1. PICK f \in Frames(t) :
            guards[t][f].kind = "tracing" /\ \A i \in 1..n : f < i => i \in Frames(t)
      BY <2>3 DEF Stack, Flagged, n
    <3>2. \A i \in 1..n + 1 : f < i => i \in Frames(t)'
      BY <1>2, <1>3, <3>1
    <3>3. f \in Frames(t)' /\ guards'[t][f].kind = "tracing"
      BY <1>0, <1>1, <1>2, <3>1
    <3> QED  BY <1>0, <2>1, <3>2, <3>3 DEF Flagged
  <2> QED  BY <2>1, <2>2, <2>3 DEF Flagged
<1> QED  BY <1>4, <1>5, <1>6, <1>7, <1>8, <1>9 DEF Stack

\* A call returns: its frame, on top of the guards, is dropped.
LEMMA FramePopped ==
    ASSUME BridgeTypes, SpansKept, NEW t \in Threads, Stack(t), guards[t] # <<>>,
           Top(guards[t]).kind \in {"tracing", "log"},
           Top(guards[t]).depth = Len(entered[t]),
           guards'[t] = SubSeq(guards[t], 1, Len(guards[t]) - 1), entered'[t] = entered[t],
           current'[t] = Dropping(Top(guards[t]), current[t]),
           inTracing'[t] => inTracing[t] /\ Top(guards[t]).kind = "log",
           inLog'[t] => inLog[t] /\ Top(guards[t]).kind = "tracing"
    PROVE  Stack(t)'
<1> DEFINE n == Len(guards[t])
<1>0. /\ n \in Nat /\ Len(entered[t]) \in Nat /\ n \in 1..n
      /\ Len(guards'[t]) = n - 1 /\ DOMAIN guards'[t] = 1..n - 1
      /\ \A i \in 1..n - 1 : guards'[t][i] = guards[t][i]
  BY Shrunk, ThreadTypes
<1>1. \A i : i \in 1..n <=> i \in 1..n - 1 \/ i = n
  BY <1>0
<1>2. \A f : f \in Frames(t)' <=> f \in Frames(t) /\ f # n
  <2>1. n \notin 1..n - 1
    BY <1>0
  <2> HIDE DEF n
  <2> QED  BY <1>0, <1>1, <2>1, FramesAre DEF Frames, n
<1>3. n \in Frames(t) /\ guards[t][n].depth = Len(entered[t]) /\ Frames(t) \subseteq 1..n
  <2>1. n \in 1..Len(guards[t]) /\ guards[t][n].kind # "span"
    BY <1>0 DEF Top
  <2> QED  BY <2>1, FramesAre DEF Top
<1>5. \A i \in 1..n - 1 : i < n /\ i # n /\ ~(n < i)
  BY <1>0
<1>6. \A k \in 1..Len(entered[t]) : ~(Len(entered[t]) < k)
  BY <1>0
<1>7. \A f \in Frames(t)' : f \in 1..n - 1 /\ guards'[t][f] = guards[t][f] /\ f \in Frames(t)
  BY <1>0, <1>1, <1>2, <1>3
<1>8. Top(guards[t]) = guards[t][n]
  BY DEF Top
<1> HIDE DEF n
<1>9. Restores(t)'
  <2>1. \A i \in 1..n : Under(guards'[t], i) = Under(guards[t], i)
    <3>1. ASSUME NEW i \in 1..n, i # 1 PROVE i - 1 \in 1..n - 1
      BY <1>0, <3>1
    <3> QED  BY <1>0, <3>1 DEF Under
  <2>2. current[t] = guards[t][n].ctx
    <3>1. n + 1 # 1 /\ (n + 1) - 1 = n
      BY <1>0
    <3> QED  BY <3>1 DEF Under, Stack, Restores, n
  <2>3. current'[t] = Under(guards[t], n)
    BY <1>0, <1>8, <2>2 DEF Dropping, Stack, Restores, n
  <2>4. (n - 1) + 1 = n
    BY <1>0
  <2> QED  BY <1>0, <1>1, <2>1, <2>3, <2>4 DEF Stack, Restores, n
<1>10. Stands(t)'
  <2>1. ASSUME NEW i \in 1..n - 1, guards'[t][i].kind = "span"
        PROVE  /\ guards'[t][i].span \in Spans /\ span'[guards'[t][i].span].phase # "new"
               /\ guards'[t][i].ctx = span'[guards'[t][i].span].ctx
    BY <1>0, <1>1, <2>1, EntryStands DEF Stack, n
  <2> QED  BY <1>0, <2>1 DEF Stands
<1>11. Layers(t)'
  <2>2. \A k \in 1..Len(entered'[t]) :
          entered'[t][k] \in SinkSpans <=> \E f \in Frames(t)' : guards'[t][f].depth < k
    <3>1. \A k \in 1..Len(entered[t]) :
            entered[t][k] \in SinkSpans <=> \E f \in Frames(t) : guards[t][f].depth < k
      BY DEF Stack, Layers
    <3> QED  BY <1>2, <1>3, <1>6, <1>7, <3>1
  <2>3. \A i \in 1..n - 1 : guards'[t][i].kind = "span" =>
          (guards'[t][i].span \in SinkSpans <=> \E f \in Frames(t)' : f < i)
    BY <1>0, <1>1, <1>2, <1>5 DEF Stack, Layers, n
  <2>4. \A f \in Frames(t)' : guards'[t][f].depth <= Len(entered[t])
    BY <1>7 DEF Stack, Layers
  <2>5. \A f, h \in Frames(t)' : f < h => guards'[t][f].depth <= guards'[t][h].depth
    BY <1>7 DEF Stack, Layers
  <2> QED  BY <1>0, <2>2, <2>3, <2>4, <2>5 DEF Layers
<1>12. AppPairs(t)'
  <2>1. \A i \in 1..n - 1 : (\A f \in Frames(t)' : i < f) => (\A f \in Frames(t) : i < f)
    BY <1>2, <1>5
  <2>2. ASSUME NEW k \in 1..Len(entered[t]), entered[t][k] \notin SinkSpans
        PROVE  k \in 1..n - 1 /\ \A f \in Frames(t)' : k < f
    <3>1. k \in 1..n /\ \A f \in Frames(t) : k < f
      BY <2>2 DEF Stack, AppPairs, n
    <3>2. k < n
      BY <1>3, <3>1
    <3> QED  BY <1>0, <1>1, <1>7, <3>1, <3>2
  <2>3. \A i \in 1..n - 1 : (\A f \in Frames(t)' : i < f) =>
          i \in 1..Len(entered'[t]) /\ entered'[t][i] = guards'[t][i].span
    BY <1>0, <1>1, <2>1 DEF Stack, AppPairs, n
  <2> QED  BY <1>0, <2>2, <2>3 DEF AppPairs
<1>13. SinkPairs(t)'
  <2>3. \A i \in 1..n - 1, k \in 1..Len(entered[t]) :
          (\A f \in Frames(t) : f < i <=> guards[t][f].depth < k)
          => \A f \in Frames(t)' : f < i <=> guards'[t][f].depth < k
    BY <1>7
  <2>4. ASSUME NEW i \in 1..n - 1, guards'[t][i].kind = "span", guards'[t][i].span \in SinkSpans
        PROVE  \E k \in 1..Len(entered'[t]) :
                 /\ entered'[t][k] = guards'[t][i].span
                 /\ \A f \in Frames(t)' : f < i <=> guards'[t][f].depth < k
    <3>1. i \in 1..n /\ guards'[t][i] = guards[t][i]
      BY <1>0, <1>1
    <3>2. PICK k \in 1..Len(entered[t]) :
            /\ entered[t][k] = guards[t][i].span
            /\ \A f \in Frames(t) : f < i <=> guards[t][f].depth < k
      BY ZenonT(60), <2>4, <3>1 DEF Stack, SinkPairs, n
    <3> QED  BY <2>3, <3>1, <3>2
  <2>5. ASSUME NEW i \in 1..n - 1, NEW j \in 1..n - 1,
               guards'[t][i].kind = "span", guards'[t][j].kind = "span",
               guards'[t][i].span = guards'[t][j].span, guards'[t][i].span \in SinkSpans
        PROVE  i = j
    BY ZenonT(60), <1>0, <1>1, <2>5 DEF Stack, SinkPairs, n
  <2> QED  BY <1>0, <2>4, <2>5 DEF SinkPairs
<1>14. Flagged(t)'
  <2>1. ASSUME inLog'[t] PROVE \E f \in Frames(t)' : guards'[t][f].kind = "log"
    <3>1. PICK f \in Frames(t) : guards[t][f].kind = "log"
      BY <2>1 DEF Stack, Flagged
    <3>2. f # n
      BY <1>8, <2>1, <3>1
    <3> QED  BY <1>2, <1>7, <3>1, <3>2
  <2>2. ASSUME inTracing'[t]
        PROVE  \E f \in Frames(t)' : guards'[t][f].kind = "tracing"
                 /\ \A i \in 1..n - 1 : f < i => i \in Frames(t)'
    <3>1. PICK f \in Frames(t) :
            guards[t][f].kind = "tracing" /\ \A i \in 1..n : f < i => i \in Frames(t)
      BY <2>2 DEF Stack, Flagged, n
    <3>2. f # n
      BY <1>8, <2>2, <3>1
    <3> QED  BY <1>1, <1>2, <1>5, <1>7, <3>1, <3>2
  <2> QED  BY <1>0, <2>1, <2>2 DEF Flagged
<1> QED  BY <1>9, <1>10, <1>11, <1>12, <1>13, <1>14 DEF Stack

\* A sink enters a span of its own while the bridge does not listen.
LEMMA EnteredAlone ==
    ASSUME BridgeTypes, SpansKept, NEW t \in Threads, Stack(t), ~Quiet(t), NEW s \in SinkSpans,
           entered'[t] = Append(entered[t], s), guards'[t] = guards[t], current'[t] = current[t],
           inTracing'[t] = inTracing[t], inLog'[t] = inLog[t]
    PROVE  Stack(t)'
<1> DEFINE m == Len(entered[t])
<1>0. /\ m \in Nat /\ Len(entered'[t]) = m + 1
      /\ \A k \in 1..m : entered'[t][k] = entered[t][k]
      /\ entered'[t][m + 1] = s
  BY Grown, ThreadTypes
<1>1. \A k : k \in 1..m + 1 <=> k \in 1..m \/ k = m + 1
  BY <1>0
<1>2. Frames(t)' = Frames(t)
  BY DEF Frames
<1>3. \A f \in Frames(t) : guards[t][f].depth <= m /\ guards[t][f].depth < m + 1
  <2>1. \A f \in Frames(t) : guards[t][f].depth \in Nat
    BY FramesAre, ThreadTypes DEF Entries
  <2> QED  BY <1>0, <2>1 DEF Stack, Layers
<1>4. \E f \in Frames(t) : TRUE
  BY DEF Quiet
<1>5. \A f \in Frames(t) : guards[t][f].depth <= m + 1
  <2>1. \A f \in Frames(t) : guards[t][f].depth \in Nat
    BY FramesAre, ThreadTypes DEF Entries
  <2> QED  BY <1>0, <1>3, <2>1
<1> HIDE DEF m
<1>6. Restores(t)'
  BY DEF Stack, Restores
<1>7. Stands(t)'
  <2>1. \A i \in 1..Len(guards[t]) : guards[t][i].kind = "span" =>
              /\ guards[t][i].span \in Spans /\ span'[guards[t][i].span].phase # "new"
              /\ guards[t][i].ctx = span'[guards[t][i].span].ctx
    BY EntryStands DEF Stack
  <2> QED  BY <2>1 DEF Stands
<1>8. Layers(t)'
  <2>1. \A k \in 1..m + 1 :
          entered'[t][k] \in SinkSpans <=> \E f \in Frames(t) : guards[t][f].depth < k
    BY <1>0, <1>1, <1>3, <1>4 DEF Stack, Layers, m
  <2> QED  BY <1>0, <1>2, <1>5, <2>1 DEF Stack, Layers
<1>9. AppPairs(t)'
  BY <1>0, <1>1, <1>2 DEF Stack, AppPairs, m
<1>10. SinkPairs(t)'
  BY SMTT(30), <1>0, <1>1, <1>2 DEF Stack, SinkPairs, m
<1>11. Flagged(t)'
  BY <1>2 DEF Stack, Flagged
<1> QED  BY <1>6, <1>7, <1>8, <1>9, <1>10, <1>11 DEF Stack

\* A span is entered and its guard goes on top: by the application when no
\* call is open, by a sink that is not within it already.
LEMMA EnteredPushed ==
    ASSUME StackInv, BridgeTypes, SpansKept, NEW t \in Threads, NEW e, e.kind = "span",
           e.span \in Spans, span[e.span].phase # "new", e.ctx = span[e.span].ctx,
           IF e.active THEN e.previous = current[t] ELSE e.ctx = current[t],
           e.span \in SinkSpans <=> ~Quiet(t),
           ~Quiet(t) => \A k \in 1..Len(entered[t]) : entered[t][k] # e.span,
           ~inTracing[t],
           entered'[t] = Append(entered[t], e.span),
           guards'[t] = Append(guards[t], e), current'[t] = e.ctx,
           inTracing'[t] = inTracing[t], inLog'[t] = inLog[t]
    PROVE  Stack(t)'
<1> DEFINE m == Len(entered[t])
           n == Len(guards[t])
<1>s. Stack(t)
  BY DEF StackInv
<1>0. /\ m \in Nat /\ Len(entered'[t]) = m + 1
      /\ \A k \in 1..m : entered'[t][k] = entered[t][k]
      /\ entered'[t][m + 1] = e.span
  BY Grown, ThreadTypes
<1>1. \A k : k \in 1..m + 1 <=> k \in 1..m \/ k = m + 1
  BY <1>0
<1>2. /\ n \in Nat /\ Len(guards'[t]) = n + 1 /\ DOMAIN guards'[t] = 1..n + 1
      /\ \A i \in 1..n : guards'[t][i] = guards[t][i]
      /\ guards'[t][n + 1] = e
  BY Grown, ThreadTypes
<1>3. \A i : i \in 1..n + 1 <=> i \in 1..n \/ i = n + 1
  BY <1>2
<1>4. \A f : f \in Frames(t)' <=> f \in Frames(t)
  BY <1>2, <1>3, FramesAre DEF Frames
<1>5. \A f \in Frames(t) : guards'[t][f] = guards[t][f] /\ f \in 1..n /\ f < n + 1
  BY <1>2, FramesAre
<1>6. \A f \in Frames(t) : guards[t][f].depth <= m + 1 /\ guards[t][f].depth < m + 1
  <2>1. \A f \in Frames(t) : guards[t][f].depth \in Nat
    BY FramesAre, ThreadTypes DEF Entries
  <2> QED  BY <1>0, <1>s, <2>1 DEF Stack, Layers
<1>7. Quiet(t) <=> \A f : f \notin Frames(t)
  BY DEF Quiet
<1> HIDE DEF m, n
<1>8. Restores(t)'
  <2>1. \A i \in 1..n : Under(guards'[t], i) = Under(guards[t], i)
    BY <1>2 DEF Under
  <2>2. Under(guards'[t], n + 1) = current[t]
    BY <1>s, <1>2 DEF Under, Stack, Restores, n
  <2>3. Under(guards'[t], (n + 1) + 1) = current'[t]
    BY <1>2 DEF Under
  <2> QED  BY <1>s, <1>2, <1>3, <2>1, <2>2, <2>3 DEF Stack, Restores, n
<1>9. Stands(t)'
  <2>1. ASSUME NEW i \in 1..n, guards'[t][i].kind = "span"
        PROVE  /\ guards'[t][i].span \in Spans /\ span'[guards'[t][i].span].phase # "new"
               /\ guards'[t][i].ctx = span'[guards'[t][i].span].ctx
    BY <1>s, <1>2, <2>1, EntryStands DEF Stack, n
  <2>2. span'[e.span].phase # "new" /\ e.ctx = span'[e.span].ctx
    BY DEF SpansKept
  <2> QED  BY <1>2, <1>3, <2>1, <2>2 DEF Stands
<1>10. Layers(t)'
  <2>1. \A k \in 1..m + 1 :
          entered'[t][k] \in SinkSpans <=> \E f \in Frames(t)' : guards'[t][f].depth < k
    BY <1>s, <1>0, <1>1, <1>4, <1>5, <1>6, <1>7 DEF Stack, Layers, m
  <2>2. \A i \in 1..n + 1 : guards'[t][i].kind = "span" =>
          (guards'[t][i].span \in SinkSpans <=> \E f \in Frames(t)' : f < i)
    BY <1>s, <1>2, <1>3, <1>4, <1>5, <1>7 DEF Stack, Layers, n
  <2>3. \A f \in Frames(t)' : guards'[t][f].depth <= m + 1
    BY <1>4, <1>5, <1>6
  <2>4. \A f, h \in Frames(t)' : f < h => guards'[t][f].depth <= guards'[t][h].depth
    BY <1>s, <1>4, <1>5 DEF Stack, Layers
  <2> QED  BY <1>0, <1>2, <2>1, <2>2, <2>3, <2>4 DEF Layers
<1>11. AppPairs(t)'
  <2>1. Quiet(t) => m = n
    BY <1>0, <1>2, QuietAgree DEF m, n
  <2>2. \A i \in 1..n + 1 : (\A f \in Frames(t)' : i < f) =>
          i \in 1..m + 1 /\ entered'[t][i] = guards'[t][i].span
    <3>1. ASSUME ~Quiet(t), \A f \in Frames(t)' : n + 1 < f PROVE FALSE
      <4>1. PICK f \in Frames(t) : n + 1 < f
        BY <1>4, <1>7, <3>1
      <4>2. f < n + 1 /\ f \in Nat
        BY <1>2, <1>5
      <4> QED  BY <1>2, <4>1, <4>2
    <3>2. ASSUME NEW i \in 1..n, \A f \in Frames(t)' : i < f
          PROVE  i \in 1..m /\ entered[t][i] = guards[t][i].span
      BY <1>s, <1>4, <3>2 DEF Stack, AppPairs, m, n
    <3> QED  BY SMTT(30), <1>0, <1>1, <1>2, <1>3, <2>1, <3>1, <3>2
  <2>3. \A k \in 1..m + 1 : entered'[t][k] \notin SinkSpans =>
          k \in 1..n + 1 /\ \A f \in Frames(t)' : k < f
    <3>1. ASSUME NEW k \in 1..m, entered[t][k] \notin SinkSpans
          PROVE  k \in 1..n /\ \A f \in Frames(t)' : k < f
      BY <1>s, <1>4, <3>1 DEF Stack, AppPairs, m, n
    <3>2. Quiet(t) => m + 1 = n + 1 /\ m + 1 \in 1..n + 1 /\ \A f : f \notin Frames(t)'
      BY <1>0, <1>4, <1>7, <2>1
    <3> QED  BY <1>0, <1>1, <1>3, <3>1, <3>2
  <2> QED  BY <1>0, <1>2, <2>2, <2>3 DEF AppPairs
<1>12. SinkPairs(t)'
  <2>1. ASSUME NEW i \in 1..n, guards[t][i].kind = "span", guards[t][i].span \in SinkSpans
        PROVE  \E k \in 1..m : /\ entered[t][k] = guards[t][i].span
                               /\ \A f \in Frames(t) : f < i <=> guards[t][f].depth < k
    BY <1>s, <2>1 DEF Stack, SinkPairs, m, n
  <2>2. ASSUME NEW i \in 1..n, guards[t][i].kind = "span", guards[t][i].span \in SinkSpans
        PROVE  guards[t][i].span # e.span
    <3>1. PICK f : f \in Frames(t) /\ f < i
      BY <1>s, <2>2 DEF Stack, Layers, n
    <3>2. \A k \in 1..m : entered[t][k] # e.span
      BY <1>7, <3>1 DEF m
    <3> QED  BY <2>1, <2>2, <3>2
  <2>3. ASSUME NEW i \in 1..n + 1, guards'[t][i].kind = "span", guards'[t][i].span \in SinkSpans
        PROVE  \E k \in 1..m + 1 :
                 /\ entered'[t][k] = guards'[t][i].span
                 /\ \A f \in Frames(t)' : f < i <=> guards'[t][f].depth < k
    <3>1. CASE i = n + 1
      BY <1>0, <1>1, <1>2, <1>4, <1>5, <1>6, <3>1
    <3>2. CASE i \in 1..n
      <4>1. PICK k \in 1..m : /\ entered[t][k] = guards[t][i].span
                              /\ \A f \in Frames(t) : f < i <=> guards[t][f].depth < k
        BY <1>2, <2>1, <2>3, <3>2
      <4> QED  BY ZenonT(60), <1>0, <1>1, <1>2, <1>4, <1>5, <3>2, <4>1
    <3> QED  BY <1>3, <3>1, <3>2
  <2>4. ASSUME NEW i \in 1..n + 1, NEW j \in 1..n + 1,
               guards'[t][i].kind = "span", guards'[t][j].kind = "span",
               guards'[t][i].span = guards'[t][j].span, guards'[t][i].span \in SinkSpans
        PROVE  i = j
    <3>1. CASE i \in 1..n /\ j \in 1..n
      BY <1>s, <1>2, <2>4, <3>1 DEF Stack, SinkPairs, n
    <3> QED  BY <1>2, <1>3, <2>2, <2>4, <3>1
  <2> QED  BY <1>0, <1>2, <2>3, <2>4 DEF SinkPairs
<1>13. Flagged(t)'
  BY <1>s, <1>4, <1>5 DEF Stack, Flagged
<1> QED  BY <1>8, <1>9, <1>10, <1>11, <1>12, <1>13 DEF Stack

-----------------------------------------------------------------------------
(* Leaving a span *)

\* What holds of zero and of every successor holds of every number.
LEMMA SetInduction ==
    ASSUME NEW T, 0 \in T, \A n \in Nat : n \in T => n + 1 \in T
    PROVE  Nat \subseteq T
<1> SUFFICES ASSUME Nat \ T # {} PROVE FALSE
  OBVIOUS
<1>1. IsWellFoundedOn(OpToRel(<, Nat), Nat)
  BY NatLessThanWellFounded
<1>2. PICK x \in Nat \ T : \A y \in Nat \ T : ~ (<<y, x>> \in OpToRel(<, Nat))
  BY <1>1, WFMin
<1>3. \A y \in Nat \ T : ~(y < x)
  BY <1>2 DEF OpToRel
<1>4. x # 0 /\ x - 1 \in Nat /\ x - 1 < x /\ (x - 1) + 1 = x
  OBVIOUS
<1> QED  BY <1>3, <1>4

\* A sequence without its element at p.
LEMMA WithoutIs ==
    ASSUME NEW S, NEW q \in Seq(S), NEW p \in 1..Len(q)
    PROVE  /\ Without(q, p) \in Seq(S) /\ Len(Without(q, p)) = Len(q) - 1
           /\ \A i \in 1..Len(q) - 1 : Without(q, p)[i] = IF i < p THEN q[i] ELSE q[i + 1]
<1> DEFINE n == Len(q)
           r == Without(q, p)
           a == SubSeq(q, 1, p - 1)
           b == SubSeq(q, p + 1, n)
<1>1. n \in Nat /\ p \in Nat /\ 1 <= p /\ p <= n /\ \A i \in 1..n : q[i] \in S
  OBVIOUS
<1> HIDE DEF n
<1>2. /\ a \in Seq(S) /\ Len(a) = p - 1
      /\ \A i \in 1..p - 1 : a[i] = q[i]
  <2>1. \A i \in 1..p - 1 : q[i] \in S /\ (1 + i) - 1 = i
    BY <1>1
  <2>2. /\ 1 \in Int /\ p - 1 \in Int /\ ((p - 1) - 1) + 1 = p - 1
        /\ p - 1 = IF 1 <= p - 1 THEN ((p - 1) - 1) + 1 ELSE 0
    BY <1>1
  <2>3. /\ a \in Seq(S) /\ Len(a) = IF 1 <= p - 1 THEN ((p - 1) - 1) + 1 ELSE 0
        /\ \A i \in 1..((p - 1) - 1) + 1 : a[i] = q[(1 + i) - 1]
    BY <2>1, <2>2, SubSeqProperties
  <2> HIDE DEF a
  <2> QED  BY <2>1, <2>2, <2>3
<1>3. /\ b \in Seq(S) /\ Len(b) = n - p
      /\ \A i \in 1..n - p : b[i] = q[i + p]
  <2>1. /\ \A i \in p + 1..n : q[i] \in S
        /\ \A i \in 1..n - p : ((p + 1) + i) - 1 = i + p
    BY <1>1
  <2>2. /\ p + 1 \in Int /\ n \in Int /\ (n - (p + 1)) + 1 = n - p
        /\ n - p = IF p + 1 <= n THEN (n - (p + 1)) + 1 ELSE 0
    BY <1>1
  <2>3. /\ b \in Seq(S) /\ Len(b) = IF p + 1 <= n THEN (n - (p + 1)) + 1 ELSE 0
        /\ \A i \in 1..(n - (p + 1)) + 1 : b[i] = q[((p + 1) + i) - 1]
    BY <2>1, <2>2, SubSeqProperties
  <2> HIDE DEF b
  <2> QED  BY <2>1, <2>2, <2>3
<1>4. r = a \o b
  BY DEF n, Without
<1> HIDE DEF a, b, r
<1>5. /\ r \in Seq(S) /\ Len(r) = Len(a) + Len(b)
      /\ \A i \in 1..Len(a) + Len(b) : r[i] = IF i <= Len(a) THEN a[i] ELSE b[i - Len(a)]
  <2>1. a \in Seq(S) /\ b \in Seq(S)
    BY <1>2, <1>3
  <2>2. /\ a \o b \in Seq(S) /\ Len(a \o b) = Len(a) + Len(b)
        /\ \A i \in 1..Len(a) + Len(b) :
              (a \o b)[i] = IF i <= Len(a) THEN a[i] ELSE b[i - Len(a)]
    BY <2>1, ConcatProperties, Zenon
  <2> QED  BY <1>4, <2>2, Zenon
<1>6. Len(a) + Len(b) = n - 1
  BY <1>1, <1>2, <1>3
<1>7. ASSUME NEW i \in 1..n - 1, i < p PROVE r[i] = q[i]
  <2>1. i \in 1..p - 1 /\ i <= p - 1
    BY <1>1, <1>7
  <2> QED  BY <1>2, <1>5, <1>6, <2>1
<1>8. ASSUME NEW i \in 1..n - 1, ~(i < p) PROVE r[i] = q[i + 1]
  <2>1. ~(i <= p - 1) /\ i - (p - 1) \in 1..n - p /\ (i - (p - 1)) + p = i + 1
    BY <1>1, <1>8
  <2>2. r[i] = b[i - (p - 1)]
    BY <1>2, <1>5, <1>6, <2>1
  <2> QED  BY <1>3, <2>1, <2>2
<1>9. \A i \in 1..n - 1 : r[i] = IF i < p THEN q[i] ELSE q[i + 1]
  BY <1>7, <1>8
<1>10. r \in Seq(S) /\ Len(r) = n - 1
  BY <1>5, <1>6
<1> QED  BY <1>9, <1>10 DEF n, r

LEMMA LastIs ==
    ASSUME NEW S, NEW q \in Seq(S), NEW s, NEW k \in 1..Len(q), q[k] = s
    PROVE  /\ Last(s, q) \in 1..Len(q) /\ q[Last(s, q)] = s
           /\ \A j \in 1..Len(q) : q[j] = s => j <= Last(s, q)
<1> DEFINE P == {i \in 1..Len(q) : q[i] = s}
<1>1. Len(q) \in Nat /\ P \in SUBSET (1..Len(q)) /\ k \in P
  OBVIOUS
<1>2. PICK i \in P : \A j \in P : j <= i
  BY <1>1, GreatestIn
<1>3. \A j \in i + 1..Len(q) : q[j] # s
  <2>1. ASSUME NEW j \in i + 1..Len(q), q[j] = s PROVE FALSE
    <3>1. j \in P /\ ~(j <= i)
      BY <1>1, <1>2, <2>1
    <3> QED  BY <1>2, <3>1
  <2> QED  BY <2>1
<1>4. i \in DOMAIN q /\ q[i] = s /\ \A j \in (i + 1)..Len(q) : q[j] # s
  BY <1>2, <1>3
<1>5. Last(s, q) \in DOMAIN q /\ q[Last(s, q)] = s /\ \A j \in (Last(s, q) + 1)..Len(q) : q[j] # s
  BY <1>4 DEF Last
<1> HIDE DEF P
<1>6. ASSUME NEW j \in 1..Len(q), q[j] = s PROVE j <= Last(s, q)
  BY <1>5, <1>6
<1> QED  BY <1>5, <1>6

\* Dropping the entries from the top down to p leaves what was below p.
LEMMA UnwoundIs ==
    ASSUME BridgeTypes, NEW t \in Threads, Restores(t), NEW p \in 1..Len(guards[t])
    PROVE  Unwound(t, p) = Under(guards[t], p)
<1> DEFINE n == Len(guards[t])
           A == {i \in p..n : guards[t][i].active}
           idle(m) == \A j \in p..m - 1 : ~guards[t][j].active
<1>1. n \in Nat /\ p \in Nat /\ 1 <= p /\ p <= n /\ p..n \subseteq 1..n
  BY ThreadTypes
<1>2. ASSUME NEW m \in p..n + 1, idle(m) PROVE Under(guards[t], m) = Under(guards[t], p)
  <2> DEFINE T == {d \in Nat : p + d <= m => Under(guards[t], p + d) = Under(guards[t], p)}
  <2>1. 0 \in T
    BY <1>1
  <2>2. ASSUME NEW d \in Nat, d \in T PROVE d + 1 \in T
    <3>1. SUFFICES ASSUME p + (d + 1) <= m
                   PROVE  Under(guards[t], p + (d + 1)) = Under(guards[t], p)
      OBVIOUS
    <3>2. p + d <= m /\ p + d \in p..m - 1 /\ p + d \in 1..n
      BY <1>1, <3>1
    <3>3. Under(guards[t], p + d) = Under(guards[t], p)
      BY <2>2, <3>2
    <3>4. guards[t][p + d].ctx = Under(guards[t], p + d)
      BY <1>2, <3>2 DEF Restores
    <3>5. p + (d + 1) # 1 /\ (p + (d + 1)) - 1 = p + d
      BY <1>1
    <3> QED  BY <3>3, <3>4, <3>5 DEF Under
  <2> HIDE DEF T
  <2>3. Nat \subseteq T
    BY <2>1, <2>2, SetInduction
  <2>4. m - p \in Nat /\ p + (m - p) = m
    BY <1>1
  <2> QED  BY <2>3, <2>4 DEF T
<1>3. CASE A = {}
  <2>1. Unwound(t, p) = current[t]
    BY <1>3 DEF Unwound
  <2>2. idle(n + 1) /\ n + 1 \in p..n + 1
    BY <1>1, <1>3
  <2> QED  BY <1>2, <2>1, <2>2 DEF Restores
<1>4. CASE A # {}
  <2>0. A \in SUBSET Nat
    BY <1>1
  <2>1. \E i \in A : \A j \in A : i <= j
    BY <1>4, <2>0, LeastIn
  <2> DEFINE m == CHOOSE i \in A : \A j \in A : i <= j
  <2>2. m \in A /\ \A j \in A : m <= j
    BY <2>1
  <2>3. Unwound(t, p) = guards[t][m].previous
    BY <1>4 DEF Unwound
  <2> HIDE DEF m
  <2>4. m \in 1..n /\ m \in p..n + 1 /\ guards[t][m].active
    BY <1>1, <2>2
  <2>5. ASSUME NEW j \in p..m - 1, guards[t][j].active PROVE FALSE
    <3>1. j \in p..n /\ ~(m <= j)
      BY <1>1, <2>4
    <3> QED  BY <2>2, <2>5, <3>1
  <2> QED  BY <1>2, <2>3, <2>4, <2>5 DEF Restores
<1> QED  BY <1>3, <1>4

\* The registry's stack without its element at q.
LEMMA Left ==
    ASSUME BridgeTypes, NEW t \in Threads, NEW q \in 1..Len(entered[t]),
           entered'[t] = Without(entered[t], q)
    PROVE  /\ Len(entered[t]) \in Nat /\ Len(entered'[t]) = Len(entered[t]) - 1
           /\ \A k \in 1..Len(entered[t]) - 1 :
                 entered'[t][k] = IF k < q THEN entered[t][k] ELSE entered[t][k + 1]
<1>1. entered[t] \in Seq(Spans) /\ Len(entered[t]) \in Nat
  BY ThreadTypes
<1> QED  BY <1>1, WithoutIs

\* The place an element of a stack had before the one at p went.
Skip(p, i) == IF i < p THEN i ELSE i + 1

\* A sink leaves a span that has no guard.
LEMMA ExitedAlone ==
    ASSUME BridgeTypes, SpansKept, NEW t \in Threads, Stack(t), NEW q \in 1..Len(entered[t]),
           entered[t][q] \in SinkSpans, \A f \in Frames(t) : guards[t][f].depth < q,
           \A i \in 1..Len(guards[t]) :
              guards[t][i].kind = "span" => guards[t][i].span # entered[t][q],
           entered'[t] = Without(entered[t], q), guards'[t] = guards[t],
           current'[t] = current[t], inTracing'[t] = inTracing[t], inLog'[t] = inLog[t]
    PROVE  Stack(t)'
<1> DEFINE m == Len(entered[t])
<1>0. /\ m \in Nat /\ q \in 1..m /\ Len(entered'[t]) = m - 1
      /\ \A k \in 1..m - 1 : entered'[t][k] = IF k < q THEN entered[t][k] ELSE entered[t][k + 1]
  BY Left
<1>1. Frames(t)' = Frames(t)
  BY DEF Frames
<1>2. \A f \in Frames(t) : guards[t][f].depth \in Nat
  BY FramesAre, ThreadTypes DEF Entries
<1>3. \E f \in Frames(t) : TRUE
  BY DEF Stack, Layers
<1> HIDE DEF m
<1>4. \A k \in 1..m - 1 : k \in 1..m /\ k + 1 \in 1..m
  BY <1>0
<1>5. \A f \in Frames(t), k \in Nat : ~(k < q) => guards[t][f].depth < k /\ guards[t][f].depth < k + 1
  BY <1>0, <1>2
<1>6. Restores(t)'
  BY DEF Stack, Restores
<1>7. Stands(t)'
  <2>1. \A i \in 1..Len(guards[t]) : guards[t][i].kind = "span" =>
              /\ guards[t][i].span \in Spans /\ span'[guards[t][i].span].phase # "new"
              /\ guards[t][i].ctx = span'[guards[t][i].span].ctx
    BY EntryStands DEF Stack
  <2> QED  BY <2>1 DEF Stands
<1>8. Layers(t)'
  <2>1. ASSUME NEW k \in 1..m - 1
        PROVE  entered'[t][k] \in SinkSpans <=> \E f \in Frames(t) : guards[t][f].depth < k
    <3>1. CASE k < q
      BY <1>0, <1>4, <3>1 DEF Stack, Layers, m
    <3>2. CASE ~(k < q)
      <4>0. k + 1 \in 1..m /\ k \in Nat /\ \E f \in Frames(t) : guards[t][f].depth < k + 1
        BY <1>3, <1>4, <1>5, <3>2
      <4>1. entered[t][k + 1] \in SinkSpans
        BY <4>0 DEF Stack, Layers, m
      <4> QED  BY <1>0, <1>3, <1>5, <3>2, <4>0, <4>1
    <3> QED  BY <3>1, <3>2
  <2>2. \A f \in Frames(t) : guards[t][f].depth <= m - 1
    BY <1>0, <1>2
  <2> QED  BY <1>0, <1>1, <2>1, <2>2 DEF Stack, Layers
<1>9. AppPairs(t)'
  <2>1. ASSUME NEW i \in 1..Len(guards[t]), \A f \in Frames(t) : i < f
        PROVE  i \in 1..m - 1 /\ entered'[t][i] = guards[t][i].span
    <3>1. i \in 1..m /\ entered[t][i] = guards[t][i].span
      BY <2>1 DEF Stack, AppPairs, m
    <3>2. i < q
      <4>1. SUFFICES ASSUME ~(i < q) PROVE FALSE
        OBVIOUS
      <4>2. PICK f \in Frames(t) : guards[t][f].depth < i
        BY SMTT(30), <1>0, <1>3, <1>5, <4>1
      <4>3. guards[t][i].span \in SinkSpans
        BY <3>1, <4>2 DEF Stack, Layers, m
      <4>4. guards[t][i].kind = "span"
        BY <2>1, FramesAre
      <4>5. PICK h \in Frames(t) : h < i
        BY <4>3, <4>4 DEF Stack, Layers
      <4>6. i < h /\ h \in Nat
        BY <2>1, FramesAre
      <4> QED  BY <4>5, <4>6
    <3> QED  BY <1>0, <3>1, <3>2
  <2>2. ASSUME NEW k \in 1..m - 1, entered'[t][k] \notin SinkSpans
        PROVE  k \in 1..Len(guards[t]) /\ \A f \in Frames(t) : k < f
    <3>1. k < q
      <4>1. ASSUME ~(k < q) PROVE entered[t][k + 1] \in SinkSpans
        BY <1>3, <1>4, <1>5, <4>1 DEF Stack, Layers, m
      <4> QED  BY <1>0, <2>2, <4>1
    <3> QED  BY <1>0, <1>4, <2>2, <3>1 DEF Stack, AppPairs, m
  <2> QED  BY <1>0, <1>1, <2>1, <2>2 DEF AppPairs
<1>10. SinkPairs(t)'
  <2>1. ASSUME NEW i \in 1..Len(guards[t]), guards[t][i].kind = "span",
               guards[t][i].span \in SinkSpans
        PROVE  \E k \in 1..m - 1 : /\ entered'[t][k] = guards[t][i].span
                                   /\ \A f \in Frames(t) : f < i <=> guards[t][f].depth < k
    <3>1. PICK k \in 1..m : /\ entered[t][k] = guards[t][i].span
                            /\ \A f \in Frames(t) : f < i <=> guards[t][f].depth < k
      BY <2>1 DEF Stack, SinkPairs, m
    <3>2. CASE k < q
      BY SMTT(30), <1>0, <3>1, <3>2
    <3>3. CASE ~(k < q)
      <4>1. k # q
        BY <2>1, <3>1
      <4>2. k - 1 \in 1..m - 1 /\ k - 1 \in Nat /\ k \in Nat /\ ~(k - 1 < q) /\ (k - 1) + 1 = k
        BY <1>0, <3>3, <4>1
      <4>3. \A f \in Frames(t) : guards[t][f].depth < k - 1 /\ guards[t][f].depth < k
        BY <1>5, <3>3, <4>2
      <4>4. entered'[t][k - 1] = entered[t][k]
        BY <1>0, <4>2
      <4> QED  BY <3>1, <4>2, <4>3, <4>4
    <3> QED  BY <3>2, <3>3
  <2> QED  BY <1>0, <1>1, <2>1 DEF Stack, SinkPairs
<1>11. Flagged(t)'
  BY <1>1 DEF Stack, Flagged
<1> QED  BY <1>6, <1>7, <1>8, <1>9, <1>10, <1>11 DEF Stack

\* A span is left and its guard dropped, those above entered again.
GuardGone(t, p) ==
    /\ Len(guards'[t]) = Len(guards[t]) - 1 /\ DOMAIN guards'[t] = 1..Len(guards[t]) - 1
    /\ \A i \in 1..Len(guards[t]) - 1 :
          IF i < p THEN guards'[t][i] = guards[t][i]
          ELSE /\ guards'[t][i].kind = guards[t][i + 1].kind
               /\ guards'[t][i].span = guards[t][i + 1].span
               /\ guards'[t][i].ctx = guards[t][i + 1].ctx

\* The open calls are below the guard at p and the entrance at q.
CallsBelow(t, p, q) == \A f \in Frames(t) : f < p /\ guards[t][f].depth < q

LEMMA ExitedPopped ==
    ASSUME StackInv, BridgeTypes, SpansKept, NEW t \in Threads,
           NEW q \in 1..Len(entered[t]), NEW p \in 1..Len(guards[t]),
           guards[t][p].kind = "span", guards[t][p].span = entered[t][q], ~inTracing[t],
           Quiet(t) => p = q, ~Quiet(t) => entered[t][q] \in SinkSpans,
           CallsBelow(t, p, q), entered'[t] = Without(entered[t], q), GuardGone(t, p),
           Restores(t)', inTracing'[t] = inTracing[t], inLog'[t] = inLog[t]
    PROVE  Stack(t)'
<1> DEFINE m == Len(entered[t])
           n == Len(guards[t])
<1>s. Stack(t)
  BY DEF StackInv
<1>0. /\ m \in Nat /\ q \in 1..m /\ Len(entered'[t]) = m - 1
      /\ \A k \in 1..m - 1 : entered'[t][k] = IF k < q THEN entered[t][k] ELSE entered[t][k + 1]
  BY Left
<1>1. n \in Nat /\ p \in 1..n /\ Len(guards'[t]) = n - 1 /\ DOMAIN guards'[t] = 1..n - 1
  BY ThreadTypes DEF GuardGone
<1>c. \A f \in Frames(t) : f < p /\ guards[t][f].depth < q
  BY DEF CallsBelow
<1>a. \A i \in 1..n - 1 : i < p => guards'[t][i] = guards[t][i]
  BY DEF GuardGone
<1>b. \A i \in 1..n - 1 : /\ guards'[t][i].kind = guards[t][Skip(p, i)].kind
                          /\ guards'[t][i].span = guards[t][Skip(p, i)].span
                          /\ guards'[t][i].ctx = guards[t][Skip(p, i)].ctx
  BY DEF Skip, GuardGone
<1>2. \A i \in 1..n - 1 : Skip(p, i) \in 1..n /\ Skip(p, i) # p /\ i \in 1..n /\ i + 1 \in 1..n
  BY <1>1 DEF Skip
<1>3. \A i, j \in 1..n - 1 : Skip(p, i) = Skip(p, j) => i = j
  BY <1>1 DEF Skip
<1>4. \A f \in Frames(t) : f \in 1..n - 1 /\ guards'[t][f] = guards[t][f] /\ Skip(p, f) = f
  BY SMTT(30), <1>1, <1>a, <1>c, FramesAre DEF Skip
<1>5. Frames(t)' = Frames(t)
  <2>1. ASSUME NEW f, f \in Frames(t)' PROVE f \in Frames(t)
    <3>1. f \in 1..n - 1 /\ guards[t][Skip(p, f)].kind # "span"
      BY <1>1, <1>b, <2>1 DEF Frames
    <3>2. Skip(p, f) \in Frames(t)
      BY <1>2, <3>1, FramesAre
    <3>3. Skip(p, f) < p
      BY <1>c, <3>2
    <3> QED  BY <1>1, <3>1, <3>2, <3>3 DEF Skip
  <2>2. ASSUME NEW f, f \in Frames(t) PROVE f \in Frames(t)'
    BY <1>1, <1>4, <2>2, FramesAre DEF Frames
  <2> QED  BY <2>1, <2>2
<1>6. \A f \in Frames(t) : guards[t][f].depth \in Nat
  BY FramesAre, ThreadTypes DEF Entries
<1>7. \A f \in Frames(t), k \in Nat : ~(k < q) => guards[t][f].depth < k /\ guards[t][f].depth < k + 1
  BY SMTT(30), <1>0, <1>6, <1>c
<1>8. \A f \in Frames(t), i \in Nat : ~(i < p) => f < i /\ f < i + 1
  BY <1>1, <1>c, FramesAre
<1>9. Quiet(t) <=> \A f : f \notin Frames(t)
  BY DEF Quiet
<1>10. \A k \in 1..m - 1 : k \in 1..m /\ k + 1 \in 1..m
  BY <1>0
<1>11. ~Quiet(t) => \A k \in 1..m : ~(k < q) => entered[t][k] \in SinkSpans
  <2>1. ASSUME ~Quiet(t), NEW k \in 1..m, ~(k < q) PROVE entered[t][k] \in SinkSpans
    <3>1. \E f \in Frames(t) : guards[t][f].depth < k
      BY <1>0, <1>7, <1>9, <2>1
    <3> QED  BY <1>s, <3>1 DEF Stack, Layers, m
  <2> QED  BY <2>1
<1>12. Quiet(t) => m = n /\ \A i \in 1..n : entered[t][i] = guards[t][i].span /\ entered[t][i] \notin SinkSpans
  BY QuietAgree DEF m, n
<1>13. \A i \in 1..n - 1 : guards[t][Skip(p, i)].kind = "span" =>
          ((\E f \in Frames(t) : f < i) <=> \E f \in Frames(t) : f < Skip(p, i))
  BY <1>1, <1>8 DEF Skip
<1>14. \A i \in 1..n : guards[t][i].kind = "span" => guards[t][i].span \in Spans
  BY <1>s DEF Stack, Stands, n
<1> HIDE DEF m, n
<1>15. Stands(t)'
  <2>1. ASSUME NEW i \in 1..n - 1, guards[t][Skip(p, i)].kind = "span"
        PROVE  LET e == guards[t][Skip(p, i)]
               IN  e.span \in Spans /\ span'[e.span].phase # "new" /\ e.ctx = span'[e.span].ctx
    BY <1>s, <1>2, <1>14, <2>1 DEF Stack, Stands, SpansKept, n
  <2>2. ASSUME NEW i \in 1..n - 1, guards'[t][i].kind = "span"
        PROVE  /\ guards'[t][i].span \in Spans /\ span'[guards'[t][i].span].phase # "new"
               /\ guards'[t][i].ctx = span'[guards'[t][i].span].ctx
    <3>1. /\ guards'[t][i].kind = guards[t][Skip(p, i)].kind
          /\ guards'[t][i].span = guards[t][Skip(p, i)].span
          /\ guards'[t][i].ctx = guards[t][Skip(p, i)].ctx
      BY <1>b
    <3> QED  BY <2>1, <2>2, <3>1
  <2> QED  BY <1>1, <2>2 DEF Stands
<1>16. Layers(t)'
  <2>1. ASSUME NEW k \in 1..m - 1
        PROVE  entered'[t][k] \in SinkSpans <=> \E f \in Frames(t) : guards[t][f].depth < k
    <3>1. CASE k < q
      BY <1>s, <1>0, <1>10, <3>1 DEF Stack, Layers, m
    <3>2. CASE ~(k < q) /\ Quiet(t)
      BY <1>0, <1>9, <1>10, <1>12, <3>2 DEF m
    <3>3. CASE ~(k < q) /\ ~Quiet(t)
      <4>1. ~(k + 1 < q) /\ k \in Nat
        BY <1>0, <3>3
      <4> QED  BY <1>0, <1>7, <1>9, <1>10, <1>11, <3>3, <4>1
    <3> QED  BY <3>1, <3>2, <3>3
  <2>2. \A f \in Frames(t) : guards[t][f].depth <= m - 1
    BY <1>0, <1>6, <1>c
  <2>3. \A i \in 1..n - 1 : guards'[t][i].kind = "span" =>
          (guards'[t][i].span \in SinkSpans <=> \E f \in Frames(t) : f < i)
    <3>1. ASSUME NEW i \in 1..n, guards[t][i].kind = "span"
          PROVE  guards[t][i].span \in SinkSpans <=> \E f \in Frames(t) : f < i
      BY <1>s, <3>1 DEF Stack, Layers, n
    <3> QED  BY <1>b, <1>2, <1>13, <3>1
  <2>4. \A f, h \in Frames(t) : f < h => guards'[t][f].depth <= guards'[t][h].depth
    BY <1>s, <1>4 DEF Stack, Layers
  <2>5. \A f \in Frames(t) : guards'[t][f].depth <= m - 1 /\ guards'[t][f].depth = guards[t][f].depth
    BY <1>4, <2>2
  <2>6. \A k \in 1..m - 1 :
          entered'[t][k] \in SinkSpans <=> \E f \in Frames(t) : guards'[t][f].depth < k
    BY <2>1, <2>5
  <2> QED  BY <1>0, <1>1, <1>5, <2>3, <2>4, <2>5, <2>6 DEF Layers
<1>17. AppPairs(t)'
  <2>1. CASE Quiet(t)
    <3>1. \A i \in 1..n - 1 : i \in 1..m - 1 /\ entered'[t][i] = guards'[t][i].span
      BY ZenonT(60), <1>0, <1>1, <1>b, <1>2, <1>12, <2>1 DEF Skip
    <3>2. \A k \in 1..m - 1 : k \in 1..n - 1 /\ \A f \in Frames(t) : k < f
      BY <1>9, <1>12, <2>1
    <3> QED  BY <1>0, <1>1, <1>5, <3>1, <3>2 DEF AppPairs
  <2>2. CASE ~Quiet(t)
    <3>1. ASSUME NEW i \in 1..n - 1, \A f \in Frames(t) : i < f
          PROVE  i \in 1..m - 1 /\ entered'[t][i] = guards'[t][i].span
      <4>1. PICK f : f \in Frames(t) /\ i < f
        BY <1>9, <2>2, <3>1
      <4>2. i < p /\ i \in 1..n
        BY <1>1, <1>2, <1>c, <4>1, FramesAre
      <4>3. i \in 1..m /\ entered[t][i] = guards[t][i].span
        BY <1>s, <3>1, <4>2 DEF Stack, AppPairs, m, n
      <4>4. i < q
        <5>1. SUFFICES ASSUME ~(i < q) PROVE FALSE
          OBVIOUS
        <5>2. guards[t][i].span \in SinkSpans
          BY <1>11, <2>2, <4>3, <5>1
        <5>3. i \notin Frames(t)
          BY <3>1, <4>2
        <5>4. guards[t][i].kind = "span"
          BY <4>2, <5>3, FramesAre DEF n
        <5>5. PICK h \in Frames(t) : h < i
          BY <1>s, <4>2, <5>2, <5>4 DEF Stack, Layers, n
        <5>6. i < h /\ h \in Nat
          BY <3>1, FramesAre
        <5> QED  BY <5>5, <5>6
      <4> QED  BY <1>0, <1>a, <4>2, <4>3, <4>4
    <3>2. ASSUME NEW k \in 1..m - 1, entered'[t][k] \notin SinkSpans
          PROVE  k \in 1..n - 1 /\ \A f \in Frames(t) : k < f
      <4>1. k < q
        <5>1. ASSUME ~(k < q) PROVE entered[t][k + 1] \in SinkSpans
          <6>1. ~(k + 1 < q)
            BY <1>0, <5>1
          <6> QED  BY <1>10, <1>11, <2>2, <6>1
        <5> QED  BY <1>0, <3>2, <5>1
      <4>2. k \in 1..n /\ \A f \in Frames(t) : k < f
        BY <1>s, <1>0, <1>10, <3>2, <4>1 DEF Stack, AppPairs, m, n
      <4>3. PICK f : f \in Frames(t) /\ k < f
        BY <1>9, <2>2, <4>2
      <4> QED  BY <1>1, <1>4, <4>2, <4>3
    <3> QED  BY <1>0, <1>1, <1>5, <3>1, <3>2 DEF AppPairs
  <2> QED  BY <2>1, <2>2
<1>18. SinkPairs(t)'
  <2>1. ASSUME NEW i \in 1..n - 1, guards'[t][i].kind = "span", guards'[t][i].span \in SinkSpans
        PROVE  \E k \in 1..m - 1 : /\ entered'[t][k] = guards'[t][i].span
                                   /\ \A f \in Frames(t) : f < i <=> guards[t][f].depth < k
    <3> DEFINE j == Skip(p, i)
    <3>0. /\ j \in 1..n /\ j # p /\ guards[t][j].kind = "span"
          /\ guards[t][j].span = guards'[t][i].span /\ guards[t][j].span \in SinkSpans
      BY <1>b, <1>2, <2>1
    <3>1. \A f \in Frames(t) : f < i <=> f < j
      <4>1. i \in Nat
        BY <1>1
      <4> QED  BY <1>8, <4>1 DEF Skip
    <3> HIDE DEF j
    <3>2. PICK k \in 1..m : /\ entered[t][k] = guards[t][j].span
                            /\ \A f \in Frames(t) : f < j <=> guards[t][f].depth < k
      BY <1>s, <3>0 DEF Stack, SinkPairs, m, n
    <3>3. CASE k < q
      <4>1. k \in 1..m - 1
        BY <1>0, <3>3
      <4> QED  BY <1>0, <3>0, <3>1, <3>2, <3>3, <4>1
    <3>4. CASE ~(k < q)
      <4>1. k # q
        <5>1. ASSUME k = q PROVE j = p
          BY <1>s, <1>1, <3>0, <3>2, <5>1 DEF Stack, SinkPairs, n
        <5> QED  BY <3>0, <5>1
      <4>2. k - 1 \in 1..m - 1 /\ k - 1 \in Nat /\ k \in Nat /\ ~(k - 1 < q) /\ (k - 1) + 1 = k
        BY <1>0, <3>4, <4>1
      <4>3. \A f \in Frames(t) : guards[t][f].depth < k - 1 /\ guards[t][f].depth < k
        BY <1>7, <3>4, <4>2
      <4>4. entered'[t][k - 1] = entered[t][k]
        BY <1>0, <4>2
      <4> QED  BY <3>0, <3>1, <3>2, <4>2, <4>3, <4>4
    <3> QED  BY <3>3, <3>4
  <2>2. ASSUME NEW i \in 1..n - 1, NEW j \in 1..n - 1,
               guards'[t][i].kind = "span", guards'[t][j].kind = "span",
               guards'[t][i].span = guards'[t][j].span, guards'[t][i].span \in SinkSpans
        PROVE  i = j
    <3>1. Skip(p, i) = Skip(p, j)
      <4>1. \A k, l \in 1..n :
              /\ guards[t][k].kind = "span" /\ guards[t][l].kind = "span"
              /\ guards[t][k].span = guards[t][l].span /\ guards[t][k].span \in SinkSpans
              => k = l
        BY <1>s DEF Stack, SinkPairs, n
      <4>2. /\ guards[t][Skip(p, i)].kind = "span" /\ guards[t][Skip(p, i)].span = guards'[t][i].span
            /\ guards[t][Skip(p, j)].kind = "span" /\ guards[t][Skip(p, j)].span = guards'[t][j].span
        BY <1>b, <2>2
      <4>3. Skip(p, i) \in 1..n /\ Skip(p, j) \in 1..n
        BY <1>2
      <4> QED  BY <2>2, <4>1, <4>2, <4>3
    <3> QED  BY <1>3, <3>1
  <2>3. \A f \in Frames(t) : guards'[t][f].depth = guards[t][f].depth
    BY <1>4
  <2>4. ASSUME NEW i \in 1..n - 1, guards'[t][i].kind = "span", guards'[t][i].span \in SinkSpans
        PROVE  \E k \in 1..m - 1 : /\ entered'[t][k] = guards'[t][i].span
                                   /\ \A f \in Frames(t) : f < i <=> guards'[t][f].depth < k
    BY SMTT(30), <2>1, <2>3, <2>4
  <2> QED  BY <1>0, <1>1, <1>5, <2>2, <2>4 DEF SinkPairs
<1>19. Flagged(t)'
  BY <1>s, <1>4, <1>5 DEF Stack, Flagged
<1> QED  BY <1>15, <1>16, <1>17, <1>18, <1>19 DEF Stack

\* Nothing has a context before there is a dispatcher.
LEMMA AbsentNone ==
    ASSUME StackInv, ~Present
    PROVE  /\ contexts = <<>> /\ Tokens = {NONE}
           /\ \A t \in Threads : \A i \in 1..Len(guards[t]) : ~guards[t][i].active
<1>1. contexts = <<>>
  BY DEF StackInv, Rest
<1>2. Len(contexts) = 0
  BY <1>1
<1>3. Tokens = {NONE}
  BY <1>2 DEF Tokens, NONE
<1> QED  BY <1>1, <1>3 DEF StackInv, Rest

LEMMA FunctionIsSeq ==
    ASSUME NEW S, NEW n \in Nat, NEW f \in [1..n -> S]
    PROVE  f \in Seq(S) /\ Len(f) = n /\ DOMAIN f = 1..n
OBVIOUS

\* Unwinding and entering again leaves the other guards, each over what is
\* below it now, and the thread under the topmost.
LEMMA ReenteredIs ==
    ASSUME StackInv, BridgeTypes, NEW t \in Threads, NEW p \in 1..Len(guards[t]),
           \A i \in p..Len(guards[t]) : guards[t][i].kind = "span",
           span' = span, guards'[t] = Reentered(t, p),
           current'[t] = IF p = Len(guards[t]) THEN Unwound(t, p)
                         ELSE Entering(t, span[Top(guards[t]).span].ctx)
    PROVE  /\ guards'[t] \in Seq(Entries) /\ current'[t] \in Tokens
           /\ GuardGone(t, p)
           /\ ~Present => \A i \in 1..Len(guards[t]) - 1 : ~guards'[t][i].active
           /\ Restores(t)'
<1> DEFINE n == Len(guards[t])
           g == guards[t]
           new == guards'[t]
           below(i) == IF i = p THEN Unwound(t, p) ELSE Entering(t, span[g[i].span].ctx)
<1>1. n \in Nat /\ p \in 1..n /\ n - 1 \in Nat /\ g \in Seq(Entries)
      /\ \A i \in 1..n : g[i] \in Entries
  BY ThreadTypes
<1>2. Unwound(t, p) = Under(g, p)
  BY UnwoundIs DEF StackInv, Stack
<1>3. \A i \in p..n : i \in 1..n /\ g[i].span \in Spans /\ g[i].ctx = span[g[i].span].ctx
                      /\ span[g[i].span].ctx \in Tokens
  <2>1. \A i \in p..n : i \in 1..n
    BY <1>1
  <2>2. \A i \in p..n : g[i].span \in Spans /\ g[i].ctx = span[g[i].span].ctx
    BY <2>1 DEF StackInv, Stack, Stands
  <2>3. \A s \in Spans : span[s].ctx \in Tokens
    BY DEF BridgeTypes
  <2> QED  BY <2>1, <2>2, <2>3
<1>4. \A i \in 1..n : Under(g, i) \in Tokens
  <2>1. \A i \in 1..n : g[i].ctx \in Tokens
    BY <1>1 DEF Entries
  <2>2. NONE \in Tokens
    <3>1. Len(contexts) \in Nat
      BY DEF BridgeTypes
    <3> QED  BY <3>1 DEF Tokens, NONE
  <2>3. \A i \in 1..n : i # 1 => i - 1 \in 1..n
    BY <1>1
  <2> QED  BY <2>1, <2>2, <2>3 DEF Under
<1>5. current[t] \in Tokens
  BY DEF BridgeTypes
<1>6. \A i \in 1..n - 1 : i \in 1..n /\ i + 1 \in 1..n /\ (i < p \/ (i \in p..n /\ i + 1 \in p..n))
  BY <1>1
<1>7. \A i \in p..n : below(i) \in Tokens
  BY <1>1, <1>2, <1>3, <1>4, <1>5 DEF Entering
<1>8. new = [i \in 1..(n - 1) |->
                IF i < p THEN g[i]
                ELSE IF ~Present THEN g[i + 1]
                     ELSE [g[i + 1] EXCEPT !.active = TRUE, !.previous = below(i),
                                           !.ctx = span[g[i + 1].span].ctx]]
  BY DEF Reentered
<1> HIDE DEF n, g, new, below
<1>9. ASSUME NEW i \in 1..n - 1, i < p PROVE new[i] = g[i] /\ new[i] \in Entries
  BY <1>1, <1>6, <1>8, <1>9
<1>10. ASSUME NEW i \in 1..n - 1, ~(i < p)
       PROVE  /\ new[i] \in Entries
              /\ new[i].kind = g[i + 1].kind /\ new[i].span = g[i + 1].span
              /\ new[i].ctx = g[i + 1].ctx
              /\ IF Present THEN new[i].active = TRUE /\ new[i].previous = below(i)
                            ELSE new[i] = g[i + 1]
  <2> DEFINE e == g[i + 1]
  <2>1. e \in Entries /\ e.ctx = span[e.span].ctx /\ below(i) \in Tokens
    BY <1>1, <1>3, <1>6, <1>7, <1>10
  <2>2. CASE ~Present
    BY <1>8, <1>10, <2>1, <2>2
  <2>3. CASE Present
    <3>1. new[i] = [e EXCEPT !.active = TRUE, !.previous = below(i), !.ctx = span[e.span].ctx]
      BY <1>8, <1>10, <2>3
    <3>2. span[e.span].ctx \in Tokens
      BY <1>3, <1>6, <1>10
    <3> HIDE DEF e
    <3>3. new[i] \in Entries
      BY ZenonT(60), <2>1, <3>1, <3>2 DEF Entries
    <3>4. /\ new[i].kind = e.kind /\ new[i].span = e.span /\ new[i].ctx = e.ctx
          /\ new[i].active = TRUE /\ new[i].previous = below(i)
      BY <2>1, <3>1 DEF Entries
    <3> QED  BY <2>3, <3>3, <3>4 DEF e
  <2> QED  BY <2>2, <2>3
<1>11. new \in [1..n - 1 -> Entries]
  BY <1>8, <1>9, <1>10
<1>12. new \in Seq(Entries) /\ Len(new) = n - 1 /\ DOMAIN new = 1..n - 1
  BY <1>1, <1>11, FunctionIsSeq
<1>13. current'[t] \in Tokens
  <2>1. p = n => current'[t] = below(p)
    BY DEF below, n
  <2>2. p # n => current'[t] = Entering(t, span[g[n].span].ctx)
    BY DEF Top, g, n
  <2>3. n \in p..n /\ p \in p..n
    BY <1>1
  <2> QED  BY <1>3, <1>5, <1>7, <2>1, <2>2, <2>3 DEF Entering
<1>14. Under(new, p) = Under(g, p)
  <2>1. p # 1 => p - 1 \in 1..n - 1 /\ p - 1 < p
    BY <1>1
  <2> QED  BY <1>9, <2>1 DEF Under
<1>15. ASSUME NEW i \in p + 1..n PROVE Under(new, i) = span[g[i].span].ctx
  <2>1. i - 1 \in 1..n - 1 /\ ~(i - 1 < p) /\ (i - 1) + 1 = i /\ i # 1 /\ i \in p..n
    BY <1>1
  <2> QED  BY <1>3, <1>10, <2>1 DEF Under
<1>16. Restores(t)'
  <2>1. CASE Present
    <3>1. ASSUME NEW i \in 1..n - 1, i < p
          PROVE  IF new[i].active THEN new[i].previous = Under(new, i) ELSE new[i].ctx = Under(new, i)
      <4>1. i # 1 => i - 1 \in 1..n - 1 /\ i - 1 < p
        BY <1>1, <3>1
      <4>2. Under(new, i) = Under(g, i)
        BY <1>9, <4>1 DEF Under
      <4> QED  BY <1>6, <1>9, <3>1, <4>2 DEF StackInv, Stack, Restores, g, n
    <3>2. ASSUME NEW i \in 1..n - 1, ~(i < p)
          PROVE  new[i].active = TRUE /\ new[i].previous = Under(new, i)
      <4>1. i = p \/ i \in p + 1..n
        BY <1>1, <3>2
      <4>2. below(i) = Under(new, i)
        BY <1>2, <1>14, <1>15, <2>1, <4>1 DEF below, Entering
      <4> QED  BY <1>10, <2>1, <3>2, <4>2
    <3>3. current'[t] = Under(new, (n - 1) + 1)
      <4>1. (n - 1) + 1 = n /\ (p = n \/ n \in p + 1..n)
        BY <1>1
      <4>2. p # n => current'[t] = span[g[n].span].ctx
        BY <2>1 DEF Entering, Top, g, n
      <4>3. p = n => current'[t] = Under(g, p)
        BY <1>2 DEF n
      <4> QED  BY <1>14, <1>15, <4>1, <4>2, <4>3
    <3>4. \A i \in 1..n - 1 :
            IF new[i].active THEN new[i].previous = Under(new, i) ELSE new[i].ctx = Under(new, i)
      BY <3>1, <3>2
    <3> QED  BY <1>12, <3>3, <3>4 DEF Restores, new
  <2>2. CASE ~Present
    <3>1. Tokens = {NONE} /\ \A i \in 1..n : ~g[i].active
      BY <2>2, AbsentNone DEF g, n
    <3>2. \A i \in 1..n - 1 : new[i].ctx = NONE /\ ~new[i].active
      <4>1. ASSUME NEW i \in 1..n - 1 PROVE new[i].ctx = NONE /\ ~new[i].active
        <5>1. new[i] \in Entries
          BY <1>9, <1>10
        <5>2. new[i].ctx = NONE
          BY <3>1, <5>1 DEF Entries
        <5>3. new[i] = g[i] \/ new[i] = g[i + 1]
          BY <1>9, <1>10, <2>2
        <5> QED  BY <1>6, <3>1, <5>2, <5>3
      <4> QED  BY <4>1
    <3>3. \A i \in 1..n : Under(new, i) = NONE
      <4>1. \A i \in 1..n : i # 1 => i - 1 \in 1..n - 1
        BY <1>1
      <4> QED  BY <3>2, <4>1 DEF Under
    <3>4. (n - 1) + 1 = n /\ n \in 1..n /\ current'[t] = NONE
      BY <1>1, <1>13, <3>1
    <3> QED  BY <1>6, <1>12, <3>2, <3>3, <3>4 DEF Restores, new
  <2> QED  BY <2>1, <2>2
<1>17. ~Present => \A i \in 1..n - 1 : ~new[i].active
  <2>1. ASSUME ~Present, NEW i \in 1..n - 1 PROVE ~new[i].active
    <3>1. new[i] = g[i] \/ new[i] = g[i + 1]
      BY <1>9, <1>10, <2>1
    <3> QED  BY <1>6, <2>1, <3>1, AbsentNone DEF g, n
  <2> QED  BY <2>1
<1>18. GuardGone(t, p)
  BY <1>9, <1>10, <1>12 DEF n, g, new, GuardGone
<1> QED  BY <1>12, <1>13, <1>16, <1>17, <1>18 DEF n, g, new

-----------------------------------------------------------------------------
(* Every step keeps the stacks *)

SpanRecords == [phase : {"new", "open", "closed"}, bridged : BOOLEAN,
                ctx : Tokens, parent : Spans \cup {NoSpan}]
Contexts == Seq([parent : Tokens, links : SUBSET Tokens])

\* The application's spans are known to the bridge.
AppBridged == \A s \in Spans \ SinkSpans : span[s].phase # "new" => span[s].bridged

\* A sink's span is entered once.
SinkOnce ==
    \A t, u \in Threads : \A k \in 1..Len(entered[t]), m \in 1..Len(entered[u]) :
        entered[t][k] = entered[u][m] /\ entered[t][k] \in SinkSpans => t = u /\ k = m

Idle == \A t \in Threads : \A i \in 1..Len(guards[t]) : ~guards[t][i].active

LEMMA RestIs == Rest <=> (~Present => contexts = <<>> /\ Idle) /\ AppBridged /\ SinkOnce
BY DEF Rest, AppBridged, SinkOnce, Idle

\* Only the stacks of t may change.
Others(t) ==
    \A u \in Threads : u # t =>
        /\ guards'[u] = guards[u] /\ entered'[u] = entered[u] /\ current'[u] = current[u]
        /\ inTracing'[u] = inTracing[u] /\ inLog'[u] = inLog[u]

LEMMA StacksKept ==
    ASSUME StackInv, NEW t \in Threads, Others(t), SpansKept, Stack(t)', SlotTypeOK', BridgeTypes', Rest'
    PROVE  StackInv'
<1>1. BridgeTypes
  BY DEF StackInv, TypeOK, BridgeTypes
<1>2. ASSUME NEW u \in Threads, u # t PROVE Stack(u)'
  BY <1>1, <1>2, StackKept DEF Others, StackInv
<1>3. TypeOK'
  BY DEF TypeOK, BridgeTypes
<1> QED  BY <1>2, <1>3 DEF StackInv

\* More contexts: what had a token has it still.
LEMMA TypesGrow ==
    ASSUME BridgeTypes, Tokens \subseteq Tokens'
    PROVE  /\ Entries \subseteq Entries' /\ SpanRecords \subseteq SpanRecords'
           /\ guards \in [Threads -> Seq(Entries')] /\ current \in [Threads -> Tokens']
           /\ span \in [Spans -> SpanRecords']
<1>1. Entries \subseteq Entries' /\ SpanRecords \subseteq SpanRecords'
  BY DEF Entries, SpanRecords
<1>2. Seq(Entries) \subseteq Seq(Entries')
  BY <1>1, SeqMonotonic
<1>3. guards \in [Threads -> Seq(Entries)] /\ span \in [Spans -> SpanRecords]
      /\ current \in [Threads -> Tokens]
  BY DEF BridgeTypes, SpanRecords
<1> HIDE DEF Entries, SpanRecords, Tokens
<1>4. guards \in [Threads -> Seq(Entries')] /\ span \in [Spans -> SpanRecords']
  BY <1>1, <1>2, <1>3
<1>5. current \in [Threads -> Tokens']
  BY <1>3
<1> QED  BY <1>1, <1>4, <1>5

LEMMA ContextCreated ==
    ASSUME BridgeTypes, NEW parent \in Tokens, CreateContext(parent)
    PROVE  /\ Tokens \subseteq Tokens' /\ contexts' \in Contexts' /\ NewToken \in Tokens'
           /\ ~Present => contexts' = contexts
<1>1. contexts \in Contexts /\ Len(contexts) \in Nat
  BY DEF BridgeTypes, Contexts
<1>2. CASE ~Present
  <2>1. contexts' = contexts
    BY <1>2 DEF CreateContext
  <2>2. NewToken \in Tokens'
    BY <1>1, <1>2, <2>1 DEF NewToken, Tokens, NONE
  <2> QED  BY <1>1, <2>1, <2>2 DEF Tokens, Contexts
<1>3. CASE Present
  <2> DEFINE c == [parent |-> parent, links |-> {}]
  <2>1. contexts' = Append(contexts, c)
    BY <1>3 DEF CreateContext
  <2>2. Len(contexts') = Len(contexts) + 1
    BY <1>1, <2>1 DEF Contexts
  <2>3. Tokens \subseteq Tokens' /\ NewToken \in Tokens'
    BY <1>1, <1>3, <2>2 DEF Tokens, NewToken
  <2>4. [parent : Tokens, links : SUBSET Tokens] \subseteq [parent : Tokens', links : SUBSET Tokens']
    BY <2>3
  <2>5. contexts \in Seq([parent : Tokens', links : SUBSET Tokens'])
    BY <1>1, <2>4, SeqMonotonic DEF Contexts
  <2>6. c \in [parent : Tokens', links : SUBSET Tokens']
    BY <2>3
  <2> HIDE DEF c
  <2>7. contexts' \in Seq([parent : Tokens', links : SUBSET Tokens'])
    BY <2>1, <2>5, <2>6, AppendProperties
  <2> QED  BY <1>3, <2>3, <2>7 DEF Contexts
<1> QED  BY <1>2, <1>3

LEMMA ContextLinked ==
    ASSUME BridgeTypes, NEW ctx, NEW related \in Tokens, LinkContext(ctx, related)
    PROVE  /\ Tokens' = Tokens /\ contexts' \in Contexts'
           /\ ~Present => contexts' = contexts
<1> DEFINE C == [parent : Tokens, links : SUBSET Tokens]
<1>1. contexts \in Seq(C) /\ Len(contexts) \in Nat
  BY DEF BridgeTypes
<1>2. CASE ~(Present /\ ctx \in 1..Len(contexts))
  <2>1. contexts' = contexts
    BY <1>2 DEF LinkContext
  <2> QED  BY <1>1, <2>1 DEF Tokens, Contexts
<1>3. CASE Present /\ ctx \in 1..Len(contexts)
  <2> DEFINE c == [contexts[ctx] EXCEPT !.links = @ \cup {related}]
  <2>1. contexts[ctx] \in C
    <3> HIDE DEF C
    <3> QED  BY <1>1, <1>3, ElementOfSeq
  <2>2. c \in C
    BY <2>1
  <2>3. contexts' = [contexts EXCEPT ![ctx] = c]
    BY <1>3 DEF LinkContext
  <2> HIDE DEF c, C
  <2>4. contexts' \in Seq(C) /\ Len(contexts') = Len(contexts)
    BY <1>1, <1>3, <2>2, <2>3, ExceptSeq
  <2>5. Tokens' = Tokens
    BY <2>4 DEF Tokens
  <2> QED  BY <1>3, <2>4, <2>5 DEF Contexts, C
<1> QED  BY <1>2, <1>3

\* The entry of a call or of a span, with the guard its context takes.
LEMMA EntryOver ==
    ASSUME BridgeTypes, NEW t \in Threads, Tokens \subseteq Tokens', NEW ctx \in Tokens',
           NEW s \in Spans \cup {NoSpan}, NEW kind \in {"span", "tracing", "log"},
           NEW e, e = Entry(kind, s, Entering(t, ctx), Guard(t, ctx))
    PROVE  /\ e \in Entries' /\ e.kind = kind /\ e.span = s /\ e.depth = Len(entered[t])
           /\ e.ctx = Entering(t, ctx) /\ e.active = Present /\ e.active \in BOOLEAN
           /\ IF e.active THEN e.previous = current[t] ELSE e.ctx = current[t]
<1>1. Len(entered[t]) \in Nat /\ current[t] \in Tokens' /\ NONE \in Tokens'
  <2>1. Len(contexts) \in Nat
    BY DEF BridgeTypes
  <2>2. NONE \in Tokens
    BY <2>1 DEF Tokens, NONE
  <2> QED  BY <2>2, ThreadTypes
<1>2. Entering(t, ctx) \in Tokens' /\ (IF Present THEN current[t] ELSE NONE) \in Tokens'
  BY <1>1 DEF Entering
<1>3. Present \in BOOLEAN
  BY DEF Present
<1> HIDE DEF Tokens
<1> QED  BY <1>1, <1>2, <1>3 DEF Entry, Guard, Entries, Entering

LEMMA EntryApart ==
    ASSUME BridgeTypes, NEW t \in Threads, Tokens \subseteq Tokens',
           NEW kind \in {"span", "tracing", "log"}
    PROVE  LET e == Entry(kind, NoSpan, current[t], NoGuard(t))
           IN  /\ e \in Entries' /\ e.kind = kind /\ e.depth = Len(entered[t])
               /\ e.ctx = current[t] /\ e.active = FALSE
<1>1. Len(entered[t]) \in Nat /\ current[t] \in Tokens' /\ NONE \in Tokens'
  <2>1. Len(contexts) \in Nat
    BY DEF BridgeTypes
  <2>2. NONE \in Tokens
    BY <2>1 DEF Tokens, NONE
  <2> QED  BY <2>2, ThreadTypes
<1> HIDE DEF Tokens
<1> QED  BY <1>1 DEF Entry, NoGuard, Entries

\* A callback, with what it did to the registry's spans and to the contexts.
LEMMA CallbackStep ==
    ASSUME StackInv, NEW t \in Threads, NEW e, NEW wanted, Callback(t, e, wanted),
           Tokens \subseteq Tokens', e \in Entries', e.kind = "tracing", e.depth = Len(entered[t]),
           IF e.active THEN e.previous = current[t] ELSE e.ctx = current[t],
           SpansKept, AppBridged', span' \in [Spans -> SpanRecords'],
           contexts' \in Contexts', ~Present => contexts' = contexts,
           UNCHANGED <<entered, inLog, slotVars>>
    PROVE  StackInv'
<1>1. BridgeTypes /\ SlotTypeOK'
  BY DEF StackInv, TypeOK, BridgeTypes, SlotTypeOK, slotVars
<1>2. entered' = entered /\ inLog' = inLog /\ Present' = Present
  BY DEF slotVars, Present, Dispatcher, Visible
<1>3. guards \in [Threads -> Seq(Entries')] /\ current \in [Threads -> Tokens']
  BY <1>1, TypesGrow
<1>4. /\ entered \in [Threads -> Seq(Spans)] /\ inLog \in [Threads -> BOOLEAN]
      /\ inTracing \in [Threads -> BOOLEAN]
  BY <1>1 DEF BridgeTypes
<1>5. SinkOnce'
  BY <1>2 DEF StackInv, Rest, SinkOnce
<1>6. CASE ~wanted
  <2>1. guards' = guards /\ current' = current /\ inTracing' = inTracing
    BY <1>6 DEF Callback
  <2>2. BridgeTypes'
    BY <1>2, <1>3, <1>4, <2>1 DEF BridgeTypes, SpanRecords, Contexts
  <2>3. Idle' <=> Idle
    BY <2>1 DEF Idle
  <2>4. Rest'
    BY <1>2, <1>5, <2>3, RestIs DEF StackInv, Rest, AppBridged, SinkOnce, Idle
  <2>5. Stack(t)'
    BY <1>1, <1>2, <2>1, StackKept DEF StackInv
  <2> QED  BY <1>1, <1>2, <2>1, <2>2, <2>4, <2>5, StacksKept DEF Others
<1>7. CASE wanted
  <2>1. /\ Present /\ guards' = [guards EXCEPT ![t] = Append(guards[t], e)]
        /\ current' = [current EXCEPT ![t] = e.ctx]
        /\ inTracing' = [inTracing EXCEPT ![t] = TRUE]
    BY <1>7 DEF Callback
  <2>2. guards[t] \in Seq(Entries') /\ e.ctx \in Tokens'
    BY <1>3 DEF Entries
  <2> HIDE DEF Entries, Tokens
  <2>3. Append(guards[t], e) \in Seq(Entries')
    BY <2>2, AppendProperties
  <2>4. guards' \in [Threads -> Seq(Entries')] /\ current' \in [Threads -> Tokens']
    BY <1>3, <2>1, <2>2, <2>3
  <2>5. inTracing' \in [Threads -> BOOLEAN]
    BY <1>4, <2>1
  <2>6. BridgeTypes'
    BY <1>2, <1>4, <2>4, <2>5 DEF BridgeTypes, SpanRecords, Contexts
  <2>7. Rest'
    BY <1>2, <1>5, <2>1 DEF Rest, AppBridged, SinkOnce
  <2>8. guards'[t] = Append(guards[t], e) /\ current'[t] = e.ctx /\ Others(t)
    BY <1>2, <1>3, <1>4, <2>1 DEF Others
  <2>9. Stack(t)'
    BY <1>1, <1>2, <2>8, FramePushed DEF StackInv
  <2> QED  BY <1>1, <2>6, <2>7, <2>8, <2>9, StacksKept
<1> QED  BY <1>6, <1>7

LEMMA RefusedStep ==
    ASSUME StackInv, NEW t \in Threads, Refused(t), SpansKept, AppBridged',
           span' \in [Spans -> SpanRecords], UNCHANGED <<entered, inLog, slotVars>>
    PROVE  StackInv'
<1>1. BridgeTypes /\ SlotTypeOK'
  BY DEF StackInv, TypeOK, BridgeTypes, SlotTypeOK, slotVars
<1>2. /\ entered' = entered /\ inLog' = inLog /\ Present' = Present
      /\ guards' = guards /\ current' = current /\ contexts' = contexts
      /\ inTracing' = [inTracing EXCEPT ![t] = FALSE]
  BY DEF Refused, slotVars, Present, Dispatcher, Visible
<1>3. inTracing' \in [Threads -> BOOLEAN] /\ ~inTracing'[t] /\ Others(t)
  BY <1>1, <1>2 DEF BridgeTypes, Others
<1>4. BridgeTypes'
  BY <1>1, <1>2, <1>3 DEF BridgeTypes, Tokens, Entries, SpanRecords
<1>5. Rest'
  BY <1>2 DEF StackInv, Rest, AppBridged
<1>6. Stack(t)'
  BY <1>1, <1>2, <1>3, StackKept DEF StackInv
<1> QED  BY <1>1, <1>3, <1>4, <1>5, <1>6, StacksKept

LEMMA ParentsAre ==
    ASSUME BridgeTypes, NEW t \in Threads
    PROVE  Parents(t) \subseteq Spans \cup {NoSpan}
<1> DEFINE F == {i \in DOMAIN entered[t] : First(t, i)}
<1>1. F \in SUBSET (1..Len(entered[t])) /\ Len(entered[t]) \in Nat
      /\ \A i \in 1..Len(entered[t]) : entered[t][i] \in Spans
  BY ThreadTypes
<1>2. Innermost(t) \in Spans \cup {NoSpan}
  <2>1. CASE F = {}
    BY <2>1 DEF Innermost
  <2>2. CASE F # {}
    <3>1. \E i \in F : \A j \in F : j <= i
      BY <1>1, <2>2, GreatestIn
    <3> DEFINE i0 == CHOOSE i \in F : \A j \in F : j <= i
    <3>2. i0 \in F
      BY <3>1
    <3>3. Innermost(t) = entered[t][i0]
      BY <2>2 DEF Innermost
    <3> QED  BY <1>1, <3>2, <3>3
  <2> QED  BY <2>1, <2>2
<1>3. Own(t) \subseteq Spans
  BY SpansAssumption DEF Own
<1> QED  BY <1>2, <1>3 DEF Parents, Known

\* What a callback that leaves the registry's spans alone needs of them.
LEMMA SpansUnchanged ==
    ASSUME StackInv, span' = span, Tokens \subseteq Tokens'
    PROVE  SpansKept /\ AppBridged' /\ span' \in [Spans -> SpanRecords']
<1>1. BridgeTypes
  BY DEF StackInv, TypeOK, BridgeTypes
<1> QED  BY <1>1, TypesGrow DEF SpansKept, AppBridged, StackInv, Rest

LEMMA NewSpanStep ==
    ASSUME StackInv, NEW t \in Threads, NEW s \in Spans, NEW parent \in Parents(t),
           NEW wanted \in BOOLEAN, NewSpan(t, s, parent, wanted), UNCHANGED slotVars
    PROVE  StackInv'
<1>1. BridgeTypes /\ parent \in Spans \cup {NoSpan} /\ AppBridged
      /\ span \in [Spans -> SpanRecords]
  BY ParentsAre DEF StackInv, TypeOK, BridgeTypes, Rest, AppBridged, SpanRecords
<1>2. s \in Own(t) /\ span[s].phase = "new" /\ UNCHANGED <<entered, inLog>>
  BY DEF NewSpan
<1>3. CASE Refused(t) /\ span' = [span EXCEPT ![s] = SpanRecord("open", FALSE, NONE, parent)]
  <2>1. s \in SinkSpans
    BY <1>1, <1>2, <1>3, QuietAgree DEF Own, Refused
  <2>2. SpanRecord("open", FALSE, NONE, parent) \in SpanRecords
    <3>1. Len(contexts) \in Nat
      BY <1>1 DEF BridgeTypes
    <3>2. NONE \in Tokens
      BY <3>1 DEF Tokens, NONE
    <3> QED  BY <1>1, <3>2 DEF SpanRecord, SpanRecords
  <2> HIDE DEF SpanRecords
  <2>3. span' \in [Spans -> SpanRecords] /\ \A r \in Spans : r # s => span'[r] = span[r]
    BY <1>1, <1>3, <2>2
  <2>4. SpansKept /\ AppBridged'
    BY <1>1, <1>2, <2>1, <2>3 DEF SpansKept, AppBridged
  <2> QED  BY <1>2, <1>3, <2>3, <2>4, RefusedStep
<1>4. CASE /\ Callback(t, InSpan(t, s, NewToken), wanted)
           /\ CreateContext(ParentContext(t, parent))
           /\ span' = [span EXCEPT ![s] = SpanRecord("open", TRUE, NewToken, parent)]
  <2>1. ParentContext(t, parent) \in Tokens
    <3>1. Len(contexts) \in Nat
      BY <1>1 DEF BridgeTypes
    <3>2. NONE \in Tokens
      BY <3>1 DEF Tokens, NONE
    <3>3. \A r \in Spans : span[r].ctx \in Tokens
      BY <1>1 DEF SpanRecords
    <3> QED  BY <1>1, <3>2, <3>3 DEF ParentContext, Bridged
  <2>2. /\ Tokens \subseteq Tokens' /\ contexts' \in Contexts' /\ NewToken \in Tokens'
        /\ ~Present => contexts' = contexts
    BY <1>1, <1>4, <2>1, ContextCreated
  <2>3. SpanRecord("open", TRUE, NewToken, parent) \in SpanRecords'
    BY <1>1, <2>2 DEF SpanRecord, SpanRecords
  <2>4. span \in [Spans -> SpanRecords']
    BY <1>1, <2>2, TypesGrow
  <2>5. span' \in [Spans -> SpanRecords'] /\ (\A r \in Spans : r # s => span'[r] = span[r])
        /\ span'[s].bridged
    <3>1. span'[s] = SpanRecord("open", TRUE, NewToken, parent)
      BY <1>4, <2>4
    <3>2. span'[s].bridged
      BY <3>1 DEF SpanRecord
    <3> HIDE DEF SpanRecords
    <3> QED  BY <1>4, <2>3, <2>4, <3>2
  <2>6. SpansKept /\ AppBridged'
    BY <1>1, <1>2, <2>5 DEF SpansKept, AppBridged
  <2>7. LET e == InSpan(t, s, NewToken)
        IN  /\ e \in Entries' /\ e.kind = "tracing" /\ e.depth = Len(entered[t])
            /\ IF e.active THEN e.previous = current[t] ELSE e.ctx = current[t]
    BY <1>1, <2>2, EntryOver DEF InSpan
  <2> QED  BY <1>2, <1>4, <2>2, <2>5, <2>6, <2>7, CallbackStep
<1> QED  BY <1>3, <1>4 DEF NewSpan

\* A callback about one of the spans, which leaves all of them as they are.
LEMMA AboutSpanStep ==
    ASSUME StackInv, NEW t \in Threads, NEW s \in Spans, NEW wanted,
           AboutSpan(t, s, wanted), SpansKept, AppBridged', span' \in [Spans -> SpanRecords'],
           Tokens' = Tokens, contexts' \in Contexts', ~Present => contexts' = contexts,
           UNCHANGED <<entered, inLog, slotVars>>
    PROVE  StackInv'
<1>1. BridgeTypes /\ span[s].ctx \in Tokens'
  BY DEF StackInv, TypeOK, BridgeTypes
<1>2. LET e == InSpan(t, s, span[s].ctx)
      IN  /\ e \in Entries' /\ e.kind = "tracing" /\ e.depth = Len(entered[t])
          /\ IF e.active THEN e.previous = current[t] ELSE e.ctx = current[t]
  BY <1>1, EntryOver DEF InSpan
<1> QED  BY <1>2, CallbackStep DEF AboutSpan

LEMMA OnRecordStep ==
    ASSUME StackInv, NEW t \in Threads, NEW s \in Spans, NEW wanted \in BOOLEAN,
           OnRecord(t, s, wanted), UNCHANGED slotVars
    PROVE  StackInv'
<1>1. span' = span /\ entered' = entered /\ inLog' = inLog /\ contexts' = contexts
  BY DEF OnRecord, Refused
<1>2. Tokens' = Tokens /\ contexts' \in Contexts' /\ Entries' = Entries
      /\ SpanRecords' = SpanRecords
  BY <1>1 DEF Tokens, Contexts, StackInv, TypeOK, Entries, SpanRecords
<1>3. SpansKept /\ AppBridged' /\ span' \in [Spans -> SpanRecords']
  BY <1>1, <1>2, SpansUnchanged
<1> QED  BY <1>1, <1>2, <1>3, RefusedStep, AboutSpanStep DEF OnRecord

LEMMA OnFollowsFromStep ==
    ASSUME StackInv, NEW t \in Threads, NEW s \in Spans, NEW related \in Spans,
           NEW wanted \in BOOLEAN, OnFollowsFrom(t, s, related, wanted), UNCHANGED slotVars
    PROVE  StackInv'
<1>1. span' = span /\ entered' = entered /\ inLog' = inLog
  BY DEF OnFollowsFrom
<1>2. BridgeTypes /\ span[related].ctx \in Tokens
  BY DEF StackInv, TypeOK, BridgeTypes
<1>3. CASE Refused(t)
  <2>1. Tokens' = Tokens /\ SpanRecords' = SpanRecords
    BY <1>3 DEF Refused, Tokens, SpanRecords
  <2>2. SpansKept /\ AppBridged' /\ span' \in [Spans -> SpanRecords']
    BY <1>1, <2>1, SpansUnchanged
  <2> QED  BY <1>1, <1>3, <2>1, <2>2, RefusedStep
<1>4. CASE AboutSpan(t, s, wanted) /\ (UNCHANGED contexts \/ LinkContext(span[s].ctx, span[related].ctx))
  <2>1. Tokens' = Tokens /\ contexts' \in Contexts' /\ (~Present => contexts' = contexts)
    <3>1. CASE UNCHANGED contexts
      BY <1>2, <3>1 DEF Tokens, Contexts, BridgeTypes
    <3>2. CASE LinkContext(span[s].ctx, span[related].ctx)
      BY <1>2, <3>2, ContextLinked
    <3> QED  BY <1>4, <3>1, <3>2
  <2>2. SpansKept /\ AppBridged' /\ span' \in [Spans -> SpanRecords']
    BY <1>1, <2>1, SpansUnchanged
  <2> QED  BY <1>1, <1>4, <2>1, <2>2, AboutSpanStep
<1> QED  BY <1>3, <1>4 DEF OnFollowsFrom

LEMMA OnEventStep ==
    ASSUME StackInv, NEW t \in Threads, NEW parent \in Parents(t), NEW wanted \in BOOLEAN,
           OnEvent(t, parent, wanted), UNCHANGED slotVars
    PROVE  StackInv'
<1>1. span' = span /\ entered' = entered /\ inLog' = inLog /\ contexts' = contexts
  BY DEF OnEvent, Refused
<1>2. Tokens' = Tokens /\ contexts' \in Contexts' /\ SpanRecords' = SpanRecords /\ BridgeTypes
  BY <1>1 DEF Tokens, Contexts, StackInv, TypeOK, SpanRecords, BridgeTypes
<1>3. SpansKept /\ AppBridged' /\ span' \in [Spans -> SpanRecords']
  BY <1>1, <1>2, SpansUnchanged
<1>4. CASE Refused(t)
  BY <1>1, <1>2, <1>3, <1>4, RefusedStep
<1>5. CASE Bridged(parent) /\ Callback(t, InSpan(t, parent, span[parent].ctx), wanted)
  <2>1. parent \in Spans
    BY <1>2, <1>5, ParentsAre DEF Bridged
  <2>2. AboutSpan(t, parent, wanted)
    BY <1>5 DEF AboutSpan
  <2> QED  BY <1>1, <1>2, <1>3, <2>1, <2>2, AboutSpanStep
<1>6. CASE Callback(t, NoSpanEntered(t), wanted)
  <2>1. LET e == NoSpanEntered(t)
        IN  /\ e \in Entries' /\ e.kind = "tracing" /\ e.depth = Len(entered[t])
            /\ IF e.active THEN e.previous = current[t] ELSE e.ctx = current[t]
    <3>1. LET e == Entry("tracing", NoSpan, current[t], NoGuard(t))
          IN  /\ e \in Entries' /\ e.kind = "tracing" /\ e.depth = Len(entered[t])
              /\ e.ctx = current[t] /\ e.active = FALSE
      BY <1>2, EntryApart
    <3> QED  BY <3>1 DEF NoSpanEntered
  <2> QED  BY <1>1, <1>2, <1>3, <1>6, <2>1, CallbackStep
<1> QED  BY <1>4, <1>5, <1>6 DEF OnEvent

LEMMA OnCloseStep ==
    ASSUME StackInv, NEW t \in Threads, NEW s \in Spans, NEW wanted \in BOOLEAN,
           OnClose(t, s, wanted), UNCHANGED slotVars
    PROVE  StackInv'
<1>1. entered' = entered /\ inLog' = inLog /\ contexts' = contexts
      /\ span' = [span EXCEPT ![s].phase = "closed"] /\ span[s].phase = "open"
  BY DEF OnClose, Refused, Known
<1>2. Tokens' = Tokens /\ contexts' \in Contexts' /\ SpanRecords' = SpanRecords
      /\ span \in [Spans -> SpanRecords] /\ AppBridged
  BY <1>1 DEF Tokens, Contexts, StackInv, TypeOK, SpanRecords, Rest, AppBridged
<1> DEFINE r == [span[s] EXCEPT !.phase = "closed"]
<1>3. r \in SpanRecords /\ r.phase = "closed" /\ r.ctx = span[s].ctx /\ r.bridged = span[s].bridged
  BY <1>2 DEF SpanRecords
<1>4. span' = [span EXCEPT ![s] = r]
  BY <1>1
<1> HIDE DEF r, SpanRecords
<1>5. span' \in [Spans -> SpanRecords'] /\ span'[s] = r /\ \A c \in Spans : c # s => span'[c] = span[c]
  BY <1>2, <1>3, <1>4
<1>6. SpansKept /\ AppBridged'
  BY <1>1, <1>2, <1>3, <1>5 DEF SpansKept, AppBridged
<1> QED  BY <1>1, <1>2, <1>5, <1>6, RefusedStep, AboutSpanStep DEF OnClose

LEMMA LogStep ==
    ASSUME StackInv, NEW t \in Threads, Log(t), UNCHANGED slotVars
    PROVE  StackInv'
<1> DEFINE e == Entry("log", NoSpan, current[t], NoGuard(t))
<1>1. BridgeTypes /\ SlotTypeOK' /\ inLog \in [Threads -> BOOLEAN]
  BY DEF StackInv, TypeOK, BridgeTypes, SlotTypeOK, slotVars
<1>2. /\ span' = span /\ contexts' = contexts /\ entered' = entered /\ current' = current
      /\ inTracing' = inTracing /\ inLog' = [inLog EXCEPT ![t] = TRUE] /\ Present
  BY DEF Log, Enabled
<1>3. inLog' \in [Threads -> BOOLEAN] /\ inLog'[t] /\ \A u \in Threads : u # t => inLog'[u] = inLog[u]
  BY <1>1, <1>2
<1>4. guards' = [guards EXCEPT ![t] = Append(guards[t], e)] /\ Present' = Present
  BY <1>2, <1>3 DEF Log, slotVars, Present, Dispatcher, Visible
<1>5. Tokens' = Tokens /\ Entries' = Entries
  BY <1>2 DEF Tokens, Entries
<1>6. e \in Entries /\ e.kind = "log" /\ e.depth = Len(entered[t]) /\ e.ctx = current[t] /\ e.active = FALSE
  <2>1. Tokens \subseteq Tokens'
    BY <1>5
  <2>2. LET x == Entry("log", NoSpan, current[t], NoGuard(t))
        IN  /\ x \in Entries' /\ x.kind = "log" /\ x.depth = Len(entered[t])
            /\ x.ctx = current[t] /\ x.active = FALSE
    BY <1>1, <2>1, EntryApart
  <2> QED  BY <1>5, <2>2
<1> HIDE DEF e
<1>7. guards[t] \in Seq(Entries) /\ guards \in [Threads -> Seq(Entries)]
  BY <1>1 DEF BridgeTypes
<1>8. Append(guards[t], e) \in Seq(Entries)
  BY <1>6, <1>7, AppendProperties
<1>9. guards' \in [Threads -> Seq(Entries')] /\ guards'[t] = Append(guards[t], e) /\ Others(t)
  BY <1>2, <1>3, <1>4, <1>5, <1>7, <1>8 DEF Others
<1>10. BridgeTypes'
  BY <1>1, <1>2, <1>3, <1>5, <1>9 DEF BridgeTypes
<1>11. Rest'
  BY <1>2, <1>4 DEF StackInv, Rest
<1>12. SpansKept
  BY <1>2 DEF SpansKept
<1>13. Stack(t)'
  BY <1>1, <1>2, <1>6, <1>9, <1>12, FramePushed DEF StackInv
<1> QED  BY <1>1, <1>9, <1>10, <1>11, <1>12, <1>13, StacksKept

LEMMA EndCallStep ==
    ASSUME StackInv, NEW t \in Threads, EndCall(t), UNCHANGED slotVars
    PROVE  StackInv'
<1> DEFINE g == guards[t]
           short == SubSeq(g, 1, Len(g) - 1)
<1>1. BridgeTypes /\ SlotTypeOK' /\ inLog \in [Threads -> BOOLEAN]
      /\ inTracing \in [Threads -> BOOLEAN] /\ current \in [Threads -> Tokens]
  BY DEF StackInv, TypeOK, BridgeTypes, SlotTypeOK, slotVars
<1>2. /\ g # <<>> /\ Top(g).kind # "span" /\ Top(g).depth = Len(entered[t])
      /\ span' = span /\ contexts' = contexts /\ entered' = entered
      /\ guards' = [guards EXCEPT ![t] = short]
      /\ current' = [current EXCEPT ![t] = Dropping(Top(g), current[t])]
  BY DEF EndCall
<1>3. Tokens' = Tokens /\ Entries' = Entries /\ Present' = Present
  BY <1>2 DEF Tokens, Entries, slotVars, Present, Dispatcher, Visible
<1>4. g \in Seq(Entries) /\ guards \in [Threads -> Seq(Entries)]
  BY <1>1 DEF BridgeTypes
<1>5. /\ short \in Seq(Entries) /\ Len(short) = Len(g) - 1 /\ Len(g) \in 1..Len(g)
      /\ \A i \in 1..Len(g) - 1 : short[i] = g[i]
  BY <1>2, <1>4, Shrunk
<1>6. Top(g) \in Entries
  BY <1>1, <1>5, ThreadTypes DEF Top
<1>7. Top(g).kind \in {"tracing", "log"} /\ Dropping(Top(g), current[t]) \in Tokens
  BY <1>1, <1>2, <1>6 DEF Entries, Dropping
<1> HIDE DEF short, Entries
<1>8. /\ guards' \in [Threads -> Seq(Entries')] /\ guards'[t] = short
      /\ \A u \in Threads : u # t => guards'[u] = guards[u]
  BY <1>2, <1>3, <1>4, <1>5
<1>9. /\ current' \in [Threads -> Tokens'] /\ current'[t] = Dropping(Top(g), current[t])
      /\ \A u \in Threads : u # t => current'[u] = current[u]
  BY <1>1, <1>2, <1>3, <1>7
<1>10. /\ inLog' \in [Threads -> BOOLEAN] /\ inTracing' \in [Threads -> BOOLEAN]
       /\ \A u \in Threads : u # t => inLog'[u] = inLog[u] /\ inTracing'[u] = inTracing[u]
       /\ inTracing'[t] => inTracing[t] /\ Top(g).kind = "log"
       /\ inLog'[t] => inLog[t] /\ Top(g).kind = "tracing"
  <2>1. CASE Top(g).kind = "log"
    BY <1>1, <2>1 DEF EndCall
  <2>2. CASE Top(g).kind = "tracing"
    BY <1>1, <2>2 DEF EndCall
  <2> QED  BY <1>7, <2>1, <2>2
<1>11. BridgeTypes'
  BY <1>1, <1>2, <1>3, <1>8, <1>9, <1>10 DEF BridgeTypes
<1>12. Others(t) /\ SpansKept
  BY <1>2, <1>8, <1>9, <1>10 DEF Others, SpansKept
<1>13. Rest'
  <2>1. ASSUME ~Present' PROVE Idle'
    <3>1. \A u \in Threads : \A i \in 1..Len(guards[u]) : ~guards[u][i].active
      BY <1>3, <2>1, AbsentNone
    <3>2. \A i \in 1..Len(g) - 1 : i \in 1..Len(g)
      BY <1>5
    <3> QED  BY <1>5, <1>8, <3>1, <3>2 DEF Idle
  <2>2. AppBridged' /\ SinkOnce'
    BY <1>2 DEF AppBridged, SinkOnce, StackInv, Rest
  <2>3. ~Present' => contexts' = <<>>
    BY <1>2, <1>3 DEF StackInv, Rest
  <2> QED  BY <2>1, <2>2, <2>3 DEF Rest, AppBridged, SinkOnce, Idle
<1>14. Stack(t)'
  BY <1>1, <1>2, <1>7, <1>8, <1>9, <1>10, <1>12, FramePopped DEF StackInv, short
<1> QED  BY <1>1, <1>11, <1>12, <1>13, <1>14, StacksKept

LEMMA OnEnterStep ==
    ASSUME StackInv, NEW t \in Threads, NEW s \in Spans, OnEnter(t, s), UNCHANGED slotVars
    PROVE  StackInv'
<1> DEFINE ctx == span[s].ctx
           e == Entry("span", s, Entering(t, ctx), Guard(t, ctx))
           q == entered[t]
<1>1. BridgeTypes /\ SlotTypeOK' /\ Stack(t) /\ AppBridged /\ SinkOnce
      /\ current \in [Threads -> Tokens] /\ ctx \in Tokens /\ current[t] \in Tokens
  BY DEF StackInv, TypeOK, BridgeTypes, SlotTypeOK, slotVars, Rest, AppBridged, SinkOnce
<1>2. /\ s \in Own(t) /\ span[s].phase # "new" /\ (Quiet(t) \/ ~IsEntered(s))
      /\ entered' = [entered EXCEPT ![t] = Append(q, s)]
      /\ span' = span /\ contexts' = contexts /\ inTracing' = inTracing /\ inLog' = inLog
  BY DEF OnEnter, Known
<1>3. Tokens' = Tokens /\ Entries' = Entries /\ Present' = Present
  BY <1>2 DEF Tokens, Entries, slotVars, Present, Dispatcher, Visible
<1>4. s \in SinkSpans <=> ~Quiet(t)
  BY <1>2, SpansAssumption DEF Own
<1>5. /\ e \in Entries /\ e.kind = "span" /\ e.span = s /\ e.active = Present
      /\ e.ctx = Entering(t, ctx) /\ e.active \in BOOLEAN
      /\ IF e.active THEN e.previous = current[t] ELSE e.ctx = current[t]
  <2>1. Tokens \subseteq Tokens' /\ ctx \in Tokens'
    BY <1>1, <1>3
  <2>2. LET x == Entry("span", s, Entering(t, ctx), Guard(t, ctx))
        IN  /\ x \in Entries' /\ x.kind = "span" /\ x.span = s /\ x.active = Present
            /\ x.ctx = Entering(t, ctx) /\ x.active \in BOOLEAN
            /\ IF x.active THEN x.previous = current[t] ELSE x.ctx = current[t]
    BY <1>1, <2>1, EntryOver
  <2> QED  BY <1>3, <2>2
<1>6. Entering(t, ctx) = ctx
  BY <1>1, AbsentNone DEF Entering
<1> HIDE DEF e, ctx
<1>7. q \in Seq(Spans) /\ entered \in [Threads -> Seq(Spans)] /\ Append(q, s) \in Seq(Spans)
      /\ guards[t] \in Seq(Entries) /\ guards \in [Threads -> Seq(Entries)]
  BY <1>1, AppendProperties DEF BridgeTypes
<1>8. /\ entered' \in [Threads -> Seq(Spans)] /\ entered'[t] = Append(q, s)
      /\ \A u \in Threads : u # t => entered'[u] = entered[u]
  BY <1>2, <1>7
<1>9. SpansKept /\ AppBridged'
  BY <1>1, <1>2 DEF SpansKept, AppBridged
<1>10. SinkOnce'
  <2>1. /\ Len(q) \in Nat /\ Len(entered'[t]) = Len(q) + 1 /\ entered'[t][Len(q) + 1] = s
        /\ \A k \in 1..Len(q) : entered'[t][k] = q[k]
        /\ \A k \in 1..Len(q) + 1 : k \in 1..Len(q) \/ k = Len(q) + 1
    BY <1>7, <1>8, Grown
  <2>2. s \in SinkSpans => \A u \in Threads : \A k \in 1..Len(entered[u]) : entered[u][k] # s
    BY <1>1, <1>2, <1>4, ThreadTypes DEF IsEntered
  <2>3. ASSUME NEW u \in Threads, NEW v \in Threads,
               NEW k \in 1..Len(entered'[u]), NEW m \in 1..Len(entered'[v]),
               entered'[u][k] = entered'[v][m], entered'[u][k] \in SinkSpans
        PROVE  u = v /\ k = m
    <3>1. (k \in 1..Len(entered[u]) /\ entered'[u][k] = entered[u][k])
          \/ (u = t /\ k = Len(q) + 1 /\ entered'[u][k] = s)
      BY <1>8, <2>1
    <3>2. (m \in 1..Len(entered[v]) /\ entered'[v][m] = entered[v][m])
          \/ (v = t /\ m = Len(q) + 1 /\ entered'[v][m] = s)
      BY <1>8, <2>1
    <3> QED  BY <1>1, <2>2, <2>3, <3>1, <3>2 DEF SinkOnce
  <2> QED  BY <2>3 DEF SinkOnce
<1>11. CASE ~inTracing[t] /\ Bridged(s)
  <2>1. /\ guards' = [guards EXCEPT ![t] = Append(guards[t], e)]
        /\ current' = [current EXCEPT ![t] = ctx]
    BY <1>6, <1>11 DEF OnEnter, e, ctx
  <2>2. Append(guards[t], e) \in Seq(Entries)
    BY <1>5, <1>7, AppendProperties
  <2> HIDE DEF q
  <2>3. /\ guards' \in [Threads -> Seq(Entries')] /\ guards'[t] = Append(guards[t], e)
        /\ \A u \in Threads : u # t => guards'[u] = guards[u]
    BY <1>3, <1>7, <2>1, <2>2
  <2>4. /\ current' \in [Threads -> Tokens'] /\ current'[t] = ctx
        /\ \A u \in Threads : u # t => current'[u] = current[u]
    BY <1>1, <1>3, <2>1
  <2>5. Others(t)
    BY <1>2, <1>8, <2>3, <2>4 DEF Others
  <2>6. BridgeTypes'
    BY <1>1, <1>2, <1>3, <1>8, <2>3, <2>4 DEF BridgeTypes
  <2>7. ASSUME ~Present' PROVE Idle'
    <3>1. \A u \in Threads : \A i \in 1..Len(guards[u]) : ~guards[u][i].active
      BY <1>3, <2>7, AbsentNone
    <3>2. /\ Len(guards'[t]) = Len(guards[t]) + 1 /\ guards'[t][Len(guards[t]) + 1] = e
          /\ \A i \in 1..Len(guards[t]) : guards'[t][i] = guards[t][i]
          /\ \A i \in 1..Len(guards[t]) + 1 : i \in 1..Len(guards[t]) \/ i = Len(guards[t]) + 1
      BY <1>7, <2>3, Grown
    <3> QED  BY SMTT(30), <1>3, <1>5, <2>3, <2>7, <3>1, <3>2 DEF Idle
  <2>8. Rest'
    <3>1. ~Present' => contexts' = <<>>
      BY <1>2, <1>3 DEF StackInv, Rest
    <3> QED  BY <1>9, <1>10, <2>7, <3>1 DEF Rest, AppBridged, SinkOnce, Idle
  <2>9. ~Quiet(t) => \A k \in 1..Len(entered[t]) : entered[t][k] # e.span
    BY <1>1, <1>2, <1>5, ThreadTypes DEF IsEntered
  <2>10. Stack(t)'
    BY <1>1, <1>2, <1>4, <1>5, <1>6, <1>8, <1>9, <1>11, <2>3, <2>4, <2>9, EnteredPushed DEF q, ctx
  <2> QED  BY <1>1, <1>9, <2>5, <2>6, <2>8, <2>10, StacksKept
<1>12. CASE inTracing[t] \/ ~Bridged(s)
  <2>1. guards' = guards /\ current' = current
    BY <1>12 DEF OnEnter
  <2>2. ~Quiet(t)
    <3>1. SUFFICES ASSUME Quiet(t) PROVE FALSE
      OBVIOUS
    <3>2. s \in Spans \ SinkSpans
      BY <1>4, <3>1
    <3>3. Bridged(s)
      BY <1>1, <1>2, <3>2, SpansAssumption DEF Bridged, AppBridged
    <3> QED  BY <1>1, <1>12, <3>1, <3>3, QuietAgree
  <2>3. Others(t)
    BY <1>2, <1>8, <2>1 DEF Others
  <2>4. BridgeTypes'
    BY <1>1, <1>2, <1>3, <1>8, <2>1 DEF BridgeTypes
  <2>5. Rest'
    BY <1>2, <1>3, <1>9, <1>10, <2>1 DEF Rest, AppBridged, SinkOnce, StackInv
  <2>6. Stack(t)'
    BY <1>1, <1>2, <1>4, <1>8, <1>9, <2>1, <2>2, EnteredAlone
  <2> QED  BY <1>1, <1>9, <2>3, <2>4, <2>5, <2>6, StacksKept
<1> QED  BY <1>11, <1>12

\* The span that is left, its place among the entered ones, and its guard: the
\* sink's last call, or none, is below both.
LEMMA ExitPlace ==
    ASSUME StackInv, BridgeTypes, NEW t \in Threads, NEW s \in Spans,
           NEW x \in 1..Len(entered[t]), entered[t][x] = s, x > Floor(t)
    PROVE  LET q == Last(s, entered[t])
               p == CHOOSE i \in EntriesOf(t, s) : \A j \in EntriesOf(t, s) : j <= i
           IN  /\ q \in 1..Len(entered[t]) /\ entered[t][q] = s
               /\ ~Quiet(t) => s \in SinkSpans
               /\ \A f \in Frames(t) : guards[t][f].depth < q
               /\ EntriesOf(t, s) # {} =>
                     /\ p \in 1..Len(guards[t]) /\ guards[t][p].kind = "span"
                     /\ guards[t][p].span = s /\ (Quiet(t) => p = q)
                     /\ \A f \in Frames(t) : f < p
                     /\ ~inTracing[t]
               /\ Quiet(t) => EntriesOf(t, s) # {}
<1> DEFINE q == Last(s, entered[t])
           E == EntriesOf(t, s)
           p == CHOOSE i \in E : \A j \in E : j <= i
<1>1. Stack(t) /\ SinkOnce /\ entered[t] \in Seq(Spans) /\ Len(entered[t]) \in Nat
      /\ Len(guards[t]) \in Nat /\ DOMAIN guards[t] = 1..Len(guards[t])
  BY ThreadTypes DEF StackInv, Rest, SinkOnce
<1>2. q \in 1..Len(entered[t]) /\ entered[t][q] = s
      /\ \A j \in 1..Len(entered[t]) : entered[t][j] = s => j <= q
  BY <1>1, LastIs
<1>3. \A k : k \in E <=> k \in 1..Len(guards[t]) /\ guards[t][k].kind = "span" /\ guards[t][k].span = s
  BY <1>1 DEF EntriesOf
<1> HIDE DEF q, E
<1>4. \A f \in Frames(t) : f \in 1..Len(guards[t]) /\ guards[t][f].depth \in Nat
  BY FramesAre, ThreadTypes DEF Entries
<1>5. ~Quiet(t) => \A f \in Frames(t) : guards[t][f].depth < x
  <2>1. ASSUME ~Quiet(t), NEW f \in Frames(t) PROVE guards[t][f].depth < x
    <3>1. Topmost(t) \in Frames(t) /\ f <= Topmost(t)
      BY <2>1, TopmostIs
    <3>2. guards[t][f].depth <= guards[t][Topmost(t)].depth
      <4>1. f < Topmost(t) \/ f = Topmost(t)
        BY <1>4, <3>1
      <4> QED  BY <1>1, <1>4, <3>1, <4>1 DEF Stack, Layers
    <3>3. guards[t][Topmost(t)].depth < x
      BY <1>4, <2>1, <3>1 DEF Floor
    <3> QED  BY <1>4, <3>1, <3>2, <3>3
  <2> QED  BY <2>1
<1>6. \A f \in Frames(t) : ~Quiet(t)
  BY DEF Quiet
<1>7. \A f \in Frames(t) : guards[t][f].depth < x /\ guards[t][f].depth < q
  BY <1>1, <1>2, <1>4, <1>5, <1>6
<1>8. ~Quiet(t) => s \in SinkSpans
  <2>1. ASSUME ~Quiet(t) PROVE s \in SinkSpans
    <3>1. PICK f : f \in Frames(t)
      BY <2>1 DEF Quiet
    <3> QED  BY <1>1, <1>2, <1>7, <3>1 DEF Stack, Layers
  <2> QED  BY <2>1
<1>9. E # {} => p \in E /\ \A j \in E : j <= p
  <2>1. ASSUME E # {} PROVE \E i \in E : \A j \in E : j <= i
    <3>1. E \in SUBSET (1..Len(guards[t]))
      BY <1>3
    <3> QED  BY <1>1, <2>1, <3>1, GreatestIn
  <2> QED  BY <2>1
<1> HIDE DEF p
<1>10. CASE Quiet(t)
  <2>1. /\ Len(guards[t]) = Len(entered[t]) /\ ~inTracing[t]
        /\ \A k \in 1..Len(guards[t]) : guards[t][k].kind = "span" /\ entered[t][k] = guards[t][k].span
    BY <1>10, QuietAgree
  <2>2. q \in E
    BY <1>2, <1>3, <2>1
  <2>3. p \in E /\ q <= p
    BY <1>9, <2>2
  <2>4. p <= q
    BY <1>2, <1>3, <2>1, <2>3
  <2>5. p = q
    BY <1>1, <1>2, <1>3, <2>3, <2>4
  <2> QED  BY <1>2, <1>3, <1>6, <1>7, <1>10, <2>1, <2>2, <2>3, <2>5 DEF q, E, p
<1>11. CASE ~Quiet(t)
  <2>1. ASSUME E # {}
        PROVE  p \in E /\ (\A f \in Frames(t) : f < p) /\ ~inTracing[t]
    <3>1. p \in E /\ p \in 1..Len(guards[t]) /\ guards[t][p].kind = "span" /\ guards[t][p].span = s
      BY <1>3, <1>9, <2>1
    <3>2. PICK k \in 1..Len(entered[t]) :
            entered[t][k] = s /\ \A f \in Frames(t) : f < p <=> guards[t][f].depth < k
      BY SMTT(30), <1>1, <1>8, <1>11, <3>1 DEF Stack, SinkPairs
    <3>3. k = q
      BY <1>1, <1>2, <1>8, <1>11, <3>2 DEF SinkOnce
    <3>4. \A f \in Frames(t) : f < p
      BY <1>7, <3>2, <3>3
    <3>5. ASSUME inTracing[t] PROVE FALSE
      <4>1. PICK f \in Frames(t) : \A j \in 1..Len(guards[t]) : f < j => j \in Frames(t)
        BY <1>1, <3>5 DEF Stack, Flagged
      <4>2. p \in Frames(t)
        BY <3>1, <3>4, <4>1
      <4> QED  BY <3>1, <4>2, FramesAre
    <3> QED  BY <3>1, <3>4, <3>5
  <2> QED  BY <1>2, <1>3, <1>7, <1>8, <1>11, <2>1 DEF q, E, p
<1> QED  BY <1>10, <1>11

LEMMA OnExitStep ==
    ASSUME StackInv, NEW t \in Threads, NEW s \in Spans, OnExit(t, s), UNCHANGED slotVars
    PROVE  StackInv'
<1> DEFINE q == Last(s, entered[t])
           E == EntriesOf(t, s)
           p == CHOOSE i \in E : \A j \in E : j <= i
<1>1. BridgeTypes /\ SlotTypeOK' /\ Stack(t) /\ AppBridged /\ SinkOnce
      /\ current \in [Threads -> Tokens] /\ guards \in [Threads -> Seq(Entries)]
      /\ entered \in [Threads -> Seq(Spans)]
  BY DEF StackInv, TypeOK, BridgeTypes, SlotTypeOK, slotVars, Rest, AppBridged, SinkOnce
<1>2. /\ entered' = [entered EXCEPT ![t] = Without(entered[t], q)]
      /\ span' = span /\ contexts' = contexts /\ inTracing' = inTracing /\ inLog' = inLog
  BY DEF OnExit
<1>3. Tokens' = Tokens /\ Entries' = Entries /\ Present' = Present
  BY <1>2 DEF Tokens, Entries, slotVars, Present, Dispatcher, Visible
<1>4. PICK x \in 1..Len(entered[t]) : entered[t][x] = s /\ x > Floor(t)
  BY <1>1, ThreadTypes DEF OnExit
<1>5. /\ q \in 1..Len(entered[t]) /\ entered[t][q] = s
      /\ ~Quiet(t) => s \in SinkSpans
      /\ \A f \in Frames(t) : guards[t][f].depth < q
      /\ E # {} => /\ p \in 1..Len(guards[t]) /\ guards[t][p].kind = "span"
                   /\ guards[t][p].span = s /\ (Quiet(t) => p = q)
                   /\ \A f \in Frames(t) : f < p
                   /\ ~inTracing[t]
      /\ Quiet(t) => E # {}
  <2>1. x \in 1..Len(entered[t]) /\ entered[t][x] = s /\ x > Floor(t) /\ BridgeTypes
    BY <1>1, <1>4
  <2> HIDE DEF q, E, p
  <2>2. LET last == Last(s, entered[t])
            top == CHOOSE i \in EntriesOf(t, s) : \A j \in EntriesOf(t, s) : j <= i
        IN  /\ last \in 1..Len(entered[t]) /\ entered[t][last] = s
            /\ ~Quiet(t) => s \in SinkSpans
            /\ \A f \in Frames(t) : guards[t][f].depth < last
            /\ EntriesOf(t, s) # {} =>
                  /\ top \in 1..Len(guards[t]) /\ guards[t][top].kind = "span"
                  /\ guards[t][top].span = s /\ (Quiet(t) => top = last)
                  /\ \A f \in Frames(t) : f < top
                  /\ ~inTracing[t]
            /\ Quiet(t) => EntriesOf(t, s) # {}
    BY <2>1, ExitPlace
  <2> QED  BY <2>2 DEF q, E, p
<1>6. Without(entered[t], q) \in Seq(Spans)
  <2>1. entered[t] \in Seq(Spans)
    BY <1>1
  <2> QED  BY <1>5, <2>1, WithoutIs
<1> HIDE DEF q
<1>7. /\ entered' \in [Threads -> Seq(Spans)] /\ entered'[t] = Without(entered[t], q)
      /\ \A u \in Threads : u # t => entered'[u] = entered[u]
  BY <1>1, <1>2, <1>6
<1>8. SpansKept /\ AppBridged'
  BY <1>1, <1>2 DEF SpansKept, AppBridged
<1>9. SinkOnce'
  <2>1. /\ Len(entered[t]) \in Nat /\ Len(entered'[t]) = Len(entered[t]) - 1
        /\ \A k \in 1..Len(entered[t]) - 1 :
              entered'[t][k] = IF k < q THEN entered[t][k] ELSE entered[t][k + 1]
    BY <1>1, <1>5, <1>7, Left
  <2>2. \A k \in 1..Len(entered'[t]) :
            Skip(q, k) \in 1..Len(entered[t]) /\ entered'[t][k] = entered[t][Skip(q, k)]
    BY <2>1 DEF Skip
  <2>3. \A k, m \in 1..Len(entered'[t]) : Skip(q, k) = Skip(q, m) => k = m
    BY <1>5, <2>1 DEF Skip
  <2>4. ASSUME NEW u \in Threads, NEW v \in Threads,
               NEW k \in 1..Len(entered'[u]), NEW m \in 1..Len(entered'[v]),
               entered'[u][k] = entered'[v][m], entered'[u][k] \in SinkSpans
        PROVE  u = v /\ k = m
    <3> DEFINE a == IF u = t THEN Skip(q, k) ELSE k
               b == IF v = t THEN Skip(q, m) ELSE m
    <3>1. a \in 1..Len(entered[u]) /\ entered'[u][k] = entered[u][a]
      BY <1>7, <2>2
    <3>2. b \in 1..Len(entered[v]) /\ entered'[v][m] = entered[v][b]
      BY <1>7, <2>2
    <3>3. u = v /\ a = b
      <4>1. SinkOnce
        BY <1>1
      <4>2. entered[u][a] = entered[v][b] /\ entered[u][a] \in SinkSpans
        BY <2>4, <3>1, <3>2
      <4> HIDE DEF a, b
      <4> QED  BY <3>1, <3>2, <4>1, <4>2 DEF SinkOnce
    <3> QED  BY <2>3, <3>3
  <2> QED  BY <2>4 DEF SinkOnce
<1>10. ~Present' => contexts' = <<>>
  BY <1>2, <1>3 DEF StackInv, Rest
<1>11. CASE ~inTracing[t] /\ E # {}
  <2>1. /\ guards' = [guards EXCEPT ![t] = Reentered(t, p)]
        /\ current' = [current EXCEPT ![t] =
              IF p = Len(guards[t]) THEN Unwound(t, p)
                                    ELSE Entering(t, span[Top(guards[t]).span].ctx)]
    BY <1>11 DEF OnExit
  <2> HIDE DEF E, p
  <2>2. /\ guards'[t] = Reentered(t, p)
        /\ current'[t] = IF p = Len(guards[t]) THEN Unwound(t, p)
                         ELSE Entering(t, span[Top(guards[t]).span].ctx)
        /\ \A u \in Threads : u # t => guards'[u] = guards[u] /\ current'[u] = current[u]
    BY <1>1, <2>1
  <2>3. \A j \in p..Len(guards[t]) : guards[t][j].kind = "span"
    <3>1. ASSUME NEW j \in p..Len(guards[t]), guards[t][j].kind # "span" PROVE FALSE
      <4>1. j \in 1..Len(guards[t]) /\ p \in Nat /\ ~(j < p)
        BY <1>1, <1>5, <1>11, ThreadTypes
      <4>2. j \in Frames(t)
        BY <1>1, <3>1, <4>1, FramesAre
      <4> QED  BY <1>5, <1>11, <4>1, <4>2
    <3> QED  BY <3>1
  <2>4. /\ guards'[t] \in Seq(Entries) /\ current'[t] \in Tokens
        /\ GuardGone(t, p)
        /\ ~Present => \A j \in 1..Len(guards[t]) - 1 : ~guards'[t][j].active
        /\ Restores(t)'
    BY <1>1, <1>2, <1>5, <1>11, <2>2, <2>3, ReenteredIs
  <2>5. guards' \in [Threads -> Seq(Entries')] /\ current' \in [Threads -> Tokens']
    <3>1. Reentered(t, p) \in Seq(Entries)
      BY <2>2, <2>4
    <3>2. guards' \in [Threads -> Seq(Entries)]
      BY <1>1, <2>1, <3>1
    <3>3. current' \in [Threads -> Tokens]
      <4>1. \A u \in Threads : current'[u] \in Tokens
        BY <1>1, <2>2, <2>4
      <4>2. DOMAIN current' = Threads /\ current' = [u \in Threads |-> current'[u]]
        BY <1>1, <2>1
      <4> QED  BY <4>1, <4>2
    <3> QED  BY <1>3, <3>2, <3>3
  <2>6. BridgeTypes'
    BY <1>1, <1>2, <1>3, <1>7, <2>5 DEF BridgeTypes
  <2>7. Others(t)
    BY <1>2, <1>7, <2>2 DEF Others
  <2>8. ASSUME ~Present' PROVE Idle'
    BY <1>3, <2>2, <2>4, <2>8, AbsentNone DEF Idle, GuardGone
  <2>9. Rest'
    BY <1>8, <1>9, <1>10, <2>8 DEF Rest, AppBridged, SinkOnce, Idle
  <2>10. CallsBelow(t, p, q)
    BY <1>5, <1>11 DEF CallsBelow
  <2>11. Stack(t)'
    BY <1>1, <1>2, <1>5, <1>7, <1>8, <1>11, <2>4, <2>10, ExitedPopped
  <2> QED  BY <1>1, <1>8, <2>6, <2>7, <2>9, <2>11, StacksKept
<1>12. CASE ~(~inTracing[t] /\ E # {})
  <2>1. guards' = guards /\ current' = current
    BY <1>12 DEF OnExit
  <2>2. E = {} /\ ~Quiet(t)
    BY <1>5, <1>12
  <2>3. \A j \in 1..Len(guards[t]) : guards[t][j].kind = "span" => guards[t][j].span # entered[t][q]
    BY <1>1, <1>5, <2>2, ThreadTypes DEF EntriesOf
  <2>4. Stack(t)'
    BY <1>1, <1>2, <1>5, <1>7, <1>8, <2>1, <2>2, <2>3, ExitedAlone
  <2>5. BridgeTypes'
    BY <1>1, <1>2, <1>3, <1>7, <2>1 DEF BridgeTypes
  <2>6. Others(t)
    BY <1>2, <1>7, <2>1 DEF Others
  <2>7. Rest'
    BY <1>2, <1>3, <1>8, <1>9, <2>1 DEF Rest, AppBridged, SinkOnce, StackInv
  <2> QED  BY <1>1, <1>8, <2>4, <2>5, <2>6, <2>7, StacksKept
<1> QED  BY <1>11, <1>12

-----------------------------------------------------------------------------
(* The invariant and its theorems *)

LEMMA StackInvInit == Init => StackInv
<1> SUFFICES ASSUME Init PROVE StackInv
  OBVIOUS
<1>1. contexts = <<>> /\ Len(contexts) = 0 /\ Tokens = {NONE}
  BY DEF Init, Tokens, NONE
<1>2. \A t \in Threads : /\ guards[t] = <<>> /\ entered[t] = <<>> /\ current[t] = NONE
                         /\ ~inTracing[t] /\ ~inLog[t] /\ Len(guards[t]) = 0 /\ Len(entered[t]) = 0
  BY DEF Init
<1>3. SlotTypeOK
  BY SlotInvInit DEF Init, SlotInv
<1>4. BridgeTypes
  <2>1. span \in [Spans -> SpanRecords]
    BY <1>1 DEF Init, SpanRecord, SpanRecords
  <2>2. contexts \in Contexts
    BY <1>1 DEF Contexts
  <2>3. <<>> \in Seq(Spans) /\ <<>> \in Seq(Entries)
    OBVIOUS
  <2> QED  BY <1>1, <2>1, <2>2, <2>3 DEF Init, BridgeTypes, SpanRecords, Contexts
<1>5. Rest
  <2>1. \A s \in Spans : span[s].phase = "new"
    BY DEF Init, SpanRecord
  <2> QED  BY <1>1, <1>2, <2>1 DEF Rest
<1>6. ASSUME NEW t \in Threads PROVE Stack(t)
  <2>1. Frames(t) = {}
    BY <1>2 DEF Frames
  <2>2. Restores(t)
    BY <1>2 DEF Restores, Under
  <2> QED  BY <1>2, <2>1, <2>2 DEF Stack, Stands, Layers, AppPairs, SinkPairs, Flagged
<1> QED  BY <1>3, <1>4, <1>5, <1>6 DEF StackInv, TypeOK, BridgeTypes

\* The dispatcher appears once: what had none may have one now.
LEMMA SlotStep ==
    ASSUME SlotInv, SlotInv', StackInv, SlotNext, UNCHANGED bridgeVars
    PROVE  StackInv'
<1>1. [Promise!Next]_<<Dispatcher, [i \in Installers |-> Answer(i)]>>
  BY StepRefines
<1>2. Dispatcher' = Dispatcher \/ Dispatcher = None
  BY <1>1 DEF Promise!Next, Promise!Install, Promise!Refuse
<1>3. ~Present' => ~Present
  BY <1>2 DEF Present
<1>4. /\ span' = span /\ contexts' = contexts /\ entered' = entered /\ guards' = guards
      /\ current' = current /\ inTracing' = inTracing /\ inLog' = inLog
  BY DEF bridgeVars
<1>5. BridgeTypes /\ SlotTypeOK'
  BY DEF StackInv, TypeOK, BridgeTypes, SlotInv
<1>6. TypeOK'
  BY <1>4, <1>5 DEF TypeOK, BridgeTypes, Tokens, Entries
<1>7. Rest'
  BY <1>3, <1>4 DEF StackInv, Rest
<1>8. ASSUME NEW t \in Threads PROVE Stack(t)'
  BY <1>4, <1>5, StackKept DEF StackInv, SpansKept
<1> QED  BY <1>6, <1>7, <1>8 DEF StackInv

LEMMA StackInvNext ==
    ASSUME SlotInv, SlotInv', StackInv, [Next]_vars
    PROVE  StackInv'
<1>1. CASE SlotNext /\ UNCHANGED bridgeVars
  BY <1>1, SlotStep
<1>2. ASSUME NEW t \in Threads, Bridge(t), UNCHANGED slotVars PROVE StackInv'
  BY <1>2, NewSpanStep, OnRecordStep, OnFollowsFromStep, OnCloseStep, OnEventStep,
     OnEnterStep, OnExitStep, LogStep, EndCallStep DEF Bridge
<1>3. CASE UNCHANGED vars
  <2>1. /\ span' = span /\ contexts' = contexts /\ entered' = entered /\ guards' = guards
        /\ current' = current /\ inTracing' = inTracing /\ inLog' = inLog
        /\ Present' = Present
    BY <1>3 DEF vars, bridgeVars, slotVars, Present, Dispatcher, Visible
  <2>2. BridgeTypes /\ SlotTypeOK'
    BY DEF StackInv, TypeOK, BridgeTypes, SlotInv
  <2>3. TypeOK'
    BY <2>1, <2>2 DEF TypeOK, BridgeTypes, Tokens, Entries
  <2>4. Rest'
    BY <2>1 DEF StackInv, Rest
  <2>5. ASSUME NEW t \in Threads PROVE Stack(t)'
    BY <2>1, <2>2, StackKept DEF StackInv, SpansKept
  <2> QED  BY <2>3, <2>4, <2>5 DEF StackInv
<1> QED  BY <1>1, <1>2, <1>3 DEF Next

LEMMA StacksStand == Spec => []StackInv
<1>1. SlotSpec => []SlotInv
  BY SlotInvInit, SlotInvNext, PTL DEF SlotSpec
<1>2. SlotInv /\ SlotInv' /\ StackInv /\ [Next]_vars => StackInv'
  BY StackInvNext
<1> QED  BY <1>1, <1>2, SlotIsApart, StackInvInit, PTL DEF Spec

\* The registry's stacks, the guards, the contexts and the slot stay in their
\* types, whichever sinks trace and log while a callback is open.
THEOREM TypeCorrect == Spec => []TypeOK
<1>1. StackInv => TypeOK
  BY DEF StackInv
<1> QED  BY <1>1, StacksStand, PTL

\* Spans exited out of order, entered twice, or around a sink that traces and
\* logs: while no call is open a thread reports under the innermost span it has
\* entered, under none when it has left them all, and neither flag is set.
THEOREM InnermostIsCurrent == Spec => []InnermostContext
BY InnermostFollows, StacksStand, PTL

-----------------------------------------------------------------------------
(* The tree of contexts *)

\* The token of a span's parent, or none where the tree is cut.
Over(s) == IF Bridged(span[s].parent) THEN span[span[s].parent].ctx ELSE NONE

Seen(s) == span[s].phase # "new"

\* A span's context is its own, and its parent's context is the parent of it.
OwnContext ==
    /\ \A s \in Spans : span[s].ctx # NONE =>
          /\ span[s].ctx \in 1..Len(contexts) /\ span[s].bridged
          /\ contexts[span[s].ctx].parent = Over(s)
    /\ \A s, r \in Spans : span[s].ctx # NONE /\ span[s].ctx = span[r].ctx => s = r

\* A parent was created before its children: it has no context only if they
\* could have had one, or neither has.
Elders ==
    /\ \A s \in Spans : span[s].parent = NoSpan \/ (Seen(s) /\ Seen(span[s].parent))
    /\ \A s \in Spans : span[s].bridged => Seen(s)
    /\ \A s \in Spans : span[s].bridged /\ span[s].ctx = NONE => Over(s) = NONE
    /\ \A t \in Threads : \A k \in 1..Len(entered[t]) : Seen(entered[t][k])

\* So the walk up the tree ends.
Ranks(rank) == \A s \in Spans : Bridged(span[s].parent) => rank[span[s].parent] < rank[s]
Ranked == \E rank \in [Spans -> Nat] : Ranks(rank)

TreeInv == OwnContext /\ Elders /\ Ranked

\* A walk of k steps from x to y by the function next, within G until its end.
Walk(X, G, next, x, y, k, path) ==
    /\ path \in [0..k -> X] /\ path[0] = x /\ path[k] = y
    /\ \A i \in 0..k - 1 : path[i] \in G /\ path[i + 1] = next[path[i]]
Reaches(X, G, next, x, y) == \E k \in Nat : \E path : Walk(X, G, next, x, y, k, path)

LEMMA ReachesSelf ==
    ASSUME NEW X, NEW G, NEW next, NEW x \in X
    PROVE  Reaches(X, G, next, x, x)
<1>1. Walk(X, G, next, x, x, 0, [i \in 0..0 |-> x])
  BY DEF Walk
<1> QED  BY <1>1 DEF Reaches

LEMMA ReachesFurther ==
    ASSUME NEW X, NEW G \in SUBSET X, NEW next \in [X -> X], NEW x \in G, NEW y,
           Reaches(X, G, next, next[x], y)
    PROVE  Reaches(X, G, next, x, y)
<1>0. PICK k \in Nat : \E path : Walk(X, G, next, next[x], y, k, path)
  BY DEF Reaches
<1>1. PICK path : Walk(X, G, next, next[x], y, k, path)
  BY <1>0
<1> DEFINE long == [i \in 0..k + 1 |-> IF i = 0 THEN x ELSE path[i - 1]]
<1>2. /\ path \in [0..k -> X] /\ path[0] = next[x] /\ path[k] = y /\ x \in X
      /\ \A i \in 0..k - 1 : path[i] \in G /\ path[i + 1] = next[path[i]]
  BY <1>1 DEF Walk
<1>3. \A i \in 0..k + 1 : i # 0 => i - 1 \in 0..k
  BY <1>0
<1>4. long \in [0..k + 1 -> X] /\ long[0] = x /\ long[k + 1] = y
  <2>1. 0 \in 0..k + 1 /\ k + 1 \in 0..k + 1 /\ k + 1 # 0 /\ (k + 1) - 1 = k
    BY <1>0
  <2> QED  BY <1>2, <1>3, <2>1
<1>5. ASSUME NEW i \in 0..(k + 1) - 1 PROVE long[i] \in G /\ long[i + 1] = next[long[i]]
  <2>1. i \in 0..k + 1 /\ i + 1 \in 0..k + 1 /\ i + 1 # 0 /\ (i + 1) - 1 = i
    BY <1>0
  <2>2. CASE i = 0
    BY <1>2, <2>1, <2>2
  <2>3. CASE i # 0
    <3>1. i - 1 \in 0..k - 1 /\ (i - 1) + 1 = i
      BY <1>0, <2>3
    <3>2. long[i] = path[i - 1] /\ long[i + 1] = path[i]
      BY <2>1, <2>3
    <3> QED  BY <1>2, <3>1, <3>2
  <2> QED  BY <2>2, <2>3
<1> HIDE DEF long
<1>6. Walk(X, G, next, x, y, k + 1, long) /\ k + 1 \in Nat
  BY <1>0, <1>4, <1>5 DEF Walk
<1> QED  BY <1>6 DEF Reaches

LEMMA ReachesNext ==
    ASSUME NEW X, NEW G \in SUBSET X, NEW next \in [X -> X], NEW x \in X, NEW y,
           Reaches(X, G, next, x, y), y # x
    PROVE  x \in G /\ Reaches(X, G, next, next[x], y)
<1>0. PICK k \in Nat : \E path : Walk(X, G, next, x, y, k, path)
  BY DEF Reaches
<1>1. PICK path : Walk(X, G, next, x, y, k, path)
  BY <1>0
<1> DEFINE short == [i \in 0..k - 1 |-> path[i + 1]]
<1>2. /\ path \in [0..k -> X] /\ path[0] = x /\ path[k] = y
      /\ \A i \in 0..k - 1 : path[i] \in G /\ path[i + 1] = next[path[i]]
  BY <1>1 DEF Walk
<1>3. k - 1 \in Nat /\ 0 \in 0..k - 1 /\ k - 1 \in 0..k - 1 /\ (k - 1) + 1 = k
  <2>1. k # 0
    BY <1>2
  <2> QED  BY <1>0, <2>1
<1>4. x \in G /\ path[0 + 1] = next[x]
  BY <1>2, <1>3
<1>5. \A i \in 0..k - 1 : i + 1 \in 0..k
  BY <1>0
<1>6. short \in [0..k - 1 -> X] /\ short[0] = next[x] /\ short[k - 1] = y
  BY <1>2, <1>3, <1>4, <1>5
<1>7. ASSUME NEW i \in 0..(k - 1) - 1 PROVE short[i] \in G /\ short[i + 1] = next[short[i]]
  <2>1. i \in 0..k - 1 /\ i + 1 \in 0..k - 1
    BY <1>0
  <2> QED  BY <1>2, <2>1
<1> HIDE DEF short
<1>8. Walk(X, G, next, next[x], y, k - 1, short)
  BY <1>6, <1>7 DEF Walk
<1> QED  BY <1>3, <1>4, <1>8 DEF Reaches

\* What a recursion along a function's steps equates.
Unfolds(f, X, G, next, label) ==
    \A x \in X : f[x] = label[x] \cup (IF x \in G THEN f[next[x]] ELSE {})

\* Such a recursion has a solution: the labels of all that x reaches.
LEMMA UnfoldingExists ==
    ASSUME NEW X, NEW G \in SUBSET X, NEW next \in [X -> X], NEW V, NEW label \in [X -> SUBSET V]
    PROVE  \E f \in [X -> SUBSET V] : Unfolds(f, X, G, next, label)
<1> DEFINE f == [x \in X |-> {v \in V : \E y \in X : Reaches(X, G, next, x, y) /\ v \in label[y]}]
<1>1. f \in [X -> SUBSET V]
  OBVIOUS
<1>2. ASSUME NEW x \in X, NEW v, v \in label[x] \cup (IF x \in G THEN f[next[x]] ELSE {})
      PROVE  v \in f[x]
  <2>1. CASE v \in label[x]
    <3>1. Reaches(X, G, next, x, x)
      BY ReachesSelf
    <3> QED  BY <2>1, <3>1
  <2>2. CASE x \in G /\ v \in f[next[x]]
    <3>1. next[x] \in X
      OBVIOUS
    <3>2. PICK y \in X : Reaches(X, G, next, next[x], y) /\ v \in label[y]
      BY <2>2, <3>1
    <3>3. Reaches(X, G, next, x, y)
      BY <2>2, <3>2, ReachesFurther
    <3> QED  BY <3>2, <3>3
  <2> QED  BY <1>2, <2>1, <2>2
<1>3. ASSUME NEW x \in X, NEW v, v \in f[x]
      PROVE  v \in label[x] \cup (IF x \in G THEN f[next[x]] ELSE {})
  <2>1. PICK y \in X : Reaches(X, G, next, x, y) /\ v \in label[y]
    BY <1>3
  <2>2. CASE y = x
    BY <2>1, <2>2
  <2>3. CASE y # x
    <3>1. x \in G /\ Reaches(X, G, next, next[x], y)
      BY <2>1, <2>3, ReachesNext
    <3>2. next[x] \in X /\ v \in V
      BY <2>1
    <3>3. v \in f[next[x]]
      BY <2>1, <3>1, <3>2
    <3> QED  BY <3>1, <3>3
  <2> QED  BY <2>2, <2>3
<1>4. ASSUME NEW x \in X PROVE f[x] = label[x] \cup (IF x \in G THEN f[next[x]] ELSE {})
  <2> HIDE DEF f
  <2> QED  BY <1>2, <1>3
<1> HIDE DEF f
<1>5. Unfolds(f, X, G, next, label)
  BY <1>4 DEF Unfolds
<1> QED  BY <1>1, <1>5

\* The lineage of a token: itself and its parent's.
LEMMA LineageIs ==
    ASSUME BridgeTypes
    PROVE  \A c \in Nat : Lineage[c] =
              IF c \notin 1..Len(contexts) THEN {} ELSE {c} \cup Lineage[contexts[c].parent]
<1> DEFINE N == Len(contexts)
           label == [c \in Nat |-> IF c \in 1..N THEN {c} ELSE {}]
           next == [c \in Nat |-> IF c \in 1..N THEN contexts[c].parent ELSE c]
           body(f) == [c \in Nat |-> IF c \notin 1..N THEN {} ELSE {c} \cup f[contexts[c].parent]]
<1>1. N \in Nat /\ 1..N \in SUBSET Nat /\ label \in [Nat -> SUBSET Nat]
  BY DEF BridgeTypes
<1>2. \A c \in 1..N : contexts[c].parent \in Nat
  <2>1. \A c \in 1..N : contexts[c] \in [parent : Tokens, links : SUBSET Tokens]
    BY ElementOfSeq DEF BridgeTypes
  <2> QED  BY <1>1, <2>1 DEF Tokens
<1>3. next \in [Nat -> Nat]
  BY <1>2
<1>4. PICK f \in [Nat -> SUBSET Nat] : Unfolds(f, Nat, 1..N, next, label)
  <2> HIDE DEF next, label
  <2> QED  BY <1>1, <1>3, UnfoldingExists
<1>5. \A c \in Nat : f[c] = IF c \notin 1..N THEN {} ELSE {c} \cup f[contexts[c].parent]
  BY <1>4 DEF Unfolds
<1>6. f = body(f)
  BY <1>4, <1>5
<1>7. Lineage = CHOOSE g : g = body(g)
  BY DEF Lineage
<1> HIDE DEF body
<1>8. Lineage = body(Lineage)
  BY <1>6, <1>7
<1> QED  BY <1>8 DEF body

\* What is at or above a span: itself and what is above its parent.
LEMMA AboveIs ==
    ASSUME BridgeTypes
    PROVE  \A s \in Spans :
              Above[s] = {s} \cup (IF Bridged(span[s].parent) THEN Above[span[s].parent] ELSE {})
<1> DEFINE G == {s \in Spans : Bridged(span[s].parent)}
           label == [s \in Spans |-> {s}]
           next == [s \in Spans |-> IF Bridged(span[s].parent) THEN span[s].parent ELSE s]
           body(f) == [s \in Spans |->
                          {s} \cup (IF Bridged(span[s].parent) THEN f[span[s].parent] ELSE {})]
<1>1. G \in SUBSET Spans /\ label \in [Spans -> SUBSET Spans]
  OBVIOUS
<1>2. next \in [Spans -> Spans]
  <2>1. \A s \in Spans : span[s].parent \in Spans \cup {NoSpan}
    BY DEF BridgeTypes
  <2>2. \A s \in Spans : Bridged(span[s].parent) => span[s].parent # NoSpan
    BY DEF Bridged
  <2> QED  BY <2>1, <2>2
<1>3. PICK f \in [Spans -> SUBSET Spans] : Unfolds(f, Spans, G, next, label)
  <2> HIDE DEF G, next, label
  <2> QED  BY <1>1, <1>2, UnfoldingExists
<1>4. \A s \in Spans : f[s] = {s} \cup (IF Bridged(span[s].parent) THEN f[span[s].parent] ELSE {})
  BY <1>3 DEF Unfolds
<1>5. f = body(f)
  BY <1>3, <1>4
<1>6. Above = CHOOSE g : g = body(g)
  BY DEF Above
<1> HIDE DEF body
<1>7. Above = body(Above)
  BY <1>5, <1>6
<1> QED  BY <1>7 DEF body

\* By induction on the ranks: a span is above another just where its token is
\* in the lineage of the other's.
LEMMA LineageFollows == StackInv /\ TreeInv => LineageFollowsSpans
<1> SUFFICES ASSUME StackInv, TreeInv PROVE LineageFollowsSpans
  OBVIOUS
<1>1. BridgeTypes
  BY DEF StackInv, TypeOK, BridgeTypes
<1>2. PICK rank \in [Spans -> Nat] : Ranks(rank)
  BY DEF TreeInv, Ranked
<1> DEFINE agree(b) == \A a \in Spans : span[a].ctx # NONE =>
                          (span[a].ctx \in Lineage[span[b].ctx] <=> a \in Above[b])
           T == {k \in Nat : \A b \in Spans : Bridged(b) /\ rank[b] < k => agree(b)}
<1>3. /\ \A s \in Spans : span[s].ctx \in Nat
      /\ \A s \in Spans : Bridged(span[s].parent) => span[s].parent \in Spans
      /\ Len(contexts) \in Nat /\ NONE \in Nat /\ NONE \notin 1..Len(contexts)
  <2>1. \A s \in Spans : span[s].ctx \in Tokens /\ span[s].parent \in Spans \cup {NoSpan}
    BY <1>1 DEF BridgeTypes
  <2>2. Len(contexts) \in Nat
    BY <1>1 DEF BridgeTypes
  <2> QED  BY <2>1, <2>2 DEF Bridged, NONE, Tokens
<1>4. Lineage[NONE] = {}
  BY <1>1, <1>3, LineageIs
<1>5. 0 \in T
  BY <1>2
<1>6. ASSUME NEW k \in Nat, k \in T PROVE k + 1 \in T
  <2>1. SUFFICES ASSUME NEW b \in Spans, Bridged(b), rank[b] < k + 1 PROVE agree(b)
    OBVIOUS
  <2> DEFINE p == span[b].parent
  <2>2. Above[b] = {b} \cup (IF Bridged(p) THEN Above[p] ELSE {})
    BY <1>1, AboveIs
  <2>3. Bridged(p) => p \in Spans /\ agree(p)
    <3>1. ASSUME Bridged(p) PROVE p \in Spans /\ rank[p] < rank[b]
      BY <1>2, <1>3, <3>1 DEF Ranks
    <3>2. ASSUME Bridged(p) PROVE rank[p] < k
      BY <1>2, <2>1, <3>1, <3>2
    <3> QED  BY <1>6, <3>1, <3>2
  <2>4. Over(b) = IF Bridged(p) THEN span[p].ctx ELSE NONE
    BY DEF Over
  <2> HIDE DEF p, T
  <2>5. \A a \in Spans : span[a].ctx # NONE =>
          (span[a].ctx \in Lineage[Over(b)] <=> a \in (IF Bridged(p) THEN Above[p] ELSE {}))
    BY <1>4, <2>3, <2>4
  <2>6. CASE span[b].ctx = NONE
    <3>1. Over(b) = NONE
      BY <2>1, <2>6 DEF TreeInv, Elders, Bridged
    <3> QED  BY <1>4, <2>2, <2>5, <2>6, <3>1
  <2>7. CASE span[b].ctx # NONE
    <3>1. span[b].ctx \in 1..Len(contexts) /\ contexts[span[b].ctx].parent = Over(b)
      BY <2>7 DEF TreeInv, OwnContext
    <3>2. Lineage[span[b].ctx] = {span[b].ctx} \cup Lineage[Over(b)]
      BY <1>1, <1>3, <3>1, LineageIs
    <3>3. \A a \in Spans : span[a].ctx # NONE => (span[a].ctx = span[b].ctx <=> a = b)
      BY DEF TreeInv, OwnContext
    <3> QED  BY <2>2, <2>5, <3>2, <3>3
  <2> QED  BY <2>6, <2>7
<1> HIDE DEF T
<1>7. Nat \subseteq T
  BY <1>5, <1>6, SetInduction
<1>8. ASSUME NEW b \in Spans, Bridged(b) PROVE agree(b)
  <2>1. rank[b] + 1 \in T /\ rank[b] < rank[b] + 1
    BY <1>2, <1>7
  <2> QED  BY <1>8, <2>1 DEF T
<1> QED  BY <1>8 DEF LineageFollowsSpans, MatchesContext

\* A step that creates no span and no context leaves the tree.
LEMMA TreeKept ==
    ASSUME TreeInv,
           \A s \in Spans : /\ span'[s].ctx = span[s].ctx /\ span'[s].parent = span[s].parent
                            /\ span'[s].bridged = span[s].bridged /\ (Seen(s)' <=> Seen(s)),
           Len(contexts') = Len(contexts),
           \A c \in 1..Len(contexts) : contexts'[c].parent = contexts[c].parent,
           \A t \in Threads : \A k \in 1..Len(entered'[t]) :
              entered'[t][k] \in Spans /\ Seen(entered'[t][k]),
           \A s \in Spans : span[s].parent \in Spans \cup {NoSpan}
    PROVE  TreeInv'
<1>1. \A s \in Spans : Bridged(span[s].parent)' <=> Bridged(span[s].parent)
  BY DEF Bridged
<1>2. \A s \in Spans : Over(s)' = Over(s)
  <2>1. \A s \in Spans : Bridged(span[s].parent) => span[s].parent \in Spans
    BY DEF Bridged
  <2> QED  BY <1>1, <2>1 DEF Over
<1>3. OwnContext'
  BY <1>2 DEF TreeInv, OwnContext
<1>4. Elders'
  BY <1>2 DEF TreeInv, Elders
<1>5. Ranked'
  <2>1. PICK rank \in [Spans -> Nat] : Ranks(rank)
    BY DEF TreeInv, Ranked
  <2>2. Ranks(rank)'
    BY <1>1, <2>1 DEF Ranks
  <2> QED  BY <2>2 DEF Ranked
<1> QED  BY <1>3, <1>4, <1>5 DEF TreeInv

\* A span that may be named as a parent has been created.
LEMMA ParentsSeen ==
    ASSUME StackInv, TreeInv, NEW t \in Threads, NEW parent \in Parents(t)
    PROVE  parent = NoSpan \/ (parent \in Spans /\ Seen(parent))
<1>1. BridgeTypes
  BY DEF StackInv, TypeOK, BridgeTypes
<1>2. parent \in Spans \cup {NoSpan}
  BY <1>1, ParentsAre
<1>3. CASE parent \in Known(t)
  BY <1>2, <1>3 DEF Known, Seen
<1>4. CASE parent = Innermost(t) /\ parent # NoSpan
  <2> DEFINE F == {i \in DOMAIN entered[t] : First(t, i)}
  <2>1. F \in SUBSET (1..Len(entered[t])) /\ Len(entered[t]) \in Nat
    BY <1>1, ThreadTypes
  <2>2. F # {}
    BY <1>4 DEF Innermost
  <2>3. \E i \in F : \A j \in F : j <= i
    BY <2>1, <2>2, GreatestIn
  <2> DEFINE i0 == CHOOSE i \in F : \A j \in F : j <= i
  <2>4. i0 \in F
    BY <2>3
  <2>5. parent = entered[t][i0]
    BY <1>4, <2>2 DEF Innermost
  <2> HIDE DEF F, i0
  <2> QED  BY <1>2, <1>4, <2>1, <2>4, <2>5 DEF TreeInv, Elders
<1> QED  BY <1>2, <1>3, <1>4 DEF Parents

\* A new span, seen or refused, is a leaf of the tree.
LEMMA TreeGrows ==
    ASSUME StackInv, TreeInv, NEW s \in Spans, span[s].phase = "new",
           NEW parent, parent = NoSpan \/ (parent \in Spans /\ Seen(parent)),
           NEW bridged \in BOOLEAN, NEW ctx,
           span' = [span EXCEPT ![s] = SpanRecord("open", bridged, ctx, parent)],
           entered' = entered, Len(contexts) <= Len(contexts'), Len(contexts') \in Nat,
           \A c \in 1..Len(contexts) : contexts'[c] = contexts[c],
           LET over == IF Bridged(parent) THEN span[parent].ctx ELSE NONE
           IN  IF ctx = NONE THEN bridged => over = NONE
               ELSE /\ bridged /\ ctx \in 1..Len(contexts') /\ ctx \notin Tokens
                    /\ contexts'[ctx].parent = over
    PROVE  TreeInv'
<1>1. BridgeTypes /\ span \in [Spans -> SpanRecords]
  BY DEF StackInv, TypeOK, BridgeTypes, SpanRecords
<1>2. \A r \in Spans : span[r].ctx \in Tokens /\ span[r].parent \in Spans \cup {NoSpan}
                       /\ span[r].bridged \in BOOLEAN
  BY <1>1 DEF BridgeTypes
<1>3. \A r \in Spans : r # s => span'[r] = span[r]
  BY <1>1
<1>4. span'[s].phase = "open" /\ span'[s].bridged = bridged /\ span'[s].ctx = ctx
      /\ span'[s].parent = parent
  BY <1>1 DEF SpanRecord
<1>5. parent # s /\ \A r \in Spans : span[r].parent # s
  BY SpansAssumption DEF Seen, TreeInv, Elders
<1>6. Bridged(parent) => parent \in Spans
  BY DEF Bridged
<1>7. /\ \A r \in Spans : r # s => (Bridged(span[r].parent)' <=> Bridged(span[r].parent))
      /\ Bridged(span[s].parent)' <=> Bridged(parent)
  BY <1>2, <1>3, <1>4, <1>5 DEF Bridged
<1>8. /\ \A r \in Spans : r # s => Over(r)' = Over(r)
      /\ Over(s)' = IF Bridged(parent) THEN span[parent].ctx ELSE NONE
  <2>1. \A r \in Spans : Bridged(span[r].parent) => span[r].parent \in Spans
    BY <1>2 DEF Bridged
  <2>2. \A r \in Spans : r # s => Over(r)' = Over(r)
    BY <1>2, <1>3, <1>5, <1>7, <2>1 DEF Over
  <2>3. Over(s)' = IF Bridged(parent) THEN span[parent].ctx ELSE NONE
    BY <1>3, <1>4, <1>5, <1>6, <1>7 DEF Over
  <2> QED  BY <2>2, <2>3
<1>9. Len(contexts) \in Nat /\ \A c \in 1..Len(contexts) : c \in 1..Len(contexts')
  BY <1>1 DEF BridgeTypes
<1>10. OwnContext'
  <2>1. ASSUME NEW r \in Spans, span'[r].ctx # NONE
        PROVE  /\ span'[r].ctx \in 1..Len(contexts') /\ span'[r].bridged
               /\ contexts'[span'[r].ctx].parent = Over(r)'
    <3>1. CASE r = s
      BY <1>4, <1>8, <2>1, <3>1
    <3>2. CASE r # s
      BY <1>3, <1>8, <1>9, <2>1, <3>2 DEF TreeInv, OwnContext
    <3> QED  BY <3>1, <3>2
  <2>2. ASSUME NEW q \in Spans, NEW r \in Spans, span'[q].ctx # NONE, span'[q].ctx = span'[r].ctx
        PROVE  q = r
    <3>1. ctx # NONE => \A c \in Spans : span[c].ctx # ctx
      BY <1>2
    <3> QED  BY <1>3, <1>4, <2>2, <3>1 DEF TreeInv, OwnContext
  <2> QED  BY <2>1, <2>2 DEF OwnContext
<1>11. \A r \in Spans : Seen(r) => Seen(r)'
  BY <1>3, <1>4 DEF Seen
<1>12. Seen(s)'
  BY <1>4 DEF Seen
<1>13. Elders'
  <2>1. \A r \in Spans : span'[r].parent = NoSpan \/ (Seen(r)' /\ Seen(span[r].parent)')
    <3>1. \A r \in Spans : r # s => span[r].parent = NoSpan \/ (Seen(r) /\ Seen(span[r].parent))
      BY DEF TreeInv, Elders
    <3> QED  BY <1>2, <1>3, <1>4, <1>11, <1>12, <3>1
  <2>2. \A r \in Spans : span'[r].bridged => Seen(r)'
    BY <1>3, <1>11, <1>12 DEF TreeInv, Elders
  <2>3. \A r \in Spans : span'[r].bridged /\ span'[r].ctx = NONE => Over(r)' = NONE
    BY <1>3, <1>4, <1>8 DEF TreeInv, Elders
  <2>4. \A t \in Threads : \A k \in 1..Len(entered[t]) : Seen(entered[t][k])'
    BY <1>1, <1>11, ThreadTypes DEF TreeInv, Elders
  <2> QED  BY <2>1, <2>2, <2>3, <2>4 DEF Elders
<1>14. Ranked'
  <2>1. PICK rank \in [Spans -> Nat] : Ranks(rank)
    BY DEF TreeInv, Ranked
  <2> DEFINE n == IF parent \in Spans THEN rank[parent] + 1 ELSE 0
             higher == [rank EXCEPT ![s] = n]
  <2>2. n \in Nat /\ (parent \in Spans => rank[parent] < n)
    BY <2>1
  <2> HIDE DEF n
  <2>3. higher \in [Spans -> Nat] /\ higher[s] = n /\ \A r \in Spans : r # s => higher[r] = rank[r]
    BY <2>1, <2>2
  <2> HIDE DEF higher
  <2>4. ASSUME NEW r \in Spans, Bridged(span[r].parent)'
        PROVE  higher[span'[r].parent] < higher[r]
    <3>1. CASE r = s
      BY <1>4, <1>5, <1>6, <1>7, <2>2, <2>3, <2>4, <3>1
    <3>2. CASE r # s
      <4>1. Bridged(span[r].parent) /\ span'[r].parent = span[r].parent
        BY <1>3, <1>7, <2>4, <3>2
      <4>2. span[r].parent \in Spans /\ span[r].parent # s
        BY <1>2, <1>5, <4>1 DEF Bridged
      <4> QED  BY <2>1, <2>3, <3>2, <4>1, <4>2 DEF Ranks
    <3> QED  BY <3>1, <3>2
  <2>5. Ranks(higher)'
    BY <2>4 DEF Ranks
  <2> QED  BY <2>3, <2>5 DEF Ranked
<1> QED  BY <1>10, <1>13, <1>14 DEF TreeInv

LEMMA TreeInvInit == Init => TreeInv
<1> SUFFICES ASSUME Init PROVE TreeInv
  OBVIOUS
<1>1. \A s \in Spans : /\ span[s].ctx = NONE /\ span[s].parent = NoSpan
                       /\ span[s].bridged = FALSE /\ ~Bridged(span[s].parent)
  BY DEF Init, SpanRecord, Bridged
<1>2. \A t \in Threads : Len(entered[t]) = 0
  BY DEF Init
<1>3. OwnContext /\ Elders
  BY <1>1, <1>2 DEF OwnContext, Elders
<1>4. [s \in Spans |-> 0] \in [Spans -> Nat] /\ Ranks([s \in Spans |-> 0])
  BY <1>1 DEF Ranks
<1> QED  BY <1>3, <1>4 DEF TreeInv, Ranked

LEMMA TreeNewSpan ==
    ASSUME StackInv, TreeInv, NEW t \in Threads, NEW s \in Spans, NEW parent \in Parents(t),
           NEW wanted \in BOOLEAN, NewSpan(t, s, parent, wanted)
    PROVE  TreeInv'
<1>1. span[s].phase = "new" /\ entered' = entered
  BY DEF NewSpan
<1>2. parent = NoSpan \/ (parent \in Spans /\ Seen(parent))
  BY ParentsSeen
<1>3. Len(contexts) \in Nat /\ contexts \in Contexts
      /\ \A r \in Spans : span[r].ctx \in Tokens
  BY DEF StackInv, TypeOK, Contexts
<1>4. CASE Refused(t) /\ span' = [span EXCEPT ![s] = SpanRecord("open", FALSE, NONE, parent)]
  <2>1. contexts' = contexts
    BY <1>4 DEF Refused
  <2>2. /\ Len(contexts) <= Len(contexts') /\ Len(contexts') \in Nat
        /\ \A i \in 1..Len(contexts) : contexts'[i] = contexts[i]
    BY <1>3, <2>1
  <2>3. LET over == IF Bridged(parent) THEN span[parent].ctx ELSE NONE
        IN  IF NONE = NONE THEN FALSE => over = NONE
            ELSE /\ FALSE /\ NONE \in 1..Len(contexts') /\ NONE \notin Tokens
                 /\ contexts'[NONE].parent = over
    OBVIOUS
  <2> QED  BY <1>1, <1>2, <1>4, <2>2, <2>3, TreeGrows
<1>5. CASE /\ CreateContext(ParentContext(t, parent))
           /\ span' = [span EXCEPT ![s] = SpanRecord("open", TRUE, NewToken, parent)]
  <2>1. CASE ~Present
    <3>1. contexts' = contexts /\ NewToken = NONE
      BY <1>5, <2>1 DEF CreateContext, NewToken
    <3>2. Bridged(parent) => span[parent].ctx = NONE
      <4>1. Tokens = {NONE}
        BY <2>1, AbsentNone
      <4> QED  BY <1>2, <1>3, <4>1 DEF Bridged
    <3>3. span' = [span EXCEPT ![s] = SpanRecord("open", TRUE, NONE, parent)]
      BY <1>5, <3>1
    <3>4. /\ Len(contexts) <= Len(contexts') /\ Len(contexts') \in Nat
          /\ \A i \in 1..Len(contexts) : contexts'[i] = contexts[i]
      BY <1>3, <3>1
    <3>5. LET over == IF Bridged(parent) THEN span[parent].ctx ELSE NONE
          IN  IF NONE = NONE THEN TRUE => over = NONE
              ELSE /\ TRUE /\ NONE \in 1..Len(contexts') /\ NONE \notin Tokens
                   /\ contexts'[NONE].parent = over
      BY <3>2
    <3> QED  BY <1>1, <1>2, <3>3, <3>4, <3>5, TreeGrows
  <2>2. CASE Present
    <3> DEFINE c == [parent |-> ParentContext(t, parent), links |-> {}]
               n == Len(contexts)
    <3>1. contexts' = Append(contexts, c) /\ NewToken = n + 1
      BY <1>5, <2>2 DEF CreateContext, NewToken
    <3>2. Len(contexts') = n + 1 /\ contexts'[n + 1] = c /\ \A i \in 1..n : contexts'[i] = contexts[i]
      BY <1>3, <3>1, Grown DEF Contexts
    <3>3. c.parent = IF Bridged(parent) THEN span[parent].ctx ELSE NONE
      BY DEF ParentContext
    <3> HIDE DEF c
    <3>4. n + 1 # NONE /\ n + 1 \in 1..n + 1 /\ n + 1 \notin Tokens /\ n <= n + 1 /\ n + 1 \in Nat
      BY <1>3 DEF NONE, Tokens
    <3> HIDE DEF n
    <3>5. span' = [span EXCEPT ![s] = SpanRecord("open", TRUE, n + 1, parent)]
      BY <1>5, <3>1
    <3>6. /\ Len(contexts) <= Len(contexts') /\ Len(contexts') \in Nat
          /\ \A i \in 1..Len(contexts) : contexts'[i] = contexts[i]
      BY <3>2, <3>4 DEF n
    <3>7. LET over == IF Bridged(parent) THEN span[parent].ctx ELSE NONE
          IN  IF n + 1 = NONE THEN TRUE => over = NONE
              ELSE /\ TRUE /\ n + 1 \in 1..Len(contexts') /\ n + 1 \notin Tokens
                   /\ contexts'[n + 1].parent = over
      BY <3>2, <3>3, <3>4
    <3> QED  BY <1>1, <1>2, <3>5, <3>6, <3>7, TreeGrows
  <2> QED  BY <2>1, <2>2
<1> QED  BY <1>4, <1>5 DEF NewSpan

\* Nothing else creates a span or a context, or lets an unseen span in.
LEMMA TreeOther ==
    ASSUME StackInv, TreeInv, NEW t \in Threads,
           \/ \E s \in Spans, wanted \in BOOLEAN :
                \/ OnRecord(t, s, wanted)
                \/ \E related \in Spans : OnFollowsFrom(t, s, related, wanted)
                \/ OnClose(t, s, wanted)
           \/ \E parent \in Parents(t), wanted \in BOOLEAN : OnEvent(t, parent, wanted)
           \/ \E s \in Spans : OnEnter(t, s) \/ OnExit(t, s)
           \/ Log(t) \/ EndCall(t)
    PROVE  TreeInv'
<1>1. BridgeTypes
  BY DEF StackInv, TypeOK, BridgeTypes
<1>2. /\ span \in [Spans -> SpanRecords] /\ entered \in [Threads -> Seq(Spans)]
      /\ contexts \in Contexts /\ Len(contexts) \in Nat
      /\ \A s \in Spans : span[s].parent \in Spans \cup {NoSpan}
  BY <1>1 DEF BridgeTypes, SpanRecords, Contexts
<1>3. \A u \in Threads : \A k \in 1..Len(entered[u]) : entered[u][k] \in Spans /\ Seen(entered[u][k])
  BY <1>1, ThreadTypes DEF TreeInv, Elders
<1> DEFINE SpansSame == \A s \in Spans :
                /\ span'[s].ctx = span[s].ctx /\ span'[s].parent = span[s].parent
                /\ span'[s].bridged = span[s].bridged /\ (Seen(s)' <=> Seen(s))
           ContextsSame == /\ Len(contexts') = Len(contexts)
                           /\ \A c \in 1..Len(contexts) : contexts'[c].parent = contexts[c].parent
           EnteredSeen == \A u \in Threads : \A k \in 1..Len(entered'[u]) :
                              entered'[u][k] \in Spans /\ Seen(entered'[u][k])
<1>4. span' = span => SpansSame
  BY DEF Seen
<1>5. contexts' = contexts => ContextsSame
  OBVIOUS
<1>6. entered' = entered => EnteredSeen
  BY <1>3
<1>7. ASSUME SpansSame, ContextsSame, EnteredSeen PROVE TreeInv'
  BY <1>2, <1>7, TreeKept
<1>8. ASSUME NEW s \in Spans, NEW wanted \in BOOLEAN, OnRecord(t, s, wanted) PROVE TreeInv'
  <2>1. span' = span /\ contexts' = contexts /\ entered' = entered
    BY <1>8 DEF OnRecord, Refused
  <2> HIDE DEF SpansSame, ContextsSame, EnteredSeen
  <2> QED  BY <1>4, <1>5, <1>6, <1>7, <2>1
<1>9. ASSUME NEW s \in Spans, NEW related \in Spans, NEW wanted \in BOOLEAN,
             OnFollowsFrom(t, s, related, wanted)
      PROVE  TreeInv'
  <2>1. span' = span /\ entered' = entered
    BY <1>9 DEF OnFollowsFrom
  <2>2. ContextsSame
    <3>1. contexts' = contexts \/ LinkContext(span[s].ctx, span[related].ctx)
      BY <1>9 DEF OnFollowsFrom, Refused
    <3>2. ASSUME LinkContext(span[s].ctx, span[related].ctx), contexts' # contexts
          PROVE  ContextsSame
      <4> DEFINE x == span[s].ctx
                 c == [contexts[x] EXCEPT !.links = @ \cup {span[related].ctx}]
                 C == [parent : Tokens, links : SUBSET Tokens]
      <4>1. x \in 1..Len(contexts) /\ contexts' = [contexts EXCEPT ![x] = c]
        BY <3>2 DEF LinkContext
      <4>2. contexts[x] \in C
        <5> HIDE DEF C, x
        <5> QED  BY <1>2, <4>1, ElementOfSeq DEF Contexts, C
      <4>3. c \in C /\ c.parent = contexts[x].parent
        <5>1. span[related].ctx \in Tokens
          BY <1>1 DEF BridgeTypes
        <5> HIDE DEF x
        <5> QED  BY <4>2, <5>1
      <4>4. contexts \in Seq(C)
        BY <1>2 DEF Contexts
      <4> HIDE DEF c, C, x
      <4>5. Len(contexts') = Len(contexts)
            /\ \A i \in 1..Len(contexts) : contexts'[i] = IF i = x THEN c ELSE contexts[i]
        BY <4>1, <4>3, <4>4, ExceptSeq
      <4> QED  BY <4>3, <4>5
    <3> QED  BY <1>5, <3>1, <3>2
  <2> HIDE DEF SpansSame, ContextsSame, EnteredSeen
  <2> QED  BY <1>4, <1>6, <1>7, <2>1, <2>2
<1>10. ASSUME NEW s \in Spans, NEW wanted \in BOOLEAN, OnClose(t, s, wanted) PROVE TreeInv'
  <2>1. /\ contexts' = contexts /\ entered' = entered
        /\ span' = [span EXCEPT ![s].phase = "closed"] /\ span[s].phase = "open"
    BY <1>10 DEF OnClose, Refused, Known
  <2>2. SpansSame
    BY <1>2, <2>1 DEF Seen, SpanRecords
  <2> HIDE DEF SpansSame, ContextsSame, EnteredSeen
  <2> QED  BY <1>5, <1>6, <1>7, <2>1, <2>2
<1>11. ASSUME NEW parent \in Parents(t), NEW wanted \in BOOLEAN, OnEvent(t, parent, wanted)
       PROVE  TreeInv'
  <2>1. span' = span /\ contexts' = contexts /\ entered' = entered
    BY <1>11 DEF OnEvent, Refused
  <2> HIDE DEF SpansSame, ContextsSame, EnteredSeen
  <2> QED  BY <1>4, <1>5, <1>6, <1>7, <2>1
<1>12. ASSUME NEW s \in Spans, OnEnter(t, s) PROVE TreeInv'
  <2>1. /\ span' = span /\ contexts' = contexts /\ Seen(s)
        /\ entered' = [entered EXCEPT ![t] = Append(entered[t], s)]
    BY <1>12 DEF OnEnter, Known, Seen
  <2>2. EnteredSeen
    <3>1. /\ entered'[t] = Append(entered[t], s) /\ entered[t] \in Seq(Spans)
          /\ \A u \in Threads : u # t => entered'[u] = entered[u]
      BY <1>2, <2>1
    <3>2. /\ Len(entered'[t]) = Len(entered[t]) + 1 /\ entered'[t][Len(entered[t]) + 1] = s
          /\ \A k \in 1..Len(entered[t]) : entered'[t][k] = entered[t][k]
      BY <3>1, Grown
    <3>3. \A k \in 1..Len(entered[t]) + 1 : k \in 1..Len(entered[t]) \/ k = Len(entered[t]) + 1
      BY <3>1
    <3> QED  BY <1>3, <2>1, <3>1, <3>2, <3>3
  <2> HIDE DEF SpansSame, ContextsSame, EnteredSeen
  <2> QED  BY <1>4, <1>5, <1>7, <2>1, <2>2
<1>13. ASSUME NEW s \in Spans, OnExit(t, s) PROVE TreeInv'
  <2> DEFINE q == Last(s, entered[t])
  <2>1. span' = span /\ contexts' = contexts /\ entered' = [entered EXCEPT ![t] = Without(entered[t], q)]
    BY <1>13 DEF OnExit
  <2>2. entered[t] \in Seq(Spans) /\ q \in 1..Len(entered[t])
    <3>1. PICK k \in 1..Len(entered[t]) : entered[t][k] = s
      BY <1>1, <1>13, ThreadTypes DEF OnExit
    <3>2. entered[t] \in Seq(Spans)
      BY <1>2
    <3> QED  BY <3>1, <3>2, LastIs
  <2> HIDE DEF q
  <2>3. /\ entered'[t] = Without(entered[t], q)
        /\ \A u \in Threads : u # t => entered'[u] = entered[u]
    BY <1>2, <2>1
  <2>4. \A k \in 1..Len(entered'[t]) :
            Skip(q, k) \in 1..Len(entered[t]) /\ entered'[t][k] = entered[t][Skip(q, k)]
    BY SMTT(30), <1>1, <2>2, <2>3, Left DEF Skip
  <2>5. EnteredSeen
    BY <1>3, <2>3, <2>4
  <2> HIDE DEF SpansSame, ContextsSame, EnteredSeen
  <2> QED  BY <1>4, <1>5, <1>7, <2>1, <2>5
<1>14. ASSUME Log(t) \/ EndCall(t) PROVE TreeInv'
  <2>1. span' = span /\ contexts' = contexts /\ entered' = entered
    BY <1>14 DEF Log, EndCall
  <2> HIDE DEF SpansSame, ContextsSame, EnteredSeen
  <2> QED  BY <1>4, <1>5, <1>6, <1>7, <2>1
<1> QED  BY <1>8, <1>9, <1>10, <1>11, <1>12, <1>13, <1>14

LEMMA TreeInvNext ==
    ASSUME StackInv, TreeInv, [Next]_vars
    PROVE  TreeInv'
<1>1. ASSUME span' = span, contexts' = contexts, entered' = entered PROVE TreeInv'
  BY <1>1 DEF TreeInv, OwnContext, Elders, Ranked, Ranks, Over, Seen, Bridged
<1>2. ASSUME NEW t \in Threads, Bridge(t) PROVE TreeInv'
  BY <1>2, TreeNewSpan, TreeOther DEF Bridge
<1> QED  BY <1>1, <1>2 DEF Next, vars, bridgeVars

\* A descendants filter on a span's context selects exactly the spans below it
\* in tracing's tree, for any spans and threads, and whatever was current when
\* each was created: the token of a parent is read from the span it names.
THEOREM LineageIsTheTree == Spec => []LineageFollowsSpans
<1>1. StackInv /\ TreeInv /\ [Next]_vars => TreeInv'
  BY TreeInvNext
<1>2. Spec => []TreeInv
  BY <1>1, TreeInvInit, StacksStand, PTL DEF Spec
<1> QED  BY <1>2, LineageFollows, StacksStand, PTL
==============================================================================
