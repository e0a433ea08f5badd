--------------------------- MODULE RuntimeProofs ---------------------------
(***************************************************************************)
(* Proofs about Runtime, for any threads, sinks, call sites and bounds: no *)
(* thread is inside two fan-outs, a sink registered all along sees every   *)
(* field that its capability and detail admit and is called exactly once,  *)
(* an InMemorySink counts each event once, the newest completed spans are  *)
(* kept, and every value stays in its range.                               *)
(*                                                                         *)
(* IInv follows an event from the mask to the view: a thread that will     *)
(* call a steady sink has evaluated what that sink asks for.  It needs     *)
(* NoRecursion, for a nested call would mix two events, and the two are    *)
(* proved together.  MInv relates the counters of a sink to the emits that *)
(* have reached it and not yet decided; it uses IInv to know that such a   *)
(* thread is at that sink and no other.                                    *)
(*                                                                         *)
(* SpanInv needs nothing of the calls: a span has one number and is in one *)
(* place, and the retained spans are the end of those that were pushed.    *)
(* OnceInv has a sink registered once and, inside an emit, every steady    *)
(* sink among those called or those left, which are apart.  It rests on    *)
(* what Views computes, shown by induction on the registrations.           *)
(***************************************************************************)
EXTENDS Runtime, FunctionTheorems, FiniteSetTheorems, SequenceTheorems, WellFoundedInduction,
        TLAPS

InsideSteps == {"view", "called", "store", "release"}

\* A frame; what is left of the snapshot needs no type.
IsFrame(f) ==
    \E left, site, given, shown :
        /\ shown \in SUBSET Groups
        /\ f = [left |-> left, site |-> site, given |-> given, shown |-> shown]

\* What was evaluated of an event is enough for a sink.
Feeds(site, given, s) == FieldsOf[site] \cap SinkInterest(s) \subseteq given
FedBy(event, among) ==
    /\ event.site \in Sites /\ event.given \subseteq FieldsOf[event.site]
    /\ \A s \in among : Feeds(event.site, event.given, s)

\* A thread is in no fan-out, or in one with its flag set.
Placed(t) ==
    /\ inDispatch[t] <=> fan[t] # <<>>
    /\ pc[t] \in InsideSteps <=> fan[t] # <<>>
    /\ fan[t] # <<>> => \E f : IsFrame(f) /\ fan[t] = <<f>>

\* The sinks that see all of the call are fed.
Fed(t) ==
    /\ steady[t] \subseteq Sinks
    /\ \A e \in call[t] : FedBy(e, steady[t])
    /\ fan[t] # <<>> => FedBy(fan[t][1], steady[t])

\* The sink being called is shown its projection of what was evaluated.
Shown(t) ==
    pc[t] = "called" =>
        fan[t][1].shown = Project(Head(fan[t][1].left), fan[t][1].given)

ThreadInv(t) == Placed(t) /\ Fed(t) /\ Shown(t)

Functions ==
    /\ pc \in [Threads -> Steps] /\ inDispatch \in [Threads -> BOOLEAN]
    /\ DOMAIN fan = Threads /\ fan = [t \in Threads |-> fan[t]]
    /\ call = [t \in Threads |-> call[t]] /\ steady = [t \in Threads |-> steady[t]]
    /\ sinks \in Seq(Sinks)

IInv == Functions /\ \A t \in Threads : ThreadInv(t)

-----------------------------------------------------------------------------

\* A thread's frames are replaced.
LEMMA FanWrite ==
    ASSUME IInv, NEW t \in Threads, NEW frames, fan' = [fan EXCEPT ![t] = frames]
    PROVE  /\ DOMAIN fan' = Threads /\ fan' = [u \in Threads |-> fan'[u]]
           /\ fan'[t] = frames /\ \A u \in Threads \ {t} : fan'[u] = fan[u]
<1>1. DOMAIN fan = Threads
  BY DEF IInv, Functions
<1> QED  BY <1>1

\* A thread goes to another step.
LEMMA PcWrite ==
    ASSUME IInv, NEW t \in Threads, NEW step \in Steps, pc' = [pc EXCEPT ![t] = step]
    PROVE  /\ pc' \in [Threads -> Steps] /\ pc'[t] = step
           /\ \A u \in Threads \ {t} : pc'[u] = pc[u]
<1>1. pc \in [Threads -> Steps]
  BY DEF IInv, Functions
<1> QED  BY <1>1

\* What a sink is shown is among what it asks for.
LEMMA ProjectionIsAsked ==
    ASSUME NEW s \in Sinks, NEW g \in Groups,
           PrivacyAllowed(Capability[s], g[1]), Detail[s] = "Full" \/ g[2] = "Core"
    PROVE  g \in SinkInterest(s)
<1>1. g[1] \in Privacies /\ g[2] \in {"Core", "Detail"} /\ g = <<g[1], g[2]>>
  BY DEF Groups
<1>2. Capability[s] \in Capabilities /\ Detail[s] \in {"Core", "Full"}
  BY SinkAssumption
<1>3. g[1] \in AskedFor[Capability[s]]
  BY <1>1, <1>2 DEF AskedFor, PrivacyAllowed, Privacies, Capabilities
<1> QED
  BY <1>1, <1>2, <1>3 DEF SinkInterest

\* A fed sink's projection of what was evaluated is that of all the fields.
LEMMA FedSeesAll ==
    ASSUME NEW s \in Sinks, NEW site \in Sites, NEW given, Feeds(site, given, s),
           given \subseteq FieldsOf[site]
    PROVE  Project(s, given) = Project(s, FieldsOf[site])
<1>1. FieldsOf[site] \subseteq Groups
  BY SiteAssumption
<1> QED
  BY <1>1, ProjectionIsAsked DEF Project, Feeds

-----------------------------------------------------------------------------
(* A thread that does not move *)

\* Another thread's step, or the loss of a steady sink, disturbs none of it.
LEMMA Undisturbed ==
    ASSUME NEW u \in Threads, ThreadInv(u),
           fan'[u] = fan[u], pc'[u] = pc[u], inDispatch'[u] = inDispatch[u],
           call'[u] = call[u], steady'[u] \subseteq steady[u]
    PROVE  ThreadInv(u)'
<1>1. Placed(u)'
  BY DEF ThreadInv, Placed
<1>2. Fed(u)'
  BY DEF ThreadInv, Fed, FedBy
<1>3. Shown(u)'
  BY DEF ThreadInv, Shown
<1> QED
  BY <1>1, <1>2, <1>3 DEF ThreadInv

\* Moving between steps outside of emit.
LEMMA MovesOutside ==
    ASSUME NEW u \in Threads, ThreadInv(u), pc[u] \notin InsideSteps, pc'[u] \notin InsideSteps,
           fan'[u] = fan[u], inDispatch'[u] = inDispatch[u],
           call'[u] = call[u], steady'[u] \subseteq steady[u]
    PROVE  ThreadInv(u)'
<1>1. Placed(u)'
  BY DEF ThreadInv, Placed
<1>2. Fed(u)'
  BY DEF ThreadInv, Fed, FedBy
<1>3. Shown(u)'
  BY DEF ThreadInv, Shown, InsideSteps
<1> QED
  BY <1>1, <1>2, <1>3 DEF ThreadInv

\* Moving on from a called sink, whatever is left of the snapshot.
LEMMA MovesInside ==
    ASSUME NEW u \in Threads, ThreadInv(u), fan[u] # <<>>,
           pc'[u] \in InsideSteps \ {"called"},
           NEW f, IsFrame(f), fan'[u] = <<f>>,
           f.site = fan[u][1].site, f.given = fan[u][1].given,
           inDispatch'[u] = inDispatch[u],
           call'[u] = call[u], steady'[u] \subseteq steady[u]
    PROVE  ThreadInv(u)'
<1>1. fan'[u] # <<>> /\ fan'[u][1] = f
  OBVIOUS
<1>2. Placed(u)'
  <2>1. inDispatch'[u] <=> fan'[u] # <<>>
    BY <1>1 DEF ThreadInv, Placed
  <2> QED
    BY <1>1, <2>1 DEF Placed
<1>3. Fed(u)'
  BY <1>1 DEF ThreadInv, Fed, FedBy, Feeds, SinkInterest
<1>4. Shown(u)'
  BY DEF Shown
<1> QED
  BY <1>2, <1>3, <1>4 DEF ThreadInv

-----------------------------------------------------------------------------
(* The log call *)

\* Every sink that is announced and accepts the call contributes to its mask.
LEMMA MaskFeeds ==
    ASSUME NEW site \in Sites, NEW unsettled, NEW s \in Announced, Accepts(s, site), NEW mask,
           mask = UNION {SinkInterest(r) : r \in Wanting(site, Announced \cup unsettled)}
    PROVE  Feeds(site, Evaluated(site, mask), s)
<1>1. s \in Wanting(site, Announced \cup unsettled)
  BY DEF Accepts, Wanting
<1>2. SinkInterest(s) \subseteq mask
  BY <1>1
<1> QED
  BY <1>2 DEF Feeds, Evaluated

\* A log call is fed for every announced sink that accepts it.
LEMMA LogStartInv ==
    ASSUME IInv, NEW t \in Threads, NEW site \in Sites, LogStart(t, site)
    PROVE  IInv'
<1>1. fan' = fan /\ inDispatch' = inDispatch /\ sinks' = sinks /\ pc[t] = "idle"
  BY DEF LogStart, configVars
<1>2. ThreadInv(t)
  BY DEF IInv
<1>3. PICK unsettled : \E mask :
        /\ mask = UNION {SinkInterest(s) : s \in Wanting(site, Announced \cup unsettled)}
        /\ \/ /\ call' = [call EXCEPT ![t] = {[site |-> site, given |-> Evaluated(site, mask)]}]
              /\ steady' = [steady EXCEPT ![t] = {s \in Announced : Accepts(s, site)}]
              /\ Goto(t, "evaluated")
           \/ UNCHANGED <<call, steady, pc>>
  BY DEF LogStart
<1>4. PICK mask :
        /\ mask = UNION {SinkInterest(s) : s \in Wanting(site, Announced \cup unsettled)}
        /\ \/ /\ call' = [call EXCEPT ![t] = {[site |-> site, given |-> Evaluated(site, mask)]}]
              /\ steady' = [steady EXCEPT ![t] = {s \in Announced : Accepts(s, site)}]
              /\ Goto(t, "evaluated")
           \/ UNCHANGED <<call, steady, pc>>
  BY <1>3
<1>5. CASE UNCHANGED <<call, steady, pc>>
  BY <1>1, <1>5, Undisturbed DEF IInv, Functions
<1>6. CASE /\ call' = [call EXCEPT ![t] = {[site |-> site, given |-> Evaluated(site, mask)]}]
           /\ steady' = [steady EXCEPT ![t] = {s \in Announced : Accepts(s, site)}]
           /\ Goto(t, "evaluated")
  <2> DEFINE event == [site |-> site, given |-> Evaluated(site, mask)]
  <2>1. Functions'
    BY ZenonT(60), <1>1, <1>6 DEF IInv, Functions, Goto, Steps
  <2>2. /\ call'[t] = {event} /\ steady'[t] = {s \in Announced : Accepts(s, site)}
        /\ pc'[t] = "evaluated"
    BY <1>6 DEF IInv, Functions, Goto
  <2>3. fan[t] = <<>> /\ fan'[t] = <<>>
    BY <1>1, <1>2 DEF ThreadInv, Placed, InsideSteps
  <2>4. Placed(t)'
    BY <1>1, <1>2, <2>2, <2>3 DEF ThreadInv, Placed, InsideSteps
  <2>5. Shown(t)'
    BY <2>2 DEF Shown
  <2>6. FedBy(event, steady'[t])
    BY <1>4, <2>2, MaskFeeds DEF FedBy, Evaluated
  <2>7. steady'[t] \subseteq Sinks
    BY <2>2 DEF IInv, Functions, Announced, Elements
  <2>8. Fed(t)'
    BY <2>2, <2>3, <2>6, <2>7 DEF Fed, FedBy, Feeds, SinkInterest
  <2>9. ASSUME NEW u \in Threads \ {t} PROVE ThreadInv(u)'
    <3>1. /\ pc'[u] = pc[u] /\ call'[u] = call[u] /\ steady'[u] \subseteq steady[u]
          /\ ThreadInv(u)
      BY <1>6 DEF IInv, Functions, Goto
    <3> QED
      BY <1>1, <3>1, Undisturbed
  <2> QED
    BY <2>1, <2>4, <2>5, <2>8, <2>9 DEF IInv, ThreadInv
<1> QED
  BY <1>4, <1>5, <1>6

-----------------------------------------------------------------------------
(* emit *)

\* A step of one thread, once the thread itself is seen to.
LEMMA OneThreadMoves ==
    ASSUME IInv, NEW t \in Threads, Functions', ThreadInv(t)',
           \A u \in Threads \ {t} :
              /\ fan'[u] = fan[u] /\ pc'[u] = pc[u] /\ inDispatch'[u] = inDispatch[u]
              /\ call'[u] = call[u] /\ steady'[u] \subseteq steady[u]
    PROVE  IInv'
<1>1. ASSUME NEW u \in Threads \ {t} PROVE ThreadInv(u)'
  BY Undisturbed DEF IInv
<1> QED
  BY <1>1 DEF IInv

\* A thread in emit has one frame, and a frame keeps its fields.
LEMMA TheFrame ==
    ASSUME IInv, NEW t \in Threads, pc[t] \in InsideSteps
    PROVE  /\ fan[t] # <<>> /\ Len(fan[t]) = 1 /\ Top(t) = fan[t][1]
           /\ \E left, site, given, shown :
                /\ shown \in SUBSET Groups
                /\ fan[t] = <<[left |-> left, site |-> site, given |-> given,
                               shown |-> shown]>>
<1>1. fan[t] # <<>>
  BY DEF IInv, ThreadInv, Placed
<1>2. PICK f : IsFrame(f) /\ fan[t] = <<f>>
  BY <1>1 DEF IInv, ThreadInv, Placed
<1>3. Len(fan[t]) = 1
  BY <1>2
<1> QED
  BY <1>1, <1>2, <1>3 DEF IsFrame, Top

\* emit enters with the flag clear and takes over what was evaluated.
LEMMA EmitStartInv ==
    ASSUME IInv, NEW t \in Threads, EmitStart(t)
    PROVE  IInv'
<1>1. PICK event \in call[t] : Dispatch(t, event)
  BY DEF EmitStart
<1>2. ThreadInv(t) /\ pc[t] = "evaluated"
  BY DEF IInv, EmitStart
<1>3. fan[t] = <<>> /\ ~inDispatch[t]
  BY <1>2 DEF ThreadInv, Placed, InsideSteps
<1> DEFINE frame == [left |-> Views(event.site),
                     site |-> event.site, given |-> event.given, shown |-> {}]
<1>4. /\ inDispatch' = [inDispatch EXCEPT ![t] = TRUE]
      /\ fan' = [fan EXCEPT ![t] = Append(@, frame)] /\ pc' = [pc EXCEPT ![t] = "view"]
  BY <1>1, <1>3 DEF Dispatch, Refused, Goto
<1>5. IsFrame(frame) /\ frame.site = event.site /\ frame.given = event.given
  BY DEF IsFrame
<1> HIDE DEF frame
<1>6. fan' = [fan EXCEPT ![t] = <<frame>>]
  BY <1>3, <1>4 DEF IInv, Functions
<1>7. /\ call' = [call EXCEPT ![t] = {}] /\ steady' = steady /\ sinks' = sinks
  BY DEF EmitStart, configVars
<1>9. /\ DOMAIN fan' = Threads /\ fan' = [u \in Threads |-> fan'[u]] /\ fan'[t] = <<frame>>
  BY <1>6, FanWrite
<1>8. Functions'
  <2>1. pc' \in [Threads -> Steps]
    BY <1>4, PcWrite DEF Steps
  <2>2. inDispatch' \in [Threads -> BOOLEAN]
    BY <1>4 DEF IInv, Functions
  <2>3. /\ call' = [u \in Threads |-> call'[u]]
        /\ steady' = [u \in Threads |-> steady'[u]] /\ sinks' \in Seq(Sinks)
    BY <1>7 DEF IInv, Functions
  <2> QED  BY <1>9, <2>1, <2>2, <2>3 DEF Functions
<1>10. /\ fan'[t] = <<frame>> /\ fan'[t][1] = frame /\ fan'[t] # <<>> /\ pc'[t] = "view"
      /\ call'[t] = {} /\ steady'[t] = steady[t]
  <2>1. pc'[t] = "view"
    BY <1>4, PcWrite DEF Steps
  <2>2. call'[t] = {} /\ steady'[t] = steady[t]
    BY <1>7 DEF IInv, Functions
  <2> QED  BY <1>9, <2>1, <2>2
<1>11. inDispatch'[t]
  BY <1>4 DEF IInv, Functions
<1>12. Placed(t)'
  BY <1>5, <1>10, <1>11 DEF Placed, InsideSteps
<1>13. FedBy(event, steady[t])
  BY <1>2 DEF ThreadInv, Fed
<1>14. Fed(t)'
  BY <1>2, <1>5, <1>10, <1>13 DEF ThreadInv, Fed, FedBy, Feeds, SinkInterest
<1>15. Shown(t)'
  BY <1>10 DEF Shown
<1> QED
  BY <1>4, <1>6, <1>7, <1>8, <1>12, <1>14, <1>15, OneThreadMoves DEF IInv, Functions, ThreadInv

\* The sink at hand is shown its projection.
LEMMA CallSinkInv ==
    ASSUME IInv, NEW t \in Threads, CallSink(t)
    PROVE  IInv'
<1>1. pc[t] = "view" /\ ThreadInv(t)
  BY DEF IInv, CallSink
<1>2. PICK left, site, given, shown :
        /\ shown \in SUBSET Groups
        /\ fan[t] = <<[left |-> left, site |-> site, given |-> given, shown |-> shown]>>
  BY <1>1, TheFrame DEF InsideSteps
<1> DEFINE view == Project(Head(left), given)
<1> DEFINE frame == [left |-> left, site |-> site, given |-> given, shown |-> view]
<1>3. Top(t).left = left /\ Top(t).given = given /\ Len(fan[t]) = 1 /\ Current(t) = Head(left)
  BY <1>2 DEF Top, Current
<1>4. fan' = [fan EXCEPT ![t][1].shown = view]
  BY <1>3 DEF CallSink
<1>5. view \in SUBSET Groups
  <2>1. given \subseteq FieldsOf[site] /\ site \in Sites
    BY <1>1, <1>2 DEF ThreadInv, Fed, FedBy
  <2> QED
    BY <2>1, SiteAssumption DEF Project
<1>6. IsFrame(frame) /\ frame.site = site /\ frame.given = given /\ frame.left = left
      /\ frame.shown = view
  BY <1>5 DEF IsFrame
<1> HIDE DEF view
<1>7. [fan[t] EXCEPT ![1].shown = view] = <<frame>>
  BY <1>2
<1>8. fan' = [fan EXCEPT ![t] = <<frame>>]
  BY <1>4, <1>7 DEF IInv, Functions
<1> HIDE DEF frame
<1>9. /\ pc' = [pc EXCEPT ![t] = "called"] /\ inDispatch' = inDispatch
      /\ call' = call /\ steady' = steady /\ sinks' = sinks
  BY DEF CallSink, Goto, configVars
<1>10. Functions'
  BY ZenonT(60), <1>8, <1>9 DEF IInv, Functions, Steps
<1>11. /\ fan'[t] = <<frame>> /\ fan'[t][1] = frame /\ pc'[t] = "called"
      /\ fan[t] # <<>> /\ fan[t][1].site = site /\ fan[t][1].given = given
  BY <1>2, <1>8, <1>9 DEF IInv, Functions
<1>12. Placed(t)'
  BY <1>1, <1>6, <1>9, <1>11 DEF ThreadInv, Placed, InsideSteps
<1>13. Fed(t)'
  BY <1>1, <1>6, <1>9, <1>11 DEF ThreadInv, Fed, FedBy, Feeds, SinkInterest
<1>14. Shown(t)'
  BY <1>6, <1>11 DEF Shown, view, Project
<1> QED
  BY <1>8, <1>9, <1>10, <1>12, <1>13, <1>14, OneThreadMoves DEF IInv, Functions, ThreadInv

\* The other steps of emit move a frame on, with its site and fields.
LEMMA FrameMovesOn ==
    ASSUME IInv, NEW t \in Threads, pc[t] \in InsideSteps,
           NEW step \in InsideSteps \ {"called"}, Goto(t, step),
           NEW left, NEW shown \in SUBSET Groups,
           fan' = [fan EXCEPT ![t] = <<[left |-> left, site |-> fan[t][1].site,
                                        given |-> fan[t][1].given, shown |-> shown]>>],
           UNCHANGED <<inDispatch, call, steady, sinks>>
    PROVE  IInv'
<1> DEFINE frame == [left |-> left, site |-> fan[t][1].site,
                     given |-> fan[t][1].given, shown |-> shown]
<1>1. IsFrame(frame) /\ frame.site = fan[t][1].site /\ frame.given = fan[t][1].given
  BY DEF IsFrame
<1>2. fan[t] # <<>>
  BY TheFrame
<1> HIDE DEF frame
<1>3. fan' = [fan EXCEPT ![t] = <<frame>>]
  BY DEF frame
<1>0. step \in Steps
  BY DEF InsideSteps, Steps
<1>4. fan'[t] = <<frame>> /\ pc'[t] = step /\ step \in Steps
  BY ZenonT(60), <1>0, <1>3, FanWrite, PcWrite DEF Goto
<1>5. Functions'
  <2>1. pc' \in [Threads -> Steps]
    BY <1>0, PcWrite DEF Goto
  <2>2. DOMAIN fan' = Threads /\ fan' = [u \in Threads |-> fan'[u]]
    BY <1>3, FanWrite
  <2> QED  BY <2>1, <2>2 DEF IInv, Functions
<1>6. ThreadInv(t)'
  BY <1>1, <1>2, <1>4, MovesInside DEF IInv
<1> QED
  BY <1>3, <1>5, <1>6, OneThreadMoves DEF IInv, Functions, Goto

\* ... or leave the frame as it is.
LEMMA FrameStays ==
    ASSUME IInv, NEW t \in Threads, pc[t] \in InsideSteps,
           NEW step \in InsideSteps \ {"called"}, Goto(t, step),
           UNCHANGED <<fan, inDispatch, call, steady, sinks>>
    PROVE  IInv'
<1>1. PICK left, site, given, shown :
        /\ shown \in SUBSET Groups
        /\ fan[t] = <<[left |-> left, site |-> site, given |-> given, shown |-> shown]>>
  BY TheFrame
<1>2. fan[t] = <<[left |-> left, site |-> fan[t][1].site,
                  given |-> fan[t][1].given, shown |-> shown]>>
  BY <1>1
<1>3. fan' = [fan EXCEPT ![t] = fan[t]]
  BY DEF IInv, Functions
<1> QED
  BY <1>1, <1>2, <1>3, FrameMovesOn

\* A caught panic moves on to the release.
LEMMA SinkPanicInv ==
    ASSUME IInv, NEW t \in Threads, SinkPanic(t)
    PROVE  IInv'
<1>1. pc[t] = "called" /\ pc[t] \in InsideSteps
  BY DEF SinkPanic, InsideSteps
<1>2. PICK left, site, given, shown :
        /\ shown \in SUBSET Groups
        /\ fan[t] = <<[left |-> left, site |-> site, given |-> given, shown |-> shown]>>
  BY <1>1, TheFrame
<1>3. Len(fan[t]) = 1 /\ Top(t).left = left
  BY <1>2 DEF Top
<1>4. fan' = [fan EXCEPT ![t][1].left = left]
  BY <1>3 DEF SinkPanic, LeftAfterPanic
<1>5. [fan[t] EXCEPT ![1].left = left] =
        <<[left |-> left, site |-> fan[t][1].site, given |-> fan[t][1].given, shown |-> shown]>>
  BY <1>2
<1>6. fan' = [fan EXCEPT ![t] = <<[left |-> left, site |-> fan[t][1].site,
                                   given |-> fan[t][1].given, shown |-> shown]>>]
  BY <1>4, <1>5 DEF IInv, Functions
<1>7. Goto(t, "release") /\ UNCHANGED <<inDispatch, call, steady, sinks>>
  BY DEF SinkPanic, configVars
<1> QED
  BY <1>1, <1>2, <1>6, <1>7, FrameMovesOn DEF InsideSteps

\* The release of a clone shortens what is left.
LEMMA ReleaseInv ==
    ASSUME IInv, NEW t \in Threads, Release(t)
    PROVE  IInv'
<1>1. pc[t] = "release" /\ pc[t] \in InsideSteps
  BY DEF Release, InsideSteps
<1>2. PICK left, site, given, shown :
        /\ shown \in SUBSET Groups
        /\ fan[t] = <<[left |-> left, site |-> site, given |-> given, shown |-> shown]>>
  BY <1>1, TheFrame
<1>3. Len(fan[t]) = 1 /\ Top(t).left = left
  BY <1>2 DEF Top
<1> DEFINE rest == Tail(left)
<1>4. fan' = [fan EXCEPT ![t][1].left = rest, ![t][1].shown = {}]
  BY <1>3 DEF Release
<1> HIDE DEF rest
<1>5. fan[t][1].site = site /\ fan[t][1].given = given
  BY <1>2
<1>6. [fan[t] EXCEPT ![1].left = rest, ![1].shown = {}] =
        <<[left |-> rest, site |-> fan[t][1].site, given |-> fan[t][1].given, shown |-> {}]>>
  <2>1. [fan[t] EXCEPT ![1].left = rest] =
          <<[left |-> rest, site |-> site, given |-> given, shown |-> shown]>>
    BY <1>2
  <2>2. [[fan[t] EXCEPT ![1].left = rest] EXCEPT ![1].shown = {}] =
          <<[left |-> rest, site |-> site, given |-> given, shown |-> {}]>>
    BY <2>1
  <2> QED
    BY <1>5, <2>2
<1>7. fan' = [fan EXCEPT ![t] = <<[left |-> rest, site |-> fan[t][1].site,
                                   given |-> fan[t][1].given, shown |-> {}]>>]
  BY <1>4, <1>6 DEF IInv, Functions
<1>8. Goto(t, "view") /\ UNCHANGED <<inDispatch, call, steady, sinks>>
  BY DEF Release, configVars
<1> QED
  <2>1. {} \in SUBSET Groups /\ "view" \in InsideSteps \ {"called"}
    BY DEF InsideSteps
  <2> QED
    BY <1>1, <1>7, <1>8, <2>1, FrameMovesOn

\* A returning callback changes no frame.
LEMMA SinkReturnInv ==
    ASSUME IInv, NEW t \in Threads, SinkReturn(t)
    PROVE  IInv'
<1>1. /\ pc[t] = "called" /\ Goto(t, "release")
      /\ UNCHANGED <<fan, inDispatch, call, steady, sinks>>
  BY DEF SinkReturn, configVars, emitVars
<1> QED
  BY <1>1, FrameStays DEF InsideSteps

\* Neither does an InMemorySink.
LEMMA MemoryStepInv ==
    ASSUME IInv, NEW t \in Threads, MemoryTryLock(t) \/ MemoryStore(t)
    PROVE  IInv'
<1>1. /\ pc[t] \in {"called", "store"}
      /\ Goto(t, "release") \/ Goto(t, "store")
      /\ UNCHANGED <<fan, inDispatch, call, steady, sinks>>
  BY DEF MemoryTryLock, MemoryStore, configVars, emitVars
<1> QED
  BY <1>1, FrameStays DEF InsideSteps

\* A sink that logs is refused: its thread's flag is set.
LEMMA SinkLogInv ==
    ASSUME IInv, NEW t \in Threads, NEW site \in Sites, SinkLog(t, site)
    PROVE  IInv'
<1>1. pc[t] = "called" /\ UNCHANGED <<call, steady, sinks>>
  BY DEF SinkLog, configVars
<1>2. fan[t] # <<>> /\ Len(fan[t]) = 1
  BY <1>1, TheFrame DEF InsideSteps
<1>3. inDispatch[t]
  BY <1>2 DEF IInv, ThreadInv, Placed
<1>4. UNCHANGED <<inDispatch, fan>> /\ Goto(t, "called")
  BY <1>2, <1>3 DEF SinkLog, Dispatch, Refused, Outside
<1>5. pc' = pc
  BY <1>1, <1>4 DEF Goto, IInv, Functions
<1> QED
  BY <1>1, <1>4, <1>5, Undisturbed DEF IInv, Functions

\* The end of a fan-out clears the flag with the frame.
LEMMA EmitEndInv ==
    ASSUME IInv, NEW t \in Threads, EmitEnd(t)
    PROVE  IInv'
<1>1. pc[t] = "view" /\ UNCHANGED <<call, sinks>>
  BY DEF EmitEnd, configVars
<1>2. Len(fan[t]) = 1 /\ ThreadInv(t)
  BY <1>1, TheFrame DEF InsideSteps, IInv
<1>3. /\ fan' = [fan EXCEPT ![t] = SubSeq(@, 1, 0)] /\ Goto(t, "idle")
      /\ inDispatch' = [inDispatch EXCEPT ![t] = FALSE]
      /\ steady' = [steady EXCEPT ![t] = {}]
  BY <1>2 DEF EmitEnd, ResetDispatch, Outside
<1>4. PICK f : fan[t] = <<f>>
  BY <1>1, TheFrame DEF InsideSteps
<1>5. SubSeq(fan[t], 1, 0) = <<>>
  BY <1>4
<1>6. fan'[t] = <<>> /\ pc'[t] = "idle" /\ steady'[t] = {} /\ call'[t] = call[t]
  BY <1>1, <1>3, <1>5 DEF IInv, Functions, Goto
<1>7. ~inDispatch'[t]
  BY <1>3 DEF IInv, Functions
<1>8. Placed(t)'
  BY <1>6, <1>7 DEF Placed, InsideSteps
<1>9. Fed(t)'
  BY <1>2, <1>6 DEF ThreadInv, Fed, FedBy
<1>10. Shown(t)'
  BY <1>6 DEF Shown
<1>11. Functions'
  BY ZenonT(60), <1>1, <1>3 DEF IInv, Functions, Goto, Steps
<1> QED
  BY <1>1, <1>3, <1>8, <1>9, <1>10, <1>11, OneThreadMoves DEF IInv, Functions, Goto, ThreadInv

-----------------------------------------------------------------------------
(* Configuration and spans *)

\* A thread outside of emit stays there, and sinks are only taken from steady.
LEMMA StaysOutside ==
    ASSUME IInv, NEW t \in Threads, pc[t] \notin InsideSteps,
           NEW step \in Steps \ InsideSteps, pc' = [pc EXCEPT ![t] = step],
           UNCHANGED <<fan, inDispatch, call>>,
           steady' = [u \in Threads |-> steady'[u]],
           \A u \in Threads : steady'[u] \subseteq steady[u], sinks' \in Seq(Sinks)
    PROVE  IInv'
<1>1. pc'[t] = step /\ pc' \in [Threads -> Steps]
  BY PcWrite
<1>2. ThreadInv(t)'
  BY <1>1, MovesOutside DEF IInv
<1>3. Functions'
  BY <1>1 DEF IInv, Functions
<1> QED
  BY <1>2, <1>3, OneThreadMoves DEF IInv, Functions

\* Configuration and drains happen outside of emit.
LEMMA ConfigStepInv ==
    ASSUME IInv, NEW t \in Threads, ConfigStep(t)
    PROVE  IInv'
<1>1. ASSUME NEW s \in Sinks, AddSink(t, s) PROVE IInv'
  <2>1. /\ pc[t] = "idle" /\ pc' = [pc EXCEPT ![t] = "announceAdd"]
        /\ UNCHANGED <<fan, inDispatch, call, steady>>
    BY <1>1 DEF AddSink, Goto, emitVars
  <2>2. sinks' \in Seq(Sinks)
    BY <1>1 DEF AddSink, IInv, Functions
  <2> QED
    BY ZenonT(60), <2>1, <2>2, StaysOutside DEF IInv, Functions, InsideSteps, Steps
<1>2. ASSUME NEW s \in Sinks, RemoveSink(t, s) PROVE IInv'
  <2>1. /\ pc[t] = "idle" /\ pc' = [pc EXCEPT ![t] = "announceRemove"]
        /\ UNCHANGED <<fan, inDispatch, call>>
        /\ steady' = [u \in Threads |-> steady[u] \ {s}]
    BY <1>2 DEF RemoveSink, Goto
  <2>2. PICK position \in 1..Len(sinks) :
          sinks' = SubSeq(sinks, 1, position - 1) \o SubSeq(sinks, position + 1, Len(sinks))
    BY <1>2 DEF RemoveSink
  <2>3. sinks' \in Seq(Sinks)
    <3>1. SubSeq(sinks, 1, position - 1) \in Seq(Sinks)
      BY DEF IInv, Functions
    <3>2. SubSeq(sinks, position + 1, Len(sinks)) \in Seq(Sinks)
      BY DEF IInv, Functions
    <3> QED
      BY <2>2, <3>1, <3>2
  <2> QED
    BY ZenonT(60), <2>1, <2>3, StaysOutside DEF IInv, Functions, InsideSteps, Steps
<1>3. ASSUME NEW s \in Sinks, DrainLock(t, s) PROVE IInv'
  <2>1. /\ pc[t] = "idle" /\ pc' = [pc EXCEPT ![t] = "drain"]
        /\ UNCHANGED <<fan, inDispatch, call, steady, sinks>>
    BY <1>3 DEF DrainLock, Goto, emitVars
  <2> QED
    BY ZenonT(60), <2>1, StaysOutside DEF IInv, Functions, InsideSteps, Steps
<1>4. ASSUME AnnounceAdd(t) \/ DropRegistration(t) \/ DrainTake(t) PROVE IInv'
  <2>1. /\ pc[t] \in {"announceAdd", "dropping", "drain"} /\ pc' = [pc EXCEPT ![t] = "idle"]
        /\ UNCHANGED <<fan, inDispatch, call, steady, sinks>>
    BY <1>4 DEF AnnounceAdd, DropRegistration, DrainTake, Goto, emitVars
  <2> QED
    BY ZenonT(60), <2>1, StaysOutside DEF IInv, Functions, InsideSteps, Steps
<1>5. ASSUME AnnounceRemove(t) PROVE IInv'
  <2>1. /\ pc[t] = "announceRemove" /\ pc' = [pc EXCEPT ![t] = "dropping"]
        /\ UNCHANGED <<fan, inDispatch, call, steady, sinks>>
    BY <1>5 DEF AnnounceRemove, Goto, emitVars
  <2> QED
    BY ZenonT(60), <2>1, StaysOutside DEF IInv, Functions, InsideSteps, Steps
<1> QED
  BY <1>1, <1>2, <1>3, <1>4, <1>5 DEF ConfigStep

\* So do the spans.
LEMMA SpanStepInv ==
    ASSUME IInv, NEW t \in Threads, SpanStep(t)
    PROVE  IInv'
<1>1. UNCHANGED <<fan, inDispatch, call, steady, sinks>>
  BY DEF SpanStep, StartSpan, EndSpan, PushSpan, TakeCompletedSpans, configVars, emitVars
<1>2. \/ pc' = pc
      \/ /\ pc[t] \in {"idle", "spanPush"}
         /\ pc' = [pc EXCEPT ![t] = "spanPush"] \/ pc' = [pc EXCEPT ![t] = "idle"]
  BY DEF SpanStep, StartSpan, EndSpan, PushSpan, TakeCompletedSpans, Goto
<1>3. CASE pc' = pc
  BY <1>1, <1>3, Undisturbed DEF IInv, Functions
<1>4. CASE /\ pc[t] \in {"idle", "spanPush"}
           /\ pc' = [pc EXCEPT ![t] = "spanPush"] \/ pc' = [pc EXCEPT ![t] = "idle"]
  BY <1>1, <1>4, StaysOutside DEF IInv, Functions, InsideSteps, Steps
<1> QED
  BY <1>2, <1>3, <1>4

-----------------------------------------------------------------------------
(* The theorems *)

\* It holds initially.
LEMMA InitInv == Init => IInv
<1> SUFFICES ASSUME Init PROVE IInv
  OBVIOUS
<1>1. Functions
  BY DEF Init, Functions, Steps
<1>2. ASSUME NEW t \in Threads PROVE ThreadInv(t)
  <2>1. fan[t] = <<>> /\ pc[t] = "idle" /\ call[t] = {} /\ steady[t] = {}
    BY DEF Init
  <2>2. ~inDispatch[t]
    BY DEF Init
  <2> QED
    BY <2>1, <2>2 DEF ThreadInv, Placed, Fed, Shown, InsideSteps
<1> QED
  BY <1>1, <1>2 DEF IInv

\* Every step preserves it.
LEMMA NextInv == IInv /\ [Next]_vars => IInv'
<1> SUFFICES ASSUME IInv, [Next]_vars PROVE IInv'
  OBVIOUS
<1>1. ASSUME NEW t \in Threads, NEW site \in Sites, LogStart(t, site) PROVE IInv'
  BY <1>1, LogStartInv
<1>2. ASSUME NEW t \in Threads, EmitStep(t) PROVE IInv'
  BY <1>2, EmitStartInv, CallSinkInv, MemoryStepInv, SinkReturnInv, SinkPanicInv,
     ReleaseInv, EmitEndInv, SinkLogInv DEF EmitStep
<1>3. ASSUME NEW t \in Threads, ConfigStep(t) PROVE IInv'
  BY <1>3, ConfigStepInv
<1>4. ASSUME NEW t \in Threads, SpanStep(t) PROVE IInv'
  BY <1>4, SpanStepInv
<1>5. CASE UNCHANGED vars
  BY <1>5, Undisturbed DEF vars, configVars, emitVars, IInv, Functions
<1> QED
  BY <1>1, <1>2, <1>3, <1>4, <1>5 DEF Next

\* A thread is inside at most one Dispatch::emit, and IN_DISPATCH says whether:
\* what a sink logs is refused, and neither a panic nor the end of a fan-out
\* leaves the flag wrong.
THEOREM DispatchIsNotReentered == Spec => []NoRecursion
<1>1. IInv => NoRecursion
  <2> SUFFICES ASSUME IInv, NEW t \in Threads
               PROVE  Len(fan[t]) <= 1 /\ (inDispatch[t] <=> fan[t] # <<>>)
    BY DEF NoRecursion
  <2>1. inDispatch[t] <=> fan[t] # <<>>
    BY DEF IInv, ThreadInv, Placed
  <2>2. Len(fan[t]) <= 1
    <3>1. CASE fan[t] = <<>>
      BY <3>1
    <3>2. CASE fan[t] # <<>>
      <4>1. pc[t] \in InsideSteps
        BY <3>2 DEF IInv, ThreadInv, Placed
      <4>2. Len(fan[t]) = 1
        BY <4>1, TheFrame
      <4> QED
        BY <4>2
    <3> QED
      BY <3>1, <3>2
  <2> QED
    BY <2>1, <2>2
<1> QED
  BY <1>1, InitInv, NextInv, PTL DEF Spec

\* What the macro evaluated for the union of the sinks is enough for each: a
\* sink registered since before the call is shown every field of the call site
\* that project_event admits for it.
THEOREM EveryFieldArrives == Spec => []CompleteView
<1>1. IInv => CompleteView
  <2> SUFFICES ASSUME IInv, NEW t \in Threads, pc[t] = "called", Current(t) \in steady[t]
               PROVE  Top(t).shown = Project(Current(t), FieldsOf[Top(t).site])
    BY DEF CompleteView
  <2>1. Top(t) = fan[t][1] /\ fan[t] # <<>> /\ ThreadInv(t)
    BY TheFrame DEF InsideSteps, IInv
  <2>2. Top(t).shown = Project(Current(t), Top(t).given)
    BY <2>1 DEF ThreadInv, Shown, Current
  <2>3. Current(t) \in Sinks /\ FedBy(Top(t), steady[t])
    BY <2>1 DEF ThreadInv, Fed
  <2> QED
    BY <2>2, <2>3, FedSeesAll DEF FedBy
<1> QED
  BY <1>1, InitInv, NextInv, PTL DEF Spec

-----------------------------------------------------------------------------
(* The counters of an InMemorySink *)

\* Each offered event is in one place, and an emit about to store has room to
\* make.
Counted(s) ==
    /\ records[s] \in Seq(SUBSET Groups) /\ drained[s] \in Nat /\ offered[s] \in Nat
    /\ stats[s] \in [accepted: Nat, dropped: Nat, overwritten: Nat]
    /\ overflow[s] \in {"DropNewest", "OverwriteOldest"}
    /\ Len(records[s]) <= Capacity
    /\ stats[s].accepted = Len(records[s]) + drained[s] + stats[s].overwritten
    /\ IsFiniteSet(Deciding(s))
    /\ offered[s] = stats[s].accepted + stats[s].dropped + Cardinality(Deciding(s))

MemoryFunctions ==
    /\ records = [s \in Memory |-> records[s]] /\ drained = [s \in Memory |-> drained[s]]
    /\ offered = [s \in Memory |-> offered[s]] /\ stats = [s \in Memory |-> stats[s]]

StoresOne == \A t \in Threads : pc[t] = "store" => Current(t) \in Memory /\ Capacity > 0

MInv == MemoryFunctions /\ StoresOne /\ \A s \in Memory : Counted(s)

\* A sink that nothing happens to, seen from any thread.
LEMMA SinkUndisturbed ==
    ASSUME NEW s \in Memory, Counted(s), Deciding(s)' = Deciding(s),
           records'[s] = records[s], drained'[s] = drained[s], offered'[s] = offered[s],
           stats'[s] = stats[s], overflow'[s] = overflow[s]
    PROVE  Counted(s)'
BY DEF Counted

\* Who is at which sink, when one thread moves.
LEMMA DecidingMoves ==
    ASSUME IInv, NEW t \in Threads, NEW step \in Steps, Goto(t, step),
           \A u \in Threads : Current(u)' = Current(u), NEW s
    PROVE  /\ step \in {"called", "store"} /\ Current(t) = s =>
                Deciding(s)' = Deciding(s) \cup {t}
           /\ step \notin {"called", "store"} =>
                Deciding(s)' = Deciding(s) \ {t}
           /\ Current(t) # s => Deciding(s)' = Deciding(s)
           /\ pc[t] \notin {"called", "store"} => t \notin Deciding(s)
           /\ pc[t] \in {"called", "store"} /\ Current(t) = s => t \in Deciding(s)
<1>1. pc'[t] = step /\ \A u \in Threads \ {t} : pc'[u] = pc[u]
  BY DEF Goto, IInv, Functions
<1> QED
  BY <1>1 DEF Deciding

\* One thread more or less is one more or less in the count.
LEMMA DecidingCount ==
    ASSUME NEW S, IsFiniteSet(S), NEW t
    PROVE  /\ Cardinality(S) \in Nat
           /\ IsFiniteSet(S \cup {t}) /\ IsFiniteSet(S \ {t})
           /\ t \notin S => Cardinality(S \cup {t}) = Cardinality(S) + 1
           /\ t \in S => Cardinality(S \ {t}) = Cardinality(S) - 1 /\ S \cup {t} = S
           /\ t \notin S => S \ {t} = S
BY FS_CardinalityType, FS_AddElement, FS_RemoveElement

\* A step that touches no InMemorySink and is at none.
LEMMA ElsewhereInv ==
    ASSUME MInv, UNCHANGED <<overflow, records, stats, drained, offered>>,
           \A s \in Memory : Deciding(s)' = Deciding(s),
           \A u \in Threads : pc'[u] = "store" => pc[u] = "store" /\ Current(u)' = Current(u)
    PROVE  MInv'
<1>1. \A s \in Memory : Counted(s)'
  BY SinkUndisturbed DEF MInv
<1>2. StoresOne'
  BY DEF MInv, StoresOne
<1>3. MemoryFunctions'
  BY DEF MInv, MemoryFunctions
<1> QED
  BY <1>1, <1>2, <1>3 DEF MInv

\* A step of a thread that is at no InMemorySink, before and after.
LEMMA AwayFromSinks ==
    ASSUME IInv, MInv, NEW t \in Threads,
           pc[t] \notin {"called", "store"} \/ Current(t) \notin Memory,
           pc'[t] \notin {"called", "store"},
           \A u \in Threads \ {t} : pc'[u] = pc[u] /\ fan'[u] = fan[u]
    PROVE  /\ \A s \in Memory : Deciding(s)' = Deciding(s)
           /\ \A u \in Threads : pc'[u] = "store" => pc[u] = "store" /\ Current(u)' = Current(u)
<1>1. \A u \in Threads \ {t} : Current(u)' = Current(u)
  BY DEF Current, Top
<1>2. ASSUME NEW s \in Memory PROVE Deciding(s)' = Deciding(s)
  BY <1>1 DEF Deciding
<1> QED
  BY <1>1, <1>2

\* Steps of emit that are at no InMemorySink.
LEMMA EmitAwayInv ==
    ASSUME IInv, MInv, NEW t \in Threads,
           EmitStart(t) \/ SinkReturn(t) \/ SinkPanic(t) \/ Release(t) \/ EmitEnd(t)
    PROVE  MInv'
<1>1. UNCHANGED <<overflow, records, stats, drained, offered>>
  BY DEF EmitStart, SinkReturn, SinkPanic, Release, EmitEnd, memoryVars
<1>2. pc[t] \notin {"called", "store"} \/ Current(t) \notin Memory
  BY SinkAssumption DEF EmitStart, SinkReturn, SinkPanic, Release, EmitEnd
<1>3. /\ pc'[t] \notin {"called", "store"}
      /\ \A u \in Threads \ {t} : pc'[u] = pc[u] /\ fan'[u] = fan[u]
  <2>1. CASE EmitStart(t)
    <3>1. pc[t] = "evaluated" /\ \E event : Dispatch(t, event)
      BY <2>1 DEF EmitStart
    <3>2. fan[t] = <<>>
      BY <3>1 DEF IInv, ThreadInv, Placed, InsideSteps
    <3>3. Goto(t, "view") \/ Goto(t, "idle")
      BY <3>1, <3>2 DEF Dispatch, Outside
    <3>4. \A u \in Threads \ {t} : fan'[u] = fan[u]
      BY <3>1 DEF Dispatch, IInv, Functions
    <3> QED
      BY <3>3, <3>4 DEF Goto, IInv, Functions
  <2>2. CASE SinkReturn(t)
    BY <2>2 DEF SinkReturn, emitVars, Goto, IInv, Functions
  <2>3. CASE SinkPanic(t)
    BY <2>3 DEF SinkPanic, Goto, IInv, Functions
  <2>4. CASE Release(t)
    BY <2>4 DEF Release, Goto, IInv, Functions
  <2>5. CASE EmitEnd(t)
    <3>1. pc[t] = "view" /\ Goto(t, Outside(Len(fan[t]) - 1))
          /\ \A u \in Threads \ {t} : fan'[u] = fan[u]
      BY <2>5 DEF EmitEnd, IInv, Functions
    <3>2. Len(fan[t]) = 1
      BY <3>1, TheFrame DEF InsideSteps
    <3> QED
      BY <3>1, <3>2 DEF Goto, Outside, IInv, Functions
  <2> QED
    BY <2>1, <2>2, <2>3, <2>4, <2>5
<1> QED
  BY <1>1, <1>2, <1>3, AwayFromSinks, ElsewhereInv

\* Log calls, configuration and spans.
LEMMA OutsideInv ==
    ASSUME IInv, MInv, NEW t \in Threads,
           \/ \E site \in Sites : LogStart(t, site)
           \/ ConfigStep(t) /\ ~DrainTake(t)
           \/ SpanStep(t)
    PROVE  MInv'
<1>1. UNCHANGED <<overflow, records, stats, drained, offered, fan>>
  BY DEF LogStart, ConfigStep, AddSink, AnnounceAdd, RemoveSink, AnnounceRemove,
         DropRegistration, DrainLock, SpanStep, StartSpan, EndSpan, PushSpan,
         TakeCompletedSpans, memoryVars, emitVars
<1>2. pc[t] \notin InsideSteps
  BY DEF LogStart, ConfigStep, AddSink, AnnounceAdd, RemoveSink, AnnounceRemove,
         DropRegistration, DrainLock, SpanStep, StartSpan, EndSpan, PushSpan,
         TakeCompletedSpans, InsideSteps
<1>3. pc' = pc \/ \E step \in Steps \ InsideSteps : Goto(t, step)
  BY DEF LogStart, ConfigStep, AddSink, AnnounceAdd, RemoveSink, AnnounceRemove,
         DropRegistration, DrainLock, SpanStep, StartSpan, EndSpan, PushSpan,
         TakeCompletedSpans, InsideSteps, Steps
<1>4. /\ pc'[t] \notin {"called", "store"}
      /\ \A u \in Threads \ {t} : pc'[u] = pc[u] /\ fan'[u] = fan[u]
  BY <1>1, <1>2, <1>3 DEF Goto, IInv, Functions, InsideSteps
<1> QED
  BY <1>1, <1>2, <1>4, AwayFromSinks, ElsewhereInv DEF InsideSteps

\* What drain takes out is counted as drained.
LEMMA DrainTakeInv ==
    ASSUME IInv, MInv, NEW t \in Threads, DrainTake(t)
    PROVE  MInv'
<1>1. PICK s \in task[t] :
        /\ records' = [records EXCEPT ![s] = <<>>]
        /\ drained' = [drained EXCEPT ![s] = @ + Len(records[s])]
  BY DEF DrainTake
<1>2. UNCHANGED <<overflow, stats, offered, fan>> /\ pc[t] = "drain" /\ Goto(t, "idle")
  BY DEF DrainTake, emitVars
<1>3. /\ pc'[t] \notin {"called", "store"}
      /\ \A u \in Threads \ {t} : pc'[u] = pc[u] /\ fan'[u] = fan[u]
  BY <1>2 DEF Goto, IInv, Functions
<1>4. /\ \A r \in Memory : Deciding(r)' = Deciding(r)
      /\ \A u \in Threads : pc'[u] = "store" => pc[u] = "store" /\ Current(u)' = Current(u)
  BY <1>2, <1>3, AwayFromSinks
<1>5. ASSUME NEW r \in Memory PROVE Counted(r)'
  <2>1. Counted(r)
    BY DEF MInv
  <2>2. CASE r # s
    <3>1. records'[r] = records[r] /\ drained'[r] = drained[r]
      BY <1>1, <2>2 DEF MInv, MemoryFunctions
    <3> QED
      BY <1>2, <1>4, <2>1, <3>1, SinkUndisturbed
  <2>3. CASE r = s
    <3>1. records'[r] = <<>> /\ drained'[r] = drained[r] + Len(records[r])
      BY <1>1, <2>3 DEF MInv, MemoryFunctions
    <3> QED
      BY SMTT(30), <1>2, <1>4, <2>1, <3>1, NumberAssumption DEF Counted
  <2> QED
    BY <2>2, <2>3
<1>6. MemoryFunctions'
  BY <1>1, <1>2 DEF MInv, MemoryFunctions
<1>7. StoresOne'
  BY <1>4 DEF MInv, StoresOne
<1> QED
  BY <1>5, <1>6, <1>7 DEF MInv

\* A call into a sink leaves what is left of the snapshot alone.
LEMMA CallSinkSame ==
    ASSUME IInv, NEW t \in Threads, CallSink(t)
    PROVE  \A u \in Threads : Current(u)' = Current(u)
<1>1. pc[t] = "view"
  BY DEF CallSink
<1>2. PICK left, site, given, shown :
        /\ shown \in SUBSET Groups
        /\ fan[t] = <<[left |-> left, site |-> site, given |-> given, shown |-> shown]>>
  BY <1>1, TheFrame DEF InsideSteps
<1> DEFINE view == Project(Current(t), Top(t).given)
<1>3. Len(fan[t]) = 1 /\ Current(t) = Head(left)
  BY <1>2 DEF Top, Current
<1>4. fan' = [fan EXCEPT ![t][1].shown = view]
  BY <1>3 DEF CallSink
<1> HIDE DEF view
<1>5. [fan[t] EXCEPT ![1].shown = view] =
        <<[left |-> left, site |-> site, given |-> given, shown |-> view]>>
  BY <1>2
<1>6. fan'[t] = <<[left |-> left, site |-> site, given |-> given, shown |-> view]>>
  BY <1>4, <1>5 DEF IInv, Functions
<1>7. Current(t)' = Head(left)
  BY <1>6 DEF Current, Top
<1>8. ASSUME NEW u \in Threads \ {t} PROVE Current(u)' = Current(u)
  BY <1>4 DEF IInv, Functions, Current, Top
<1> QED
  BY <1>3, <1>7, <1>8

\* An offered event is being decided.
LEMMA CallSinkCounts ==
    ASSUME IInv, MInv, NEW t \in Threads, CallSink(t)
    PROVE  MInv'
<1>1. /\ pc[t] = "view" /\ Goto(t, "called") /\ UNCHANGED <<overflow, records, stats, drained>>
      /\ offered' = [s \in Memory |-> IF s = Current(t) THEN offered[s] + 1 ELSE offered[s]]
  BY DEF CallSink, memoryVars
<1>2. \A u \in Threads : Current(u)' = Current(u)
  BY CallSinkSame
<1>3. ASSUME NEW s \in Memory PROVE Counted(s)'
  <2>1. Counted(s) /\ t \notin Deciding(s)
    BY <1>1 DEF MInv, Deciding
  <2>2. CASE Current(t) = s
    <3>1. Deciding(s)' = Deciding(s) \cup {t}
      BY <1>1, <1>2, <2>2, DecidingMoves DEF Steps
    <3>2. offered'[s] = offered[s] + 1
      BY <1>1, <2>2
    <3>3. /\ Cardinality(Deciding(s)) \in Nat /\ IsFiniteSet(Deciding(s)')
          /\ Cardinality(Deciding(s)') = Cardinality(Deciding(s)) + 1
      <4>1. IsFiniteSet(Deciding(s))
        BY <2>1 DEF Counted
      <4> HIDE DEF Deciding
      <4> QED  BY <2>1, <3>1, <4>1, DecidingCount
    <3>4. /\ offered[s] \in Nat /\ stats[s].accepted \in Nat /\ stats[s].dropped \in Nat
          /\ offered[s] = stats[s].accepted + stats[s].dropped + Cardinality(Deciding(s))
      BY <2>1 DEF Counted
    <3>5. /\ offered'[s] \in Nat /\ stats'[s] = stats[s]
          /\ offered'[s] = stats[s].accepted + stats[s].dropped + Cardinality(Deciding(s)')
      BY <1>1, <3>2, <3>3, <3>4
    <3> QED
      BY <1>1, <2>1, <3>3, <3>5 DEF Counted
  <2>3. CASE Current(t) # s
    <3>1. Deciding(s)' = Deciding(s)
      BY <1>1, <1>2, <2>3, DecidingMoves DEF Steps
    <3>2. offered'[s] = offered[s]
      BY <1>1, <2>3
    <3> QED
      BY <1>1, <2>1, <3>1, <3>2, SinkUndisturbed
  <2> QED
    BY <2>2, <2>3
<1>4. MemoryFunctions'
  BY <1>1 DEF MInv, MemoryFunctions
<1>5. StoresOne'
  BY <1>1, <1>2 DEF MInv, StoresOne, Goto, IInv, Functions
<1> QED
  BY <1>3, <1>4, <1>5 DEF MInv

\* Leaving a sink with one counter advanced.
LEMMA LeavesSink ==
    ASSUME IInv, NEW t \in Threads, NEW s \in Memory, Counted(s), Current(t) = s,
           pc[t] \in {"called", "store"}, Goto(t, "release"), fan' = fan
    PROVE  /\ Cardinality(Deciding(s)) \in Nat /\ Cardinality(Deciding(s)') \in Nat
           /\ IsFiniteSet(Deciding(s)')
           /\ Cardinality(Deciding(s)') = Cardinality(Deciding(s)) - 1
<1>1. \A u \in Threads : Current(u)' = Current(u)
  BY DEF Current, Top
<1>2. Deciding(s)' = Deciding(s) \ {t} /\ t \in Deciding(s)
  BY <1>1, DecidingMoves DEF Steps
<1>3. IsFiniteSet(Deciding(s))
  BY DEF Counted
<1>4. IsFiniteSet(Deciding(s)')
  BY <1>2, <1>3, DecidingCount
<1> QED
  BY <1>2, <1>3, <1>4, DecidingCount, FS_CardinalityType


\* One event moves from those being decided into a counter.
LEMMA OneFewerDeciding ==
    ASSUME NEW s \in Memory, Counted(s), Cardinality(Deciding(s)') \in Nat,
           Cardinality(Deciding(s)') = Cardinality(Deciding(s)) - 1,
           stats'[s].accepted \in Nat, stats'[s].dropped \in Nat,
           stats'[s].accepted + stats'[s].dropped = stats[s].accepted + stats[s].dropped + 1
    PROVE  offered[s] = stats'[s].accepted + stats'[s].dropped + Cardinality(Deciding(s)')
<1>1. /\ stats[s].accepted \in Nat /\ stats[s].dropped \in Nat /\ offered[s] \in Nat
      /\ offered[s] = stats[s].accepted + stats[s].dropped + Cardinality(Deciding(s))
  BY DEF Counted
<1>2. Cardinality(Deciding(s)) \in Nat
  BY FS_CardinalityType DEF Counted
<1> QED
  BY <1>1, <1>2

\* A sink's row of counters and records after an event has left Deciding.
OneMore(s) ==
    /\ records' = [records EXCEPT ![s] = records'[s]] /\ records'[s] \in Seq(SUBSET Groups)
    /\ stats' = [stats EXCEPT ![s] = stats'[s]]
    /\ stats'[s] \in [accepted: Nat, dropped: Nat, overwritten: Nat]
    /\ Len(records'[s]) <= Capacity
    /\ stats'[s].accepted = Len(records'[s]) + drained[s] + stats'[s].overwritten
    /\ stats'[s].accepted + stats'[s].dropped = stats[s].accepted + stats[s].dropped + 1

\* Leaving a sink with its event in exactly one place or counter.
LEMMA OneCounter ==
    ASSUME IInv, MInv, NEW t \in Threads, NEW s \in Memory, Current(t) = s,
           pc[t] \in {"called", "store"}, Goto(t, "release"),
           UNCHANGED <<overflow, drained, offered, fan>>, OneMore(s)
    PROVE  MInv'
<1>1. Counted(s)
  BY DEF MInv
<1>2. /\ Cardinality(Deciding(s)') \in Nat /\ IsFiniteSet(Deciding(s)')
      /\ Cardinality(Deciding(s)') = Cardinality(Deciding(s)) - 1
  BY <1>1, LeavesSink
<1>3. stats'[s].accepted \in Nat /\ stats'[s].dropped \in Nat
      /\ stats'[s].accepted + stats'[s].dropped = stats[s].accepted + stats[s].dropped + 1
  BY DEF OneMore
<1>4. offered[s] = stats'[s].accepted + stats'[s].dropped + Cardinality(Deciding(s)')
  BY <1>1, <1>2, <1>3, OneFewerDeciding
<1>5. Counted(s)'
  BY <1>1, <1>2, <1>4 DEF Counted, OneMore
<1>6. \A u \in Threads : Current(u)' = Current(u)
  BY DEF Current, Top
<1>7. ASSUME NEW r \in Memory \ {s} PROVE Counted(r)'
  <2>1. Deciding(r)' = Deciding(r)
    BY <1>6, DecidingMoves DEF Steps
  <2>2. Counted(r) /\ stats'[r] = stats[r] /\ records'[r] = records[r]
    BY DEF MInv, MemoryFunctions, OneMore
  <2> QED
    BY <2>1, <2>2, SinkUndisturbed
<1>8. StoresOne'
  BY <1>6 DEF MInv, StoresOne, Goto, IInv, Functions
<1>9. MemoryFunctions'
  BY DEF MInv, MemoryFunctions, OneMore
<1> QED
  BY <1>5, <1>7, <1>8, <1>9 DEF MInv

\* The counters of a sink are numbers ...
LEMMA CountersAre ==
    ASSUME MInv, NEW s \in Memory
    PROVE  /\ stats[s].accepted \in Nat /\ stats[s].dropped \in Nat
           /\ stats[s].overwritten \in Nat
           /\ records[s] \in Seq(SUBSET Groups) /\ Len(records[s]) <= Capacity
           /\ drained[s] \in Nat
           /\ stats[s].accepted = Len(records[s]) + drained[s] + stats[s].overwritten
BY DEF MInv, Counted

\* ... in a record of three.
LEMMA ThreeCounters ==
    ASSUME MInv, NEW s \in Memory
    PROVE  /\ [stats EXCEPT ![s].accepted = @ + 1][s] =
                [accepted |-> stats[s].accepted + 1, dropped |-> stats[s].dropped,
                 overwritten |-> stats[s].overwritten]
           /\ [stats EXCEPT ![s].dropped = @ + 1][s] =
                [accepted |-> stats[s].accepted, dropped |-> stats[s].dropped + 1,
                 overwritten |-> stats[s].overwritten]
           /\ [stats EXCEPT ![s].accepted = @ + 1, ![s].overwritten = @ + 1][s] =
                [accepted |-> stats[s].accepted + 1, dropped |-> stats[s].dropped,
                 overwritten |-> stats[s].overwritten + 1]
<1>1. PICK a \in Nat, d \in Nat, o \in Nat :
        stats[s] = [accepted |-> a, dropped |-> d, overwritten |-> o]
  BY DEF MInv, Counted
<1>2. [stats EXCEPT ![s].accepted = @ + 1][s] =
        [accepted |-> a + 1, dropped |-> d, overwritten |-> o]
  BY <1>1 DEF MInv, MemoryFunctions
<1>3. [stats EXCEPT ![s].dropped = @ + 1][s] =
        [accepted |-> a, dropped |-> d + 1, overwritten |-> o]
  BY <1>1 DEF MInv, MemoryFunctions
<1>4. [[stats EXCEPT ![s].accepted = @ + 1] EXCEPT ![s].overwritten = @ + 1][s] =
        [accepted |-> a + 1, dropped |-> d, overwritten |-> o + 1]
  <2> DEFINE half == [stats EXCEPT ![s].accepted = @ + 1]
  <2>1. half[s] = [accepted |-> a + 1, dropped |-> d, overwritten |-> o] /\ s \in DOMAIN half
        /\ half = [r \in Memory |-> half[r]]
    BY <1>2 DEF MInv, MemoryFunctions
  <2> HIDE DEF half
  <2>2. [half EXCEPT ![s].overwritten = @ + 1][s] =
          [accepted |-> a + 1, dropped |-> d, overwritten |-> o + 1]
    BY <2>1
  <2> QED
    BY <2>2 DEF half
<1> QED
  BY <1>1, <1>2, <1>3, <1>4

\* A record finds room.
LEMMA AcceptedOne ==
    ASSUME MInv, NEW s \in Memory,
           NEW kept \in Seq(SUBSET Groups), Len(kept) <= Capacity, Len(kept) = Len(records[s]) + 1,
           records' = [records EXCEPT ![s] = kept],
           stats' = [stats EXCEPT ![s].accepted = @ + 1]
    PROVE  OneMore(s)
<1> DEFINE a == stats[s].accepted  d == stats[s].dropped  o == stats[s].overwritten
<1>1. a \in Nat /\ d \in Nat /\ o \in Nat
  BY CountersAre
<1>2. stats'[s] = [accepted |-> a + 1, dropped |-> d, overwritten |-> o]
  BY ThreeCounters
<1>3. stats' = [stats EXCEPT ![s] = stats'[s]] /\ records'[s] = kept
  BY DEF MInv, MemoryFunctions
<1>4. /\ a = Len(records[s]) + drained[s] + o /\ drained[s] \in Nat
      /\ records[s] \in Seq(SUBSET Groups) /\ Len(records[s]) <= Capacity
      /\ Len(records[s]) \in Nat
  BY <1>1, CountersAre
<1>5. Len(records'[s]) = Len(records[s]) + 1
  BY <1>3
<1> HIDE DEF a, d, o
<1>6. a + 1 = Len(records'[s]) + drained[s] + o
  BY <1>1, <1>4, <1>5
<1>7. (a + 1) + d = a + d + 1 /\ a + 1 \in Nat /\ d + 1 \in Nat /\ o + 1 \in Nat
  BY SMTT(30), <1>1
<1>8. stats'[s] \in [accepted: Nat, dropped: Nat, overwritten: Nat]
  BY SMTT(30), <1>1, <1>2, <1>7
<1>9. /\ stats'[s].accepted = Len(records'[s]) + drained[s] + stats'[s].overwritten
      /\ stats'[s].accepted + stats'[s].dropped = stats[s].accepted + stats[s].dropped + 1
  BY <1>2, <1>6, <1>7 DEF a, d
<1> QED
  BY <1>3, <1>4, <1>8, <1>9 DEF OneMore

\* An event is dropped.
LEMMA DroppedOne ==
    ASSUME MInv, NEW s \in Memory,
           records' = [records EXCEPT ![s] = records[s]],
           stats' = [stats EXCEPT ![s].dropped = @ + 1]
    PROVE  OneMore(s)
<1> DEFINE a == stats[s].accepted  d == stats[s].dropped  o == stats[s].overwritten
<1>1. a \in Nat /\ d \in Nat /\ o \in Nat
  BY CountersAre
<1>2. stats'[s] = [accepted |-> a, dropped |-> d + 1, overwritten |-> o]
  BY ThreeCounters
<1>3. stats' = [stats EXCEPT ![s] = stats'[s]] /\ records'[s] = records[s]
  BY DEF MInv, MemoryFunctions
<1>4. /\ a = Len(records[s]) + drained[s] + o /\ drained[s] \in Nat
      /\ records[s] \in Seq(SUBSET Groups) /\ Len(records[s]) <= Capacity
      /\ Len(records[s]) \in Nat
  BY <1>1, CountersAre
<1>5. Len(records'[s]) = Len(records[s])
  BY <1>3
<1> HIDE DEF a, d, o
<1>6. a = Len(records'[s]) + drained[s] + o
  BY <1>1, <1>4, <1>5
<1>7. a + (d + 1) = a + d + 1 /\ a + 1 \in Nat /\ d + 1 \in Nat /\ o + 1 \in Nat
  BY <1>1
<1>8. stats'[s] \in [accepted: Nat, dropped: Nat, overwritten: Nat]
  BY <1>1, <1>2, <1>7
<1>9. /\ stats'[s].accepted = Len(records'[s]) + drained[s] + stats'[s].overwritten
      /\ stats'[s].accepted + stats'[s].dropped = stats[s].accepted + stats[s].dropped + 1
  BY <1>2, <1>6, <1>7 DEF a, d
<1> QED
  BY <1>3, <1>4, <1>8, <1>9 DEF OneMore

\* A record takes the place of the oldest.
LEMMA OverwrittenOne ==
    ASSUME MInv, NEW s \in Memory,
           NEW kept \in Seq(SUBSET Groups), Len(kept) <= Capacity, Len(kept) = Len(records[s]),
           records' = [records EXCEPT ![s] = kept],
           stats' = [stats EXCEPT ![s] = stats'[s]],
           stats'[s] = [accepted |-> stats[s].accepted + 1, dropped |-> stats[s].dropped,
                        overwritten |-> stats[s].overwritten + 1]
    PROVE  OneMore(s)
<1> DEFINE a == stats[s].accepted  d == stats[s].dropped  o == stats[s].overwritten
<1>1. a \in Nat /\ d \in Nat /\ o \in Nat
  BY CountersAre
<1>2. stats'[s] = [accepted |-> a + 1, dropped |-> d, overwritten |-> o + 1]
  OBVIOUS
<1>3. records'[s] = kept
  BY DEF MInv, MemoryFunctions
<1>4. /\ a = Len(records[s]) + drained[s] + o /\ drained[s] \in Nat
      /\ records[s] \in Seq(SUBSET Groups) /\ Len(records[s]) <= Capacity
      /\ Len(records[s]) \in Nat
  BY <1>1, CountersAre
<1>5. Len(records'[s]) = Len(records[s])
  BY <1>3
<1> HIDE DEF a, d, o
<1>6. a + 1 = Len(records'[s]) + drained[s] + (o + 1)
  <2>1. \A x, y, z \in Nat : x + y + z + 1 = x + y + (z + 1)
    OBVIOUS
  <2>2. Len(records'[s]) \in Nat /\ a = Len(records'[s]) + drained[s] + o
    BY <1>4, <1>5
  <2> QED  BY <1>1, <1>4, <2>1, <2>2
<1>7. (a + 1) + d = a + d + 1 /\ a + 1 \in Nat /\ d + 1 \in Nat /\ o + 1 \in Nat
  <2>1. \A x, y \in Nat : (x + 1) + y = x + y + 1 /\ x + 1 \in Nat
    OBVIOUS
  <2> QED  BY ONLY <1>1, <2>1
<1>8. PICK x \in Nat, y \in Nat : x = a + 1 /\ y = o + 1
  BY <1>7
<1>9. stats'[s] = [accepted |-> x, dropped |-> d, overwritten |-> y]
  BY <1>2, <1>8
<1>10. x = Len(records'[s]) + drained[s] + y /\ x + d = a + d + 1
  BY <1>6, <1>7, <1>8
<1>11. stats'[s] \in [accepted: Nat, dropped: Nat, overwritten: Nat]
  BY <1>1, <1>9
<1>12. /\ stats'[s].accepted = Len(records'[s]) + drained[s] + stats'[s].overwritten
      /\ stats'[s].accepted + stats'[s].dropped = stats[s].accepted + stats[s].dropped + 1
  BY <1>9, <1>10 DEF a, d
<1> QED
  BY <1>3, <1>4, <1>11, <1>12, <1>5 DEF OneMore

\* A contended lock or no capacity drops the event.
LEMMA MemoryTryLockCounts ==
    ASSUME IInv, MInv, NEW t \in Threads, MemoryTryLock(t)
    PROVE  MInv'
<1>1. /\ pc[t] = "called" /\ UNCHANGED <<overflow, records, drained, offered, fan>>
  BY DEF MemoryTryLock, emitVars
<1>2. PICK s \in Memory : Current(t) = s
  BY DEF MemoryTryLock
<1>3. CASE Capacity > 0 /\ Goto(t, "store") /\ UNCHANGED stats
  <2>1. \A u \in Threads : Current(u)' = Current(u)
    BY <1>1 DEF Current, Top
  <2>2. ASSUME NEW r \in Memory PROVE Deciding(r)' = Deciding(r)
    <3>1. pc'[t] = "store" /\ \A u \in Threads \ {t} : pc'[u] = pc[u]
      BY <1>3 DEF Goto, IInv, Functions
    <3> QED
      BY <1>1, <2>1, <3>1 DEF Deciding
  <2>3. \A r \in Memory : Counted(r)'
    BY <1>1, <1>3, <2>2, SinkUndisturbed DEF MInv
  <2>4. StoresOne'
    BY <1>2, <1>3, <2>1 DEF MInv, StoresOne, Goto, IInv, Functions
  <2>5. MemoryFunctions'
    BY <1>1, <1>3 DEF MInv, MemoryFunctions
  <2> QED
    BY <2>3, <2>4, <2>5 DEF MInv
<1>4. CASE stats' = [stats EXCEPT ![s].dropped = @ + 1] /\ Goto(t, "release")
  <2>1. records' = [records EXCEPT ![s] = records[s]]
    BY <1>1 DEF MInv, MemoryFunctions
  <2> QED
    BY <1>1, <1>2, <1>4, <2>1, DroppedOne, OneCounter
<1> QED
  BY <1>2, <1>3, <1>4 DEF MemoryTryLock

\* Under the lock the event is stored, dropped, or takes the oldest's place.
LEMMA MemoryStoreCounts ==
    ASSUME IInv, MInv, NEW t \in Threads, MemoryStore(t)
    PROVE  MInv'
<1>1. /\ pc[t] = "store" /\ Goto(t, "release")
      /\ UNCHANGED <<overflow, drained, offered, fan>>
  BY DEF MemoryStore, emitVars
<1>2. Current(t) \in Memory /\ Capacity > 0
  BY <1>1 DEF MInv, StoresOne
<1>3. PICK s \in Memory : Current(t) = s
  BY <1>2
<1>4. PICK view : view = Top(t).shown /\ view \in SUBSET Groups
  <2>1. PICK left, site, given, shown :
          /\ shown \in SUBSET Groups
          /\ fan[t] = <<[left |-> left, site |-> site, given |-> given, shown |-> shown]>>
    BY <1>1, TheFrame DEF InsideSteps
  <2> QED
    BY <2>1 DEF Top
<1>5. CASE /\ ~Full(s) /\ records' = [records EXCEPT ![s] = Append(@, view)]
           /\ stats' = [stats EXCEPT ![s].accepted = @ + 1]
  <2> DEFINE kept == Append(records[s], view)
  <2>1. kept \in Seq(SUBSET Groups) /\ Len(kept) = Len(records[s]) + 1 /\ Len(kept) <= Capacity
    BY <1>4, <1>5, CountersAre, NumberAssumption DEF Full
  <2>2. records' = [records EXCEPT ![s] = kept]
    BY <1>5
  <2> HIDE DEF kept
  <2>3. stats' = [stats EXCEPT ![s].accepted = @ + 1]
    BY <1>5
  <2> QED
    BY <1>1, <1>3, <2>1, <2>2, <2>3, AcceptedOne, OneCounter
<1>6. CASE stats' = [stats EXCEPT ![s].dropped = @ + 1] /\ UNCHANGED records
  <2>1. records' = [records EXCEPT ![s] = records[s]]
    BY <1>6 DEF MInv, MemoryFunctions
  <2> QED
    BY <1>1, <1>3, <1>6, <2>1, DroppedOne, OneCounter
<1>7. CASE /\ Full(s) /\ records' = [records EXCEPT ![s] = Append(Tail(@), view)]
           /\ stats' = [stats EXCEPT ![s].accepted = @ + 1, ![s].overwritten = @ + 1]
  <2> DEFINE kept == Append(Tail(records[s]), view)
  <2>1. kept \in Seq(SUBSET Groups) /\ Len(kept) = Len(records[s]) /\ Len(kept) <= Capacity
    <3>1. records[s] # <<>>
      BY <1>2, <1>7, CountersAre, NumberAssumption DEF Full
    <3>2. Tail(records[s]) \in Seq(SUBSET Groups) /\ Len(Tail(records[s])) = Len(records[s]) - 1
      BY <3>1, CountersAre
    <3> QED
      BY <1>4, <3>2, CountersAre
  <2>2. records' = [records EXCEPT ![s] = kept]
    BY <1>7
  <2> HIDE DEF kept
  <2>3. stats' = [stats EXCEPT ![s] = stats'[s]]
    BY <1>7 DEF MInv, MemoryFunctions
  <2>4. stats'[s] = [accepted |-> stats[s].accepted + 1, dropped |-> stats[s].dropped,
                     overwritten |-> stats[s].overwritten + 1]
    BY <1>7, ThreeCounters
  <2> QED
    BY <1>1, <1>3, <2>1, <2>2, <2>3, <2>4, OverwrittenOne, OneCounter
<1> QED
  BY <1>3, <1>4, <1>5, <1>6, <1>7 DEF MemoryStore

\* A refused nested call changes nothing.
LEMMA SinkLogCounts ==
    ASSUME IInv, MInv, NEW t \in Threads, NEW site \in Sites, SinkLog(t, site)
    PROVE  MInv'
<1>1. pc[t] = "called" /\ UNCHANGED <<overflow, records, stats, drained, offered>>
  BY DEF SinkLog, memoryVars
<1>2. fan[t] # <<>> /\ Len(fan[t]) = 1
  BY <1>1, TheFrame DEF InsideSteps
<1>3. inDispatch[t]
  BY <1>2 DEF IInv, ThreadInv, Placed
<1>4. UNCHANGED fan /\ Goto(t, "called")
  BY <1>2, <1>3 DEF SinkLog, Dispatch, Refused, Outside
<1>5. pc' = pc
  BY <1>1, <1>4 DEF Goto, IInv, Functions
<1>6. \A u \in Threads : Current(u)' = Current(u)
  BY <1>4 DEF Current, Top
<1> QED
  BY <1>1, <1>5, <1>6, ElsewhereInv DEF Deciding

\* The counters agree initially.
LEMMA InitCounts == Init => MInv
<1> SUFFICES ASSUME Init PROVE MInv
  OBVIOUS
<1>1. MemoryFunctions
  BY DEF Init, MemoryFunctions
<1>2. StoresOne
  BY DEF Init, StoresOne
<1>3. ASSUME NEW s \in Memory PROVE Counted(s)
  <2>1. Deciding(s) = {}
    BY DEF Init, Deciding
  <2>2. IsFiniteSet(Deciding(s)) /\ Cardinality(Deciding(s)) = 0
    BY <2>1, FS_EmptySet
  <2>3. overflow[s] \in {"DropNewest", "OverwriteOldest"}
    BY SinkAssumption DEF Init
  <2>4. /\ records[s] = <<>> /\ drained[s] = 0 /\ offered[s] = 0
        /\ stats[s] = [accepted |-> 0, dropped |-> 0, overwritten |-> 0]
    BY DEF Init
  <2> QED
    BY <2>2, <2>3, <2>4, NumberAssumption DEF Counted
<1> QED
  BY <1>1, <1>2, <1>3 DEF MInv

\* Every step preserves them.
LEMMA NextCounts == IInv /\ MInv /\ [Next]_vars => MInv'
<1> SUFFICES ASSUME IInv, MInv, [Next]_vars PROVE MInv'
  OBVIOUS
<1>1. ASSUME NEW t \in Threads, NEW site \in Sites, LogStart(t, site) PROVE MInv'
  BY <1>1, OutsideInv
<1>2. ASSUME NEW t \in Threads, EmitStep(t) PROVE MInv'
  BY <1>2, EmitAwayInv, CallSinkCounts, MemoryTryLockCounts, MemoryStoreCounts,
     SinkLogCounts DEF EmitStep
<1>3. ASSUME NEW t \in Threads, ConfigStep(t) PROVE MInv'
  BY <1>3, OutsideInv, DrainTakeInv
<1>4. ASSUME NEW t \in Threads, SpanStep(t) PROVE MInv'
  BY <1>4, OutsideInv
<1>5. CASE UNCHANGED vars
  <2>1. \A s \in Memory : Deciding(s)' = Deciding(s)
    BY <1>5 DEF vars, emitVars, Deciding, Current, Top
  <2>2. \A u \in Threads : pc'[u] = "store" => pc[u] = "store" /\ Current(u)' = Current(u)
    BY <1>5 DEF vars, emitVars, Current, Top
  <2> QED
    BY <1>5, <2>1, <2>2, ElsewhereInv DEF vars, memoryVars
<1> QED
  BY <1>1, <1>2, <1>3, <1>4, <1>5 DEF Next

\* However many emits and drains collide on an InMemorySink's try_lock, under
\* either policy: each offered event is retained, drained, overwritten or
\* dropped, and counted as that once, and the capacity is kept.
THEOREM LossesAreCounted == Spec => []MemoryAccounted
<1>1. MInv => MemoryAccounted
  BY DEF MInv, Counted, MemoryAccounted
<1> QED
  BY <1>1, InitInv, NextInv, InitCounts, NextCounts, PTL DEF Spec

-----------------------------------------------------------------------------
(* The spans *)

SpanTypes ==
    /\ nextSpan \in Nat /\ active \subseteq Nat \X Threads /\ ending \in [Threads -> Nat]
    /\ completed \in Seq(Nat) /\ pushed \in Seq(Nat) /\ taken \subseteq Nat /\ lost \subseteq Nat
    /\ delivery \in DeliveryRecord /\ pc \in [Threads -> Steps]

\* The numbers in use were given out, and a thread at its second acquisition
\* has a span at hand.
SpanNumbers ==
    /\ \A span \in active : span[1] \in 1..nextSpan
    /\ \A t \in Threads : ending[t] <= nextSpan /\ (pc[t] = "spanPush" <=> ending[t] # 0)
    /\ \A i \in 1..Len(pushed) : pushed[i] \in 1..nextSpan

\* A span is active, being ended or pushed, and only once.
OneSpanOnce ==
    /\ \A a, b \in active : a[1] = b[1] => a = b
    /\ \A t, u \in Threads : ending[t] # 0 /\ ending[t] = ending[u] => t = u
    /\ \A a \in active, t \in Threads : ending[t] # a[1]
    /\ \A i \in 1..Len(pushed) : /\ \A a \in active : a[1] # pushed[i]
                                 /\ \A t \in Threads : ending[t] # pushed[i]
    /\ \A i, j \in 1..Len(pushed) : pushed[i] = pushed[j] => i = j

\* How many spans have left the window.
Gone == Len(pushed) - Len(completed)

\* The window is the end of what was pushed, and the rest was taken or lost.
Window ==
    /\ Len(completed) <= Retention /\ Gone \in Nat
    /\ \A k \in 1..Len(completed) : completed[k] = pushed[Gone + k]
    /\ \A i \in 1..Gone : pushed[i] \in taken \cup lost
    /\ \A n \in taken \cup lost : \E i \in 1..Gone : n = pushed[i]
    /\ taken \cap lost = {}
    /\ delivery.spansDropped = Cardinality(lost)

SpanInv == SpanTypes /\ SpanNumbers /\ OneSpanOnce /\ Window

\* The invariant reads the spans, who is ending one, and the drops.
LEMMA SpansUndisturbed ==
    ASSUME SpanInv, UNCHANGED spanVars, pc' \in [Threads -> Steps],
           \A t \in Threads : pc'[t] = "spanPush" <=> pc[t] = "spanPush",
           delivery' \in DeliveryRecord, delivery'.spansDropped = delivery.spansDropped
    PROVE  SpanInv'
<1> USE DEF spanVars
<1>1. SpanTypes'
  BY DEF SpanInv, SpanTypes
<1>2. SpanNumbers'
  BY DEF SpanInv, SpanNumbers
<1>3. OneSpanOnce'
  BY DEF SpanInv, OneSpanOnce
<1>4. Window'
  BY DEF SpanInv, Window, Gone
<1> QED  BY <1>1, <1>2, <1>3, <1>4 DEF SpanInv

\* A panic and a refused emit have counters of their own.
LEMMA DeliveryCounters ==
    ASSUME delivery \in DeliveryRecord,
           \/ delivery' = delivery
           \/ delivery' = [delivery EXCEPT !.panics = @ + 1]
           \/ delivery' = [delivery EXCEPT !.reentrant = @ + 1]
    PROVE  delivery' \in DeliveryRecord /\ delivery'.spansDropped = delivery.spansDropped
BY DEF DeliveryRecord

\* Calls, sinks and their configuration leave the spans alone.
LEMMA AwayFromSpans ==
    ASSUME SpanInv, NEW t \in Threads,
           (\E site \in Sites : LogStart(t, site)) \/ EmitStep(t) \/ ConfigStep(t)
    PROVE  SpanInv'
<1>0. pc \in [Threads -> Steps] /\ delivery \in DeliveryRecord
  BY DEF SpanInv, SpanTypes
<1>1. ASSUME UNCHANGED spanVars, pc[t] # "spanPush",
             NEW step \in Steps \ {"spanPush"}, pc' = pc \/ pc' = [pc EXCEPT ![t] = step],
             \/ delivery' = delivery
             \/ delivery' = [delivery EXCEPT !.panics = @ + 1]
             \/ delivery' = [delivery EXCEPT !.reentrant = @ + 1]
      PROVE  SpanInv'
  <2>1. delivery' \in DeliveryRecord /\ delivery'.spansDropped = delivery.spansDropped
    BY <1>0, <1>1, DeliveryCounters
  <2>2. pc' \in [Threads -> Steps]
        /\ \A u \in Threads : pc'[u] = "spanPush" <=> pc[u] = "spanPush"
    BY <1>0, <1>1
  <2> QED  BY <1>1, <2>1, <2>2, SpansUndisturbed
<1> USE DEF Goto, Steps, Outside
<1>2. ASSUME NEW site \in Sites, LogStart(t, site)
      PROVE  SpanInv'
  BY <1>1, <1>2 DEF LogStart
<1>3. ASSUME NEW event, Dispatch(t, event), UNCHANGED spanVars, pc[t] \in {"evaluated", "called"}
      PROVE  SpanInv'
  <2>1. CASE Len(fan[t]) = 0
    BY <1>1, <1>3, <2>1 DEF Dispatch
  <2>2. CASE Len(fan[t]) # 0
    BY <1>1, <1>3, <2>2 DEF Dispatch
  <2> QED  BY <2>1, <2>2
<1>4. CASE EmitStart(t) \/ \E site \in Sites : SinkLog(t, site)
  BY <1>3, <1>4 DEF EmitStart, SinkLog
<1>5. CASE EmitEnd(t)
  <2>1. PICK step \in {"idle", "called"} : pc' = [pc EXCEPT ![t] = step]
    BY <1>5 DEF EmitEnd
  <2>2. step \in Steps \ {"spanPush"}
    BY <2>1
  <2>3. UNCHANGED <<spanVars, delivery>> /\ pc[t] # "spanPush"
    BY <1>5 DEF EmitEnd
  <2> QED  BY <1>1, <2>1, <2>2, <2>3
<1>6. CASE CallSink(t) \/ SinkReturn(t) \/ SinkPanic(t) \/ Release(t)
  BY <1>1, <1>6 DEF CallSink, SinkReturn, SinkPanic, Release
<1>7. CASE MemoryTryLock(t) \/ MemoryStore(t)
  BY <1>1, <1>7 DEF MemoryTryLock, MemoryStore
<1>8. CASE ConfigStep(t)
  BY <1>1, <1>8 DEF ConfigStep, AddSink, RemoveSink, DrainLock, AnnounceAdd, AnnounceRemove,
                    DropRegistration, DrainTake
<1> QED  BY <1>2, <1>4, <1>5, <1>6, <1>7, <1>8 DEF EmitStep

\* A new span has a new number.
LEMMA StartSpanKeeps ==
    ASSUME SpanInv, NEW t \in Threads, StartSpan(t)
    PROVE  SpanInv'
<1> DEFINE new == nextSpan + 1
<1>0. /\ nextSpan \in Nat /\ nextSpan' = new /\ active' = active \cup {<<new, t>>}
      /\ UNCHANGED <<ending, completed, pushed, taken, lost, delivery, pc>>
  BY DEF StartSpan, SpanInv, SpanTypes
<1>1. new \in Nat /\ 1..nextSpan \subseteq 1..new /\ new \notin 1..nextSpan
      /\ new \in 1..new /\ \A n \in Nat : n <= nextSpan => n <= new /\ n # new
  BY <1>0
<1>2. \A u \in Threads : ending[u] \in Nat
  BY DEF SpanInv, SpanTypes
<1> HIDE DEF new
<1>3. SpanTypes'
  BY <1>0, <1>1 DEF SpanInv, SpanTypes
<1>4. SpanNumbers'
  BY <1>0, <1>1, <1>2 DEF SpanInv, SpanNumbers
<1>5. OneSpanOnce'
  <2>1. /\ \A a \in active : a[1] # new
        /\ \A u \in Threads : ending[u] # new
        /\ \A i \in 1..Len(pushed) : pushed[i] # new
    BY <1>1, <1>2 DEF SpanInv, SpanNumbers
  <2>2. <<new, t>>[1] = new
    OBVIOUS
  <2> QED  BY <1>0, <2>1, <2>2 DEF SpanInv, OneSpanOnce
<1>6. Window'
  BY <1>0 DEF SpanInv, Window, Gone
<1> QED  BY <1>3, <1>4, <1>5, <1>6 DEF SpanInv

\* A span that is being ended is no longer active.
LEMMA EndSpanKeeps ==
    ASSUME SpanInv, NEW t \in Threads, EndSpan(t)
    PROVE  SpanInv'
<1>0. PICK span \in active :
         /\ pc[t] = "idle" /\ active' = active \ {span}
         /\ ending' = [ending EXCEPT ![t] = span[1]]
         /\ pc' = [pc EXCEPT ![t] = "spanPush"]
         /\ UNCHANGED <<nextSpan, completed, pushed, taken, lost, delivery>>
  BY DEF EndSpan, Goto
<1>1. span[1] \in 1..nextSpan /\ span[1] \in Nat /\ span[1] # 0 /\ span[1] <= nextSpan
  BY DEF SpanInv, SpanTypes, SpanNumbers
<1>2. ending \in [Threads -> Nat] /\ pc \in [Threads -> Steps]
  BY DEF SpanInv, SpanTypes
<1>3. /\ ending'[t] = span[1] /\ \A u \in Threads \ {t} : ending'[u] = ending[u]
      /\ pc'[t] = "spanPush" /\ \A u \in Threads \ {t} : pc'[u] = pc[u]
  BY <1>0, <1>2
<1>4. SpanTypes'
  BY <1>0, <1>1 DEF SpanInv, SpanTypes, Steps
<1>5. SpanNumbers'
  BY <1>0, <1>1, <1>3 DEF SpanInv, SpanNumbers
<1>6. OneSpanOnce'
  <2>1. /\ \A u \in Threads : ending[u] # span[1]
        /\ \A i \in 1..Len(pushed) : pushed[i] # span[1]
        /\ \A a \in active : a # span => a[1] # span[1]
    BY DEF SpanInv, OneSpanOnce
  <2>2. \A u, v \in Threads : ending'[u] # 0 /\ ending'[u] = ending'[v] => u = v
    BY <1>3, <2>1 DEF SpanInv, OneSpanOnce
  <2>3. \A a \in active', u \in Threads : ending'[u] # a[1]
    BY <1>0, <1>3, <2>1 DEF SpanInv, OneSpanOnce
  <2>4. \A i \in 1..Len(pushed) : \A u \in Threads : ending'[u] # pushed[i]
    BY <1>3, <2>1 DEF SpanInv, OneSpanOnce
  <2> QED  BY <1>0, <2>2, <2>3, <2>4 DEF SpanInv, OneSpanOnce
<1>7. Window'
  BY <1>0 DEF SpanInv, Window, Gone
<1> QED  BY <1>4, <1>5, <1>6, <1>7 DEF SpanInv

\* The elements of a longer and of a shorter sequence.
LEMMA AppendAt ==
    ASSUME NEW q \in Seq(Nat), NEW e \in Nat
    PROVE  /\ Append(q, e) \in Seq(Nat) /\ Len(Append(q, e)) = Len(q) + 1
           /\ \A i \in 1..Len(q) : Append(q, e)[i] = q[i]
           /\ Append(q, e)[Len(q) + 1] = e
OBVIOUS

LEMMA TailAt ==
    ASSUME NEW q \in Seq(Nat), q # <<>>
    PROVE  /\ Tail(q) \in Seq(Nat) /\ Len(Tail(q)) = Len(q) - 1 /\ Len(q) \in Nat \ {0}
           /\ \A i \in 1..Len(q) - 1 : Tail(q)[i] = q[i + 1]
OBVIOUS

\* No span occurs twice in the window, and none of it has left the window.
LEMMA WindowApart ==
    ASSUME SpanInv
    PROVE  /\ \A j, k \in 1..Len(completed) : completed[j] = completed[k] => j = k
           /\ \A k \in 1..Len(completed) : completed[k] \notin taken \cup lost
           /\ IsFiniteSet(lost) /\ IsFiniteSet(taken)
           /\ Gone \in Nat /\ Len(completed) \in Nat /\ Len(pushed) = Gone + Len(completed)
           /\ completed \in Seq(Nat) /\ pushed \in Seq(Nat)
<1>0. /\ completed \in Seq(Nat) /\ pushed \in Seq(Nat) /\ Gone \in Nat
      /\ Len(completed) \in Nat /\ Len(pushed) = Gone + Len(completed)
  BY DEF SpanInv, SpanTypes, Window, Gone
<1>1. \A k \in 1..Len(completed) : completed[k] = pushed[Gone + k] /\ Gone + k \in 1..Len(pushed)
  BY <1>0 DEF SpanInv, Window
<1>2. \A i, j \in 1..Len(pushed) : pushed[i] = pushed[j] => i = j
  BY DEF SpanInv, OneSpanOnce
<1>3. ASSUME NEW j \in 1..Len(completed), NEW k \in 1..Len(completed),
             completed[j] = completed[k]
      PROVE  j = k
  <2>1. Gone + j = Gone + k
    BY <1>1, <1>2, <1>3
  <2> QED  BY <1>0, <2>1
<1>4. ASSUME NEW k \in 1..Len(completed), completed[k] \in taken \cup lost
      PROVE  FALSE
  <2>1. PICK i \in 1..Gone : completed[k] = pushed[i]
    BY <1>4 DEF SpanInv, Window
  <2>2. i \in 1..Len(pushed)
    BY <1>0
  <2>3. i = Gone + k
    BY <1>1, <1>2, <2>1, <2>2
  <2> QED  BY <1>0, <2>3
<1>5. IsFiniteSet(1..nextSpan)
  BY FS_Interval DEF SpanInv, SpanTypes
<1>6. ASSUME NEW n \in taken \cup lost PROVE n \in 1..nextSpan
  <2>1. PICK i \in 1..Gone : n = pushed[i]
    BY DEF SpanInv, Window
  <2>2. i \in 1..Len(pushed)
    BY <1>0
  <2> QED  BY <2>1, <2>2 DEF SpanInv, SpanNumbers
<1>7. lost \in SUBSET (1..nextSpan) /\ taken \in SUBSET (1..nextSpan)
  BY <1>6
<1>8. IsFiniteSet(lost) /\ IsFiniteSet(taken)
  BY <1>5, <1>7, FS_Subset
<1> QED  BY <1>0, <1>3, <1>4, <1>8

\* A full window loses its oldest span, which is counted.
LEMMA PushSpanWindow ==
    ASSUME SpanInv, NEW t \in Threads, PushSpan(t)
    PROVE  Window' /\ completed' \in Seq(Nat) /\ lost' \subseteq Nat /\ delivery' \in DeliveryRecord
<1> DEFINE e == ending[t]
           m == Len(completed)
           n == Len(pushed)
<1>0. /\ completed \in Seq(Nat) /\ pushed \in Seq(Nat) /\ e \in Nat
      /\ m \in Nat /\ n \in Nat /\ Gone \in Nat /\ n = Gone + m /\ m <= Retention
      /\ delivery \in DeliveryRecord /\ lost \subseteq Nat /\ UNCHANGED taken
      /\ IsFiniteSet(lost) /\ Cardinality(lost) \in Nat
      /\ delivery.spansDropped = Cardinality(lost) /\ taken \cap lost = {}
  BY SMTT(30), WindowApart, FS_CardinalityType DEF PushSpan, SpanInv, SpanTypes, Window
<1>1. /\ Len(pushed') = n + 1 /\ pushed'[n + 1] = e
      /\ \A i \in 1..n : pushed'[i] = pushed[i]
  BY <1>0, AppendAt DEF PushSpan
<1>2. /\ \A k \in 1..m : completed[k] = pushed[Gone + k]
      /\ \A i \in 1..Gone : pushed[i] \in taken \cup lost
      /\ \A x \in taken \cup lost : \E i \in 1..Gone : x = pushed[i]
  BY DEF SpanInv, Window
<1>3. CASE m = Retention
  <2> DEFINE h == completed[1]
  <2>0. m # 0 /\ completed # <<>>
    BY <1>0, <1>3, NumberAssumption
  <2>1. /\ Tail(completed) \in Seq(Nat) /\ Len(Tail(completed)) = m - 1
        /\ \A i \in 1..m - 1 : Tail(completed)[i] = completed[i + 1]
    BY <1>0, <2>0, TailAt
  <2>2. completed' = Append(Tail(completed), e)
    BY <1>3 DEF PushSpan, Room
  <2>3. /\ completed' \in Seq(Nat) /\ Len(completed') = m /\ completed'[m] = e
        /\ \A i \in 1..m - 1 : completed'[i] = completed[i + 1]
    <3>1. /\ Len(completed') = (m - 1) + 1 /\ completed'[(m - 1) + 1] = e
          /\ completed' \in Seq(Nat)
          /\ \A i \in 1..m - 1 : completed'[i] = Tail(completed)[i]
      BY <1>0, <2>1, <2>2, AppendAt
    <3> QED  BY <1>0, <2>1, <3>1
  <2>4. lost' = lost \cup {h}
    <3>1. lost' = lost \cup (Elements(completed) \ Elements(Tail(completed)))
      BY <1>3 DEF PushSpan, Room
    <3>2. h \in Elements(completed)
      BY <1>0, <2>0 DEF Elements
    <3>3. h \notin Elements(Tail(completed))
      <4>1. ASSUME NEW i \in 1..m - 1 PROVE Tail(completed)[i] # h
        <5>1. i + 1 \in 1..m /\ 1 \in 1..m /\ i + 1 # 1
          BY <1>0
        <5> QED  BY <2>1, <5>1, WindowApart
      <4> QED  BY <2>1, <4>1 DEF Elements
    <3>4. ASSUME NEW i \in 1..m, i # 1 PROVE completed[i] \in Elements(Tail(completed))
      <4>1. i - 1 \in 1..m - 1 /\ (i - 1) + 1 = i
        BY <1>0, <3>4
      <4> QED  BY <2>1, <4>1 DEF Elements
    <3>5. Elements(completed) \ Elements(Tail(completed)) = {h}
      BY <3>2, <3>3, <3>4 DEF Elements
    <3> QED  BY <3>1, <3>5
  <2>5. h \notin lost /\ h \notin taken /\ h = pushed[Gone + 1] /\ h \in Nat
    BY SMTT(30), <1>0, <1>2, <2>0, WindowApart
  <2>6. Cardinality(lost') = Cardinality(lost) + 1
    BY <1>0, <2>4, <2>5, FS_AddElement
  <2>7. delivery' \in DeliveryRecord /\ delivery'.spansDropped = delivery.spansDropped + 1
    <3>1. delivery' = [delivery EXCEPT !.spansDropped = @ + 1]
      BY <1>3 DEF PushSpan
    <3>2. delivery \in [panics : Nat, reentrant : Nat, spansDropped : Nat]
      BY <1>0 DEF DeliveryRecord
    <3>3. delivery.spansDropped + 1 \in Nat
      BY <3>2
    <3> QED  BY <3>1, <3>2, <3>3 DEF DeliveryRecord
  <2>8. Gone' = Gone + 1
    BY <1>0, <1>1, <2>3 DEF Gone
  <2> HIDE DEF h, e, m, n
  <2>9. ASSUME NEW k \in 1..Len(completed') PROVE completed'[k] = pushed'[Gone' + k]
    <3>1. CASE k = m
      BY <1>0, <1>1, <2>3, <2>8, <3>1
    <3>2. CASE k # m
      <4>1. k \in 1..m - 1 /\ k + 1 \in 1..m /\ Gone' + k \in 1..n /\ Gone' + k = Gone + (k + 1)
        BY <1>0, <2>3, <2>8, <3>2
      <4> QED  BY ZenonT(60), <1>1, <1>2, <2>3, <4>1
    <3> QED  BY <3>1, <3>2
  <2>10. \A i \in 1..Gone' : pushed'[i] \in taken' \cup lost'
    <3>1. \A i \in 1..Gone' : i \in 1..n /\ (i \in 1..Gone \/ i = Gone + 1)
      BY <1>0, <2>0, <2>8 DEF m
    <3> QED  BY <1>0, <1>1, <1>2, <2>4, <2>5, <3>1
  <2>11. \A x \in taken' \cup lost' : \E i \in 1..Gone' : x = pushed'[i]
    <3>1. 1..Gone \subseteq 1..Gone' /\ Gone + 1 \in 1..Gone' /\ 1..Gone' \subseteq 1..n
      BY <1>0, <2>0, <2>8 DEF m
    <3>2. ASSUME NEW x \in taken \cup lost PROVE \E i \in 1..Gone' : x = pushed'[i]
      <4>1. PICK i \in 1..Gone : x = pushed[i]
        BY <1>2
      <4> QED  BY <1>1, <3>1, <4>1
    <3>3. \E i \in 1..Gone' : h = pushed'[i]
      BY <1>1, <2>5, <3>1
    <3>4. taken' \cup lost' = (taken \cup lost) \cup {h}
      BY <1>0, <2>4
    <3> QED  BY <3>2, <3>3, <3>4
  <2>12. taken' \cap lost' = {} /\ lost' \subseteq Nat
    BY <1>0, <2>4, <2>5
  <2>13. Len(completed') <= Retention /\ Gone' \in Nat
    BY <1>0, <2>3, <2>8
  <2>14. delivery'.spansDropped = Cardinality(lost')
    BY <1>0, <2>6, <2>7
  <2> QED  BY <2>3, <2>7, <2>9, <2>10, <2>11, <2>12, <2>13, <2>14 DEF Window
<1>4. CASE m # Retention
  <2>1. completed' = Append(completed, e) /\ lost' = lost \cup (Elements(completed) \ Elements(completed))
    BY <1>4 DEF PushSpan
  <2>2. /\ completed' \in Seq(Nat) /\ Len(completed') = m + 1 /\ completed'[m + 1] = e
        /\ \A i \in 1..m : completed'[i] = completed[i]
    BY <1>0, <2>1, AppendAt
  <2>3. lost' = lost
    BY <2>1
  <2>4. delivery' \in DeliveryRecord /\ delivery'.spansDropped = delivery.spansDropped
    <3>1. delivery' = [delivery EXCEPT !.spansDropped = @ + 0]
      BY <1>4 DEF PushSpan
    <3> QED  BY <1>0, <3>1 DEF DeliveryRecord
  <2>5. Gone' = Gone /\ m + 1 <= Retention /\ 1..Gone \subseteq 1..n
    BY <1>0, <1>1, <1>4, <2>2, NumberAssumption DEF Gone
  <2> HIDE DEF e, m, n
  <2>6. ASSUME NEW k \in 1..Len(completed') PROVE completed'[k] = pushed'[Gone' + k]
    <3>1. CASE k = m + 1
      BY <1>0, <1>1, <2>2, <2>5, <3>1
    <3>2. CASE k # m + 1
      <4>1. k \in 1..m /\ Gone + k \in 1..n
        BY <1>0, <2>2, <3>2
      <4> QED  BY <1>1, <1>2, <2>2, <2>5, <4>1
    <3> QED  BY <3>1, <3>2
  <2>7. /\ \A i \in 1..Gone' : pushed'[i] \in taken' \cup lost'
        /\ \A x \in taken' \cup lost' : \E i \in 1..Gone' : x = pushed'[i]
    <3>1. taken' \cup lost' = taken \cup lost
      BY <1>0, <2>3
    <3>2. \A i \in 1..Gone : pushed'[i] = pushed[i]
      BY <1>1, <2>5
    <3> QED  BY <1>2, <2>5, <3>1, <3>2
  <2> QED  BY <1>0, <2>2, <2>3, <2>4, <2>5, <2>6, <2>7 DEF Window
<1> QED  BY <1>3, <1>4

\* What was at hand is pushed.
LEMMA PushSpanKeeps ==
    ASSUME SpanInv, NEW t \in Threads, PushSpan(t)
    PROVE  SpanInv'
<1> DEFINE e == ending[t]
           n == Len(pushed)
<1>0. /\ pushed \in Seq(Nat) /\ n \in Nat /\ ending \in [Threads -> Nat]
      /\ pc \in [Threads -> Steps] /\ nextSpan \in Nat
  BY DEF SpanInv, SpanTypes
<1>1. /\ pushed' = Append(pushed, e) /\ pc[t] = "spanPush" /\ UNCHANGED <<nextSpan, active, taken>>
      /\ pc' = [pc EXCEPT ![t] = "idle"] /\ ending' = [ending EXCEPT ![t] = 0]
  BY DEF PushSpan, Goto
<1>2. e \in 1..nextSpan /\ e \in Nat /\ e # 0
  BY <1>0, <1>1 DEF SpanInv, SpanNumbers
<1>3. /\ pushed' \in Seq(Nat) /\ Len(pushed') = n + 1 /\ pushed'[n + 1] = e
      /\ \A i \in 1..n : pushed'[i] = pushed[i]
  BY <1>0, <1>1, <1>2, AppendAt
<1>4. /\ ending'[t] = 0 /\ \A u \in Threads \ {t} : ending'[u] = ending[u]
      /\ pc'[t] = "idle" /\ \A u \in Threads \ {t} : pc'[u] = pc[u]
  BY <1>0, <1>1
<1>5. \A i \in 1..n + 1 : i = n + 1 \/ i \in 1..n
  BY <1>0
<1>6. SpanTypes'
  BY <1>1, <1>3, PushSpanWindow DEF SpanInv, SpanTypes, Steps
<1> HIDE DEF e, n
<1>7. SpanNumbers'
  <2>1. \A i \in 1..n : pushed[i] \in 1..nextSpan
    BY DEF SpanInv, SpanNumbers, n
  <2>2. \A i \in 1..Len(pushed') : pushed'[i] \in 1..nextSpan'
    BY <1>1, <1>2, <1>3, <1>5, <2>1
  <2>3. \A u \in Threads : ending'[u] <= nextSpan' /\ (pc'[u] = "spanPush" <=> ending'[u] # 0)
    BY <1>0, <1>1, <1>4 DEF SpanInv, SpanNumbers
  <2> QED  BY <1>1, <2>2, <2>3 DEF SpanInv, SpanNumbers
<1>8. OneSpanOnce'
  <2>1. /\ \A a \in active : a[1] # e
        /\ \A u \in Threads \ {t} : ending[u] # e
        /\ \A i \in 1..n : pushed[i] # e
    BY <1>2 DEF SpanInv, OneSpanOnce, e, n
  <2>2. \A u, v \in Threads : ending'[u] # 0 /\ ending'[u] = ending'[v] => u = v
    BY <1>4 DEF SpanInv, OneSpanOnce
  <2>3. \A a \in active', u \in Threads : ending'[u] # a[1]
    <3>1. \A a \in active : a[1] # 0
      BY <1>0 DEF SpanInv, SpanNumbers
    <3> QED  BY <1>1, <1>4, <3>1 DEF SpanInv, OneSpanOnce
  <2>4. ASSUME NEW i \in 1..n + 1
        PROVE  /\ \A a \in active : a[1] # pushed'[i]
               /\ \A u \in Threads : ending'[u] # pushed'[i]
    <3>1. CASE i = n + 1
      BY <1>2, <1>3, <1>4, <2>1, <3>1
    <3>2. CASE i \in 1..n
      <4>1. pushed[i] # 0
        BY <1>0, <3>2 DEF SpanInv, SpanNumbers, n
      <4> QED  BY <1>3, <1>4, <3>2, <4>1 DEF SpanInv, OneSpanOnce, n
    <3> QED  BY <1>5, <3>1, <3>2
  <2>5. ASSUME NEW i \in 1..n + 1, NEW j \in 1..n + 1, pushed'[i] = pushed'[j]
        PROVE  i = j
    <3>1. CASE i \in 1..n /\ j \in 1..n
      BY <1>3, <2>5, <3>1 DEF SpanInv, OneSpanOnce, n
    <3>2. CASE i = n + 1 /\ j \in 1..n
      BY <1>3, <2>1, <2>5, <3>2
    <3>3. CASE i \in 1..n /\ j = n + 1
      BY <1>3, <2>1, <2>5, <3>3
    <3> QED  BY <1>5, <3>1, <3>2, <3>3
  <2> QED  BY <1>1, <1>3, <2>2, <2>3, <2>4, <2>5 DEF SpanInv, OneSpanOnce
<1> QED  BY <1>6, <1>7, <1>8, PushSpanWindow DEF SpanInv

\* The window is taken as a whole.
LEMMA TakeSpansKeeps ==
    ASSUME SpanInv, NEW t \in Threads, TakeCompletedSpans(t)
    PROVE  SpanInv'
<1> DEFINE m == Len(completed)
<1>0. /\ taken' = taken \cup Elements(completed) /\ completed' = <<>>
      /\ UNCHANGED <<delivery, nextSpan, active, ending, pushed, lost, pc>>
  BY DEF TakeCompletedSpans
<1>1. /\ completed \in Seq(Nat) /\ pushed \in Seq(Nat) /\ m \in Nat /\ Gone \in Nat
      /\ Len(pushed) = Gone + m
  BY WindowApart
<1>2. SpanTypes'
  <2>1. Elements(completed) \subseteq Nat
    BY SMTT(30), <1>1 DEF Elements
  <2>2. taken' \subseteq Nat
    <3>1. taken \subseteq Nat
      BY DEF SpanInv, SpanTypes
    <3> QED  BY <1>0, <2>1, <3>1
  <2>3. completed' \in Seq(Nat)
    <3>1. <<>> \in Seq(Nat)
      OBVIOUS
    <3> QED  BY <1>0, <3>1
  <2> QED  BY <1>0, <2>2, <2>3 DEF SpanInv, SpanTypes
<1>3. SpanNumbers' /\ OneSpanOnce'
  BY <1>0 DEF SpanInv, SpanNumbers, OneSpanOnce
<1>4. Window'
  <2>1. Len(completed') = 0 /\ Gone' = Gone + m
    BY <1>0, <1>1 DEF Gone
  <2>2. /\ \A k \in 1..m : completed[k] = pushed[Gone + k]
        /\ \A i \in 1..Gone : pushed[i] \in taken \cup lost
        /\ \A n \in taken \cup lost : \E i \in 1..Gone : n = pushed[i]
        /\ taken \cap lost = {} /\ delivery.spansDropped = Cardinality(lost)
    BY DEF SpanInv, Window
  <2>3. ASSUME NEW i \in 1..Gone + m PROVE pushed[i] \in taken' \cup lost
    <3>1. CASE i <= Gone
      BY <1>0, <1>1, <2>2, <3>1
    <3>2. CASE i > Gone
      <4>1. i - Gone \in 1..m /\ Gone + (i - Gone) = i
        BY <1>1, <3>2
      <4>2. pushed[i] = completed[i - Gone]
        BY <2>2, <4>1
      <4>3. completed[i - Gone] \in Elements(completed)
        BY <4>1 DEF Elements
      <4> QED  BY <1>0, <4>2, <4>3
    <3> QED  BY <1>1, <3>1, <3>2
  <2>4. ASSUME NEW n \in taken' \cup lost PROVE \E i \in 1..Gone + m : n = pushed[i]
    <3>1. CASE n \in taken \cup lost
      <4>1. 1..Gone \subseteq 1..Gone + m
        BY <1>1
      <4> QED  BY <2>2, <3>1, <4>1
    <3>2. CASE n \in Elements(completed)
      <4>1. PICK k \in 1..m : n = completed[k]
        BY <3>2 DEF Elements
      <4>2. Gone + k \in 1..Gone + m /\ n = pushed[Gone + k]
        BY <1>1, <2>2, <4>1
      <4> QED  BY <4>2
    <3> QED  BY <1>0, <3>1, <3>2
  <2>5. taken' \cap lost = {}
    BY SMTT(30), <1>0, <2>2, WindowApart DEF Elements
  <2> HIDE DEF m
  <2>6. \A k \in 1..Len(completed') : completed'[k] = pushed'[Gone' + k]
    BY <2>1
  <2>7. Gone' \in Nat /\ Len(completed') <= Retention
    BY <1>1, <2>1, NumberAssumption
  <2> QED  BY <1>0, <2>1, <2>2, <2>3, <2>4, <2>5, <2>6, <2>7 DEF Window
<1> QED  BY <1>2, <1>3, <1>4 DEF SpanInv

LEMMA InitSpans == Init => SpanInv
<1> SUFFICES ASSUME Init PROVE SpanInv
  OBVIOUS
<1>1. SpanTypes
  BY DEF Init, SpanTypes, DeliveryRecord, Steps
<1>2. SpanNumbers /\ OneSpanOnce
  BY DEF Init, SpanNumbers, OneSpanOnce
<1>3. Window
  BY NumberAssumption, FS_EmptySet DEF Init, Window, Gone
<1> QED  BY <1>1, <1>2, <1>3 DEF SpanInv

LEMMA NextSpans == SpanInv /\ [Next]_vars => SpanInv'
<1> SUFFICES ASSUME SpanInv, [Next]_vars PROVE SpanInv'
  OBVIOUS
<1>1. ASSUME NEW t \in Threads, SpanStep(t) PROVE SpanInv'
  BY <1>1, StartSpanKeeps, EndSpanKeeps, PushSpanKeeps, TakeSpansKeeps DEF SpanStep
<1>2. CASE UNCHANGED vars
  BY <1>2, SpansUndisturbed DEF vars, SpanInv, SpanTypes
<1> QED
  BY <1>1, <1>2, AwayFromSpans DEF Next

\* There are as many spans in the window, and out of it, as were pushed.
LEMMA SpansAreCounted ==
    ASSUME SpanInv
    PROVE  Cardinality(Elements(completed)) + Cardinality(taken) + Cardinality(lost)
             = Len(pushed)
<1>0. /\ \A j, k \in 1..Len(completed) : completed[j] = completed[k] => j = k
      /\ IsFiniteSet(lost) /\ IsFiniteSet(taken) /\ Gone \in Nat /\ Len(completed) \in Nat
      /\ Len(pushed) = Gone + Len(completed)
  BY WindowApart
<1>1. ASSUME NEW n \in Nat, NEW T, NEW g,
             \A i \in 1..n : g[i] \in T,
             \A x \in T : \E i \in 1..n : x = g[i],
             \A i, j \in 1..n : g[i] = g[j] => i = j
      PROVE  Cardinality(T) = n
  <2> DEFINE f == [i \in 1..n |-> g[i]]
  <2>1. f \in [1..n -> T] /\ \A i \in 1..n : f[i] = g[i]
    BY <1>1
  <2> HIDE DEF f
  <2>2. f \in Bijection(1..n, T)
    BY ZenonT(60), <1>1, <2>1 DEF Bijection, Injection, IsInjective, Surjection
  <2>3. ExistsBijection(1..n, T)
    BY <2>2 DEF ExistsBijection
  <2>4. IsFiniteSet(1..n) /\ Cardinality(1..n) = n
    BY FS_Interval
  <2> QED  BY <2>3, <2>4, FS_Bijection
<1>2. Cardinality(Elements(completed)) = Len(completed)
  BY ZenonT(60), <1>0, <1>1 DEF Elements
<1>3. Cardinality(taken \cup lost) = Gone
  <2>1. \A i, j \in 1..Gone : pushed[i] = pushed[j] => i = j
    <3>1. 1..Gone \subseteq 1..Len(pushed)
      BY <1>0
    <3> QED  BY <3>1 DEF SpanInv, OneSpanOnce
  <2>2. /\ \A i \in 1..Gone : pushed[i] \in taken \cup lost
        /\ \A x \in taken \cup lost : \E i \in 1..Gone : x = pushed[i]
    BY DEF SpanInv, Window
  <2> DEFINE n == Gone
             T == taken \cup lost
  <2>3. /\ n \in Nat /\ \A i \in 1..n : pushed[i] \in T
        /\ \A x \in T : \E i \in 1..n : x = pushed[i]
        /\ \A i, j \in 1..n : pushed[i] = pushed[j] => i = j
    BY <1>0, <2>1, <2>2
  <2> HIDE DEF n, T
  <2>4. Cardinality(T) = n
    BY <1>1, <2>3
  <2> QED  BY <2>4 DEF n, T
<1>4. Cardinality(taken \cup lost) = Cardinality(taken) + Cardinality(lost)
                                       - Cardinality(taken \cap lost)
  BY <1>0, FS_Union
<1>5. Cardinality(taken \cap lost) = 0
  BY FS_EmptySet DEF SpanInv, Window
<1>6. Cardinality(taken) \in Nat /\ Cardinality(lost) \in Nat
  BY <1>0, FS_CardinalityType
<1> QED  BY <1>0, <1>2, <1>3, <1>4, <1>5, <1>6

\* Completed spans are the last to have ended of those not taken, at most as
\* many as the retention allows, and spans_dropped counts exactly the others.
THEOREM NewestSpansAreKept == Spec => []NewestSpansKept
<1>1. ASSUME SpanInv PROVE NewestSpansKept
  <2>0. /\ Gone \in Nat /\ Len(completed) \in Nat /\ Len(pushed) = Gone + Len(completed)
    BY <1>1, WindowApart
  <2>1. /\ Len(completed) <= Retention /\ delivery.spansDropped = Cardinality(lost)
        /\ \A k \in 1..Len(completed) : completed[k] = pushed[Gone + k]
        /\ \A i \in 1..Gone : pushed[i] \in taken \cup lost
        /\ \A n \in taken \cup lost : \E i \in 1..Gone : n = pushed[i]
    BY <1>1 DEF SpanInv, Window
  <2>2. ASSUME NEW i \in 1..Len(pushed), i > Gone PROVE pushed[i] \in Elements(completed)
    <3>1. i - Gone \in 1..Len(completed) /\ Gone + (i - Gone) = i
      BY <2>0, <2>2
    <3>2. pushed[i] = completed[i - Gone]
      BY <2>1, <3>1
    <3> QED  BY <3>1, <3>2 DEF Elements
  <2>3. \A i \in 1..Len(pushed) : i > Gone \/ i \in 1..Gone
    BY <2>0
  <2>4. 1..Gone \subseteq 1..Len(pushed)
        /\ \A k \in 1..Len(completed) : Gone + k \in 1..Len(pushed)
    BY <2>0
  <2>5. Elements(pushed) = Elements(completed) \cup taken \cup lost
    <3>1. \A n \in Elements(pushed) : n \in Elements(completed) \cup taken \cup lost
      BY <2>1, <2>2, <2>3 DEF Elements
    <3>2. \A n \in Elements(completed) : n \in Elements(pushed)
      BY <2>1, <2>4 DEF Elements
    <3>3. \A n \in taken \cup lost : n \in Elements(pushed)
      BY <2>1, <2>4 DEF Elements
    <3> QED  BY <3>1, <3>2, <3>3
  <2>6. ASSUME NEW i \in 1..Len(pushed), NEW j \in 1..Len(pushed), i < j, pushed[j] \in lost
        PROVE  pushed[i] \in taken \cup lost
    <3>1. PICK k \in 1..Gone : pushed[j] = pushed[k]
      BY <2>1, <2>6
    <3>2. k = j
      BY <1>1, <2>4, <3>1 DEF SpanInv, OneSpanOnce
    <3>3. i \in 1..Gone
      BY <2>0, <2>6, <3>2
    <3> QED  BY <2>1, <3>3
  <2> QED  BY <1>1, <2>1, <2>5, <2>6, SpansAreCounted DEF NewestSpansKept
<1> QED  BY <1>1, InitSpans, NextSpans, PTL DEF Spec

-----------------------------------------------------------------------------
(* The views of an event *)

\* Induction over the numbers, from the least one that is not in the set.
LEMMA SetInduction ==
    ASSUME NEW T, 0 \in T, \A n \in Nat : n \in T => n + 1 \in T
    PROVE  Nat \subseteq T
<1> SUFFICES ASSUME Nat \ T # {} PROVE FALSE
  OBVIOUS
<1>1. IsWellFoundedOn(OpToRel(<, Nat), Nat)
  BY NatLessThanWellFounded
<1>2. PICK x \in Nat \ T : \A y \in Nat \ T : ~ (<<y, x>> \in OpToRel(<, Nat))
  BY <1>1, WFMin
<1>3. \A y \in Nat \ T : ~(y < x)
  BY <1>2 DEF OpToRel
<1>4. x # 0 /\ x - 1 \in Nat /\ x - 1 < x /\ (x - 1) + 1 = x
  OBVIOUS
<1> QED  BY <1>3, <1>4

Distinct(q) == \A i, j \in 1..Len(q) : q[i] = q[j] => i = j

\* The values g of a recursion over the positions of a sequence.
Follows(g, N, first, step) == g[0] = first /\ \A n \in 1..N : g[n] = step[n][g[n - 1]]

\* Such a recursion has a value at each position.
LEMMA RecursionExists ==
    ASSUME NEW N \in Nat, NEW Values, NEW first \in Values,
           NEW step \in [1..N -> [Values -> Values]]
    PROVE  \E g \in [0..N -> Values] : Follows(g, N, first, step)
<1> DEFINE Up(m, g) == /\ g \in [0..m -> Values] /\ g[0] = first
                       /\ \A n \in 1..m : g[n] = step[n][g[n - 1]]
           T == {m \in Nat : m <= N => \E g : Up(m, g)}
<1>1. 0 \in T
  <2>1. Up(0, [n \in 0..0 |-> first])
    OBVIOUS
  <2> QED  BY <2>1
<1>2. ASSUME NEW m \in Nat, m \in T, m + 1 <= N
      PROVE  \E g : Up(m + 1, g)
  <2>1. PICK g : Up(m, g)
    BY <1>2
  <2> DEFINE h == [n \in 0..m + 1 |-> IF n = m + 1 THEN step[m + 1][g[m]] ELSE g[n]]
  <2>2. m \in 0..m /\ m + 1 \in 1..N /\ g[m] \in Values
    BY <1>2, <2>1
  <2>3. h \in [0..m + 1 -> Values]
    BY <2>1, <2>2
  <2>4. h[0] = first /\ h[m + 1] = step[m + 1][h[m]]
    BY <2>1, <2>2
  <2>5. ASSUME NEW n \in 1..m PROVE h[n] = step[n][h[n - 1]]
    BY <2>1, <2>5
  <2>6. (m + 1) - 1 = m /\ \A n \in 1..m + 1 : n = m + 1 \/ n \in 1..m
    BY <1>2
  <2> HIDE DEF h
  <2>7. \A n \in 1..m + 1 : h[n] = step[n][h[n - 1]]
    BY <2>4, <2>5, <2>6
  <2> QED  BY <2>3, <2>4, <2>7
<1>3. \A m \in Nat : m \in T => m + 1 \in T
  <2> HIDE DEF Up
  <2> QED  BY <1>2
<1>4. Nat \subseteq T
  <2> HIDE DEF T
  <2> QED  BY <1>1, <1>3, SetInduction
<1>5. PICK g : Up(N, g)
  <2> HIDE DEF Up
  <2> QED  BY <1>4
<1> QED  BY <1>5 DEF Follows

\* Appending adds one element, and keeps distinct elements distinct.
LEMMA AppendElements ==
    ASSUME NEW q \in Seq(Sinks), NEW s \in Sinks
    PROVE  /\ Append(q, s) \in Seq(Sinks)
           /\ Elements(Append(q, s)) = Elements(q) \cup {s}
           /\ Distinct(q) /\ s \notin Elements(q) => Distinct(Append(q, s))
<1>1. /\ Append(q, s) \in Seq(Sinks) /\ Len(Append(q, s)) = Len(q) + 1
      /\ \A i \in 1..Len(q) : Append(q, s)[i] = q[i]
      /\ Append(q, s)[Len(q) + 1] = s
      /\ Len(q) \in Nat
  OBVIOUS
<1>2. /\ \A i \in 1..Len(q) + 1 : i = Len(q) + 1 \/ i \in 1..Len(q)
      /\ 1..Len(q) \subseteq 1..Len(q) + 1 /\ Len(q) + 1 \in 1..Len(q) + 1
  BY <1>1
<1>3. Elements(Append(q, s)) = Elements(q) \cup {s}
  BY <1>1, <1>2 DEF Elements
<1>4. Distinct(q) /\ s \notin Elements(q) => Distinct(Append(q, s))
  BY <1>1, <1>2 DEF Elements, Distinct
<1> QED  BY <1>1, <1>3, <1>4

\* The tail of a sequence of distinct elements lacks its head.
LEMMA TailElements ==
    ASSUME NEW q \in Seq(Sinks), q # <<>>
    PROVE  /\ Head(q) \in Sinks /\ Tail(q) \in Seq(Sinks)
           /\ Elements(q) = {Head(q)} \cup Elements(Tail(q))
           /\ Distinct(q) => Head(q) \notin Elements(Tail(q)) /\ Distinct(Tail(q))
<1>1. /\ Head(q) = q[1] /\ Head(q) \in Sinks /\ Tail(q) \in Seq(Sinks)
      /\ Len(q) \in Nat /\ Len(Tail(q)) = Len(q) - 1 /\ 1 \in 1..Len(q)
      /\ \A i \in 1..Len(q) - 1 : Tail(q)[i] = q[i + 1]
  OBVIOUS
<1>2. /\ \A i \in 1..Len(q) - 1 : i + 1 \in 1..Len(q) /\ i + 1 # 1
      /\ \A i \in 1..Len(q) : i # 1 => i - 1 \in 1..Len(q) - 1 /\ (i - 1) + 1 = i
      /\ \A i, j \in 1..Len(q) - 1 : i + 1 = j + 1 => i = j
  BY <1>1
<1>3. Elements(q) = {Head(q)} \cup Elements(Tail(q))
  <2>1. \A x \in Elements(q) : x = Head(q) \/ x \in Elements(Tail(q))
    <3>1. ASSUME NEW i \in 1..Len(q), i # 1 PROVE q[i] \in Elements(Tail(q))
      <4>1. i - 1 \in 1..Len(q) - 1 /\ Tail(q)[i - 1] = q[i]
        BY <1>1, <1>2, <3>1
      <4> QED  BY <1>1, <4>1 DEF Elements
    <3> QED  BY <1>1, <3>1 DEF Elements
  <2>2. \A x \in Elements(Tail(q)) : x \in Elements(q)
    BY <1>1, <1>2 DEF Elements
  <2>3. Head(q) \in Elements(q)
    BY <1>1 DEF Elements
  <2> QED  BY <2>1, <2>2, <2>3
<1>4. ASSUME Distinct(q)
      PROVE  Head(q) \notin Elements(Tail(q)) /\ Distinct(Tail(q))
  BY <1>1, <1>2, <1>4 DEF Elements, Distinct
<1> QED  BY <1>1, <1>3, <1>4

\* The views of an event are the accepting registrations, each once.
LEMMA ViewsFacts ==
    ASSUME sinks \in Seq(Sinks), Distinct(sinks), NEW site
    PROVE  /\ Views(site) \in Seq(Sinks) /\ Distinct(Views(site))
           /\ \A s \in Elements(sinks) : Accepts(s, site) => s \in Elements(Views(site))
<1> DEFINE N == Len(sinks)
           upTo[n \in 0..N] ==
             IF n = 0 THEN <<>>
             ELSE IF Accepts(sinks[n], site) THEN Append(upTo[n - 1], sinks[n])
             ELSE upTo[n - 1]
           step == [n \in 1..N |-> [q \in Seq(Sinks) |->
                      IF Accepts(sinks[n], site) THEN Append(q, sinks[n]) ELSE q]]
           Is(g) == g = [n \in 0..N |-> IF n = 0 THEN <<>> ELSE
                           IF Accepts(sinks[n], site) THEN Append(g[n - 1], sinks[n])
                           ELSE g[n - 1]]
<1>1. N \in Nat /\ (\A n \in 1..N : sinks[n] \in Sinks) /\ <<>> \in Seq(Sinks)
  OBVIOUS
<1>2. Views(site) = upTo[N]
  BY DEF Views
<1>3. upTo = CHOOSE g : Is(g)
  OBVIOUS
<1> HIDE DEF N, upTo
<1>4. \A n \in 1..N : \A q \in Seq(Sinks) :
         /\ step[n][q] = IF Accepts(sinks[n], site) THEN Append(q, sinks[n]) ELSE q
         /\ step[n][q] \in Seq(Sinks)
  BY <1>1
<1>5. step \in [1..N -> [Seq(Sinks) -> Seq(Sinks)]]
  BY <1>4
<1> HIDE DEF step
<1>6. \E g : Is(g)
  <2>1. PICK g \in [0..N -> Seq(Sinks)] :
           g[0] = <<>> /\ \A n \in 1..N : g[n] = step[n][g[n - 1]]
    <3>1. \E g \in [0..N -> Seq(Sinks)] : Follows(g, N, <<>>, step)
      BY <1>1, <1>5, RecursionExists
    <3> QED  BY <3>1 DEF Follows
  <2>2. \A n \in 0..N : n = 0 \/ (n \in 1..N /\ n - 1 \in 0..N /\ n # 0)
    BY <1>1
  <2>3. g = [n \in 0..N |-> g[n]]
    OBVIOUS
  <2>4. \A n \in 0..N : g[n] = IF n = 0 THEN <<>> ELSE
                                 IF Accepts(sinks[n], site) THEN Append(g[n - 1], sinks[n])
                                 ELSE g[n - 1]
    <3>1. ASSUME NEW n \in 1..N, n # 0, n - 1 \in 0..N
          PROVE  g[n] = IF Accepts(sinks[n], site) THEN Append(g[n - 1], sinks[n])
                        ELSE g[n - 1]
      <4>1. g[n - 1] \in Seq(Sinks) /\ g[n] = step[n][g[n - 1]]
        BY <2>1, <3>1
      <4> QED  BY <1>4, <3>1, <4>1
    <3> QED  BY <2>1, <2>2, <3>1
  <2>5. Is(g)
    BY <2>3, <2>4
  <2> QED  BY <2>5
<1>7. Is(upTo)
  <2> HIDE DEF Is
  <2> QED  BY <1>3, <1>6
<1>8. /\ upTo[0] = <<>>
      /\ \A n \in 1..N : upTo[n] = IF Accepts(sinks[n], site) THEN Append(upTo[n - 1], sinks[n])
                                   ELSE upTo[n - 1]
  <2>1. 0 \in 0..N /\ \A n \in 1..N : n \in 0..N /\ n # 0
    BY <1>1
  <2> QED  BY <1>7, <2>1
<1> HIDE DEF Is
<1> DEFINE Good(n) ==
             /\ upTo[n] \in Seq(Sinks) /\ Distinct(upTo[n])
             /\ \A s : s \in Elements(upTo[n]) <=>
                          \E i \in 1..n : s = sinks[i] /\ Accepts(s, site)
           T == {n \in Nat : n <= N => Good(n)}
<1>9. 0 \in T
  <2>1. upTo[0] = <<>> /\ 1..0 = {} /\ Len(<<>>) = 0
    BY <1>8
  <2>2. Distinct(upTo[0]) /\ Elements(upTo[0]) = {}
    BY <2>1 DEF Elements, Distinct
  <2> QED  BY <1>1, <2>1, <2>2
<1>10. ASSUME NEW n \in Nat, Good(n), n + 1 <= N
      PROVE  Good(n + 1)
  <2>1. n + 1 \in 1..N /\ (n + 1) - 1 = n /\ sinks[n + 1] \in Sinks
        /\ (\A i \in 1..n + 1 : i = n + 1 \/ i \in 1..n) /\ 1..n \subseteq 1..n + 1
        /\ n + 1 \in 1..n + 1 /\ \A i \in 1..n : i # n + 1 /\ i \in 1..N
    BY <1>1, <1>10
  <2>2. CASE ~Accepts(sinks[n + 1], site)
    <3>1. upTo[n + 1] = upTo[n]
      BY <1>8, <2>1, <2>2
    <3> QED  BY <1>10, <2>1, <2>2, <3>1
  <2>3. CASE Accepts(sinks[n + 1], site)
    <3>1. upTo[n + 1] = Append(upTo[n], sinks[n + 1])
      BY <1>8, <2>1, <2>3
    <3>2. sinks[n + 1] \notin Elements(upTo[n])
      <4>1. ASSUME NEW i \in 1..n, sinks[n + 1] = sinks[i] PROVE FALSE
        BY <2>1, <4>1 DEF Distinct, N
      <4> QED  BY <1>10, <4>1
    <3>3. upTo[n + 1] \in Seq(Sinks) /\ Distinct(upTo[n + 1])
          /\ Elements(upTo[n + 1]) = Elements(upTo[n]) \cup {sinks[n + 1]}
      BY <1>10, <2>1, <3>1, <3>2, AppendElements
    <3> QED  BY <1>10, <2>1, <2>3, <3>3
  <2> QED  BY <2>2, <2>3
<1>11. \A n \in Nat : n \in T => n + 1 \in T
  <2> HIDE DEF Good
  <2> QED  BY <1>1, <1>10
<1>12. Nat \subseteq T
  <2> HIDE DEF T
  <2> QED  BY <1>9, <1>11, SetInduction
<1>13. Good(N)
  <2> HIDE DEF Good
  <2> QED  BY <1>1, <1>12
<1> QED  BY <1>2, <1>13 DEF Elements, N

-----------------------------------------------------------------------------
(* Every view once *)

\* What the thread's emit has not passed.
Left(t) == fan[t][1].left

\* A registration is made once.
Registered == sinks \in Seq(Sinks) /\ Distinct(sinks) /\ Elements(sinks) \subseteq begun

\* A steady sink is in the registrations until the snapshot, and from there
\* among those called or left, which are apart.
Once(t) ==
    /\ visited[t] \in Seq(Sinks)
    /\ pc[t] = "evaluated" => \A e \in call[t] : \A s \in steady[t] :
          s \in Elements(sinks) /\ Accepts(s, e.site)
    /\ fan[t] # <<>> =>
          /\ Left(t) \in Seq(Sinks) /\ Distinct(Left(t))
          /\ \A s \in steady[t] : s \in Elements(visited[t]) \/ s \in Elements(Left(t))
          /\ pc[t] = "view" => \A s \in Elements(Left(t)) : s \notin Elements(visited[t])
          /\ pc[t] # "view" =>
                /\ Left(t) # <<>> /\ Head(Left(t)) \in Elements(visited[t])
                /\ \A s \in Elements(Tail(Left(t))) : s \notin Elements(visited[t])

OnceInv ==
    /\ visited = [t \in Threads |-> visited[t]]
    /\ Registered /\ \A t \in Threads : Once(t)

\* Another thread's step disturbs none of it.
LEMMA OnceUndisturbed ==
    ASSUME NEW u \in Threads, Once(u), fan'[u] = fan[u], visited'[u] = visited[u],
           pc'[u] = pc[u], call'[u] = call[u], steady'[u] \subseteq steady[u],
           \A s \in steady'[u] : s \in Elements(sinks) => s \in Elements(sinks')
    PROVE  Once(u)'
<1>1. Left(u)' = Left(u) /\ Elements(visited[u])' = Elements(visited[u])
      /\ Elements(Left(u))' = Elements(Left(u))
      /\ Elements(Tail(Left(u)))' = Elements(Tail(Left(u)))
  BY DEF Left, Elements
<1>2. Elements(sinks)' = Elements(sinks')
  BY DEF Elements
<1>3. Distinct(Left(u)) => Distinct(Left(u))'
  BY <1>1 DEF Distinct
<1>4. \A s, site : Accepts(s, site)' = Accepts(s, site)
  BY DEF Accepts
<1>5. pc'[u] = "evaluated" => \A e \in call'[u] : \A s \in steady'[u] :
         s \in Elements(sinks)' /\ Accepts(s, e.site)'
  BY <1>2, <1>4 DEF Once
<1> QED  BY <1>1, <1>3, <1>5 DEF Once

\* Outside of emit and before the next event only the types are left.
LEMMA OnceOutside ==
    ASSUME NEW u \in Threads, fan'[u] = <<>>, pc'[u] # "evaluated", visited'[u] \in Seq(Sinks)
    PROVE  Once(u)'
BY DEF Once

\* A step of one thread.
LEMMA OnceThreadMoves ==
    ASSUME OnceInv, NEW t \in Threads, Registered', Once(t)',
           visited' = [u \in Threads |-> visited'[u]],
           \A u \in Threads \ {t} :
              /\ fan'[u] = fan[u] /\ visited'[u] = visited[u] /\ pc'[u] = pc[u]
              /\ call'[u] = call[u] /\ steady'[u] \subseteq steady[u],
           \A u \in Threads \ {t} : \A s \in steady'[u] :
              s \in Elements(sinks) => s \in Elements(sinks')
    PROVE  OnceInv'
<1>1. ASSUME NEW u \in Threads \ {t} PROVE Once(u)'
  BY OnceUndisturbed DEF OnceInv
<1> QED  BY <1>1 DEF OnceInv

\* A thread in emit that keeps its place.
LEMMA OnceSameFrame ==
    ASSUME NEW t \in Threads, Once(t), fan[t] # <<>>, fan'[t] # <<>>,
           Left(t)' = Left(t), visited'[t] = visited[t], steady'[t] = steady[t],
           pc[t] \in {"called", "store", "release"}, pc'[t] \in {"called", "store", "release"}
    PROVE  Once(t)'
<1>1. /\ Elements(visited[t])' = Elements(visited[t])
      /\ Elements(Left(t))' = Elements(Left(t))
      /\ Elements(Tail(Left(t)))' = Elements(Tail(Left(t)))
      /\ Distinct(Left(t)) => Distinct(Left(t))'
  BY DEF Elements, Distinct
<1> QED  BY <1>1 DEF Once

\* The call's steady sinks are registered.
LEMMA LogStartOnce ==
    ASSUME IInv, OnceInv, NEW t \in Threads, NEW site \in Sites, LogStart(t, site)
    PROVE  OnceInv'
<1>1. UNCHANGED <<sinks, begun, fan, visited>> /\ pc[t] = "idle"
  BY DEF LogStart, configVars
<1>2. Registered' /\ visited' = [u \in Threads |-> visited'[u]]
  BY <1>1 DEF OnceInv, Registered, Distinct, Elements
<1>3. fan[t] = <<>> /\ fan'[t] = <<>> /\ visited'[t] \in Seq(Sinks)
  BY <1>1 DEF IInv, ThreadInv, Placed, InsideSteps, OnceInv, Once
<1>4. CASE UNCHANGED <<call, steady, pc>>
  <2>1. Once(t)'
    BY <1>1, <1>3, <1>4, OnceOutside
  <2> QED  BY <1>1, <1>2, <1>4, <2>1, OnceThreadMoves
<1>5. ASSUME NEW given, call' = [call EXCEPT ![t] = {[site |-> site, given |-> given]}],
             steady' = [steady EXCEPT ![t] = {s \in Announced : Accepts(s, site)}],
             Goto(t, "evaluated")
      PROVE  OnceInv'
  <2>1. /\ call'[t] = {[site |-> site, given |-> given]} /\ pc'[t] = "evaluated"
        /\ steady'[t] = {s \in Announced : Accepts(s, site)}
        /\ \A u \in Threads \ {t} :
              pc'[u] = pc[u] /\ call'[u] = call[u] /\ steady'[u] = steady[u]
    BY <1>5 DEF IInv, Functions, Goto
  <2>2. \A s \in steady'[t] : s \in Elements(sinks') /\ Accepts(s, site)
    BY <1>1, <2>1 DEF Announced
  <2>3. \A e \in call'[t] : e.site = site
    BY <2>1
  <2>4. Once(t)'
    <3>1. \A e \in call'[t] : \A s \in steady'[t] : s \in Elements(sinks)' /\ Accepts(s, e.site)'
      BY <2>2, <2>3 DEF Elements, Accepts
    <3> QED  BY <1>3, <3>1 DEF Once
  <2> QED  BY <1>1, <1>2, <2>1, <2>4, OnceThreadMoves
<1>6. \/ UNCHANGED <<call, steady, pc>>
      \/ \E given : /\ call' = [call EXCEPT ![t] = {[site |-> site, given |-> given]}]
                    /\ steady' = [steady EXCEPT ![t] = {s \in Announced : Accepts(s, site)}]
                    /\ Goto(t, "evaluated")
  BY DEF LogStart
<1> QED  BY <1>4, <1>5, <1>6

\* The snapshot holds every steady sink, and none was called yet.
LEMMA EmitStartOnce ==
    ASSUME IInv, OnceInv, NEW t \in Threads, EmitStart(t)
    PROVE  OnceInv'
<1>1. PICK event \in call[t] : Dispatch(t, event)
  BY DEF EmitStart
<1>2. ThreadInv(t) /\ pc[t] = "evaluated" /\ Once(t)
  BY DEF IInv, OnceInv, EmitStart
<1>3. fan[t] = <<>> /\ ~inDispatch[t]
  BY <1>2 DEF ThreadInv, Placed, InsideSteps
<1> DEFINE frame == [left |-> Views(event.site),
                     site |-> event.site, given |-> event.given, shown |-> {}]
<1>4. fan' = [fan EXCEPT ![t] = Append(@, frame)] /\ pc' = [pc EXCEPT ![t] = "view"]
  BY <1>1, <1>3 DEF Dispatch, Refused, Goto
<1>5. frame.left = Views(event.site)
  OBVIOUS
<1> HIDE DEF frame
<1>6. fan'[t] = <<frame>> /\ \A u \in Threads \ {t} : fan'[u] = fan[u]
  BY <1>3, <1>4 DEF IInv, Functions
<1>7. /\ call' = [call EXCEPT ![t] = {}] /\ UNCHANGED <<steady, sinks, begun>>
      /\ visited' = [visited EXCEPT ![t] = <<>>]
  BY DEF EmitStart, configVars
<1>8. /\ visited'[t] = <<>> /\ pc'[t] = "view" /\ steady'[t] = steady[t]
      /\ \A u \in Threads \ {t} : visited'[u] = visited[u] /\ pc'[u] = pc[u] /\ call'[u] = call[u]
      /\ visited' = [u \in Threads |-> visited'[u]]
  BY <1>4, <1>7 DEF IInv, Functions, OnceInv
<1>9. Registered'
  BY <1>7 DEF OnceInv, Registered, Distinct, Elements
<1>10. /\ Views(event.site) \in Seq(Sinks) /\ Distinct(Views(event.site))
       /\ \A s \in Elements(sinks) : Accepts(s, event.site) => s \in Elements(Views(event.site))
  BY ViewsFacts DEF OnceInv, Registered
<1>11. \A s \in steady[t] : s \in Elements(Views(event.site))
  BY <1>2, <1>10 DEF Once
<1>12. Left(t)' = Views(event.site) /\ fan'[t] # <<>>
  BY <1>5, <1>6 DEF Left
<1> DEFINE left == Views(event.site)
<1> HIDE DEF left
<1>13. Once(t)'
  <2>1. Left(t)' = left /\ left \in Seq(Sinks) /\ Distinct(left)
        /\ \A s \in steady[t] : s \in Elements(left)
    BY <1>10, <1>11, <1>12 DEF left
  <2>2. Elements(Left(t))' = Elements(left) /\ Distinct(Left(t))'
    BY <2>1 DEF Elements, Distinct
  <2>3. visited'[t] \in Seq(Sinks) /\ Elements(visited[t])' = {}
    BY <1>8 DEF Elements
  <2> QED  BY <1>8, <1>12, <2>1, <2>2, <2>3 DEF Once
<1> QED  BY <1>6, <1>7, <1>8, <1>9, <1>13, OnceThreadMoves

\* What the steps inside an emit do to the rest of the snapshot.
LEMMA InsideEffects ==
    ASSUME IInv, NEW t \in Threads
    PROVE  /\ pc[t] \in InsideSteps =>
                 fan[t] # <<>> /\ Top(t).left = Left(t) /\ Current(t) = Head(Left(t))
                   /\ (InView(t) <=> Left(t) # <<>>)
           /\ CallSink(t) \/ SinkPanic(t) => fan'[t] # <<>> /\ Left(t)' = Left(t)
           /\ Release(t) => fan'[t] # <<>> /\ Left(t)' = Tail(Left(t))
           /\ CallSink(t) \/ SinkPanic(t) \/ Release(t) =>
                 pc[t] \in InsideSteps /\ \A u \in Threads \ {t} : fan'[u] = fan[u]
           /\ EmitEnd(t) => pc[t] = "view" /\ fan'[t] = <<>> /\ pc'[t] = "idle"
                              /\ \A u \in Threads \ {t} : fan'[u] = fan[u]
<1>1. ASSUME pc[t] \in InsideSteps
      PROVE  /\ fan[t] # <<>> /\ Top(t) = fan[t][1] /\ Len(fan[t]) = 1
             /\ Top(t).left = Left(t) /\ Current(t) = Head(Left(t))
             /\ (InView(t) <=> Left(t) # <<>>)
             /\ \E left, site, given, shown :
                  fan[t] = <<[left |-> left, site |-> site, given |-> given, shown |-> shown]>>
  <2>1. fan[t] # <<>> /\ Top(t) = fan[t][1] /\ Len(fan[t]) = 1
    BY <1>1, TheFrame
  <2>4. PICK left, site, given, shown :
           /\ shown \in SUBSET Groups
           /\ fan[t] = <<[left |-> left, site |-> site, given |-> given, shown |-> shown]>>
    BY <1>1, TheFrame
  <2>2. Top(t).left = Left(t)
    BY <2>1 DEF Left
  <2>3. Current(t) = Head(Left(t)) /\ (InView(t) <=> fan[t] # <<>> /\ Left(t) # <<>>)
    BY <2>2 DEF Current, InView
  <2> QED  BY <2>1, <2>2, <2>3, <2>4
<1>2. \A u \in Threads : fan[u] = fan[u] /\ DOMAIN fan = Threads
  BY DEF IInv, Functions
<1>3. ASSUME CallSink(t) \/ SinkPanic(t) \/ Release(t)
      PROVE  pc[t] \in InsideSteps /\ \A u \in Threads \ {t} : fan'[u] = fan[u]
  BY <1>2, <1>3 DEF CallSink, SinkPanic, Release, InsideSteps
<1>4. ASSUME CallSink(t)
      PROVE  fan'[t] # <<>> /\ Left(t)' = Left(t)
  <2>1. PICK left, site, given, shown :
          fan[t] = <<[left |-> left, site |-> site, given |-> given, shown |-> shown]>>
    BY <1>1, <1>3, <1>4
  <2>2. Len(fan[t]) = 1 /\ Left(t) = left
    BY <2>1 DEF Left
  <2> DEFINE view == Project(Current(t), Top(t).given)
  <2>3. fan' = [fan EXCEPT ![t][1].shown = view]
    BY <1>4, <2>2 DEF CallSink
  <2> HIDE DEF view
  <2>4. [fan[t] EXCEPT ![1].shown = view]
          = <<[left |-> left, site |-> site, given |-> given, shown |-> view]>>
    BY <2>1
  <2>5. fan'[t] = <<[left |-> left, site |-> site, given |-> given, shown |-> view]>>
    BY <1>2, <2>3, <2>4
  <2> QED  BY <2>2, <2>5 DEF Left
<1>5. ASSUME SinkPanic(t)
      PROVE  fan'[t] # <<>> /\ Left(t)' = Left(t)
  <2>1. PICK left, site, given, shown :
          fan[t] = <<[left |-> left, site |-> site, given |-> given, shown |-> shown]>>
    BY <1>1, <1>3, <1>5
  <2>2. Len(fan[t]) = 1 /\ Left(t) = left /\ Top(t).left = left
    BY <2>1 DEF Left, Top
  <2>3. fan' = [fan EXCEPT ![t][1].left = left]
    BY <1>5, <2>2 DEF SinkPanic, LeftAfterPanic
  <2>4. [fan[t] EXCEPT ![1].left = left]
          = <<[left |-> left, site |-> site, given |-> given, shown |-> shown]>>
    BY <2>1
  <2>5. fan'[t] = <<[left |-> left, site |-> site, given |-> given, shown |-> shown]>>
    BY <1>2, <2>3, <2>4
  <2> QED  BY <2>2, <2>5 DEF Left
<1>6. ASSUME Release(t)
      PROVE  fan'[t] # <<>> /\ Left(t)' = Tail(Left(t))
  <2>1. PICK left, site, given, shown :
          fan[t] = <<[left |-> left, site |-> site, given |-> given, shown |-> shown]>>
    BY <1>1, <1>3, <1>6
  <2>2. Len(fan[t]) = 1 /\ Left(t) = left /\ Top(t).left = left
    BY <2>1 DEF Left, Top
  <2> DEFINE rest == Tail(left)
  <2>3. fan' = [fan EXCEPT ![t][1].left = rest, ![t][1].shown = {}]
    BY <1>6, <2>2 DEF Release
  <2> HIDE DEF rest
  <2>4. [fan[t] EXCEPT ![1].left = rest]
          = <<[left |-> rest, site |-> site, given |-> given, shown |-> shown]>>
    BY <2>1
  <2>5. [[fan[t] EXCEPT ![1].left = rest] EXCEPT ![1].shown = {}]
          = <<[left |-> rest, site |-> site, given |-> given, shown |-> {}]>>
    BY <2>4
  <2>6. fan'[t] = [[fan[t] EXCEPT ![1].left = rest] EXCEPT ![1].shown = {}]
    BY <1>2, <2>3
  <2>7. fan'[t] = <<[left |-> rest, site |-> site, given |-> given, shown |-> {}]>>
    BY <2>5, <2>6
  <2> QED  BY <2>2, <2>7 DEF Left, rest
<1>7. ASSUME EmitEnd(t)
      PROVE  pc[t] = "view" /\ fan'[t] = <<>> /\ pc'[t] = "idle"
               /\ \A u \in Threads \ {t} : fan'[u] = fan[u]
  <2>1. pc[t] = "view" /\ pc[t] \in InsideSteps
    BY <1>7 DEF EmitEnd, InsideSteps
  <2>2. PICK f : fan[t] = <<f>>
    BY <1>1, <2>1
  <2>3. Len(fan[t]) = 1
    BY <2>2
  <2>4. fan' = [fan EXCEPT ![t] = SubSeq(@, 1, 0)] /\ pc' = [pc EXCEPT ![t] = "idle"]
    BY <1>7, <2>3 DEF EmitEnd, Outside, Goto
  <2>5. SubSeq(fan[t], 1, 0) = <<>>
    BY <2>2
  <2> QED  BY <1>2, <2>1, <2>4, <2>5 DEF IInv, Functions
<1> HIDE DEF InsideSteps
<1> QED  BY <1>1, <1>3, <1>4, <1>5, <1>6, <1>7

\* A sink is called when it is the first of those left.
LEMMA CallSinkOnce ==
    ASSUME IInv, OnceInv, NEW t \in Threads, CallSink(t)
    PROVE  OnceInv' /\ Current(t) \notin Elements(visited[t]) /\ fan'[t] # <<>>
<1> DEFINE left == Left(t)
           s == Head(left)
<1>1. /\ fan[t] # <<>> /\ fan'[t] # <<>> /\ Left(t)' = left /\ Current(t) = s /\ left # <<>>
      /\ \A u \in Threads \ {t} : fan'[u] = fan[u]
  BY InsideEffects DEF CallSink
<1>2. /\ pc[t] = "view" /\ pc' = [pc EXCEPT ![t] = "called"]
      /\ visited' = [visited EXCEPT ![t] = Append(@, s)]
      /\ UNCHANGED <<sinks, begun, call, steady>>
  BY <1>1 DEF CallSink, Goto, configVars
<1>3. /\ pc'[t] = "called" /\ visited'[t] = Append(visited[t], s)
      /\ visited' = [u \in Threads |-> visited'[u]]
      /\ \A u \in Threads \ {t} : pc'[u] = pc[u] /\ visited'[u] = visited[u]
  BY ZenonT(60), <1>2 DEF IInv, Functions, OnceInv
<1>4. /\ left \in Seq(Sinks) /\ Distinct(left) /\ visited[t] \in Seq(Sinks)
      /\ \A x \in steady[t] : x \in Elements(visited[t]) \/ x \in Elements(left)
      /\ \A x \in Elements(left) : x \notin Elements(visited[t])
  BY <1>1, <1>2 DEF OnceInv, Once
<1> HIDE DEF left
<1>5. /\ s \in Sinks /\ Elements(left) = {s} \cup Elements(Tail(left))
      /\ s \notin Elements(Tail(left))
  BY <1>1, <1>4, TailElements
<1> HIDE DEF s
<1>6. visited'[t] \in Seq(Sinks) /\ Elements(visited'[t]) = Elements(visited[t]) \cup {s}
  BY <1>3, <1>4, <1>5, AppendElements
<1>7. Registered'
  BY <1>2 DEF OnceInv, Registered, Distinct, Elements
<1>8. Once(t)'
  <2>1. /\ Elements(visited[t])' = Elements(visited[t]) \cup {s}
        /\ Elements(Left(t))' = Elements(left)
        /\ Elements(Tail(Left(t)))' = Elements(Tail(left))
        /\ Head(Left(t))' = s /\ Distinct(Left(t))'
    <3>1. Left(t)' = left /\ Head(left) = s /\ Distinct(left)
      BY <1>1, <1>4 DEF s
    <3>2. /\ Elements(visited[t])' = Elements(visited'[t])
          /\ Elements(Left(t))' = Elements(Left(t)')
          /\ Elements(Tail(Left(t)))' = Elements(Tail(Left(t)'))
          /\ Distinct(Left(t))' <=> Distinct(Left(t)')
      BY DEF Elements, Distinct
    <3> QED  BY <1>6, <3>1, <3>2
  <2> QED  BY <1>1, <1>2, <1>3, <1>4, <1>5, <1>6, <2>1 DEF Once
<1>9. OnceInv'
  BY <1>1, <1>2, <1>3, <1>7, <1>8, OnceThreadMoves
<1> QED  BY <1>1, <1>4, <1>5, <1>9

\* A sink that was called is not among those left.
LEMMA ReleaseOnce ==
    ASSUME IInv, OnceInv, NEW t \in Threads, Release(t)
    PROVE  OnceInv'
<1> DEFINE left == Left(t)
           rest == Tail(left)
<1>1. /\ fan[t] # <<>> /\ fan'[t] # <<>> /\ Left(t)' = rest
      /\ \A u \in Threads \ {t} : fan'[u] = fan[u]
  BY InsideEffects
<1>2. /\ pc[t] = "release" /\ pc' = [pc EXCEPT ![t] = "view"]
      /\ UNCHANGED <<sinks, begun, call, steady, visited>>
  BY DEF Release, Goto, configVars
<1>3. pc'[t] = "view" /\ \A u \in Threads \ {t} : pc'[u] = pc[u]
  BY <1>2 DEF IInv, Functions
<1>4. /\ left \in Seq(Sinks) /\ Distinct(left) /\ visited[t] \in Seq(Sinks) /\ left # <<>>
      /\ \A x \in steady[t] : x \in Elements(visited[t]) \/ x \in Elements(left)
      /\ Head(left) \in Elements(visited[t])
      /\ \A x \in Elements(rest) : x \notin Elements(visited[t])
  BY <1>1, <1>2 DEF OnceInv, Once
<1> HIDE DEF left
<1>5. rest \in Seq(Sinks) /\ Distinct(rest) /\ Elements(left) = {Head(left)} \cup Elements(rest)
  BY <1>4, TailElements
<1> HIDE DEF rest
<1>6. Registered' /\ visited' = [u \in Threads |-> visited'[u]]
  BY <1>2 DEF OnceInv, Registered, Distinct, Elements
<1>7. Once(t)'
  <2>1. /\ Elements(visited[t])' = Elements(visited[t]) /\ Elements(Left(t))' = Elements(rest)
        /\ Distinct(Left(t))'
    BY <1>1, <1>2, <1>5 DEF Elements, Distinct
  <2> QED  BY <1>1, <1>2, <1>3, <1>4, <1>5, <2>1 DEF Once
<1> QED  BY <1>1, <1>2, <1>3, <1>6, <1>7, OnceThreadMoves

\* The steps of a sink leave what is left and what was called alone.
LEMMA SinkStepsOnce ==
    ASSUME IInv, OnceInv, NEW t \in Threads,
           \/ SinkReturn(t) \/ SinkPanic(t) \/ MemoryTryLock(t) \/ MemoryStore(t)
           \/ \E site \in Sites : SinkLog(t, site)
    PROVE  OnceInv' /\ UNCHANGED visited /\ fan'[t] # <<>>
<1>1. /\ pc[t] \in {"called", "store"} /\ pc[t] \in InsideSteps
      /\ UNCHANGED <<sinks, begun, call, steady, visited>>
  BY DEF SinkReturn, SinkPanic, MemoryTryLock, MemoryStore, SinkLog, configVars, emitVars,
         InsideSteps
<1>2. fan[t] # <<>> /\ inDispatch[t] /\ Len(fan[t]) = 1
  BY <1>1, TheFrame DEF IInv, ThreadInv, Placed
<1>3. /\ fan'[t] # <<>> /\ Left(t)' = Left(t) /\ \A u \in Threads \ {t} : fan'[u] = fan[u]
      /\ pc' = [pc EXCEPT ![t] = "called"] \/ pc' = [pc EXCEPT ![t] = "release"]
                                           \/ pc' = [pc EXCEPT ![t] = "store"]
  <2>1. CASE SinkPanic(t)
    BY <2>1, InsideEffects DEF SinkPanic, Goto
  <2>2. CASE SinkReturn(t) \/ MemoryTryLock(t) \/ MemoryStore(t)
    BY <1>2, <2>2 DEF SinkReturn, MemoryTryLock, MemoryStore, Goto, emitVars, Left
  <2>3. ASSUME NEW site \in Sites, SinkLog(t, site)
        PROVE  UNCHANGED fan /\ pc' = [pc EXCEPT ![t] = "called"]
    BY <1>2, <2>3 DEF SinkLog, Dispatch, Refused, Outside, Goto
  <2> QED  BY <1>2, <2>1, <2>2, <2>3 DEF Left
<1>4. /\ pc'[t] \in {"called", "store", "release"}
      /\ \A u \in Threads \ {t} : pc'[u] = pc[u]
  BY <1>3 DEF IInv, Functions
<1>5. Once(t)'
  <2>1. Once(t)
    BY DEF OnceInv
  <2> QED  BY <1>1, <1>2, <1>3, <1>4, <2>1, OnceSameFrame
<1>6. Registered' /\ visited' = [u \in Threads |-> visited'[u]]
  BY <1>1 DEF OnceInv, Registered, Distinct, Elements
<1>7. OnceInv'
  BY <1>1, <1>3, <1>4, <1>5, <1>6, OnceThreadMoves
<1> QED  BY <1>1, <1>3, <1>7

\* When nothing is left, every steady sink was called.
LEMMA EmitEndOnce ==
    ASSUME IInv, OnceInv, NEW t \in Threads, EmitEnd(t)
    PROVE  OnceInv' /\ steady[t] \subseteq Elements(visited[t]) /\ visited'[t] = <<>>
<1>1. /\ pc[t] = "view" /\ pc[t] \in InsideSteps /\ fan'[t] = <<>> /\ pc'[t] = "idle"
      /\ \A u \in Threads \ {t} : fan'[u] = fan[u]
  BY InsideEffects DEF InsideSteps
<1>2. fan[t] # <<>> /\ Left(t) = <<>>
  BY <1>1, InsideEffects DEF EmitEnd
<1>3. /\ UNCHANGED <<sinks, begun, call>> /\ steady' = [steady EXCEPT ![t] = {}]
      /\ visited' = [visited EXCEPT ![t] = <<>>] /\ pc' = [pc EXCEPT ![t] = "idle"]
  BY <1>1 DEF EmitEnd, configVars, Goto, IInv, Functions
<1>4. /\ visited'[t] = <<>> /\ visited' = [u \in Threads |-> visited'[u]]
      /\ \A u \in Threads \ {t} :
            visited'[u] = visited[u] /\ pc'[u] = pc[u] /\ steady'[u] = steady[u]
  BY ZenonT(60), <1>3 DEF IInv, Functions, OnceInv
<1>5. Elements(Left(t)) = {}
  BY <1>2 DEF Elements
<1>6. steady[t] \subseteq Elements(visited[t])
  BY <1>2, <1>5 DEF OnceInv, Once
<1>7. Registered'
  BY <1>3 DEF OnceInv, Registered, Distinct, Elements
<1>8. Once(t)'
  <2>1. <<>> \in Seq(Sinks)
    OBVIOUS
  <2> QED  BY <1>1, <1>4, <2>1, OnceOutside
<1>9. OnceInv'
  BY <1>1, <1>3, <1>4, <1>7, <1>8, OnceThreadMoves
<1> QED  BY <1>4, <1>6, <1>9

Cut(q, p) == SubSeq(q, 1, p - 1) \o SubSeq(q, p + 1, Len(q))

\* A sequence without its element at a position.
LEMMA CutOut ==
    ASSUME NEW S, NEW q \in Seq(S), NEW p \in 1..Len(q)
    PROVE  /\ Cut(q, p) \in Seq(S) /\ Len(Cut(q, p)) = Len(q) - 1
           /\ \A i \in 1..Len(q) - 1 : Cut(q, p)[i] = IF i < p THEN q[i] ELSE q[i + 1]
<1> DEFINE n == Len(q)
           r == Cut(q, p)
           a == SubSeq(q, 1, p - 1)
           b == SubSeq(q, p + 1, n)
<1>1. n \in Nat /\ p \in Nat /\ 1 <= p /\ p <= n /\ \A i \in 1..n : q[i] \in S
  OBVIOUS
<1> HIDE DEF n
<1>2. /\ a \in Seq(S) /\ Len(a) = p - 1
      /\ \A i \in 1..p - 1 : a[i] = q[i]
  <2>1. \A i \in 1..p - 1 : q[i] \in S /\ (1 + i) - 1 = i
    BY <1>1
  <2>2. /\ 1 \in Int /\ p - 1 \in Int /\ ((p - 1) - 1) + 1 = p - 1
        /\ p - 1 = IF 1 <= p - 1 THEN ((p - 1) - 1) + 1 ELSE 0
    BY <1>1
  <2>3. /\ a \in Seq(S) /\ Len(a) = IF 1 <= p - 1 THEN ((p - 1) - 1) + 1 ELSE 0
        /\ \A i \in 1..((p - 1) - 1) + 1 : a[i] = q[(1 + i) - 1]
    BY <2>1, <2>2, SubSeqProperties
  <2> HIDE DEF a
  <2> QED  BY <2>1, <2>2, <2>3
<1>3. /\ b \in Seq(S) /\ Len(b) = n - p
      /\ \A i \in 1..n - p : b[i] = q[i + p]
  <2>1. /\ \A i \in p + 1..n : q[i] \in S
        /\ \A i \in 1..n - p : ((p + 1) + i) - 1 = i + p
    BY <1>1
  <2>2. /\ p + 1 \in Int /\ n \in Int /\ (n - (p + 1)) + 1 = n - p
        /\ n - p = IF p + 1 <= n THEN (n - (p + 1)) + 1 ELSE 0
    BY <1>1
  <2>3. /\ b \in Seq(S) /\ Len(b) = IF p + 1 <= n THEN (n - (p + 1)) + 1 ELSE 0
        /\ \A i \in 1..(n - (p + 1)) + 1 : b[i] = q[((p + 1) + i) - 1]
    BY <2>1, <2>2, SubSeqProperties
  <2> HIDE DEF b
  <2> QED  BY <2>1, <2>2, <2>3
<1>4. r = a \o b
  BY DEF n, Cut
<1> HIDE DEF a, b, r
<1>5. /\ r \in Seq(S) /\ Len(r) = Len(a) + Len(b)
      /\ \A i \in 1..Len(a) + Len(b) : r[i] = IF i <= Len(a) THEN a[i] ELSE b[i - Len(a)]
  <2>1. a \in Seq(S) /\ b \in Seq(S)
    BY <1>2, <1>3
  <2>2. /\ a \o b \in Seq(S) /\ Len(a \o b) = Len(a) + Len(b)
        /\ \A i \in 1..Len(a) + Len(b) :
              (a \o b)[i] = IF i <= Len(a) THEN a[i] ELSE b[i - Len(a)]
    BY <2>1, ConcatProperties, Zenon
  <2> QED  BY <1>4, <2>2, Zenon
<1>6. Len(a) + Len(b) = n - 1
  BY <1>1, <1>2, <1>3
<1>7. ASSUME NEW i \in 1..n - 1, i < p PROVE r[i] = q[i]
  <2>1. i \in 1..p - 1 /\ i <= p - 1
    BY <1>1, <1>7
  <2> QED  BY <1>2, <1>5, <1>6, <2>1
<1>8. ASSUME NEW i \in 1..n - 1, ~(i < p) PROVE r[i] = q[i + 1]
  <2>1. ~(i <= p - 1) /\ i - (p - 1) \in 1..n - p /\ (i - (p - 1)) + p = i + 1
    BY <1>1, <1>8
  <2>2. r[i] = b[i - (p - 1)]
    BY <1>2, <1>5, <1>6, <2>1
  <2> QED  BY <1>3, <2>1, <2>2
<1>9. \A i \in 1..n - 1 : r[i] = IF i < p THEN q[i] ELSE q[i + 1]
  BY <1>7, <1>8
<1>10. r \in Seq(S) /\ Len(r) = n - 1
  BY <1>5, <1>6
<1> QED  BY <1>9, <1>10 DEF n, r

\* A sequence of distinct elements without one of them.
LEMMA Without ==
    ASSUME NEW q \in Seq(Sinks), Distinct(q), NEW p \in 1..Len(q)
    PROVE  /\ Cut(q, p) \in Seq(Sinks) /\ Distinct(Cut(q, p))
           /\ \A s : s \in Elements(Cut(q, p)) <=> s \in Elements(q) /\ s # q[p]
<1> DEFINE n == Len(q)
           r == Cut(q, p)
           from(i) == IF i < p THEN i ELSE i + 1
<1>1. n \in Nat /\ p \in 1..n /\ p \in Nat
  OBVIOUS
<1>2. r \in Seq(Sinks) /\ Len(r) = n - 1 /\ \A i \in 1..n - 1 : r[i] = q[from(i)]
  <2>1. r \in Seq(Sinks) /\ Len(r) = n - 1
        /\ \A i \in 1..n - 1 : r[i] = IF i < p THEN q[i] ELSE q[i + 1]
    BY CutOut
  <2> HIDE DEF r
  <2> QED  BY <2>1
<1>3. \A i \in 1..n - 1 : from(i) \in 1..n /\ from(i) # p
  BY <1>1
<1>4. \A i, j \in 1..n - 1 : from(i) = from(j) => i = j
  BY <1>1
<1>5. ASSUME NEW k \in 1..n, k # p PROVE \E i \in 1..n - 1 : from(i) = k
  <2>1. CASE k < p
    <3>1. k \in 1..n - 1 /\ from(k) = k
      BY <1>1, <2>1
    <3> QED  BY <3>1
  <2>2. CASE ~(k < p)
    <3>1. k - 1 \in 1..n - 1 /\ ~(k - 1 < p) /\ (k - 1) + 1 = k
      BY <1>1, <1>5, <2>2
    <3>2. from(k - 1) = k
      BY <3>1
    <3> QED  BY <3>1, <3>2
  <2> QED  BY <2>1, <2>2
<1>6. \A i, j \in 1..n : q[i] = q[j] => i = j
  BY DEF Distinct
<1> HIDE DEF n, from, r
<1>7. ASSUME NEW i \in 1..n - 1, NEW j \in 1..n - 1, r[i] = r[j]
      PROVE  i = j
  <2>1. q[from(i)] = q[from(j)] /\ from(i) \in 1..n /\ from(j) \in 1..n
    BY <1>2, <1>3, <1>7
  <2> QED  BY <1>4, <1>6, <2>1
<1>8. Distinct(r)
  BY <1>2, <1>7 DEF Distinct
<1>9. ASSUME NEW i \in 1..n - 1 PROVE r[i] \in Elements(q) /\ r[i] # q[p]
  <2>1. r[i] = q[from(i)] /\ from(i) \in 1..n /\ from(i) # p
    BY <1>2, <1>3, <1>9
  <2>2. q[from(i)] # q[p]
    BY <1>1, <1>6, <2>1
  <2> QED  BY <2>1, <2>2 DEF Elements, n
<1>10. ASSUME NEW k \in 1..n, q[k] # q[p] PROVE q[k] \in Elements(r)
  <2>1. PICK i \in 1..n - 1 : from(i) = k
    BY <1>5, <1>10
  <2>2. r[i] = q[k]
    BY <1>2, <2>1
  <2> QED  BY <1>2, <2>2 DEF Elements
<1>11. \A s : s \in Elements(r) <=> s \in Elements(q) /\ s # q[p]
  BY <1>2, <1>9, <1>10 DEF Elements, n
<1> QED  BY <1>2, <1>8, <1>11 DEF r

\* A thread outside of emit stays outside.
LEMMA OutsideOnce ==
    ASSUME IInv, OnceInv, NEW t \in Threads, pc[t] \notin InsideSteps,
           NEW step \in Steps \ {"evaluated"}, pc' = [pc EXCEPT ![t] = step],
           UNCHANGED <<fan, visited, call>>, Registered',
           \A u \in Threads : steady'[u] \subseteq steady[u],
           \A u \in Threads \ {t} : \A s \in steady'[u] :
              s \in Elements(sinks) => s \in Elements(sinks')
    PROVE  OnceInv'
<1>1. fan'[t] = <<>> /\ visited'[t] \in Seq(Sinks)
  BY DEF IInv, ThreadInv, Placed, OnceInv, Once
<1>2. pc'[t] = step /\ \A u \in Threads \ {t} : pc'[u] = pc[u]
  BY DEF IInv, Functions
<1>3. Once(t)'
  BY <1>1, <1>2, OnceOutside
<1>4. visited' = [u \in Threads |-> visited'[u]]
  BY DEF OnceInv
<1> QED  BY <1>2, <1>3, <1>4, OnceThreadMoves

\* A sink is registered once, and one that is removed is no longer steady.
LEMMA ConfigStepOnce ==
    ASSUME IInv, OnceInv, NEW t \in Threads, ConfigStep(t)
    PROVE  OnceInv' /\ UNCHANGED visited
<1>1. ASSUME NEW s \in Sinks, AddSink(t, s) PROVE OnceInv' /\ UNCHANGED visited
  <2>1. /\ pc[t] = "idle" /\ pc' = [pc EXCEPT ![t] = "announceAdd"] /\ s \notin begun
        /\ sinks' = Append(sinks, s) /\ begun' = begun \cup {s}
        /\ UNCHANGED <<fan, visited, call, steady>>
    BY <1>1 DEF AddSink, Goto, emitVars
  <2>2. sinks \in Seq(Sinks) /\ Distinct(sinks) /\ s \notin Elements(sinks)
        /\ Elements(sinks) \subseteq begun
    BY <2>1 DEF OnceInv, Registered
  <2>3. /\ sinks' \in Seq(Sinks) /\ Distinct(sinks')
        /\ Elements(sinks') = Elements(sinks) \cup {s}
    BY <2>1, <2>2, AppendElements
  <2>4. Registered'
    <3>1. Distinct(sinks)' /\ Elements(sinks)' = Elements(sinks')
      BY <2>3 DEF Distinct, Elements
    <3> QED  BY <2>1, <2>2, <2>3, <3>1 DEF Registered
  <2> QED  BY <2>1, <2>3, <2>4, OutsideOnce DEF InsideSteps, Steps
<1>2. ASSUME NEW s \in Sinks, RemoveSink(t, s) PROVE OnceInv' /\ UNCHANGED visited
  <2>1. /\ pc[t] = "idle" /\ pc' = [pc EXCEPT ![t] = "announceRemove"]
        /\ UNCHANGED <<fan, visited, call, begun>>
        /\ \A u \in Threads : steady'[u] = steady[u] \ {s}
    BY <1>2 DEF RemoveSink, Goto
  <2>2. PICK p \in 1..Len(sinks) :
          /\ sinks[p] = s
          /\ sinks' = SubSeq(sinks, 1, p - 1) \o SubSeq(sinks, p + 1, Len(sinks))
    BY <1>2 DEF RemoveSink
  <2>3. sinks \in Seq(Sinks) /\ Distinct(sinks) /\ Elements(sinks) \subseteq begun
    BY DEF OnceInv, Registered
  <2>4. /\ sinks' \in Seq(Sinks) /\ Distinct(sinks')
        /\ \A x : x \in Elements(sinks') <=> x \in Elements(sinks) /\ x # s
    <3>1. sinks' = Cut(sinks, p) /\ p \in 1..Len(sinks) /\ sinks[p] = s
      BY <2>2 DEF Cut
    <3>2. /\ Cut(sinks, p) \in Seq(Sinks) /\ Distinct(Cut(sinks, p))
          /\ \A x : x \in Elements(Cut(sinks, p)) <=> x \in Elements(sinks) /\ x # sinks[p]
      BY <2>3, <3>1, Without
    <3> QED  BY <3>1, <3>2
  <2>5. Registered'
    <3>1. Distinct(sinks)' /\ Elements(sinks)' = Elements(sinks')
      BY <2>4 DEF Distinct, Elements
    <3> QED  BY <2>1, <2>3, <2>4, <3>1 DEF Registered
  <2>6. pc[t] \notin InsideSteps /\ "announceRemove" \in Steps \ {"evaluated"}
    BY <2>1 DEF InsideSteps, Steps
  <2>7. /\ \A u \in Threads : steady'[u] \subseteq steady[u]
        /\ \A u \in Threads : \A x \in steady'[u] : x \in Elements(sinks) => x \in Elements(sinks')
    BY <2>1, <2>4
  <2> QED  BY <2>1, <2>5, <2>6, <2>7, OutsideOnce
<1>3. ASSUME UNCHANGED <<sinks, begun, fan, visited, call, steady>>, pc[t] \notin InsideSteps,
             NEW step \in Steps \ {"evaluated"}, pc' = [pc EXCEPT ![t] = step]
      PROVE  OnceInv' /\ UNCHANGED visited
  <2>1. Registered' /\ Elements(sinks') = Elements(sinks)
    BY <1>3 DEF OnceInv, Registered, Distinct, Elements
  <2> QED  BY <1>3, <2>1, OutsideOnce
<1>4. ASSUME NEW s \in Sinks, DrainLock(t, s) PROVE OnceInv' /\ UNCHANGED visited
  BY <1>3, <1>4 DEF DrainLock, Goto, emitVars, InsideSteps, Steps
<1>5. ASSUME AnnounceAdd(t) \/ AnnounceRemove(t) \/ DropRegistration(t) \/ DrainTake(t)
      PROVE  OnceInv' /\ UNCHANGED visited
  <2>1. /\ UNCHANGED <<sinks, begun, fan, visited, call, steady>> /\ pc[t] \notin InsideSteps
        /\ pc' = [pc EXCEPT ![t] = "idle"] \/ pc' = [pc EXCEPT ![t] = "dropping"]
    BY <1>5 DEF AnnounceAdd, AnnounceRemove, DropRegistration, DrainTake, Goto, emitVars,
                InsideSteps
  <2> QED  BY <1>3, <2>1 DEF Steps
<1> QED  BY <1>1, <1>2, <1>4, <1>5 DEF ConfigStep

\* What is idle: everything but the threads' positions outside of emit.
LEMMA SpanStepOnce ==
    ASSUME IInv, OnceInv, NEW t \in Threads, SpanStep(t)
    PROVE  OnceInv' /\ UNCHANGED visited
<1>1. /\ UNCHANGED <<sinks, begun, fan, visited, call, steady>> /\ pc[t] \notin InsideSteps
      /\ \/ pc' = [pc EXCEPT ![t] = "idle"] \/ pc' = [pc EXCEPT ![t] = "spanPush"]
  BY DEF SpanStep, StartSpan, EndSpan, PushSpan, TakeCompletedSpans, Goto, configVars, emitVars,
         InsideSteps, IInv, Functions
<1>2. Registered' /\ Elements(sinks') = Elements(sinks)
  BY <1>1 DEF OnceInv, Registered, Distinct, Elements
<1> QED  BY <1>1, <1>2, OutsideOnce DEF Steps

\* It holds initially.
LEMMA InitOnce == Init => OnceInv
<1> SUFFICES ASSUME Init PROVE OnceInv
  OBVIOUS
<1>1. Registered
  <2>1. sinks = <<>> /\ <<>> \in Seq(Sinks) /\ Len(<<>>) = 0
    BY DEF Init
  <2> QED  BY <2>1 DEF Registered, Distinct, Elements
<1>2. ASSUME NEW t \in Threads PROVE Once(t)
  <2>1. fan[t] = <<>> /\ pc[t] = "idle" /\ visited[t] = <<>> /\ <<>> \in Seq(Sinks)
    BY DEF Init
  <2> QED  BY <2>1 DEF Once
<1>3. visited = [t \in Threads |-> visited[t]]
  BY DEF Init
<1> QED  BY <1>1, <1>2, <1>3 DEF OnceInv

\* What a step of a thread does to its emit: none ends before every steady sink
\* was called, and none is called a second time.
Fair(t) ==
    /\ (fan[t] # <<>> /\ fan'[t] = <<>>) => steady[t] \subseteq Elements(visited[t])
    /\ visited'[t] # visited[t] /\ visited'[t] # <<>> =>
          Current(t) \notin Elements(visited[t])

\* Every step keeps the invariant and is fair to the sinks.
LEMMA NextOnce ==
    ASSUME IInv, OnceInv, [Next]_vars
    PROVE  OnceInv' /\ \A u \in Threads : Fair(u)
<1>1. ASSUME NEW t \in Threads, NEW site \in Sites, LogStart(t, site)
      PROVE  OnceInv' /\ \A u \in Threads : Fair(u)
  <2>1. UNCHANGED <<fan, visited>>
    BY <1>1 DEF LogStart
  <2> QED  BY <1>1, <2>1, LogStartOnce DEF Fair
<1>2. ASSUME NEW t \in Threads, EmitStep(t)
      PROVE  OnceInv' /\ \A u \in Threads : Fair(u)
  <2>1. ASSUME NEW u \in Threads \ {t} PROVE fan'[u] = fan[u] /\ visited'[u] = visited[u]
    <3>1. DOMAIN fan = Threads /\ visited = [v \in Threads |-> visited[v]]
      BY DEF IInv, Functions, OnceInv
    <3> QED
      BY <1>2, <3>1 DEF EmitStep, EmitStart, CallSink, MemoryTryLock, MemoryStore, SinkReturn,
            SinkPanic, Release, EmitEnd, SinkLog, Dispatch, emitVars
  <2>2. \A u \in Threads \ {t} : Fair(u)
    BY <2>1 DEF Fair
  <2>3. CASE EmitStart(t)
    <3>1. fan[t] = <<>> /\ visited'[t] = <<>>
      BY <2>3 DEF EmitStart, IInv, ThreadInv, Placed, InsideSteps, OnceInv
    <3> QED  BY <2>2, <2>3, <3>1, EmitStartOnce DEF Fair
  <2>4. CASE CallSink(t)
    BY <2>2, <2>4, CallSinkOnce DEF Fair
  <2>5. CASE Release(t)
    <3>1. UNCHANGED visited /\ fan'[t] # <<>>
      BY <2>5, InsideEffects DEF Release
    <3> QED  BY SMTT(30), <2>2, <2>5, <3>1, ReleaseOnce DEF Fair
  <2>6. CASE EmitEnd(t)
    BY <2>2, <2>6, EmitEndOnce DEF Fair
  <2>7. CASE \/ SinkReturn(t) \/ SinkPanic(t) \/ MemoryTryLock(t) \/ MemoryStore(t)
             \/ \E site \in Sites : SinkLog(t, site)
    BY <2>2, <2>7, SinkStepsOnce DEF Fair
  <2> QED  BY SMTT(30), <1>2, <2>3, <2>4, <2>5, <2>6, <2>7 DEF EmitStep
<1>3. ASSUME NEW t \in Threads, ConfigStep(t)
      PROVE  OnceInv' /\ \A u \in Threads : Fair(u)
  <2>1. UNCHANGED fan
    BY <1>3 DEF ConfigStep, AddSink, RemoveSink, DrainLock, AnnounceAdd, AnnounceRemove,
                DropRegistration, DrainTake, emitVars
  <2> QED  BY <1>3, <2>1, ConfigStepOnce DEF Fair
<1>4. ASSUME NEW t \in Threads, SpanStep(t)
      PROVE  OnceInv' /\ \A u \in Threads : Fair(u)
  <2>1. UNCHANGED fan
    BY <1>4 DEF SpanStep, StartSpan, EndSpan, PushSpan, TakeCompletedSpans, emitVars
  <2> QED  BY <1>4, <2>1, SpanStepOnce DEF Fair
<1>5. CASE UNCHANGED vars
  <2>1. UNCHANGED <<sinks, begun, fan, visited, call, steady, pc>>
    BY <1>5 DEF vars, configVars, emitVars
  <2>2. Registered' /\ Elements(sinks') = Elements(sinks) /\ visited' = [t \in Threads |-> visited'[t]]
    BY <2>1 DEF OnceInv, Registered, Distinct, Elements
  <2>3. ASSUME NEW t \in Threads PROVE Once(t)'
    BY <2>1, <2>2, OnceUndisturbed DEF OnceInv
  <2> QED  BY <2>1, <2>2, <2>3 DEF OnceInv, Fair
<1> QED  BY <1>1, <1>2, <1>3, <1>4, <1>5 DEF Next

\* "The remaining views still run": emit calls every matching sink that was
\* registered from before the call until its end, and none twice, whatever is
\* added, removed or panics meanwhile.
THEOREM ViewsRunOnce == Spec => EveryViewOnce
<1>1. IInv /\ OnceInv /\ [Next]_vars =>
         [\A t \in Threads :
            /\ (fan[t] # <<>> /\ fan'[t] = <<>>) => steady[t] \subseteq Elements(visited[t])
            /\ visited'[t] # visited[t] /\ visited'[t] # <<>> =>
                  Current(t) \notin Elements(visited[t])]_vars
  BY NextOnce DEF Fair
<1>2. IInv /\ OnceInv /\ [Next]_vars => OnceInv'
  BY NextOnce
<1> QED  BY <1>1, <1>2, InitInv, InitOnce, NextInv, PTL DEF Spec, EveryViewOnce

-----------------------------------------------------------------------------
(* The types *)

\* What the other invariants do not say.
RestTypes ==
    /\ settling \subseteq Sinks /\ begun \subseteq Sinks /\ calls \in Nat
    /\ task \in [Threads -> SUBSET Sinks]
    /\ call \in [Threads -> SUBSET [site: Sites, given: SUBSET Groups]]
    /\ overflow \in [Memory -> Policies] /\ lock \in [Memory -> Threads \cup {Nobody}]

\* It holds initially.
LEMMA InitRest == Init => RestTypes
BY DEF Init, RestTypes

\* Every step preserves it.
LEMMA NextRest == RestTypes /\ [Next]_vars => RestTypes'
<1> SUFFICES ASSUME RestTypes, [Next]_vars PROVE RestTypes'
  OBVIOUS
<1> DEFINE Events == SUBSET [site: Sites, given: SUBSET Groups]
           Config == UNCHANGED <<settling, begun, task>>
           SameMemory == UNCHANGED <<overflow, lock>>
<1>1. ASSUME NEW t \in Threads, NEW site \in Sites, LogStart(t, site)
      PROVE  RestTypes'
  <2>1. PICK mask :
           \/ call' = [call EXCEPT ![t] = {[site |-> site, given |-> Evaluated(site, mask)]}]
           \/ UNCHANGED call
    BY <1>1 DEF LogStart
  <2>2. Evaluated(site, mask) \in SUBSET Groups
    BY SiteAssumption DEF Evaluated
  <2>3. call' \in [Threads -> Events]
    BY <2>1, <2>2 DEF RestTypes
  <2>4. Config /\ SameMemory /\ calls' = calls + 1
    BY <1>1 DEF LogStart, configVars, memoryVars
  <2> QED  BY <2>3, <2>4 DEF RestTypes
<1>2. ASSUME NEW t \in Threads, EmitStep(t)
      PROVE  RestTypes'
  <2>1. Config
    BY <1>2 DEF EmitStep, EmitStart, CallSink, MemoryTryLock, MemoryStore, SinkReturn, SinkPanic,
                Release, EmitEnd, SinkLog, configVars
  <2>2. call' = call \/ call' = [call EXCEPT ![t] = {}]
    BY <1>2 DEF EmitStep, EmitStart, CallSink, MemoryTryLock, MemoryStore, SinkReturn, SinkPanic,
                Release, EmitEnd, SinkLog, emitVars
  <2>3. calls' = calls \/ calls' = calls + 1
    BY <1>2 DEF EmitStep, EmitStart, CallSink, MemoryTryLock, MemoryStore, SinkReturn, SinkPanic,
                Release, EmitEnd, SinkLog
  <2>4. UNCHANGED overflow
        /\ (UNCHANGED lock \/ \E s : \E holder \in {t, Nobody} : lock' = [lock EXCEPT ![s] = holder])
    BY <1>2 DEF EmitStep, EmitStart, CallSink, MemoryTryLock, MemoryStore, SinkReturn, SinkPanic,
                Release, EmitEnd, SinkLog, memoryVars
  <2>5. lock' \in [Memory -> Threads \cup {Nobody}]
    BY <2>4 DEF RestTypes
  <2>6. call' \in [Threads -> Events]
    BY <2>2 DEF RestTypes
  <2> QED  BY <2>1, <2>3, <2>4, <2>5, <2>6 DEF RestTypes
<1>3. ASSUME NEW t \in Threads, ConfigStep(t)
      PROVE  RestTypes'
  <2>1. UNCHANGED <<call, calls, overflow>>
    BY <1>3 DEF ConfigStep, AddSink, RemoveSink, DrainLock, AnnounceAdd, AnnounceRemove,
                DropRegistration, DrainTake, emitVars, memoryVars
  <2>2. \/ UNCHANGED task \/ task' = [task EXCEPT ![t] = {}]
        \/ \E s \in Sinks : task' = [task EXCEPT ![t] = {s}]
    BY <1>3 DEF ConfigStep, AddSink, RemoveSink, DrainLock, AnnounceAdd, AnnounceRemove,
                DropRegistration, DrainTake
  <2>3. task' \in [Threads -> SUBSET Sinks]
    BY <2>2 DEF RestTypes
  <2>4. settling' \subseteq Sinks /\ begun' \subseteq Sinks
    BY <1>3 DEF ConfigStep, AddSink, RemoveSink, DrainLock, AnnounceAdd, AnnounceRemove,
                DropRegistration, DrainTake, RestTypes
  <2>5. UNCHANGED lock \/ \E s : \E holder \in {t, Nobody} : lock' = [lock EXCEPT ![s] = holder]
    BY <1>3 DEF ConfigStep, AddSink, RemoveSink, DrainLock, AnnounceAdd, AnnounceRemove,
                DropRegistration, DrainTake, memoryVars
  <2>6. lock' \in [Memory -> Threads \cup {Nobody}]
    BY <2>5 DEF RestTypes
  <2> QED  BY <2>1, <2>3, <2>4, <2>6 DEF RestTypes
<1>4. ASSUME NEW t \in Threads, SpanStep(t)
      PROVE  RestTypes'
  <2>1. Config /\ SameMemory /\ UNCHANGED call /\ (calls' = calls \/ calls' = calls + 1)
    BY <1>4 DEF SpanStep, StartSpan, EndSpan, PushSpan, TakeCompletedSpans, configVars, emitVars,
                memoryVars
  <2> QED  BY <2>1 DEF RestTypes
<1>5. CASE UNCHANGED vars
  BY <1>5 DEF vars, configVars, emitVars, memoryVars, RestTypes
<1> QED  BY <1>1, <1>2, <1>3, <1>4, <1>5 DEF Next

\* The invariants together have a thread that works for a sink inside an emit
\* that has not passed it, and every frame well formed.
LEMMA Typed ==
    ASSUME IInv, MInv, SpanInv, OnceInv, RestTypes
    PROVE  TypeOK
<1>1. ASSUME NEW t \in Threads
      PROVE  /\ pc[t] \in {"called", "store", "release"} => InView(t)
             /\ pc[t] = "store" => Current(t) \in Memory
             /\ pc[t] = "view" => fan[t] # <<>>
  <2>1. pc[t] \in InsideSteps => fan[t] # <<>> /\ (InView(t) <=> Left(t) # <<>>)
    BY InsideEffects
  <2>2. fan[t] # <<>> /\ pc[t] # "view" => Left(t) # <<>>
    BY DEF OnceInv, Once
  <2>3. pc[t] = "store" => Current(t) \in Memory
    BY DEF MInv, StoresOne
  <2> QED  BY <2>1, <2>2, <2>3 DEF InsideSteps
<1>2. ASSUME NEW t \in Threads
      PROVE  fan[t] \in Seq(Frame)
  <2>1. CASE fan[t] = <<>>
    BY <2>1
  <2>2. CASE fan[t] # <<>>
    <3>1. PICK f : IsFrame(f) /\ fan[t] = <<f>>
      BY <2>2 DEF IInv, ThreadInv, Placed
    <3>2. PICK left, site, given, shown :
            /\ shown \in SUBSET Groups
            /\ f = [left |-> left, site |-> site, given |-> given, shown |-> shown]
      BY <3>1 DEF IsFrame
    <3>3. fan[t][1] = f /\ f.left = left /\ f.site = site /\ f.given = given
      BY <3>1, <3>2
    <3>4. left \in Seq(Sinks)
      BY <2>2, <3>3 DEF OnceInv, Once, Left
    <3>5. site \in Sites /\ given \subseteq FieldsOf[site]
      BY <2>2, <3>3 DEF IInv, ThreadInv, Fed, FedBy
    <3>6. given \in SUBSET Groups
      BY <3>5, SiteAssumption
    <3>7. f \in Frame
      BY <3>2, <3>4, <3>5, <3>6 DEF Frame
    <3> HIDE DEF Frame
    <3> QED  BY <3>1, <3>7
  <2> QED  BY <2>1, <2>2
<1>3. /\ fan \in [Threads -> Seq(Frame)] /\ steady \in [Threads -> SUBSET Sinks]
      /\ visited \in [Threads -> Seq(Sinks)] /\ inDispatch \in [Threads -> BOOLEAN]
      /\ pc \in [Threads -> Steps] /\ sinks \in Seq(Sinks)
  <2>1. fan = [t \in Threads |-> fan[t]] /\ steady = [t \in Threads |-> steady[t]]
        /\ visited = [t \in Threads |-> visited[t]]
    BY DEF IInv, Functions, OnceInv
  <2>2. \A t \in Threads : steady[t] \in SUBSET Sinks /\ visited[t] \in Seq(Sinks)
    BY DEF IInv, ThreadInv, Fed, OnceInv, Once
  <2>3. fan \in [Threads -> Seq(Frame)]
    BY <1>2, <2>1
  <2>4. steady \in [Threads -> SUBSET Sinks] /\ visited \in [Threads -> Seq(Sinks)]
    BY <2>1, <2>2
  <2> QED  BY <2>3, <2>4 DEF IInv, Functions
<1>4. /\ records \in [Memory -> Seq(SUBSET Groups)] /\ stats \in [Memory -> StatsRecord]
      /\ offered \in [Memory -> Nat] /\ drained \in [Memory -> Nat]
  BY DEF MInv, MemoryFunctions, Counted, StatsRecord
<1>5. SpanTypes
  BY DEF SpanInv
<1> QED  BY <1>1, <1>3, <1>4, <1>5 DEF TypeOK, SpanTypes, RestTypes

\* Every value stays in its range, and a thread that calls, stores for or
\* releases a sink is in a fan-out that has that sink before it.
THEOREM TypeCorrect == Spec => []TypeOK
<1>1. IInv /\ MInv /\ SpanInv /\ OnceInv /\ RestTypes => TypeOK
  BY Typed
<1>2. IInv /\ OnceInv /\ [Next]_vars => OnceInv'
  BY NextOnce
<1> QED
  BY <1>1, <1>2, InitInv, NextInv, InitCounts, NextCounts, InitSpans, NextSpans, InitOnce,
     InitRest, NextRest, PTL DEF Spec
=============================================================================
