------------------------- MODULE TaskContextsProofs -------------------------
(***************************************************************************)
(* Proofs about TaskContexts for any threads, futures, intervals, loggers   *)
(* and bounds: a thread's code runs under the context it has chosen itself  *)
(* or under its future's (OwnContext), every reference is to a context      *)
(* that is alive (TypeOK), no logger hears of a task after its completion   *)
(* from a synchronous call (CompletionIsLast), and the statistics a task    *)
(* reports are of all its intervals (StatisticsComplete).                   *)
(*                                                                          *)
(* OwnContext is not inductive: when a poll returns, the context it saved   *)
(* must be what the code below it had chosen.  Saved says so for every poll *)
(* of a thread's stack, which holds because nobody but the running poll     *)
(* changes the thread's context until it returns.                           *)
(*                                                                          *)
(* CompletionIsLast needs that whoever logs names a live task.  Held says   *)
(* that the live contexts are those on the chain of one that is held,       *)
(* Recorded and Begun that a record's task and an interval's are on the     *)
(* chain of what its thread or the interval holds, Finished that only tasks *)
(* that are not alive were told complete; Polled makes the future that      *)
(* returns the only one a poll can be of, so that its context stays held.   *)
(* Chain and TaskOf are recursive: Rooted, that parents are older, is what  *)
(* gives them values (ClimbExists) and lets them be reasoned about.         *)
(*                                                                          *)
(* StatisticsComplete adds Tallied: the running statistics are the sum over *)
(* the intervals that have ended.  That such a sum grows by what is added   *)
(* to it, in whatever order it is taken, is TotalGrows.                     *)
(***************************************************************************)
EXTENDS TaskContexts, FiniteSetTheorems, WellFoundedInduction, TLAPS

Records == (Seq(Loggers) \ {<<>>}) \cup {NoRecord}
Phases == {"new", "idle", "polled", "done", "dropped"}
Wrapped == [phase : Phases, ctx : Nat, sending : Records]
Saves == [future : Futures, prior : Nat, own : Nat]

\* The contexts are a sequence, and each one's parent is a number.
HasParent(inner) == "parent" \in DOMAIN inner /\ inner.parent \in Nat
Parents == ctx \in Seq({ctx[c] : c \in Ids}) /\ \A c \in Ids : HasParent(ctx[c])

\* As much of the types as the stack of polls needs: contexts are numbers.
Contexts ==
    /\ Parents
    /\ handles \subseteq Nat
    /\ current \in [Threads -> Nat] /\ own \in [Threads -> Nat]
    /\ polls \in [Threads -> Seq(Saves)]
    /\ future \in [Futures -> Wrapped]
    /\ loggers \in Seq(Loggers)

\* What the code under the poll at place n had chosen.
Below(t, n) == IF n = 1 THEN own[t] ELSE polls[t][n - 1].own

Saved == \A t \in Threads : \A n \in 1..Len(polls[t]) : polls[t][n].prior = Below(t, n)

IInv == Contexts /\ Saved /\ OwnContext

StackVars == <<current, polls, own>>

-----------------------------------------------------------------------------
(* The stack of polls *)

\* Nothing is said of a thread whose cell and stack stay as they are.
LEMMA Quiet ==
    ASSUME IInv, UNCHANGED StackVars
    PROVE  Saved' /\ OwnContext'
BY DEF IInv, StackVars, Saved, Below, OwnContext, Top

\* Code that changes its context changes what is remembered of its choice.
LEMMA Chosen ==
    ASSUME IInv, NEW t \in Threads, NEW c \in Nat, MakeCurrent(t, c)
    PROVE  /\ Saved' /\ OwnContext'
           /\ current' \in [Threads -> Nat] /\ own' \in [Threads -> Nat]
           /\ polls' \in [Threads -> Seq(Saves)]
<1>1. CASE current[t] = Gone
  <2>1. UNCHANGED StackVars
    BY <1>1 DEF MakeCurrent, StackVars
  <2> QED  BY <2>1, Quiet DEF StackVars, IInv, Contexts
<1>2. CASE current[t] # Gone /\ polls[t] = <<>>
  <2>1. current' = [current EXCEPT ![t] = c] /\ own' = [own EXCEPT ![t] = c] /\ polls' = polls
    BY <1>2 DEF MakeCurrent
  <2>2. current' \in [Threads -> Nat] /\ own' \in [Threads -> Nat]
        /\ \A u \in Threads : /\ current'[u] = IF u = t THEN c ELSE current[u]
                              /\ own'[u] = IF u = t THEN c ELSE own[u]
    BY <2>1 DEF IInv, Contexts
  <2>3. OwnContext'
    BY <1>2, <2>1, <2>2 DEF IInv, OwnContext, Top
  <2>4. Saved'
    <3> SUFFICES ASSUME NEW u \in Threads, NEW n \in 1..Len(polls[u])
                 PROVE  polls[u][n].prior = Below(u, n)'
      BY <2>1 DEF Saved
    <3>1. u # t
      BY <1>2
    <3> QED  BY ZenonT(60), <2>1, <2>2, <3>1 DEF IInv, Saved, Below
  <2> QED  BY <2>1, <2>2, <2>3, <2>4 DEF IInv, Contexts
<1>3. CASE current[t] # Gone /\ polls[t] # <<>>
  <2> DEFINE last == Len(polls[t])
  <2>1. current' = [current EXCEPT ![t] = c] /\ own' = own
        /\ polls' = [polls EXCEPT ![t][last].own = c]
    BY <1>3 DEF MakeCurrent
  <2>2. polls[t] \in Seq(Saves) /\ last \in Nat \ {0} /\ DOMAIN polls = Threads
    <3>1. polls[t] \in Seq(Saves) /\ DOMAIN polls = Threads
      BY DEF IInv, Contexts
    <3> QED  BY <1>3, <3>1
  <2>3. polls'[t] = [polls[t] EXCEPT ![last].own = c] /\ DOMAIN polls' = Threads
        /\ \A u \in Threads \ {t} : polls'[u] = polls[u]
    BY <2>1, <2>2
  <2>4. /\ polls'[t] \in Seq(Saves) /\ Len(polls'[t]) = last
        /\ \A n \in 1..last : /\ polls'[t][n].prior = polls[t][n].prior
                              /\ polls'[t][n].own = IF n = last THEN c ELSE polls[t][n].own
    <3>1. polls[t][last] \in Saves
      BY <2>2
    <3>2. [polls[t][last] EXCEPT !.own = c]
            = [future |-> polls[t][last].future, prior |-> polls[t][last].prior, own |-> c]
      BY <3>1 DEF Saves
    <3>3. [polls[t][last] EXCEPT !.own = c] \in Saves
      BY <3>1, <3>2 DEF Saves
    <3>4. polls'[t] = [polls[t] EXCEPT ![last] = [polls[t][last] EXCEPT !.own = c]]
      BY <2>3
    <3> QED  BY <2>2, <3>2, <3>3, <3>4
  <2>5. polls' \in [Threads -> Seq(Saves)]
    <3>1. polls' = [u \in Threads |-> polls'[u]]
      BY <2>1, <2>2
    <3> QED  BY <2>3, <2>4, <3>1 DEF IInv, Contexts
  <2>6. current' \in [Threads -> Nat]
        /\ \A u \in Threads : current'[u] = IF u = t THEN c ELSE current[u]
    BY <2>1 DEF IInv, Contexts
  <2>7. OwnContext'
    <3> SUFFICES ASSUME NEW u \in Threads
                 PROVE  current'[u] = IF polls'[u] = <<>> THEN own'[u] ELSE Top(polls'[u]).own
      BY DEF OwnContext, Top
    <3>1. CASE u = t
      BY <2>2, <2>4, <2>6, <3>1 DEF Top
    <3>2. CASE u # t
      BY <2>1, <2>3, <2>6, <3>2 DEF IInv, OwnContext, Top
    <3> QED  BY <3>1, <3>2
  <2>8. Saved'
    <3> SUFFICES ASSUME NEW u \in Threads, NEW n \in 1..Len(polls'[u])
                 PROVE  polls'[u][n].prior = IF n = 1 THEN own'[u] ELSE polls'[u][n - 1].own
      BY DEF Saved, Below
    <3>1. CASE u = t
      <4>1. polls[t][n].prior = Below(t, n) /\ n \in 1..last
        BY <2>4, <3>1 DEF IInv, Saved
      <4>2. n # 1 => n - 1 \in 1..last /\ n - 1 # last
        BY <2>2, <4>1
      <4> HIDE DEF last
      <4> QED  BY <2>1, <2>4, <3>1, <4>1, <4>2 DEF Below
    <3>2. CASE u # t
      BY <2>1, <2>3, <3>2 DEF IInv, Saved, Below
    <3> QED  BY <3>1, <3>2
  <2> QED  BY <2>1, <2>5, <2>6, <2>7, <2>8 DEF IInv, Contexts
<1> QED  BY <1>1, <1>2, <1>3

\* A poll saves the context it finds, which is what the code below it chose.
LEMMA Pushed ==
    ASSUME IInv, NEW t \in Threads, NEW f \in Futures, NEW c \in Nat,
           own' = own, current' = [current EXCEPT ![t] = c],
           polls' = [polls EXCEPT ![t] = Append(@, [future |-> f, prior |-> current[t], own |-> c])]
    PROVE  /\ Saved' /\ OwnContext'
           /\ current' \in [Threads -> Nat] /\ polls' \in [Threads -> Seq(Saves)]
<1> DEFINE p == [future |-> f, prior |-> current[t], own |-> c]
           last == Len(polls[t])
<1>1. p \in Saves /\ polls[t] \in Seq(Saves) /\ last \in Nat
  <2>1. polls[t] \in Seq(Saves) /\ current[t] \in Nat
    BY DEF IInv, Contexts
  <2> QED  BY <2>1 DEF Saves
<1>2. polls'[t] = Append(polls[t], p) /\ \A u \in Threads \ {t} : polls'[u] = polls[u]
  BY DEF IInv, Contexts
<1>3. current' \in [Threads -> Nat]
      /\ \A u \in Threads : current'[u] = IF u = t THEN c ELSE current[u]
  BY DEF IInv, Contexts
<1>4. polls' \in [Threads -> Seq(Saves)]
  <2>1. Append(polls[t], p) \in Seq(Saves)
    BY <1>1
  <2> QED  BY <2>1 DEF IInv, Contexts
<1>5. Len(polls'[t]) = last + 1 /\ polls'[t] # <<>>
      /\ \A n \in 1..(last + 1) : polls'[t][n] = IF n = last + 1 THEN p ELSE polls[t][n]
  BY <1>1, <1>2
<1>6. OwnContext'
  <2> SUFFICES ASSUME NEW u \in Threads
               PROVE  current'[u] = IF polls'[u] = <<>> THEN own'[u] ELSE Top(polls'[u]).own
    BY DEF OwnContext, Top
  <2>1. CASE u = t
    BY <1>1, <1>3, <1>5, <2>1 DEF Top
  <2>2. CASE u # t
    BY <1>2, <1>3, <2>2 DEF IInv, OwnContext, Top
  <2> QED  BY <2>1, <2>2
<1>7. Saved'
  <2> SUFFICES ASSUME NEW u \in Threads, NEW n \in 1..Len(polls'[u])
               PROVE  polls'[u][n].prior = IF n = 1 THEN own'[u] ELSE polls'[u][n - 1].own
    BY DEF Saved, Below
  <2>1. CASE u # t
    BY <1>2, <2>1 DEF IInv, Saved, Below
  <2>2. CASE u = t /\ n # last + 1
    <3>1. n \in 1..last /\ (n # 1 => n - 1 \in 1..(last + 1) /\ n - 1 # last + 1)
      BY <1>1, <1>5, <2>2
    <3>2. polls[t][n].prior = Below(t, n)
      BY <3>1 DEF IInv, Saved
    <3> HIDE DEF last
    <3> QED  BY <1>5, <2>2, <3>1, <3>2 DEF Below
  <2>3. CASE u = t /\ n = last + 1
    <3>1. current[t] = Below(t, last + 1)
      <4>1. last = 0 <=> polls[t] = <<>>
        BY <1>1
      <4> QED  BY <1>1, <4>1 DEF IInv, OwnContext, Below, Top
    <3>2. n # 1 => n - 1 = last /\ last \in 1..(last + 1) /\ last # last + 1
      BY <1>1, <2>3
    <3> HIDE DEF last
    <3> QED  BY <1>5, <2>3, <3>1, <3>2 DEF Below
  <2> QED  BY <2>1, <2>2, <2>3
<1> QED  BY <1>3, <1>4, <1>6, <1>7

\* A poll's return uncovers what the code below it chose.
LEMMA Popped ==
    ASSUME IInv, NEW t \in Threads, polls[t] # <<>>,
           own' = own, current' = [current EXCEPT ![t] = Top(polls[t]).prior],
           polls' = [polls EXCEPT ![t] = SubSeq(@, 1, Len(@) - 1)]
    PROVE  /\ Saved' /\ OwnContext'
           /\ current' \in [Threads -> Nat] /\ polls' \in [Threads -> Seq(Saves)]
<1> DEFINE last == Len(polls[t])
<1>1. polls[t] \in Seq(Saves) /\ last \in Nat \ {0} /\ Top(polls[t]).prior \in Nat
  <2>1. polls[t] \in Seq(Saves)
    BY DEF IInv, Contexts
  <2>2. last \in Nat \ {0}
    BY <2>1
  <2>3. polls[t][last] \in Saves
    BY <2>1, <2>2
  <2> QED  BY <2>1, <2>2, <2>3 DEF Saves, Top
<1>2. polls'[t] = SubSeq(polls[t], 1, last - 1) /\ \A u \in Threads \ {t} : polls'[u] = polls[u]
  BY DEF IInv, Contexts
<1>3. current' \in [Threads -> Nat]
      /\ \A u \in Threads : current'[u] = IF u = t THEN Top(polls[t]).prior ELSE current[u]
  BY <1>1 DEF IInv, Contexts
<1>4. polls' \in [Threads -> Seq(Saves)]
  <2>1. SubSeq(polls[t], 1, last - 1) \in Seq(Saves)
    BY <1>1
  <2> QED  BY <2>1 DEF IInv, Contexts
<1>5. Len(polls'[t]) = last - 1 /\ (polls'[t] = <<>> <=> last = 1)
      /\ \A n \in 1..(last - 1) : polls'[t][n] = polls[t][n]
  <2>1. last - 1 \in 0..last /\ last \in Nat
    BY <1>1
  <2>2. SubSeq(polls[t], 1, last - 1) \in Seq(Saves)
        /\ Len(SubSeq(polls[t], 1, last - 1)) = last - 1
        /\ \A n \in 1..(last - 1) : SubSeq(polls[t], 1, last - 1)[n] = polls[t][n]
    <3>1. \A k \in 0..Len(polls[t]) :
             /\ SubSeq(polls[t], 1, k) \in Seq(Saves) /\ Len(SubSeq(polls[t], 1, k)) = k
             /\ \A n \in 1..k : SubSeq(polls[t], 1, k)[n] = polls[t][n]
      BY <1>1
    <3> QED  BY <2>1, <3>1
  <2>3. \A s \in Seq(Saves) : s = <<>> <=> Len(s) = 0
    OBVIOUS
  <2> HIDE DEF last
  <2>4. polls'[t] \in Seq(Saves) /\ Len(polls'[t]) = last - 1
    BY <1>2, <2>2
  <2>5. last - 1 = 0 <=> last = 1
    BY <2>1
  <2>6. polls'[t] = <<>> <=> Len(polls'[t]) = 0
    BY <2>3, <2>4, Zenon
  <2>7. polls'[t] = <<>> <=> last = 1
    BY <2>4, <2>5, <2>6, Zenon
  <2> QED  BY <1>2, <2>2, <2>4, <2>7
<1>6. OwnContext'
  <2> SUFFICES ASSUME NEW u \in Threads
               PROVE  current'[u] = IF polls'[u] = <<>> THEN own'[u] ELSE Top(polls'[u]).own
    BY DEF OwnContext, Top
  <2>1. CASE u = t
    <3>1. Top(polls[t]).prior = Below(t, last)
      BY <1>1 DEF IInv, Saved, Top
    <3>2. last \in Nat \ {0}
      BY <1>1
    <3> HIDE DEF last
    <3>3. last # 1 => last - 1 \in 1..(last - 1)
      BY <3>2
    <3> QED  BY <1>3, <1>5, <2>1, <3>1, <3>3 DEF Below, Top
  <2>2. CASE u # t
    BY <1>2, <1>3, <2>2 DEF IInv, OwnContext, Top
  <2> QED  BY <2>1, <2>2
<1>7. Saved'
  <2> SUFFICES ASSUME NEW u \in Threads, NEW n \in 1..Len(polls'[u])
               PROVE  polls'[u][n].prior = IF n = 1 THEN own'[u] ELSE polls'[u][n - 1].own
    BY DEF Saved, Below
  <2>1. CASE u # t
    BY <1>2, <2>1 DEF IInv, Saved, Below
  <2>2. CASE u = t
    <3>1. n \in 1..last /\ n \in 1..(last - 1) /\ (n # 1 => n - 1 \in 1..(last - 1))
      BY <1>1, <1>5, <2>2
    <3>2. polls[t][n].prior = Below(t, n)
      BY <3>1 DEF IInv, Saved
    <3> HIDE DEF last
    <3> QED  BY <1>5, <2>2, <3>1, <3>2 DEF Below
  <2> QED  BY <2>1, <2>2
<1> QED  BY <1>3, <1>4, <1>6, <1>7

-----------------------------------------------------------------------------
(* The other variables *)

\* A step that leaves the stacks alone keeps the invariant if it keeps types.
LEMMA Aside ==
    ASSUME IInv, UNCHANGED StackVars, Parents', handles' \subseteq Nat,
           future' \in [Futures -> Wrapped], loggers' \in Seq(Loggers)
    PROVE  IInv'
<1>1. Contexts'
  BY DEF IInv, Contexts, StackVars
<1> QED  BY <1>1, Quiet DEF IInv

\* A context that is created has a parent too.
LEMMA Created ==
    ASSUME IInv, NEW inner, HasParent(inner), Create(inner)
    PROVE  Parents' /\ New \in Nat
<1>1. ctx \in Seq({ctx[c] : c \in Ids}) /\ \A c \in Ids : HasParent(ctx[c])
  BY DEF IInv, Contexts, Parents
<1>2. \A S, s, e : s \in Seq(S) =>
         /\ Len(s) \in Nat /\ Append(s, e) \in Seq(S \cup {e})
         /\ Len(Append(s, e)) = Len(s) + 1
         /\ \A c \in 1..(Len(s) + 1) : Append(s, e)[c] = IF c = Len(s) + 1 THEN e ELSE s[c]
  OBVIOUS
<1>3. /\ Len(ctx) \in Nat /\ Len(ctx') = Len(ctx) + 1
      /\ ctx' \in Seq({ctx[c] : c \in Ids} \cup {inner})
      /\ \A c \in 1..(Len(ctx) + 1) : ctx'[c] = IF c = Len(ctx) + 1 THEN inner ELSE ctx[c]
  BY <1>1, <1>2 DEF Create
<1>4. {ctx[c] : c \in Ids} \cup {inner} \subseteq {ctx'[c] : c \in 1..Len(ctx')}
  <2>1. \A c \in 1..Len(ctx) : c \in 1..Len(ctx') /\ ctx'[c] = ctx[c]
    BY <1>3
  <2>2. Len(ctx) + 1 \in 1..Len(ctx') /\ ctx'[Len(ctx) + 1] = inner
    BY <1>3
  <2> QED  BY <2>1, <2>2 DEF Ids
<1>5. ctx' \in Seq({ctx'[c] : c \in 1..Len(ctx')})
  <2>1. \A S, T, s : s \in Seq(S) /\ S \subseteq T => s \in Seq(T)
    OBVIOUS
  <2> QED  BY <1>3, <1>4, <2>1
<1>6. \A c \in 1..Len(ctx') : HasParent(ctx'[c])
  BY SMTT(30), <1>1, <1>3 DEF Ids
<1> QED  BY <1>3, <1>5, <1>6 DEF Parents, Ids, New

\* So are the contexts a step can name.
LEMMA Names ==
    ASSUME IInv
    PROVE  /\ \A c \in Ids : c \in Nat /\ ctx[c].parent \in Nat
           /\ \A c \in handles : c \in Nat
           /\ \A f \in Futures : future[f] \in Wrapped /\ future[f].ctx \in Nat
           /\ Lists(Loggers) \subseteq Seq(Loggers)
<1>1. Parents /\ handles \subseteq Nat /\ future \in [Futures -> Wrapped]
  BY DEF IInv, Contexts
<1>2. \A c \in Ids : c \in Nat /\ ctx[c].parent \in Nat
  BY <1>1 DEF Parents, HasParent, Ids
<1>3. \A f \in Futures : future[f] \in Wrapped /\ future[f].ctx \in Nat
  BY <1>1 DEF Wrapped
<1>4. Lists(Loggers) \subseteq Seq(Loggers)
  BY DEF Lists
<1> QED  BY <1>1, <1>2, <1>3, <1>4

\* Tracing a context leaves its parent.
LEMMA Traced ==
    ASSUME IInv, NEW d, ctx' = [ctx EXCEPT ![d].tracing = TRUE]
    PROVE  Parents'
<1>1. ctx \in Seq({ctx[c] : c \in Ids}) /\ \A c \in Ids : HasParent(ctx[c])
  BY DEF IInv, Contexts, Parents
<1>2. \A S, s : s \in Seq(S) => Len(s) \in Nat /\ s = [c \in 1..Len(s) |-> s[c]]
  OBVIOUS
<1>3. \A s, n \in Nat : s = [c \in 1..n |-> s[c]] => Len(s) = n /\ s \in Seq({s[c] : c \in 1..n})
  OBVIOUS
<1>4. Len(ctx) \in Nat /\ DOMAIN ctx = 1..Len(ctx)
  BY <1>1, <1>2
<1>5. ctx' = [c \in 1..Len(ctx) |-> ctx'[c]]
  BY <1>4
<1>6. Len(ctx') = Len(ctx) /\ ctx' \in Seq({ctx'[c] : c \in 1..Len(ctx')})
  <2> DEFINE s == ctx'
             n == Len(ctx)
  <2>1. n \in Nat /\ s = [c \in 1..n |-> s[c]]
    BY <1>4, <1>5
  <2> HIDE DEF s, n
  <2>2. Len(s) = n /\ s \in Seq({s[c] : c \in 1..n})
    BY <1>3, <2>1
  <2>3. s \in Seq({s[c] : c \in 1..Len(s)})
    BY <2>2
  <2> QED  BY <2>2, <2>3 DEF s, n
<1>7. \A c \in 1..Len(ctx) : HasParent(ctx'[c])
  BY <1>1, <1>4 DEF HasParent, Ids
<1> QED  BY <1>6, <1>7 DEF Parents, Ids

\* A future with another phase, context or record to send is still one.
LEMMA FutureStep ==
    ASSUME IInv, NEW f
    PROVE  /\ \A phase \in Phases : [future EXCEPT ![f].phase = phase] \in [Futures -> Wrapped]
           /\ \A sending \in Records :
                [future EXCEPT ![f].sending = sending] \in [Futures -> Wrapped]
           /\ \A phase \in Phases, c \in Nat :
                [future EXCEPT ![f].phase = phase, ![f].ctx = c] \in [Futures -> Wrapped]
           /\ \A phase \in Phases, c \in Nat :
                [future EXCEPT ![f] = [phase |-> phase, ctx |-> c, sending |-> NoRecord]]
                  \in [Futures -> Wrapped]
<1>1. future \in [Futures -> Wrapped] /\ NoRecord \in Records
  BY DEF IInv, Contexts, Records
<1> QED  BY <1>1 DEF Wrapped

-----------------------------------------------------------------------------
(* The inductive invariant *)

LEMMA InvInit == Init => IInv
<1> SUFFICES ASSUME Init PROVE IInv
  OBVIOUS
<1>1. Detached \in Nat
  BY ThreadsAssumption, FS_CardinalityType DEF Detached
<1>2. current \in [Threads -> Nat] /\ own \in [Threads -> Nat] /\ own = current
  BY <1>1 DEF Init
<1>3. Parents
  <2>1. \A inner, n \in Nat : /\ [c \in 1..n |-> inner] \in Seq({inner})
                              /\ Len([c \in 1..n |-> inner]) = n
                              /\ \A c \in 1..n : [d \in 1..n |-> inner][c] = inner
    OBVIOUS
  <2>2. ctx = [c \in 1..Detached |-> Inner(0, TRUE, FALSE, FALSE)]
    BY DEF Init
  <2>3. HasParent(Inner(0, TRUE, FALSE, FALSE))
    BY DEF Inner, HasParent
  <2> HIDE DEF Init
  <2> DEFINE n == Detached
             inner == Inner(0, TRUE, FALSE, FALSE)
  <2>4. /\ ctx \in Seq({inner}) /\ Len(ctx) = n /\ n \in Nat
        /\ \A c \in 1..n : ctx[c] = inner
    BY <1>1, <2>1, <2>2
  <2> HIDE DEF n, inner
  <2>5. ctx \in Seq({ctx[c] : c \in 1..Len(ctx)})
    BY <2>4
  <2> QED  BY <2>3, <2>4, <2>5 DEF Parents, Ids, inner
<1>4. polls \in [Threads -> Seq(Saves)] /\ \A t \in Threads : polls[t] = <<>>
  BY DEF Init
<1>5. future \in [Futures -> Wrapped]
  <2>1. [phase |-> "new", ctx |-> Gone, sending |-> NoRecord] \in Wrapped
    BY DEF Wrapped, Phases, Records, Gone
  <2>2. future = [f \in Futures |-> [phase |-> "new", ctx |-> Gone, sending |-> NoRecord]]
    BY DEF Init
  <2> QED  BY <2>1, <2>2, Zenon
<1>6. handles \subseteq Nat /\ loggers \in Seq(Loggers)
  BY DEF Init
<1>7. Saved /\ OwnContext
  BY <1>2, <1>4 DEF Saved, OwnContext
<1> QED  BY <1>2, <1>3, <1>4, <1>5, <1>6, <1>7 DEF IInv, Contexts

\* The context a thread logs under.
LEMMA CurrentIsContext ==
    ASSUME IInv, NEW t \in Threads
    PROVE  Current(t) \in Nat
<1>1. Detached \in Nat
  BY ThreadsAssumption, FS_CardinalityType DEF Detached
<1> QED  BY <1>1 DEF Current, IInv, Contexts

\* What a step that only writes or sends a record leaves alone.
Calm == <<ctx, handles, current, polls, own, loggers>>

\* Such a step keeps the invariant if it keeps the futures' types.
LEMMA Sending ==
    ASSUME IInv, UNCHANGED Calm, future' \in [Futures -> Wrapped]
    PROVE  IInv'
BY Aside DEF Calm, StackVars, IInv, Contexts, Parents, Ids

\* A call of a logging macro starts a record and nothing else.
LEMMA CallIsPre ==
    ASSUME NEW t \in Threads, Call(t)
    PROVE  \E awaits \in BOOLEAN : Pre(t, awaits)
BY DEF Call, WarnCall, TraceCall, DebugInternalCall, InfoCall, ErrorCall, MandatoryCall,
       ProfileCall, TraceRecord, DebugInternalRecord, InfoRecord, WarnRecord, ErrorRecord,
       MandatoryRecord, ProfileRecord

\* Every action of a thread keeps the invariant.
LEMMA InvThread ==
    ASSUME IInv, NEW t \in Threads, Thread(t)
    PROVE  IInv'
<1> USE DEF contextVars, reportVars
<1>1. Current(t) \in Nat
  BY CurrentIsContext
<1>2. /\ Parents /\ handles \subseteq Nat /\ loggers \in Seq(Loggers)
      /\ future \in [Futures -> Wrapped] /\ current[t] \in Nat
  BY DEF IInv, Contexts
<1>3. ASSUME NEW parent \in 0..Len(ctx), NEW completes \in Internal, NewTask(t, parent, completes)
      PROVE  IInv'
  <2>1. HasParent(Inner(parent, TRUE, completes, FALSE))
    BY DEF Inner, HasParent
  <2>2. Create(Inner(parent, TRUE, completes, FALSE)) /\ handles' = handles \cup {New}
        /\ UNCHANGED StackVars /\ UNCHANGED <<future, loggers>>
    BY <1>3 DEF NewTask, StackVars
  <2>3. Parents' /\ New \in Nat
    BY <2>1, <2>2, Created
  <2> QED  BY <1>2, <2>2, <2>3, Aside
<1>4. CASE FromParent(t)
  <2>1. HasParent(Inner(Current(t), FALSE, FALSE, ctx[Current(t)].tracing))
    BY <1>1 DEF Inner, HasParent
  <2>2. Create(Inner(Current(t), FALSE, FALSE, ctx[Current(t)].tracing))
        /\ handles' = handles \cup {New}
        /\ UNCHANGED StackVars /\ UNCHANGED <<future, loggers>>
    BY <1>4 DEF FromParent, StackVars
  <2>3. Parents' /\ New \in Nat
    BY <2>1, <2>2, Created
  <2> QED  BY <1>2, <2>2, <2>3, Aside
<1>5. CASE Reset(t)
  <2>1. HasParent(Inner(0, TRUE, TRUE, FALSE))
    BY DEF Inner, HasParent
  <2>2. Create(Inner(0, TRUE, TRUE, FALSE)) /\ MakeCurrent(t, New)
        /\ UNCHANGED <<handles, future, loggers>>
    BY <1>5 DEF Reset
  <2>3. Parents' /\ New \in Nat
    BY <2>1, <2>2, Created
  <2>4. /\ Saved' /\ OwnContext'
        /\ current' \in [Threads -> Nat] /\ own' \in [Threads -> Nat]
        /\ polls' \in [Threads -> Seq(Saves)]
    BY <2>2, <2>3, Chosen
  <2> QED  BY <1>2, <2>2, <2>3, <2>4 DEF IInv, Contexts
<1>6. ASSUME NEW c \in Nat, MakeCurrent(t, c), UNCHANGED <<contextVars, future, loggers>>
      PROVE  IInv'
  <2>1. /\ Saved' /\ OwnContext'
        /\ current' \in [Threads -> Nat] /\ own' \in [Threads -> Nat]
        /\ polls' \in [Threads -> Seq(Saves)]
    BY <1>6, Chosen
  <2>2. Parents'
    BY <1>2, <1>6 DEF Parents, Ids
  <2> QED  BY <1>2, <1>6, <2>1, <2>2 DEF IInv, Contexts
<1>7. ASSUME UNCHANGED Calm, future' \in [Futures -> Wrapped]
      PROVE  IInv'
  BY <1>7, Sending
<1>8. ASSUME NEW c \in Ids, SetCurrent(t, c)
      PROVE  IInv'
  BY <1>2, <1>6, <1>8 DEF SetCurrent
<1>9. ASSUME NEW c \in Ids, Pop(t, c)
      PROVE  IInv'
  <2>1. CASE MakeCurrent(t, ctx[c].parent)
    BY <1>6, <1>9, <2>1, Names DEF Pop
  <2>2. CASE UNCHANGED <<current, polls, own>>
    BY <1>2, <1>7, <1>9, <2>2 DEF Pop, Calm
  <2> QED  BY <1>9, <2>1, <2>2 DEF Pop
<1>10. CASE BeginTrace(t)
  <2>1. ctx' = [ctx EXCEPT ![Current(t)].tracing = TRUE] /\ UNCHANGED StackVars
        /\ UNCHANGED <<handles, future, loggers>>
    BY <1>10 DEF BeginTrace, StackVars
  <2>2. Parents'
    BY <2>1, Traced
  <2> QED  BY <1>2, <2>1, <2>2, Aside
<1>11. CASE Call(t)
  BY <1>2, <1>7, <1>11, CallIsPre DEF Pre, Calm
<1>12. CASE SyncPost(t)
  BY <1>2, <1>7, <1>12 DEF SyncPost, Calm
<1>13. CASE AsyncPost(t)
  <2>1. (IF loggers = <<>> THEN NoRecord ELSE loggers) \in Records
    BY <1>2 DEF Records
  <2> QED  BY <1>7, <1>13, <2>1, FutureStep DEF AsyncPost, Calm
<1>14. CASE Awaited(t)
  <2> DEFINE f == Top(polls[t]).future
             rest == IF Len(future[f].sending) = 1 THEN NoRecord ELSE Tail(future[f].sending)
  <2>1. f \in Futures /\ future[f].sending # NoRecord
    <3>1. polls[t] \in Seq(Saves) /\ polls[t] # <<>>
      BY <1>14 DEF Awaited, IInv, Contexts
    <3>2. Top(polls[t]) \in Saves
      BY <3>1 DEF Top
    <3> QED  BY <1>14, <3>2 DEF Awaited, Saves
  <2>2. future[f].sending \in Seq(Loggers) \ {<<>>}
    BY <1>2, <2>1 DEF Wrapped, Records
  <2>3. rest \in Records
    <3>1. \A s \in Seq(Loggers) \ {<<>>} : Len(s) # 1 => Tail(s) \in Seq(Loggers) \ {<<>>}
      <4>1. \A s \in Seq(Loggers) \ {<<>>} : Len(s) \in Nat \ {0} /\ Tail(s) \in Seq(Loggers)
                                             /\ Len(Tail(s)) = Len(s) - 1
        OBVIOUS
      <4>2. SUFFICES ASSUME NEW s \in Seq(Loggers) \ {<<>>}, Len(s) # 1, Tail(s) = <<>>
                     PROVE  FALSE
        BY <4>1
      <4>3. Len(<<>>) = 0
        OBVIOUS
      <4>4. Len(Tail(s)) = 0
        BY <4>2, <4>3, Zenon
      <4> QED  BY <4>1, <4>2, <4>4
    <3> QED  BY <2>2, <3>1 DEF Records
  <2>4. future' = [future EXCEPT ![f].sending = rest] /\ UNCHANGED Calm
    BY <1>14 DEF Awaited, Calm
  <2> HIDE DEF f, rest
  <2> QED  BY <1>7, <2>3, <2>4, FutureStep
<1>15. ASSUME NEW f \in Futures, NEW c \in Ids, Wrap(t, f, c)
       PROVE  IInv'
  <2>1. c \in Nat
    BY DEF Ids
  <2> QED  BY <1>7, <1>15, <2>1, FutureStep DEF Wrap, Calm, Phases
<1>16. ASSUME NEW f \in Futures, Poll(t, f)
       PROVE  IInv'
  <2>1. future[f].ctx \in Nat
    BY Names
  <2>2. /\ own' = own /\ current' = [current EXCEPT ![t] = future[f].ctx]
        /\ polls' = [polls EXCEPT ![t] = Append(@,
             [future |-> f, prior |-> current[t], own |-> future[f].ctx])]
        /\ future' = [future EXCEPT ![f].phase = "polled"]
        /\ UNCHANGED <<ctx, handles, loggers>>
    BY <1>16 DEF Poll
  <2>3. /\ Saved' /\ OwnContext'
        /\ current' \in [Threads -> Nat] /\ polls' \in [Threads -> Seq(Saves)]
    BY <2>1, <2>2, Pushed
  <2>4. future' \in [Futures -> Wrapped] /\ own' \in [Threads -> Nat]
    BY <2>2, FutureStep DEF IInv, Contexts, Phases
  <2> QED  BY <1>2, <2>2, <2>3, <2>4 DEF IInv, Contexts, Parents, Ids
<1>17. ASSUME NEW outcome \in {"pending", "ready", "panic"}, Return(t, outcome)
       PROVE  IInv'
  <2> DEFINE f == Top(polls[t]).future
             phase == IF outcome = "pending" THEN "idle" ELSE "done"
  <2>1. /\ polls[t] # <<>> /\ own' = own
        /\ current' = [current EXCEPT ![t] = Top(polls[t]).prior]
        /\ polls' = [polls EXCEPT ![t] = SubSeq(@, 1, Len(@) - 1)]
        /\ future' = [future EXCEPT ![f].phase = phase]
        /\ UNCHANGED <<ctx, handles, loggers>>
    BY <1>17 DEF Return, Restored
  <2>2. /\ Saved' /\ OwnContext'
        /\ current' \in [Threads -> Nat] /\ polls' \in [Threads -> Seq(Saves)]
    BY <2>1, Popped
  <2>3. phase \in Phases
    BY DEF Phases
  <2> HIDE DEF f, phase
  <2>4. future' \in [Futures -> Wrapped] /\ own' \in [Threads -> Nat]
    BY <2>1, <2>3, FutureStep DEF IInv, Contexts
  <2> QED  BY <1>2, <2>1, <2>2, <2>4 DEF IInv, Contexts, Parents, Ids
<1>18. CASE ThreadExit(t)
  <2>1. /\ MakeCurrent(t, Gone) /\ UNCHANGED <<contextVars, future, loggers>>
    BY <1>18 DEF ThreadExit, MakeCurrent
  <2> QED  BY <1>6, <2>1 DEF Gone
<1>19. ASSUME NEW i \in Intervals,
              \/ PerfwarnCall(t, i) \/ PerfwarnIfCall(t, i) \/ ProfiledCall(t, i)
              \/ \E spent \in Durations :
                   PerfwarnEnd(t, i, spent) \/ PerfwarnIfEnd(t, i, spent) \/ ProfileEnd(t, i, spent)
       PROVE  IInv'
  <2>1. UNCHANGED <<Calm, future>>
    BY <1>19 DEF PerfwarnCall, PerfwarnIfCall, ProfiledCall, PerfwarnBegin, PerfwarnBeginIf,
                 ProfileBegin, Begin, PerfwarnEnd, PerfwarnIfEnd, ProfileEnd, End, Calm
  <2> QED  BY <1>2, <1>7, <2>1
<1> QED  BY <1>3, <1>4, <1>5, <1>8, <1>9, <1>10, <1>11, <1>12, <1>13, <1>14, <1>15, <1>16, <1>17,
            <1>18, <1>19 DEF Thread

LEMMA InvNext == IInv /\ [Next]_vars => IInv'
<1> SUFFICES ASSUME IInv, [Next]_vars PROVE IInv'
  OBVIOUS
<1> USE DEF contextVars
<1>1. /\ Parents /\ handles \subseteq Nat /\ loggers \in Seq(Loggers)
      /\ future \in [Futures -> Wrapped]
  BY DEF IInv, Contexts
<1>2. ASSUME NEW c \in handles, DropHandle(c)
      PROVE  IInv'
  BY <1>1, <1>2, Aside DEF DropHandle, StackVars, Parents, Ids
<1>3. ASSUME NEW f \in Futures, DropFuture(f)
      PROVE  IInv'
  <2>1. future' \in [Futures -> Wrapped]
    BY <1>3, FutureStep DEF DropFuture, Gone, Phases
  <2> QED  BY <1>3, <2>1, Sending DEF DropFuture, Calm
<1>4. ASSUME NEW l \in Loggers, AddLogger(l)
      PROVE  IInv'
  BY <1>1, <1>4, Aside DEF AddLogger, StackVars, Parents, Ids
<1>5. ASSUME NEW list \in Lists(Loggers), SetLoggers(list)
      PROVE  IInv'
  <2>1. list \in Seq(Loggers)
    BY Names
  <2> QED  BY <1>1, <1>5, <2>1, Aside DEF SetLoggers, StackVars, Parents, Ids
<1>6. CASE UNCHANGED vars
  BY <1>1, <1>6, Sending DEF vars, Calm
<1> QED  BY <1>2, <1>3, <1>4, <1>5, <1>6, InvThread DEF Next

\* Code runs under the context it has chosen itself, or under the one of the
\* future it is polled in, whatever its neighbours' polls, panics and moves
\* between threads left behind (ApplyContext::poll and its drop guard).
THEOREM OwnContextKept == Spec => []OwnContext
<1>1. IInv => OwnContext
  BY DEF IInv
<1> QED  BY InvInit, InvNext, <1>1, PTL DEF Spec

-----------------------------------------------------------------------------
(* The chains of parents, and who keeps a context *)

Inners == [parent : Nat, task : BOOLEAN, completes : BOOLEAN, tracing : BOOLEAN]

\* A parent is older than its children, and a context without one is a task's.
Rooted ==
    /\ ctx \in Seq(Inners) /\ Detached \in Ids
    /\ \A c \in Ids : ctx[c].parent < c /\ (ctx[c].parent = 0 => ctx[c].task)

\* Whoever holds a context holds one that was created, and nobody holds another.
Held ==
    /\ live = Alive /\ Holders \subseteq Ids \cup {Gone} /\ Gone \notin handles
    /\ own \in [Threads -> Ids \cup {Gone}]

\* A future is polled in one place, and has its context until it is dropped.
Polled ==
    /\ \A f \in Futures : future[f].ctx = Gone <=> future[f].phase \in {"new", "dropped"}
    /\ \A t \in Threads : \A n \in 1..Len(polls[t]) :
          /\ polls[t][n].prior # Gone /\ polls[t][n].own \in Ids
          /\ future[polls[t][n].future].phase = "polled"
    /\ \A t, u \in Threads : \A n \in 1..Len(polls[t]), m \in 1..Len(polls[u]) :
          polls[t][n].future = polls[u][m].future => t = u /\ n = m

\* A record names the task its thread is still under.
Recorded ==
    /\ writing \in [Threads -> [task : Ids, awaits : BOOLEAN] \cup {NoRecord}]
    /\ \A t \in Threads : writing[t] # NoRecord => writing[t].task = TaskOf[Current(t)]

Spans == [phase : {"new", "open", "ended"}, kind : {"plain", "if", "profile"},
          ctx : Nat, owner : Nat, spent : Nat]

\* An open interval holds a context of the task it was begun under.
Begun ==
    /\ interval \in [Intervals -> Spans]
    /\ \A i \in Intervals :
          /\ interval[i].ctx = Gone <=> interval[i].phase # "open"
          /\ interval[i].phase = "open" => interval[i].owner = TaskOf[interval[i].ctx]
          /\ interval[i].owner \in Ids \cup {Gone}

\* A logger has the completion of dropped tasks only, and heard of none since.
Finished ==
    /\ stats \in [Ids -> Nat] /\ limits \in [Ids -> Nat] /\ reported \in [Ids -> Nat]
    /\ told \in [Loggers -> SUBSET (Ids \ live)]
    /\ late = [l \in Loggers |-> {}]

TaskInv == IInv /\ Rooted /\ Held /\ Polled /\ Recorded /\ Begun /\ Finished

\* A set that has zero and every successor of a number in it has every number.
LEMMA SetInduction ==
    ASSUME NEW T, 0 \in T, \A n \in Nat : n \in T => n + 1 \in T
    PROVE  Nat \subseteq T
<1> SUFFICES ASSUME Nat \ T # {} PROVE FALSE
  OBVIOUS
<1>1. IsWellFoundedOn(OpToRel(<, Nat), Nat)
  BY NatLessThanWellFounded
<1>2. PICK x \in Nat \ T : \A y \in Nat \ T : ~ (<<y, x>> \in OpToRel(<, Nat))
  BY <1>1, WFMin
<1>3. \A y \in Nat \ T : ~(y < x)
  BY <1>2 DEF OpToRel
<1>4. x # 0 /\ x - 1 \in Nat /\ x - 1 < x /\ (x - 1) + 1 = x
  OBVIOUS
<1> QED  BY <1>3, <1>4

\* The values g of a recursion that goes from c to the smaller number down[c].
Climbs(g, N, down, base, step) ==
    \A c \in Nat : g[c] = IF c \in 1..N THEN step[c][g[down[c]]] ELSE base

\* Such a recursion has a value at each number.
LEMMA ClimbExists ==
    ASSUME NEW N \in Nat, NEW V, NEW base \in V, NEW step \in [1..N -> [V -> V]],
           NEW down \in [1..N -> Nat], \A c \in 1..N : down[c] < c
    PROVE  \E g \in [Nat -> V] : Climbs(g, N, down, base, step)
<1> DEFINE Up(m, g) == /\ g \in [Nat -> V]
                       /\ \A c \in Nat : c <= m =>
                            g[c] = IF c \in 1..N THEN step[c][g[down[c]]] ELSE base
           T == {m \in Nat : \E g : Up(m, g)}
<1>1. 0 \in T
  <2>1. Up(0, [c \in Nat |-> base])
    OBVIOUS
  <2> QED  BY <2>1
<1>2. ASSUME NEW m \in Nat, m \in T
      PROVE  \E g : Up(m + 1, g)
  <2>1. PICK g : Up(m, g)
    BY <1>2
  <2> DEFINE v == IF m + 1 \in 1..N THEN step[m + 1][g[down[m + 1]]] ELSE base
             h == [c \in Nat |-> IF c = m + 1 THEN v ELSE g[c]]
  <2>2. v \in V
    BY <2>1
  <2>3. h \in [Nat -> V] /\ h[m + 1] = v /\ \A c \in Nat : c # m + 1 => h[c] = g[c]
    BY <2>1, <2>2
  <2> HIDE DEF h
  <2>4. ASSUME NEW c \in Nat, c <= m + 1
        PROVE  h[c] = IF c \in 1..N THEN step[c][h[down[c]]] ELSE base
    <3>1. c \in 1..N => down[c] \in Nat /\ down[c] # m + 1
      BY <2>4
    <3>2. CASE c = m + 1
      BY <2>3, <3>1, <3>2
    <3>3. CASE c # m + 1
      <4>1. c <= m
        BY <2>4, <3>3
      <4>2. g[c] = IF c \in 1..N THEN step[c][g[down[c]]] ELSE base
        BY <2>1, <4>1
      <4> HIDE DEF Up
      <4> QED  BY <2>3, <3>1, <3>3, <4>2
    <3> QED  BY <3>2, <3>3
  <2>5. Up(m + 1, h)
    BY <2>3, <2>4
  <2> HIDE DEF Up
  <2> QED  BY <2>5
<1>3. \A m \in Nat : m \in T => m + 1 \in T
  <2> HIDE DEF Up
  <2> QED  BY <1>2
<1>4. Nat \subseteq T
  <2> HIDE DEF T
  <2> QED  BY <1>1, <1>3, SetInduction
<1>5. PICK g : Up(N, g)
  <2> HIDE DEF Up
  <2> QED  BY <1>4
<1>6. [c \in Nat |-> IF c <= N THEN g[c] ELSE base] \in [Nat -> V]
  BY <1>5
<1>7. Climbs([c \in Nat |-> IF c <= N THEN g[c] ELSE base], N, down, base, step)
  <2> DEFINE h == [c \in Nat |-> IF c <= N THEN g[c] ELSE base]
  <2>1. \A c \in 1..N : c \in Nat /\ c <= N /\ down[c] \in Nat /\ down[c] <= N
    OBVIOUS
  <2>2. \A c \in Nat : c <= N => h[c] = g[c]
    OBVIOUS
  <2>3. \A c \in Nat : ~(c <= N) => h[c] = base /\ c \notin 1..N
    OBVIOUS
  <2> HIDE DEF h
  <2>4. \A c \in Nat : c <= N => h[c] = IF c \in 1..N THEN step[c][h[down[c]]] ELSE base
    BY <1>5, <2>1, <2>2
  <2>5. \A c \in Nat : h[c] = IF c \in 1..N THEN step[c][h[down[c]]] ELSE base
    BY <2>3, <2>4
  <2> QED  BY <2>5 DEF Climbs, h
<1> QED  BY <1>6, <1>7

\* The recursive definitions say what their equations say.
ChainIs == \A c \in Nat : Chain[c] = IF c \notin Ids THEN {} ELSE {c} \cup Chain[ctx[c].parent]
TaskIs == \A c \in Nat :
    TaskOf[c] = IF c \notin Ids THEN Gone ELSE IF ctx[c].task THEN c ELSE TaskOf[ctx[c].parent]

LEMMA Elements ==
    ASSUME NEW S, NEW q \in Seq(S)
    PROVE  Len(q) \in Nat /\ \A i \in 1..Len(q) : q[i] \in S
OBVIOUS

LEMMA RootedTypes ==
    ASSUME Rooted
    PROVE  /\ Len(ctx) \in Nat /\ Ids \subseteq Nat
           /\ \A c \in Ids : /\ ctx[c] \in Inners /\ ctx[c].parent \in Nat /\ ctx[c].parent < c
                             /\ ctx[c].parent = 0 \/ ctx[c].parent \in Ids
                             /\ ctx[c].parent = 0 => ctx[c].task
<1>1. Len(ctx) \in Nat /\ \A c \in 1..Len(ctx) : ctx[c] \in Inners
  BY Elements DEF Rooted
<1>2. \A c \in Ids : ctx[c].parent \in Nat
  BY <1>1 DEF Ids, Inners
<1> QED  BY <1>1, <1>2 DEF Rooted, Ids

LEMMA ChainUnfolds == Rooted => ChainIs
<1> SUFFICES ASSUME Rooted PROVE ChainIs
  OBVIOUS
<1> DEFINE N == Len(ctx)
           down == [c \in 1..N |-> ctx[c].parent]
           V == SUBSET Nat
           step == [c \in 1..N |-> [v \in V |-> {c} \cup v]]
           body(f) == [c \in Nat |-> IF c \notin Ids THEN {} ELSE {c} \cup f[ctx[c].parent]]
<1>1. /\ N \in Nat /\ step \in [1..N -> [V -> V]] /\ {} \in V
      /\ down \in [1..N -> Nat] /\ \A c \in 1..N : down[c] < c
  BY RootedTypes DEF Ids
<1>2. PICK f \in [Nat -> V] : Climbs(f, N, down, {}, step)
  <2> HIDE DEF N, down, V, step
  <2> QED  BY <1>1, ClimbExists
<1>3. \A c \in 1..N : down[c] = ctx[c].parent /\ f[down[c]] \in V
                      /\ step[c][f[down[c]]] = {c} \cup f[ctx[c].parent]
  BY <1>1, <1>2
<1>4. \A c \in Nat : f[c] = IF c \notin Ids THEN {} ELSE {c} \cup f[ctx[c].parent]
  BY <1>2, <1>3 DEF Climbs, Ids
<1>5. f = body(f)
  BY <1>2, <1>4
<1>6. Chain = CHOOSE g : g = body(g)
  BY DEF Chain
<1> HIDE DEF body
<1>7. Chain = body(Chain)
  BY <1>5, <1>6
<1> QED  BY <1>7 DEF body, ChainIs

LEMMA TaskUnfolds == Rooted => TaskIs
<1> SUFFICES ASSUME Rooted PROVE TaskIs
  OBVIOUS
<1> DEFINE N == Len(ctx)
           down == [c \in 1..N |-> ctx[c].parent]
           step == [c \in 1..N |-> [v \in Nat |-> IF ctx[c].task THEN c ELSE v]]
           body(f) == [c \in Nat |-> IF c \notin Ids THEN Gone
                                     ELSE IF ctx[c].task THEN c ELSE f[ctx[c].parent]]
<1>1. /\ N \in Nat /\ step \in [1..N -> [Nat -> Nat]] /\ Gone \in Nat
      /\ down \in [1..N -> Nat] /\ \A c \in 1..N : down[c] < c
  BY RootedTypes DEF Ids, Gone
<1>2. PICK f \in [Nat -> Nat] : Climbs(f, N, down, Gone, step)
  <2> HIDE DEF N, down, step
  <2> QED  BY <1>1, ClimbExists
<1>3. \A c \in 1..N : down[c] = ctx[c].parent /\ f[down[c]] \in Nat
                      /\ step[c][f[down[c]]] = IF ctx[c].task THEN c ELSE f[ctx[c].parent]
  BY <1>1, <1>2
<1>4. \A c \in Nat : f[c] = IF c \notin Ids THEN Gone
                            ELSE IF ctx[c].task THEN c ELSE f[ctx[c].parent]
  BY <1>2, <1>3 DEF Climbs, Ids
<1>5. f = body(f)
  BY <1>2, <1>4
<1>6. TaskOf = CHOOSE g : g = body(g)
  BY DEF TaskOf
<1> HIDE DEF body
<1>7. TaskOf = body(TaskOf)
  BY <1>5, <1>6
<1> QED  BY <1>7 DEF body, TaskIs

\* A chain is of contexts up to its own, holds the chains of its contexts, and
\* has its task in it.
Lineal ==
    /\ \A c \in Nat \ Ids : Chain[c] = {}
    /\ \A c \in Ids :
          /\ c \in Chain[c] /\ Chain[c] \subseteq Ids
          /\ \A d \in Chain[c] : Chain[d] \subseteq Chain[c]
          /\ TaskOf[c] \in Chain[c] /\ ctx[TaskOf[c]].task

LEMMA ChainsAreLineal == Rooted => Lineal
<1> SUFFICES ASSUME Rooted PROVE Lineal
  OBVIOUS
<1> DEFINE good(c) == /\ c \in Chain[c] /\ Chain[c] \subseteq Ids
                      /\ \A d \in Chain[c] : Chain[d] \subseteq Chain[c]
                      /\ TaskOf[c] \in Chain[c] /\ ctx[TaskOf[c]].task
           T == {n \in Nat : \A c \in Ids : c <= n => good(c)}
<1>1. ChainIs /\ TaskIs
  BY ChainUnfolds, TaskUnfolds
<1>2. Ids \subseteq Nat /\ 0 \notin Ids
  BY RootedTypes DEF Ids
<1>3. 0 \in T
  BY <1>2 DEF Ids
<1>4. ASSUME NEW n \in Nat, n \in T, NEW c \in Ids, c <= n + 1
      PROVE  good(c)
  <2> DEFINE p == ctx[c].parent
  <2>1. p \in Nat /\ p < c /\ (p = 0 \/ p \in Ids) /\ (p = 0 => ctx[c].task) /\ c \in Nat
    BY RootedTypes, <1>2
  <2>2. Chain[c] = {c} \cup Chain[p]
    BY <1>1, <2>1 DEF ChainIs
  <2>3. TaskOf[c] = IF ctx[c].task THEN c ELSE TaskOf[p]
    BY <1>1, <2>1 DEF TaskIs
  <2>4. p = 0 => Chain[p] = {}
    BY <1>1, <1>2 DEF ChainIs
  <2>5. p # 0 => good(p)
    BY <1>4, <2>1
  <2> HIDE DEF p
  <2> QED  BY <2>1, <2>2, <2>3, <2>4, <2>5
<1>5. \A n \in Nat : n \in T => n + 1 \in T
  <2> HIDE DEF good
  <2> QED  BY <1>4
<1>6. Nat \subseteq T
  <2> HIDE DEF T
  <2> QED  BY <1>3, <1>5, SetInduction
<1>7. \A c \in Ids : good(c)
  <2> HIDE DEF good
  <2> QED  BY <1>2, <1>6
<1> HIDE DEF T
<1> QED  BY <1>1, <1>7 DEF Lineal, ChainIs

\* How a step may change the contexts: it adds some, and traces others.
Extends ==
    /\ Rooted' /\ Ids \subseteq Ids'
    /\ \A c \in Ids : ctx'[c].parent = ctx[c].parent /\ ctx'[c].task = ctx[c].task

\* The contexts there were keep their chains and tasks.
LEMMA ChainsLast ==
    ASSUME Rooted, Extends
    PROVE  \A c \in Ids \cup {Gone} : Chain'[c] = Chain[c] /\ TaskOf'[c] = TaskOf[c]
<1> DEFINE same(c) == Chain'[c] = Chain[c] /\ TaskOf'[c] = TaskOf[c]
           T == {n \in Nat : \A c \in Ids \cup {Gone} : c <= n => same(c)}
<1>1. ChainIs /\ TaskIs
  BY ChainUnfolds, TaskUnfolds
<1>2. ChainIs' /\ TaskIs'
  <2>1. Rooted'
    BY DEF Extends
  <2> QED  BY <2>1, ChainUnfolds, TaskUnfolds, PTL
<1>3. Ids \subseteq Nat /\ 0 \notin Ids /\ 0 \notin Ids'
  BY RootedTypes DEF Ids
<1>4. same(Gone)
  BY <1>1, <1>2, <1>3 DEF ChainIs, TaskIs, Gone
<1>5. 0 \in T
  BY <1>3, <1>4 DEF Gone, Ids
<1>6. ASSUME NEW n \in Nat, n \in T, NEW c \in Ids \cup {Gone}, c <= n + 1
      PROVE  same(c)
  <2>1. CASE c = Gone
    BY <1>4, <2>1
  <2>2. CASE c \in Ids
    <3> DEFINE p == ctx[c].parent
    <3>1. p \in Nat /\ p < c /\ p \in Ids \cup {Gone} /\ c \in Nat
      BY RootedTypes, <1>3, <2>2 DEF Gone
    <3>2. c \in Ids' /\ ctx'[c].parent = p /\ ctx'[c].task = ctx[c].task
      BY <2>2 DEF Extends
    <3>3. Chain[c] = {c} \cup Chain[p] /\ TaskOf[c] = IF ctx[c].task THEN c ELSE TaskOf[p]
      BY <1>1, <2>2, <3>1 DEF ChainIs, TaskIs
    <3>4. Chain'[c] = {c} \cup Chain'[p] /\ TaskOf'[c] = IF ctx[c].task THEN c ELSE TaskOf'[p]
      BY <1>2, <3>1, <3>2 DEF ChainIs, TaskIs
    <3>5. same(p)
      BY <1>6, <3>1
    <3> HIDE DEF p
    <3> QED  BY <3>3, <3>4, <3>5
  <2> QED  BY <2>1, <2>2
<1>7. \A n \in Nat : n \in T => n + 1 \in T
  <2> HIDE DEF same
  <2> QED  BY <1>6
<1>8. Nat \subseteq T
  <2> HIDE DEF T
  <2> QED  BY <1>5, <1>7, SetInduction
<1>9. \A c \in Ids \cup {Gone} : same(c)
  <2>1. Ids \cup {Gone} \subseteq Nat
    BY <1>3 DEF Gone
  <2> HIDE DEF same
  <2> QED  BY <1>8, <2>1
<1> QED  BY <1>9

-----------------------------------------------------------------------------
(* What every step keeps *)

\* The ways to hold a context.
HoldingWays ==
    \A c : c \in Holders <=>
        \/ c = Detached \/ c \in handles \/ \E t \in Threads : c = current[t]
        \/ \E t \in Threads : \E n \in DOMAIN polls[t] : c = polls[t][n].prior
        \/ \E f \in Futures : c = future[f].ctx
        \/ \E i \in Intervals : c = interval[i].ctx

LEMMA HoldersAre == HoldingWays
<1> SUFFICES ASSUME NEW c
             PROVE  c \in Holders <=>
                      \/ c = Detached \/ c \in handles \/ \E t \in Threads : c = current[t]
                      \/ \E t \in Threads : \E n \in DOMAIN polls[t] : c = polls[t][n].prior
                      \/ \E f \in Futures : c = future[f].ctx
                      \/ \E i \in Intervals : c = interval[i].ctx
  BY DEF HoldingWays
<1> DEFINE priors(t) == {p.prior : p \in {polls[t][i] : i \in DOMAIN polls[t]}}
           onThreads == {current[t] : t \in Threads}
           saved == UNION {priors(t) : t \in Threads}
           inFutures == {future[f].ctx : f \in Futures}
           inIntervals == {interval[i].ctx : i \in Intervals}
<1>1. c \in saved <=> \E t \in Threads : \E n \in DOMAIN polls[t] : c = polls[t][n].prior
  <2>1. \A t : c \in priors(t) <=> \E n \in DOMAIN polls[t] : c = polls[t][n].prior
    OBVIOUS
  <2> HIDE DEF priors
  <2> QED  BY <2>1
<1>2. c \in onThreads <=> \E t \in Threads : c = current[t]
  OBVIOUS
<1>3. c \in inFutures <=> \E f \in Futures : c = future[f].ctx
  OBVIOUS
<1>4. c \in inIntervals <=> \E i \in Intervals : c = interval[i].ctx
  OBVIOUS
<1>5. c \in HoldersWithoutIntervals <=>
         c = Detached \/ c \in handles \/ c \in onThreads \/ c \in saved \/ c \in inFutures
  BY DEF HoldersWithoutIntervals
<1>6. c \in Holders <=> c \in HoldersWithoutIntervals \/ c \in inIntervals
  BY DEF Holders
<1> HIDE DEF onThreads, saved, inFutures, inIntervals
<1> QED  BY <1>1, <1>2, <1>3, <1>4, <1>5, <1>6

\* Whatever is held is alive, with its chain and its task.
LEMMA Facts ==
    ASSUME TaskInv
    PROVE  /\ live \subseteq Ids /\ Gone \notin Ids /\ Ids \subseteq Nat /\ Len(ctx) \in Nat
           /\ Detached \in live /\ handles \subseteq live
           /\ \A t \in Threads : /\ current[t] \in live \cup {Gone} /\ Current(t) \in live
                                 /\ polls[t] \in Seq(Saves) /\ Len(polls[t]) \in Nat
           /\ \A t \in Threads : \A n \in 1..Len(polls[t]) :
                 polls[t][n] \in Saves /\ polls[t][n].prior \in live
           /\ \A f \in Futures : future[f] \in Wrapped /\ future[f].ctx \in live \cup {Gone}
           /\ \A i \in Intervals : interval[i] \in Spans /\ interval[i].ctx \in live \cup {Gone}
           /\ \A c \in live : /\ Chain[c] \subseteq live /\ TaskOf[c] \in live
                              /\ ctx[TaskOf[c]].task /\ ctx[c].parent \in live \cup {Gone}
<1>1. Lineal /\ ChainIs
  BY ChainsAreLineal, ChainUnfolds DEF TaskInv
<1>2. Gone \in Nat /\ Gone \notin Ids /\ Ids \subseteq Nat /\ Len(ctx) \in Nat
  BY RootedTypes DEF TaskInv, Ids, Gone
<1>3. live = UNION {Chain[c] : c \in Holders} /\ Holders \subseteq Ids \cup {Gone}
  BY DEF TaskInv, Held, Alive
<1>4. \A c \in Holders : c \in live \cup {Gone}
  BY <1>1, <1>3 DEF Lineal
<1>5. live \subseteq Ids
  BY <1>1, <1>2, <1>3 DEF Lineal
<1>6. \A c \in live : Chain[c] \subseteq live
  BY <1>1, <1>2, <1>3 DEF Lineal
<1>7. \A c \in live : TaskOf[c] \in live /\ ctx[TaskOf[c]].task /\ ctx[c].parent \in live \cup {Gone}
  <2> SUFFICES ASSUME NEW c \in live
               PROVE  TaskOf[c] \in live /\ ctx[TaskOf[c]].task /\ ctx[c].parent \in live \cup {Gone}
    OBVIOUS
  <2>1. TaskOf[c] \in Chain[c] /\ ctx[TaskOf[c]].task
    BY <1>1, <1>5 DEF Lineal
  <2>2. c \in Nat /\ Chain[c] = {c} \cup Chain[ctx[c].parent]
    BY <1>1, <1>2, <1>5 DEF ChainIs
  <2>3. ctx[c].parent \in Ids \cup {Gone}
    BY <1>5, RootedTypes DEF TaskInv, Gone
  <2>4. ctx[c].parent \in Ids => ctx[c].parent \in Chain[c]
    BY <1>1, <2>2 DEF Lineal
  <2> QED  BY <1>6, <2>1, <2>3, <2>4
<1>8. Detached \in live
  BY <1>2, <1>4, HoldersAre DEF HoldingWays, TaskInv, Rooted
<1>9. handles \subseteq live
  BY <1>4, HoldersAre DEF HoldingWays, TaskInv, Held
<1>10. ASSUME NEW t \in Threads
       PROVE  /\ current[t] \in live \cup {Gone} /\ Current(t) \in live
              /\ polls[t] \in Seq(Saves) /\ Len(polls[t]) \in Nat
              /\ DOMAIN polls[t] = 1..Len(polls[t])
              /\ \A n \in 1..Len(polls[t]) : polls[t][n] \in Saves
  <2>1. current[t] \in live \cup {Gone}
    BY <1>4, HoldersAre DEF HoldingWays
  <2>2. polls[t] \in Seq(Saves)
    BY DEF TaskInv, IInv, Contexts
  <2>3. DOMAIN polls[t] = 1..Len(polls[t])
    BY <2>2
  <2> QED  BY <1>8, <2>1, <2>2, <2>3, Elements DEF Current
<1>11. ASSUME NEW t \in Threads, NEW n \in 1..Len(polls[t])
       PROVE  polls[t][n].prior \in live
  <2>1. polls[t][n].prior \in Holders
    BY <1>10, HoldersAre DEF HoldingWays
  <2> QED  BY <1>4, <2>1 DEF TaskInv, Polled
<1>12. \A f \in Futures : future[f] \in Wrapped /\ future[f].ctx \in live \cup {Gone}
  <2>1. \A f \in Futures : future[f].ctx \in Holders
    BY HoldersAre DEF HoldingWays
  <2> QED  BY <1>4, <2>1 DEF TaskInv, IInv, Contexts
<1>13. \A i \in Intervals : interval[i] \in Spans /\ interval[i].ctx \in live \cup {Gone}
  BY <1>4, HoldersAre DEF HoldingWays, TaskInv, Begun
<1> QED  BY <1>2, <1>5, <1>6, <1>7, <1>8, <1>9, <1>10, <1>11, <1>12, <1>13

\* The contexts that are new, one at most.
NewIds == Ids' \ Ids

\* How a step may leave those that are held: among what is alive or new, whose
\* parents are alive.
Holding ==
    /\ Extends /\ \A c \in NewIds : ctx'[c].parent \in live \cup {Gone}
    /\ Gone \notin handles' /\ own' \in [Threads -> Ids' \cup {Gone}]
    /\ handles' \subseteq live \cup NewIds
    /\ \A t \in Threads : current'[t] \in live \cup NewIds \cup {Gone}
    /\ \A t \in Threads : \A n \in DOMAIN polls'[t] : polls'[t][n].prior \in live \cup NewIds \cup {Gone}
    /\ \A f \in Futures : future'[f].ctx \in live \cup NewIds \cup {Gone}
    /\ \A i \in Intervals : interval'[i].ctx \in live \cup NewIds \cup {Gone}

\* No context comes back: what is alive was or is new.
LEMMA HoldingKeeps ==
    ASSUME TaskInv, Holding
    PROVE  /\ Holders' \subseteq live \cup NewIds \cup {Gone}
           /\ Alive' \subseteq live \cup NewIds /\ Alive' \subseteq Ids'
<1>1. Detached \in live
  BY Facts
<1>2. Holders' \subseteq live \cup NewIds \cup {Gone}
  <2>1. HoldingWays'
    BY HoldersAre, PTL
  <2> QED  BY <1>1, <2>1 DEF Holding, HoldingWays
<1>3. live \subseteq Ids
  BY Facts
<1>4. ChainIs'
  <2>1. Rooted'
    BY DEF Holding, Extends
  <2> QED  BY <2>1, ChainUnfolds, PTL
<1>5. Gone \notin Ids' /\ Gone \in Nat /\ Ids' \subseteq Nat
  <2>1. Rooted'
    BY DEF Holding, Extends
  <2>2. Len(ctx') \in Nat
    BY <2>1, Elements DEF Rooted
  <2> QED  BY <2>2 DEF Ids, Gone
<1>6. \A c \in live \cup {Gone} : Chain'[c] \subseteq live
  <2>1. \A c \in Ids \cup {Gone} : Chain'[c] = Chain[c]
    BY ChainsLast DEF TaskInv, Holding
  <2>2. \A c \in live : Chain[c] \subseteq live
    BY Facts
  <2>3. Chain'[Gone] = {}
    BY <1>4, <1>5 DEF ChainIs
  <2> QED  BY <1>3, <2>1, <2>2, <2>3
<1>7. \A c \in NewIds : Chain'[c] \subseteq live \cup NewIds
  <2> SUFFICES ASSUME NEW c \in NewIds PROVE Chain'[c] \subseteq live \cup NewIds
    OBVIOUS
  <2>1. Chain'[c] = {c} \cup Chain'[ctx'[c].parent]
    BY <1>4, <1>5 DEF ChainIs, NewIds
  <2>2. ctx'[c].parent \in live \cup {Gone}
    BY DEF Holding
  <2> QED  BY <1>6, <2>1, <2>2
<1>8. Alive' \subseteq live \cup NewIds
  BY <1>2, <1>6, <1>7 DEF Alive
<1>9. live \cup NewIds \subseteq Ids'
  BY <1>3 DEF NewIds, Holding, Extends
<1> QED  BY <1>2, <1>8, <1>9

\* After a step that drops what nobody holds, what is held is what is alive,
\* and a completion was told of what is not.
LEMMA Reaped ==
    ASSUME TaskInv, Holding, Reap, stats' \in [Ids' -> Nat], limits' \in [Ids' -> Nat], late' = late
    PROVE  Held' /\ Finished' /\ live' \subseteq live \cup NewIds
<1>1. /\ Holders' \subseteq live \cup NewIds \cup {Gone}
      /\ live' \subseteq live \cup NewIds /\ live' \subseteq Ids' /\ live' = Alive'
  BY HoldingKeeps DEF Reap
<1>2. live \subseteq Ids /\ Ids \subseteq Ids' /\ live \cup NewIds \subseteq Ids'
  BY Facts DEF Holding, Extends, NewIds
<1>3. Held'
  BY <1>1, <1>2 DEF Held, Holding
<1>4. told' \in [Loggers -> SUBSET (Ids' \ live')]
  <2> DEFINE gone == {c \in live \ live' : ctx[c].task}
             done == {c \in gone : ctx[c].completes}
  <2>1. told' = [l \in Loggers |-> IF Installed(l) THEN told[l] \cup done ELSE told[l]]
    BY DEF Reap
  <2>2. done \subseteq Ids' \ live'
    BY <1>2
  <2>3. \A l \in Loggers : told[l] \subseteq Ids' \ live'
    BY <1>1, <1>2 DEF TaskInv, Finished, NewIds
  <2> HIDE DEF done
  <2> QED  BY <2>1, <2>2, <2>3
<1>5. reported' \in [Ids' -> Nat]
  <2> DEFINE gone == {c \in live \ live' : ctx[c].task}
  <2>1. reported' = [c \in 1..Len(ctx') |->
                 IF c \in gone THEN Report(c) ELSE IF c \in Ids THEN reported[c] ELSE 0]
    BY DEF Reap
  <2>2. \A c \in gone : Report(c) \in Nat
    BY <1>2 DEF Report
  <2>3. \A c \in Ids : reported[c] \in Nat
    BY DEF TaskInv, Finished
  <2> HIDE DEF gone
  <2> QED  BY <2>1, <2>2, <2>3 DEF Ids
<1>6. late' = [l \in Loggers |-> {}]
  BY DEF TaskInv, Finished
<1> QED  BY <1>1, <1>3, <1>4, <1>5, <1>6 DEF Finished

\* After a step that drops nothing the same contexts are alive.
LEMMA Rested ==
    ASSUME TaskInv, Holding, Ids' = Ids, Holders \subseteq Holders' \cup {Gone},
           Holders' \subseteq Holders \cup {Gone},
           UNCHANGED <<live, reported, told>>,
           stats' = stats, limits' = limits, late' = late
    PROVE  Held' /\ Finished' /\ live' \subseteq live \cup NewIds
<1>1. \A c \in Ids \cup {Gone} : Chain'[c] = Chain[c]
  BY ChainsLast DEF TaskInv, Holding
<1>2. Chain[Gone] = {}
  <2>1. ChainIs
    BY ChainUnfolds DEF TaskInv
  <2>2. Gone \notin Ids
    BY Facts
  <2> QED  BY <2>1, <2>2 DEF ChainIs, Gone
<1>3. Holders \subseteq Ids \cup {Gone} /\ live = Alive
  BY DEF TaskInv, Held
<1>4. Holders' \subseteq Ids \cup {Gone}
  BY <1>3
<1>5. Alive' = Alive
  BY <1>1, <1>2, <1>3, <1>4 DEF Alive
<1>6. Held'
  BY <1>3, <1>4, <1>5 DEF Held, Holding
<1>7. Finished'
  BY DEF TaskInv, Finished
<1> QED  BY <1>6, <1>7

\* A live task has not finished: a record that names it comes in time.
LEMMA SaidInTime ==
    ASSUME TaskInv, NEW task \in live, Say(task)
    PROVE  late' = late
<1>1. \A l \in Loggers : task \notin told[l]
  BY DEF TaskInv, Finished
<1>2. late = [l \in Loggers |-> {}]
  BY DEF TaskInv, Finished
<1> QED  BY <1>1, <1>2 DEF Say, Deliver

-----------------------------------------------------------------------------
(* The parts of a step *)

LEMMA StillExtends ==
    ASSUME TaskInv, ctx' = ctx
    PROVE  Extends /\ Ids' = Ids /\ NewIds = {}
BY DEF TaskInv, Rooted, Extends, NewIds, Ids, Detached

\* Another count is appended to those there are.
LEMMA CountAppended ==
    ASSUME NEW n \in Nat, NEW f \in [1..n -> Nat]
    PROVE  /\ Append(f, 0) \in [1..n + 1 -> Nat]
           /\ Append(f, 0)[n + 1] = 0 /\ \A c \in 1..n : Append(f, 0)[c] = f[c]
<1>1. f \in Seq(Nat)
  OBVIOUS
<1>2. Len(f) = n
  OBVIOUS
<1>3. Append(f, 0) \in Seq(Nat) /\ Len(Append(f, 0)) = n + 1
  BY <1>1, <1>2
<1>4. \A s \in Seq(Nat) : s \in [1..Len(s) -> Nat]
  OBVIOUS
<1>5. Append(f, 0) \in [1..n + 1 -> Nat]
  BY <1>3, <1>4
<1> QED  BY <1>1, <1>2, <1>5

\* A context is created below a live one or none, with statistics of nothing.
LEMMA CreatedExtends ==
    ASSUME TaskInv, NEW inner \in Inners, inner.parent \in live \cup {Gone},
           inner.parent = Gone => inner.task, Create(inner)
    PROVE  /\ Extends /\ New \in Ids' /\ NewIds = {New}
           /\ \A c \in NewIds : ctx'[c].parent \in live \cup {Gone}
           /\ stats' \in [Ids' -> Nat] /\ limits' \in [Ids' -> Nat]
<1> DEFINE n == Len(ctx)
<1>1. /\ ctx \in Seq(Inners) /\ n \in Nat /\ ctx' = Append(ctx, inner)
      /\ stats' = Append(stats, 0) /\ limits' = Append(limits, 0)
  BY Facts DEF TaskInv, Rooted, Create
<1>2. /\ ctx' \in Seq(Inners) /\ Len(ctx') = n + 1 /\ ctx'[n + 1] = inner
      /\ \A c \in 1..n : ctx'[c] = ctx[c]
  BY <1>1
<1>3. /\ Ids = 1..n /\ Ids' = 1..n + 1 /\ New = n + 1 /\ n + 1 \notin Ids
      /\ Ids \subseteq Ids' /\ \A c \in Ids' : c \in Ids \/ c = n + 1
  BY <1>1, <1>2 DEF Ids, New
<1>4. \A f \in [1..n -> Nat] : Append(f, 0) \in [1..n + 1 -> Nat]
  BY <1>1, CountAppended
<1>5. stats' \in [Ids' -> Nat] /\ limits' \in [Ids' -> Nat]
  BY <1>1, <1>3, <1>4 DEF TaskInv, Finished
<1>6. inner.parent \in Nat /\ inner.parent < n + 1
  <2>1. live \subseteq 1..n
    BY Facts, <1>3
  <2>2. inner.parent \in 1..n \/ inner.parent = 0
    BY <2>1 DEF Gone
  <2>3. n \in Nat
    BY <1>1
  <2> HIDE DEF n
  <2> QED  BY <2>2, <2>3
<1>7. Rooted'
  <2>1. Detached \in Ids'
    BY <1>3 DEF TaskInv, Rooted
  <2>2. \A c \in Ids' : ctx'[c].parent < c /\ (ctx'[c].parent = 0 => ctx'[c].task)
    BY <1>2, <1>3, <1>6 DEF TaskInv, Rooted, Gone
  <2> QED  BY <1>2, <2>1, <2>2 DEF Rooted, Detached
<1> QED  BY <1>2, <1>3, <1>5, <1>7 DEF Extends, NewIds

LEMMA TracedExtends ==
    ASSUME TaskInv, NEW d \in Ids, ctx' = [ctx EXCEPT ![d].tracing = TRUE]
    PROVE  Extends /\ Ids' = Ids /\ NewIds = {}
<1>1. ctx \in Seq(Inners) /\ Len(ctx) \in Nat /\ \A c \in Ids : ctx[c] \in Inners
  BY Facts, RootedTypes DEF TaskInv, Rooted
<1>2. [ctx[d] EXCEPT !.tracing = TRUE] \in Inners
  BY <1>1 DEF Inners
<1>3. ctx' = [ctx EXCEPT ![d] = [ctx[d] EXCEPT !.tracing = TRUE]]
  OBVIOUS
<1>4. ctx' \in Seq(Inners) /\ Len(ctx') = Len(ctx)
  BY <1>1, <1>2, <1>3 DEF Ids
<1>5. \A c \in Ids : ctx'[c].parent = ctx[c].parent /\ ctx'[c].task = ctx[c].task
  BY <1>1, <1>3 DEF Inners, Ids
<1> QED  BY <1>4, <1>5 DEF TaskInv, Rooted, Extends, NewIds, Ids, Detached

\* What a change of a thread's context leaves of the stacks.
LEMMA MadeCurrent ==
    ASSUME TaskInv, NEW t \in Threads, Ids \subseteq Ids', NEW c \in Ids', MakeCurrent(t, c)
    PROVE  /\ \A u \in Threads : current'[u] = current[u] \/ (u = t /\ current'[u] = c)
           /\ own' \in [Threads -> Ids' \cup {Gone}]
           /\ \A u \in Threads :
                 /\ Len(polls'[u]) = Len(polls[u]) /\ DOMAIN polls'[u] = 1..Len(polls[u])
                 /\ \A n \in 1..Len(polls[u]) :
                      /\ polls'[u][n].future = polls[u][n].future
                      /\ polls'[u][n].prior = polls[u][n].prior /\ polls'[u][n].own \in Ids'
<1>1. /\ current \in [Threads -> Nat] /\ own \in [Threads -> Ids' \cup {Gone}]
      /\ polls \in [Threads -> Seq(Saves)]
  BY DEF TaskInv, IInv, Contexts, Held
<1>2. ASSUME NEW u \in Threads, polls'[u] = polls[u]
      PROVE  /\ Len(polls'[u]) = Len(polls[u]) /\ DOMAIN polls'[u] = 1..Len(polls[u])
             /\ \A n \in 1..Len(polls[u]) :
                  /\ polls'[u][n].future = polls[u][n].future
                  /\ polls'[u][n].prior = polls[u][n].prior /\ polls'[u][n].own \in Ids'
  <2>1. DOMAIN polls[u] = 1..Len(polls[u])
    BY <1>1
  <2> QED  BY <1>2, <2>1 DEF TaskInv, Polled
<1>3. CASE current[t] = Gone
  BY <1>1, <1>2, <1>3 DEF MakeCurrent
<1>4. CASE current[t] # Gone /\ polls[t] = <<>>
  BY <1>1, <1>2, <1>4 DEF MakeCurrent
<1>5. CASE current[t] # Gone /\ polls[t] # <<>>
  <2> DEFINE last == Len(polls[t])
  <2>1. /\ current' = [current EXCEPT ![t] = c] /\ own' = own
        /\ polls' = [polls EXCEPT ![t][last].own = c]
    BY <1>5 DEF MakeCurrent
  <2>2. polls[t] \in Seq(Saves) /\ last \in Nat \ {0}
    <3>1. polls[t] \in Seq(Saves)
      BY <1>1
    <3> QED  BY <1>5, <3>1
  <2>3. /\ polls'[t] = [polls[t] EXCEPT ![last].own = c]
        /\ \A u \in Threads \ {t} : polls'[u] = polls[u]
    BY <1>1, <2>1
  <2>4. Len(polls'[t]) = last /\ DOMAIN polls'[t] = 1..last
    BY <2>2, <2>3
  <2>5. ASSUME NEW n \in 1..last
        PROVE  /\ polls'[t][n].future = polls[t][n].future
               /\ polls'[t][n].prior = polls[t][n].prior /\ polls'[t][n].own \in Ids'
    <3>1. polls[t][n] \in Saves /\ polls[t][n].own \in Ids'
      BY Elements, <2>2 DEF TaskInv, Polled
    <3>2. polls'[t][n] = IF n = last THEN [polls[t][n] EXCEPT !.own = c] ELSE polls[t][n]
      BY SMTT(30), <2>2, <2>3
    <3>3. \A p \in Saves : LET q == [p EXCEPT !.own = c]
                           IN  q.future = p.future /\ q.prior = p.prior /\ q.own = c
      BY DEF Saves
    <3> QED  BY <3>1, <3>2, <3>3
  <2> QED  BY <1>1, <1>2, <2>1, <2>3, <2>4, <2>5
<1> QED  BY <1>3, <1>4, <1>5

\* The polls that are running stay, and the futures as they are.
LEMMA PolledStays ==
    ASSUME TaskInv, Ids \subseteq Ids',
           \A f \in Futures : future'[f].ctx = future[f].ctx /\ future'[f].phase = future[f].phase,
           \A u \in Threads :
              /\ Len(polls'[u]) = Len(polls[u])
              /\ \A n \in 1..Len(polls[u]) :
                   /\ polls'[u][n].future = polls[u][n].future
                   /\ polls'[u][n].prior = polls[u][n].prior /\ polls'[u][n].own \in Ids'
    PROVE  Polled'
<1>1. \A t \in Threads : \A n \in 1..Len(polls[t]) : polls[t][n].future \in Futures
  BY Facts DEF Saves
<1> QED  BY <1>1 DEF TaskInv, Polled

\* A record's thread is under the task it names as long as it is written.
LEMMA RecordedStays ==
    ASSUME TaskInv, Extends,
           writing' = writing \/ \E t \in Threads : writing' = [writing EXCEPT ![t] = NoRecord],
           \A u \in Threads : writing'[u] # NoRecord => Current(u)' = Current(u)
    PROVE  Recorded'
<1>1. writing' \in [Threads -> [task : Ids', awaits : BOOLEAN] \cup {NoRecord}]
  <2>1. [task : Ids, awaits : BOOLEAN] \subseteq [task : Ids', awaits : BOOLEAN]
    BY DEF Extends
  <2>2. writing \in [Threads -> [task : Ids', awaits : BOOLEAN] \cup {NoRecord}]
    BY <2>1 DEF TaskInv, Recorded
  <2> QED  BY <2>2
<1>2. ASSUME NEW u \in Threads, writing'[u] # NoRecord
      PROVE  writing'[u].task = TaskOf'[Current(u)']
  <2>1. writing'[u] = writing[u] /\ Current(u)' = Current(u)
    BY <1>2 DEF TaskInv, Recorded
  <2>2. Current(u) \in Ids
    BY Facts
  <2>3. TaskOf'[Current(u)] = TaskOf[Current(u)]
    BY <2>2, ChainsLast DEF TaskInv
  <2> QED  BY <1>2, <2>1, <2>3 DEF TaskInv, Recorded
<1> QED  BY <1>1, <1>2 DEF Recorded

LEMMA BegunStays ==
    ASSUME TaskInv, Extends, interval' = interval
    PROVE  Begun'
<1>1. \A i \in Intervals : TaskOf'[interval[i].ctx] = TaskOf[interval[i].ctx]
  <2>1. \A i \in Intervals : interval[i].ctx \in Ids \cup {Gone}
    BY Facts
  <2> QED  BY <2>1, ChainsLast DEF TaskInv
<1> QED  BY <1>1 DEF TaskInv, Begun, Extends

LEMMA CurrentStays ==
    ASSUME NEW u \in Threads, current'[u] = current[u]
    PROVE  Current(u)' = Current(u)
BY DEF Current, Detached

\* The same contexts are held in the same places.
LEMMA HoldingStays ==
    ASSUME TaskInv
    PROVE  /\ UNCHANGED handles => Gone \notin handles' /\ handles' \subseteq live \cup NewIds
           /\ UNCHANGED own /\ Ids \subseteq Ids' => own' \in [Threads -> Ids' \cup {Gone}]
           /\ UNCHANGED current => \A t \in Threads : current'[t] \in live \cup NewIds \cup {Gone}
           /\ UNCHANGED polls => \A t \in Threads : \A n \in DOMAIN polls'[t] :
                                    polls'[t][n].prior \in live \cup NewIds \cup {Gone}
           /\ UNCHANGED future => \A f \in Futures : future'[f].ctx \in live \cup NewIds \cup {Gone}
           /\ UNCHANGED interval =>
                 \A i \in Intervals : interval'[i].ctx \in live \cup NewIds \cup {Gone}
<1>1. \A t \in Threads : \A n \in DOMAIN polls[t] : polls[t][n].prior \in live
  <2>1. \A t \in Threads : DOMAIN polls[t] = 1..Len(polls[t])
    BY DEF TaskInv, IInv, Contexts
  <2> QED  BY <2>1, Facts
<1> QED  BY <1>1, Facts DEF TaskInv, Held

-----------------------------------------------------------------------------
(* The actions on contexts and records *)

\* A step that drops what nobody holds any more.
LEMMA Dropping ==
    ASSUME TaskInv, IInv', Holding, Reap, late' = late,
           stats' \in [Ids' -> Nat], limits' \in [Ids' -> Nat], Polled', Recorded', Begun'
    PROVE  TaskInv'
BY Reaped DEF TaskInv, Holding, Extends

\* A step that touches neither the holders nor what is alive.
LEMMA Resting ==
    ASSUME TaskInv, IInv', Extends, Ids' = Ids, NewIds = {},
           UNCHANGED <<live, handles, current, polls, own, interval, stats, limits, reported, told, late>>,
           \A f \in Futures : future'[f].ctx = future[f].ctx /\ future'[f].phase = future[f].phase,
           Recorded'
    PROVE  TaskInv'
<1>1. \A f \in Futures : future'[f].ctx \in live \cup NewIds \cup {Gone}
  BY Facts
<1>2. Holding
  BY <1>1, HoldingStays DEF Holding
<1>3. Holders' = Holders
  <2>1. HoldingWays /\ HoldingWays'
    BY HoldersAre, PTL
  <2>2. \A c : c \in Holders' <=> c \in Holders
    BY <2>1 DEF HoldingWays, Detached
  <2> QED  BY <2>2
<1>4. Held' /\ Finished'
  BY <1>2, <1>3, Rested
<1>5. Polled'
  <2>1. \A u \in Threads : \A n \in 1..Len(polls[u]) : polls[u][n].own \in Ids
    BY DEF TaskInv, Polled
  <2> QED  BY <2>1, PolledStays
<1>6. Begun'
  BY BegunStays
<1> QED  BY <1>4, <1>5, <1>6 DEF TaskInv, Extends

\* A context the application gets a handle of.
LEMMA HandleMade ==
    ASSUME TaskInv, IInv', NEW inner \in Inners, inner.parent \in live \cup {Gone},
           inner.parent = Gone => inner.task, Create(inner), handles' = handles \cup {New},
           UNCHANGED <<current, polls, own, future, interval, writing, late>>, Reap
    PROVE  TaskInv'
<1>1. /\ Extends /\ New \in Ids' /\ NewIds = {New}
      /\ \A c \in NewIds : ctx'[c].parent \in live \cup {Gone}
      /\ stats' \in [Ids' -> Nat] /\ limits' \in [Ids' -> Nat]
  BY CreatedExtends
<1>2. New \in Nat /\ New # Gone /\ Gone \notin handles /\ Ids \subseteq Ids'
  BY SMTT(30), <1>1, Facts DEF New, Gone, TaskInv, Held, Extends
<1>3. handles' \subseteq live \cup NewIds /\ Gone \notin handles'
  BY <1>1, <1>2, Facts
<1>4. Holding
  BY <1>1, <1>2, <1>3, HoldingStays DEF Holding
<1>5. Polled'
  <2>1. \A u \in Threads : \A n \in 1..Len(polls[u]) : polls[u][n].own \in Ids'
    BY <1>2 DEF TaskInv, Polled
  <2> QED  BY <1>2, <2>1, PolledStays
<1>6. Recorded'
  <2>1. \A u \in Threads : Current(u)' = Current(u)
    BY CurrentStays
  <2> QED  BY <1>1, <2>1, RecordedStays
<1>7. Begun'
  BY <1>1, BegunStays
<1> QED  BY <1>1, <1>4, <1>5, <1>6, <1>7, Dropping

\* A thread's own code makes a context current.
LEMMA CurrentMade ==
    ASSUME TaskInv, IInv', NEW t \in Threads, Runs(t), Extends,
           \A c \in NewIds : ctx'[c].parent \in live \cup {Gone},
           NEW c \in live \cup NewIds, MakeCurrent(t, c),
           UNCHANGED <<handles, future, interval, writing, late>>,
           stats' \in [Ids' -> Nat], limits' \in [Ids' -> Nat], Reap
    PROVE  TaskInv'
<1>1. Ids \subseteq Ids' /\ c \in Ids'
  BY Facts DEF Extends, NewIds
<1>2. /\ \A u \in Threads : current'[u] = current[u] \/ (u = t /\ current'[u] = c)
      /\ own' \in [Threads -> Ids' \cup {Gone}]
      /\ \A u \in Threads :
            /\ Len(polls'[u]) = Len(polls[u]) /\ DOMAIN polls'[u] = 1..Len(polls[u])
            /\ \A n \in 1..Len(polls[u]) :
                 /\ polls'[u][n].future = polls[u][n].future
                 /\ polls'[u][n].prior = polls[u][n].prior /\ polls'[u][n].own \in Ids'
  BY <1>1, MadeCurrent
<1>3. \A u \in Threads : current'[u] \in live \cup NewIds \cup {Gone}
  BY <1>2, Facts
<1>4. \A u \in Threads : \A n \in DOMAIN polls'[u] : polls'[u][n].prior \in live \cup NewIds \cup {Gone}
  <2>1. ASSUME NEW u \in Threads, NEW n \in DOMAIN polls'[u]
        PROVE  polls'[u][n].prior \in live
    <3>1. n \in 1..Len(polls[u]) /\ polls'[u][n].prior = polls[u][n].prior
      BY <1>2
    <3> QED  BY <3>1, Facts
  <2> QED  BY <2>1
<1>5. Holding
  BY <1>2, <1>3, <1>4, HoldingStays DEF Holding
<1>6. Polled'
  BY <1>1, <1>2, PolledStays
<1>7. Recorded'
  <2>1. \A u \in Threads \ {t} : Current(u)' = Current(u)
    BY <1>2, CurrentStays
  <2>2. writing'[t] = NoRecord
    BY DEF Runs
  <2> QED  BY <2>1, <2>2, RecordedStays
<1>8. Begun'
  BY BegunStays
<1> QED  BY <1>5, <1>6, <1>7, <1>8, Dropping

\* Same holders, and a context less may be alive.
LEMMA HandleDropped ==
    ASSUME TaskInv, IInv', ctx' = ctx, handles' \subseteq handles,
           UNCHANGED <<current, polls, own, future, interval, writing, stats, limits, late>>, Reap
    PROVE  TaskInv'
<1>1. Extends /\ Ids' = Ids /\ NewIds = {}
  BY StillExtends
<1>2. handles' \subseteq live \cup NewIds /\ Gone \notin handles'
  BY Facts DEF TaskInv, Held
<1>3. Holding
  BY <1>1, <1>2, HoldingStays DEF Holding
<1>4. Polled'
  <2>1. \A u \in Threads : \A n \in 1..Len(polls[u]) : polls[u][n].own \in Ids'
    BY <1>1 DEF TaskInv, Polled
  <2> QED  BY <1>1, <2>1, PolledStays
<1>5. Recorded'
  <2>1. \A u \in Threads : Current(u)' = Current(u)
    BY CurrentStays
  <2> QED  BY <1>1, <2>1, RecordedStays
<1>6. Begun'
  BY <1>1, BegunStays
<1>7. stats' \in [Ids' -> Nat] /\ limits' \in [Ids' -> Nat]
  BY <1>1 DEF TaskInv, Finished
<1> QED  BY <1>3, <1>4, <1>5, <1>6, <1>7, Dropping

\* Contexts created, chosen, left and traced.
LEMMA ContextSteps ==
    ASSUME TaskInv, IInv', NEW t \in Threads,
           \/ \E parent \in 0..Len(ctx), completes \in Internal : NewTask(t, parent, completes)
           \/ FromParent(t) \/ Reset(t)
           \/ \E c \in Ids : SetCurrent(t, c) \/ Pop(t, c)
           \/ BeginTrace(t)
    PROVE  TaskInv'
<1> USE DEF contextVars, reportVars
<1>1. /\ Current(t) \in live /\ live \subseteq Ids /\ Gone \notin Ids /\ handles \subseteq live
      /\ \A c \in live : Chain[c] \subseteq live /\ TaskOf[c] \in live /\ ctx[c].parent \in live \cup {Gone}
  BY Facts
<1>2. \A c \in Ids : ctx[c].tracing \in BOOLEAN
  BY RootedTypes DEF TaskInv, Inners
<1>3. stats \in [Ids -> Nat] /\ limits \in [Ids -> Nat]
  BY DEF TaskInv, Finished
<1>4. ASSUME NEW parent \in 0..Len(ctx), NEW completes \in Internal, NewTask(t, parent, completes)
      PROVE  TaskInv'
  <2> DEFINE inner == Inner(parent, TRUE, completes, FALSE)
  <2>1. inner \in Inners /\ inner.parent = parent /\ inner.task
    BY InternalAssumption DEF Inner, Inners
  <2>2. parent \in live \cup {Gone}
    BY <1>1, <1>4 DEF NewTask, Gone
  <2>3. /\ Create(inner) /\ handles' = handles \cup {New} /\ Reap
        /\ UNCHANGED <<current, polls, own, future, interval, writing, late>>
    BY <1>4 DEF NewTask
  <2> HIDE DEF inner
  <2> QED  BY <2>1, <2>2, <2>3, HandleMade
<1>5. CASE FromParent(t)
  <2> DEFINE inner == Inner(Current(t), FALSE, FALSE, ctx[Current(t)].tracing)
  <2>1. inner \in Inners /\ inner.parent \in live /\ inner.parent # Gone
    <3>1. Current(t) \in Nat
      BY <1>1, Facts
    <3> QED  BY <1>1, <1>2, <3>1 DEF Inner, Inners
  <2>2. /\ Create(inner) /\ handles' = handles \cup {New} /\ Reap
        /\ UNCHANGED <<current, polls, own, future, interval, writing, late>>
    BY <1>5 DEF FromParent
  <2> HIDE DEF inner
  <2> QED  BY <2>1, <2>2, HandleMade
<1>6. CASE Reset(t)
  <2> DEFINE inner == Inner(0, TRUE, TRUE, FALSE)
  <2>1. inner \in Inners /\ inner.parent = Gone /\ inner.task
    BY DEF Inner, Inners, Gone
  <2>2. /\ Create(inner) /\ MakeCurrent(t, New) /\ Reap /\ Runs(t)
        /\ UNCHANGED <<handles, future, interval, writing, late>>
    BY <1>6 DEF Reset
  <2> HIDE DEF inner
  <2>3. /\ Extends /\ New \in Ids' /\ NewIds = {New}
        /\ \A c \in NewIds : ctx'[c].parent \in live \cup {Gone}
        /\ stats' \in [Ids' -> Nat] /\ limits' \in [Ids' -> Nat]
    BY <2>1, <2>2, CreatedExtends
  <2>4. New \in live \cup NewIds
    BY <2>3
  <2> QED  BY <2>2, <2>3, <2>4, CurrentMade
<1>7. ASSUME NEW c \in live, MakeCurrent(t, c), Runs(t), ctx' = ctx, Reap,
             UNCHANGED <<handles, future, interval, writing, stats, limits, late>>
      PROVE  TaskInv'
  <2>1. Extends /\ Ids' = Ids /\ NewIds = {}
    BY <1>7, StillExtends
  <2>2. /\ \A d \in NewIds : ctx'[d].parent \in live \cup {Gone}
        /\ stats' \in [Ids' -> Nat] /\ limits' \in [Ids' -> Nat]
    BY <1>3, <1>7, <2>1
  <2>3. c \in live \cup NewIds
    OBVIOUS
  <2> QED  BY <1>7, <2>1, <2>2, <2>3, CurrentMade
<1>8. ASSUME NEW c \in Ids, SetCurrent(t, c)
      PROVE  TaskInv'
  BY <1>1, <1>7, <1>8 DEF SetCurrent
<1>9. ASSUME NEW c \in Ids, Pop(t, c)
      PROVE  TaskInv'
  <2>1. CASE c \in Chain[Current(t)] /\ ctx[c].parent # 0
    <3>1. ctx[c].parent \in live
      BY <1>1, <2>1 DEF Gone
    <3> QED  BY <1>7, <1>9, <2>1, <3>1 DEF Pop
  <2>2. CASE ~(c \in Chain[Current(t)] /\ ctx[c].parent # 0)
    <3>1. /\ Say(TaskOf[Current(t)]) /\ Reap
          /\ UNCHANGED <<ctx, handles, current, polls, own, future, interval, writing, stats, limits>>
      BY <1>9, <2>2 DEF Pop
    <3>2. late' = late
      BY <1>1, <3>1, SaidInTime
    <3> QED  BY <3>1, <3>2, HandleDropped
  <2> QED  BY <2>1, <2>2
<1>10. CASE BeginTrace(t)
  <2>1. /\ ctx' = [ctx EXCEPT ![Current(t)].tracing = TRUE]
        /\ UNCHANGED <<live, handles, current, polls, own, future, interval, writing,
                       stats, limits, reported, told>>
    BY <1>10 DEF BeginTrace
  <2>2. Extends /\ Ids' = Ids /\ NewIds = {}
    BY <1>1, <2>1, TracedExtends
  <2>3. late' = late
    <3>1. current[t] # Gone => Current(t) = current[t]
      BY DEF Current
    <3> QED  BY <1>1, <1>10, <3>1, SaidInTime DEF BeginTrace
  <2>4. Recorded'
    <3>1. \A u \in Threads : Current(u)' = Current(u)
      BY <2>1, CurrentStays
    <3> QED  BY <2>1, <2>2, <3>1, RecordedStays
  <2> QED  BY <2>1, <2>2, <2>3, <2>4, Resting
<1> QED  BY <1>4, <1>5, <1>6, <1>8, <1>9, <1>10

\* Records, and the loggers they go to.
LEMMA RecordSteps ==
    ASSUME TaskInv, IInv', NEW t \in Threads,
           \/ Call(t) \/ SyncPost(t) \/ AsyncPost(t) \/ Awaited(t)
    PROVE  TaskInv'
<1> DEFINE Calmly == UNCHANGED <<ctx, live, handles, current, polls, own, interval, stats, limits,
                                 reported, told>>
<1>1. Current(t) \in live /\ live \subseteq Ids /\ \A c \in live : TaskOf[c] \in live
  BY Facts
<1>2. ASSUME Calmly PROVE Extends /\ Ids' = Ids /\ NewIds = {}
                          /\ \A u \in Threads : Current(u)' = Current(u)
  BY <1>2, StillExtends, CurrentStays
<1>3. ASSUME NEW awaits \in BOOLEAN, Pre(t, awaits)
      PROVE  TaskInv'
  <2> DEFINE r == [task |-> TaskOf[Current(t)], awaits |-> awaits]
  <2>1. Calmly /\ late' = late /\ future' = future /\ writing' = [writing EXCEPT ![t] = r]
    BY <1>3 DEF Pre
  <2>2. Extends /\ Ids' = Ids /\ NewIds = {} /\ \A u \in Threads : Current(u)' = Current(u)
    BY <1>2, <2>1
  <2>3. r \in [task : Ids, awaits : BOOLEAN] /\ r.task = TaskOf[Current(t)]
    BY <1>1
  <2>4. \A u \in Threads : TaskOf'[Current(u)] = TaskOf[Current(u)]
    <3>1. \A u \in Threads : Current(u) \in Ids
      BY Facts
    <3> QED  BY <2>2, <3>1, ChainsLast DEF TaskInv
  <2> HIDE DEF r
  <2>5. writing' \in [Threads -> [task : Ids', awaits : BOOLEAN] \cup {NoRecord}]
    BY <2>1, <2>2, <2>3 DEF TaskInv, Recorded
  <2>6. \A u \in Threads : writing'[u] # NoRecord => writing'[u].task = TaskOf'[Current(u)']
    BY <2>1, <2>2, <2>3, <2>4 DEF TaskInv, Recorded
  <2>7. Recorded'
    BY <2>5, <2>6 DEF Recorded
  <2> QED  BY <2>1, <2>2, <2>7, Resting
<1>4. ASSUME Calmly, late' = late, writing' = writing \/ writing' = [writing EXCEPT ![t] = NoRecord],
             \A f \in Futures : future'[f].ctx = future[f].ctx /\ future'[f].phase = future[f].phase
      PROVE  TaskInv'
  <2>1. Extends /\ Ids' = Ids /\ NewIds = {} /\ \A u \in Threads : Current(u)' = Current(u)
    BY <1>2, <1>4
  <2>2. Recorded'
    BY <1>4, <2>1, RecordedStays
  <2> QED  BY <1>4, <2>1, <2>2, Resting
<1>5. CASE Call(t)
  BY <1>3, <1>5, CallIsPre
<1>6. CASE SyncPost(t)
  <2>1. /\ Calmly /\ future' = future /\ writing' = [writing EXCEPT ![t] = NoRecord]
        /\ Say(writing[t].task) /\ writing[t] # NoRecord
    BY <1>6 DEF SyncPost
  <2>2. writing[t].task \in live
    BY <1>1, <2>1 DEF TaskInv, Recorded
  <2> QED  BY <1>4, <2>1, <2>2, SaidInTime
<1>7. ASSUME NEW f, NEW sending, future' = [future EXCEPT ![f].sending = sending]
      PROVE  \A g \in Futures : future'[g].ctx = future[g].ctx /\ future'[g].phase = future[g].phase
  <2>1. \A g \in Futures : future[g] \in Wrapped
    BY Facts
  <2>2. future \in [Futures -> Wrapped]
    BY DEF TaskInv, IInv, Contexts
  <2>3. \A w \in Wrapped : LET v == [w EXCEPT !.sending = sending]
                           IN  v.ctx = w.ctx /\ v.phase = w.phase
    BY DEF Wrapped
  <2>4. \A g \in Futures : future'[g] = future[g] \/ future'[g] = [future[g] EXCEPT !.sending = sending]
    BY <1>7, <2>2
  <2> QED  BY <2>1, <2>3, <2>4
<1>8. CASE AsyncPost(t)
  BY <1>4, <1>7, <1>8 DEF AsyncPost
<1>9. CASE Awaited(t)
  BY <1>4, <1>7, <1>9 DEF Awaited
<1> QED  BY <1>5, <1>6, <1>8, <1>9

LEMMA LoggerSteps ==
    ASSUME TaskInv, IInv',
           \/ \E l \in Loggers : AddLogger(l)
           \/ \E list \in Lists(Loggers) : SetLoggers(list)
    PROVE  TaskInv'
<1>1. UNCHANGED <<ctx, live, handles, current, polls, own, future, interval, writing,
                  stats, limits, reported, told, late>>
  BY DEF AddLogger, SetLoggers
<1>2. Extends /\ Ids' = Ids /\ NewIds = {} /\ \A u \in Threads : Current(u)' = Current(u)
  BY <1>1, StillExtends, CurrentStays
<1>3. Recorded'
  BY <1>1, <1>2, RecordedStays
<1> QED  BY <1>1, <1>2, <1>3, Resting

-----------------------------------------------------------------------------
(* The actions on futures *)

LEMMA FutureChanged ==
    ASSUME TaskInv, NEW f \in Futures, NEW phase, NEW c,
           \/ future' = [future EXCEPT ![f].phase = phase] /\ c = future[f].ctx
           \/ future' = [future EXCEPT ![f].phase = phase, ![f].ctx = c]
           \/ future' = [future EXCEPT ![f] = [phase |-> phase, ctx |-> c, sending |-> NoRecord]]
    PROVE  /\ \A g \in Futures \ {f} : future'[g] = future[g]
           /\ future'[f].phase = phase /\ future'[f].ctx = c
<1>1. future \in [Futures -> Wrapped] /\ future[f] \in Wrapped
  BY Facts DEF TaskInv, IInv, Contexts
<1>2. CASE future' = [future EXCEPT ![f].phase = phase] /\ c = future[f].ctx
  <2>1. [future[f] EXCEPT !.phase = phase].phase = phase
        /\ [future[f] EXCEPT !.phase = phase].ctx = future[f].ctx
    BY <1>1 DEF Wrapped
  <2> QED  BY <1>1, <1>2, <2>1
<1>3. CASE future' = [future EXCEPT ![f].phase = phase, ![f].ctx = c]
  <2>1. [future[f] EXCEPT !.phase = phase, !.ctx = c].phase = phase
        /\ [future[f] EXCEPT !.phase = phase, !.ctx = c].ctx = c
    BY <1>1 DEF Wrapped
  <2> QED  BY <1>1, <1>3, <2>1
<1>4. CASE future' = [future EXCEPT ![f] = [phase |-> phase, ctx |-> c, sending |-> NoRecord]]
  BY <1>1, <1>4
<1> QED  BY <1>2, <1>3, <1>4

\* A future that is not being polled changes, and the stacks do not.
LEMMA PolledElsewhere ==
    ASSUME TaskInv, Ids \subseteq Ids', UNCHANGED polls, NEW f \in Futures, future[f].phase # "polled",
           \A g \in Futures \ {f} : future'[g] = future[g],
           future'[f].ctx = Gone <=> future'[f].phase \in {"new", "dropped"}
    PROVE  Polled'
<1>1. \A t \in Threads : \A n \in 1..Len(polls[t]) :
         polls[t][n].future \in Futures /\ polls[t][n].future # f
  <2>1. \A t \in Threads : \A n \in 1..Len(polls[t]) : polls[t][n].future \in Futures
    BY Facts DEF Saves
  <2>2. \A t \in Threads : \A n \in 1..Len(polls[t]) : future[polls[t][n].future].phase = "polled"
    BY DEF TaskInv, Polled
  <2> QED  BY <2>1, <2>2
<1> QED  BY <1>1 DEF TaskInv, Polled

LEMMA WrapKeeps ==
    ASSUME TaskInv, IInv', NEW t \in Threads, NEW f \in Futures, NEW c \in Ids, Wrap(t, f, c)
    PROVE  TaskInv'
<1>1. /\ future[f].phase = "new" /\ c \in handles \cup {Current(t)}
      /\ UNCHANGED <<ctx, live, handles, current, polls, own, interval, writing,
                     stats, limits, reported, told, late>>
      /\ future' = [future EXCEPT ![f].phase = "idle", ![f].ctx = c]
  BY DEF Wrap
<1>2. Extends /\ Ids' = Ids /\ NewIds = {} /\ \A u \in Threads : Current(u)' = Current(u)
  BY <1>1, StillExtends, CurrentStays
<1>3. /\ \A g \in Futures \ {f} : future'[g] = future[g]
      /\ future'[f].phase = "idle" /\ future'[f].ctx = c
  BY <1>1, FutureChanged
<1>4. c \in live /\ Gone \notin Ids
  BY <1>1, Facts
<1>5. Holding
  <2>1. \A g \in Futures : future'[g].ctx \in live \cup NewIds \cup {Gone}
    BY <1>3, <1>4, Facts
  <2> QED  BY <1>1, <1>2, <2>1, HoldingStays DEF Holding
<1>6. Holders \subseteq Holders' \cup {Gone} /\ Holders' \subseteq Holders \cup {Gone}
  <2>1. HoldingWays /\ HoldingWays'
    BY HoldersAre, PTL
  <2>2. future[f].ctx = Gone
    BY <1>1 DEF TaskInv, Polled
  <2>3. c \in Holders
    BY <1>1, <2>1 DEF HoldingWays, Current
  <2>4. \A g \in Futures : future'[g].ctx \in Holders
    <3>1. \A g \in Futures : future[g].ctx \in Holders
      BY <2>1 DEF HoldingWays
    <3> QED  BY <1>3, <2>3, <3>1
  <2>5. \A g \in Futures : future[g].ctx \in Holders' \/ future[g].ctx = Gone
    <3>1. \A g \in Futures : future'[g].ctx \in Holders'
      BY <2>1 DEF HoldingWays
    <3> QED  BY <1>3, <2>2, <3>1
  <2>6. \A d : (d \in Holders' => d \in Holders \/ \E g \in Futures : d = future'[g].ctx)
               /\ (d \in Holders => d \in Holders' \/ \E g \in Futures : d = future[g].ctx)
    <3>1. handles' = handles /\ current' = current /\ polls' = polls /\ interval' = interval
          /\ Detached' = Detached
      BY <1>1 DEF Detached
    <3> QED  BY <2>1, <3>1 DEF HoldingWays
  <2> QED  BY <2>4, <2>5, <2>6
<1>7. Held' /\ Finished'
  BY <1>1, <1>2, <1>5, <1>6, Rested
<1>8. Polled'
  BY <1>1, <1>2, <1>3, <1>4, PolledElsewhere
<1>9. Recorded' /\ Begun'
  BY <1>1, <1>2, RecordedStays, BegunStays
<1> QED  BY <1>2, <1>7, <1>8, <1>9 DEF TaskInv, Extends

LEMMA DropFutureKeeps ==
    ASSUME TaskInv, IInv', NEW f \in Futures, DropFuture(f)
    PROVE  TaskInv'
<1>1. /\ future[f].phase \in {"idle", "done"} /\ Reap
      /\ UNCHANGED <<ctx, handles, current, polls, own, interval, writing, stats, limits, late>>
      /\ future' = [future EXCEPT ![f] = [phase |-> "dropped", ctx |-> Gone, sending |-> NoRecord]]
  BY DEF DropFuture, contextVars, reportVars
<1>2. Extends /\ Ids' = Ids /\ NewIds = {} /\ \A u \in Threads : Current(u)' = Current(u)
  BY <1>1, StillExtends, CurrentStays
<1>3. /\ \A g \in Futures \ {f} : future'[g] = future[g]
      /\ future'[f].phase = "dropped" /\ future'[f].ctx = Gone
  <2>1. future \in [Futures -> Wrapped]
    BY DEF TaskInv, IInv, Contexts
  <2>2. future'[f] = [phase |-> "dropped", ctx |-> Gone, sending |-> NoRecord]
    BY <1>1, <2>1
  <2> QED  BY <1>1, <2>1, <2>2
<1>4. Holding
  <2>1. \A g \in Futures : future'[g].ctx \in live \cup NewIds \cup {Gone}
    BY <1>3, Facts
  <2> QED  BY <1>1, <1>2, <2>1, HoldingStays DEF Holding
<1>5. Polled'
  BY <1>1, <1>2, <1>3, PolledElsewhere
<1>6. Recorded' /\ Begun'
  BY <1>1, <1>2, RecordedStays, BegunStays
<1>7. stats' \in [Ids' -> Nat] /\ limits' \in [Ids' -> Nat]
  BY <1>1, <1>2 DEF TaskInv, Finished
<1> QED  BY <1>1, <1>4, <1>5, <1>6, <1>7, Dropping

\* The future goes from one place, where it may be polled, to the stack's top.
LEMMA PollKeeps ==
    ASSUME TaskInv, IInv', NEW t \in Threads, NEW f \in Futures, Poll(t, f)
    PROVE  TaskInv'
<1> DEFINE p == [future |-> f, prior |-> current[t], own |-> future[f].ctx]
           last == Len(polls[t])
<1>1. /\ Runs(t) /\ current[t] # Gone /\ future[f].phase = "idle" /\ Reap
      /\ UNCHANGED <<ctx, handles, own, interval, writing, stats, limits, late>>
      /\ polls' = [polls EXCEPT ![t] = Append(@, p)]
      /\ current' = [current EXCEPT ![t] = future[f].ctx]
      /\ future' = [future EXCEPT ![f].phase = "polled"]
  BY DEF Poll, contextVars, reportVars
<1>2. Extends /\ Ids' = Ids /\ NewIds = {}
  BY <1>1, StillExtends
<1>3. /\ \A g \in Futures \ {f} : future'[g] = future[g]
      /\ future'[f].phase = "polled" /\ future'[f].ctx = future[f].ctx
  BY ZenonT(60), <1>1, FutureChanged
<1>4. future[f].ctx \in live /\ current[t] \in live /\ live \subseteq Ids
  BY SMTT(30), <1>1, Facts DEF TaskInv, Polled
<1>5. /\ polls \in [Threads -> Seq(Saves)] /\ current \in [Threads -> Nat]
      /\ polls[t] \in Seq(Saves) /\ last \in Nat
  BY Facts DEF TaskInv, IInv, Contexts
<1>6. polls'[t] = Append(polls[t], p) /\ \A u \in Threads \ {t} : polls'[u] = polls[u]
  BY <1>1, <1>5
<1>7. p \in Saves /\ p.future = f /\ p.prior = current[t] /\ p.own = future[f].ctx
  BY <1>4, Facts DEF Saves
<1> HIDE DEF p
<1>8. /\ Len(polls'[t]) = last + 1 /\ DOMAIN polls'[t] = 1..last + 1 /\ polls'[t][last + 1] = p
      /\ \A n \in 1..last : polls'[t][n] = polls[t][n]
      /\ \A n \in 1..last + 1 : n = last + 1 \/ n \in 1..last
  BY <1>5, <1>6, <1>7
<1>9. \A u \in Threads : DOMAIN polls[u] = 1..Len(polls[u])
  BY <1>5
<1>10. Holding
  <2>1. \A u \in Threads : current'[u] \in live \cup NewIds \cup {Gone}
    BY <1>1, <1>4, <1>5, Facts
  <2>2. \A g \in Futures : future'[g].ctx \in live \cup NewIds \cup {Gone}
    BY <1>3, Facts
  <2>3. ASSUME NEW u \in Threads, NEW n \in DOMAIN polls'[u]
        PROVE  polls'[u][n].prior \in live
    <3>1. CASE u # t
      BY <1>6, <1>9, <2>3, <3>1, Facts
    <3>2. CASE u = t /\ n = last + 1
      BY <1>4, <1>7, <1>8, <3>2
    <3>3. CASE u = t /\ n \in 1..last
      BY <1>8, <3>3, Facts
    <3> QED  BY <1>8, <2>3, <3>1, <3>2, <3>3
  <2> QED  BY <1>1, <1>2, <2>1, <2>2, <2>3, HoldingStays DEF Holding
<1>11. Polled'
  <2>1. \A u \in Threads : \A n \in 1..Len(polls[u]) :
           /\ polls[u][n].future \in Futures /\ polls[u][n].future # f
           /\ polls[u][n].prior # Gone /\ polls[u][n].own \in Ids'
           /\ future'[polls[u][n].future].phase = "polled"
    <3>1. \A u \in Threads : \A n \in 1..Len(polls[u]) : polls[u][n].future \in Futures
      BY Facts DEF Saves
    <3> QED  BY <1>1, <1>2, <1>3, <3>1 DEF TaskInv, Polled
  <2>2. ASSUME NEW u \in Threads, NEW n \in 1..Len(polls'[u])
        PROVE  \/ u = t /\ n = last + 1 /\ polls'[u][n] = p
               \/ n \in 1..Len(polls[u]) /\ polls'[u][n] = polls[u][n]
    BY <1>6, <1>8, <2>2
  <2>3. p.prior # Gone /\ p.own \in Ids' /\ future'[p.future].phase = "polled"
    BY <1>1, <1>2, <1>3, <1>4, <1>7
  <2>4. \A u \in Threads : \A n \in 1..Len(polls'[u]) :
           /\ polls'[u][n].prior # Gone /\ polls'[u][n].own \in Ids'
           /\ future'[polls'[u][n].future].phase = "polled"
    BY <2>1, <2>2, <2>3
  <2>5. ASSUME NEW u \in Threads, NEW w \in Threads,
               NEW n \in 1..Len(polls'[u]), NEW m \in 1..Len(polls'[w]),
               polls'[u][n].future = polls'[w][m].future
        PROVE  u = w /\ n = m
    <3> HIDE DEF last
    <3>1. CASE polls'[u][n] = p /\ u = t /\ n = last + 1
      <4>1. polls'[w][m].future = f
        BY <1>7, <2>5, <3>1
      <4>2. ~(m \in 1..Len(polls[w]) /\ polls'[w][m] = polls[w][m])
        BY <2>1, <4>1
      <4> QED  BY <2>2, <3>1, <4>2
    <3>2. CASE n \in 1..Len(polls[u]) /\ polls'[u][n] = polls[u][n]
      <4>1. polls'[u][n].future # f
        BY <2>1, <3>2
      <4>2. m \in 1..Len(polls[w]) /\ polls'[w][m] = polls[w][m]
        BY <1>7, <2>2, <2>5, <4>1
      <4>3. polls[u][n].future = polls[w][m].future
        BY <2>5, <3>2, <4>2
      <4> QED  BY <3>2, <4>2, <4>3 DEF TaskInv, Polled
    <3> QED  BY <2>2, <3>1, <3>2
  <2>6. \A g \in Futures : future'[g].ctx = Gone <=> future'[g].phase \in {"new", "dropped"}
    BY <1>3, <1>1 DEF TaskInv, Polled
  <2> QED  BY <2>4, <2>5, <2>6 DEF Polled
<1>12. Recorded'
  <2>1. \A u \in Threads \ {t} : Current(u)' = Current(u)
    BY <1>1, <1>5, CurrentStays
  <2> QED  BY <1>1, <1>2, <2>1, RecordedStays DEF Runs
<1>13. Begun'
  BY <1>1, <1>2, BegunStays
<1>14. stats' \in [Ids' -> Nat] /\ limits' \in [Ids' -> Nat]
  BY <1>1, <1>2 DEF TaskInv, Finished
<1> QED  BY <1>1, <1>10, <1>11, <1>12, <1>13, <1>14, Dropping

\* The stack's top goes, and the future is in nobody's hands or done.
LEMMA ReturnKeeps ==
    ASSUME TaskInv, IInv', NEW t \in Threads, NEW outcome \in {"pending", "ready", "panic"},
           Return(t, outcome)
    PROVE  TaskInv'
<1> DEFINE last == Len(polls[t])
           f == Top(polls[t]).future
           phase == IF outcome = "pending" THEN "idle" ELSE "done"
<1>1. /\ polls[t] # <<>> /\ Reap
      /\ UNCHANGED <<ctx, handles, own, interval, stats, limits, late>>
      /\ polls' = [polls EXCEPT ![t] = SubSeq(@, 1, Len(@) - 1)]
      /\ current' = [current EXCEPT ![t] = Top(polls[t]).prior]
      /\ future' = [future EXCEPT ![f].phase = phase]
      /\ writing' = [writing EXCEPT ![t] = NoRecord]
  BY DEF Return, Restored, contextVars, reportVars
<1>2. Extends /\ Ids' = Ids /\ NewIds = {}
  BY <1>1, StillExtends
<1>3. /\ polls \in [Threads -> Seq(Saves)] /\ current \in [Threads -> Nat]
      /\ polls[t] \in Seq(Saves) /\ last \in Nat \ {0}
  <2>1. polls \in [Threads -> Seq(Saves)] /\ current \in [Threads -> Nat]
    BY DEF TaskInv, IInv, Contexts
  <2> QED  BY <1>1, <2>1
<1>4. last \in 1..last /\ Top(polls[t]) = polls[t][last]
  BY <1>3 DEF Top
<1>5. /\ f \in Futures /\ f = polls[t][last].future /\ future[f].phase = "polled"
      /\ Top(polls[t]).prior \in live
  <2>1. polls[t][last] \in Saves /\ polls[t][last].prior \in live
    BY <1>4, Facts
  <2> QED  BY <1>4, <2>1 DEF Saves, TaskInv, Polled
<1> HIDE DEF f
<1>6. /\ \A g \in Futures \ {f} : future'[g] = future[g]
      /\ future'[f].phase = phase /\ future'[f].ctx = future[f].ctx
  <2> HIDE DEF phase
  <2>1. future' = [future EXCEPT ![f].phase = phase]
    BY <1>1
  <2>2. future \in [Futures -> Wrapped] /\ future[f] \in Wrapped
    BY <1>5, Facts DEF TaskInv, IInv, Contexts
  <2>3. \A w \in Wrapped : LET v == [w EXCEPT !.phase = phase]
                           IN  v.ctx = w.ctx /\ v.phase = phase
    BY DEF Wrapped
  <2>4. future'[f] = [future[f] EXCEPT !.phase = phase] /\ \A g \in Futures \ {f} : future'[g] = future[g]
    BY <1>5, <2>1, <2>2
  <2> QED  BY <2>2, <2>3, <2>4
<1>7. /\ polls'[t] = SubSeq(polls[t], 1, last - 1)
      /\ \A u \in Threads \ {t} : polls'[u] = polls[u]
  BY <1>1, <1>3
<1>8. /\ Len(polls'[t]) = last - 1 /\ DOMAIN polls'[t] = 1..last - 1
      /\ \A n \in 1..last - 1 : n \in 1..last /\ n # last /\ polls'[t][n] = polls[t][n]
  <2>1. \A k \in 0..Len(polls[t]) :
           /\ Len(SubSeq(polls[t], 1, k)) = k /\ DOMAIN SubSeq(polls[t], 1, k) = 1..k
           /\ \A n \in 1..k : SubSeq(polls[t], 1, k)[n] = polls[t][n]
    BY <1>3
  <2>2. last - 1 \in 0..last /\ \A n \in 1..last - 1 : n \in 1..last /\ n # last
    BY <1>3
  <2> QED  BY <1>7, <2>1, <2>2
<1>9. ASSUME NEW u \in Threads
      PROVE  /\ DOMAIN polls'[u] = 1..Len(polls'[u])
             /\ \A n \in 1..Len(polls'[u]) :
                  /\ n \in 1..Len(polls[u]) /\ polls'[u][n] = polls[u][n] /\ ~(u = t /\ n = last)
  <2>1. CASE u = t
    BY <1>8, <2>1
  <2>2. CASE u # t
    <3>1. polls'[u] = polls[u] /\ polls[u] \in Seq(Saves)
      BY <1>3, <1>7, <2>2
    <3> QED  BY <2>2, <3>1
  <2> QED  BY <2>1, <2>2
<1> HIDE DEF last
<1>10. Holding
  <2>1. \A u \in Threads : current'[u] \in live \cup NewIds \cup {Gone}
    BY <1>1, <1>3, <1>5, Facts
  <2>2. \A g \in Futures : future'[g].ctx \in live \cup NewIds \cup {Gone}
    BY <1>6, Facts
  <2>3. \A u \in Threads : \A n \in DOMAIN polls'[u] : polls'[u][n].prior \in live
    BY ZenonT(60), <1>9, Facts
  <2> QED  BY <1>1, <1>2, <2>1, <2>2, <2>3, HoldingStays DEF Holding
<1>11. Polled'
  <2>1. \A u \in Threads : \A n \in 1..Len(polls[u]) : polls[u][n].future \in Futures
    BY Facts DEF Saves
  <2>2. \A u \in Threads : \A n \in 1..Len(polls'[u]) : polls'[u][n].future # f
    <3>1. \A u, w \in Threads : \A n \in 1..Len(polls[u]), m \in 1..Len(polls[w]) :
             polls[u][n].future = polls[w][m].future => u = w /\ n = m
      BY DEF TaskInv, Polled
    <3>2. last \in 1..Len(polls[t])
      BY <1>4 DEF last
    <3> QED  BY SMTT(30), <1>5, <1>9, <3>1, <3>2
  <2>3. \A u \in Threads : \A n \in 1..Len(polls'[u]) :
           /\ polls'[u][n].prior # Gone /\ polls'[u][n].own \in Ids'
           /\ future'[polls'[u][n].future].phase = "polled"
    BY SMTT(30), <1>2, <1>6, <1>9, <2>1, <2>2 DEF TaskInv, Polled
  <2>4. \A u, w \in Threads : \A n \in 1..Len(polls'[u]), m \in 1..Len(polls'[w]) :
           polls'[u][n].future = polls'[w][m].future => u = w /\ n = m
    <3>1. \A u, w \in Threads : \A n \in 1..Len(polls[u]), m \in 1..Len(polls[w]) :
             polls[u][n].future = polls[w][m].future => u = w /\ n = m
      BY DEF TaskInv, Polled
    <3>2. ASSUME NEW u \in Threads, NEW w \in Threads,
                 NEW n \in 1..Len(polls'[u]), NEW m \in 1..Len(polls'[w]),
                 polls'[u][n].future = polls'[w][m].future
          PROVE  u = w /\ n = m
      <4>1. n \in 1..Len(polls[u]) /\ polls'[u][n] = polls[u][n]
        BY <1>9
      <4>2. m \in 1..Len(polls[w]) /\ polls'[w][m] = polls[w][m]
        BY <1>9
      <4> QED  BY <3>1, <3>2, <4>1, <4>2
    <3> QED  BY <3>2
  <2>5. \A g \in Futures : future'[g].ctx = Gone <=> future'[g].phase \in {"new", "dropped"}
    BY <1>5, <1>6 DEF TaskInv, Polled
  <2> QED  BY <2>3, <2>4, <2>5 DEF Polled
<1>12. Recorded'
  <2>1. \A u \in Threads \ {t} : Current(u)' = Current(u)
    BY <1>1, <1>3, CurrentStays
  <2>2. writing'[t] = NoRecord
    BY <1>1 DEF TaskInv, Recorded
  <2> QED  BY <1>1, <1>2, <2>1, <2>2, RecordedStays
<1>13. Begun'
  BY <1>1, <1>2, BegunStays
<1>14. stats' \in [Ids' -> Nat] /\ limits' \in [Ids' -> Nat]
  BY <1>1, <1>2 DEF TaskInv, Finished
<1> QED  BY <1>1, <1>10, <1>11, <1>12, <1>13, <1>14, Dropping

\* A thread that ends lets go of its context.
LEMMA ThreadExitKeeps ==
    ASSUME TaskInv, IInv', NEW t \in Threads, ThreadExit(t)
    PROVE  TaskInv'
<1>1. /\ Runs(t) /\ Reap /\ current' = [current EXCEPT ![t] = Gone] /\ own' = [own EXCEPT ![t] = Gone]
      /\ UNCHANGED <<ctx, handles, polls, future, interval, writing, stats, limits, late>>
  BY DEF ThreadExit, contextVars, reportVars
<1>2. Extends /\ Ids' = Ids /\ NewIds = {}
  BY <1>1, StillExtends
<1>3. current \in [Threads -> Nat] /\ own' \in [Threads -> Ids' \cup {Gone}]
  BY <1>1, <1>2 DEF TaskInv, IInv, Contexts, Held
<1>4. Holding
  <2>1. \A u \in Threads : current'[u] \in live \cup NewIds \cup {Gone}
    BY <1>1, <1>3, Facts
  <2> QED  BY <1>1, <1>2, <1>3, <2>1, HoldingStays DEF Holding
<1>5. Polled'
  <2>1. \A u \in Threads : \A n \in 1..Len(polls[u]) : polls[u][n].own \in Ids'
    BY <1>2 DEF TaskInv, Polled
  <2> QED  BY <1>1, <1>2, <2>1, PolledStays
<1>6. Recorded'
  <2>1. \A u \in Threads \ {t} : Current(u)' = Current(u)
    BY <1>1, <1>3, CurrentStays
  <2> QED  BY <1>1, <1>2, <2>1, RecordedStays DEF Runs
<1>7. Begun'
  BY <1>1, <1>2, BegunStays
<1>8. stats' \in [Ids' -> Nat] /\ limits' \in [Ids' -> Nat]
  BY <1>1, <1>2 DEF TaskInv, Finished
<1> QED  BY <1>1, <1>4, <1>5, <1>6, <1>7, <1>8, Dropping

-----------------------------------------------------------------------------
(* The actions on intervals *)

\* The interval holds the context the thread logs under.
LEMMA BeginKeeps ==
    ASSUME TaskInv, IInv', NEW t \in Threads, NEW i \in Intervals,
           NEW kind \in {"plain", "if", "profile"}, Begin(t, i, kind), late' = late
    PROVE  TaskInv'
<1> DEFINE c == Current(t)
           r == [phase |-> "open", kind |-> kind, spent |-> 0, ctx |-> c, owner |-> TaskOf[c]]
<1>1. /\ interval[i].phase = "new" /\ interval' = [interval EXCEPT ![i] = r]
      /\ UNCHANGED <<ctx, live, handles, current, polls, own, future, writing,
                     stats, limits, reported, told, late>>
  BY DEF Begin
<1>2. Extends /\ Ids' = Ids /\ NewIds = {} /\ \A u \in Threads : Current(u)' = Current(u)
  BY <1>1, StillExtends, CurrentStays
<1>3. c \in live /\ TaskOf[c] \in live /\ live \subseteq Ids /\ Ids \subseteq Nat /\ Gone \notin Ids
  BY Facts
<1> HIDE DEF c
<1>4. r \in Spans /\ r.phase = "open" /\ r.ctx = c /\ r.owner = TaskOf[c]
  BY <1>3 DEF Spans
<1> HIDE DEF r
<1>5. interval \in [Intervals -> Spans]
  BY DEF TaskInv, Begun
<1>6. interval' \in [Intervals -> Spans] /\ interval'[i] = r
      /\ \A j \in Intervals \ {i} : interval'[j] = interval[j]
  BY <1>1, <1>4, <1>5
<1>7. Holding
  <2>1. \A j \in Intervals : interval'[j].ctx \in live \cup NewIds \cup {Gone}
    BY <1>3, <1>4, <1>6, Facts
  <2> QED  BY <1>1, <1>2, <2>1, HoldingStays DEF Holding
<1>8. Holders \subseteq Holders' \cup {Gone} /\ Holders' \subseteq Holders \cup {Gone}
  <2>1. HoldingWays /\ HoldingWays'
    BY HoldersAre, PTL
  <2>2. interval[i].ctx = Gone
    BY <1>1 DEF TaskInv, Begun
  <2>3. c \in Holders
    BY <2>1 DEF HoldingWays, Current, c
  <2>4. \A j \in Intervals : interval'[j].ctx \in Holders
    <3>1. \A j \in Intervals : interval[j].ctx \in Holders
      BY <2>1 DEF HoldingWays
    <3> QED  BY <1>4, <1>6, <2>3, <3>1
  <2>5. \A j \in Intervals : interval[j].ctx \in Holders' \/ interval[j].ctx = Gone
    <3>1. \A j \in Intervals : interval'[j].ctx \in Holders'
      BY <2>1 DEF HoldingWays
    <3> QED  BY <1>6, <2>2, <3>1
  <2>6. \A d : (d \in Holders' => d \in Holders \/ \E j \in Intervals : d = interval'[j].ctx)
               /\ (d \in Holders => d \in Holders' \/ \E j \in Intervals : d = interval[j].ctx)
    <3>1. handles' = handles /\ current' = current /\ polls' = polls /\ future' = future
          /\ Detached' = Detached
      BY <1>1 DEF Detached
    <3> QED  BY <2>1, <3>1 DEF HoldingWays
  <2> QED  BY <2>4, <2>5, <2>6
<1>9. Held' /\ Finished'
  <2>1. live' = live /\ reported' = reported /\ told' = told /\ stats' = stats /\ limits' = limits
        /\ late' = late
    BY <1>1
  <2> QED  BY <1>2, <1>7, <1>8, <2>1, Rested
<1>10. Polled'
  <2>1. \A u \in Threads : \A n \in 1..Len(polls[u]) : polls[u][n].own \in Ids'
    BY <1>2 DEF TaskInv, Polled
  <2> QED  BY <1>1, <1>2, <2>1, PolledStays
<1>11. Recorded'
  BY <1>1, <1>2, RecordedStays
<1>12. Begun'
  <2>1. \A d \in Ids \cup {Gone} : TaskOf'[d] = TaskOf[d]
    BY <1>2, ChainsLast DEF TaskInv
  <2>2. \A j \in Intervals : interval[j].ctx \in Ids \cup {Gone}
    BY Facts
  <2>3. ASSUME NEW j \in Intervals
        PROVE  /\ interval'[j].ctx = Gone <=> interval'[j].phase # "open"
               /\ interval'[j].phase = "open" => interval'[j].owner = TaskOf'[interval'[j].ctx]
               /\ interval'[j].owner \in Ids' \cup {Gone}
    <3>1. CASE j = i
      BY <1>2, <1>3, <1>4, <1>6, <2>1, <3>1
    <3>2. CASE j # i
      BY <1>2, <1>6, <2>1, <2>2, <3>2 DEF TaskInv, Begun
    <3> QED  BY <3>1, <3>2
  <2> QED  BY <1>6, <2>3 DEF Begun
<1> QED  BY <1>2, <1>9, <1>10, <1>11, <1>12 DEF TaskInv, Extends

\* What the guard of an interval leaves when it drops.
LEMMA IntervalEnded ==
    ASSUME interval \in [Intervals -> Spans], NEW i \in Intervals, NEW spent \in Nat,
           interval' = [interval EXCEPT ![i].phase = "ended", ![i].ctx = Gone, ![i].spent = spent]
    PROVE  /\ interval' \in [Intervals -> Spans]
           /\ interval'[i].phase = "ended" /\ interval'[i].ctx = Gone
           /\ interval'[i].owner = interval[i].owner
           /\ interval'[i].kind = interval[i].kind /\ interval'[i].spent = spent
           /\ \A j \in Intervals \ {i} : interval'[j] = interval[j]
<1> DEFINE e(s) == [s EXCEPT !.phase = "ended", !.ctx = Gone, !.spent = spent]
<1>1. \A s \in Spans : /\ e(s) \in Spans /\ e(s).phase = "ended" /\ e(s).ctx = Gone
                       /\ e(s).owner = s.owner /\ e(s).kind = s.kind /\ e(s).spent = spent
  BY DEF Spans, Gone
<1>2. interval' = [j \in Intervals |-> IF j = i THEN e(interval[i]) ELSE interval[j]]
  OBVIOUS
<1>3. \A j \in Intervals : interval[j] \in Spans
  OBVIOUS
<1> HIDE DEF e
<1>4. interval'[i] = e(interval[i]) /\ \A j \in Intervals \ {i} : interval'[j] = interval[j]
  BY <1>2
<1>5. interval' \in [Intervals -> Spans]
  <2>1. \A j \in Intervals : (IF j = i THEN e(interval[i]) ELSE interval[j]) \in Spans
    BY <1>1, <1>3
  <2> QED  BY <1>2, <2>1
<1> QED  BY <1>1, <1>3, <1>4, <1>5

\* The interval lets go of its context.
LEMMA EndKeeps ==
    ASSUME TaskInv, IInv', NEW t \in Threads, NEW i \in Intervals,
           NEW kind, NEW spent \in Nat, End(t, i, kind, spent), late' = late,
           stats' \in [Ids -> Nat], limits' \in [Ids -> Nat], Reap
    PROVE  TaskInv'
<1>1. /\ interval[i].phase = "open"
      /\ interval' = [interval EXCEPT ![i].phase = "ended", ![i].ctx = Gone, ![i].spent = spent]
      /\ UNCHANGED <<ctx, handles, current, polls, own, future, writing>>
  BY DEF End, contextVars
<1>2. Extends /\ Ids' = Ids /\ NewIds = {} /\ \A u \in Threads : Current(u)' = Current(u)
  BY <1>1, StillExtends, CurrentStays
<1>3. interval \in [Intervals -> Spans] /\ Gone \in Nat
  BY DEF TaskInv, Begun, Gone
<1>4. /\ interval' \in [Intervals -> Spans]
      /\ interval'[i].phase = "ended" /\ interval'[i].ctx = Gone
      /\ interval'[i].owner = interval[i].owner
      /\ \A j \in Intervals \ {i} : interval'[j] = interval[j]
  BY <1>1, <1>3, IntervalEnded
<1>5. Holding
  <2>1. \A j \in Intervals : interval'[j].ctx \in live \cup NewIds \cup {Gone}
    BY <1>4, Facts
  <2> QED  BY <1>1, <1>2, <2>1, HoldingStays DEF Holding
<1>6. Polled'
  <2>1. \A u \in Threads : \A n \in 1..Len(polls[u]) : polls[u][n].own \in Ids'
    BY <1>2 DEF TaskInv, Polled
  <2> QED  BY <1>1, <1>2, <2>1, PolledStays
<1>7. Recorded'
  BY <1>1, <1>2, RecordedStays
<1>8. Begun'
  <2>1. \A d \in Ids \cup {Gone} : TaskOf'[d] = TaskOf[d]
    BY <1>2, ChainsLast DEF TaskInv
  <2>2. \A j \in Intervals : interval[j].ctx \in Ids \cup {Gone}
    BY Facts
  <2>3. ASSUME NEW j \in Intervals
        PROVE  /\ interval'[j].ctx = Gone <=> interval'[j].phase # "open"
               /\ interval'[j].phase = "open" => interval'[j].owner = TaskOf'[interval'[j].ctx]
               /\ interval'[j].owner \in Ids' \cup {Gone}
    <3>1. CASE j = i
      BY <1>2, <1>4, <3>1 DEF TaskInv, Begun
    <3>2. CASE j # i
      BY <1>2, <1>4, <2>1, <2>2, <3>2 DEF TaskInv, Begun
    <3> QED  BY <3>1, <3>2
  <2> QED  BY <1>4, <2>3 DEF Begun
<1>9. stats' \in [Ids' -> Nat] /\ limits' \in [Ids' -> Nat]
  BY <1>2
<1> QED  BY <1>5, <1>6, <1>7, <1>8, <1>9, Dropping

LEMMA Added ==
    ASSUME NEW S, NEW g \in [S -> Nat], NEW d, NEW n \in Nat
    PROVE  [g EXCEPT ![d] = @ + n] \in [S -> Nat]
<1>1. d \in S => g[d] + n \in Nat
  OBVIOUS
<1> QED  BY <1>1

\* Time is charged to the task the interval was begun under, which is alive
\* for as long as the interval is open.
LEMMA IntervalSteps ==
    ASSUME TaskInv, IInv', NEW t \in Threads, NEW i \in Intervals,
           \/ PerfwarnCall(t, i) \/ PerfwarnIfCall(t, i) \/ ProfiledCall(t, i)
           \/ \E spent \in Durations :
                PerfwarnEnd(t, i, spent) \/ PerfwarnIfEnd(t, i, spent) \/ ProfileEnd(t, i, spent)
    PROVE  TaskInv'
<1>1. /\ TaskOf[Current(t)] \in live /\ live \subseteq Ids /\ Gone \notin Ids
      /\ \A c \in live : TaskOf[c] \in live
  BY Facts
<1>2. Durations \subseteq Nat /\ Threshold \in Nat
  BY TimesAssumption
<1>3. ASSUME NEW kind, NEW spent, End(t, i, kind, spent)
      PROVE  Charged(t, i) \in live
  <2>1. interval[i].ctx \in live
    BY <1>3, Facts DEF End, TaskInv, Begun
  <2> QED  BY <1>1, <2>1 DEF Charged
<1>4. ASSUME NEW d, NEW n \in Nat
      PROVE  /\ [stats EXCEPT ![d] = @ + n] \in [Ids -> Nat] /\ stats \in [Ids -> Nat]
             /\ [limits EXCEPT ![d] = @ + n] \in [Ids -> Nat] /\ limits \in [Ids -> Nat]
  <2>1. stats \in [Ids -> Nat] /\ limits \in [Ids -> Nat]
    BY DEF TaskInv, Finished
  <2> QED  BY <2>1, Added
<1>5. CASE PerfwarnCall(t, i) \/ ProfiledCall(t, i)
  <2>1. (\E kind \in {"plain", "profile"} : Begin(t, i, kind)) /\ Say(TaskOf[Current(t)])
    BY <1>5 DEF PerfwarnCall, PerfwarnBegin, ProfiledCall, ProfileBegin
  <2>2. late' = late
    BY <1>1, <2>1, SaidInTime
  <2> QED  BY <2>1, <2>2, BeginKeeps
<1>6. CASE PerfwarnIfCall(t, i)
  BY <1>6, BeginKeeps DEF PerfwarnIfCall, PerfwarnBeginIf
<1>7. ASSUME NEW spent \in Durations, PerfwarnEnd(t, i, spent)
      PROVE  TaskInv'
  <2>1. /\ End(t, i, "plain", spent) /\ Reap /\ Say(Charged(t, i)) /\ limits' = limits
        /\ stats' = [stats EXCEPT ![Charged(t, i)] = @ + spent]
    BY <1>7 DEF PerfwarnEnd
  <2>2. late' = late
    BY <1>3, <2>1, SaidInTime
  <2>3. stats' \in [Ids -> Nat] /\ limits' \in [Ids -> Nat] /\ spent \in Nat
    BY <1>2, <1>4, <2>1
  <2> QED  BY <2>1, <2>2, <2>3, EndKeeps
<1>8. ASSUME NEW spent \in Durations, PerfwarnIfEnd(t, i, spent)
      PROVE  TaskInv'
  <2>1. /\ End(t, i, "if", spent) /\ Reap /\ (Say(Charged(t, i)) \/ late' = late)
        /\ stats' = [stats EXCEPT ![Charged(t, i)] = @ + spent]
        /\ limits' = [limits EXCEPT ![Charged(t, i)] = @ + Threshold]
    BY <1>8 DEF PerfwarnIfEnd
  <2>2. late' = late
    BY <1>3, <2>1, SaidInTime
  <2>3. stats' \in [Ids -> Nat] /\ limits' \in [Ids -> Nat] /\ spent \in Nat
    BY <1>2, <1>4, <2>1
  <2> QED  BY <2>1, <2>2, <2>3, EndKeeps
<1>9. ASSUME NEW spent \in Durations, ProfileEnd(t, i, spent)
      PROVE  TaskInv'
  <2>1. /\ End(t, i, "profile", spent) /\ Reap /\ Say(Charged(t, i))
        /\ stats' = stats /\ limits' = limits
    BY <1>9 DEF ProfileEnd
  <2>2. late' = late
    BY <1>3, <2>1, SaidInTime
  <2>3. stats' \in [Ids -> Nat] /\ limits' \in [Ids -> Nat] /\ spent \in Nat
    BY <1>2, <2>1 DEF TaskInv, Finished
  <2> QED  BY <2>1, <2>2, <2>3, EndKeeps
<1> QED  BY <1>5, <1>6, <1>7, <1>8, <1>9

-----------------------------------------------------------------------------
(* The invariant of contexts and tasks *)

\* At the start each default context is current on the one thread it is of.
LEMMA EachIsCurrent ==
    ASSUME Init
    PROVE  /\ Detached \in Nat \ {0} /\ current \in [Threads -> 1..(Detached - 1)]
           /\ \A c \in 1..Detached : c = Detached \/ \E t \in Threads : c = current[t]
<1> DEFINE k == Cardinality(Threads)
<1>1. k \in Nat /\ Detached = k + 1
  BY ThreadsAssumption, FS_CardinalityType DEF Detached
<1> HIDE DEF k
<1>2. k = Detached - 1 /\ Detached \in Nat \ {0} /\ \A c \in 1..Detached : c = Detached \/ c \in 1..k
  BY <1>1
<1>3. current \in [Threads -> 1..k] /\ IsInjective(current)
  BY <1>2 DEF Init
<1>4. current \in Injection(Threads, 1..k)
  BY <1>3 DEF Injection, IsInjective
<1>5. IsFiniteSet(1..k) /\ Cardinality(1..k) = Cardinality(Threads)
  BY <1>1, FS_Interval DEF k
<1>6. current \in Surjection(Threads, 1..k)
  BY <1>4, <1>5, FS_Injection
<1>7. \A c \in 1..k : \E t \in Threads : c = current[t]
  BY <1>6 DEF Surjection
<1> QED  BY <1>2, <1>3, <1>7

LEMMA TaskInvInit == Init => TaskInv
<1> SUFFICES ASSUME Init PROVE TaskInv
  OBVIOUS
<1> DEFINE n == Detached
           inner == Inner(0, TRUE, FALSE, FALSE)
<1>1. /\ n \in Nat \ {0} /\ current \in [Threads -> 1..(n - 1)]
      /\ \A c \in 1..n : c = n \/ \E t \in Threads : c = current[t]
  BY EachIsCurrent
<1>2. /\ ctx = [c \in 1..n |-> inner] /\ live = 1..n /\ handles = {} /\ own = current
      /\ polls = [t \in Threads |-> <<>>]
      /\ future = [f \in Futures |-> [phase |-> "new", ctx |-> Gone, sending |-> NoRecord]]
      /\ interval = [i \in Intervals |-> [phase |-> "new", kind |-> "plain", ctx |-> Gone,
                                          owner |-> Gone, spent |-> 0]]
      /\ writing = [t \in Threads |-> NoRecord]
      /\ stats = [c \in 1..n |-> 0] /\ limits = [c \in 1..n |-> 0] /\ reported = [c \in 1..n |-> 0]
      /\ told = [l \in Loggers |-> {}] /\ late = [l \in Loggers |-> {}]
  BY DEF Init
<1>3. inner \in Inners /\ inner.parent = 0 /\ inner.task
  BY DEF Inner, Inners
<1> HIDE DEF inner, n
<1>4. /\ ctx \in Seq(Inners) /\ Len(ctx) = n /\ Ids = 1..n /\ \A c \in 1..n : ctx[c] = inner
  <2>1. ctx \in Seq(Inners) /\ Len(ctx) = n /\ \A c \in 1..n : ctx[c] = inner
    BY <1>1, <1>2, <1>3
  <2> QED  BY <2>1 DEF Ids
<1>5. Rooted
  <2>1. Detached \in 1..n
    BY <1>1 DEF n
  <2>2. \A c \in 1..n : 0 < c
    BY <1>1
  <2> QED  BY <1>3, <1>4, <2>1, <2>2 DEF Rooted
<1>6. 1..(n - 1) \subseteq 1..n /\ 1..n \subseteq Nat /\ Gone \notin 1..n
  BY <1>1 DEF Gone
<1>7. \A c \in 1..n : Chain[c] = {c}
  <2>1. Lineal /\ ChainIs
    BY <1>5, ChainsAreLineal, ChainUnfolds
  <2>2. 0 \in Nat \ Ids
    BY <1>4, <1>6 DEF Gone
  <2>3. Chain[0] = {}
    BY <2>1, <2>2 DEF Lineal
  <2>4. \A c \in 1..n : c \in Nat /\ c \in Ids /\ ctx[c].parent = 0
    BY <1>3, <1>4, <1>6
  <2>5. \A c \in 1..n : Chain[c] = {c} \cup Chain[ctx[c].parent]
    BY <2>1, <2>4 DEF ChainIs
  <2>6. \A c \in 1..n : Chain[c] = {c} \cup Chain[0]
    BY <2>4, <2>5
  <2> QED  BY <2>3, <2>6
<1>8. Chain[Gone] = {}
  BY <1>4, <1>5, <1>6, ChainUnfolds DEF ChainIs, Gone
<1>9. Holders \subseteq Ids \cup {Gone} /\ Ids \subseteq Holders
  <2>1. Detached \in Ids
    BY <1>5 DEF Rooted
  <2>2. \A t \in Threads : current[t] \in Ids /\ DOMAIN polls[t] = {}
    BY <1>1, <1>2, <1>4, <1>6
  <2>3. (\A f \in Futures : future[f].ctx = Gone) /\ (\A i \in Intervals : interval[i].ctx = Gone)
    BY <1>2
  <2>4. HoldingWays
    BY HoldersAre
  <2>5. Holders \subseteq Ids \cup {Gone}
    BY <1>2, <2>1, <2>2, <2>3, <2>4 DEF HoldingWays
  <2>6. Ids \subseteq Holders
    BY <1>1, <1>4, <2>4 DEF HoldingWays, n
  <2> QED  BY <2>5, <2>6
<1>10. Held
  <2>1. Alive = Ids
    BY <1>4, <1>7, <1>8, <1>9 DEF Alive
  <2>2. own \in [Threads -> Ids \cup {Gone}]
    BY <1>1, <1>2, <1>4, <1>6
  <2> QED  BY <1>2, <1>4, <1>9, <2>1, <2>2 DEF Held
<1>11. Polled
  <2>1. \A t \in Threads : Len(polls[t]) = 0
    BY <1>2
  <2>2. \A f \in Futures : future[f].ctx = Gone /\ future[f].phase = "new"
    BY <1>2
  <2> QED  BY <2>1, <2>2 DEF Polled
<1>12. Recorded
  BY <1>2 DEF Recorded
<1>13. Begun
  <2>1. [phase |-> "new", kind |-> "plain", ctx |-> Gone, owner |-> Gone, spent |-> 0] \in Spans
    BY DEF Spans, Gone
  <2>2. interval \in [Intervals -> Spans]
    BY <1>2, <2>1, Zenon
  <2>3. \A i \in Intervals : /\ interval[i].ctx = Gone /\ interval[i].phase = "new"
                             /\ interval[i].owner = Gone
    BY <1>2
  <2> QED  BY <2>2, <2>3 DEF Begun
<1>14. Finished
  BY <1>2, <1>4 DEF Finished
<1> QED  BY <1>5, <1>10, <1>11, <1>12, <1>13, <1>14, InvInit DEF TaskInv

LEMMA TaskInvNext == TaskInv /\ [Next]_vars => TaskInv'
<1> SUFFICES ASSUME TaskInv, [Next]_vars PROVE TaskInv'
  OBVIOUS
<1>1. IInv'
  BY InvNext DEF TaskInv
<1>2. ASSUME NEW t \in Threads, Thread(t)
      PROVE  TaskInv'
  <2>1. CASE \/ \E parent \in 0..Len(ctx), completes \in Internal : NewTask(t, parent, completes)
             \/ FromParent(t) \/ Reset(t)
             \/ \E c \in Ids : SetCurrent(t, c) \/ Pop(t, c)
             \/ BeginTrace(t)
    BY <1>1, <2>1, ContextSteps
  <2>2. CASE Call(t) \/ SyncPost(t) \/ AsyncPost(t) \/ Awaited(t)
    BY <1>1, <2>2, RecordSteps
  <2>3. ASSUME NEW f \in Futures, Poll(t, f)
        PROVE  TaskInv'
    BY <1>1, <2>3, PollKeeps
  <2>4. ASSUME NEW f \in Futures, NEW c \in Ids, Wrap(t, f, c)
        PROVE  TaskInv'
    BY <1>1, <2>4, WrapKeeps
  <2>5. ASSUME NEW outcome \in {"pending", "ready", "panic"}, Return(t, outcome)
        PROVE  TaskInv'
    BY <1>1, <2>5, ReturnKeeps
  <2>6. CASE ThreadExit(t)
    BY <1>1, <2>6, ThreadExitKeeps
  <2>7. ASSUME NEW i \in Intervals,
               \/ PerfwarnCall(t, i) \/ PerfwarnIfCall(t, i) \/ ProfiledCall(t, i)
               \/ \E spent \in Durations :
                    PerfwarnEnd(t, i, spent) \/ PerfwarnIfEnd(t, i, spent) \/ ProfileEnd(t, i, spent)
        PROVE  TaskInv'
    BY <1>1, <2>7, IntervalSteps
  <2> QED  BY <1>2, <2>1, <2>2, <2>3, <2>4, <2>5, <2>6, <2>7 DEF Thread
<1>3. ASSUME NEW c \in handles, DropHandle(c)
      PROVE  TaskInv'
  <2>1. /\ ctx' = ctx /\ handles' \subseteq handles /\ Reap
        /\ UNCHANGED <<current, polls, own, future, interval, writing, stats, limits, late>>
    BY <1>3 DEF DropHandle, reportVars
  <2> QED  BY <1>1, <2>1, HandleDropped
<1>4. ASSUME NEW f \in Futures, DropFuture(f)
      PROVE  TaskInv'
  BY <1>1, <1>4, DropFutureKeeps
<1>5. CASE \/ \E l \in Loggers : AddLogger(l)
           \/ \E list \in Lists(Loggers) : SetLoggers(list)
  BY <1>1, <1>5, LoggerSteps
<1>6. CASE UNCHANGED vars
  <2>1. UNCHANGED <<ctx, live, handles, current, polls, own, future, interval, writing,
                    stats, limits, reported, told, late>>
    BY <1>6 DEF vars
  <2>2. Extends /\ Ids' = Ids /\ NewIds = {} /\ \A u \in Threads : Current(u)' = Current(u)
    BY <2>1, StillExtends, CurrentStays
  <2>3. Recorded'
    BY <2>1, <2>2, RecordedStays
  <2> QED  BY <1>1, <2>1, <2>2, <2>3, Resting
<1> QED  BY <1>2, <1>3, <1>4, <1>5, <1>6 DEF Next

\* The types follow: a saved context, a future's and an open interval's are
\* alive because they are held.
LEMMA TaskInvTypes == TaskInv => TypeOK
<1> SUFFICES ASSUME TaskInv PROVE TypeOK
  OBVIOUS
<1>1. /\ live \subseteq Ids /\ Gone \notin Ids /\ Ids \subseteq Nat /\ Len(ctx) \in Nat
      /\ handles \subseteq live
  BY Facts
<1>2. ctx \in Seq([parent : 0..Len(ctx), task : BOOLEAN, completes : BOOLEAN, tracing : BOOLEAN])
  <2> DEFINE S == [parent : 0..Len(ctx), task : BOOLEAN, completes : BOOLEAN, tracing : BOOLEAN]
  <2>1. \A c \in Ids : ctx[c] \in Inners /\ ctx[c].parent \in 0..Len(ctx)
    BY <1>1, RootedTypes DEF TaskInv, Ids
  <2>2. \A c \in Ids : ctx[c] \in S
    BY <2>1 DEF Inners
  <2>3. ctx \in Seq(Inners)
    BY DEF TaskInv, Rooted
  <2> HIDE DEF S
  <2>4. ctx \in Seq(S)
    BY <2>2, <2>3 DEF Ids
  <2> QED  BY <2>4 DEF S
<1>3. current \in [Threads -> live \cup {Gone}] /\ own \in [Threads -> Ids \cup {Gone}]
  BY Facts DEF TaskInv, IInv, Contexts, Held
<1>4. polls \in [Threads -> Seq([future : Futures, prior : live, own : Ids])]
  <2> DEFINE S == [future : Futures, prior : live, own : Ids]
  <2>1. polls \in [Threads -> Seq(Saves)]
    BY DEF TaskInv, IInv, Contexts
  <2>2. ASSUME NEW t \in Threads
        PROVE  polls[t] \in Seq(S)
    <3>1. \A n \in 1..Len(polls[t]) : /\ polls[t][n] \in Saves /\ polls[t][n].prior \in live
                                      /\ polls[t][n].own \in Ids
      BY Facts DEF TaskInv, Polled
    <3>2. \A n \in 1..Len(polls[t]) : polls[t][n] \in S
      BY <3>1 DEF Saves
    <3> HIDE DEF S
    <3> QED  BY <2>1, <3>2
  <2> HIDE DEF S
  <2>3. polls \in [Threads -> Seq(S)]
    BY <2>1, <2>2
  <2> QED  BY <2>3 DEF S
<1>5. future \in [Futures -> [phase : {"new", "idle", "polled", "done", "dropped"},
                               ctx : live \cup {Gone},
                               sending : {NoRecord} \cup Seq(Loggers)]]
  <2>1. future \in [Futures -> Wrapped] /\ \A f \in Futures : future[f].ctx \in live \cup {Gone}
    BY Facts DEF TaskInv, IInv, Contexts
  <2> QED  BY <2>1 DEF Wrapped, Phases, Records
<1>6. interval \in [Intervals -> [phase : {"new", "open", "ended"}, spent : Nat,
                                   kind : {"plain", "if", "profile"},
                                   ctx : live \cup {Gone}, owner : Ids \cup {Gone}]]
  <2>1. interval \in [Intervals -> Spans]
        /\ \A i \in Intervals : interval[i].ctx \in live \cup {Gone} /\ interval[i].owner \in Ids \cup {Gone}
    BY Facts DEF TaskInv, Begun
  <2> QED  BY <2>1 DEF Spans
<1>7. writing \in [Threads -> [task : Ids, awaits : BOOLEAN] \cup {NoRecord}]
  BY DEF TaskInv, Recorded
<1>8. loggers \in Seq(Loggers)
  BY DEF TaskInv, IInv, Contexts
<1>9. {stats, limits, reported} \subseteq [Ids -> Nat] /\ {told, late} \subseteq [Loggers -> SUBSET Ids]
  BY DEF TaskInv, Finished
<1> QED  BY <1>1, <1>2, <1>3, <1>4, <1>5, <1>6, <1>7, <1>8, <1>9 DEF TypeOK

\* Every reference is to a context that is still there: what a thread, a poll,
\* a future, an interval or the application holds (context.rs's Arcs).
THEOREM TypeCorrect == Spec => []TypeOK
BY TaskInvInit, TaskInvNext, TaskInvTypes, PTL DEF Spec

\* "Finished task" is the last a logger hears of a task from the synchronous
\* calls and guards of any thread: whoever is about to log still holds a
\* context of the task, and Task::drop comes when nobody does.
THEOREM CompletionComesLast == Spec => []CompletionIsLast
<1>1. TaskInv => CompletionIsLast
  BY DEF TaskInv, Finished, CompletionIsLast
<1> QED  BY TaskInvInit, TaskInvNext, <1>1, PTL DEF Spec

-----------------------------------------------------------------------------
(* Sums over intervals *)

\* The values f of the sum of g over the subsets of S, element by element.
Pick(s) == CHOOSE x \in s : TRUE
Sums(f, g, S) ==
    \A s \in SUBSET S : f[s] = IF s = {} THEN 0 ELSE g[Pick(s)] + f[s \ {Pick(s)}]

\* What holds of an empty set and of a set with one element more holds of all.
LEMMA Smaller ==
    ASSUME NEW S, IsFiniteSet(S), NEW s \in SUBSET S
    PROVE  /\ IsFiniteSet(s) /\ Cardinality(s) \in Nat /\ (Cardinality(s) = 0 <=> s = {})
           /\ \A x \in s : /\ s \ {x} \in SUBSET S /\ Cardinality(s \ {x}) = Cardinality(s) - 1
           /\ s # {} => Pick(s) \in s
<1>1. IsFiniteSet(s)
  BY FS_Subset
<1>2. Cardinality(s) \in Nat /\ (Cardinality(s) = 0 <=> s = {})
  BY <1>1, FS_CardinalityType, FS_EmptySet
<1>3. \A x \in s : Cardinality(s \ {x}) = Cardinality(s) - 1
  BY <1>1, FS_RemoveElement
<1>4. s # {} => Pick(s) \in s
  BY DEF Pick
<1> QED  BY <1>1, <1>2, <1>3, <1>4

LEMMA SumsExist ==
    ASSUME NEW S, IsFiniteSet(S), NEW g \in [S -> Nat]
    PROVE  \E f \in [SUBSET S -> Nat] : Sums(f, g, S)
<1> DEFINE Up(n, f) == /\ f \in [SUBSET S -> Nat]
                       /\ \A s \in SUBSET S : Cardinality(s) <= n =>
                            f[s] = IF s = {} THEN 0 ELSE g[Pick(s)] + f[s \ {Pick(s)}]
           T == {n \in Nat : \E f : Up(n, f)}
<1>1. \A s \in SUBSET S :
         /\ Cardinality(s) \in Nat /\ (Cardinality(s) = 0 <=> s = {})
         /\ s # {} => /\ Pick(s) \in S /\ s \ {Pick(s)} \in SUBSET S
                      /\ Cardinality(s \ {Pick(s)}) = Cardinality(s) - 1
  BY Smaller
<1>2. 0 \in T
  <2> DEFINE zero == [s \in SUBSET S |-> 0]
  <2>1. zero \in [SUBSET S -> Nat] /\ \A s \in SUBSET S : zero[s] = 0
    OBVIOUS
  <2>2. ASSUME NEW s \in SUBSET S, Cardinality(s) <= 0
        PROVE  s = {}
    <3>1. Cardinality(s) \in Nat /\ (Cardinality(s) = 0 <=> s = {})
      BY <1>1
    <3> QED  BY <2>2, <3>1
  <2> HIDE DEF zero
  <2>3. Up(0, zero)
    BY <2>1, <2>2
  <2> QED  BY <2>3
<1>3. ASSUME NEW n \in Nat, n \in T
      PROVE  \E f : Up(n + 1, f)
  <2>1. PICK f : Up(n, f)
    BY <1>3
  <2> DEFINE h == [s \in SUBSET S |-> IF Cardinality(s) = n + 1 THEN g[Pick(s)] + f[s \ {Pick(s)}]
                                      ELSE f[s]]
  <2>2. \A s \in SUBSET S : Cardinality(s) = n + 1 => s # {} /\ g[Pick(s)] + f[s \ {Pick(s)}] \in Nat
    BY <1>1, <2>1
  <2>3. h \in [SUBSET S -> Nat]
    BY <2>1, <2>2
  <2>4. \A s \in SUBSET S : h[s] = IF Cardinality(s) = n + 1 THEN g[Pick(s)] + f[s \ {Pick(s)}]
                                   ELSE f[s]
    OBVIOUS
  <2> HIDE DEF h
  <2>5. ASSUME NEW s \in SUBSET S, Cardinality(s) <= n + 1
        PROVE  h[s] = IF s = {} THEN 0 ELSE g[Pick(s)] + h[s \ {Pick(s)}]
    <3>1. s # {} => h[s \ {Pick(s)}] = f[s \ {Pick(s)}]
      <4>1. s # {} => s \ {Pick(s)} \in SUBSET S /\ Cardinality(s \ {Pick(s)}) # n + 1
        BY <1>1, <2>5
      <4> QED  BY <2>4, <4>1
    <3>2. CASE Cardinality(s) = n + 1
      BY <2>2, <2>4, <3>1, <3>2
    <3>3. CASE Cardinality(s) # n + 1
      <4>1. Cardinality(s) <= n
        <5>1. Cardinality(s) \in Nat
          BY <1>1
        <5> QED  BY <2>5, <3>3, <5>1
      <4>2. f[s] = IF s = {} THEN 0 ELSE g[Pick(s)] + f[s \ {Pick(s)}]
        BY <2>1, <4>1
      <4> QED  BY <2>4, <3>1, <3>3, <4>2
    <3> QED  BY <3>2, <3>3
  <2>6. Up(n + 1, h)
    BY <2>3, <2>5
  <2> HIDE DEF Up
  <2> QED  BY <2>6
<1>4. \A n \in Nat : n \in T => n + 1 \in T
  <2> HIDE DEF Up
  <2> QED  BY <1>3
<1>5. Nat \subseteq T
  <2> HIDE DEF T
  <2> QED  BY <1>2, <1>4, SetInduction
<1>6. Cardinality(S) \in Nat
  BY <1>1
<1>7. PICK f : Up(Cardinality(S), f)
  <2> HIDE DEF Up
  <2> QED  BY <1>5, <1>6
<1>8. \A s \in SUBSET S : Cardinality(s) <= Cardinality(S)
  BY FS_Subset
<1> QED  BY <1>7, <1>8 DEF Sums

\* Sums of the same numbers are the same, of whatever larger sets they are.
LEMMA SumsAgree ==
    ASSUME NEW S, NEW R, NEW U \in SUBSET (S \cap R), IsFiniteSet(U),
           NEW f, NEW g, NEW h, NEW k, Sums(f, g, S), Sums(h, k, R), \A x \in U : g[x] = k[x]
    PROVE  f[U] = h[U]
<1> DEFINE T == {n \in Nat : \A s \in SUBSET U : Cardinality(s) = n => f[s] = h[s]}
<1>1. \A s \in SUBSET U :
         /\ Cardinality(s) \in Nat /\ (Cardinality(s) = 0 <=> s = {})
         /\ s # {} => /\ Pick(s) \in U /\ s \ {Pick(s)} \in SUBSET U
                      /\ Cardinality(s \ {Pick(s)}) = Cardinality(s) - 1
  BY Smaller
<1>2. \A s \in SUBSET U : /\ f[s] = IF s = {} THEN 0 ELSE g[Pick(s)] + f[s \ {Pick(s)}]
                          /\ h[s] = IF s = {} THEN 0 ELSE k[Pick(s)] + h[s \ {Pick(s)}]
  BY DEF Sums
<1>3. 0 \in T
  BY <1>1, <1>2
<1>4. ASSUME NEW n \in Nat, n \in T, NEW s \in SUBSET U, Cardinality(s) = n + 1
      PROVE  f[s] = h[s]
  <2>1. s # {} /\ Pick(s) \in U /\ s \ {Pick(s)} \in SUBSET U /\ Cardinality(s \ {Pick(s)}) = n
    <3>1. /\ Cardinality(s) = 0 <=> s = {}
          /\ s # {} => /\ Pick(s) \in U /\ s \ {Pick(s)} \in SUBSET U
                       /\ Cardinality(s \ {Pick(s)}) = Cardinality(s) - 1
      BY <1>1
    <3> QED  BY <1>4, <3>1
  <2>2. f[s \ {Pick(s)}] = h[s \ {Pick(s)}]
    BY <1>4, <2>1
  <2> QED  BY <1>2, <2>1, <2>2
<1>5. \A n \in Nat : n \in T => n + 1 \in T
  BY <1>4
<1>6. Nat \subseteq T
  <2> HIDE DEF T
  <2> QED  BY <1>3, <1>5, SetInduction
<1> QED  BY <1>1, <1>6

\* Which element a sum begins with makes no difference.
TakesAny(f, g, S) == \A s \in SUBSET S : \A x \in s : f[s] = g[x] + f[s \ {x}]

LEMMA SumsTakeAny ==
    ASSUME NEW S, IsFiniteSet(S), NEW g \in [S -> Nat], NEW f \in [SUBSET S -> Nat],
           Sums(f, g, S)
    PROVE  TakesAny(f, g, S)
<1> DEFINE T == {n \in Nat : \A r \in SUBSET S : Cardinality(r) = n =>
                                \A y \in r : f[r] = g[y] + f[r \ {y}]}
<1>1. \A r \in SUBSET S :
         /\ Cardinality(r) \in Nat /\ (Cardinality(r) = 0 <=> r = {})
         /\ \A y \in r : r \ {y} \in SUBSET S /\ Cardinality(r \ {y}) = Cardinality(r) - 1
         /\ r # {} => Pick(r) \in r
  BY Smaller
<1>2. 0 \in T
  BY <1>1
<1>3. ASSUME NEW n \in Nat, n \in T, NEW r \in SUBSET S, Cardinality(r) = n + 1, NEW y \in r
      PROVE  f[r] = g[y] + f[r \ {y}]
  <2> DEFINE p == Pick(r)
  <2>1. p \in r /\ p \in S /\ y \in S
    BY <1>1, <1>3
  <2>2. f[r] = g[p] + f[r \ {p}]
    BY <2>1 DEF Sums
  <2>3. CASE y = p
    BY <2>2, <2>3
  <2>4. CASE y # p
    <3>1. /\ r \ {p} \in SUBSET S /\ Cardinality(r \ {p}) = n /\ y \in r \ {p}
          /\ r \ {y} \in SUBSET S /\ Cardinality(r \ {y}) = n /\ p \in r \ {y}
          /\ (r \ {p}) \ {y} = (r \ {y}) \ {p} /\ (r \ {p}) \ {y} \in SUBSET S
      BY <1>1, <1>3, <2>1, <2>4
    <3>2. f[r \ {p}] = g[y] + f[(r \ {p}) \ {y}] /\ f[r \ {y}] = g[p] + f[(r \ {y}) \ {p}]
      BY <1>3, <3>1
    <3>3. g[p] \in Nat /\ g[y] \in Nat /\ f[(r \ {p}) \ {y}] \in Nat
      BY <2>1, <3>1
    <3>4. f[(r \ {p}) \ {y}] = f[(r \ {y}) \ {p}]
      BY <3>1
    <3>5. f[r] \in Nat /\ f[r \ {p}] \in Nat /\ f[r \ {y}] \in Nat
      BY <3>1
    <3> HIDE DEF p
    <3> QED  BY <2>2, <3>2, <3>3, <3>4, <3>5
  <2> QED  BY <2>3, <2>4
<1>4. ASSUME NEW n \in Nat, n \in T
      PROVE  n + 1 \in T
  <2>1. \A r \in SUBSET S : Cardinality(r) = n + 1 => \A y \in r : f[r] = g[y] + f[r \ {y}]
    BY <1>3, <1>4
  <2> QED  BY <2>1
<1>5. Nat \subseteq T
  <2> HIDE DEF T
  <2> QED  BY <1>2, <1>4, SetInduction
<1> QED  BY ZenonT(60), <1>1, <1>5 DEF TakesAny

\* What the intervals of S have taken, by the records v of the intervals.
TotalOf(v, S) == MapThenSumSet(LAMBDA i : v[i].spent, S)
TimesOf(v) == [i \in Intervals |-> v[i].spent]

LEMMA TotalIsASum ==
    ASSUME NEW v \in [Intervals -> Spans], NEW S \in SUBSET Intervals, IsFiniteSet(S)
    PROVE  \E f \in [SUBSET S -> Nat] : Sums(f, TimesOf(v), S) /\ TotalOf(v, S) = f[S]
<1> DEFINE g == [i \in S |-> v[i].spent]
           body(f) == [s \in SUBSET S |-> IF s = {} THEN 0 ELSE v[Pick(s)].spent + f[s \ {Pick(s)}]]
           F == CHOOSE f : f = body(f)
<1>1. g \in [S -> Nat] /\ \A i \in S : g[i] = v[i].spent /\ TimesOf(v)[i] = v[i].spent
  BY DEF Spans, TimesOf
<1> HIDE DEF g
<1>2. PICK f \in [SUBSET S -> Nat] : Sums(f, g, S)
  BY <1>1, SumsExist
<1>3. \A s \in SUBSET S : s # {} => Pick(s) \in S
  BY Smaller
<1>4. \A s \in SUBSET S : f[s] = IF s = {} THEN 0 ELSE v[Pick(s)].spent + f[s \ {Pick(s)}]
  BY <1>1, <1>2, <1>3 DEF Sums
<1>5. f = body(f)
  BY <1>2, <1>4
<1>6. F = body(F)
  <2> HIDE DEF body
  <2> QED  BY <1>5
<1>7. TotalOf(v, S) = F[S]
  BY DEF TotalOf, MapThenSumSet, MapThenFoldSet, Pick
<1> HIDE DEF F
<1>8. \A s \in SUBSET S : F[s] = IF s = {} THEN 0 ELSE v[Pick(s)].spent + F[s \ {Pick(s)}]
  <2>1. \A s \in SUBSET S : body(F)[s] = IF s = {} THEN 0 ELSE v[Pick(s)].spent + F[s \ {Pick(s)}]
    OBVIOUS
  <2> HIDE DEF body
  <2> QED  BY <1>6, <2>1
<1>9. Sums(F, TimesOf(v), S) /\ Sums(f, TimesOf(v), S)
  BY <1>1, <1>3, <1>4, <1>8 DEF Sums
<1>10. F[S] = f[S]
  <2>1. S \in SUBSET (S \cap S)
    OBVIOUS
  <2> QED  BY <1>9, <2>1, SumsAgree
<1> QED  BY <1>2, <1>7, <1>9, <1>10

\* The same intervals have taken the same.
LEMMA TotalKept ==
    ASSUME NEW v \in [Intervals -> Spans], NEW w \in [Intervals -> Spans],
           NEW S \in SUBSET Intervals, IsFiniteSet(S), \A i \in S : w[i].spent = v[i].spent
    PROVE  TotalOf(w, S) = TotalOf(v, S)
<1>1. PICK f : Sums(f, TimesOf(v), S) /\ TotalOf(v, S) = f[S]
  BY TotalIsASum
<1>2. PICK h : Sums(h, TimesOf(w), S) /\ TotalOf(w, S) = h[S]
  BY TotalIsASum
<1>3. \A i \in S : TimesOf(w)[i] = TimesOf(v)[i]
  BY DEF TimesOf
<1>4. S \in SUBSET (S \cap S)
  OBVIOUS
<1>5. h[S] = f[S]
  BY <1>1, <1>2, <1>3, <1>4, SumsAgree
<1> QED  BY <1>1, <1>2, <1>5

\* One more has taken what it has taken more.
LEMMA TotalGrows ==
    ASSUME NEW v \in [Intervals -> Spans], NEW w \in [Intervals -> Spans],
           NEW S \in SUBSET Intervals, IsFiniteSet(S), \A i \in S : w[i].spent = v[i].spent,
           NEW x \in Intervals \ S
    PROVE  TotalOf(w, S \cup {x}) = TotalOf(v, S) + w[x].spent
<1> DEFINE R == S \cup {x}
<1>1. IsFiniteSet(R) /\ R \in SUBSET Intervals /\ R \ {x} = S /\ S \in SUBSET R
  BY FS_AddElement
<1>2. PICK f \in [SUBSET S -> Nat] : Sums(f, TimesOf(v), S) /\ TotalOf(v, S) = f[S]
  BY TotalIsASum
<1> HIDE DEF R
<1>3. PICK h \in [SUBSET R -> Nat] : Sums(h, TimesOf(w), R) /\ TotalOf(w, R) = h[R]
  BY <1>1, TotalIsASum
<1>4. \A i \in S : TimesOf(w)[i] = TimesOf(v)[i]
  BY DEF TimesOf
<1>5. h[S] = f[S]
  <2>1. S \in SUBSET (S \cap R)
    BY <1>1
  <2> QED  BY <1>2, <1>3, <1>4, <2>1, SumsAgree
<1>6. h[R] = w[x].spent + h[S]
  <2>1. PICK k : k = [i \in R |-> w[i].spent]
    OBVIOUS
  <2>2. k \in [R -> Nat] /\ \A i \in R : k[i] = w[i].spent /\ k[i] = TimesOf(w)[i]
    BY <1>1, <2>1 DEF Spans, TimesOf
  <2>3. x \in R /\ R \in SUBSET R
    BY DEF R
  <2>4. Sums(h, k, R)
    <3>1. \A s \in SUBSET R : s # {} => Pick(s) \in R
      BY <1>1, Smaller
    <3> QED  BY <1>3, <2>2, <3>1 DEF Sums
  <2>5. TakesAny(h, k, R)
    BY <1>1, <1>3, <2>2, <2>4, SumsTakeAny
  <2>6. h[R] = k[x] + h[R \ {x}]
    BY <2>3, <2>5 DEF TakesAny
  <2> QED  BY <1>1, <2>2, <2>3, <2>6
<1>7. w[x].spent \in Nat /\ f[S] \in Nat
  BY DEF Spans
<1> QED  BY <1>2, <1>3, <1>5, <1>6, <1>7 DEF R

-----------------------------------------------------------------------------
(* The statistics of a task *)

\* What a task with these statistics reports.
Reports(spent, limit) == IF spent # 0 /\ (limit = 0 \/ spent > limit) THEN spent ELSE 0

\* A task's statistics are of the intervals begun under it that have ended, and
\* a dropped task reported them as they are.
Tallied ==
    /\ \A i \in Intervals : interval[i].phase = "new" => interval[i].owner = Gone
    /\ \A c \in Ids : /\ IsFiniteSet(Ended(c, {"plain", "if"}))
                      /\ stats[c] = TimeSpent(c) /\ limits[c] = TimeAllowed(c)
    /\ \A c \in Ids \ live : ctx[c].task => reported[c] = Reports(stats[c], limits[c])

TallyInv == TaskInv /\ Tallied

LEMMA EndedIntervals ==
    ASSUME NEW c
    PROVE  /\ Ended(c, {"if"}) \in SUBSET Ended(c, {"plain", "if"})
           /\ Ended(c, {"plain", "if"}) \in SUBSET Intervals
           /\ TimeSpent(c) = TotalOf(interval, Ended(c, {"plain", "if"}))
<1>1. TimeSpent(c) = TotalOf(interval, Ended(c, {"plain", "if"}))
  BY DEF TimeSpent, TotalOf
<1> QED  BY <1>1 DEF Ended

\* A task that goes reports its statistics, and one that went keeps its report.
LEMMA Settled ==
    ASSUME TallyInv, Extends, Reap \/ (UNCHANGED <<live, reported>> /\ Ids' = Ids),
           \A c \in Ids \ live : stats'[c] = stats[c] /\ limits'[c] = limits[c],
           \A c \in NewIds : stats'[c] = 0
    PROVE  \A c \in Ids' \ live' : ctx'[c].task => reported'[c] = Reports(stats'[c], limits'[c])
<1> SUFFICES ASSUME NEW c \in Ids' \ live', ctx'[c].task
             PROVE  reported'[c] = Reports(stats'[c], limits'[c])
  OBVIOUS
<1>1. c \in Ids => ctx[c].task
  BY DEF Extends
<1>2. live \subseteq Ids
  BY Facts DEF TallyInv
<1>3. ASSUME c \in Ids \ live
      PROVE  reported[c] = Reports(stats'[c], limits'[c])
  BY <1>1, <1>3 DEF TallyInv, Tallied
<1>4. CASE Reap
  <2> DEFINE gone == {d \in live \ live' : ctx[d].task}
  <2>1. reported' = [d \in 1..Len(ctx') |->
               IF d \in gone THEN Report(d) ELSE IF d \in Ids THEN reported[d] ELSE 0]
    BY <1>4 DEF Reap
  <2> HIDE DEF gone
  <2>2. reported'[c] = IF c \in gone THEN Report(c) ELSE IF c \in Ids THEN reported[c] ELSE 0
    BY <2>1 DEF Ids
  <2>3. c \in gone <=> c \in live
    BY <1>1, <1>2 DEF gone
  <2>4. Report(c) = Reports(stats'[c], limits'[c])
    BY DEF Report, Reports
  <2>5. c \notin Ids => Reports(stats'[c], limits'[c]) = 0
    BY DEF NewIds, Reports
  <2> QED  BY <1>2, <1>3, <2>2, <2>3, <2>4, <2>5
<1>5. CASE UNCHANGED <<live, reported>> /\ Ids' = Ids
  BY <1>3, <1>5
<1> QED  BY <1>4, <1>5

\* Intervals that have not ended and do not end now count for nothing.
LEMMA SameTally ==
    ASSUME TallyInv, TaskInv', NEW c \in Ids,
           \A i \in Intervals : /\ interval'[i].phase = "ended" <=> interval[i].phase = "ended"
                                /\ interval[i].phase = "ended" => interval'[i] = interval[i]
    PROVE  /\ IsFiniteSet(Ended(c, {"plain", "if"})')
           /\ TimeSpent(c)' = TimeSpent(c) /\ TimeAllowed(c)' = TimeAllowed(c)
<1> DEFINE S == Ended(c, {"plain", "if"})
<1>1. Ended(c, {"plain", "if"})' = S /\ Ended(c, {"if"})' = Ended(c, {"if"})
  BY DEF Ended
<1>2. IsFiniteSet(S) /\ S \in SUBSET Intervals
  BY EndedIntervals DEF TallyInv, Tallied
<1>3. \A i \in S : interval'[i].spent = interval[i].spent
  BY DEF Ended
<1>4. interval \in [Intervals -> Spans] /\ interval' \in [Intervals -> Spans]
  BY DEF TallyInv, TaskInv, Begun
<1>5. TimeSpent(c)' = TotalOf(interval', S)
  <2>1. TimeSpent(c)' = TotalOf(interval', Ended(c, {"plain", "if"})')
    BY DEF TimeSpent, TotalOf, MapThenSumSet, MapThenFoldSet, Ended
  <2> QED  BY <1>1, <2>1
<1>6. TimeSpent(c) = TotalOf(interval, S)
  BY EndedIntervals
<1> HIDE DEF S
<1>7. TotalOf(interval', S) = TotalOf(interval, S)
  BY <1>2, <1>3, <1>4, TotalKept
<1> QED  BY <1>1, <1>2, <1>5, <1>6, <1>7 DEF TimeAllowed

\* Nothing was begun under a context that is new.
LEMMA NewTally ==
    ASSUME TallyInv, NEW c \in NewIds, interval' = interval
    PROVE  /\ IsFiniteSet(Ended(c, {"plain", "if"})')
           /\ TimeSpent(c)' = 0 /\ TimeAllowed(c)' = 0
<1>1. \A i \in Intervals : interval'[i].owner # c
  <2>1. c \notin Ids /\ c # Gone
    <3>1. Ids' \subseteq 1..Len(ctx')
      BY DEF Ids
    <3> QED  BY <3>1 DEF NewIds, Gone
  <2> QED  BY <2>1 DEF TallyInv, TaskInv, Begun
<1>2. Ended(c, {"plain", "if"})' = {} /\ Ended(c, {"if"})' = {}
  BY <1>1 DEF Ended
<1>3. IsFiniteSet({}) /\ Cardinality({}) = 0 /\ Threshold \in Nat
  BY FS_EmptySet, TimesAssumption
<1>4. interval \in [Intervals -> Spans]
  BY DEF TallyInv, TaskInv, Begun
<1>5. TimeSpent(c)' = TotalOf(interval, {})
  <2>1. TimeSpent(c)' = TotalOf(interval', Ended(c, {"plain", "if"})')
    BY DEF TimeSpent, TotalOf, MapThenSumSet, MapThenFoldSet, Ended
  <2> QED  BY <1>2, <2>1
<1>6. TotalOf(interval, {}) = 0
  <2>1. {} \in SUBSET Intervals
    OBVIOUS
  <2>2. PICK f : Sums(f, TimesOf(interval), {}) /\ TotalOf(interval, {}) = f[{}]
    BY <1>3, <1>4, <2>1, TotalIsASum
  <2> QED  BY <2>2 DEF Sums
<1> QED  BY <1>2, <1>3, <1>5, <1>6 DEF TimeAllowed

\* The time of an interval that ends goes to the task it was begun under, which
\* is alive.
LEMMA ChargedTally ==
    ASSUME TallyInv, TaskInv', NEW t \in Threads, NEW i \in Intervals, NEW kind, NEW spent \in Nat,
           End(t, i, kind, spent), NEW c \in Ids
    PROVE  /\ Charged(t, i) \in live /\ Charged(t, i) = interval[i].owner
           /\ IsFiniteSet(Ended(c, {"plain", "if"})')
           /\ TimeSpent(c)' = IF c = Charged(t, i) /\ kind \in {"plain", "if"}
                              THEN TimeSpent(c) + spent ELSE TimeSpent(c)
           /\ TimeAllowed(c)' = IF c = Charged(t, i) /\ kind = "if"
                                THEN TimeAllowed(c) + Threshold ELSE TimeAllowed(c)
<1> DEFINE S == Ended(c, {"plain", "if"})
           R == Ended(c, {"if"})
           here == c = interval[i].owner
<1>1. /\ interval[i].phase = "open" /\ interval[i].kind = kind
      /\ interval' = [interval EXCEPT ![i].phase = "ended", ![i].ctx = Gone, ![i].spent = spent]
  BY DEF End
<1>2. interval \in [Intervals -> Spans] /\ interval' \in [Intervals -> Spans]
  BY DEF TallyInv, TaskInv, Begun
<1>3. /\ interval'[i].phase = "ended" /\ interval'[i].owner = interval[i].owner
      /\ interval'[i].kind = kind /\ interval'[i].spent = spent
      /\ \A j \in Intervals \ {i} : interval'[j] = interval[j]
  BY <1>1, <1>2, IntervalEnded
<1>4. Charged(t, i) \in live /\ Charged(t, i) = interval[i].owner
  <2>1. interval[i].ctx \in live /\ interval[i].owner = TaskOf[interval[i].ctx]
    BY <1>1, Facts DEF TallyInv, TaskInv, Begun
  <2> QED  BY <2>1, Facts DEF Charged, TallyInv
<1>5. /\ IsFiniteSet(S) /\ S \in SUBSET Intervals /\ R \in SUBSET S /\ i \notin S
      /\ TimeSpent(c) = TotalOf(interval, S)
  <2>1. i \notin S
    BY <1>1 DEF Ended
  <2> QED  BY <2>1, EndedIntervals DEF TallyInv, Tallied
<1>6. IsFiniteSet(R) /\ Cardinality(R) \in Nat /\ i \notin R
  BY <1>5, FS_Subset, FS_CardinalityType
<1> DEFINE gains(K) == IF here /\ kind \in K THEN Ended(c, K) \cup {i} ELSE Ended(c, K)
<1>7. /\ Ended(c, {"plain", "if"})' = gains({"plain", "if"})
      /\ Ended(c, {"if"})' = gains({"if"})
  <2>1. ASSUME NEW K, NEW j
        PROVE  j \in {k \in Intervals : /\ interval'[k].owner = c /\ interval'[k].kind \in K
                                        /\ interval'[k].phase = "ended"}
               <=> j \in gains(K)
    <3>1. CASE j = i
      BY <1>1, <1>3, <3>1 DEF Ended
    <3>2. CASE j # i
      <4>1. j \in Intervals => interval'[j] = interval[j]
        BY <1>3, <3>2
      <4> QED  BY <3>2, <4>1 DEF Ended
    <3> QED  BY <3>1, <3>2
  <2>2. \A K : {k \in Intervals : /\ interval'[k].owner = c /\ interval'[k].kind \in K
                                 /\ interval'[k].phase = "ended"} = gains(K)
    <3> HIDE DEF gains
    <3> QED  BY <2>1
  <2> HIDE DEF gains
  <2> QED  BY <2>2 DEF Ended
<1>8. /\ Ended(c, {"plain", "if"})' = IF here /\ kind \in {"plain", "if"} THEN S \cup {i} ELSE S
      /\ Ended(c, {"if"})' = IF here /\ kind = "if" THEN R \cup {i} ELSE R
  BY <1>7
<1>9. TimeSpent(c)' = TotalOf(interval', Ended(c, {"plain", "if"})')
  BY DEF TimeSpent, TotalOf, MapThenSumSet, MapThenFoldSet, Ended
<1>10. TimeAllowed(c)' = Threshold * Cardinality(Ended(c, {"if"})')
  BY DEF TimeAllowed
<1>11. TimeAllowed(c) = Threshold * Cardinality(R)
  BY DEF TimeAllowed
<1> HIDE DEF S, R, here
<1>12. \A j \in S : interval'[j].spent = interval[j].spent
  BY <1>3, <1>5
<1>13. TotalOf(interval', S) = TotalOf(interval, S)
  BY <1>2, <1>5, <1>12, TotalKept
<1>14. TotalOf(interval', S \cup {i}) = TotalOf(interval, S) + spent
  <2>1. i \in Intervals \ S
    BY <1>5
  <2> QED  BY <1>2, <1>3, <1>5, <1>12, <2>1, TotalGrows
<1>15. IsFiniteSet(S \cup {i})
  BY <1>5, FS_AddElement
<1>16. Threshold * Cardinality(R \cup {i}) = Threshold * Cardinality(R) + Threshold
  <2>1. Cardinality(R \cup {i}) = Cardinality(R) + 1
    BY <1>6, FS_AddElement
  <2>2. \A a, n \in Nat : a * (n + 1) = a * n + a
    OBVIOUS
  <2> QED  BY <1>6, <2>1, <2>2, TimesAssumption
<1>17. TimeSpent(c)' = IF here /\ kind \in {"plain", "if"} THEN TimeSpent(c) + spent ELSE TimeSpent(c)
  BY <1>5, <1>8, <1>9, <1>13, <1>14
<1>18. TimeAllowed(c)' = IF here /\ kind = "if" THEN TimeAllowed(c) + Threshold ELSE TimeAllowed(c)
  BY <1>8, <1>10, <1>11, <1>16
<1>19. IsFiniteSet(Ended(c, {"plain", "if"})')
  BY <1>5, <1>8, <1>15
<1> QED  BY <1>4, <1>17, <1>18, <1>19 DEF here

\* How most steps change the contexts and the statistics: new ones have none.
Grows ==
    /\ Extends
    /\ \A c \in Ids : stats'[c] = stats[c] /\ limits'[c] = limits[c]
    /\ \A c \in NewIds : stats'[c] = 0 /\ limits'[c] = 0

LEMMA CreatedGrows ==
    ASSUME TaskInv, TaskInv', NEW inner, Create(inner)
    PROVE  Grows
<1> DEFINE n == Len(ctx)
<1>1. /\ ctx \in Seq(Inners \cup {inner}) /\ n \in Nat /\ ctx' = Append(ctx, inner)
      /\ stats' = Append(stats, 0) /\ limits' = Append(limits, 0)
  <2>1. ctx \in Seq(Inners) /\ n \in Nat
    BY Facts DEF TaskInv, Rooted
  <2> QED  BY <2>1 DEF Create
<1>2. Len(ctx') = n + 1 /\ \A c \in 1..n : ctx'[c] = ctx[c]
  BY <1>1
<1>3. Ids = 1..n /\ Ids' = 1..n + 1 /\ Ids \subseteq Ids' /\ \A c \in NewIds : c = n + 1
  BY <1>1, <1>2 DEF Ids, NewIds
<1>4. ASSUME NEW f \in [1..n -> Nat]
      PROVE  /\ Append(f, 0)[n + 1] = 0 /\ \A c \in 1..n : Append(f, 0)[c] = f[c]
  BY <1>1, CountAppended
<1>5. stats \in [1..n -> Nat] /\ limits \in [1..n -> Nat]
  BY <1>3 DEF TaskInv, Finished
<1>6. Rooted'
  BY DEF TaskInv
<1> HIDE DEF n
<1>7. Extends
  BY <1>2, <1>3, <1>6 DEF Extends
<1>8. \A c \in Ids : stats'[c] = stats[c] /\ limits'[c] = limits[c]
  BY <1>1, <1>3, <1>4, <1>5
<1>9. \A c \in NewIds : stats'[c] = 0 /\ limits'[c] = 0
  BY <1>1, <1>3, <1>4, <1>5
<1> QED  BY <1>7, <1>8, <1>9 DEF Grows

LEMMA StillGrows ==
    ASSUME TaskInv, ctx' = ctx \/ \E d \in Ids : ctx' = [ctx EXCEPT ![d].tracing = TRUE],
           UNCHANGED <<stats, limits>>
    PROVE  Grows /\ Ids' = Ids
BY StillExtends, TracedExtends DEF Grows

\* A step in which no interval begins or ends.
LEMMA UntimedTally ==
    ASSUME TallyInv, TaskInv', Grows, interval' = interval,
           Reap \/ (UNCHANGED <<live, reported>> /\ Ids' = Ids)
    PROVE  Tallied'
<1>1. \A i \in Intervals : interval'[i].phase = "new" => interval'[i].owner = Gone
  BY DEF TallyInv, Tallied, Gone
<1>2. ASSUME NEW c \in Ids'
      PROVE  /\ IsFiniteSet(Ended(c, {"plain", "if"})')
             /\ stats'[c] = TimeSpent(c)' /\ limits'[c] = TimeAllowed(c)'
  <2>1. CASE c \in Ids
    <3>1. /\ IsFiniteSet(Ended(c, {"plain", "if"})')
          /\ TimeSpent(c)' = TimeSpent(c) /\ TimeAllowed(c)' = TimeAllowed(c)
      BY <2>1, SameTally
    <3> QED  BY <2>1, <3>1 DEF Grows, TallyInv, Tallied
  <2>2. CASE c \in NewIds
    BY <2>2, NewTally DEF Grows
  <2> QED  BY <2>1, <2>2 DEF NewIds
<1>3. \A c \in Ids' \ live' : ctx'[c].task => reported'[c] = Reports(stats'[c], limits'[c])
  BY Settled DEF Grows
<1> QED  BY <1>1, <1>2, <1>3 DEF Tallied

LEMMA BeginTally ==
    ASSUME TallyInv, TaskInv', NEW t \in Threads, NEW i \in Intervals,
           NEW kind \in {"plain", "if", "profile"}, Begin(t, i, kind)
    PROVE  Tallied'
<1>1. /\ interval[i].phase = "new" /\ interval \in [Intervals -> Spans]
      /\ interval' = [interval EXCEPT ![i] = [phase |-> "open", kind |-> kind, spent |-> 0,
                         ctx |-> Current(t), owner |-> TaskOf[Current(t)]]]
      /\ UNCHANGED <<ctx, live, stats, limits, reported>>
  BY DEF Begin, TallyInv, TaskInv, Begun
<1>2. /\ interval'[i].phase = "open" /\ \A j \in Intervals \ {i} : interval'[j] = interval[j]
  BY <1>1
<1>3. Grows /\ Ids' = Ids
  BY <1>1, StillGrows DEF TallyInv
<1>4. \A j \in Intervals : interval'[j].phase = "new" => interval'[j].owner = Gone'
  BY <1>2 DEF TallyInv, Tallied, Gone
<1>5. ASSUME NEW c \in Ids'
      PROVE  /\ IsFiniteSet(Ended(c, {"plain", "if"})')
             /\ stats'[c] = TimeSpent(c)' /\ limits'[c] = TimeAllowed(c)'
  <2>1. \A j \in Intervals : /\ interval'[j].phase = "ended" <=> interval[j].phase = "ended"
                             /\ interval[j].phase = "ended" => interval'[j] = interval[j]
    BY <1>1, <1>2
  <2>2. /\ IsFiniteSet(Ended(c, {"plain", "if"})')
        /\ TimeSpent(c)' = TimeSpent(c) /\ TimeAllowed(c)' = TimeAllowed(c)
    BY <1>3, <2>1, SameTally
  <2> QED  BY <1>1, <1>3, <2>2 DEF TallyInv, Tallied
<1>6. \A c \in Ids' \ live' : ctx'[c].task => reported'[c] = Reports(stats'[c], limits'[c])
  BY <1>1, <1>3, Settled DEF Grows
<1> QED  BY <1>4, <1>5, <1>6 DEF Tallied

LEMMA EndTally ==
    ASSUME TallyInv, TaskInv', NEW t \in Threads, NEW i \in Intervals, NEW spent \in Durations,
           PerfwarnEnd(t, i, spent) \/ PerfwarnIfEnd(t, i, spent) \/ ProfileEnd(t, i, spent)
    PROVE  Tallied'
<1> DEFINE o == Charged(t, i)
<1>1. spent \in Nat /\ Threshold \in Nat
  BY TimesAssumption
<1>2. stats \in [Ids -> Nat] /\ limits \in [Ids -> Nat]
  BY DEF TallyInv, TaskInv, Finished
<1>3. PICK kind \in {"plain", "if", "profile"} :
         /\ End(t, i, kind, spent) /\ Reap
         /\ stats' = IF kind \in {"plain", "if"} THEN [stats EXCEPT ![o] = @ + spent] ELSE stats
         /\ limits' = IF kind = "if" THEN [limits EXCEPT ![o] = @ + Threshold] ELSE limits
  BY DEF PerfwarnEnd, PerfwarnIfEnd, ProfileEnd
<1>4. ctx' = ctx /\ interval[i].phase = "open"
      /\ interval' = [interval EXCEPT ![i].phase = "ended", ![i].ctx = Gone, ![i].spent = spent]
  BY <1>3 DEF End, contextVars
<1>5. Extends /\ Ids' = Ids /\ NewIds = {}
  BY <1>4, StillExtends DEF TallyInv
<1>6. o \in live /\ o \in Ids
  <2>1. live \subseteq Ids /\ Detached \in Ids
    BY Facts DEF TallyInv
  <2> QED  BY <1>1, <1>3, <2>1, ChargedTally
<1> HIDE DEF o
<1>7. \A c \in Ids :
         /\ stats'[c] = IF c = o /\ kind \in {"plain", "if"} THEN stats[c] + spent ELSE stats[c]
         /\ limits'[c] = IF c = o /\ kind = "if" THEN limits[c] + Threshold ELSE limits[c]
  BY <1>2, <1>3
<1>8. \A j \in Intervals : interval'[j].phase = "new" => interval'[j].owner = Gone'
  <2>1. interval \in [Intervals -> Spans]
    BY DEF TallyInv, TaskInv, Begun
  <2>2. interval'[i].phase = "ended" /\ \A j \in Intervals \ {i} : interval'[j] = interval[j]
    BY <1>1, <1>4, <2>1, IntervalEnded
  <2> QED  BY <2>2 DEF TallyInv, Tallied, Gone
<1>9. ASSUME NEW c \in Ids'
      PROVE  /\ IsFiniteSet(Ended(c, {"plain", "if"})')
             /\ stats'[c] = TimeSpent(c)' /\ limits'[c] = TimeAllowed(c)'
  <2>1. /\ IsFiniteSet(Ended(c, {"plain", "if"})')
        /\ TimeSpent(c)' = IF c = o /\ kind \in {"plain", "if"}
                           THEN TimeSpent(c) + spent ELSE TimeSpent(c)
        /\ TimeAllowed(c)' = IF c = o /\ kind = "if"
                             THEN TimeAllowed(c) + Threshold ELSE TimeAllowed(c)
    BY <1>1, <1>3, <1>5, ChargedTally DEF o
  <2>2. stats[c] = TimeSpent(c) /\ limits[c] = TimeAllowed(c)
    BY <1>5 DEF TallyInv, Tallied
  <2> QED  BY <1>5, <1>7, <2>1, <2>2
<1>10. \A c \in Ids' \ live' : ctx'[c].task => reported'[c] = Reports(stats'[c], limits'[c])
  <2>1. \A c \in Ids \ live : stats'[c] = stats[c] /\ limits'[c] = limits[c]
    BY <1>6, <1>7
  <2> QED  BY <1>3, <1>5, <2>1, Settled
<1> QED  BY <1>8, <1>9, <1>10 DEF Tallied

LEMMA TallyInit == Init => TallyInv
<1> SUFFICES ASSUME Init PROVE TallyInv
  OBVIOUS
<1>1. TaskInv
  BY TaskInvInit
<1>2. \A i \in Intervals : interval[i].phase = "new" /\ interval[i].owner = Gone
  BY DEF Init
<1>3. stats = [c \in 1..Detached |-> 0] /\ limits = [c \in 1..Detached |-> 0] /\ live = 1..Detached
  BY DEF Init
<1>4. Ids = 1..Detached
  <2>1. ctx = [c \in 1..Detached |-> Inner(0, TRUE, FALSE, FALSE)] /\ Detached \in Nat
    BY EachIsCurrent DEF Init
  <2>2. \A x, n : n \in Nat => Len([c \in 1..n |-> x]) = n
    OBVIOUS
  <2> DEFINE inner == Inner(0, TRUE, FALSE, FALSE)
             n == Detached
  <2>3. ctx = [c \in 1..n |-> inner] /\ n \in Nat
    BY <2>1
  <2> HIDE DEF inner, n
  <2>4. Len(ctx) = n
    BY <2>2, <2>3
  <2> QED  BY <2>4 DEF Ids, n
<1>5. ASSUME NEW c \in Ids
      PROVE  /\ IsFiniteSet(Ended(c, {"plain", "if"}))
             /\ stats[c] = TimeSpent(c) /\ limits[c] = TimeAllowed(c)
  <2>1. Ended(c, {"plain", "if"}) = {} /\ Ended(c, {"if"}) = {}
    BY <1>2 DEF Ended
  <2>2. IsFiniteSet({}) /\ Cardinality({}) = 0 /\ Threshold \in Nat
    BY FS_EmptySet, TimesAssumption
  <2>3. TimeSpent(c) = TotalOf(interval, {})
    BY <2>1, EndedIntervals
  <2>4. TotalOf(interval, {}) = 0
    <3>1. {} \in SUBSET Intervals /\ interval \in [Intervals -> Spans]
      BY <1>1 DEF TaskInv, Begun
    <3>2. PICK f : Sums(f, TimesOf(interval), {}) /\ TotalOf(interval, {}) = f[{}]
      BY <2>2, <3>1, TotalIsASum
    <3> QED  BY <3>2 DEF Sums
  <2>5. TimeAllowed(c) = 0
    <3>1. TimeAllowed(c) = Threshold * Cardinality({})
      BY <2>1 DEF TimeAllowed
    <3>2. \A n \in Nat : n * 0 = 0
      OBVIOUS
    <3> QED  BY <2>2, <3>1, <3>2
  <2> QED  BY <1>3, <1>4, <2>1, <2>2, <2>3, <2>4, <2>5
<1> QED  BY <1>1, <1>2, <1>3, <1>4, <1>5 DEF TallyInv, Tallied

LEMMA TallyThread ==
    ASSUME TallyInv, TaskInv', NEW t \in Threads, Thread(t)
    PROVE  Tallied'
<1> USE DEF contextVars, reportVars
<1>1. TaskInv
  BY DEF TallyInv
<1>2. ASSUME NEW inner, Create(inner), interval' = interval, Reap
      PROVE  Tallied'
  BY <1>1, <1>2, CreatedGrows, UntimedTally
<1>3. ASSUME UNCHANGED <<ctx, interval, stats, limits>>, Reap \/ UNCHANGED <<live, reported>>
      PROVE  Tallied'
  BY <1>1, <1>3, StillGrows, UntimedTally
<1>4. ASSUME NEW parent \in 0..Len(ctx), NEW completes \in Internal, NewTask(t, parent, completes)
      PROVE  Tallied'
  BY <1>2, <1>4 DEF NewTask
<1>5. CASE FromParent(t)
  BY <1>2, <1>5 DEF FromParent
<1>6. CASE Reset(t)
  BY <1>2, <1>6 DEF Reset
<1>7. ASSUME NEW c \in Ids, SetCurrent(t, c) \/ Pop(t, c)
      PROVE  Tallied'
  BY <1>3, <1>7 DEF SetCurrent, Pop
<1>8. CASE BeginTrace(t)
  <2>1. Current(t) \in Ids
    BY <1>1, Facts
  <2>2. Grows /\ Ids' = Ids
    BY <1>1, <1>8, <2>1, StillGrows DEF BeginTrace
  <2> QED  BY <1>8, <2>2, UntimedTally DEF BeginTrace
<1>9. CASE Call(t)
  BY <1>3, <1>9, CallIsPre DEF Pre
<1>10. CASE SyncPost(t) \/ AsyncPost(t) \/ Awaited(t)
  BY <1>3, <1>10 DEF SyncPost, AsyncPost, Awaited
<1>11. ASSUME NEW f \in Futures, Poll(t, f) \/ \E c \in Ids : Wrap(t, f, c)
       PROVE  Tallied'
  BY <1>3, <1>11 DEF Poll, Wrap
<1>12. ASSUME NEW outcome \in {"pending", "ready", "panic"}, Return(t, outcome)
       PROVE  Tallied'
  BY <1>3, <1>12 DEF Return
<1>13. CASE ThreadExit(t)
  BY <1>3, <1>13 DEF ThreadExit
<1>14. ASSUME NEW i \in Intervals,
              PerfwarnCall(t, i) \/ PerfwarnIfCall(t, i) \/ ProfiledCall(t, i)
       PROVE  Tallied'
  <2>1. \E kind \in {"plain", "if", "profile"} : Begin(t, i, kind)
    BY <1>14 DEF PerfwarnCall, PerfwarnBegin, PerfwarnIfCall, PerfwarnBeginIf, ProfiledCall, ProfileBegin
  <2> QED  BY <2>1, BeginTally
<1>15. ASSUME NEW i \in Intervals, NEW spent \in Durations,
              PerfwarnEnd(t, i, spent) \/ PerfwarnIfEnd(t, i, spent) \/ ProfileEnd(t, i, spent)
       PROVE  Tallied'
  BY <1>15, EndTally
<1> QED  BY <1>4, <1>5, <1>6, <1>7, <1>8, <1>9, <1>10, <1>11, <1>12, <1>13, <1>14, <1>15 DEF Thread

LEMMA TallyNext == TallyInv /\ [Next]_vars => TallyInv'
<1> SUFFICES ASSUME TallyInv, [Next]_vars PROVE TallyInv'
  OBVIOUS
<1> USE DEF contextVars, reportVars
<1>1. TaskInv /\ TaskInv'
  BY TaskInvNext DEF TallyInv
<1>2. ASSUME ctx' = ctx, interval' = interval, stats' = stats, limits' = limits,
             Reap \/ (live' = live /\ reported' = reported)
      PROVE  Tallied'
  BY <1>1, <1>2, StillGrows, UntimedTally
<1>3. ASSUME NEW t \in Threads, Thread(t)
      PROVE  Tallied'
  BY <1>1, <1>3, TallyThread
<1>4. ASSUME NEW c \in handles, DropHandle(c)
      PROVE  Tallied'
  BY <1>2, <1>4 DEF DropHandle
<1>5. ASSUME NEW f \in Futures, DropFuture(f)
      PROVE  Tallied'
  BY <1>2, <1>5 DEF DropFuture
<1>6. CASE \/ \E l \in Loggers : AddLogger(l)
           \/ \E list \in Lists(Loggers) : SetLoggers(list)
  <2>1. /\ ctx' = ctx /\ interval' = interval /\ stats' = stats /\ limits' = limits
        /\ live' = live /\ reported' = reported
    BY <1>6 DEF AddLogger, SetLoggers
  <2> QED  BY <1>1, <1>2, <2>1 DEF TallyInv
<1>7. CASE UNCHANGED vars
  <2>1. /\ ctx' = ctx /\ interval' = interval /\ stats' = stats /\ limits' = limits
        /\ live' = live /\ reported' = reported
    BY <1>7 DEF vars
  <2> QED  BY <1>1, <1>2, <2>1 DEF TallyInv
<1> QED  BY <1>1, <1>3, <1>4, <1>5, <1>6, <1>7 DEF Next, TallyInv

\* A dropped task's intervals have all ended, and what it reported is their sum.
LEMMA TallyIsComplete == TallyInv => StatisticsComplete
<1> SUFFICES ASSUME TallyInv, NEW c \in Ids \ live, ctx[c].task
             PROVE  /\ \A i \in Intervals : interval[i].owner = c => interval[i].phase = "ended"
                    /\ reported[c] = IF TimeAllowed(c) = 0 \/ TimeSpent(c) > TimeAllowed(c)
                                     THEN TimeSpent(c) ELSE 0
  BY DEF StatisticsComplete
<1>1. TaskInv
  BY DEF TallyInv
<1>2. stats[c] = TimeSpent(c) /\ limits[c] = TimeAllowed(c) /\ stats[c] \in Nat /\ limits[c] \in Nat
  BY <1>1 DEF TallyInv, Tallied, TaskInv, Finished
<1>3. reported[c] = IF TimeAllowed(c) = 0 \/ TimeSpent(c) > TimeAllowed(c)
                    THEN TimeSpent(c) ELSE 0
  BY <1>2 DEF TallyInv, Tallied, Reports
<1>4. ASSUME NEW i \in Intervals, interval[i].owner = c
      PROVE  interval[i].phase = "ended"
  <2>1. interval[i].phase \in {"new", "open", "ended"}
    BY <1>1, Facts DEF Spans
  <2>2. interval[i].phase # "new"
    BY <1>1, <1>4, Facts DEF TallyInv, Tallied
  <2>3. interval[i].phase # "open"
    <3>1. interval[i].phase = "open" => interval[i].ctx \in live /\ c = TaskOf[interval[i].ctx]
      BY <1>1, <1>4, Facts DEF TaskInv, Begun
    <3> QED  BY <1>1, <3>1, Facts
  <2> QED  BY <2>1, <2>2, <2>3
<1> QED  BY <1>3, <1>4

\* A task's statistics, written when its last context goes, account for every
\* interval begun under it, wherever and whenever it ended (Task::drop, and the
\* guards of interval.rs, which hold the context they were begun under).
THEOREM StatisticsAreComplete == Spec => []StatisticsComplete
BY TallyInit, TallyNext, TallyIsComplete, PTL DEF Spec
==============================================================================
