---------------------------- MODULE WatchdogProofs ----------------------------
(***************************************************************************)
(* Proofs about Watchdog for any guards, durations and bounds: the drain    *)
(* that sleeps will be woken (DrainIsOwedAPoll), a guard that missed its    *)
(* deadline is reported once (LateIsReportedOnce), and types.               *)
(*                                                                          *)
(* The first needs what its pieces guarantee between the two steps of a     *)
(* registration: the waker stored in the first is still there in the        *)
(* second, unless a timer thread has taken it and woken the drain.  The     *)
(* second needs the history of a guard: what has been sent about it, how    *)
(* much of that the watcher has received, and what it has counted since.    *)
(***************************************************************************)
EXTENDS Watchdog, TLAPS

-----------------------------------------------------------------------------
(* The drain *)

DrainInv ==
    /\ clock \in Nat /\ disarmed \in Nat
    /\ sleeping \in Nat \cup {None} /\ (armed => sleeping # None)
    /\ drain.phase = "second" => waker \/ woken
    /\ drain.phase = "pending" => woken \/ (waker /\ (sleeping # None \/ disarmed > 0))

USE DEF guardVars, watcherVars, drainVars

LEMMA DrainInit == Init => DrainInv
BY DEF Init, DrainInv

\* A minimum of two numbers is one of them.
LEMMA MinOfTwo ==
    ASSUME NEW a \in Nat, NEW b \in Nat
    PROVE  Min({a, b}) \in {a, b}
BY DEF Min

LEMMA DrainNext == DrainInv /\ [Next]_vars => DrainInv'
<1> SUFFICES ASSUME DrainInv, [Next]_vars PROVE DrainInv'
  OBVIOUS
<1> USE DEF DrainInv
<1>1. CASE PollDrain
  BY <1>1 DEF PollDrain, Empty
<1>2. ASSUME NEW from \in {"first"}, StoreWaker(from, "second")
      PROVE  DrainInv'
  BY <1>2 DEF StoreWaker
<1>3. CASE Arm("second", "pending")
  <2>1. clock + Period \in Nat /\ MaxTime \in Nat
    BY TimesAssumption
  <2>2. sleeping' \in Nat /\ sleeping' # None
    BY <1>3, <2>1, MinOfTwo, NoneAssumption DEF Arm
  <2> QED  BY <1>3, <2>2 DEF Arm
<1>4. CASE TimerDisarms
  BY <1>4 DEF TimerDisarms
<1>5. CASE TimerWakes
  <2>1. woken \/ waker => woken'
    BY <1>5, Zenon DEF TimerWakes
  <2>2. disarmed' \in Nat /\ UNCHANGED <<clock, drain, sleeping, armed>>
    BY <1>5 DEF TimerWakes
  <2> QED  BY <2>1, <2>2
<1>6. CASE Tick
  BY <1>6 DEF Tick
<1>7. CASE Watcher
  BY <1>7 DEF Watcher, ReceiveRegister, ReceiveComplete, ReceiveTimeout, CheckDeadlines, Hears,
              LogMissed
<1>8. ASSUME NEW g \in Guards,
             \/ \E duration \in Deadlines : Create(g, duration)
             \/ Register(g) \/ Drop(g) \/ SendComplete(g)
      PROVE  DrainInv'
  BY <1>8 DEF Create, Register, Drop, SendComplete
<1>9. CASE DrainLogs \/ UNCHANGED vars
  BY <1>9 DEF DrainLogs, vars
<1> QED  BY <1>1, <1>2, <1>3, <1>4, <1>5, <1>6, <1>7, <1>8, <1>9 DEF Next, PollRegisters

\* A pending drain always has a poll ahead of it: poll stores the waker before
\* it arms the timer, and the timer thread disarms before it takes the waker.
THEOREM DrainIsWoken == Spec => []DrainIsOwedAPoll
<1>1. DrainInv => DrainIsOwedAPoll
  BY DEF DrainInv, DrainIsOwedAPoll
<1> QED  BY DrainInit, DrainNext, <1>1, PTL DEF Spec

-----------------------------------------------------------------------------
(* The channel as a set of messages *)

Msg(g, kind) == [guard |-> g, kind |-> kind]
In(m) == \E i \in 1..Len(queue) : queue[i] = m

\* No message is queued twice, and a guard completes after it registers.
Ordered ==
    \A i, j \in 1..Len(queue) :
        /\ queue[i] = queue[j] => i = j
        /\ (/\ queue[i].guard = queue[j].guard
            /\ queue[i].kind = "Register" /\ queue[j].kind = "Complete") => i < j

QueueInv == queue \in Seq(Messages) /\ Ordered

LEMMA Appended ==
    ASSUME QueueInv, NEW m \in Messages, ~In(m),
           m.kind = "Register" => ~In(Msg(m.guard, "Complete")),
           queue' = Append(queue, m)
    PROVE  QueueInv' /\ \A n : In(n)' <=> In(n) \/ n = m
<1>1. /\ queue' \in Seq(Messages) /\ Len(queue) \in Nat /\ Len(queue') = Len(queue) + 1
      /\ \A i \in 1..Len(queue) : queue'[i] = queue[i] /\ queue[i] \in Messages
      /\ queue'[Len(queue) + 1] = m
  BY DEF QueueInv
<1>2. \A i \in 1..Len(queue') : i \in 1..Len(queue) \/ i = Len(queue) + 1
  BY <1>1
<1>3. \A n : In(n)' <=> In(n) \/ n = m
  <2>1. Len(queue) + 1 \in 1..Len(queue') /\ \A i \in 1..Len(queue) : i \in 1..Len(queue')
    BY <1>1
  <2> QED  BY <1>1, <1>2, <2>1 DEF In
<1>4. Ordered'
  <2> SUFFICES ASSUME NEW i \in 1..Len(queue'), NEW j \in 1..Len(queue')
               PROVE  /\ queue'[i] = queue'[j] => i = j
                      /\ (/\ queue'[i].guard = queue'[j].guard
                          /\ queue'[i].kind = "Register" /\ queue'[j].kind = "Complete") => i < j
    BY DEF Ordered
  <2>1. CASE i \in 1..Len(queue) /\ j \in 1..Len(queue)
    BY <1>1, <2>1 DEF QueueInv, Ordered
  <2>2. CASE i \in 1..Len(queue) /\ j = Len(queue) + 1
    BY <1>1, <2>2 DEF In
  <2>3. CASE i = Len(queue) + 1 /\ j \in 1..Len(queue)
    <3>1. queue[j] = Msg(queue[j].guard, queue[j].kind)
      BY <1>1, <2>3 DEF Msg, Messages
    <3> QED  BY <1>1, <2>3, <3>1 DEF In
  <2>4. CASE i = Len(queue) + 1 /\ j = Len(queue) + 1
    BY <1>1, <2>4
  <2> QED  BY <1>2, <2>1, <2>2, <2>3, <2>4
<1> QED  BY <1>1, <1>3, <1>4 DEF QueueInv

LEMMA Taken ==
    ASSUME QueueInv, queue # <<>>, queue' = Tail(queue)
    PROVE  /\ QueueInv' /\ Head(queue) \in Messages /\ In(Head(queue))
           /\ \A n : In(n)' <=> In(n) /\ n # Head(queue)
           /\ Head(queue).kind = "Complete" => ~In(Msg(Head(queue).guard, "Register"))
<1>1. /\ queue' \in Seq(Messages) /\ Len(queue) \in Nat \ {0} /\ Len(queue') = Len(queue) - 1
      /\ \A i \in 1..Len(queue') : queue'[i] = queue[i + 1]
      /\ Head(queue) = queue[1] /\ queue[1] \in Messages
  BY DEF QueueInv
<1>2. /\ 1 \in 1..Len(queue)
      /\ \A i \in 1..Len(queue') : i + 1 \in 1..Len(queue) /\ i + 1 # 1
      /\ \A i \in 1..Len(queue) : i # 1 => i - 1 \in 1..Len(queue') /\ (i - 1) + 1 = i
  BY <1>1
<1>3. \A n : In(n)' <=> In(n) /\ n # Head(queue)
  BY <1>1, <1>2 DEF In, QueueInv, Ordered
<1>4. Ordered'
  <2> SUFFICES ASSUME NEW i \in 1..Len(queue'), NEW j \in 1..Len(queue')
               PROVE  /\ queue'[i] = queue'[j] => i = j
                      /\ (/\ queue'[i].guard = queue'[j].guard
                          /\ queue'[i].kind = "Register" /\ queue'[j].kind = "Complete") => i < j
    BY DEF Ordered
  <2>1. /\ queue[i + 1] = queue[j + 1] => i + 1 = j + 1
        /\ (/\ queue[i + 1].guard = queue[j + 1].guard
            /\ queue[i + 1].kind = "Register" /\ queue[j + 1].kind = "Complete") => i + 1 < j + 1
    BY <1>2 DEF QueueInv, Ordered
  <2> QED  BY <1>1, <2>1
<1>5. Head(queue).kind = "Complete" => ~In(Msg(Head(queue).guard, "Register"))
  BY <1>1, <1>2 DEF In, Msg, QueueInv, Ordered
<1> QED  BY <1>1, <1>2, <1>3, <1>4, <1>5 DEF QueueInv, In

-----------------------------------------------------------------------------
(* The history of a guard *)

Registers(g) == In(Msg(g, "Register"))
Completes(g) == In(Msg(g, "Complete"))

\* The watcher has not received the guard's registration ...
Unheard(g) == g \notin watched /\ missed[g] = 0
\* ... or has, and has counted what it reported.
Heard(g) == g \in watched /\ missed[g] = IF g \in warned THEN 1 ELSE 0

Counted(g) == missed[g] \in {0, 1} /\ (guard[g].late => missed[g] = 1)

\* The watcher never started.
Alone(g) == channel = "failed" /\ ~Registers(g) /\ ~Completes(g) /\ Unheard(g)

Young(g) ==
    guard[g].phase \in {"new", "created"} /\ ~Registers(g) /\ ~Completes(g) /\ Unheard(g)
Held(g) ==
    /\ guard[g].phase \in {"open", "dropping"}
    /\ \/ Alone(g)
       \/ /\ channel = "watched" /\ ~Completes(g)
          /\ \/ Registers(g) /\ Unheard(g)
             \/ ~Registers(g) /\ Heard(g)
Released(g) ==
    /\ guard[g].phase = "dropped"
    /\ \/ Alone(g)
       \/ /\ channel = "watched"
          /\ \/ Registers(g) /\ Completes(g) /\ Unheard(g)
             \/ ~Registers(g) /\ Completes(g) /\ Heard(g)
             \/ ~Registers(g) /\ ~Completes(g) /\ g \notin watched /\ Counted(g)

History(g) == Young(g) \/ Held(g) \/ Released(g)

WatchTypes ==
    /\ clock \in Nat
    /\ guard \in [Guards -> [phase : {"new", "created", "open", "dropping", "dropped"},
                             deadline : Nat, late : BOOLEAN]]
    /\ channel \in {"unset", "watched", "failed"}
    /\ watched \subseteq Guards /\ warned \subseteq watched
    /\ missed \in [Guards -> Nat]

\* Time does not run backwards: who was late when dropped is late now.
LateIsLate ==
    \A g \in Guards : guard[g].late => Expired(g) /\ guard[g].phase \notin {"new", "created"}

WatchInv == WatchTypes /\ QueueInv /\ LateIsLate /\ \A g \in Guards : History(g)

LEMMA WatchInit == Init => WatchInv
<1> SUFFICES ASSUME Init PROVE WatchInv
  OBVIOUS
<1>1. WatchTypes /\ LateIsLate
  BY DEF Init, WatchTypes, LateIsLate
<1>2. QueueInv /\ \A m : ~In(m)
  BY DEF Init, QueueInv, Ordered, In
<1>3. \A g \in Guards : Young(g)
  BY <1>2 DEF Init, Young, Registers, Completes, Unheard
<1> QED  BY <1>1, <1>2, <1>3 DEF WatchInv, History

\* Nothing about g changes while its guard, messages and counts stay.
LEMMA Untouched ==
    ASSUME NEW g \in Guards, History(g), channel' = channel,
           guard'[g].phase = guard[g].phase, guard'[g].late = guard[g].late,
           Registers(g)' <=> Registers(g), Completes(g)' <=> Completes(g),
           g \in watched' <=> g \in watched, g \in warned' <=> g \in warned,
           missed'[g] = missed[g]
    PROVE  History(g)'
BY DEF History, Young, Held, Released, Alone, Unheard, Heard, Counted

\* A message is told from another by its guard and its kind.
LEMMA Messaged ==
    ASSUME NEW m \in Messages
    PROVE  /\ m.guard \in Guards /\ m.kind \in {"Register", "Complete"}
           /\ \A g \in Guards, kind \in {"Register", "Complete"} :
                m = Msg(g, kind) <=> m.guard = g /\ m.kind = kind
BY DEF Messages, Msg

LEMMA RegisterStep ==
    ASSUME WatchInv, NEW g \in Guards, Register(g)
    PROVE  WatchInv'
<1>1. /\ Young(g) /\ guard \in [Guards -> [phase : {"new", "created", "open", "dropping",
                                                    "dropped"}, deadline : Nat, late : BOOLEAN]]
      /\ QueueInv
  BY DEF WatchInv, History, Held, Released, WatchTypes, Register
<1>2. /\ guard'[g].phase = "open" /\ guard'[g].late = guard[g].late
      /\ guard'[g].deadline = guard[g].deadline
      /\ \A h \in Guards \ {g} : guard'[h] = guard[h]
      /\ UNCHANGED <<clock, missed, watched, warned>>
  BY <1>1 DEF Register
<1>3. WatchTypes'
  BY <1>1, <1>2 DEF WatchInv, WatchTypes, Register
<1>4. LateIsLate'
  BY <1>2 DEF WatchInv, LateIsLate, Expired
<1>5. CASE channel' = "watched"
  <2>1. queue' = Append(queue, Msg(g, "Register")) /\ Msg(g, "Register") \in Messages
        /\ ~In(Msg(g, "Register")) /\ ~In(Msg(g, "Complete"))
    BY <1>1, <1>5 DEF Register, Sent, Msg, Messages, Young, Registers, Completes
  <2>2. QueueInv' /\ \A n : In(n)' <=> In(n) \/ n = Msg(g, "Register")
    BY <1>1, <2>1, Appended DEF Msg
  <2>3. Held(g)'
    BY <1>1, <1>2, <1>5, <2>2, Messaged, <2>1 DEF Held, Young, Registers, Completes, Unheard
  <2>4. ASSUME NEW h \in Guards \ {g}
        PROVE  History(h)'
    <3>1. channel' = channel \/ (channel = "unset" /\ Young(h))
      BY <1>5 DEF Register, WatchInv, History, Held, Released, Alone
    <3>2. /\ Registers(h)' <=> Registers(h)
          /\ Completes(h)' <=> Completes(h)
      BY <2>1, <2>2, Messaged DEF Registers, Completes
    <3>3. CASE channel' = channel
      BY <1>2, <3>2, <3>3, Untouched DEF WatchInv
    <3>4. CASE Young(h)
      BY <1>2, <3>2, <3>4 DEF History, Young, Unheard
    <3> QED  BY <3>1, <3>3, <3>4
  <2> QED  BY <1>3, <1>4, <2>2, <2>3, <2>4 DEF WatchInv, History
<1>6. CASE channel' = "failed"
  <2>1. queue' = queue
    BY <1>6 DEF Register, Sent
  <2>2. QueueInv' /\ \A n : In(n)' <=> In(n)
    BY <1>1, <2>1 DEF QueueInv, Ordered, In
  <2>3. Held(g)'
    BY <1>1, <1>2, <1>6, <2>2 DEF Held, Alone, Young, Registers, Completes, Unheard
  <2>4. ASSUME NEW h \in Guards \ {g}
        PROVE  History(h)'
    <3>1. channel' = channel \/ (channel = "unset" /\ Young(h))
      BY <1>6 DEF Register, WatchInv, History, Held, Released, Alone
    <3>2. /\ Registers(h)' <=> Registers(h)
          /\ Completes(h)' <=> Completes(h)
      BY <2>2 DEF Registers, Completes
    <3>3. CASE channel' = channel
      BY <1>2, <3>2, <3>3, Untouched DEF WatchInv
    <3>4. CASE Young(h)
      BY <1>2, <3>2, <3>4 DEF History, Young, Unheard
    <3> QED  BY <3>1, <3>3, <3>4
  <2> QED  BY <1>3, <1>4, <2>2, <2>3, <2>4 DEF WatchInv, History
<1>7. channel' \in {"watched", "failed"}
  BY DEF Register, WatchInv, WatchTypes
<1> QED  BY <1>5, <1>6, <1>7

LEMMA DropStep ==
    ASSUME WatchInv, NEW g \in Guards, Drop(g)
    PROVE  WatchInv'
<1>1. guard \in [Guards -> [phase : {"new", "created", "open", "dropping", "dropped"},
                            deadline : Nat, late : BOOLEAN]]
      /\ clock \in Nat
  BY DEF WatchInv, WatchTypes
<1>2. Expired(g) \in BOOLEAN
  BY DEF Expired
<1>3. /\ guard'[g].phase = "dropping" /\ guard'[g].late = Expired(g)
      /\ guard'[g].deadline = guard[g].deadline
      /\ \A h \in Guards \ {g} : guard'[h] = guard[h]
      /\ UNCHANGED <<clock, channel, missed, queue, watched, warned>>
  BY <1>1 DEF Drop
<1>4. WatchTypes'
  BY <1>1, <1>2, <1>3 DEF WatchInv, WatchTypes, Drop
<1>5. LateIsLate'
  BY <1>3 DEF WatchInv, LateIsLate, Expired
<1>6. QueueInv' /\ \A n : In(n)' <=> In(n)
  BY <1>3 DEF WatchInv, QueueInv, Ordered, In
<1>7. Held(g)'
  <2>1. Held(g)
    BY DEF WatchInv, History, Young, Released, Drop
  <2> QED  BY <1>3, <1>6, <2>1 DEF Held, Alone, Unheard, Heard, Registers, Completes
<1>8. \A h \in Guards \ {g} : History(h)'
  BY <1>3, <1>6, Untouched DEF WatchInv, Registers, Completes
<1> QED  BY <1>4, <1>5, <1>6, <1>7, <1>8 DEF WatchInv, History

LEMMA SendCompleteStep ==
    ASSUME WatchInv, NEW g \in Guards, SendComplete(g)
    PROVE  WatchInv'
<1>1. /\ guard \in [Guards -> [phase : {"new", "created", "open", "dropping", "dropped"},
                               deadline : Nat, late : BOOLEAN]]
      /\ QueueInv /\ Held(g)
  BY DEF WatchInv, WatchTypes, History, Young, Released, SendComplete
<1>2. /\ guard'[g].phase = "dropped" /\ guard'[g].late = guard[g].late
      /\ guard'[g].deadline = guard[g].deadline
      /\ \A h \in Guards \ {g} : guard'[h] = guard[h]
      /\ UNCHANGED <<clock, channel, missed, watched, warned>>
  BY <1>1 DEF SendComplete
<1>3. WatchTypes'
  BY <1>1, <1>2 DEF WatchInv, WatchTypes, SendComplete
<1>4. LateIsLate'
  BY <1>2 DEF WatchInv, LateIsLate, Expired
<1>5. CASE channel = "watched"
  <2>1. queue' = Append(queue, Msg(g, "Complete")) /\ Msg(g, "Complete") \in Messages
        /\ ~In(Msg(g, "Complete"))
    BY <1>1, <1>5 DEF SendComplete, Sent, Msg, Messages, Held, Alone, Completes
  <2>2. QueueInv' /\ \A n : In(n)' <=> In(n) \/ n = Msg(g, "Complete")
    BY <1>1, <2>1, Appended DEF Msg
  <2>3. Released(g)'
    <3>1. Completes(g)' /\ (Registers(g)' <=> Registers(g))
      BY <2>1, <2>2, Messaged DEF Registers, Completes
    <3> QED  BY <1>1, <1>2, <1>5, <3>1 DEF Held, Released, Alone, Unheard, Heard
  <2>4. \A h \in Guards \ {g} : History(h)'
    <3>1. \A h \in Guards \ {g} : /\ Registers(h)' <=> Registers(h)
                                  /\ Completes(h)' <=> Completes(h)
      BY <2>1, <2>2, Messaged DEF Registers, Completes
    <3> QED  BY <1>2, <3>1, Untouched DEF WatchInv
  <2> QED  BY <1>3, <1>4, <2>2, <2>3, <2>4 DEF WatchInv, History
<1>6. CASE channel = "failed"
  <2>1. QueueInv' /\ \A n : In(n)' <=> In(n)
    BY <1>1, <1>6 DEF SendComplete, Sent, QueueInv, Ordered, In
  <2>2. Released(g)'
    BY <1>1, <1>2, <1>6, <2>1 DEF Held, Released, Alone, Unheard, Registers, Completes
  <2>3. \A h \in Guards \ {g} : History(h)'
    BY <1>2, <2>1, Untouched DEF WatchInv, Registers, Completes
  <2> QED  BY <1>3, <1>4, <2>1, <2>2, <2>3 DEF WatchInv, History
<1> QED  BY <1>1, <1>5, <1>6 DEF Held, Alone

\* What receiving a message of one guard leaves of the others' history.
LEMMA Received ==
    ASSUME WatchInv, NEW kind \in {"Register", "Complete"}, Hears(kind)
    PROVE  /\ Head(queue).guard \in Guards /\ Head(queue) = Msg(Head(queue).guard, kind)
           /\ In(Head(queue)) /\ QueueInv' /\ \A n : In(n)' <=> In(n) /\ n # Head(queue)
           /\ kind = "Complete" => ~Registers(Head(queue).guard)
           /\ \A h \in Guards \ {Head(queue).guard} : /\ Registers(h)' <=> Registers(h)
                                                      /\ Completes(h)' <=> Completes(h)
<1>1. QueueInv /\ queue # <<>> /\ Head(queue).kind = kind /\ queue' = Tail(queue)
  BY DEF WatchInv, Hears
<1>2. /\ QueueInv' /\ Head(queue) \in Messages /\ In(Head(queue))
      /\ \A n : In(n)' <=> In(n) /\ n # Head(queue)
      /\ Head(queue).kind = "Complete" => ~In(Msg(Head(queue).guard, "Register"))
  BY <1>1, Taken
<1>3. Head(queue).guard \in Guards /\ Head(queue) = Msg(Head(queue).guard, kind)
  BY <1>1, <1>2, Messaged
<1>4. \A h \in Guards \ {Head(queue).guard} : /\ Registers(h)' <=> Registers(h)
                                              /\ Completes(h)' <=> Completes(h)
  BY <1>2, Messaged DEF Registers, Completes
<1> QED  BY <1>1, <1>2, <1>3, <1>4 DEF Registers

LEMMA ReceiveRegisterStep ==
    ASSUME WatchInv, ReceiveRegister
    PROVE  WatchInv'
<1>1. PICK g \in Guards :
      /\ g = Head(queue).guard /\ Head(queue) = Msg(g, "Register") /\ In(Head(queue)) /\ QueueInv'
      /\ \A n : In(n)' <=> In(n) /\ n # Head(queue)
      /\ \A h \in Guards \ {g} : /\ Registers(h)' <=> Registers(h)
                                 /\ Completes(h)' <=> Completes(h)
  BY Received DEF ReceiveRegister
<1>2. /\ watched' = watched \cup {g}
      /\ UNCHANGED <<clock, guard, channel, missed, warned>>
  BY <1>1 DEF ReceiveRegister
<1>3. Registers(g) /\ ~Registers(g)' /\ (Completes(g)' <=> Completes(g))
  <2>1. Msg(g, "Complete") # Msg(g, "Register")
    BY DEF Msg
  <2> QED  BY <1>1, <2>1 DEF Registers, Completes
<1>4. WatchTypes' /\ LateIsLate'
  BY <1>1, <1>2 DEF WatchInv, WatchTypes, LateIsLate, Expired
<1>5. History(g)'
  <2>1. History(g) /\ g \notin warned
    BY <1>1, <1>3 DEF WatchInv, WatchTypes, History, Young, Held, Released, Alone, Unheard
  <2> QED  BY <1>1, <1>2, <1>3, <2>1
           DEF History, Young, Held, Released, Alone, Unheard, Heard
<1>6. \A h \in Guards \ {g} : History(h)'
  BY <1>1, <1>2, Untouched DEF WatchInv
<1> QED  BY <1>1, <1>4, <1>5, <1>6 DEF WatchInv

\* Counting the missed records of a set of guards that were not counted yet.
LEMMA Count ==
    ASSUME WatchInv, NEW S, LogMissed(S)
    PROVE  /\ missed' \in [Guards -> Nat]
           /\ \A g \in Guards : missed'[g] = IF g \in S THEN missed[g] + 1 ELSE missed[g]
BY DEF LogMissed, WatchInv, WatchTypes

LEMMA ReceiveCompleteStep ==
    ASSUME WatchInv, ReceiveComplete
    PROVE  WatchInv'
<1>1. PICK g \in Guards :
      /\ g = Head(queue).guard /\ Head(queue) = Msg(g, "Complete") /\ In(Head(queue)) /\ QueueInv'
      /\ \A n : In(n)' <=> In(n) /\ n # Head(queue)
      /\ ~Registers(g)
      /\ \A h \in Guards \ {g} : /\ Registers(h)' <=> Registers(h)
                                 /\ Completes(h)' <=> Completes(h)
  BY Received DEF ReceiveComplete
<1>2. /\ watched' = watched \ {g} /\ warned' = warned \ {g}
      /\ LogMissed(MissedUnseen(g))
      /\ UNCHANGED <<clock, guard, channel>>
  BY <1>1 DEF ReceiveComplete
<1>3. Completes(g) /\ ~Completes(g)' /\ ~Registers(g)'
  BY <1>1 DEF Registers, Completes
<1>4. missed' \in [Guards -> Nat]
      /\ \A h \in Guards : missed'[h] = IF h \in MissedUnseen(g) THEN missed[h] + 1 ELSE missed[h]
  BY <1>2, Count
<1>5. WatchTypes' /\ LateIsLate'
  BY <1>1, <1>2, <1>4 DEF WatchInv, WatchTypes, LateIsLate, Expired
<1>6. History(g)'
  <2>1. Released(g) /\ (~Alone(g)) /\ channel = "watched"
    BY <1>1, <1>3 DEF WatchInv, History, Young, Held, Released, Alone
  <2>2. Heard(g)
    BY <1>1, <1>3, <2>1 DEF Released
  <2>3. g \in MissedUnseen(g) <=> g \notin warned /\ Expired(g)
    BY <2>2 DEF MissedUnseen, Pending, Heard
  <2>4. guard[g].late => Expired(g)
    BY <1>1 DEF WatchInv, LateIsLate
  <2>5. Counted(g)'
    BY <1>1, <1>2, <1>4, <2>2, <2>3, <2>4 DEF Counted, Heard
  <2> QED  BY <1>2, <1>3, <2>1, <2>5 DEF History, Released
<1>7. ASSUME NEW h \in Guards \ {g}
      PROVE  History(h)'
  <2>1. missed'[h] = missed[h]
    BY <1>4 DEF MissedUnseen
  <2> QED  BY <1>1, <1>2, <2>1, Untouched DEF WatchInv
<1> QED  BY <1>1, <1>5, <1>6, <1>7 DEF WatchInv

LEMMA CheckDeadlinesStep ==
    ASSUME WatchInv, CheckDeadlines
    PROVE  WatchInv'
<1> DEFINE due == {g \in Pending : Expired(g)}
<1>1. /\ LogMissed(due) /\ warned' = warned \cup due
      /\ UNCHANGED <<clock, guard, channel, queue, watched>>
  BY DEF CheckDeadlines
<1>2. due \subseteq watched \ warned
  BY DEF Pending
<1> HIDE DEF due
<1>3. missed' \in [Guards -> Nat]
      /\ \A g \in Guards : missed'[g] = IF g \in due THEN missed[g] + 1 ELSE missed[g]
  BY <1>1, Count
<1>4. WatchTypes' /\ LateIsLate' /\ QueueInv' /\ \A n : In(n)' <=> In(n)
  BY <1>1, <1>2, <1>3 DEF WatchInv, WatchTypes, LateIsLate, Expired, QueueInv, Ordered, In
<1>5. ASSUME NEW g \in Guards
      PROVE  History(g)'
  <2>1. CASE g \in due
    <3>1. Heard(g) /\ missed[g] = 0
      BY <1>2, <2>1 DEF WatchInv, History, Young, Held, Released, Alone, Unheard, Heard
    <3>2. Heard(g)'
      BY <1>1, <1>3, <2>1, <3>1 DEF Heard
    <3> QED  BY <1>1, <1>2, <1>4, <2>1, <3>1, <3>2
             DEF WatchInv, History, Young, Held, Released, Alone, Unheard, Registers, Completes
  <2>2. CASE g \notin due
    BY <1>1, <1>3, <1>4, <2>2, Untouched DEF WatchInv, Registers, Completes
  <2> QED  BY <2>1, <2>2
<1> QED  BY <1>4, <1>5 DEF WatchInv

\* A step that only lets time pass, creates a guard or serves the drain.
LEMMA AsideStep ==
    ASSUME WatchInv, UNCHANGED <<channel, queue, watched, warned, missed>>,
           clock' \in Nat, clock' >= clock,
           guard' \in [Guards -> [phase : {"new", "created", "open", "dropping", "dropped"},
                                  deadline : Nat, late : BOOLEAN]],
           \A g \in Guards : \/ guard'[g] = guard[g]
                             \/ /\ guard[g].phase = "new" /\ guard'[g].phase = "created"
                                /\ guard'[g].late = FALSE
    PROVE  WatchInv'
<1>1. WatchTypes' /\ QueueInv' /\ \A n : In(n)' <=> In(n)
  BY DEF WatchInv, WatchTypes, QueueInv, Ordered, In
<1>2. LateIsLate'
  BY DEF WatchInv, WatchTypes, LateIsLate, Expired
<1>3. ASSUME NEW g \in Guards
      PROVE  History(g)'
  <2>1. CASE guard'[g] = guard[g]
    BY <1>1, <2>1, Untouched DEF WatchInv, Registers, Completes
  <2>2. CASE guard[g].phase = "new" /\ guard'[g].phase = "created"
    BY <1>1, <2>2 DEF WatchInv, History, Young, Held, Released, Unheard, Registers, Completes
  <2> QED  BY <2>1, <2>2
<1> QED  BY <1>1, <1>2, <1>3 DEF WatchInv

LEMMA WatchNext == WatchInv /\ [Next]_vars => WatchInv'
<1> SUFFICES ASSUME WatchInv, [Next]_vars PROVE WatchInv'
  OBVIOUS
<1>1. /\ clock \in Nat
      /\ guard \in [Guards -> [phase : {"new", "created", "open", "dropping", "dropped"},
                               deadline : Nat, late : BOOLEAN]]
  BY DEF WatchInv, WatchTypes
<1>2. ASSUME NEW g \in Guards, NEW duration \in Deadlines, Create(g, duration)
      PROVE  WatchInv'
  <2>1. clock + duration \in Nat
    BY <1>1, TimesAssumption
  <2>2. /\ guard' = [guard EXCEPT ![g].phase = "created", ![g].deadline = clock + duration]
        /\ guard[g].phase = "new"
        /\ UNCHANGED <<clock, channel, missed, queue, watched, warned>>
    BY <1>2 DEF Create
  <2>3. guard[g].late = FALSE
    BY <1>1, <2>2 DEF WatchInv, LateIsLate
  <2>4. /\ guard' \in [Guards -> [phase : {"new", "created", "open", "dropping", "dropped"},
                                  deadline : Nat, late : BOOLEAN]]
        /\ \A h \in Guards : \/ guard'[h] = guard[h]
                             \/ /\ guard[h].phase = "new" /\ guard'[h].phase = "created"
                                /\ guard'[h].late = FALSE
    <3> DEFINE made == [guard[g] EXCEPT !.phase = "created", !.deadline = clock + duration]
    <3>1. /\ made \in [phase : {"new", "created", "open", "dropping", "dropped"},
                       deadline : Nat, late : BOOLEAN]
          /\ made.phase = "created" /\ made.late = FALSE
      BY <1>1, <2>1, <2>3
    <3>2. guard' = [guard EXCEPT ![g] = made]
      BY <1>1, <2>2
    <3> HIDE DEF made
    <3>3. /\ guard' \in [Guards -> [phase : {"new", "created", "open", "dropping", "dropped"},
                                    deadline : Nat, late : BOOLEAN]]
          /\ guard'[g] = made /\ \A h \in Guards \ {g} : guard'[h] = guard[h]
      BY <1>1, <3>1, <3>2
    <3> QED  BY <1>1, <2>2, <3>1, <3>3
  <2>5. /\ clock' \in Nat /\ clock' >= clock
        /\ UNCHANGED <<channel, queue, watched, warned, missed>>
    BY <1>1, <2>2
  <2> QED  BY <2>4, <2>5, AsideStep
<1>3. CASE Tick
  BY <1>1, <1>3, AsideStep DEF Tick
<1>4. CASE \/ ReceiveTimeout \/ DrainLogs \/ PollDrain \/ PollRegisters \/ TimerDisarms
           \/ TimerWakes \/ UNCHANGED vars
  <2>1. UNCHANGED <<clock, guard, channel, queue, watched, warned, missed>>
    BY <1>4 DEF ReceiveTimeout, DrainLogs, PollDrain, PollRegisters, StoreWaker, Arm,
                TimerDisarms, TimerWakes, vars
  <2> QED  BY <1>1, <2>1, AsideStep
<1> QED  BY <1>2, <1>3, <1>4, RegisterStep, DropStep, SendCompleteStep, ReceiveRegisterStep,
            ReceiveCompleteStep, CheckDeadlinesStep DEF Next, Watcher

\* A late guard has exactly one missed record once its drop has been received:
\* heartbeat_loop reports it at its deadline or when it hears of the drop, and
\* the warned flag keeps it from doing both.
THEOREM LateOnce == Spec => []LateIsReportedOnce
<1>1. WatchInv => LateIsReportedOnce
  <2> SUFFICES ASSUME WatchInv, NEW g \in Guards
               PROVE  /\ missed[g] <= 1
                      /\ (channel = "watched" /\ guard[g].phase = "dropped" /\ ~Told(g)
                            /\ guard[g].late) => missed[g] = 1
    BY DEF LateIsReportedOnce
  <2>1. History(g)
    BY DEF WatchInv
  <2>2. missed[g] <= 1
    BY <2>1 DEF History, Young, Held, Released, Alone, Unheard, Heard, Counted
  <2>3. ASSUME ~Told(g)
        PROVE  ~Registers(g) /\ ~Completes(g)
    <3>1. DOMAIN queue = 1..Len(queue)
      BY DEF WatchInv, QueueInv
    <3> QED  BY <2>3, <3>1 DEF Told, Registers, Completes, In, Msg
  <2> QED  BY <2>1, <2>2, <2>3 DEF History, Young, Held, Released, Alone, Counted
<1> QED  BY WatchInit, WatchNext, <1>1, PTL DEF Spec

-----------------------------------------------------------------------------
(* Type correctness *)

\* What the two invariants above leave open.
RestTypes ==
    /\ clock \in 0..MaxTime /\ loop \in {"receive", "check"}
    /\ logs \subseteq Records /\ shown \subseteq Guards
    /\ drain \in [phase : {"new", "pending", "first", "second", "done"}, ends : Nat \cup {None}]
    /\ woken \in BOOLEAN /\ waker \in BOOLEAN /\ armed \in BOOLEAN
    /\ sleeping \in Nat \cup {None} /\ (armed <=> sleeping # None)
    /\ disarmed \in 0..MaxDisarmed

LEMMA RestInit == Init => RestTypes
<1>1. 0 \in 0..MaxTime /\ 0 \in 0..MaxDisarmed
  BY TimesAssumption
<1> SUFFICES ASSUME Init PROVE RestTypes
  OBVIOUS
<1>2. drain \in [phase : {"new", "pending", "first", "second", "done"}, ends : Nat \cup {None}]
  BY DEF Init
<1>3. clock = 0 /\ disarmed = 0 /\ loop = "receive" /\ logs = {} /\ shown = {}
  BY DEF Init
<1>4. woken = TRUE /\ waker = FALSE /\ armed = FALSE /\ sleeping = None
  BY DEF Init
<1> QED  BY <1>1, <1>2, <1>3, <1>4 DEF RestTypes

\* Emptying the logger hands its records on.
LEMMA Emptied ==
    ASSUME RestTypes, Empty
    PROVE  logs' \subseteq Records /\ shown' \subseteq Guards
BY DEF RestTypes, Empty

LEMMA RestNext == WatchInv /\ RestTypes /\ [Next]_vars => RestTypes'
<1> SUFFICES ASSUME WatchInv, RestTypes, [Next]_vars PROVE RestTypes'
  OBVIOUS
<1> USE DEF RestTypes
<1>1. CASE Tick
  BY <1>1, TimesAssumption DEF Tick
<1>2. ASSUME NEW g \in Guards,
             \/ \E duration \in Deadlines : Create(g, duration)
             \/ Register(g) \/ Drop(g) \/ SendComplete(g)
      PROVE  RestTypes'
  BY <1>2 DEF Create, Register, Drop, SendComplete, Record, Records
<1>3. CASE Watcher
  <2>1. ASSUME NEW S \in SUBSET Guards, LogMissed(S)
        PROVE  logs' \subseteq Records
    BY <2>1 DEF LogMissed, Record, Records
  <2>2. Pending \subseteq Guards
    BY DEF Pending, WatchInv, WatchTypes
  <2>3. {g \in Pending : Expired(g)} \in SUBSET Guards
        /\ \A g : MissedUnseen(g) \in SUBSET Guards
    BY <2>2 DEF MissedUnseen
  <2>4. CASE ReceiveRegister \/ ReceiveTimeout
    BY <2>4 DEF ReceiveRegister, ReceiveTimeout, Hears
  <2>5. CASE ReceiveComplete \/ CheckDeadlines
    <3>1. logs' \subseteq Records
      BY <2>1, <2>3, <2>5 DEF ReceiveComplete, CheckDeadlines
    <3> QED  BY <2>5, <3>1 DEF ReceiveComplete, CheckDeadlines, Hears
  <2> QED  BY <1>3, <2>4, <2>5 DEF Watcher
<1>4. CASE DrainLogs
  BY <1>4, Emptied DEF DrainLogs
<1>5. CASE PollDrain
  <2>1. ASSUME NEW ends \in Ends
        PROVE  ends \in Nat \cup {None}
    <3>1. \A duration \in Drains : clock + duration \in Nat /\ MaxTime + 1 \in Nat
      BY TimesAssumption
    <3>2. \A duration \in Drains : Min({clock + duration, MaxTime + 1}) \in Nat
      BY <3>1, MinOfTwo
    <3> QED  BY <3>2 DEF Ends
  <2>2. drain' \in [phase : {"new", "pending", "first", "second", "done"},
                    ends : Nat \cup {None}]
    BY <1>5, <2>1 DEF PollDrain
  <2> QED  BY <1>5, <2>2, Emptied DEF PollDrain
<1>6. CASE StoreWaker("first", "second")
  BY <1>6 DEF StoreWaker
<1>7. CASE Arm("second", "pending")
  <2>1. Min({clock + Period, MaxTime}) \in Nat
    <3>1. clock + Period \in Nat /\ MaxTime \in Nat
      BY TimesAssumption
    <3> QED  BY <3>1, MinOfTwo
  <2> QED  BY <1>7, <2>1, NoneAssumption DEF Arm
<1>8. CASE TimerDisarms
  <2>1. disarmed + 1 \in 0..MaxDisarmed
    BY <1>8, TimesAssumption DEF TimerDisarms
  <2> QED  BY <1>8, <2>1 DEF TimerDisarms
<1>9. CASE TimerWakes
  <2>1. woken' \in BOOLEAN /\ waker' \in BOOLEAN
    BY <1>9, Zenon DEF TimerWakes
  <2> QED  BY <1>9, <2>1, TimesAssumption DEF TimerWakes
<1>10. CASE UNCHANGED vars
  BY <1>10 DEF vars
<1> QED
  BY <1>1, <1>2, <1>3, <1>4, <1>5, <1>6, <1>7, <1>8, <1>9, <1>10 DEF Next, PollRegisters

\* Every variable keeps its type: no guard is reported twice, only guards that
\* are watched are ever marked as warned, and a timer thread sleeps exactly
\* while armed is set (heartbeat.rs, inmemory_logger.rs).
THEOREM TypeCorrect == Spec => []TypeOK
<1>1. WatchInv /\ RestTypes => TypeOK
  <2> SUFFICES ASSUME WatchInv, RestTypes PROVE TypeOK
    OBVIOUS
  <2>1. missed \in [Guards -> {0, 1}]
    <3>1. \A g \in Guards : missed[g] \in {0, 1}
      BY DEF WatchInv, History, Young, Held, Released, Alone, Unheard, Heard, Counted
    <3> QED  BY <3>1 DEF WatchInv, WatchTypes
  <2> QED  BY <2>1 DEF WatchInv, WatchTypes, QueueInv, RestTypes, TypeOK
<1> QED  BY WatchInit, WatchNext, RestInit, RestNext, <1>1, PTL DEF Spec
==============================================================================
