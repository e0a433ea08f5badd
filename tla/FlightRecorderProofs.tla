------------------------ MODULE FlightRecorderProofs ------------------------
(***************************************************************************)
(* Proofs about FlightRecorder for any number of writers, readers, shards   *)
(* and slots: type correctness, that a caller's cursor never steps over a   *)
(* record (NoSilentSkip), and what becomes of every number (LossAccounted). *)
(*                                                                          *)
(* The cursor moves at the end of a read that found every shard free, so    *)
(* the invariant must say what a read in progress has still to meet: a      *)
(* record up to its watermark has been collected, has been evicted, or is   *)
(* in a shard the read has not passed, stored there or in the hand of the   *)
(* writer that holds the shard's lock (Pending).  Locked says that such a   *)
(* writer keeps the reader out.                                             *)
(*                                                                          *)
(* LossAccounted relates sets of numbers to counters, so the invariant says *)
(* that a number is in one place only (Apart) and how the sets are counted  *)
(* (Counters).  A shard stays sorted because a number is drawn under the    *)
(* lock of the shard it will be stored in (Sorted).  The bound on retention *)
(* is an injection: place j of shard i is slot (j - 1) * ShardCount + i,    *)
(* a number in a hand takes the place its writer has made free (Room), and  *)
(* the slots of all shards are within 1..Capacity.                          *)
(***************************************************************************)
EXTENDS FlightRecorder, FunctionTheorems, FiniteSetTheorems, TLAPS

\* The owner of a shard's lock is the one inside its critical section.
Locked ==
    /\ \A t \in Writers : pc[t] \in {"sequence", "push"} => lock[Home(t)] = t
    /\ \A r \in Readers : pc[r] = "copy" => lock[read[r].at] = r
    /\ \A t \in Writers : hand[t] # 0 => pc[t] = "push"

\* The record is in the shard, or its number is in the hand of its writer.
Holds(i, s) ==
    \/ s \in Elements(records[i])
    \/ \E t \in Writers : Home(t) = i /\ hand[t] = s

\* Nothing that was numbered is lost without an eviction.
Numbered ==
    \A s \in 1..nextSequence : s \in evicted \/ \E i \in Shard : Holds(i, s)

\* The record is behind the read, or in a shard ahead of it.
MetOrAhead(r, s) ==
    \/ s <= cursor[r] \/ s \in read[r].got \/ s \in evicted
    \/ \E i \in Shard : i >= read[r].at /\ Holds(i, s)

\* A read that has met no busy shard misses nothing up to its watermark.
Pending ==
    \A r \in Readers : (pc[r] \in {"shard", "copy"} /\ ~read[r].busy) =>
       \A s \in 1..read[r].watermark : MetOrAhead(r, s)

IInv == TypeOK /\ Locked /\ Numbered /\ Pending /\ NoSilentSkip

-----------------------------------------------------------------------------
(* Shards and sequences *)

\* There is a shard, and every writer has one.
LEMMA HomeType == ShardCount \in Nat \ {0} /\ \A t \in Writers : Home(t) \in Shard
<1>1. ShardCount \in Nat /\ ShardCount > 0
  BY NumberAssumption DEF ShardCount
<1>2. \A a, m \in Nat : m > 0 => a % m \in 0 .. (m - 1)
  OBVIOUS
<1>3. \A t \in Writers : ThreadHash[t] % ShardCount \in 0 .. (ShardCount - 1)
  BY <1>1, <1>2, HashAssumption
<1> QED  BY <1>1, <1>3 DEF Home, Shard

\* Appending adds one element.
LEMMA ElementsOfAppend ==
    ASSUME NEW s \in Seq(Nat), NEW e \in Nat
    PROVE  Elements(Append(s, e)) = Elements(s) \cup {e}
<1>1. Elements(Append(s, e)) \subseteq Elements(s) \cup {e}
  BY DEF Elements
<1>2. Elements(s) \subseteq Elements(Append(s, e))
  BY DEF Elements
<1>3. e \in Elements(Append(s, e))
  <2>1. /\ Len(Append(s, e)) \in 1 .. Len(Append(s, e))
        /\ Append(s, e)[Len(Append(s, e))] = e
    OBVIOUS
  <2> QED  BY <2>1 DEF Elements
<1> QED  BY <1>1, <1>2, <1>3

\* The tail of a queue lacks its head only.
LEMMA ElementsOfTail ==
    ASSUME NEW s \in Seq(Nat), s # <<>>
    PROVE  Elements(s) \subseteq {Head(s)} \cup Elements(Tail(s))
<1> SUFFICES ASSUME NEW i \in 1 .. Len(s), i # 1
             PROVE  s[i] \in Elements(Tail(s))
  BY DEF Elements
<1>1. i - 1 \in 1 .. Len(Tail(s)) /\ Tail(s)[i - 1] = s[i]
  OBVIOUS
<1> QED  BY <1>1 DEF Elements

-----------------------------------------------------------------------------
(* Type correctness and locks *)

\* The initial state.
LEMMA InvInit == Init => IInv
<1> SUFFICES ASSUME Init PROVE IInv
  OBVIOUS
<1>1. TypeOK
  <2>1. stats \in StatsRecord /\ read \in [Readers -> ReadRecord]
    BY DEF Init, StatsRecord, ReadRecord, NoRead
  <2>2. records \in [Shard -> Seq(Nat)]
    BY DEF Init
  <2> QED  BY <2>1, <2>2 DEF Init, TypeOK, Threads
<1>2. Locked /\ Pending
  BY DEF Init, Locked, Pending, Threads
<1>3. Numbered /\ NoSilentSkip
  BY DEF Init, Numbered, NoSilentSkip
<1> QED  BY <1>1, <1>2, <1>3 DEF IInv

\* The counters stay numbers.
LEMMA StatsTypes ==
    ASSUME stats \in StatsRecord
    PROVE  /\ [stats EXCEPT !.accepted = @ + 1] \in StatsRecord
           /\ [stats EXCEPT !.dropped = @ + 1] \in StatsRecord
           /\ CountEviction => stats' \in StatsRecord
BY DEF StatsRecord, CountEviction

\* The three outcomes of starting an emit.
LEMMA EmitStartCases ==
    ASSUME TypeOK, NEW t \in Writers, EmitStart(t)
    PROVE  \/ /\ Refuse
           \/ /\ lock[Home(t)] = Nobody
              /\ lock' = [lock EXCEPT ![Home(t)] = t] /\ Goto(t, "sequence")
              /\ UNCHANGED <<records, evicted, stats>>
           \/ /\ lock[Home(t)] = Nobody /\ records[Home(t)] # <<>>
              /\ lock' = [lock EXCEPT ![Home(t)] = t] /\ Goto(t, "sequence")
              /\ records' = [records EXCEPT ![Home(t)] = Tail(@)]
              /\ evicted' = evicted \cup {Head(records[Home(t)])}
              /\ CountEviction
<1>1. records[Home(t)] \in Seq(Nat)
  BY HomeType DEF TypeOK
<1>2. CapacityOf(Home(t)) > 0 /\ Full(Home(t)) => records[Home(t)] # <<>>
  BY <1>1 DEF Full
<1> QED  BY <1>2 DEF EmitStart

\* The locals of a read that goes on.
LEMMA MoveOnFacts ==
    ASSUME read \in [Readers -> ReadRecord], NEW r \in Readers,
           NEW got \in SUBSET Nat, NEW busy \in BOOLEAN, MoveOn(r, got, busy)
    PROVE  /\ read' \in [Readers -> ReadRecord]
           /\ \A q \in Readers \ {r} : read'[q] = read[q]
           /\ read'[r].at = read[r].at + 1 /\ read'[r].got = got
           /\ read'[r].busy = busy /\ read'[r].watermark = read[r].watermark
<1> DEFINE x == read[r].at + 1
           new == [at |-> x, watermark |-> read[r].watermark, got |-> got, busy |-> busy]
<1>1. x \in Nat
  BY DEF ReadRecord
<1>2. read' = [read EXCEPT ![r] = new]
  BY DEF MoveOn
<1>3. new \in ReadRecord
  <2> HIDE DEF x
  <2> QED  BY <1>1 DEF ReadRecord
<1>4. new.at = x /\ new.got = got /\ new.busy = busy /\ new.watermark = read[r].watermark
  <2> HIDE DEF x
  <2> QED  OBVIOUS
<1> HIDE DEF new
<1> QED  BY <1>2, <1>3, <1>4

\* The locals of a read that goes past a busy shard, or that copies one.
LEMMA ReadSkipFacts ==
    ASSUME TypeOK, NEW r \in Readers, MoveOn(r, read[r].got, TRUE)
    PROVE  /\ read' \in [Readers -> ReadRecord]
           /\ \A q \in Readers \ {r} : read'[q] = read[q]
           /\ read'[r].busy
<1>1. read \in [Readers -> ReadRecord] /\ read[r].got \in SUBSET Nat
  BY DEF TypeOK, ReadRecord
<1> QED  BY <1>1, MoveOnFacts

LEMMA ReadCopyFacts ==
    ASSUME TypeOK, NEW r \in Readers, ReadCopy(r)
    PROVE  /\ read' \in [Readers -> ReadRecord]
           /\ \A q \in Readers \ {r} : read'[q] = read[q]
           /\ read'[r].at = read[r].at + 1 /\ read'[r].busy = read[r].busy
           /\ read'[r].watermark = read[r].watermark
           /\ \A s : s \in read'[r].got <=>
                 \/ s \in read[r].got
                 \/ s \in Elements(records[read[r].at]) /\ Wanted(r, s)
<1> DEFINE new == read[r].got \cup {s \in Elements(records[read[r].at]) : Wanted(r, s)}
<1>1. /\ records[read[r].at] \in Seq(Nat) /\ read \in [Readers -> ReadRecord]
      /\ read[r].got \in SUBSET Nat /\ read[r].busy \in BOOLEAN
  BY DEF ReadCopy, TypeOK, ReadRecord
<1>2. Elements(records[read[r].at]) \subseteq Nat
  BY <1>1 DEF Elements
<1>3. new \in SUBSET Nat
  BY <1>1, <1>2
<1>4. MoveOn(r, new, read[r].busy)
  BY DEF ReadCopy
<1>5. \A s : s \in new <=> \/ s \in read[r].got
                           \/ s \in Elements(records[read[r].at]) /\ Wanted(r, s)
  OBVIOUS
<1> HIDE DEF new
<1>6. /\ read' \in [Readers -> ReadRecord]
      /\ \A q \in Readers \ {r} : read'[q] = read[q]
      /\ read'[r].at = read[r].at + 1 /\ read'[r].busy = read[r].busy
      /\ read'[r].watermark = read[r].watermark /\ read'[r].got = new
  BY <1>1, <1>3, <1>4, MoveOnFacts
<1> QED  BY <1>5, <1>6

\* Every step keeps the state well typed.
LEMMA TypeNext ==
    ASSUME TypeOK, [Next]_vars
    PROVE  TypeOK'
<1> USE DEF TypeOK, shardVars, readVars, Goto, Threads
<1>1. ASSUME NEW t \in Writers, EmitStart(t)
      PROVE  TypeOK'
  <2>1. UNCHANGED <<nextSequence, hand, readVars>> /\ emits' \in Nat
    BY <1>1 DEF EmitStart
  <2>2. CASE Refuse
    BY <2>1, <2>2, StatsTypes DEF Refuse
  <2>3. CASE /\ lock' = [lock EXCEPT ![Home(t)] = t] /\ Goto(t, "sequence")
             /\ UNCHANGED <<records, evicted, stats>>
    BY <2>1, <2>3, ThreadAssumption
  <2>4. CASE /\ records[Home(t)] # <<>>
             /\ lock' = [lock EXCEPT ![Home(t)] = t] /\ Goto(t, "sequence")
             /\ records' = [records EXCEPT ![Home(t)] = Tail(@)]
             /\ evicted' = evicted \cup {Head(records[Home(t)])}
             /\ CountEviction
    <3>1. records[Home(t)] \in Seq(Nat)
      BY HomeType
    <3>2. Tail(records[Home(t)]) \in Seq(Nat) /\ Head(records[Home(t)]) \in Nat
      BY <2>4, <3>1
    <3>3. records' \in [Shard -> Seq(Nat)] /\ evicted' \subseteq Nat
      BY <2>4, <3>2
    <3>4. stats' \in StatsRecord
      BY <2>4, StatsTypes
    <3> QED  BY <2>1, <2>4, <3>3, <3>4, ThreadAssumption
  <2> QED  BY <1>1, <2>2, <2>3, <2>4, EmitStartCases
<1>2. ASSUME NEW t \in Writers, EmitSequence(t)
      PROVE  TypeOK'
  BY <1>2, ThreadAssumption DEF EmitSequence
<1>3. ASSUME NEW t \in Writers, EmitPush(t)
      PROVE  TypeOK'
  <2>1. records' \in [Shard -> Seq(Nat)]
    BY <1>3, HomeType DEF EmitPush
  <2>2. stats' \in StatsRecord
    BY <1>3, StatsTypes DEF EmitPush
  <2> QED  BY <1>3, <2>1, <2>2, ThreadAssumption DEF EmitPush
<1>4. ASSUME NEW r \in Readers, ReadStart(r)
      PROVE  TypeOK'
  <2>1. read' \in [Readers -> ReadRecord]
    BY <1>4 DEF ReadStart, Watermark, ReadRecord
  <2> QED  BY <1>4, <2>1, HomeType DEF ReadStart
<1>5. ASSUME NEW r \in Readers, ReadTryLock(r)
      PROVE  TypeOK'
  <2>1. CASE lock' = [lock EXCEPT ![read[r].at] = r] /\ Goto(r, "copy") /\ UNCHANGED read
    BY <1>5, <2>1 DEF ReadTryLock
  <2>2. CASE MoveOn(r, read[r].got, TRUE) /\ UNCHANGED <<lock, pc>>
    <3>1. /\ read' \in [Readers -> ReadRecord]
          /\ \A q \in Readers \ {r} : read'[q] = read[q]
      BY <2>2, ReadSkipFacts
    <3> QED  BY <1>5, <2>2, <3>1 DEF ReadTryLock
  <2> QED  BY <1>5, <2>1, <2>2 DEF ReadTryLock
<1>6. ASSUME NEW r \in Readers, ReadCopy(r)
      PROVE  TypeOK'
  <2>1. /\ read' \in [Readers -> ReadRecord]
        /\ \A q \in Readers \ {r} : read'[q] = read[q]
    BY <1>6, ReadCopyFacts
  <2> QED  BY <1>6, <2>1 DEF ReadCopy
<1>7. ASSUME NEW r \in Readers, ReadFinish(r)
      PROVE  TypeOK'
  <2>1. read' \in [Readers -> ReadRecord]
    BY <1>7 DEF ReadFinish, NoRead, ReadRecord
  <2>2. received' \in [Readers -> SUBSET Nat] /\ cursor' \in [Readers -> Nat]
    BY <1>7 DEF ReadFinish, NextCursor, ReadRecord
  <2> QED  BY <1>7, <2>1, <2>2 DEF ReadFinish
<1>8. CASE UNCHANGED vars
  BY <1>8 DEF vars
<1> QED
  BY <1>1, <1>2, <1>3, <1>4, <1>5, <1>6, <1>7, <1>8 DEF Next, EmitStep, Read

\* Locks are taken when free and released by their owner.
LEMMA LockedNext ==
    ASSUME TypeOK, Locked, [Next]_vars
    PROVE  Locked'
<1> USE ThreadAssumption, HomeType
    DEF TypeOK, ReadRecord, Locked, shardVars, readVars, Goto, Threads
<1>1. ASSUME NEW t \in Writers, EmitStart(t)
      PROVE  Locked'
  <2>1. UNCHANGED <<hand, readVars>>
    BY <1>1 DEF EmitStart
  <2>2. \/ UNCHANGED <<lock, pc>>
        \/ /\ lock[Home(t)] = Nobody /\ lock' = [lock EXCEPT ![Home(t)] = t]
           /\ Goto(t, "sequence")
    BY <1>1 DEF EmitStart, Refuse
  <2>3. pc[t] = "idle"
    BY <1>1 DEF EmitStart
  <2>4. CASE UNCHANGED <<lock, pc>>
    BY <2>1, <2>4
  <2>5. CASE /\ lock[Home(t)] = Nobody /\ lock' = [lock EXCEPT ![Home(t)] = t]
             /\ Goto(t, "sequence")
    <3>1. \A u \in Threads \ {t} : pc'[u] = pc[u]
      BY <2>5
    <3>2. \A i \in Shard : i # Home(t) => lock'[i] = lock[i]
      BY <2>5
    <3>3. lock'[Home(t)] = t /\ pc'[t] = "sequence"
      BY <2>5
    <3> QED  BY <2>1, <2>3, <2>5, <3>1, <3>2, <3>3
  <2> QED  BY <2>2, <2>4, <2>5
<1>2. ASSUME NEW t \in Writers, EmitSequence(t)
      PROVE  Locked'
  BY <1>2 DEF EmitSequence
<1>3. ASSUME NEW t \in Writers, EmitPush(t)
      PROVE  Locked'
  BY <1>3 DEF EmitPush
<1>4. ASSUME NEW r \in Readers, ReadStart(r) \/ ReadFinish(r)
      PROVE  Locked'
  <2>1. UNCHANGED <<lock, hand>> /\ \A q \in Readers \ {r} : read'[q] = read[q]
    BY <1>4 DEF ReadStart, ReadFinish
  <2>2. pc'[r] # "copy" /\ \A u \in Threads \ {r} : pc'[u] = pc[u]
    BY <1>4 DEF ReadStart, ReadFinish
  <2> QED  BY <2>1, <2>2
<1>5. ASSUME NEW r \in Readers, ReadTryLock(r)
      PROVE  Locked'
  <2>1. CASE /\ lock[read[r].at] = Nobody /\ lock' = [lock EXCEPT ![read[r].at] = r]
             /\ Goto(r, "copy") /\ UNCHANGED <<read, hand>> /\ read[r].at \in Shard
    BY <2>1
  <2>2. CASE /\ MoveOn(r, read[r].got, TRUE) /\ pc[r] = "shard"
             /\ UNCHANGED <<lock, pc, hand>>
    <3>1. \A q \in Readers \ {r} : read'[q] = read[q]
      BY <2>2, ReadSkipFacts
    <3> QED  BY <2>2, <3>1
  <2> QED  BY <1>5, <2>1, <2>2 DEF ReadTryLock
<1>6. ASSUME NEW r \in Readers, ReadCopy(r)
      PROVE  Locked'
  <2>1. \A q \in Readers \ {r} : read'[q] = read[q]
    BY <1>6, ReadCopyFacts
  <2>2. /\ pc[r] = "copy" /\ pc'[r] = "shard" /\ UNCHANGED hand
        /\ lock' = [lock EXCEPT ![read[r].at] = Nobody]
        /\ \A u \in Threads \ {r} : pc'[u] = pc[u]
    BY <1>6 DEF ReadCopy
  <2>3. lock[read[r].at] = r
    BY <2>2
  <2>4. \A t \in Writers : pc'[t] \in {"sequence", "push"} => lock'[Home(t)] = t
    BY <2>2, <2>3
  <2>5. ASSUME NEW q \in Readers, pc'[q] = "copy"
        PROVE  lock'[read'[q].at] = q
    <3>1. q # r /\ pc[q] = "copy" /\ read'[q] = read[q]
      BY <2>1, <2>2, <2>5
    <3>2. lock[read[q].at] = q /\ read[q].at # read[r].at
      BY <2>3, <3>1
    <3>3. read[q].at \in Shard
      BY <3>1
    <3> QED  BY <2>2, <3>1, <3>2, <3>3
  <2> QED  BY <2>2, <2>4, <2>5
<1>7. CASE UNCHANGED vars
  BY <1>7 DEF vars
<1> QED
  BY <1>1, <1>2, <1>3, <1>4, <1>5, <1>6, <1>7 DEF Next, EmitStep, Read

-----------------------------------------------------------------------------
(* What the cursor may pass *)

\* A number that is stored or in a hand stays so until its record is evicted.
LEMMA HoldsSurvives ==
    ASSUME TypeOK, Locked, [Next]_vars, NEW i \in Shard, NEW s \in Nat, s > 0, Holds(i, s)
    PROVE  Holds(i, s)' \/ s \in evicted'
<1> USE HomeType DEF TypeOK, shardVars, readVars
<1>0. CASE UNCHANGED <<records, hand>>
  BY <1>0 DEF Holds, Elements
<1>1. ASSUME NEW t \in Writers, EmitStart(t), ~UNCHANGED <<records, hand>>
      PROVE  Holds(i, s)' \/ s \in evicted'
  <2>1. /\ UNCHANGED hand /\ records[Home(t)] # <<>>
        /\ records' = [records EXCEPT ![Home(t)] = Tail(@)]
        /\ evicted' = evicted \cup {Head(records[Home(t)])}
    BY <1>1, EmitStartCases DEF EmitStart, Refuse
  <2>2. CASE \E u \in Writers : Home(u) = i /\ hand[u] = s
    BY <2>1, <2>2 DEF Holds
  <2>3. CASE s \in Elements(records[i]) /\ i # Home(t)
    BY <2>1, <2>3 DEF Holds, Elements
  <2>4. CASE s \in Elements(records[i]) /\ i = Home(t)
    <3>1. records[i] \in Seq(Nat) /\ records[i] # <<>>
      BY <2>1, <2>4
    <3>2. Elements(records[i]) \subseteq {Head(records[i])} \cup Elements(Tail(records[i]))
      BY <3>1, ElementsOfTail
    <3>3. records'[i] = Tail(records[i])
      BY <2>1, <2>4
    <3>4. Elements(records[i])' = Elements(Tail(records[i]))
      BY <3>3 DEF Elements
    <3> QED  BY <2>1, <2>4, <3>2, <3>4 DEF Holds
  <2> QED  BY <2>2, <2>3, <2>4 DEF Holds
<1>2. ASSUME NEW t \in Writers, EmitSequence(t)
      PROVE  Holds(i, s)' \/ s \in evicted'
  <2>1. hand[t] = 0 /\ UNCHANGED records /\ \A u \in Writers \ {t} : hand'[u] = hand[u]
    BY <1>2 DEF EmitSequence, Locked
  <2>2. Elements(records[i])' = Elements(records[i])
    BY <2>1 DEF Elements
  <2>3. (\E u \in Writers : Home(u) = i /\ hand[u] = s)
          => \E u \in Writers : Home(u) = i /\ hand'[u] = s
    <3>1. ASSUME NEW u \in Writers, Home(u) = i, hand[u] = s
          PROVE  hand'[u] = s
      BY <2>1, <3>1
    <3> QED  BY <3>1
  <2> QED  BY <2>2, <2>3 DEF Holds
<1>3. ASSUME NEW t \in Writers, EmitPush(t)
      PROVE  Holds(i, s)' \/ s \in evicted'
  <2>1. /\ records' = [records EXCEPT ![Home(t)] = Append(@, hand[t])]
        /\ hand' = [hand EXCEPT ![t] = 0]
    BY <1>3 DEF EmitPush
  <2>2. /\ records'[Home(t)] = Append(records[Home(t)], hand[t])
        /\ records[Home(t)] \in Seq(Nat) /\ hand[t] \in Nat
    BY <2>1
  <2>3. Elements(records[Home(t)])' = Elements(records[Home(t)]) \cup {hand[t]}
    <3>1. Elements(Append(records[Home(t)], hand[t]))
             = Elements(records[Home(t)]) \cup {hand[t]}
      BY <2>2, ElementsOfAppend
    <3> QED  BY <2>2, <3>1 DEF Elements
  <2>4. i # Home(t) => Elements(records[i])' = Elements(records[i])
    BY <2>1 DEF Elements
  <2>5. \A u \in Writers \ {t} : hand'[u] = hand[u]
    BY <2>1
  <2> QED  BY <2>3, <2>4, <2>5 DEF Holds
<1>4. ASSUME NEW r \in Readers, Read(r)
      PROVE  UNCHANGED <<records, hand>>
  BY <1>4 DEF Read, ReadStart, ReadTryLock, ReadCopy, ReadFinish
<1>5. CASE UNCHANGED vars
  BY <1>5, <1>0 DEF vars
<1> QED  BY <1>0, <1>1, <1>2, <1>3, <1>4, <1>5 DEF Next, EmitStep

\* Evictions are not forgotten and the counter does not go back.
LEMMA HistoryGrows ==
    ASSUME TypeOK, [Next]_vars
    PROVE  evicted \subseteq evicted' /\ nextSequence <= nextSequence'
<1> USE DEF TypeOK, shardVars, readVars
<1>1. ASSUME NEW t \in Writers, EmitStart(t)
      PROVE  evicted \subseteq evicted' /\ UNCHANGED nextSequence
  BY <1>1 DEF EmitStart, Refuse
<1>2. ASSUME NEW t \in Writers, EmitStep(t)
      PROVE  evicted \subseteq evicted' /\ nextSequence <= nextSequence'
  BY <1>2 DEF EmitStep, EmitSequence, EmitPush
<1>3. ASSUME NEW r \in Readers, Read(r)
      PROVE  UNCHANGED <<evicted, nextSequence>>
  BY <1>3 DEF Read, ReadStart, ReadTryLock, ReadCopy, ReadFinish
<1> QED  BY <1>1, <1>2, <1>3 DEF Next, vars

\* Every number is accounted for from the step that draws it.
LEMMA NumberedNext ==
    ASSUME TypeOK, Locked, Numbered, [Next]_vars
    PROVE  Numbered'
<1> SUFFICES ASSUME NEW s \in 1 .. nextSequence'
             PROVE  s \in evicted' \/ \E i \in Shard : Holds(i, s)'
  BY DEF Numbered
<1>1. nextSequence \in Nat /\ nextSequence' \in Nat
  BY TypeNext DEF TypeOK
<1>2. CASE s <= nextSequence
  <2>1. s \in Nat /\ s > 0 /\ s \in 1 .. nextSequence
    BY <1>1, <1>2
  <2>2. s \in evicted \/ \E i \in Shard : Holds(i, s)
    BY <2>1 DEF Numbered
  <2> QED  BY <2>1, <2>2, HoldsSurvives, HistoryGrows
<1>3. CASE s > nextSequence
  <2>1. nextSequence' # nextSequence
    BY <1>1, <1>3
  <2>2. PICK t \in Writers : EmitSequence(t)
    BY <2>1 DEF Next, EmitStart, EmitStep, EmitPush, vars, shardVars, readVars,
                Read, ReadStart, ReadTryLock, ReadCopy, ReadFinish
  <2>3. nextSequence' = nextSequence + 1 /\ hand'[t] = nextSequence + 1
    BY <2>2 DEF EmitSequence, TypeOK
  <2>4. s = hand'[t]
    BY <1>1, <1>3, <2>3
  <2> QED  BY <2>4, HomeType DEF Holds
<1> QED  BY <1>1, <1>2, <1>3

\* A read in progress is not disturbed by the steps of others.
LEMMA OthersKeepReads ==
    ASSUME TypeOK, [Next]_vars, NEW r \in Readers, ~Read(r)
    PROVE  read'[r] = read[r] /\ cursor'[r] = cursor[r] /\ pc'[r] = pc[r]
                              /\ received'[r] = received[r]
<1> USE ThreadAssumption DEF TypeOK, shardVars, readVars, Goto, Threads
<1>1. ASSUME NEW t \in Writers, EmitStart(t)
      PROVE  UNCHANGED readVars /\ pc'[r] = pc[r]
  BY <1>1 DEF EmitStart, Refuse
<1>2. ASSUME NEW t \in Writers, EmitStep(t)
      PROVE  UNCHANGED readVars /\ pc'[r] = pc[r]
  BY <1>2 DEF EmitStep, EmitSequence, EmitPush
<1>3. ASSUME NEW q \in Readers, Read(q), q # r
      PROVE  read'[r] = read[r] /\ cursor'[r] = cursor[r] /\ pc'[r] = pc[r]
                                /\ received'[r] = received[r]
  <2>1. CASE ReadStart(q)
    BY <1>3, <2>1 DEF ReadStart
  <2>2. CASE ReadTryLock(q)
    BY <1>3, <2>2 DEF ReadTryLock, MoveOn
  <2>3. CASE ReadCopy(q)
    BY <1>3, <2>3, ReadCopyFacts DEF ReadCopy
  <2>4. CASE ReadFinish(q)
    BY <1>3, <2>4 DEF ReadFinish
  <2> QED  BY <1>3, <2>1, <2>2, <2>3, <2>4 DEF Read
<1> QED  BY <1>1, <1>2, <1>3 DEF Next, vars

\* What is ahead of a read stays ahead of it until the read moves.
LEMMA StillAhead ==
    ASSUME TypeOK, Locked, [Next]_vars, NEW r \in Readers, NEW s \in Nat, s > 0,
           MetOrAhead(r, s), read'[r].at = read[r].at,
           read'[r].got = read[r].got, cursor'[r] = cursor[r]
    PROVE  MetOrAhead(r, s)'
<1>1. CASE s <= cursor[r] \/ s \in read[r].got \/ s \in evicted
  BY <1>1, HistoryGrows DEF MetOrAhead
<1>2. CASE \E i \in Shard : i >= read[r].at /\ Holds(i, s)
  BY <1>2, HoldsSurvives DEF MetOrAhead
<1> QED  BY <1>1, <1>2 DEF MetOrAhead

\* The shard a reader has locked is in nobody's hand, so what it copies is all
\* that the shard holds.
LEMMA CopyIsComplete ==
    ASSUME TypeOK, Locked, [Next]_vars, NEW r \in Readers, ReadCopy(r),
           NEW s \in 1 .. read[r].watermark, MetOrAhead(r, s)
    PROVE  MetOrAhead(r, s)'
<1> USE DEF TypeOK
<1>1. /\ read'[r].at = read[r].at + 1 /\ UNCHANGED <<cursor, evicted, records, hand>>
      /\ \A e : e \in read'[r].got <=>
            \/ e \in read[r].got
            \/ e \in Elements(records[read[r].at]) /\ Wanted(r, e)
  BY ReadCopyFacts DEF ReadCopy, shardVars
<1>2. read[r].at \in Shard /\ lock[read[r].at] = r
  BY DEF ReadCopy, Locked
<1>3. \A t \in Writers : Home(t) = read[r].at => hand[t] = 0
  <2>1. ASSUME NEW t \in Writers, Home(t) = read[r].at, hand[t] # 0
        PROVE  FALSE
    <3>1. lock[Home(t)] = t
      BY <2>1 DEF Locked
    <3> QED  BY <1>2, <2>1, <3>1, ThreadAssumption
  <2> QED  BY <2>1
<1>4. s \in Nat /\ s > 0 /\ s <= read[r].watermark
  BY DEF ReadRecord
<1>5. ASSUME NEW i \in Shard, Holds(i, s)
      PROVE  Holds(i, s)'
  BY <1>1, <1>5 DEF Holds, Elements
<1>6. CASE s <= cursor[r] \/ s \in read[r].got \/ s \in evicted
  BY <1>1, <1>6 DEF MetOrAhead
<1>7. CASE Holds(read[r].at, s) /\ s > cursor[r]
  <2>1. s \in Elements(records[read[r].at])
    BY <1>3, <1>4, <1>7 DEF Holds
  <2> QED  BY <1>1, <1>4, <1>7, <2>1 DEF MetOrAhead, Wanted
<1>8. ASSUME NEW i \in Shard, i >= read[r].at, Holds(i, s), i # read[r].at
      PROVE  MetOrAhead(r, s)'
  <2>1. i \in Nat /\ read[r].at \in Nat
    BY <1>2, HomeType DEF Shard
  <2>2. i >= read'[r].at
    BY <1>1, <1>8, <2>1
  <2> QED  BY <1>5, <1>8, <2>2 DEF MetOrAhead
<1>9. \/ s <= cursor[r] \/ s \in read[r].got \/ s \in evicted
      \/ \E i \in Shard : i >= read[r].at /\ Holds(i, s)
  BY DEF MetOrAhead
<1>10. cursor[r] \in Nat
  OBVIOUS
<1> HIDE DEF TypeOK
<1> QED  BY <1>4, <1>6, <1>7, <1>8, <1>9, <1>10

\* A read that has met no busy shard misses nothing.
LEMMA PendingNext ==
    ASSUME TypeOK, Locked, Numbered, Pending, [Next]_vars
    PROVE  Pending'
<1> SUFFICES ASSUME NEW r \in Readers, pc'[r] \in {"shard", "copy"}, ~read'[r].busy,
                    NEW s \in 1 .. read'[r].watermark
             PROVE  MetOrAhead(r, s)'
  BY DEF Pending
<1>0. read' \in [Readers -> ReadRecord] /\ read \in [Readers -> ReadRecord]
  BY TypeNext DEF TypeOK
<1>1. s \in Nat /\ s > 0
  BY <1>0 DEF ReadRecord
<1>2. CASE ~Read(r)
  <2>1. read'[r] = read[r] /\ cursor'[r] = cursor[r] /\ pc'[r] = pc[r]
    BY <1>2, OthersKeepReads
  <2> QED  BY <1>1, <2>1, StillAhead DEF Pending
<1>3. CASE ReadStart(r)
  <2>1. read'[r].at = 1 /\ read'[r].watermark = nextSequence
        /\ UNCHANGED <<evicted, records, hand>>
    BY <1>0, <1>3 DEF ReadStart, Watermark, shardVars
  <2>2. s \in evicted \/ \E i \in Shard : Holds(i, s)
    BY <2>1 DEF Numbered
  <2>3. \A i \in Shard : Holds(i, s) => Holds(i, s)'
    BY <2>1 DEF Holds, Elements
  <2>4. \A i \in Shard : i >= 1
    BY HomeType DEF Shard
  <2> QED  BY <2>1, <2>2, <2>3, <2>4 DEF MetOrAhead
<1>4. CASE ReadTryLock(r)
  <2>1. UNCHANGED <<read, cursor>> /\ pc[r] = "shard"
    <3>1. ~MoveOn(r, read[r].got, TRUE)
      BY ReadSkipFacts
    <3> QED  BY <1>4, <3>1 DEF ReadTryLock
  <2> QED  BY <1>1, <2>1, StillAhead DEF Pending
<1>5. CASE ReadCopy(r)
  <2>1. pc[r] = "copy" /\ ~read[r].busy /\ s \in 1 .. read[r].watermark
    BY <1>5, ReadCopyFacts DEF ReadCopy
  <2> QED  BY <1>5, <2>1, CopyIsComplete DEF Pending
<1>6. CASE ReadFinish(r)
  BY <1>6 DEF ReadFinish, Goto, TypeOK, Threads
<1> QED  BY <1>2, <1>3, <1>4, <1>5, <1>6 DEF Read

\* A cursor moves at the end of a read that has no shard ahead.
LEMMA SkipNext ==
    ASSUME TypeOK, Pending, NoSilentSkip, [Next]_vars
    PROVE  NoSilentSkip'
<1> SUFFICES ASSUME NEW r \in Readers, NEW s \in 1 .. cursor'[r]
             PROVE  s \in received'[r] \cup evicted'
  BY DEF NoSilentSkip
<1> USE DEF TypeOK
<1>1. CASE cursor'[r] = cursor[r] /\ received[r] \subseteq received'[r]
  BY <1>1, HistoryGrows DEF NoSilentSkip
<1>2. CASE ~Read(r)
  BY <1>1, <1>2, OthersKeepReads
<1>3. CASE ReadStart(r) \/ ReadTryLock(r) \/ ReadCopy(r)
  BY <1>1, <1>3 DEF ReadStart, ReadTryLock, ReadCopy
<1>4. CASE ReadFinish(r)
  <2>1. /\ pc[r] = "shard" /\ read[r].at > ShardCount /\ cursor'[r] = NextCursor(r)
        /\ received'[r] = received[r] \cup read[r].got /\ UNCHANGED evicted
    BY <1>4 DEF ReadFinish, shardVars
  <2>2. CASE cursor'[r] = cursor[r]
    BY <1>1, <2>1, <2>2
  <2>3. CASE ~read[r].busy /\ cursor'[r] = read[r].watermark
    <3>1. MetOrAhead(r, s)
      BY <2>1, <2>3 DEF Pending
    <3>2. ~\E i \in Shard : i >= read[r].at
      BY <2>1, HomeType DEF Shard, ReadRecord
    <3>3. s <= cursor[r] => s \in received[r] \cup evicted
      <4>1. s <= cursor[r] => s \in 1 .. cursor[r]
        BY <2>3 DEF ReadRecord
      <4> QED  BY <4>1 DEF NoSilentSkip
    <3> QED  BY <2>1, <3>1, <3>2, <3>3 DEF MetOrAhead
  <2> QED  BY <2>1, <2>2, <2>3 DEF NextCursor
<1> QED  BY <1>2, <1>3, <1>4 DEF Read

\* Every variable keeps its type.
THEOREM TypeCorrect == Spec => []TypeOK
<1>1. Init => TypeOK
  BY InvInit DEF IInv
<1>2. TypeOK /\ [Next]_vars => TypeOK'
  BY TypeNext
<1> QED  BY <1>1, <1>2, PTL DEF Spec

\* Whatever is numbered up to a caller's cursor was given to it or evicted: a
\* retry never steps over a record that was only temporarily unavailable.
THEOREM CursorNeverSkips == Spec => []NoSilentSkip
<1>1. Init => IInv
  BY InvInit
<1>2. IInv /\ [Next]_vars => IInv'
  BY TypeNext, LockedNext, NumberedNext, PendingNext, SkipNext DEF IInv
<1>3. IInv => NoSilentSkip
  BY DEF IInv
<1> QED  BY <1>1, <1>2, <1>3, PTL DEF Spec
-----------------------------------------------------------------------------
(* What becomes of every number *)

\* Numbers are drawn from the counter, also the ones in hands.
Drawn ==
    /\ \A i \in Shard : Elements(records[i]) \subseteq 1 .. nextSequence
    /\ \A t \in Writers : hand[t] <= nextSequence /\ (pc[t] = "push" => hand[t] > 0)
    /\ evicted \subseteq 1 .. nextSequence

\* A shard is sorted, and a number in a hand is newer than what its shard holds.
Sorted ==
    /\ \A i \in Shard : \A j, k \in 1 .. Len(records[i]) :
          j < k => records[i][j] < records[i][k]
    /\ \A t \in Writers : hand[t] # 0 =>
          \A s \in Elements(records[Home(t)]) : s < hand[t]

\* A number is in one shard, in one hand or evicted.
Apart ==
    /\ \A i, k \in Shard : \A s \in Elements(records[i]) :
          s \in Elements(records[k]) => i = k
    /\ \A t, u \in Writers : hand[t] # 0 /\ hand[t] = hand[u] => t = u
    /\ \A i \in Shard : \A t \in Writers : hand[t] \notin Elements(records[i])
    /\ \A s \in evicted :
          /\ \A i \in Shard : s \notin Elements(records[i])
          /\ \A t \in Writers : hand[t] # s

\* The writer inside a shard has made room for its record.
Room ==
    /\ \A i \in Shard : Len(records[i]) <= CapacityOf(i)
    /\ \A t \in Writers : pc[t] \in {"sequence", "push"} =>
          Len(records[Home(t)]) < CapacityOf(Home(t))

\* The counters agree with the sets they count.
Counters ==
    /\ IsFiniteSet(Numbering)
    /\ stats.overwritten = Cardinality(evicted)
    /\ stats.accepted = nextSequence - Cardinality(InHand)
    /\ stats.accepted + stats.dropped + Cardinality(Numbering) = emits

LossInv ==
    TypeOK /\ Locked /\ Numbered /\ Drawn /\ Sorted /\ Apart /\ Room /\ Counters

\* The oldest record of a full shard gives way.
Evict(t) ==
    /\ pc[t] = "idle" /\ lock[Home(t)] = Nobody /\ records[Home(t)] # <<>>
    /\ records' = [records EXCEPT ![Home(t)] = Tail(@)]
    /\ evicted' = evicted \cup {Head(records[Home(t)])}
    /\ pc' = [pc EXCEPT ![t] = "sequence"]
    /\ UNCHANGED <<hand, nextSequence>>

\* Nothing is drawn, stored or evicted.
NoRecordMoves ==
    /\ UNCHANGED <<records, hand, evicted, nextSequence>>
    /\ \A t \in Writers : pc'[t] = "push" => pc[t] = "push"

\* The steps that touch a record.
LEMMA RecordSteps ==
    ASSUME TypeOK, [Next]_vars
    PROVE  \/ NoRecordMoves
           \/ \E t \in Writers : Evict(t) \/ EmitSequence(t) \/ EmitPush(t)
<1> USE ThreadAssumption DEF TypeOK, NoRecordMoves, shardVars, readVars, Goto, Threads
<1>1. ASSUME NEW t \in Writers, EmitStart(t)
      PROVE  NoRecordMoves \/ Evict(t)
  <2>1. pc[t] = "idle" /\ UNCHANGED <<nextSequence, hand>>
    BY <1>1 DEF EmitStart
  <2>2. CASE Refuse
    BY <2>1, <2>2 DEF Refuse
  <2>3. CASE Goto(t, "sequence") /\ UNCHANGED <<records, evicted, stats>>
    BY <2>1, <2>3
  <2>4. CASE /\ lock[Home(t)] = Nobody /\ records[Home(t)] # <<>>
             /\ Goto(t, "sequence")
             /\ records' = [records EXCEPT ![Home(t)] = Tail(@)]
             /\ evicted' = evicted \cup {Head(records[Home(t)])}
    BY <2>1, <2>4 DEF Evict
  <2> QED  BY <1>1, <2>2, <2>3, <2>4, EmitStartCases
<1>2. ASSUME NEW r \in Readers, Read(r)
      PROVE  NoRecordMoves
  BY ZenonT(60), <1>2 DEF Read, ReadStart, ReadTryLock, ReadCopy, ReadFinish
<1>3. CASE UNCHANGED vars
  BY <1>3 DEF vars
<1> QED  BY <1>1, <1>2, <1>3 DEF Next, EmitStep

\* The effect of an eviction on a sorted shard.
LEMMA EvictFacts ==
    ASSUME TypeOK, Sorted, NEW t \in Writers, Evict(t)
    PROVE  /\ Home(t) \in Shard /\ records[Home(t)] \in Seq(Nat)
           /\ records'[Home(t)] = Tail(records[Home(t)])
           /\ Head(records[Home(t)]) \in Elements(records[Home(t)])
           /\ Elements(records'[Home(t)])
                = Elements(records[Home(t)]) \ {Head(records[Home(t)])}
           /\ \A i \in Shard \ {Home(t)} : records'[i] = records[i]
<1> DEFINE q == records[Home(t)]
<1>1. Home(t) \in Shard /\ q \in Seq(Nat) /\ q # <<>>
  BY HomeType DEF TypeOK, Evict
<1>2. \A j, k \in 1 .. Len(q) : j < k => q[j] < q[k]
  BY <1>1 DEF Sorted
<1>3. records'[Home(t)] = Tail(q) /\ \A i \in Shard \ {Home(t)} : records'[i] = records[i]
  BY <1>1 DEF Evict, TypeOK
<1> HIDE DEF q
<1>4. Head(q) \in Elements(q)
  <2>1. 1 \in 1 .. Len(q) /\ Head(q) = q[1]
    BY <1>1
  <2> QED  BY <2>1 DEF Elements
<1>5. ASSUME NEW k \in 1 .. Len(Tail(q))
      PROVE  Tail(q)[k] \in Elements(q) /\ Tail(q)[k] # Head(q)
  <2>1. /\ k + 1 \in 1 .. Len(q) /\ Tail(q)[k] = q[k + 1]
        /\ 1 \in 1 .. Len(q) /\ Head(q) = q[1] /\ 1 < k + 1
    BY <1>1
  <2>2. q[1] < q[k + 1] /\ q[1] \in Nat /\ q[k + 1] \in Nat
    BY <1>1, <1>2, <2>1
  <2>3. q[k + 1] # q[1]
    BY <2>2
  <2> QED  BY <2>1, <2>3 DEF Elements
<1>6. Elements(q) \subseteq {Head(q)} \cup Elements(Tail(q))
  BY <1>1, ElementsOfTail
<1>7. Elements(Tail(q)) = Elements(q) \ {Head(q)}
  BY <1>5, <1>6 DEF Elements
<1> QED  BY <1>1, <1>3, <1>4, <1>7 DEF q

\* The effect of storing a record.
LEMMA PushFacts ==
    ASSUME TypeOK, NEW t \in Writers, EmitPush(t)
    PROVE  /\ Home(t) \in Shard /\ records[Home(t)] \in Seq(Nat) /\ hand[t] \in Nat
           /\ records'[Home(t)] = Append(records[Home(t)], hand[t])
           /\ Elements(records'[Home(t)]) = Elements(records[Home(t)]) \cup {hand[t]}
           /\ \A i \in Shard \ {Home(t)} : records'[i] = records[i]
           /\ hand'[t] = 0 /\ \A u \in Writers \ {t} : hand'[u] = hand[u]
           /\ pc'[t] = "idle" /\ \A u \in Writers \ {t} : pc'[u] = pc[u]
           /\ UNCHANGED <<nextSequence, evicted>>
<1>1. Home(t) \in Shard /\ records[Home(t)] \in Seq(Nat) /\ hand[t] \in Nat
  BY HomeType DEF TypeOK
<1>2. records'[Home(t)] = Append(records[Home(t)], hand[t])
  BY <1>1 DEF EmitPush, TypeOK
<1>3. Elements(records'[Home(t)]) = Elements(records[Home(t)]) \cup {hand[t]}
  BY <1>1, <1>2, ElementsOfAppend
<1> QED
  BY <1>1, <1>2, <1>3 DEF EmitPush, TypeOK, Threads, Goto

\* The effect of drawing a number.
LEMMA SequenceFacts ==
    ASSUME TypeOK, Locked, NEW t \in Writers, EmitSequence(t)
    PROVE  /\ nextSequence' = nextSequence + 1 /\ UNCHANGED <<records, evicted>>
           /\ hand[t] = 0 /\ hand'[t] = nextSequence + 1
           /\ pc[t] = "sequence" /\ pc'[t] = "push"
           /\ \A u \in Writers \ {t} : hand'[u] = hand[u] /\ pc'[u] = pc[u]
BY DEF EmitSequence, TypeOK, Locked, Threads, Goto

\* Whatever is kept or evicted was drawn.
LEMMA DrawnNext ==
    ASSUME TypeOK, Locked, Sorted, Drawn, [Next]_vars
    PROVE  Drawn'
<1>0. nextSequence \in Nat /\ nextSequence' \in Nat /\ \A t \in Writers : hand[t] \in Nat
  BY TypeNext DEF TypeOK
<1>1. CASE NoRecordMoves
  BY <1>1 DEF NoRecordMoves, Drawn, Elements
<1>2. ASSUME NEW t \in Writers, Evict(t)
      PROVE  Drawn'
  <2>1. UNCHANGED <<hand, nextSequence>> /\ \A u \in Writers : pc'[u] = "push" => pc[u] = "push"
    BY <1>2 DEF Evict, TypeOK, Threads
  <2>2. evicted' = evicted \cup {Head(records[Home(t)])}
    BY <1>2 DEF Evict
  <2>3. \A i \in Shard : Elements(records'[i]) \subseteq Elements(records[i])
    BY <1>2, EvictFacts
  <2>4. Head(records[Home(t)]) \in 1 .. nextSequence
    BY <1>2, EvictFacts DEF Drawn
  <2> QED  BY <2>1, <2>2, <2>3, <2>4 DEF Drawn, Elements
<1>3. ASSUME NEW t \in Writers, EmitSequence(t)
      PROVE  Drawn'
  <2>1. 1 .. nextSequence \subseteq 1 .. nextSequence'
    BY <1>0, <1>3, SequenceFacts
  <2>2. \A i \in Shard : Elements(records'[i]) = Elements(records[i])
    BY <1>3, SequenceFacts
  <2>3. \A u \in Writers : hand'[u] <= nextSequence' /\ (pc'[u] = "push" => hand'[u] > 0)
    BY <1>0, <1>3, SequenceFacts DEF Drawn
  <2> QED  BY <1>3, <2>1, <2>2, <2>3, SequenceFacts DEF Drawn, Elements
<1>4. ASSUME NEW t \in Writers, EmitPush(t)
      PROVE  Drawn'
  <2>1. hand[t] \in 1 .. nextSequence
    BY <1>0, <1>4 DEF Drawn, EmitPush
  <2>2. \A i \in Shard : Elements(records'[i]) \subseteq Elements(records[i]) \cup {hand[t]}
    BY ZenonT(60), <1>4, PushFacts
  <2>3. \A u \in Writers : hand'[u] <= nextSequence /\ (pc'[u] = "push" => hand'[u] > 0)
    BY <1>0, <1>4, PushFacts DEF Drawn
  <2> QED  BY ZenonT(60), <1>4, <2>1, <2>2, <2>3, PushFacts DEF Drawn, Elements
<1> QED  BY <1>1, <1>2, <1>3, <1>4, RecordSteps

\* A record goes to the end of its shard and is newer than the ones there,
\* because its number was drawn under the shard's lock.
LEMMA SortedNext ==
    ASSUME TypeOK, Locked, Drawn, Sorted, [Next]_vars
    PROVE  Sorted'
<1> DEFINE Rising(q) == \A j, k \in 1 .. Len(q) : j < k => q[j] < q[k]
<1>0. /\ nextSequence \in Nat /\ \A t \in Writers : hand[t] \in Nat /\ Home(t) \in Shard
      /\ \A i \in Shard : Rising(records[i])
  BY HomeType DEF TypeOK, Sorted
<1>1. CASE NoRecordMoves
  BY <1>1 DEF NoRecordMoves, Sorted, Elements
<1>2. ASSUME NEW t \in Writers, Evict(t)
      PROVE  Sorted'
  <2>1. \A i \in Shard : Elements(records'[i]) \subseteq Elements(records[i])
    BY <1>2, EvictFacts
  <2>2. Rising(Tail(records[Home(t)]))
    <3>1. records[Home(t)] \in Seq(Nat) /\ records[Home(t)] # <<>> /\ Rising(records[Home(t)])
      BY <1>0, <1>2, EvictFacts DEF Evict
    <3> SUFFICES ASSUME NEW q \in Seq(Nat), q # <<>>, Rising(q) PROVE Rising(Tail(q))
      BY <3>1
    <3> QED  OBVIOUS
  <2>3. \A i \in Shard : Rising(records'[i])
    BY <1>0, <1>2, <2>2, EvictFacts
  <2>4. UNCHANGED hand
    BY <1>2 DEF Evict
  <2>5. \A u \in Writers : hand'[u] # 0 => \A s \in Elements(records'[Home(u)]) : s < hand'[u]
    BY <1>0, <2>1, <2>4 DEF Sorted
  <2> QED  BY <2>3, <2>5 DEF Sorted, Elements
<1>3. ASSUME NEW t \in Writers, EmitSequence(t)
      PROVE  Sorted'
  <2>1. UNCHANGED records /\ hand'[t] = nextSequence + 1
        /\ \A u \in Writers \ {t} : hand'[u] = hand[u]
    BY <1>3, SequenceFacts
  <2>2. \A s \in Elements(records[Home(t)]) : s < nextSequence + 1
    BY <1>0 DEF Drawn
  <2>3. \A u \in Writers : hand'[u] # 0 => \A s \in Elements(records'[Home(u)]) : s < hand'[u]
    BY <2>1, <2>2 DEF Sorted
  <2> QED  BY <2>1, <2>3 DEF Sorted, Elements
<1>4. ASSUME NEW t \in Writers, EmitPush(t)
      PROVE  Sorted'
  <2>1. hand[t] # 0 /\ \A s \in Elements(records[Home(t)]) : s < hand[t]
    BY <1>0, <1>4 DEF Drawn, Sorted, EmitPush
  <2>2. Rising(Append(records[Home(t)], hand[t]))
    <3>1. /\ records[Home(t)] \in Seq(Nat) /\ Rising(records[Home(t)])
          /\ \A j \in 1 .. Len(records[Home(t)]) : records[Home(t)][j] < hand[t]
      BY <1>0, <1>4, <2>1, PushFacts DEF Elements
    <3> SUFFICES ASSUME NEW q \in Seq(Nat), NEW e \in Nat, Rising(q),
                        \A j \in 1 .. Len(q) : q[j] < e
                 PROVE  Rising(Append(q, e))
      BY <1>0, <3>1
    <3> QED  OBVIOUS
  <2>3. \A i \in Shard : Rising(records'[i])
    <3>1. records'[Home(t)] = Append(records[Home(t)], hand[t])
      BY <1>4, PushFacts
    <3>2. \A i \in Shard \ {Home(t)} : records'[i] = records[i]
      BY <1>4, PushFacts
    <3> HIDE DEF Rising
    <3> QED  BY <1>0, <2>2, <3>1, <3>2
  <2>4. ASSUME NEW u \in Writers, hand'[u] # 0
        PROVE  \A s \in Elements(records'[Home(u)]) : s < hand'[u]
    <3>1. u # t /\ hand'[u] = hand[u] /\ hand[u] # 0
      BY <1>4, <2>4, PushFacts
    <3>2. Home(u) # Home(t)
      BY <1>4, <2>1, <3>1 DEF Locked
    <3> QED  BY <1>0, <1>4, <3>1, <3>2, PushFacts DEF Sorted
  <2> QED  BY <2>3, <2>4 DEF Sorted, Elements
<1> QED  BY <1>1, <1>2, <1>3, <1>4, RecordSteps

\* A number is never in two places.
LEMMA ApartNext ==
    ASSUME TypeOK, Locked, Drawn, Sorted, Apart, [Next]_vars
    PROVE  Apart'
<1> DEFINE E(i) == Elements(records[i])
           F(i) == Elements(records'[i])
<1>0. /\ nextSequence \in Nat /\ \A t \in Writers : hand[t] \in Nat /\ Home(t) \in Shard
      /\ \A i \in Shard : E(i) \subseteq 1 .. nextSequence
      /\ \A s \in evicted : s \in 1 .. nextSequence
      /\ \A t \in Writers : hand[t] <= nextSequence
  BY HomeType DEF TypeOK, Drawn
<1>a. /\ \A i, k \in Shard : \A s \in E(i) : s \in E(k) => i = k
      /\ \A t, u \in Writers : hand[t] # 0 /\ hand[t] = hand[u] => t = u
      /\ \A i \in Shard : \A t \in Writers : hand[t] \notin E(i)
      /\ \A s \in evicted : \A i \in Shard : s \notin E(i)
      /\ \A s \in evicted : \A t \in Writers : hand[t] # s
  BY DEF Apart
<1> DEFINE Goal ==
             /\ \A i, k \in Shard : \A s \in F(i) : s \in F(k) => i = k
             /\ \A t, u \in Writers : hand'[t] # 0 /\ hand'[t] = hand'[u] => t = u
             /\ \A i \in Shard : \A t \in Writers : hand'[t] \notin F(i)
             /\ \A s \in evicted' : \A i \in Shard : s \notin F(i)
             /\ \A s \in evicted' : \A t \in Writers : hand'[t] # s
<1> SUFFICES Goal
  BY DEF Apart, Elements
<1>1. CASE NoRecordMoves
  BY <1>a, <1>1 DEF NoRecordMoves
<1>2. ASSUME NEW t \in Writers, Evict(t)
      PROVE  Goal
  <2> DEFINE h == Head(records[Home(t)])
  <2>1. h \in E(Home(t)) /\ h \notin F(Home(t)) /\ \A i \in Shard : F(i) \subseteq E(i)
    BY <1>2, EvictFacts
  <2>2. UNCHANGED hand /\ evicted' = evicted \cup {h}
    BY <1>2 DEF Evict
  <2> HIDE DEF h, E, F
  <2> QED  BY <1>0, <1>a, <2>1, <2>2
<1>3. ASSUME NEW t \in Writers, EmitSequence(t)
      PROVE  Goal
  <2>1. /\ hand'[t] = nextSequence + 1 /\ \A u \in Writers \ {t} : hand'[u] = hand[u]
        /\ UNCHANGED evicted /\ \A i \in Shard : F(i) = E(i)
    BY <1>3, SequenceFacts
  <2>2. nextSequence + 1 \notin 1 .. nextSequence /\ nextSequence + 1 # 0
        /\ \A u \in Writers : hand[u] # nextSequence + 1
    BY <1>0
  <2> HIDE DEF E, F
  <2> QED  BY <1>0, <1>a, <2>1, <2>2
<1>4. ASSUME NEW t \in Writers, EmitPush(t)
      PROVE  Goal
  <2>1. /\ hand'[t] = 0 /\ \A u \in Writers \ {t} : hand'[u] = hand[u]
        /\ UNCHANGED evicted /\ F(Home(t)) = E(Home(t)) \cup {hand[t]}
        /\ \A i \in Shard \ {Home(t)} : F(i) = E(i)
    BY <1>4, PushFacts
  <2>2. hand[t] # 0 /\ 0 \notin evicted /\ \A i \in Shard : 0 \notin E(i)
    BY <1>0, <1>4 DEF Drawn, EmitPush
  <2> HIDE DEF E, F
  <2> QED  BY <1>0, <1>a, <2>1, <2>2
<1> QED  BY <1>1, <1>2, <1>3, <1>4, RecordSteps

\* A shard has some number of slots.
LEMMA CapacityType == \A i \in Shard : CapacityOf(i) \in Nat
<1>1. \A a, m \in Nat : m > 0 => a \div m \in Nat
  OBVIOUS
<1>2. Capacity \div ShardCount \in Nat
  BY <1>1, HomeType, NumberAssumption
<1> QED  BY <1>2 DEF CapacityOf

\* A writer enters a shard that has room or makes some, and no other writer of
\* the shard enters before it has stored its record.
LEMMA RoomNext ==
    ASSUME TypeOK, Locked, Sorted, Room, [Next]_vars
    PROVE  Room'
<1> DEFINE Inside(u) == pc[u] \in {"sequence", "push"}
           Spare(i) == Len(records[i]) < CapacityOf(i)
<1>0. /\ \A i \in Shard : CapacityOf(i) \in Nat /\ Len(records[i]) \in Nat
      /\ \A i \in Shard : Len(records[i]) <= CapacityOf(i)
      /\ \A u \in Writers : Home(u) \in Shard /\ (Inside(u) => Spare(Home(u)))
  BY CapacityType, HomeType DEF TypeOK, Room
<1>1. ASSUME UNCHANGED records, \A u \in Writers : Inside(u)' => Inside(u)
      PROVE  Room'
  BY <1>0, <1>1 DEF Room
<1>2. ASSUME NEW t \in Writers, EmitStart(t)
      PROVE  Room'
  <2>1. CASE Refuse
    BY <1>1, <2>1 DEF Refuse
  <2>2. CASE ~Refuse
    <3>1. lock[Home(t)] = Nobody /\ Goto(t, "sequence") /\ pc[t] = "idle"
      BY <1>2, <2>2 DEF EmitStart
    <3>2. \A u \in Writers \ {t} : Inside(u)' => Inside(u) /\ Home(u) # Home(t)
      BY <3>1, ThreadAssumption DEF Goto, TypeOK, Threads, Locked
    <3>3. /\ \A i \in Shard \ {Home(t)} : records'[i] = records[i]
          /\ Len(records'[Home(t)]) \in Nat /\ Spare(Home(t))'
      <4>1. CASE Full(Home(t))
        <5>1. Evict(t) /\ CapacityOf(Home(t)) > 0
          <6>1. CapacityOf(Home(t)) > 0 /\ records' = [records EXCEPT ![Home(t)] = Tail(@)]
                /\ evicted' = evicted \cup {Head(records[Home(t)])}
            BY <1>2, <2>2, <4>1 DEF EmitStart
          <6>2. records[Home(t)] # <<>>
            BY <4>1, <6>1 DEF Full
          <6>3. UNCHANGED <<hand, nextSequence>>
            BY <1>2 DEF EmitStart
          <6> QED  BY <3>1, <6>1, <6>2, <6>3 DEF Evict, Goto
        <5>2. /\ records'[Home(t)] = Tail(records[Home(t)])
              /\ records[Home(t)] \in Seq(Nat) /\ records[Home(t)] # <<>>
              /\ \A i \in Shard \ {Home(t)} : records'[i] = records[i]
          BY <5>1, EvictFacts DEF Evict
        <5>3. Len(records'[Home(t)]) = Len(records[Home(t)]) - 1
          BY <5>2
        <5> QED  BY <1>0, <4>1, <5>1, <5>2, <5>3 DEF Full
      <4>2. CASE ~Full(Home(t))
        <5>1. UNCHANGED records
          BY <1>2, <2>2, <4>2 DEF EmitStart
        <5> QED  BY <1>0, <4>2, <5>1 DEF Full
      <4> QED  BY <4>1, <4>2
    <3> HIDE DEF Inside
    <3>4. \A i \in Shard : Len(records'[i]) <= CapacityOf(i)
      BY <1>0, <3>3
    <3>5. \A u \in Writers : Inside(u)' => Spare(Home(u))'
      BY <1>0, <3>2, <3>3
    <3> QED  BY <3>4, <3>5 DEF Room, Inside
  <2> QED  BY <2>1, <2>2
<1>3. ASSUME NEW t \in Writers, EmitSequence(t)
      PROVE  Room'
  <2>1. \A u \in Writers : Inside(u)' => Inside(u)
    BY <1>3, SequenceFacts
  <2> QED  BY <1>1, <1>3, <2>1, SequenceFacts
<1>4. ASSUME NEW t \in Writers, EmitPush(t)
      PROVE  Room'
  <2>1. Inside(t)
    BY <1>4 DEF EmitPush
  <2>2. Len(records'[Home(t)]) = Len(records[Home(t)]) + 1
    BY <1>4, PushFacts
  <2>3. \A u \in Writers : Inside(u)' => Inside(u) /\ Home(u) # Home(t)
    BY <1>4, <2>1, PushFacts DEF Locked
  <2>4. \A i \in Shard : Len(records'[i]) <= CapacityOf(i)
    <3>1. \A i \in Shard \ {Home(t)} : records'[i] = records[i]
      BY <1>4, PushFacts
    <3>2. Len(records'[Home(t)]) <= CapacityOf(Home(t))
      BY <1>0, <1>4, <2>1, <2>2, PushFacts
    <3> QED  BY <1>0, <3>1, <3>2
  <2>5. \A u \in Writers : Inside(u)' => Spare(Home(u))'
    BY <1>0, <1>4, <2>3, PushFacts
  <2> QED  BY <2>4, <2>5 DEF Room
<1>5. ASSUME NEW r \in Readers, Read(r)
      PROVE  Room'
  <2>1. UNCHANGED records /\ \A u \in Writers : pc'[u] = pc[u]
    BY ZenonT(60), <1>5, ThreadAssumption DEF Read, ReadStart, ReadTryLock, ReadCopy, ReadFinish,
                                  Goto, TypeOK, Threads, shardVars
  <2> QED  BY <1>1, <2>1
<1>6. CASE UNCHANGED vars
  BY <1>1, <1>6 DEF vars, shardVars
<1> QED  BY <1>2, <1>3, <1>4, <1>5, <1>6 DEF Next, EmitStep

\* The sets that are counted are finite.
LEMMA CountedSetsFinite ==
    ASSUME TypeOK, Drawn
    PROVE  /\ IsFiniteSet(evicted) /\ Cardinality(evicted) \in Nat
           /\ IsFiniteSet(InHand) /\ Cardinality(InHand) \in Nat
<1>1. IsFiniteSet(1 .. nextSequence)
  BY FS_Interval DEF TypeOK
<1>2. evicted \in SUBSET (1 .. nextSequence) /\ InHand \in SUBSET (1 .. nextSequence)
  BY DEF TypeOK, Drawn, InHand
<1> QED  BY <1>1, <1>2, FS_Subset, FS_CardinalityType

\* A writer draws one number at a time.
LEMMA InHandSteps ==
    ASSUME TypeOK, Locked, Drawn, Apart, NEW t \in Writers
    PROVE  /\ EmitSequence(t) =>
                 InHand' = InHand \cup {nextSequence + 1} /\ nextSequence + 1 \notin InHand
           /\ EmitPush(t) => InHand' = InHand \ {hand[t]} /\ hand[t] \in InHand
<1>0. nextSequence \in Nat /\ \A u \in Writers : hand[u] \in Nat /\ hand[u] <= nextSequence
  BY DEF TypeOK, Drawn
<1>1. ASSUME EmitSequence(t)
      PROVE  InHand' = InHand \cup {nextSequence + 1} /\ nextSequence + 1 \notin InHand
  <2>1. /\ hand[t] = 0 /\ hand'[t] = nextSequence + 1
        /\ \A u \in Writers \ {t} : hand'[u] = hand[u]
    BY <1>1, SequenceFacts
  <2>2. nextSequence + 1 # 0 /\ \A u \in Writers : hand[u] # nextSequence + 1
    BY <1>0
  <2> QED  BY <2>1, <2>2 DEF InHand
<1>2. ASSUME EmitPush(t)
      PROVE  InHand' = InHand \ {hand[t]} /\ hand[t] \in InHand
  <2>1. hand'[t] = 0 /\ \A u \in Writers \ {t} : hand'[u] = hand[u]
    BY <1>2, PushFacts
  <2>2. hand[t] # 0
    BY <1>0, <1>2 DEF Drawn, EmitPush
  <2>3. \A u \in Writers : hand[u] = hand[t] => u = t
    BY <2>2 DEF Apart
  <2> QED  BY <2>1, <2>2, <2>3 DEF InHand
<1> QED  BY <1>1, <1>2

\* Whether a call of emit is counted at its end does not depend on its outcome.
LEMMA CountersNext ==
    ASSUME TypeOK, Locked, Drawn, Sorted, Apart, Counters, [Next]_vars
    PROVE  Counters'
<1> DEFINE N == Cardinality(Numbering)
           V == Cardinality(evicted)
           I == Cardinality(InHand)
<1>0. /\ IsFiniteSet(Numbering) /\ N \in Nat /\ nextSequence \in Nat /\ emits \in Nat
      /\ IsFiniteSet(evicted) /\ V \in Nat /\ IsFiniteSet(InHand) /\ I \in Nat
      /\ stats \in StatsRecord
      /\ stats.accepted \in Nat /\ stats.dropped \in Nat /\ stats.overwritten \in Nat
      /\ stats.overwritten = V /\ stats.accepted = nextSequence - I
      /\ stats.accepted + stats.dropped + N = emits
  BY CountedSetsFinite, FS_CardinalityType DEF Counters, TypeOK, StatsRecord
<1>1. ASSUME NEW t \in Writers, EmitStart(t)
      PROVE  Counters'
  <2>1. emits' = emits + 1 /\ UNCHANGED <<nextSequence, hand>> /\ pc[t] = "idle"
    BY <1>1 DEF EmitStart
  <2>2. InHand' = InHand
    BY <2>1 DEF InHand
  <2>3. CASE Refuse
    <3>1. UNCHANGED <<evicted, pc>> /\ stats' = [stats EXCEPT !.dropped = @ + 1]
      BY <2>3 DEF Refuse
    <3>2. /\ stats'.dropped = stats.dropped + 1 /\ stats'.accepted = stats.accepted
          /\ stats'.overwritten = stats.overwritten
      BY <1>0, <3>1 DEF StatsRecord
    <3>3. Numbering' = Numbering
      BY <3>1 DEF Numbering
    <3> QED  BY <1>0, <2>1, <2>2, <3>1, <3>2, <3>3 DEF Counters
  <2>4. ASSUME Goto(t, "sequence")
        PROVE  IsFiniteSet(Numbering)' /\ N' = N + 1
    <3>1. Numbering' = Numbering \cup {t} /\ t \notin Numbering
      BY <2>1, <2>4 DEF Goto, TypeOK, Threads, Numbering
    <3> QED  BY <1>0, <3>1, FS_AddElement
  <2>5. CASE Goto(t, "sequence") /\ UNCHANGED <<evicted, stats>>
    BY <1>0, <2>1, <2>2, <2>4, <2>5 DEF Counters
  <2>6. CASE /\ lock[Home(t)] = Nobody /\ records[Home(t)] # <<>>
             /\ Goto(t, "sequence")
             /\ records' = [records EXCEPT ![Home(t)] = Tail(@)]
             /\ evicted' = evicted \cup {Head(records[Home(t)])}
             /\ CountEviction
    <3>1. Evict(t)
      BY <2>1, <2>6 DEF Evict, Goto
    <3>2. Head(records[Home(t)]) \notin evicted
      BY <3>1, EvictFacts DEF Apart
    <3>3. V' = V + 1
      BY <1>0, <2>6, <3>2, FS_AddElement
    <3>4. /\ stats'.overwritten = stats.overwritten + 1
          /\ stats'.accepted = stats.accepted /\ stats'.dropped = stats.dropped
      BY <1>0, <2>6 DEF CountEviction, StatsRecord
    <3> HIDE DEF N, V
    <3>5. IsFiniteSet(Numbering)' /\ N' = N + 1
      BY <2>4, <2>6
    <3> QED  BY <1>0, <2>1, <2>2, <3>3, <3>4, <3>5 DEF Counters, N, V
  <2> QED  BY <1>1, <2>3, <2>5, <2>6, EmitStartCases
<1>2. ASSUME NEW t \in Writers, EmitSequence(t)
      PROVE  Counters'
  <2>1. UNCHANGED <<stats, evicted, emits>> /\ nextSequence' = nextSequence + 1
    BY <1>2 DEF EmitSequence
  <2>2. Numbering' = Numbering
    BY <1>2, SequenceFacts DEF Numbering
  <2>3. I' = I + 1
    BY <1>0, <1>2, InHandSteps, FS_AddElement
  <2> QED  BY <1>0, <2>1, <2>2, <2>3 DEF Counters
<1>3. ASSUME NEW t \in Writers, EmitPush(t)
      PROVE  Counters'
  <2>1. UNCHANGED <<nextSequence, evicted, emits>>
        /\ stats' = [stats EXCEPT !.accepted = @ + 1]
    BY <1>3 DEF EmitPush
  <2>2. /\ stats'.accepted = stats.accepted + 1 /\ stats'.dropped = stats.dropped
        /\ stats'.overwritten = stats.overwritten
    BY <1>0, <2>1 DEF StatsRecord
  <2>3. Numbering' = Numbering \ {t} /\ t \in Numbering
    BY ZenonT(60), <1>3, PushFacts DEF Numbering, EmitPush
  <2>4. IsFiniteSet(Numbering)' /\ N' = N - 1
    BY <1>0, <2>3, FS_RemoveElement
  <2>5. I' = I - 1
    BY SMTT(30), <1>0, <1>3, InHandSteps, FS_RemoveElement
  <2> QED  BY <1>0, <2>1, <2>2, <2>4, <2>5 DEF Counters
<1>4. ASSUME UNCHANGED <<nextSequence, hand, stats, evicted, emits>>,
             \A u \in Writers : pc'[u] = pc[u]
      PROVE  Counters'
  <2>1. InHand' = InHand /\ Numbering' = Numbering
    BY <1>4 DEF InHand, Numbering
  <2> QED  BY <1>0, <1>4, <2>1 DEF Counters
<1>5. ASSUME NEW r \in Readers, Read(r)
      PROVE  Counters'
  <2>1. \A u \in Writers : pc'[u] = pc[u]
    BY ZenonT(60), <1>5, ThreadAssumption DEF Read, ReadStart, ReadTryLock, ReadCopy, ReadFinish,
                                  Goto, TypeOK, Threads, shardVars
  <2>2. UNCHANGED shardVars
    BY <1>5 DEF Read, ReadStart, ReadTryLock, ReadCopy, ReadFinish
  <2> QED  BY <1>4, <2>1, <2>2 DEF shardVars
<1>6. CASE UNCHANGED vars
  BY <1>4, <1>6 DEF vars, shardVars
<1> QED  BY <1>1, <1>2, <1>3, <1>5, <1>6 DEF Next, EmitStep

-----------------------------------------------------------------------------
(* The slots of the recorder *)

\* Numbering the slots of the shards in turn.
Slot(i, j) == (j - 1) * ShardCount + i

LEMMA Scale ==
    ASSUME NEW a \in Nat, NEW b \in Nat, NEW m \in Nat, a <= b
    PROVE  a * m \in Nat /\ b * m \in Nat /\ a * m <= b * m
<1>1. PICK d \in Nat : b = a + d
  BY b - a \in Nat
<1>2. (a + d) * m = a * m + d * m /\ a * m \in Nat /\ d * m \in Nat
  OBVIOUS
<1> QED  BY <1>1, <1>2

\* Two places have two slots.
LEMMA SlotApart ==
    ASSUME NEW i \in Shard, NEW k \in Shard, NEW j \in Nat \ {0}, NEW l \in Nat \ {0},
           Slot(i, j) = Slot(k, l)
    PROVE  i = k /\ j = l
<1> DEFINE m == ShardCount
<1>0. m \in Nat \ {0} /\ i \in 1 .. m /\ k \in 1 .. m
  BY HomeType DEF Shard
<1>1. (j - 1) * m + i = (l - 1) * m + k
  BY DEF Slot
<1>2. ASSUME NEW a \in Nat, NEW b \in Nat, NEW x \in 1 .. m, NEW y \in 1 .. m, a < b
      PROVE  a * m + x # b * m + y
  <2>1. a + 1 \in Nat /\ a + 1 <= b
    BY <1>2
  <2>2. (a + 1) * m <= b * m /\ (a + 1) * m \in Nat /\ b * m \in Nat
    BY <1>0, <2>1, Scale
  <2>3. (a + 1) * m = a * m + m /\ a * m \in Nat
    BY <1>0
  <2> QED  BY <1>0, <2>2, <2>3
<1>3. j - 1 \in Nat /\ l - 1 \in Nat
  OBVIOUS
<1>4. ~(j - 1 < l - 1) /\ ~(l - 1 < j - 1)
  BY <1>0, <1>1, <1>2, <1>3
<1>5. j = l
  BY <1>3, <1>4
<1>6. (j - 1) * m \in Nat
  BY <1>0, <1>3
<1> QED  BY <1>0, <1>1, <1>5, <1>6

\* The slots of all shards are at most the capacity.
LEMMA SlotBound ==
    ASSUME NEW i \in Shard, NEW j \in 1 .. CapacityOf(i)
    PROVE  Slot(i, j) \in 1 .. Capacity
<1> DEFINE m == ShardCount
           q == Capacity \div m
           r == Capacity % m
<1>0. m \in Nat \ {0} /\ i \in 1 .. m /\ Capacity \in Nat
  BY HomeType, NumberAssumption DEF Shard
<1>1. q \in Nat /\ r \in Nat /\ Capacity = q * m + r
  BY <1>0
<1>2. j - 1 \in Nat
  BY CapacityType
<1>3. CapacityOf(i) = q + (IF i <= r THEN 1 ELSE 0)
  BY DEF CapacityOf
<1>4. (j - 1) * m \in Nat
  BY <1>0, <1>2
<1> HIDE DEF m, q, r
<1>5. CASE j <= q
  <2>1. j \in Nat /\ j * m = (j - 1) * m + m
    BY <1>0, <1>2
  <2>2. j * m <= q * m /\ q * m \in Nat
    BY <1>0, <1>1, <1>5, <2>1, Scale
  <2> QED  BY <1>0, <1>1, <1>4, <2>1, <2>2 DEF Slot, m
<1>6. CASE j = q + 1 /\ i <= r
  <2>1. (j - 1) * m = q * m
    BY <1>1, <1>6
  <2> QED  BY <1>0, <1>1, <1>4, <1>6, <2>1 DEF Slot, m
<1>7. j <= q \/ (j = q + 1 /\ i <= r)
  BY <1>1, <1>2, <1>3
<1> QED  BY <1>5, <1>6, <1>7

\* Place j of shard i is taken by s, or kept free for it by the writer inside.
At(i, j, s) ==
    \/ j \in 1 .. Len(records[i]) /\ records[i][j] = s
    \/ j = Len(records[i]) + 1 /\ s # 0 /\ \E t \in Writers : Home(t) = i /\ hand[t] = s

\* Every number that is not evicted has a place within its shard's capacity.
LEMMA Placed ==
    ASSUME TypeOK, Locked, Drawn, Room, NEW s \in Retained \cup InHand
    PROVE  \E i \in Shard : \E j \in 1 .. CapacityOf(i) : At(i, j, s)
<1>0. \A i \in Shard : /\ records[i] \in Seq(Nat) /\ CapacityOf(i) \in Nat
                       /\ Len(records[i]) \in Nat /\ Len(records[i]) <= CapacityOf(i)
  BY CapacityType DEF TypeOK, Room
<1>1. CASE s \in Retained
  <2>1. PICK i \in Shard : \E j \in 1 .. Len(records[i]) : records[i][j] = s
    BY <1>1 DEF Retained, Elements
  <2>2. 1 .. Len(records[i]) \subseteq 1 .. CapacityOf(i)
    BY <1>0
  <2> QED  BY <2>1, <2>2 DEF At
<1>2. CASE s \in InHand
  <2>1. PICK t \in Writers : hand[t] = s /\ s # 0
    BY <1>2 DEF InHand
  <2>2. pc[t] = "push" /\ Home(t) \in Shard
    BY <2>1, HomeType DEF Locked
  <2>3. Len(records[Home(t)]) + 1 \in 1 .. CapacityOf(Home(t))
    BY <1>0, <2>2 DEF Room
  <2> QED  BY <2>1, <2>2, <2>3 DEF At
<1> QED  BY <1>1, <1>2

\* A place holds one number.
LEMMA OneAtAPlace ==
    ASSUME TypeOK, Locked, NEW i \in Shard, NEW j \in Nat, NEW s, NEW e,
           At(i, j, s), At(i, j, e)
    PROVE  s = e
<1>0. Len(records[i]) \in Nat
  BY DEF TypeOK
<1>1. \A t, u \in Writers : Home(t) = Home(u) /\ hand[t] # 0 /\ hand[u] # 0 => t = u
  BY DEF Locked
<1> QED  BY <1>0, <1>1 DEF At

\* Records and hands together fit in the slots of the recorder.
LEMMA WithinCapacity ==
    ASSUME TypeOK, Locked, Drawn, Apart, Room
    PROVE  /\ IsFiniteSet(Retained)
           /\ Cardinality(Retained) + Cardinality(InHand) <= Capacity
<1> DEFINE All == Retained \cup InHand
           Of(s, n) == \E i \in Shard : \E j \in 1 .. CapacityOf(i) :
                          At(i, j, s) /\ n = Slot(i, j)
           f == [s \in All |-> CHOOSE n \in 1 .. Capacity : Of(s, n)]
<1>1. ASSUME NEW s \in All
      PROVE  f[s] \in 1 .. Capacity /\ Of(s, f[s])
  <2>1. PICK i \in Shard : \E j \in 1 .. CapacityOf(i) : At(i, j, s)
    BY <1>1, Placed
  <2>2. PICK j \in 1 .. CapacityOf(i) : At(i, j, s)
    BY <2>1
  <2>3. Slot(i, j) \in 1 .. Capacity /\ Of(s, Slot(i, j))
    BY <2>2, SlotBound
  <2>4. \E n \in 1 .. Capacity : Of(s, n)
    BY <2>3
  <2>5. f[s] = CHOOSE n \in 1 .. Capacity : Of(s, n)
    BY <1>1
  <2> HIDE DEF f, Of
  <2> QED  BY <2>4, <2>5
<1>2. f \in [All -> 1 .. Capacity]
  <2>1. f = [s \in All |-> f[s]]
    OBVIOUS
  <2> HIDE DEF f
  <2> QED  BY <1>1, <2>1
<1>3. ASSUME NEW s \in All, NEW e \in All, f[s] = f[e]
      PROVE  s = e
  <2>a. Of(s, f[s]) /\ Of(e, f[e])
    BY <1>1
  <2> HIDE DEF f
  <2>b. PICK i \in Shard : \E j \in 1 .. CapacityOf(i) : At(i, j, s) /\ f[s] = Slot(i, j)
    BY <2>a
  <2>1. PICK j \in 1 .. CapacityOf(i) : At(i, j, s) /\ f[s] = Slot(i, j)
    BY <2>b
  <2>c. PICK k \in Shard : \E l \in 1 .. CapacityOf(k) : At(k, l, e) /\ f[e] = Slot(k, l)
    BY <2>a
  <2>2. PICK l \in 1 .. CapacityOf(k) : At(k, l, e) /\ f[e] = Slot(k, l)
    BY <2>c
  <2>3. j \in Nat \ {0} /\ l \in Nat \ {0}
    BY CapacityType
  <2>4. i = k /\ j = l
    BY <1>3, <2>1, <2>2, <2>3, SlotApart
  <2> QED  BY <2>1, <2>2, <2>3, <2>4, OneAtAPlace
<1> HIDE DEF f, Of
<1>4. f \in Injection(All, 1 .. Capacity)
  BY <1>2, <1>3 DEF Injection, IsInjective
<1>5. IsFiniteSet(1 .. Capacity) /\ Cardinality(1 .. Capacity) = Capacity
  BY FS_Interval, NumberAssumption
<1>6. IsFiniteSet(All) /\ Cardinality(All) <= Capacity
  BY <1>4, <1>5, FS_Injection
<1>7. IsFiniteSet(Retained) /\ IsFiniteSet(InHand)
  BY <1>6, FS_Subset
<1>8. Retained \cap InHand = {}
  BY DEF Apart, Retained, InHand
<1>9. Cardinality(All) = Cardinality(Retained) + Cardinality(InHand)
                                              - Cardinality(Retained \cap InHand)
  BY <1>7, FS_Union
<1>10. Cardinality(Retained) \in Nat /\ Cardinality(InHand) \in Nat
  BY <1>7, FS_CardinalityType
<1>11. Cardinality(Retained \cap InHand) = 0
  BY <1>8, FS_EmptySet
<1> HIDE DEF All
<1> QED  BY <1>6, <1>7, <1>9, <1>10, <1>11

\* The numbers drawn so far are the ones that are kept, in a hand or evicted.
LEMMA AllAccounted ==
    ASSUME TypeOK, Numbered, Drawn
    PROVE  1 .. nextSequence = Retained \cup InHand \cup evicted
<1>1. ASSUME NEW s \in 1 .. nextSequence
      PROVE  s \in Retained \cup InHand \cup evicted
  <2>1. s # 0
    BY DEF TypeOK
  <2> QED  BY <2>1 DEF Numbered, Holds, Retained, InHand
<1>2. InHand \subseteq 1 .. nextSequence
  BY DEF TypeOK, Drawn, InHand
<1>3. Retained \subseteq 1 .. nextSequence
  BY DEF Drawn, Retained
<1> QED  BY <1>1, <1>2, <1>3 DEF Drawn

LEMMA LossInit == Init => LossInv
<1> SUFFICES ASSUME Init PROVE LossInv
  OBVIOUS
<1>1. TypeOK /\ Locked /\ Numbered
  BY InvInit DEF IInv
<1>2. Drawn /\ Sorted /\ Apart
  BY HomeType DEF Init, Drawn, Sorted, Apart, Elements, Threads
<1>3. Room
  BY CapacityType DEF Init, Room, Threads
<1>4. Counters
  <2>1. InHand = {} /\ Numbering = {} /\ evicted = {}
    BY DEF Init, InHand, Numbering, Threads
  <2> QED  BY <2>1, FS_EmptySet DEF Init, Counters
<1> QED  BY <1>1, <1>2, <1>3, <1>4 DEF LossInv

\* Every number drawn is retained, about to be retained or evicted, what is
\* retained fits in the configured capacity in every interleaving of writers,
\* and the counters account for every call of emit.
THEOREM LossIsAccounted == Spec => []LossAccounted
<1>1. Init => LossInv
  BY LossInit
<1>2. LossInv /\ [Next]_vars => LossInv'
  BY TypeNext, LockedNext, NumberedNext, DrawnNext, SortedNext, ApartNext, RoomNext,
     CountersNext DEF LossInv
<1>3. LossInv => LossAccounted
  BY AllAccounted, WithinCapacity DEF LossInv, LossAccounted, Sorted, Counters
<1> QED  BY <1>1, <1>2, <1>3, PTL DEF Spec
=============================================================================
