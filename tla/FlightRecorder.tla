--------------------------- MODULE FlightRecorder ---------------------------
(***************************************************************************)
(* The sharded, bounded, non-blocking history of                            *)
(* logwise_runtime/src/flight_recorder.rs.                                  *)
(*                                                                          *)
(* A writer tries the lock of its own shard only, and numbers its record    *)
(* from a counter shared by all shards while it holds that lock.  A reader  *)
(* first loads the counter, then tries one shard after another.  A record   *)
(* is its sequence number.  A caller of read_since passes the cursor its    *)
(* previous call returned.                                                  *)
(***************************************************************************)
EXTENDS Integers, Sequences, FiniteSets

CONSTANTS Writers, Readers,
          Nobody,      \* the owner of a free lock
          Capacity,    \* with_shards(capacity, _, shards)
          Shards,
          ThreadHash,  \* DefaultHasher of a thread's id
          MaxEmits     \* bound: calls of emit in a behaviour

ASSUME ThreadAssumption == Writers \cap Readers = {} /\ Nobody \notin Writers \cup Readers
ASSUME NumberAssumption == Capacity \in Nat /\ Shards \in Nat /\ MaxEmits \in Nat
ASSUME HashAssumption == ThreadHash \in [Writers -> Nat]

VARIABLES
    nextSequence,  \* FlightRecorder::next_sequence
    records,       \* Shard::records of each shard
    lock,          \* the owner of each shard's mutex
    stats,         \* accepted, dropped, overwritten
    hand,          \* the sequence a writer has taken and not pushed, 0 for none
    pc,
    read,          \* the locals of a read_since in progress
    cursor,        \* the cursor a caller holds
    received,      \* history: records a caller was given
    evicted,       \* history: records popped for newer ones
    emits          \* history: calls of emit so far

shardVars == <<nextSequence, records, stats, hand, evicted, emits>>
readVars == <<read, cursor, received>>
vars == <<shardVars, lock, pc, readVars>>

Threads == Writers \cup Readers

\* with_shards: at most one shard per slot, the remainder to the first ones.
ShardCount ==
    IF Capacity = 0 \/ Shards = 0 THEN 1
    ELSE IF Shards > Capacity THEN Capacity ELSE Shards
Shard == 1..ShardCount
CapacityOf(i) ==
    (Capacity \div ShardCount) + (IF i <= Capacity % ShardCount THEN 1 ELSE 0)
Home(t) == (ThreadHash[t] % ShardCount) + 1

StatsRecord == [accepted: Nat, dropped: Nat, overwritten: Nat]
ReadRecord == [at: Nat, watermark: Nat, got: SUBSET Nat, busy: BOOLEAN]
NoRead == [at |-> 0, watermark |-> 0, got |-> {}, busy |-> FALSE]

TypeOK ==
    /\ nextSequence \in Nat /\ emits \in Nat
    /\ records \in [Shard -> Seq(Nat)]
    /\ lock \in [Shard -> Threads \cup {Nobody}]
    /\ stats \in StatsRecord
    /\ hand \in [Writers -> Nat]
    /\ pc \in [Threads -> {"idle", "sequence", "push", "shard", "copy"}]
    /\ read \in [Readers -> ReadRecord]
    /\ \A r \in Readers : pc[r] = "copy" => read[r].at \in Shard
    /\ cursor \in [Readers -> Nat]
    /\ received \in [Readers -> SUBSET Nat]
    /\ evicted \subseteq Nat

Init ==
    /\ nextSequence = 0 /\ emits = 0
    /\ records = [i \in Shard |-> <<>>]
    /\ lock = [i \in Shard |-> Nobody]
    /\ stats = [accepted |-> 0, dropped |-> 0, overwritten |-> 0]
    /\ hand = [t \in Writers |-> 0]
    /\ pc = [t \in Threads |-> "idle"]
    /\ read = [r \in Readers |-> NoRead]
    /\ cursor = [r \in Readers |-> 0]
    /\ received = [r \in Readers |-> {}]
    /\ evicted = {}

Goto(t, step) == pc' = [pc EXCEPT ![t] = step]
Elements(s) == {s[i] : i \in 1..Len(s)}

-----------------------------------------------------------------------------
(* EventSink::emit *)

Refuse ==
    /\ stats' = [stats EXCEPT !.dropped = @ + 1]
    /\ UNCHANGED <<records, evicted, lock, pc>>

Full(i) == Len(records[i]) = CapacityOf(i)

\* Variant: an eviction is not counted.
CountEvictionNot == UNCHANGED stats
CountEviction == stats' = [stats EXCEPT !.overwritten = @ + 1]

\* The home shard is locked and, when it is full, loses its oldest record.
EmitStart(t) ==
    LET i == Home(t) IN
    /\ pc[t] = "idle" /\ emits < MaxEmits
    /\ emits' = emits + 1
    /\ \/ lock[i] # Nobody /\ Refuse
       \/ lock[i] = Nobody /\ CapacityOf(i) = 0 /\ Refuse
       \/ /\ lock[i] = Nobody /\ CapacityOf(i) > 0
          /\ lock' = [lock EXCEPT ![i] = t]
          /\ IF Full(i)
             THEN /\ records' = [records EXCEPT ![i] = Tail(@)]
                  /\ evicted' = evicted \cup {Head(records[i])}
                  /\ CountEviction
             ELSE UNCHANGED <<records, evicted, stats>>
          /\ Goto(t, "sequence")
    /\ UNCHANGED <<nextSequence, hand, readVars>>

EmitSequence(t) ==
    /\ pc[t] = "sequence"
    /\ nextSequence' = nextSequence + 1
    /\ hand' = [hand EXCEPT ![t] = nextSequence + 1]
    /\ Goto(t, "push")
    /\ UNCHANGED <<records, stats, evicted, emits, lock, readVars>>

EmitPush(t) ==
    LET i == Home(t) IN
    /\ pc[t] = "push"
    /\ records' = [records EXCEPT ![i] = Append(@, hand[t])]
    /\ hand' = [hand EXCEPT ![t] = 0]
    /\ stats' = [stats EXCEPT !.accepted = @ + 1]
    /\ lock' = [lock EXCEPT ![i] = Nobody]
    /\ Goto(t, "idle")
    /\ UNCHANGED <<nextSequence, evicted, emits, readVars>>

-----------------------------------------------------------------------------
(* read_since *)

\* Variant: next_sequence taken for the sequence of the next record.
WatermarkOffByOne == nextSequence - 1
Watermark == nextSequence

ReadStart(r) ==
    /\ pc[r] = "idle"
    /\ read' = [read EXCEPT ![r] =
          [at |-> 1, watermark |-> Watermark, got |-> {}, busy |-> FALSE]]
    /\ Goto(r, "shard")
    /\ UNCHANGED <<shardVars, lock, cursor, received>>

\* The read goes on to the next shard.
MoveOn(r, got, busy) ==
    read' = [read EXCEPT ![r] =
       [at |-> @.at + 1, watermark |-> @.watermark, got |-> got, busy |-> busy]]

ReadTryLock(r) ==
    LET i == read[r].at IN
    /\ pc[r] = "shard" /\ i \in Shard
    /\ IF lock[i] = Nobody
       THEN /\ lock' = [lock EXCEPT ![i] = r]
            /\ Goto(r, "copy")
            /\ UNCHANGED read
       ELSE /\ MoveOn(r, read[r].got, TRUE)
            /\ UNCHANGED <<lock, pc>>
    /\ UNCHANGED <<shardVars, cursor, received>>

Wanted(r, s) == s > cursor[r] /\ s <= read[r].watermark

ReadCopy(r) ==
    LET i == read[r].at IN
    /\ pc[r] = "copy"
    /\ MoveOn(r, read[r].got \cup {s \in Elements(records[i]) : Wanted(r, s)},
              read[r].busy)
    /\ lock' = [lock EXCEPT ![i] = Nobody]
    /\ Goto(r, "shard")
    /\ UNCHANGED <<shardVars, cursor, received>>

\* Variant: a busy shard does not hold the cursor back.
NextCursorAlways(r) ==
    IF read[r].watermark > cursor[r] THEN read[r].watermark ELSE cursor[r]
\* Variant: min for max.
NextCursorLeast(r) ==
    IF ~read[r].busy /\ read[r].watermark < cursor[r] THEN read[r].watermark
                                                       ELSE cursor[r]
NextCursor(r) ==
    IF ~read[r].busy /\ read[r].watermark > cursor[r] THEN read[r].watermark
                                                       ELSE cursor[r]

ReadFinish(r) ==
    /\ pc[r] = "shard" /\ read[r].at > ShardCount
    /\ cursor' = [cursor EXCEPT ![r] = NextCursor(r)]
    /\ received' = [received EXCEPT ![r] = @ \cup read[r].got]
    /\ read' = [read EXCEPT ![r] = NoRead]
    /\ Goto(r, "idle")
    /\ UNCHANGED <<shardVars, lock>>

-----------------------------------------------------------------------------

EmitStep(t) == EmitSequence(t) \/ EmitPush(t)
Read(r) == ReadStart(r) \/ ReadTryLock(r) \/ ReadCopy(r) \/ ReadFinish(r)

Next ==
    \/ \E t \in Writers : EmitStart(t) \/ EmitStep(t)
    \/ \E r \in Readers : Read(r)

Spec == Init /\ [][Next]_vars

\* A thread inside a call is scheduled, and a mirroring caller polls.
Fairness ==
    /\ \A t \in Writers : WF_vars(EmitStep(t))
    /\ \A r \in Readers : WF_vars(Read(r))
FairSpec == Spec /\ Fairness

-----------------------------------------------------------------------------
(* Properties *)

Retained == UNION {Elements(records[i]) : i \in Shard}
InHand == {hand[t] : t \in Writers} \ {0}
Numbering == {t \in Writers : pc[t] \in {"sequence", "push"}}

\* "A caller may retry without silently stepping over a record that was
\* temporarily unavailable": whatever is numbered up to a caller's cursor was
\* given to that caller or evicted, although records are numbered before they
\* are visible and shards are read one after another.
NoSilentSkip ==
    \A r \in Readers : 1..cursor[r] \subseteq received[r] \cup evicted

\* Every number up to the counter is retained, about to be retained or
\* evicted, "total retention never exceeds capacity" while records are being
\* replaced, and the counters tell contention (dropped) from retention
\* (overwritten) for every call of emit.
LossAccounted ==
    /\ 1..nextSequence = Retained \cup InHand \cup evicted
    /\ Cardinality(Retained) + Cardinality(InHand) <= Capacity
    /\ \A i \in Shard : \A j, k \in 1..Len(records[i]) :
          j < k => records[i][j] < records[i][k]
    /\ stats.overwritten = Cardinality(evicted)
    /\ stats.accepted = nextSequence - Cardinality(InHand)
    /\ stats.accepted + stats.dropped + Cardinality(Numbering) = emits

\* Once writers are idle, a caller that polls reads the whole stream.
PollerCatchesUp ==
    (emits = MaxEmits) ~> (\A r \in Readers : cursor[r] = nextSequence)
=============================================================================
