------------------------------ MODULE Spinlock ------------------------------
(***************************************************************************)
(* The one-word readers-writer spinlock of logwise_runtime/src/spinlock.rs, *)
(* which guards every field of the Runtime on threads that may not block.   *)
(*                                                                          *)
(* One action per atomic access.  A write CAS that fails changes nothing    *)
(* and is a stutter.  The word is a u8: arithmetic on it wraps, and         *)
(* LockedWrite, the largest value, marks a writer.  A closure that panics   *)
(* is unlocked by the same guard as one that returns.                       *)
(***************************************************************************)
EXTENDS Integers, FiniteSets

CONSTANTS Threads, LockedWrite   \* u8::MAX

ASSUME WidthAssumption == LockedWrite \in Nat /\ LockedWrite >= 2

VARIABLES locked,    \* Spinlock::locked
          current,   \* the local of spin_lock_read
          pc

vars == <<locked, current, pc>>

Unlocked == 0
Width == LockedWrite + 1

Steps == {"idle", "writeCas", "writing", "readLoad", "readCas", "reading"}

\* A reader only tries to swap a word below the ceiling.
TypeOK ==
    /\ locked \in 0..LockedWrite
    /\ current \in [Threads -> 0..LockedWrite]
    /\ pc \in [Threads -> Steps]
    /\ \A t \in Threads : pc[t] = "readCas" => current[t] < LockedWrite - 1

Init ==
    /\ locked = Unlocked
    /\ current = [t \in Threads |-> 0]
    /\ pc = [t \in Threads |-> "idle"]

Goto(t, step) == pc' = [pc EXCEPT ![t] = step]

-----------------------------------------------------------------------------
(* with_mut *)

StartWrite(t) ==
    /\ pc[t] = "idle"
    /\ Goto(t, "writeCas")
    /\ UNCHANGED <<locked, current>>

\* Variant: readers are not looked at.
FreeForWriterUnread == locked # LockedWrite
FreeForWriter == locked = Unlocked

WriteCas(t) ==
    /\ pc[t] = "writeCas" /\ FreeForWriter
    /\ locked' = LockedWrite
    /\ Goto(t, "writing")
    /\ UNCHANGED current

WriteUnlock(t) ==
    /\ pc[t] = "writing"
    /\ locked' = Unlocked
    /\ Goto(t, "idle")
    /\ UNCHANGED current

-----------------------------------------------------------------------------
(* with *)

StartRead(t) ==
    /\ pc[t] = "idle"
    /\ Goto(t, "readLoad")
    /\ UNCHANGED <<locked, current>>

\* Variant: the 255th reader is let in.
AtCeilingOffByOne(value) == value >= LockedWrite
AtCeiling(value) == value >= LockedWrite - 1

\* The head of the loop: a writer or a full house is waited out.
Consider(t, value) ==
    /\ current' = [current EXCEPT ![t] = IF AtCeiling(value) THEN 0 ELSE value]
    /\ Goto(t, IF AtCeiling(value) THEN "readLoad" ELSE "readCas")
    /\ UNCHANGED locked

ReadLoad(t) == pc[t] = "readLoad" /\ Consider(t, locked)

Unmoved(t) == locked = current[t]

ReadCas(t) ==
    /\ pc[t] = "readCas" /\ Unmoved(t)
    /\ locked' = (current[t] + 1) % Width
    /\ current' = [current EXCEPT ![t] = 0]
    /\ Goto(t, "reading")

\* Variant: the swap is retried with the value that has just failed.
ActualStale(t) == current[t]
Actual(t) == locked

\* The word moved, or compare_exchange_weak failed for no reason.
ReadCasFails(t) == pc[t] = "readCas" /\ Consider(t, Actual(t))

WithoutReader == (locked - 1) % Width

ReadUnlock(t) ==
    /\ pc[t] = "reading"
    /\ locked' = WithoutReader
    /\ Goto(t, "idle")
    /\ UNCHANGED current

-----------------------------------------------------------------------------

Next == \E t \in Threads :
    \/ StartWrite(t) \/ WriteCas(t) \/ WriteUnlock(t)
    \/ StartRead(t) \/ ReadLoad(t) \/ ReadCas(t) \/ ReadCasFails(t) \/ ReadUnlock(t)

Spec == Init /\ [][Next]_vars

\* A spinning thread is scheduled, a closure returns, and a weak swap does not
\* fail for ever on a word that stays as expected.  Nothing is assumed of the
\* order in which contenders see the word free.
Fairness == \A t \in Threads :
    /\ WF_vars(WriteCas(t)) /\ WF_vars(WriteUnlock(t))
    /\ WF_vars(ReadLoad(t)) /\ WF_vars(ReadCas(t)) /\ WF_vars(ReadUnlock(t))
    /\ WF_vars(ReadCasFails(t))
FairSpec == Spec /\ Fairness

-----------------------------------------------------------------------------
(* Properties *)

Readers == {t \in Threads : pc[t] = "reading"}
Writers == {t \in Threads : pc[t] = "writing"}
Spinning == {t \in Threads : pc[t] \in {"writeCas", "readLoad", "readCas"}}

\* &mut T is never handed out beside another reference: a swap computed from
\* an old load of the word never lets a reader in beside a writer.
Exclusion ==
    \A t, u \in Threads : t \in Writers /\ u \in Writers \cup Readers => t = u

\* The word says who is inside: LOCKED_WRITE means one writer and never 255
\* readers, and no unlock wraps the count below zero.
WordIsExact ==
    IF Writers = {} THEN locked = Cardinality(Readers) /\ locked < LockedWrite
                    ELSE locked = LockedWrite /\ Cardinality(Writers) = 1

Abstract == INSTANCE SharedLock WITH
    readers <- Readers, writers <- Writers, MaxReaders <- LockedWrite - 1

\* The word and its compare-exchange loops implement a readers-writer lock for
\* at most 254 readers.
ImplementsSharedLock == Abstract!Spec

\* Contenders cannot keep each other out for ever: as long as somebody spins,
\* somebody gets in.  (One that spins may starve.)
SomebodyGetsIn == (Spinning # {}) ~> (Readers \cup Writers # {})
=============================================================================
