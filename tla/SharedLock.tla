----------------------------- MODULE SharedLock -----------------------------
(***************************************************************************)
(* What Spinlock promises its callers: with_mut runs alone, with runs       *)
(* beside other readers only, of which there are at most MaxReaders.        *)
(***************************************************************************)
EXTENDS Integers, FiniteSets

CONSTANTS Threads, MaxReaders

VARIABLES readers,   \* threads inside with
          writers    \* threads inside with_mut

vars == <<readers, writers>>

Init == readers = {} /\ writers = {}

EnterWrite(t) ==
    /\ readers = {} /\ writers = {}
    /\ writers' = {t}
    /\ UNCHANGED readers

LeaveWrite(t) ==
    /\ t \in writers
    /\ writers' = writers \ {t}
    /\ UNCHANGED readers

EnterRead(t) ==
    /\ writers = {} /\ t \notin readers
    /\ Cardinality(readers) < MaxReaders
    /\ readers' = readers \cup {t}
    /\ UNCHANGED writers

LeaveRead(t) ==
    /\ t \in readers
    /\ readers' = readers \ {t}
    /\ UNCHANGED writers

Next == \E t \in Threads :
            EnterWrite(t) \/ LeaveWrite(t) \/ EnterRead(t) \/ LeaveRead(t)

Spec == Init /\ [][Next]_vars
=============================================================================
