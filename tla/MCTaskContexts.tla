--------------------------- MODULE MCTaskContexts ---------------------------
(* Bounded instances of TaskContexts. *)
EXTENDS TaskContexts, TLC

CONSTANTS t1, t2, f1, f2, i1, i2, l1

MCThreads == {t1, t2}
MCFutures == {f1, f2}
MCIntervals == {i1, i2}
MCLoggers == {l1}

\* Threads, futures and intervals are interchangeable.
Symmetry == Permutations({t1, t2}) \cup Permutations({f1, f2}) \cup Permutations({i1, i2})
==============================================================================
