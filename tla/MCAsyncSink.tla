---------------------------- MODULE MCAsyncSink ----------------------------
EXTENDS AsyncSink, TLC
ThreadSymmetry == Permutations(Threads)
=============================================================================
