SPECIFICATION Spec
CONSTANTS
    t1 = t1  t2 = t2  f1 = f1  f2 = f2  i1 = i1  i2 = i2  l1 = l1
    NoRecord = NoRecord
    Threads <- MCThreads
    Futures <- MCFutures
    Intervals <- MCIntervals
    Loggers <- MCLoggers
    Durations = {1, 2}
    Internal = {TRUE}
    Threshold = 1
    MaxLoggers = 1
    MaxWork = 3
SYMMETRY Symmetry
INVARIANTS TypeOK OwnContext CompletionIsLast StatisticsComplete
CHECK_DEADLOCK FALSE
