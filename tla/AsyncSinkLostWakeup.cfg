CONSTANTS
    Threads = {a, b}
    Worker = worker
    Nobody = nobody
    Capacity = 1
    Policies = {"OverwriteOldest"}
    Faults = {}
    MaxEmits = 2
    MaxFlushes = 1
SPECIFICATION FairSpec
PROPERTY FlushBlockingReturns
CHECK_DEADLOCK FALSE
