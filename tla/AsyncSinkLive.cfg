CONSTANTS
    Threads = {a, b}
    Worker = worker
    Nobody = nobody
    Capacity = 1
    Policies = {"OverwriteOldest"}
    Faults = {"panic"}
    MaxEmits = 2
    MaxFlushes = 1
SPECIFICATION FairSpec
PROPERTIES
    AcceptedIsHandled
    DropCompletes
CHECK_DEADLOCK FALSE
