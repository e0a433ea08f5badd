CONSTANTS
    Threads = {a, b}
    Worker = worker
    Nobody = nobody
    Capacity = 1
    Policies = {"DropNewest", "OverwriteOldest"}
    Faults = {"write", "flush"}
    MaxEmits = 2
    MaxFlushes = 2
SPECIFICATION Spec
SYMMETRY ThreadSymmetry
INVARIANTS
    TypeOK
    LossAccounted
    FifoWithinCapacity
    ParkedWorkerIsOwedAWake
    StoppedMeansDrained
PROPERTIES
    LiveOkIsDurable
    OnlyAnEarlierLookEvicts
    ImplementsContract
CHECK_DEADLOCK FALSE
