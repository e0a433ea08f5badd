CONSTANTS
    Threads = {a, b, c, d}
    LockedWrite = 3
SPECIFICATION FairSpec
INVARIANT
    TypeOK
PROPERTIES
    ImplementsSharedLock
    SomebodyGetsIn
