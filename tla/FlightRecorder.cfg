CONSTANTS
    w1 = w1
    w2 = w2
    w3 = w3
    Writers = {w1, w2, w3}
    Readers = {r1}
    Nobody = nobody
    Capacity = 3
    Shards = 2
    ThreadHash <- MCThreadHash
    MaxEmits = 5
SPECIFICATION FairSpec
INVARIANTS
    TypeOK
    NoSilentSkip
    LossAccounted
PROPERTY
    PollerCatchesUp
CHECK_DEADLOCK FALSE
