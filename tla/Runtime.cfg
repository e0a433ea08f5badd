CONSTANTS
    ring = ring
    callback = callback
    event = event
    text = text
    Threads = {a, b}
    Nobody = nobody
    Sinks = {ring, callback}
    Capability <- MCCapability
    Detail <- MCDetail
    Memory = {ring}
    Policies = {"DropNewest", "OverwriteOldest"}
    Capacity = 1
    Kept = {ring}
    Panicking = {callback}
    Chatty = {callback}
    Sites = {event, text}
    Kind <- MCKind
    FieldsOf <- MCFieldsOf
    Matches <- MCMatches
    Retention = 2
    MaxCalls = 3
SPECIFICATION Spec
SYMMETRY ThreadSymmetry
INVARIANTS
    TypeOK
    NoRecursion
    CompleteView
    MemoryAccounted
    NewestSpansKept
PROPERTY
    EveryViewOnce
CHECK_DEADLOCK FALSE
