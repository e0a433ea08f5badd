SPECIFICATION TransportSpec
CONSTANTS
    s = s  t = t
    Senders <- MCSenders
    Events <- MCEvents
    Buffers = {90, 200}
    Scratches = {2, 9}
    MaxValue = 3
    U16Max = 9
    MaxCalls = 3
SYMMETRY Symmetry
INVARIANTS ReaderReconstructs EnvelopeIsFaithful
CHECK_DEADLOCK FALSE
