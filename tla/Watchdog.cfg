SPECIFICATION Spec
CONSTANTS
    g = g  h = h
    None = None
    Guards <- MCGuards
    Deadlines = {1}
    Drains = {1, 9}
    Period = 1
    MaxTime = 2
    MaxDisarmed = 1
INVARIANTS TypeOK LateIsReportedOnce DrainIsOwedAPoll
PROPERTY HangIsShown
CHECK_DEADLOCK FALSE
