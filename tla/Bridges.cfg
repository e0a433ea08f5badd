\* One thread with two application spans, a sink with one of its own, and two
\* installers.
SPECIFICATION Spec
CONSTANTS
    i1 = i1  i2 = i2  t1 = t1  a = a  b = b  x = x
    None = None
    NoSpan = NoSpan
    Installers <- MCInstallers
    Threads <- MCThreads
    Spans <- MCSpans
    SinkSpans <- MCSinkSpans
    MaxNesting = 3
    MaxLinks = 1
SYMMETRY Symmetry
INVARIANTS InnermostContext LineageFollowsSpans
PROPERTIES ImplementsSlot
CHECK_DEADLOCK FALSE
