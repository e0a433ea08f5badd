CONSTANTS
    core = core
    detail = detail
    extra = extra
    plain = plain
    scoped = scoped
    narrow = narrow
    c1 = c1
    c2 = c2
    Loggers = {p, q}
    Admins = {w}
    Groups <- MCGroups
    CONTEXTUAL = CONTEXTUAL
    Baselines <- MCBaselines
    Sinks <- MCSinks
    SinkGroups <- MCSinkGroups
    SinkContexts <- MCSinkContexts
    Activations <- MCActivations
    ActivationGroups <- MCActivationGroups
    ActivationContexts <- MCActivationContexts
    Scoped <- MCScoped
    Contexts <- MCContexts
    TagModulus = 2
    Unpopulated = Unpopulated
    Ttl = 1
    MaxTime = 1
    MaxGeneration = 2
SPECIFICATION Spec
SYMMETRY LoggerSymmetry
INVARIANTS
    TypeOK
    NoStaleHit
    QuietCallIsExact
    TtlEnforced
CHECK_DEADLOCK FALSE
