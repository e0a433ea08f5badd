-------------------------- MODULE MCInterestCache --------------------------
EXTENDS InterestCache, TLC
CONSTANTS core, detail, extra, plain, scoped, narrow, c1, c2
MCContexts         == {c1, c2}
MCGroups           == {core, detail, extra}
MCBaselines        == {{CONTEXTUAL}, {core}}
MCSinks            == {plain, scoped}
MCSinkGroups       == plain :> {core} @@ scoped :> {detail}
MCSinkContexts     == plain :> MCContexts @@ scoped :> {c1}
MCActivations      == {narrow}
MCActivationGroups == narrow :> {detail, extra}
MCActivationContexts == narrow :> {c1}
MCScoped           == {scoped, narrow}
LoggerSymmetry == Permutations(Loggers)
=============================================================================
