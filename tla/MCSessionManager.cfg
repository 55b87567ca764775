SPECIFICATION Spec
CONSTANTS
    Callers = {c1, c2}
    Abortable = {c2}
    NoCaller = NoCaller
    Lifetimes = {2}
    Margin = 1
    ReplyTimeout = 1
    MaxTime = 2
    MaxGrants = 3
INVARIANTS
    OneRefreshInFlight
    NoSpentTokenSent
PROPERTIES
    FreshTokenAccepted
    ClearsOnlyDeadSessions
    ImplementsTokenSource
