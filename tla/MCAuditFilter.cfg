SPECIFICATION AuditSpec
CONSTANTS
    Families = 2
    AuditPage = 1
    MaxTrail = 4
INVARIANT
    AuditMatchesFilter
