SPECIFICATION FairSpec
CONSTANTS
    Kinds = {"messages", "questions", "tokens"}
    FirstRows = 1
    MaxRow = 2
INVARIANTS
    ReportedWriteShown
    UsageIsOfItsToken
PROPERTIES
    OnlyReloadMisleads
    NoWriteForgotten
    NothingSticks
