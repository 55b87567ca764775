SPECIFICATION ScreensSpec
CONSTANTS
    PageLimit = 2
    MaxEvents = 3
    MaxLag = 2
    MaxLog = 5
    Families = 2
    AuditPage = 1
    MaxTrail = 4
    MaxCalls = 3
    Windows = 4
    MaxAsks = 3
    MaxBeat = 2
    MaxFrames = 1
    MaxCommands = 3
    Kept = 1
    MaxRecords = 3
    PeakHold = 3
    Loudest = 4
    LongestHeld = 8
    Interval = 2
    Lifetime = 16
    PollTimeout = 2
    MaxDelay = 1
    MaxSlowDowns = 2
    MaxPrefs = 1
    MaxTokens = 2
    Interfaces = {"eth", "wlan"}
    HistoryCapacity = 1
    MaxBytes = 1
    LongestGap = 1
    Octets = {"nl", "cr", ":", "x", "event", "booth", "data", "retry"}
    Streams <- ThreeLines
    Called = {"status_history", "events_stream", "decide_message",
              "revoke_api_token", "create_question_with_audio", "download_audio",
              "export_data", "import_data"}
    MaxFiles = 2
    Made = {"system", "metrics", "simulate_event"}
    MaxBooths = 1
    LogLimit = 2
    Logged = {"error", "notice", "debug"}
    Roles = {"hook"}
    Mounts <- TwinMounts
    MaxPage = 2
INVARIANTS
    ScreensTypeOK
    FeedInOrder AuditHonest ShownAsHeard ReplayGoesOn ApprovalReaped
    SavedIsDurable RatesAreTraffic CutsDoNotShow
    EndTellsWhatWasDone TokenGoesToPinned EnterKeepsAll LogFitsFilter
    PageReadsBack OfferedKeysAct
PROPERTIES
    HighlightKept FollowEndsWithTail PaneInStep LatestWindowWins NoReportUndone
    StatusSettles PollingTakesOver
    NoTokenWritten EndOfInputEndsSetup
