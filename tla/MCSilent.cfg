SPECIFICATION PlaybackSpec
CONSTANT
    MaxCommands = 3
INVARIANT
    IdleIsSilent
