CONSTANTS MaxCommands = 2 MaxEvents = 2
SPECIFICATION FairSpec
INVARIANT FocusMatches
INVARIANT SilentUntilAsked
PROPERTY PausedIsResumed
PROPERTY AnnouncedIsPlayed
CHECK_DEADLOCK FALSE
