CONSTANTS MaxCommands = 1 MaxEvents = 2
SPECIFICATION FairSpec
PROPERTY ListeningEnds
CHECK_DEADLOCK FALSE
