SPECIFICATION FairSpec
CONSTANTS
  Threads = {t1, t2}
  NoThread = NoThread
  Periods = 3
INVARIANTS
  OneSpeaker
  TextIsHandedOver
  DoneMeansQuiet
  StopIsPrompt
PROPERTIES
  CommandsEnd
  SessionEnds
CHECK_DEADLOCK TRUE
