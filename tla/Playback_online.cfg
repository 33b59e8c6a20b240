SPECIFICATION FairSpec
CONSTANTS
  Kids = {c1, c2}
  Grands = {g1, g2, g3}
  Nobody = Nobody
  Pages = 2
  PageSize = 2
  Online = TRUE
  Fetch = {TRUE, FALSE}
  Timely = TRUE
  Commands = {"start", "stop", "pause", "tts", "continue", "mode"}
  MaxFifo = 1
INVARIANTS
  OneOutput
PROPERTIES
  CommandsEnd
