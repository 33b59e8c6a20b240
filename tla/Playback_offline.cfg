SPECIFICATION Spec
CONSTANTS
  Kids = {c1, c2}
  Grands = {g1, g2, g3}
  Nobody = Nobody
  Pages = 1
  PageSize = 2
  Online = FALSE
  Fetch = {TRUE}
  Timely = TRUE
  Commands = {"start", "stop", "pause", "tts", "continue", "next", "pick", "mode"}
  MaxFifo = 2
SYMMETRY Symmetry
INVARIANTS
  OneOutput
  StopSilences
  OutputIsNamed
  NameMatchesUrl
  PlayingHasChild
CHECK_DEADLOCK FALSE
