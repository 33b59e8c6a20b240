SPECIFICATION Spec
CONSTANTS
  Kids = {c1, c2}
  Grands = {g1, g2, g3}
  Nobody = Nobody
  Pages = 2
  PageSize = 2
  Online = TRUE
  Fetch = {TRUE}
  Timely = TRUE
  Commands = {"start", "stop", "next"}
  MaxFifo = 2
SYMMETRY Symmetry
INVARIANTS
  OneOutput
CHECK_DEADLOCK FALSE
