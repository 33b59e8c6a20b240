SPECIFICATION Spec
CONSTANTS
  Kids = {c1, c2}
  Grands = {g1, g2}
  Nobody = Nobody
  Pages = 2
  PageSize = 1
  Online = TRUE
  Fetch = {TRUE, FALSE}
  Timely = TRUE
  Commands = {"start", "stop", "next"}
  MaxFifo = 1
SYMMETRY Symmetry
INVARIANTS
  TypeOK
  OneChild
  StopClearsPids
CHECK_DEADLOCK FALSE
