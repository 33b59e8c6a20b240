SPECIFICATION FairSpec
CONSTANTS
  Procs = {p1, p2}
  Values = {v1, v2}
  Zero = v1
  Killed = {p1, p2}
  Interrupted = {p1, p2}
INVARIANTS
  ExclusionUntilInterrupted
  LockIsFree
PROPERTIES
  CallReturns
  AtomicShmSpec
CHECK_DEADLOCK FALSE
