\* Two CPUs; one is idle while a thread exits on the other.
SPECIFICATION SmpSpec
CONSTANTS
  NCpu = 2
  NThread = 3
  MaxPrio = 1
  Slice = 1
  PreemptMax = 0
  Calls = {"create", "exit"}
  Reserve = 1
  NrMax = 6
  StackMayFail = FALSE
  Overflowing = {}
  NULL = NULL
  BOGUS = BOGUS
INVARIANT LiveStackKept
CHECK_DEADLOCK FALSE
