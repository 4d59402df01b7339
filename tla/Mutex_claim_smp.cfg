\* Two threads on two CPUs.
SPECIFICATION SmpSpec
CONSTANTS
  NThread = 2
  Serial = FALSE
INVARIANT MutualExclusion
CHECK_DEADLOCK FALSE
