\* One CPU, three threads besides idle, every system call, ticks and
\* sleepers, and stack allocations that fail.
SPECIFICATION Spec
CONSTANTS
  NCpu = 1
  NThread = 4
  MaxPrio = 1
  Slice = 2
  PreemptMax = 1
  Calls = {"create", "exit", "block", "sleep", "suspend", "setprio", "yield"}
  Reserve = 1
  NrMax = 6
  StackMayFail = TRUE
  Overflowing = {}
  NULL = NULL
  BOGUS = BOGUS
INVARIANTS TypeOK ReadyIffQueued IndexExact OneRunner LiveStackKept NoStaleRequest
PROPERTIES PreemptHeld TickPreempts
