\* Two clients on one CPU and a slab that never runs out.
SPECIFICATION Spec
CONSTANTS
  Client = {c1, c2}
  Server = s
  Manager = m
  Msg = {x, y}
  None = None
  Temp = Temp
  AllocMayFail = FALSE
  Lives = 2
  Serial = TRUE
INVARIANT DestroyReleasesAll
CHECK_DEADLOCK FALSE
