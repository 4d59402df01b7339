\* One client on one CPU and a slab that never runs out.
SPECIFICATION Spec
CONSTANTS
  Client = {c1}
  Server = s
  Manager = m
  Msg = {x, y}
  None = None
  Temp = Temp
  AllocMayFail = FALSE
  Lives = 2
  Serial = TRUE
INVARIANT ReplyDelivered
CHECK_DEADLOCK FALSE
