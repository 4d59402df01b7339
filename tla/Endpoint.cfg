\* One client on one CPU, in or out of the server's address space, slab buffers
\* that run out, an endpoint destroyed and created again.  Once the last one is
\* destroyed nothing is left to do.
SPECIFICATION Spec
CONSTANTS
  Client = {c1}
  Server = s
  Manager = m
  Msg = {x, y}
  None = None
  Temp = Temp
  AllocMayFail = TRUE
  Lives = 2
  Serial = TRUE
INVARIANTS TypeOK SleepersReachable RequestIntact 
CHECK_DEADLOCK FALSE
