\* Three threads on one CPU.  An owner that locks twice, and one that spins for a
\* mutex that is taken, stop the others for good, so the absence of a next step is
\* no error here.
SPECIFICATION Spec
CONSTANTS
  NThread = 3
  Serial = TRUE
INVARIANTS TypeOK MutualExclusion NoLostWaiter
CHECK_DEADLOCK FALSE
