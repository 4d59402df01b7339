\* Two objects on one CPU, each with one consuming thread that asks for every
\* bit, as the system call does; both threads and interrupts signal, create
\* and destroy.
SPECIFICATION Spec
CONSTANTS
  NSlot = 2
  NThread = 2
  Bit = {b1, b2}
  Masks = {{b1, b2}}
  GenMax = 7
  Lives = 3
  Serial = TRUE
  Solo = TRUE
INVARIANTS TypeOK StaleIdsDead FreeStackExact SleeperRecorded
PROPERTY WokenWithBits
\* Once every object that may be created is destroyed nothing is left to do.
CHECK_DEADLOCK FALSE
