\* A three-byte buffer: calls longer than the buffer, exact fills, every wrap.
SPECIFICATION Spec
CONSTANTS
  Byte = {0, 1}
  Size = 3
  MaxLen = 4
INVARIANTS TypeOK Consistent
PROPERTY ImplementsFifo
