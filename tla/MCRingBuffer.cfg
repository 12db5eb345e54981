CONSTANTS
  Byte <- MCByte
  Zero = 0
  Capacity = 5
  Chunk <- MCChunk
SPECIFICATION Spec
CHECK_DEADLOCK TRUE
INVARIANT TypeOK
PROPERTY ImplementsScrollback
