SPECIFICATION Spec
CONSTANTS
  MaxChunk = 2
  MaxPackets = 2
  MaxParts = 3
  MaxRecs = 1
  MaxOpens = 1
  MaxJumps = 1
INVARIANTS PartsPartition ReadsWritten NewsNotMissed
PROPERTIES AbortEnds
CHECK_DEADLOCK FALSE
