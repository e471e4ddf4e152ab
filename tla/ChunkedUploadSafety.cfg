SPECIFICATION Spec
CONSTANTS
  Jobs = {1, 2, 3}
  JobId <- FirstRow
  Total <- Sizes
  CHUNK_SIZE = 1
  MAX_CHUNKS = 2
  Threshold = 2
  Events = {"late", "torn", "expire", "unmount"}
  MaxFaults = 1
  NoObject = NoObject
  NoChunk = NoChunk
  NoDir = NoDir
  Mixed = Mixed
INVARIANTS
  TypeOK
  ObjectIsWhole
PROPERTIES
  MirroredIsStored
  RefusalHasCause
