SPECIFICATION Spec
CONSTANTS
  Recordings = {1, 2, 3}
  CardPath <- ReusedPath
  Names = {1, 2, 3}
  Name <- OwnName
  Size <- TwoChunks
  MaxSize = 2
  MaxAttempts = 2
  MaxOffline = 2
  Modes = {"Auto", "Manual"}
  Verify = TRUE
  Events = {"cut"}
  MaxFaults = 1
  Junk = Junk
  NoDest = NoDest
INVARIANTS
  TypeOK
  ImportedIsAuthentic
  ClearedMeansGone
PROPERTIES
  KeepsCustody
