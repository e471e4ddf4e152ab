SPECIFICATION FairSpec
CONSTANTS
  Recordings = {1, 2}
  CardPath <- OwnPath
  Names = {1}
  Name <- SharedName
  Size <- TwoChunks
  MaxSize = 2
  MaxAttempts = 2
  MaxOffline = 1
  Modes = {"Off"}
  Verify = TRUE
  Events = {"cut", "badEntry", "badWrite", "powerLoss", "diskError"}
  MaxFaults = 1
  Junk = Junk
  NoDest = NoDest
INVARIANTS
  FinishedByCamera
PROPERTIES
  RunEnds
