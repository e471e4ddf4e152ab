SPECIFICATION FairSpec
CONSTANTS
  Jobs = {1, 2}
  Workers = {app, cli}
  App = app
  Paths = {1, 2}
  RemotePath <- OwnPath
  Size <- SameSize
  CardJobs = {1}
  MaxConcurrency = 2
  MaxAttempts = 2
  DeleteAfterVerify = TRUE
  MaxDelay = 3
  MaxCrashes = 1
  Events = {"retry", "swap", "deleteFails"}
  NULL = NULL
  NoWorker = NoWorker
  NoObject = NoObject
INVARIANTS
  TypeOK
  OneUploaderPerJob
  NoStrandedUpload
PROPERTIES
  KeepsContract
  PendingSettles
