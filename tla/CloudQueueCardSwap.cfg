SPECIFICATION Spec
CONSTANTS
  Jobs = {1}
  Workers = {app}
  App = app
  Paths = {1, 2}
  RemotePath <- OwnPath
  Size <- SameSize
  CardJobs = {1}
  MaxConcurrency = 1
  MaxAttempts = 2
  DeleteAfterVerify = TRUE
  MaxDelay = 3
  MaxCrashes = 0
  Events = {"swap"}
  NULL = NULL
  NoWorker = NoWorker
  NoObject = NoObject
PROPERTY
  DeletesOnlyOriginals
CHECK_DEADLOCK FALSE
