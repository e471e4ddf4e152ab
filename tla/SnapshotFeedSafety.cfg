SPECIFICATION Spec
CONSTANTS
  Jobs = {j1, j2}
  FailedBefore = {j1}
  Concurrency = 2
  MaxFiles = 2
  MaxRuns = 1
  MaxFaults = 1
  MaxCommands = 1
  Events = {"runFails", "copyFails", "uploadFails", "ledgerFails", "reconfigure"}
  None = None
VIEW InOrder
INVARIANTS
  FeedInv
  NewestIsSent
  RunIsTheOffloads
  BadgesMissOnlyCrossed
PROPERTIES
  OnlyNewerPass
\* Paused, or with nothing left to do, the app waits for the user.
CHECK_DEADLOCK FALSE
