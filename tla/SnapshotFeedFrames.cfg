SPECIFICATION Spec
CONSTANTS
  Jobs = {j1}
  FailedBefore = {}
  Concurrency = 1
  MaxFiles = 1
  MaxRuns = 1
  MaxFaults = 0
  MaxCommands = 1
  Events = {}
  None = None
PROPERTIES
  FramesInOrder
\* Paused, or with nothing left to do, the app waits for the user.
CHECK_DEADLOCK FALSE
