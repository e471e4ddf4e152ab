SPECIFICATION FairCommandSpec
CONSTANTS
  Files = {f1}
  Procs = {p1, p2}
  Argvs <- Argvs1
  Texts <- Texts1
  EnvSecret = FALSE
  MaxCommands = 2
  MaxMishaps = 2
  MaxMounts = 1
  None = None
INVARIANTS
  CommandInv
PROPERTIES
  CleanExitIsClean
  OpensUnlessRaced
  CommandsEnd
\* Commands are bounded: when they are used up, nothing is left to do.
CHECK_DEADLOCK FALSE
