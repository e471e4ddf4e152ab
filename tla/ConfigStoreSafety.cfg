SPECIFICATION Spec
CONSTANTS
  Callers = {w1}
  Passwords = {p1, p2}
  Env = NoPw
  EnvDest = FALSE
  Overlap = FALSE
  Events = {"diskError", "denied", "crash", "powerLoss"}
  MaxFaults = 2
  NoPw = NoPw
  Missing = Missing
  Torn = Torn
INVARIANTS
  StoreInv
PROPERTIES
  ReadersSeeWholeFiles
  PasswordKept
  OnlyHeldPasswordsUsed
  ResultsAreTrue
