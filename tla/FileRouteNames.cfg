SPECIFICATION RouteSpec
CONSTANTS
  Files = {1, 2, 3, 4, 5, 6, 7, 8}
  Cards = {"a", "b"}
  OnCard <- OnCard1
  Folder <- Folder1
  Name <- Name1
  Taken <- Taken1
  Modified <- Modified1
  Version <- Version1
  Settings <- Settings1
  Strangers <- Strangers1
  MaxEdits = 1
  None = None
  Malformed = Malformed
INVARIANTS
  RouteInv
  NothingIsForgotten
  ObjectIsItsFile
CHECK_DEADLOCK FALSE
