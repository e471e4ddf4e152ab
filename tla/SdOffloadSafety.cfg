SPECIFICATION Spec
CONSTANTS
  Recordings = {1, 2, 3}
  Names = {1, 2}
  Name <- PairedName
  Size <- SameSize
  Modes = {"Auto", "Off"}
  Verifies = {TRUE}
  AutoEject = TRUE
  Events = {"badWrite", "diskError"}
  MaxFaults = 1
  NoDest = NoDest
  NoFile = NoFile
INVARIANTS
  TypeOK
  ImportedIsHeld
  NoNeedlessSuffix
PROPERTIES
  KeepsCustody
