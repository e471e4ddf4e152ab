SPECIFICATION FairSpec
CONSTANTS
  Cameras <- Cameras1
  Host <- Hosts1
  OtherHosts <- Networks
  Mounts = {v1}
  Cards = {v1}
  MaxRearms = 2
  Events = {"runFails", "localError", "infoFails"}
  MaxPlugs = 2
  MaxToggles = 1
  None = None
INVARIANTS
  IngestInv
  OneOffloadAtATime
PROPERTIES
  CameraIsServed
  CardIsServed
\* With nothing plugged in and wired ingest off, everything waits for the user.
CHECK_DEADLOCK FALSE
