--------------------------- MODULE MCWiredOffload ---------------------------
(* The constants of WiredOffload for TLC.                                  *)
EXTENDS WiredOffload

\* Both recordings took the same path on the camera, one after the other.
SamePath == [r \in Recordings |-> "100GOPRO/GX010001.MP4"]
\* The first two took the same path, the third has its own.
ReusedPath == [r \in Recordings |-> IF r = 3 THEN 3 ELSE 1]
OwnPath == [r \in Recordings |-> r]

OwnName == [r \in Recordings |-> r]
SharedName == [r \in Recordings |-> 1]

TwoChunks == [r \in Recordings |-> 2]
OneChunk == [r \in Recordings |-> 1]
=============================================================================
