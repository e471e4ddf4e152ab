---------------------------- MODULE MCSdOffload ----------------------------
(* The constants of SdOffload for TLC.                                     *)
EXTENDS SdOffload

OwnName == [r \in Recordings |-> r]
\* The first two share a name, the third has its own.
PairedName == [r \in Recordings |-> IF r = 3 THEN 2 ELSE 1]
SharedName == [r \in Recordings |-> 1]
SameSize == [r \in Recordings |-> 1]
=============================================================================
