---------------------------- MODULE MCCloudQueue ----------------------------
(* The constants of CloudQueue for TLC.                                    *)
EXTENDS CloudQueue

OwnPath == [j \in Jobs |-> j]
SameSize == [j \in Jobs |-> 1]
=============================================================================
