------------------------------ MODULE MCIngest ------------------------------
(* Ingest for TLC.  One camera, on the last network of the range; the      *)
(* machine is also on a container network, out of the range, and on a      *)
(* private one inside it, where nothing answers.                           *)
EXTENDS Ingest

Cameras1 == {<<172, 29, 130, 51>>}
Hosts1 == [c \in Cameras1 |-> [c EXCEPT ![4] = 57]]
Networks == {<<172, 17, 0, 1>>, <<172, 20, 8, 4>>}
=============================================================================
