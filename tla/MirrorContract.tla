--------------------------- MODULE MirrorContract ---------------------------
(***************************************************************************)
(* What mirroring promises of each file, with no queue, worker, process or *)
(* card path in it: a file that was accepted is stored at the destination  *)
(* before it is called mirrored, it is called mirrored once and for all,   *)
(* and the original is freed only then.  A file that was given up can only *)
(* be accepted again.                                                      *)
(***************************************************************************)
CONSTANT Files

VARIABLES
  outcome,  \* what is said of each file
  stored,   \* the files the destination holds
  freed     \* the files whose original is gone

vars == <<outcome, stored, freed>>

Init ==
  /\ outcome = [f \in Files |-> "none"]
  /\ stored = {}
  /\ freed = {}

Accept(f) ==
  /\ outcome[f] = "none"
  /\ outcome' = [outcome EXCEPT ![f] = "accepted"]
  /\ UNCHANGED <<stored, freed>>

\* A store takes effect before anyone hears of it, and may never be heard of.
Store(f) ==
  /\ outcome[f] = "accepted"
  /\ stored' = stored \cup {f}
  /\ UNCHANGED <<outcome, freed>>

Mirror(f) ==
  /\ outcome[f] = "accepted"
  /\ f \in stored
  /\ outcome' = [outcome EXCEPT ![f] = "mirrored"]
  /\ UNCHANGED <<stored, freed>>

GiveUp(f) ==
  /\ outcome[f] = "accepted"
  /\ outcome' = [outcome EXCEPT ![f] = "givenUp"]
  /\ UNCHANGED <<stored, freed>>

\* A retry takes every file that was given up.
Retry ==
  /\ outcome' = [f \in Files |-> IF outcome[f] = "givenUp" THEN "accepted"
                                                           ELSE outcome[f]]
  /\ UNCHANGED <<stored, freed>>

Free(f) ==
  /\ outcome[f] = "mirrored"
  /\ freed' = freed \cup {f}
  /\ UNCHANGED <<outcome, stored>>

Next ==
  \/ \E f \in Files : Accept(f) \/ Store(f) \/ Mirror(f) \/ GiveUp(f) \/ Free(f)
  \/ Retry

Spec == Init /\ [][Next]_vars
=============================================================================
