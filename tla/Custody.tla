------------------------------ MODULE Custody ------------------------------
(***************************************************************************)
(* What an offload promises about the only copies of a recording, with no  *)
(* transfer, file name, ledger or run in it: the program may free the      *)
(* original only when a whole copy is held locally, and, where it promised *)
(* to wait for the mirror, only when the mirror has it as well.  Copies    *)
(* that were counted on stay.                                              *)
(***************************************************************************)
CONSTANT Files

VARIABLES
  original, \* the recordings still on the camera or card
  held,     \* the recordings the ledger calls imported, held whole
  mirrored, \* the recordings whose whole copy is at their remote path
  awaits,   \* the recordings whose original has to wait for the mirror
  freed     \* the recordings whose original the program removed

vars == <<original, held, mirrored, awaits, freed>>

Init ==
  /\ original = {}
  /\ held = {}
  /\ mirrored = {}
  /\ awaits = {}
  /\ freed = {}

\* The user records, and erases, as he likes.
Appear(f) ==
  /\ f \notin original
  /\ original' = original \cup {f}
  /\ UNCHANGED <<held, mirrored, awaits, freed>>

Erase(f) ==
  /\ original' = original \ {f}
  /\ UNCHANGED <<held, mirrored, awaits, freed>>

Import(f, waits) ==
  /\ f \in original
  /\ f \notin held
  /\ held' = held \cup {f}
  /\ awaits' = IF waits THEN awaits \cup {f} ELSE awaits
  /\ UNCHANGED <<original, mirrored, freed>>

\* An upload may displace other copies, but none that the program relied on.
Mirror(f, displaced) ==
  /\ f \in held
  /\ displaced \cap awaits \cap freed = {}
  /\ mirrored' = (mirrored \ displaced) \cup {f}
  /\ UNCHANGED <<original, held, awaits, freed>>

Free(f) ==
  /\ f \in original
  /\ f \in held
  /\ f \in awaits => f \in mirrored
  /\ original' = original \ {f}
  /\ freed' = freed \cup {f}
  /\ UNCHANGED <<held, mirrored, awaits>>

Next ==
  \E f \in Files :
    \/ Appear(f) \/ Erase(f) \/ Free(f)
    \/ \E waits \in BOOLEAN : Import(f, waits)
    \/ \E displaced \in SUBSET Files : Mirror(f, displaced)

Spec == Init /\ [][Next]_vars
=============================================================================
