---------------------------- MODULE MCConfigStore ---------------------------
(* ConfigStore for TLC; the configurations give every constant its value.  *)
EXTENDS ConfigStore
=============================================================================
