--------------------------- MODULE MCCommandLine ---------------------------
(* Command lines for TLC: each command, flags, a config named in every      *)
(* place, and the mistakes the parser is written for.                       *)
EXTENDS CommandLine

Argvs1 == {
  <<"offload", "CARD", "DEST", "--config", "toml">>,
  <<"--config", "toml", "--delete-after-verify", "--auto-eject", "offload", "CARD", "DEST">>,
  <<"watch", "DEST", "--config", "toml">>,
  <<"mirror", "DEST", "--config", "toml">>,
  <<"retry-cloud", "DEST">>,
  <<"mirror-status", "DEST">>,
  <<"--delete-after-verfy", "offload", "CARD", "DEST">>,
  <<"offload", "CARD", "--config", "DEST">>,
  <<"mirror", "DEST", "--config">>,
  <<"--version">>}

\* A text with the fields that differ.
Toml(mode, delete, eject) ==
  [valid |-> TRUE, mode |-> mode, delete |-> delete, eject |-> eject, url |-> TRUE, entry |-> TRUE]
Texts1 == {Toml("Auto", TRUE, FALSE), Toml("Auto", FALSE, TRUE), Toml("Manual", TRUE, TRUE),
           [Toml("Auto", FALSE, FALSE) EXCEPT !.entry = FALSE],
           [NoConf EXCEPT !.valid = FALSE]}

\* An offload that mirrors, and a mirror.
Argvs2 == {<<"offload", "CARD", "DEST", "--config", "toml">>, <<"mirror", "DEST", "--config", "toml">>}
Texts2 == {Toml("Auto", FALSE, FALSE)}
=============================================================================
