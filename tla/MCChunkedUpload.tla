--------------------------- MODULE MCChunkedUpload ---------------------------
(* The constants of ChunkedUpload for TLC.                                 *)
EXTENDS ChunkedUpload

\* Ledgers made anew: every job is the first row of its own.
FirstRow == [j \in Jobs |-> 1]
\* Below the threshold, and twice above it.
Sizes == [j \in Jobs |-> IF j = 1 THEN 1 ELSE j + 1]
=============================================================================
