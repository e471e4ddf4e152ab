--------------------------- MODULE MCSnapshotFeed ---------------------------
(***************************************************************************)
(* SnapshotFeed for TLC; the configurations give every constant its value. *)
(* The view merges states that the properties of the safety run, and the   *)
(* steps, cannot tell apart: of the frames it keeps their order and        *)
(* whether they are the snapshot, of the window what a call of get_state   *)
(* read before the first event.                                            *)
(***************************************************************************)
EXTENDS SnapshotFeed

InHand == {t \in Threads : out[t].at # "free"}
Numbers == {last, sent.seq, st.seq} \cup {out[t].frame.seq : t \in InHand}
Rank(seq) == Cardinality({n \in Numbers : n < seq})

InOrder ==
  <<[st EXCEPT !.seq = Min({@, 1})],
    [t \in InHand |-> <<out[t].at, Rank(out[t].frame.seq), out[t].frame = st>>],
    Rank(last), Rank(sent.seq), Rank(st.seq), sent = st,
    IF st.seq = 0 THEN ui ELSE None, driver, phase, drain, task, chan, paused,
    configured, cmd, crossed, unreported, outcome, count>>
=============================================================================
