------------------------- MODULE SnapshotFeedProofs -------------------------
(***************************************************************************)
(* Proofs about SnapshotFeed, for any number of jobs, files, offloads,     *)
(* faults and commands, and for every interleaving of the threads: what    *)
(* the guard of emit_state lets pass is newer than all that passed before, *)
(* and the snapshot is emitted in the end; the snapshot shows the run of   *)
(* the offload and an upload that is one; and its badges hide no more work *)
(* than the events that crossed the counts of a command.                   *)
(***************************************************************************)
EXTENDS SnapshotFeed, CountingProofs

-----------------------------------------------------------------------------
(* The inductive invariant.                                                *)

Fields == {"status", "run", "pending", "failed", "paused", "configured", "uploading", "seq"}

Box(at, frame) == [at |-> at, frame |-> frame]
Numbered(frame) == frame.seq \in Nat \ {0} /\ frame.seq <= st.seq

Shape ==
  /\ DOMAIN st = Fields /\ st.seq \in Nat
  /\ out = [t \in Threads |-> out[t]]
  /\ \A t \in Threads : /\ out[t] = Box(out[t].at, out[t].frame)
                        /\ out[t].at \in {"free", "guard", "emit"}
  /\ ui = [frame |-> ui.frame, seen |-> ui.seen, hydrate |-> ui.hydrate, copy |-> ui.copy]
  /\ last \in Nat /\ last <= st.seq
  /\ sent.seq \in Nat /\ sent.seq <= last
  /\ "what" \in DOMAIN cmd /\ cmd.what \in {"pause", "resume", "retry", "save", None}

\* What is in hand has a number, and what is past the guard has raised it.
InHand ==
  /\ \A t \in Threads : ~Free(t) => Numbered(out[t].frame)
  /\ \A t \in Threads : out[t].at = "emit" => out[t].frame.seq <= last
  /\ ui.seen => Numbered(ui.frame)

\* The frame of the newest number is the snapshot; it waits, is on its way, or was sent.
NewestIsSnapshot ==
  /\ \A t \in Threads : ~Free(t) /\ out[t].frame.seq = st.seq => out[t].frame = st
  /\ last < st.seq => \E t \in Threads : out[t].at = "guard" /\ out[t].frame.seq = st.seq
  /\ last = st.seq /\ last # 0
       => sent = st \/ \E t \in Threads : out[t].at = "emit" /\ out[t].frame.seq = st.seq
  /\ sent.seq = st.seq /\ st.seq # 0 => sent = st

\* Before the first event, what hydrate brings is the snapshot.
HydratesFirst ==
  st.seq = 0 =>
    /\ ui.hydrate = "cloned" => ui.copy = st
    /\ ui.hydrate = "done" => Shown(ui.frame) = Shown(st)

FeedOrder == Shape /\ InHand /\ NewestIsSnapshot /\ HydratesFirst

-----------------------------------------------------------------------------
(* What a step does to the feed.                                           *)

FeedRests == UNCHANGED <<st, out, last, ui, sent>>
NonePasses == \A t \in Threads : out'[t].at = "emit" => out[t].at = "emit"

\* The larger of two numbers, as the guard's fetch_max computes it.
LEMMA MaxOfTwo ==
  ASSUME NEW m \in Nat, NEW n \in Nat
  PROVE  Max({m, n}) = IF m < n THEN n ELSE m
<1> DEFINE top == IF m < n THEN n ELSE m
<1>1. top \in {m, n} /\ \A y \in {m, n} : top >= y
  OBVIOUS
<1>2. \A x \in {m, n} : (\A y \in {m, n} : x >= y) => x = top
  OBVIOUS
<1>3. \E x \in {m, n} : \A y \in {m, n} : x >= y
  BY <1>1
<1> QED
  BY <1>2, <1>3 DEF Max

\* A reducer gives every field of the snapshot a value, and no other.
LEMMA ReducersKeepFields ==
  ASSUME NEW s, DOMAIN s = Fields
  PROVE  /\ DOMAIN CardDetected(s) = Fields
         /\ \A n : DOMAIN Scanned(s, n) = Fields
         /\ \A n : DOMAIN Copying(s, n) = Fields
         /\ \A n : DOMAIN Progress(s, n) = Fields
         /\ DOMAIN Verified(s) = Fields
         /\ DOMAIN FileFailed(s) = Fields
         /\ \A n : DOMAIN RunComplete(s, n) = Fields
         /\ DOMAIN RunError(s) = Fields
         /\ DOMAIN CloudQueued(s) = Fields
         /\ DOMAIN Noted(s) = Fields
         /\ \A j : DOMAIN Uploading(s, j) = Fields
         /\ \A j : DOMAIN Mirrored(s, j) = Fields
         /\ \A j : DOMAIN CloudFailed(s, j) = Fields
<1>1. \A n : DOMAIN Scanned(s, n) = Fields /\ DOMAIN Copying(s, n) = Fields
             /\ DOMAIN Progress(s, n) = Fields /\ DOMAIN RunComplete(s, n) = Fields
  BY DEF Scanned, Copying, Progress, RunComplete
<1>2. \A j : DOMAIN Uploading(s, j) = Fields /\ DOMAIN Mirrored(s, j) = Fields
             /\ DOMAIN CloudFailed(s, j) = Fields
  BY DEF Uploading, Mirrored, CloudFailed
<1>3. DOMAIN CardDetected(s) = Fields /\ DOMAIN Verified(s) = Fields /\ DOMAIN FileFailed(s) = Fields
      /\ DOMAIN RunError(s) = Fields /\ DOMAIN CloudQueued(s) = Fields /\ DOMAIN Noted(s) = Fields
  BY DEF CardDetected, Verified, FileFailed, RunError, CloudQueued, Noted
<1> QED
  BY <1>1, <1>2, <1>3

\* A fold leaves its thread with the snapshot it made, under a number of its own.
LEMMA FoldKeepsOrder ==
  ASSUME FeedOrder, NEW t \in Threads, NEW s, DOMAIN s = Fields, Fold(t, s),
         "what" \in DOMAIN cmd', cmd'.what \in {"pause", "resume", "retry", "save", None}
  PROVE  FeedOrder' /\ NonePasses
<1>1. /\ st' = [s EXCEPT !.seq = st.seq + 1]
      /\ st'.seq = st.seq + 1 /\ DOMAIN st' = Fields
      /\ st'.seq \in Nat \ {0}
  BY DEF Fold, Fields, FeedOrder, Shape
<1>2. /\ out' = [out EXCEPT ![t] = Box("guard", st')]
      /\ last' = last /\ ui' = ui /\ sent' = sent
      /\ out[t].at = "free"
  BY DEF Fold, Box, feed
<1>3. /\ out'[t] = Box("guard", st')
      /\ \A u \in Threads \ {t} : out'[u] = out[u]
      /\ out' = [u \in Threads |-> out'[u]]
  BY <1>2 DEF FeedOrder, Shape
<1>4. out'[t].at = "guard" /\ out'[t].frame = st' /\ out'[t].frame.seq = st.seq + 1
  <2>1. out'[t] = [at |-> "guard", frame |-> st']
    BY <1>3 DEF Box
  <2>2. out'[t].at = "guard" /\ out'[t].frame = st'
    BY <2>1
  <2> QED
    BY <2>2, <1>1
<1>5. \A u \in Threads : out'[u] = Box(out'[u].at, out'[u].frame)
                         /\ out'[u].at \in {"free", "guard", "emit"}
  BY <1>3, <1>4 DEF FeedOrder, Shape, Box
<1>6. Shape'
  BY <1>1, <1>2, <1>3, <1>5 DEF FeedOrder, Shape
<1>7. \A u \in Threads : ~Free(u)' => Numbered(out[u].frame)'
  <2> TAKE u \in Threads
  <2>1. CASE u = t
    BY <2>1, <1>1, <1>4 DEF Numbered
  <2>2. CASE u # t
    BY <2>2, <1>1, <1>3 DEF FeedOrder, Shape, InHand, Numbered, Free
  <2> QED
    BY <2>1, <2>2
<1>8. InHand'
  BY <1>1, <1>2, <1>3, <1>4, <1>7 DEF FeedOrder, Shape, InHand, Numbered
<1>9. NewestIsSnapshot'
  <2>1. \A u \in Threads : ~Free(u)' /\ out'[u].frame.seq = st'.seq => out'[u].frame = st'
    BY <1>1, <1>3, <1>4 DEF FeedOrder, Shape, InHand, Numbered, Free
  <2>2. last' # st'.seq /\ sent'.seq # st'.seq
    BY <1>1, <1>2 DEF FeedOrder, Shape
  <2> QED
    BY <2>1, <2>2, <1>1, <1>4 DEF NewestIsSnapshot
<1>10. HydratesFirst'
  BY <1>1 DEF HydratesFirst
<1>11. NonePasses
  BY <1>3, <1>4 DEF NonePasses
<1> QED
  BY <1>6, <1>8, <1>9, <1>10, <1>11 DEF FeedOrder

\* The guard: a frame newer than any that has passed passes, another is dropped.
LEMMA GuardKeepsOrder ==
  ASSUME FeedOrder, NEW t \in Threads, ShouldEmit(t)
  PROVE  /\ FeedOrder'
         /\ out'[t].at = "emit" => last < out[t].frame.seq
         /\ \A u \in Threads \ {t} : out'[u] = out[u]
<1> DEFINE passes == last < out[t].frame.seq
<1>1. /\ out[t].at = "guard"
      /\ UNCHANGED <<st, ui, sent, cmd>>
  BY DEF ShouldEmit
<1>2. out[t].frame.seq \in Nat \ {0} /\ out[t].frame.seq <= st.seq
  BY <1>1 DEF FeedOrder, InHand, Numbered, Free
<1>3. last' = IF passes THEN out[t].frame.seq ELSE last
  BY <1>2, MaxOfTwo DEF ShouldEmit, FeedOrder, Shape
<1>4. /\ out'[t] = IF passes THEN Box("emit", out[t].frame) ELSE Box("free", None)
      /\ \A u \in Threads \ {t} : out'[u] = out[u]
      /\ out' = [u \in Threads |-> out'[u]]
  <2>1. [out[t] EXCEPT !.at = "emit"] = Box("emit", out[t].frame)
    BY DEF FeedOrder, Shape, Box
  <2>2. out' = [out EXCEPT ![t] = IF passes THEN Box("emit", out[t].frame) ELSE Box("free", None)]
    BY <2>1 DEF ShouldEmit, Box
  <2> QED
    BY <2>2 DEF FeedOrder, Shape
<1>5. /\ passes => out'[t].at = "emit" /\ out'[t].frame = out[t].frame
      /\ ~passes => out'[t].at = "free"
  BY <1>4 DEF Box
<1>6. last \in Nat /\ last' \in Nat /\ last <= last' /\ last' <= st.seq
  BY <1>2, <1>3 DEF FeedOrder, Shape
<1>7. Shape'
  <2>1. \A u \in Threads : out'[u] = Box(out'[u].at, out'[u].frame)
                           /\ out'[u].at \in {"free", "guard", "emit"}
    BY <1>4 DEF FeedOrder, Shape, Box
  <2> QED
    BY <2>1, <1>1, <1>4, <1>6 DEF FeedOrder, Shape
<1>8. InHand'
  <2>1. \A u \in Threads : ~Free(u)' => Numbered(out[u].frame)'
    BY <1>1, <1>4, <1>5 DEF FeedOrder, InHand, Numbered, Free
  <2>2. \A u \in Threads : out'[u].at = "emit" => out'[u].frame.seq <= last'
    <3> SUFFICES ASSUME NEW u \in Threads, out'[u].at = "emit"
                 PROVE  out'[u].frame.seq <= last'
      OBVIOUS
    <3>1. CASE u = t
      BY <3>1, <1>2, <1>3, <1>5
    <3>2. CASE u # t
      <4>1. out'[u] = out[u] /\ out[u].frame.seq \in Nat /\ out[u].frame.seq <= last
        BY <3>2, <1>4 DEF FeedOrder, InHand, Numbered, Free
      <4> QED
        BY <4>1, <1>6
    <3> QED
      BY <3>1, <3>2
  <2>3. ui.seen => Numbered(ui.frame)'
    BY <1>1 DEF FeedOrder, InHand, Numbered
  <2> QED
    BY <2>1, <2>2, <2>3, <1>1 DEF InHand
<1>9. NewestIsSnapshot'
  <2>1. \A u \in Threads : ~Free(u)' /\ out'[u].frame.seq = st'.seq => out'[u].frame = st'
    BY <1>1, <1>4, <1>5 DEF FeedOrder, NewestIsSnapshot, Free
  <2>2. ASSUME last' < st'.seq
        PROVE  \E u \in Threads : out'[u].at = "guard" /\ out'[u].frame.seq = st'.seq
    <3>1. last < st.seq
      BY <2>2, <1>1, <1>2, <1>6 DEF FeedOrder, Shape
    <3>2. PICK u \in Threads : out[u].at = "guard" /\ out[u].frame.seq = st.seq
      BY <3>1 DEF FeedOrder, NewestIsSnapshot
    <3>3. u # t
      BY <3>1, <3>2, <2>2, <1>1, <1>3 DEF FeedOrder, Shape
    <3> QED
      BY <3>2, <3>3, <1>1, <1>4
  <2>3. ASSUME last' = st'.seq, last' # 0
        PROVE  sent' = st' \/ \E u \in Threads : out'[u].at = "emit" /\ out'[u].frame.seq = st'.seq
    <3>1. CASE passes
      BY <3>1, <2>3, <1>1, <1>3, <1>5
    <3>2. CASE ~passes
      <4>1. sent = st \/ \E u \in Threads : out[u].at = "emit" /\ out[u].frame.seq = st.seq
        BY <3>2, <2>3, <1>1, <1>3 DEF FeedOrder, NewestIsSnapshot
      <4> QED
        BY <4>1, <1>1, <1>4
    <3> QED
      BY <3>1, <3>2
  <2> QED
    BY <2>1, <2>2, <2>3, <1>1 DEF FeedOrder, NewestIsSnapshot
<1>10. HydratesFirst'
  BY <1>1 DEF FeedOrder, HydratesFirst, Shown
<1> QED
  BY <1>4, <1>5, <1>7, <1>8, <1>9, <1>10 DEF FeedOrder

\* The emission: what was on its way is shown, and is the newest sent unless it comes late.
LEMMA EmitKeepsOrder ==
  ASSUME FeedOrder, NEW t \in Threads, Emit(t)
  PROVE  FeedOrder'
<1>1. /\ out[t].at = "emit" /\ Numbered(out[t].frame) /\ out[t].frame.seq <= last
      /\ UNCHANGED <<st, last, cmd>>
  BY DEF Emit, FeedOrder, InHand, Free
<1>2. /\ ui'.frame = out[t].frame /\ ui'.seen = TRUE
      /\ ui' = [frame |-> ui'.frame, seen |-> ui'.seen, hydrate |-> ui'.hydrate, copy |-> ui'.copy]
  BY DEF Emit, FeedOrder, Shape
<1>3. /\ out'[t] = Box("free", None)
      /\ \A u \in Threads \ {t} : out'[u] = out[u]
      /\ out' = [u \in Threads |-> out'[u]]
  BY DEF Emit, FeedOrder, Shape, Box
<1>4. out'[t].at = "free"
  BY <1>3 DEF Box
<1>5. /\ sent' = IF sent.seq < out[t].frame.seq THEN out[t].frame ELSE sent
      /\ sent'.seq \in Nat /\ sent'.seq <= last
  BY <1>1 DEF Emit, FeedOrder, Shape, Numbered
<1>6. Shape'
  <2>1. \A u \in Threads : out'[u] = Box(out'[u].at, out'[u].frame)
                           /\ out'[u].at \in {"free", "guard", "emit"}
    BY <1>3 DEF FeedOrder, Shape, Box
  <2> QED
    BY <2>1, <1>1, <1>2, <1>3, <1>5 DEF FeedOrder, Shape
<1>7. InHand'
  <2>1. \A u \in Threads : ~Free(u)' => Numbered(out[u].frame)'
    BY <1>1, <1>3, <1>4 DEF FeedOrder, InHand, Numbered, Free
  <2>2. \A u \in Threads : out'[u].at = "emit" => out'[u].frame.seq <= last'
    BY <1>1, <1>3, <1>4 DEF FeedOrder, InHand
  <2>3. Numbered(ui.frame)'
    BY <1>1, <1>2 DEF Numbered
  <2> QED
    BY <2>1, <2>2, <2>3 DEF InHand
<1>8. NewestIsSnapshot'
  <2>1. \A u \in Threads : ~Free(u)' /\ out'[u].frame.seq = st'.seq => out'[u].frame = st'
    BY <1>1, <1>3, <1>4 DEF FeedOrder, NewestIsSnapshot, Free
  <2>2. ASSUME last' < st'.seq
        PROVE  \E u \in Threads : out'[u].at = "guard" /\ out'[u].frame.seq = st'.seq
    <3>1. PICK u \in Threads : out[u].at = "guard" /\ out[u].frame.seq = st.seq
      BY <2>2, <1>1 DEF FeedOrder, NewestIsSnapshot
    <3>2. u # t
      BY <3>1, <1>1
    <3> QED
      BY <3>1, <3>2, <1>1, <1>3
  <2>3. sent'.seq = st'.seq /\ st'.seq # 0 => sent' = st'
    BY <1>1, <1>5 DEF FeedOrder, NewestIsSnapshot, Free
  <2>4. ASSUME last' = st'.seq, last' # 0
        PROVE  sent' = st' \/ \E u \in Threads : out'[u].at = "emit" /\ out'[u].frame.seq = st'.seq
    <3>1. sent = st \/ \E u \in Threads : out[u].at = "emit" /\ out[u].frame.seq = st.seq
      BY <2>4, <1>1 DEF FeedOrder, NewestIsSnapshot
    <3>2. CASE sent = st
      BY <3>2, <1>1, <1>5 DEF Numbered, FeedOrder, Shape
    <3>3. ASSUME NEW u \in Threads, out[u].at = "emit", out[u].frame.seq = st.seq
          PROVE  sent' = st' \/ \E v \in Threads : out'[v].at = "emit" /\ out'[v].frame.seq = st'.seq
      <4>1. CASE u = t
        <5>1. sent'.seq = st'.seq
          BY <4>1, <3>3, <1>1, <1>5 DEF FeedOrder, Shape
        <5> QED
          BY <5>1, <2>3, <2>4, <1>1
      <4>2. CASE u # t
        BY <4>2, <3>3, <1>1, <1>3
      <4> QED
        BY <4>1, <4>2
    <3> QED
      BY <3>1, <3>2, <3>3
  <2> QED
    BY <2>1, <2>2, <2>3, <2>4 DEF NewestIsSnapshot
<1>9. HydratesFirst'
  BY <1>1 DEF HydratesFirst, Numbered
<1> QED
  BY <1>6, <1>7, <1>8, <1>9 DEF FeedOrder

\* The window's own call changes what it shows only as long as no frame has come.
LEMMA WindowKeepsOrder ==
  ASSUME FeedOrder, Window
  PROVE  FeedOrder'
<1>1. UNCHANGED <<st, out, last, sent, cmd>>
  BY DEF Window, GetState, Hydrate
<1>2. /\ ui' = [frame |-> ui'.frame, seen |-> ui'.seen, hydrate |-> ui'.hydrate, copy |-> ui'.copy]
      /\ ui'.seen = ui.seen
      /\ ui.seen => ui'.frame = ui.frame
  BY DEF Window, GetState, Hydrate, FeedOrder, Shape
<1>3. Shape'
  BY <1>1, <1>2 DEF FeedOrder, Shape
<1>4. InHand'
  BY <1>1, <1>2 DEF FeedOrder, InHand, Numbered, Free
<1>5. NewestIsSnapshot'
  BY <1>1, <1>2 DEF FeedOrder, NewestIsSnapshot, Free
<1>6. HydratesFirst'
  <2> SUFFICES ASSUME st.seq = 0
               PROVE  /\ ui'.hydrate = "cloned" => ui'.copy = st
                      /\ ui'.hydrate = "done" => Shown(ui'.frame) = Shown(st)
    BY <1>1 DEF HydratesFirst, Shown
  <2>1. CASE GetState
    BY <2>1 DEF GetState, FeedOrder, Shape
  <2>2. CASE Hydrate
    <3> DEFINE answer == [ui.copy EXCEPT !.pending = Pending, !.failed = Failed]
    <3>1. ui.copy = st /\ ~ui.seen
      BY <2>2 DEF Hydrate, FeedOrder, HydratesFirst, InHand, Numbered, Shape
    <3>2. ui'.frame = answer /\ ui'.hydrate = "done"
      BY <3>1, <2>2 DEF Hydrate, FeedOrder, Shape
    <3>3. Shown(answer) = Shown(st)
      BY <3>1 DEF FeedOrder, Shape, Fields, Shown
    <3> QED
      BY <3>2, <3>3
  <2> QED
    BY <2>1, <2>2 DEF Window
<1> QED
  BY <1>3, <1>4, <1>5, <1>6 DEF FeedOrder

\* A step that leaves the frames alone keeps their order.
LEMMA RestKeepsOrder ==
  ASSUME FeedOrder, FeedRests,
         "what" \in DOMAIN cmd', cmd'.what \in {"pause", "resume", "retry", "save", None}
  PROVE  FeedOrder' /\ NonePasses
<1>1. Shape'
  BY DEF FeedRests, FeedOrder, Shape
<1>2. InHand'
  BY DEF FeedRests, FeedOrder, InHand, Numbered, Free
<1>3. NewestIsSnapshot'
  BY DEF FeedRests, FeedOrder, NewestIsSnapshot, Free
<1>4. HydratesFirst'
  BY DEF FeedRests, FeedOrder, HydratesFirst, Shown
<1> QED
  BY <1>1, <1>2, <1>3, <1>4 DEF FeedOrder, FeedRests, NonePasses

-----------------------------------------------------------------------------
(* Every step of Next is one of these.                                     *)

\* An offload folds one event at a time, or none.
LEMMA OffloadKeepsOrder ==
  ASSUME FeedOrder, Offload
  PROVE  FeedOrder' /\ NonePasses
<1>1. "driver" \in Threads /\ DOMAIN st = Fields
  BY DEF Threads, FeedOrder, Shape
<1>2. UNCHANGED cmd
  BY DEF Offload, Begin, NeverBegins, Scan, NoRoom, Abort, Adopt, Copy, HalfWay, CopyFails, Land,
         Verify, CommitWired, Queue, FreeCard, Complete, Eject
<1>3. FeedRests \/ \E s : DOMAIN s = Fields /\ Fold("driver", s)
  <2>1. CASE Begin \/ NeverBegins \/ Scan \/ NoRoom
    BY <2>1, <1>1, ReducersKeepFields DEF Begin, NeverBegins, Scan, NoRoom
  <2>2. CASE Abort \/ Copy \/ HalfWay \/ CopyFails
    BY <2>2, <1>1, ReducersKeepFields DEF Abort, Copy, HalfWay, CopyFails
  <2>3. CASE Land \/ Verify \/ FreeCard \/ Complete
    BY <2>3, <1>1, ReducersKeepFields DEF Land, Verify, FreeCard, Complete
  <2>4. CASE Queue \/ Eject
    BY <2>4, <1>1, ReducersKeepFields DEF Queue, Eject, FeedRests, feed
  <2>5. CASE Adopt \/ CommitWired
    BY <2>5 DEF Adopt, CommitWired, FeedRests, feed
  <2> QED
    BY <2>1, <2>2, <2>3, <2>4, <2>5 DEF Offload
<1>4. "what" \in DOMAIN cmd' /\ cmd'.what \in {"pause", "resume", "retry", "save", None}
  BY <1>2 DEF FeedOrder, Shape
<1>5. CASE FeedRests
  BY <1>4, <1>5, RestKeepsOrder
<1>6. ASSUME NEW s, DOMAIN s = Fields, Fold("driver", s)
      PROVE  FeedOrder' /\ NonePasses
  BY <1>1, <1>4, <1>6, FoldKeepsOrder
<1> QED
  BY <1>3, <1>5, <1>6

\* So does the loop that drains the queue.
LEMMA MirrorLoopKeepsOrder ==
  ASSUME FeedOrder, MirrorLoop
  PROVE  FeedOrder' /\ NonePasses
<1>1. "cloud" \in Threads /\ DOMAIN st = Fields
  BY DEF Threads, FeedOrder, Shape
<1>2. UNCHANGED cmd
  BY DEF MirrorLoop, Tick, Claim, Drained, Announce, Report, FreeSource, EndPass, DrainFails, RetryDue,
         StartUpload, Join, Stamp
<1>3. FeedRests \/ \E s : DOMAIN s = Fields /\ Fold("cloud", s)
  <2>1. CASE Announce \/ Report \/ FreeSource
    BY <2>1, <1>1, ReducersKeepFields DEF Announce, Report, FreeSource
  <2>2. CASE Tick \/ Claim \/ Drained \/ EndPass \/ DrainFails
    BY <2>2 DEF Tick, Claim, Drained, EndPass, DrainFails, FeedRests, feed
  <2>3. CASE \E j \in Jobs : RetryDue(j) \/ StartUpload(j) \/ Join(j)
    BY <2>3 DEF RetryDue, StartUpload, Join, Stamp, FeedRests, feed
  <2> QED
    BY <2>1, <2>2, <2>3 DEF MirrorLoop
<1>4. "what" \in DOMAIN cmd' /\ cmd'.what \in {"pause", "resume", "retry", "save", None}
  BY <1>2 DEF FeedOrder, Shape
<1>5. CASE FeedRests
  BY <1>4, <1>5, RestKeepsOrder
<1>6. ASSUME NEW s, DOMAIN s = Fields, Fold("cloud", s)
      PROVE  FeedOrder' /\ NonePasses
  BY <1>1, <1>4, <1>6, FoldKeepsOrder
<1> QED
  BY <1>3, <1>5, <1>6

\* A command folds its answer, and nothing before it.
LEMMA CommandsKeepOrder ==
  ASSUME FeedOrder, Commands
  PROVE  FeedOrder' /\ NonePasses
<1>1. "command" \in Threads /\ DOMAIN st = Fields
  BY DEF Threads, FeedOrder, Shape
<1>2. CASE \E p \in BOOLEAN : SetPaused(p)
  <2>1. FeedRests
    BY <1>2 DEF SetPaused, FeedRests, feed
  <2>2. "what" \in DOMAIN cmd' /\ cmd'.what \in {"pause", "resume", "retry", "save", None}
    BY <1>2 DEF SetPaused, FeedOrder, Shape
  <2> QED
    BY <2>1, <2>2, RestKeepsOrder
<1>3. CASE RetryFailed \/ SaveConfig
  <2>1. FeedRests
    BY <1>3 DEF RetryFailed, SaveConfig, FeedRests, feed
  <2>2. "what" \in DOMAIN cmd' /\ cmd'.what \in {"pause", "resume", "retry", "save", None}
    BY <1>3 DEF RetryFailed, SaveConfig, Count, Counts
  <2> QED
    BY <2>1, <2>2, RestKeepsOrder
<1>4. CASE Answer
  <2>1. cmd.what \in {"pause", "resume", "retry", "save"}
    BY <1>4 DEF Answer, FeedOrder, Shape
  <2>2. PICK s : DOMAIN s = Fields /\ Fold("command", s)
    <3>1. CASE cmd.what \in {"pause", "resume"}
      BY <3>1, <1>1, <1>4 DEF Answer
    <3>2. CASE cmd.what = "retry"
      BY <3>2, <1>1, <1>4 DEF Answer
    <3>3. CASE cmd.what = "save"
      BY <3>3, <1>1, <1>4 DEF Answer, Applied
    <3> QED
      BY <2>1, <3>1, <3>2, <3>3
  <2>3. "what" \in DOMAIN cmd' /\ cmd'.what \in {"pause", "resume", "retry", "save", None}
    BY <1>4 DEF Answer
  <2> QED
    BY <1>1, <2>2, <2>3, FoldKeepsOrder
<1> QED
  BY <1>2, <1>3, <1>4 DEF Commands

LEMMA InitOrdered == Init => FeedOrder
<1> SUFFICES ASSUME Init PROVE FeedOrder
  OBVIOUS
<1>1. /\ DOMAIN st = Fields /\ st.seq = 0
  BY DEF Init, Seed, Blank, Fields
<1>2. /\ \A t \in Threads : out[t] = Box("free", None) /\ out[t].at = "free"
      /\ out = [t \in Threads |-> out[t]]
  BY DEF Init, Box
<1>3. Shape
  <2>1. \A t \in Threads : out[t] = Box(out[t].at, out[t].frame)
    BY <1>2 DEF Box
  <2>2. last = 0 /\ sent.seq = 0
    BY DEF Init, Blank
  <2> QED
    BY <1>1, <1>2, <2>1, <2>2 DEF Init, Shape
<1>4. InHand /\ NewestIsSnapshot /\ HydratesFirst
  BY <1>1, <1>2 DEF Init, InHand, NewestIsSnapshot, HydratesFirst, Free
<1> QED
  BY <1>3, <1>4 DEF FeedOrder

\* One step, with what the guard promises of it.
LEMMA StepKeepsOrder ==
  ASSUME FeedOrder, [Next]_vars
  PROVE  /\ FeedOrder'
         /\ \A t, u \in Threads : out[t].at = "guard" /\ out'[t].at = "emit" =>
              /\ sent.seq < out[t].frame.seq
              /\ out[u].at = "emit" => out[u].frame.seq < out[t].frame.seq
<1> DEFINE Passes(t) == out[t].at = "guard" /\ out'[t].at = "emit"
<1>1. CASE Offload \/ MirrorLoop \/ Commands
  BY <1>1, OffloadKeepsOrder, MirrorLoopKeepsOrder, CommandsKeepOrder DEF NonePasses
<1>2. CASE Window
  BY <1>2, WindowKeepsOrder DEF Window, GetState, Hydrate
<1>3. ASSUME NEW x \in Threads, ShouldEmit(x)
      PROVE  /\ FeedOrder'
             /\ \A t, u \in Threads : Passes(t) =>
                  /\ sent.seq < out[t].frame.seq
                  /\ out[u].at = "emit" => out[u].frame.seq < out[t].frame.seq
  <2> SUFFICES ASSUME NEW t \in Threads, NEW u \in Threads, Passes(t)
               PROVE  /\ sent.seq < out[t].frame.seq
                      /\ out[u].at = "emit" => out[u].frame.seq < out[t].frame.seq
    BY <1>3, GuardKeepsOrder
  <2>1. last < out[t].frame.seq
    BY <1>3, GuardKeepsOrder
  <2>2. out[t].frame.seq \in Nat /\ last \in Nat /\ sent.seq \in Nat /\ sent.seq <= last
    BY DEF FeedOrder, Shape, InHand, Numbered, Free
  <2>3. out[u].at = "emit" => out[u].frame.seq \in Nat /\ out[u].frame.seq <= last
    BY DEF FeedOrder, InHand, Numbered, Free
  <2> QED
    BY <2>1, <2>2, <2>3
<1>4. ASSUME NEW x \in Threads, Emit(x)
      PROVE  FeedOrder' /\ \A t \in Threads : ~Passes(t)
  <2>1. out' = [out EXCEPT ![x] = [at |-> "free", frame |-> None]] /\ out[x].at = "emit"
    BY <1>4 DEF Emit
  <2>2. \A t \in Threads : out'[t].at = "emit" => out'[t] = out[t]
    BY <2>1 DEF FeedOrder, Shape
  <2> QED
    BY <1>4, <2>2, EmitKeepsOrder
<1>5. CASE UNCHANGED vars
  BY <1>5, RestKeepsOrder DEF vars, FeedRests, FeedOrder, Shape, NonePasses
<1> QED
  BY <1>1, <1>2, <1>3, <1>4, <1>5 DEF Next

-----------------------------------------------------------------------------
\* The feed's invariant holds in every reachable state, wherever threads are stopped between
\* the lock, the guard and the emission (fold_*, should_emit, emit_state).
THEOREM FeedIsOrdered == Spec => []FeedOrder
<1>1. FeedOrder /\ [Next]_vars => FeedOrder'
  BY StepKeepsOrder
<1> QED
  BY <1>1, InitOrdered, PTL DEF Spec

\* What passes the guard is newer than all that was emitted or waits to be (should_emit).
THEOREM FramesPassInOrder == Spec => OnlyNewerPass
<1>1. FeedOrder /\ [Next]_vars
        => [\A t, u \in Threads : out[t].at = "guard" /\ out'[t].at = "emit" =>
              /\ sent.seq < out[t].frame.seq
              /\ out[u].at = "emit" => out[u].frame.seq < out[t].frame.seq]_vars
  BY StepKeepsOrder
<1> QED
  BY <1>1, FeedIsOrdered, PTL DEF Spec, OnlyNewerPass

\* Once every thread has emitted or dropped its frame, the snapshot has been emitted; before
\* the first event, what get_state answered is the snapshot (emit_state, hydrate).
THEOREM NewestSent == Spec => []NewestIsSent
<1>1. FeedOrder => NewestIsSent
  <2> SUFFICES ASSUME FeedOrder, Quiet
               PROVE  IF st.seq > 0 THEN sent = st
                      ELSE ui.hydrate = "done" => Shown(ui.frame) = Shown(st)
    BY DEF NewestIsSent
  <2>1. \A t \in Threads : out[t].at # "guard" /\ out[t].at # "emit"
    BY DEF Quiet, Free
  <2>2. last = st.seq /\ st.seq \in Nat
    BY <2>1 DEF FeedOrder, Shape, NewestIsSnapshot
  <2>3. CASE st.seq # 0
    BY <2>1, <2>2, <2>3 DEF FeedOrder, NewestIsSnapshot
  <2>4. CASE st.seq = 0
    BY <2>2, <2>4 DEF FeedOrder, HydratesFirst
  <2> QED
    BY <2>3, <2>4, <2>2
<1> QED
  BY <1>1, FeedIsOrdered, PTL

-----------------------------------------------------------------------------
(* What the snapshot says of the offload and of the mirror.                *)

\* Frames are snapshots, and what is in hand is no newer than the last.
FrameTypes ==
  /\ st \in AppState
  /\ out \in [Threads -> [at : {"free", "guard", "emit"}, frame : AppState \cup {None}]]
  /\ \A t \in Threads : ~Free(t) => out[t].frame \in AppState /\ out[t].frame.seq <= st.seq
  /\ last \in 0..st.seq
  /\ ui \in [frame : AppState, seen : BOOLEAN, hydrate : {"no", "cloned", "done"},
             copy : AppState \cup {None}]
  /\ ui.hydrate = "cloned" => ui.copy \in AppState
  /\ sent \in AppState

DriverTypes ==
  /\ driver \in [at : {"rest", "scan", "file", "copying", "landed", "verified", "queue",
                       "free", "eject", "abort"},
                 wired : BOOLEAN, mirroring : BOOLEAN, index : 0..MaxFiles + 1,
                 total : 0..MaxFiles, cum : 0..Size, failed : 0..MaxFiles, copied : 0..MaxFiles]
  /\ outcome \in {"clean", "bad", None}

MirrorTypes ==
  /\ phase \in [Jobs -> Live \cup {"absent", "done", "failed"}]
  /\ drain \in [at : {"rest", "claim", "pass", "report", "free"}, job : Jobs \cup {None},
                event : {"Mirrored", "CloudFailed", None}]
  /\ task \in [Jobs -> {"none", "check", "upload"}]
  /\ chan \in Seq(Jobs)
  /\ unreported \subseteq Jobs

CommandTypes ==
  /\ paused \in BOOLEAN /\ configured \in BOOLEAN
  /\ cmd \in [what : {"pause", "resume", "retry", "save", None}, counted : BOOLEAN,
              pending : 0..Cardinality(Jobs), failed : 0..Cardinality(Jobs)]
  /\ crossed \in Nat

CountTypes == count \in [runs : 0..MaxRuns, faults : 0..MaxFaults, commands : 0..MaxCommands]

FeedTypes == FrameTypes /\ DriverTypes /\ MirrorTypes /\ CommandTypes /\ CountTypes

\* How far the offload is in its plan.
DriverInPlan ==
  /\ driver.at = "scan" => driver.copied = 0 /\ driver.failed = 0 /\ driver.cum = 0
  /\ driver.at = "file" =>
       /\ driver.index \in 1..driver.total + 1 /\ driver.copied + driver.failed < driver.index
       /\ driver.cum = 0
  /\ driver.at = "copying" =>
       /\ driver.index \in 1..driver.total /\ driver.copied + driver.failed < driver.index
       /\ driver.cum \in 0..1
  /\ driver.at \in {"landed", "verified", "queue", "free"} =>
       driver.index \in 1..driver.total /\ driver.copied + driver.failed <= driver.index

\* The run of the snapshot at each of its steps.
RunFollows ==
  /\ driver.at \notin {"rest", "eject"} => st.run # None
  /\ driver.at \in {"rest", "eject"} =>
       st.run = None /\ (outcome = "bad" => st.status = "Error")
  /\ driver.at = "file" =>
       /\ st.run.total = driver.total
       /\ st.run.completed = Size * driver.copied
       /\ st.run.bytes <= Size * driver.total
       /\ st.run.done \in driver.copied .. driver.index - 1
  /\ driver.at = "copying" =>
       /\ st.run.total = driver.total
       /\ st.run.completed = Size * driver.copied
       /\ st.run.bytes = st.run.completed + driver.cum
       /\ st.run.done = driver.index - 1
  /\ driver.at = "landed" =>
       /\ st.run.total = driver.total
       /\ driver.copied >= 1
       /\ st.run.completed = Size * (driver.copied - 1)
       /\ st.run.bytes = Size * driver.copied
       /\ st.run.done = driver.index - 1
  /\ driver.at \in {"verified", "queue", "free"} =>
       /\ st.run.total = driver.total
       /\ st.run.completed = Size * driver.copied
       /\ st.run.bytes <= Size * driver.total
       /\ st.run.done \in driver.copied .. driver.index

OffloadShown == DriverTypes /\ DriverInPlan /\ RunFollows

-----------------------------------------------------------------------------
(* The reducers, field by field.                                           *)

LEMMA MinOfTwo ==
  ASSUME NEW m \in Nat, NEW n \in Nat
  PROVE  Min({m, n}) = IF m < n THEN m ELSE n
<1> DEFINE least == IF m < n THEN m ELSE n
<1>1. least \in {m, n} /\ \A y \in {m, n} : least =< y
  OBVIOUS
<1>2. \A x \in {m, n} : (\A y \in {m, n} : x =< y) => x = least
  OBVIOUS
<1>3. \E x \in {m, n} : \A y \in {m, n} : x =< y
  BY <1>1
<1> QED
  BY <1>2, <1>3 DEF Min

\* The fields that are the mirror's.
MirrorOf(s) == <<s.pending, s.failed, s.uploading, s.configured>>

\* A snapshot with these for the offload, and another's mirror.
Says(r, s, run, status) ==
  r \in AppState /\ r.run = run /\ r.status = status /\ MirrorOf(r) = MirrorOf(s)

LEMMA RunReducers ==
  ASSUME NEW s \in AppState
  PROVE  /\ RunOf(s) \in RunProgress /\ RunOf(s) # None /\ (s.run # None => RunOf(s) = s.run)
         /\ Says(CardDetected(s), s, RunOf(s), s.status)
         /\ \A n \in 0..MaxFiles : Says(Scanned(s, n), s, [Started EXCEPT !.total = n], "Working")
         /\ \A n \in 1..MaxFiles + 1 :
              Says(Copying(s, n), s,
                   [RunOf(s) EXCEPT !.done = n - 1, !.bytes = RunOf(s).completed], "Working")
         /\ \A n \in Nat : s.run # None =>
              Says(Progress(s, n), s, [s.run EXCEPT !.bytes = s.run.completed + n], s.status)
         /\ s.run # None =>
              Says(Verified(s), s, [s.run EXCEPT !.done = IF @ + 1 < s.run.total THEN @ + 1 ELSE s.run.total,
                                                 !.completed = s.run.bytes], s.status)
         /\ Says(FileFailed(s), s, s.run, "Error")
         /\ \A n \in Nat : Says(RunComplete(s, n), s, None, IF n > 0 THEN "Error" ELSE "Idle")
         /\ Says(RunError(s), s, None, "Error")
         /\ Says(Noted(s), s, s.run, s.status)
<1> USE DEF Says, MirrorOf, AppState
<1>0. MaxFiles \in Nat /\ None \notin RunProgress BY BoundsAssumption, NoneAssumption
<1>1. Started \in RunProgress BY <1>0 DEF Started, RunProgress
<1>2. RunOf(s) \in RunProgress /\ RunOf(s) # None /\ (s.run # None => RunOf(s) = s.run)
  BY <1>0, <1>1 DEF RunOf
<1>3. Says(CardDetected(s), s, RunOf(s), s.status) BY <1>2 DEF CardDetected
<1>4. ASSUME NEW n \in 0..MaxFiles
      PROVE  Says(Scanned(s, n), s, [Started EXCEPT !.total = n], "Working")
  <2>1. [Started EXCEPT !.total = n] \in RunProgress BY <1>0 DEF Started, RunProgress
  <2> QED BY <2>1 DEF Scanned
<1>5. ASSUME NEW n \in 1..MaxFiles + 1
      PROVE  Says(Copying(s, n), s,
                  [RunOf(s) EXCEPT !.done = n - 1, !.bytes = RunOf(s).completed], "Working")
  <2>1. [RunOf(s) EXCEPT !.done = n - 1, !.bytes = RunOf(s).completed] \in RunProgress
    <3>1. \A r \in RunProgress, a \in 0..MaxFiles : [r EXCEPT !.done = a, !.bytes = r.completed] \in RunProgress
      BY DEF RunProgress
    <3>2. n - 1 \in 0..MaxFiles BY <1>0
    <3> QED BY <1>2, <3>1, <3>2
  <2> DEFINE run == [RunOf(s) EXCEPT !.done = n - 1, !.bytes = RunOf(s).completed]
  <2>2. Copying(s, n) = [s EXCEPT !.run = run, !.status = "Working"] BY DEF Copying
  <2>3. run \in RunProgress BY <2>1
  <2> HIDE DEF run
  <2>4. Says(Copying(s, n), s, run, "Working") BY <2>2, <2>3
  <2> QED BY <2>4 DEF run
<1>6. ASSUME NEW n \in Nat, s.run # None
      PROVE  Says(Progress(s, n), s, [s.run EXCEPT !.bytes = s.run.completed + n], s.status)
  <2>1. [s.run EXCEPT !.bytes = s.run.completed + n] \in RunProgress
    BY <1>6 DEF RunProgress
  <2> QED BY <1>6, <2>1 DEF Progress
<1>7. ASSUME s.run # None
      PROVE  Says(Verified(s), s, [s.run EXCEPT !.done = IF @ + 1 < s.run.total THEN @ + 1 ELSE s.run.total,
                                                !.completed = s.run.bytes], s.status)
  <2>1. s.run \in RunProgress BY <1>7
  <2>2. s.run.done + 1 \in Nat /\ s.run.total \in Nat BY <1>0, <2>1 DEF RunProgress
  <2>3. Min({s.run.done + 1, s.run.total}) = IF s.run.done + 1 < s.run.total THEN s.run.done + 1 ELSE s.run.total
    BY <2>2, MinOfTwo
  <2>4. [s.run EXCEPT !.done = IF @ + 1 < s.run.total THEN @ + 1 ELSE s.run.total,
                      !.completed = s.run.bytes] \in RunProgress
    <3>1. \A r \in RunProgress, a \in 0..MaxFiles : [r EXCEPT !.done = a, !.completed = r.bytes] \in RunProgress
      BY DEF RunProgress
    <3>2. (IF s.run.done + 1 < s.run.total THEN s.run.done + 1 ELSE s.run.total) \in 0..MaxFiles
      BY <1>0, <2>1 DEF RunProgress
    <3> QED BY <2>1, <3>1, <3>2
  <2> DEFINE run == [s.run EXCEPT !.done = IF @ + 1 < s.run.total THEN @ + 1 ELSE s.run.total,
                                  !.completed = s.run.bytes]
             least == Min({s.run.done + 1, s.run.total})
  <2>5. Verified(s) = [s EXCEPT !.run.done = least, !.run.completed = s.run.bytes]
    BY <1>7 DEF Verified
  <2> HIDE DEF least
  <2>6. [s EXCEPT !.run.done = least, !.run.completed = s.run.bytes]
          = [s EXCEPT !.run = [s.run EXCEPT !.done = least, !.completed = s.run.bytes]]
    BY <2>1 DEF RunProgress
  <2>7. [s.run EXCEPT !.done = least, !.completed = s.run.bytes] = run
    BY <2>1, <2>3 DEF RunProgress, least
  <2>8. Verified(s) = [s EXCEPT !.run = run] /\ run \in RunProgress BY <2>4, <2>5, <2>6, <2>7
  <2> HIDE DEF run
  <2>9. Says(Verified(s), s, run, s.status) BY <2>8
  <2> QED BY <2>9 DEF run
<1>8. Says(FileFailed(s), s, s.run, "Error") /\ Says(RunError(s), s, None, "Error")
      /\ Says(Noted(s), s, s.run, s.status)
  BY DEF FileFailed, RunError, Noted
<1>9. ASSUME NEW n \in Nat
      PROVE  Says(RunComplete(s, n), s, None, IF n > 0 THEN "Error" ELSE "Idle")
  BY DEF RunComplete
<1> QED BY <1>2, <1>3, <1>4, <1>5, <1>6, <1>7, <1>8, <1>9

\* The run of an offload is left to it; an upload that failed shows.
Beside(r, s) == r \in AppState /\ r.run = s.run /\ r.status \in {s.status, "Error"}

LEMMA MirrorReducers ==
  ASSUME NEW s \in AppState
  PROVE  /\ Beside(CloudQueued(s), s) /\ CloudQueued(s).status = s.status
         /\ CloudQueued(s).pending = s.pending + 1 /\ CloudQueued(s).failed = s.failed
         /\ CloudQueued(s).uploading = s.uploading
         /\ \A j \in Jobs : /\ Beside(Uploading(s, j), s) /\ Uploading(s, j).pending = s.pending
                            /\ Uploading(s, j).failed = s.failed /\ Uploading(s, j).uploading = j
         /\ \A j \in Jobs :
              /\ Beside(Mirrored(s, j), s) /\ Mirrored(s, j).pending = OneLess(s.pending)
              /\ Mirrored(s, j).failed = s.failed
              /\ Mirrored(s, j).uploading = IF s.uploading = j THEN None ELSE s.uploading
         /\ \A j \in Jobs :
              /\ Beside(CloudFailed(s, j), s) /\ CloudFailed(s, j).pending = OneLess(s.pending)
              /\ CloudFailed(s, j).failed = s.failed + 1
              /\ CloudFailed(s, j).uploading = IF s.uploading = j THEN None ELSE s.uploading
<1> USE DEF Beside, AppState
<1>1. \A n \in Nat : OneLess(n) \in Nat BY DEF OneLess
<1>2. /\ Beside(CloudQueued(s), s) /\ CloudQueued(s).status = s.status
      /\ CloudQueued(s).pending = s.pending + 1 /\ CloudQueued(s).failed = s.failed
      /\ CloudQueued(s).uploading = s.uploading
  <2>1. s.pending + 1 \in Nat BY DEF AppState
  <2>2. CloudQueued(s) = [s EXCEPT !.pending = s.pending + 1, !.configured = TRUE] BY DEF CloudQueued
  <2> QED BY <2>1, <2>2
<1>3. ASSUME NEW j \in Jobs
      PROVE  /\ Beside(Uploading(s, j), s) /\ Uploading(s, j).pending = s.pending
             /\ Uploading(s, j).failed = s.failed /\ Uploading(s, j).uploading = j
  BY DEF Uploading
<1>4. ASSUME NEW j \in Jobs
      PROVE  /\ Beside(Mirrored(s, j), s) /\ Mirrored(s, j).pending = OneLess(s.pending)
             /\ Mirrored(s, j).failed = s.failed
             /\ Mirrored(s, j).uploading = IF s.uploading = j THEN None ELSE s.uploading
  BY <1>1 DEF Mirrored
<1>5. ASSUME NEW j \in Jobs
      PROVE  /\ Beside(CloudFailed(s, j), s) /\ CloudFailed(s, j).pending = OneLess(s.pending)
             /\ CloudFailed(s, j).failed = s.failed + 1
             /\ CloudFailed(s, j).uploading = IF s.uploading = j THEN None ELSE s.uploading
  <2>1. CloudFailed(s, j) = [Mirrored(s, j) EXCEPT !.failed = @ + 1, !.status = "Error"]
    BY DEF CloudFailed
  <2> DEFINE r == Mirrored(s, j)
  <2>2. /\ r \in AppState /\ r.run = s.run /\ r.pending = OneLess(s.pending) /\ r.failed = s.failed
        /\ r.uploading = IF s.uploading = j THEN None ELSE s.uploading
    BY <1>4
  <2> HIDE DEF r
  <2>3. CloudFailed(s, j) = [r EXCEPT !.failed = r.failed + 1, !.status = "Error"] BY <2>1 DEF r
  <2>4. r.failed + 1 \in Nat /\ OneLess(s.pending) \in Nat BY <1>1, <2>2
  <2>5. CloudFailed(s, j) \in AppState BY <2>2, <2>3, <2>4
  <2>6. /\ CloudFailed(s, j).run = r.run /\ CloudFailed(s, j).status = "Error"
        /\ CloudFailed(s, j).pending = r.pending /\ CloudFailed(s, j).failed = r.failed + 1
        /\ CloudFailed(s, j).uploading = r.uploading
    BY <2>2, <2>3
  <2> QED BY <2>2, <2>5, <2>6
<1> QED BY <1>2, <1>3, <1>4, <1>5

-----------------------------------------------------------------------------
(* The frames.                                                             *)

\* A fold makes a snapshot of what the reducer says, under the next number.
LEMMA FoldMakes ==
  ASSUME FrameTypes, NEW t \in Threads, NEW s \in AppState, Fold(t, s)
  PROVE  /\ FrameTypes'
         /\ st'.run = s.run /\ st'.status = s.status /\ MirrorOf(st') = MirrorOf(s)
<1>1. /\ st' = [s EXCEPT !.seq = st.seq + 1] /\ st.seq \in Nat
      /\ out' = [out EXCEPT ![t] = [at |-> "guard", frame |-> st']]
      /\ UNCHANGED <<last, ui, sent>>
  BY DEF Fold, feed, FrameTypes, AppState
<1>2. /\ st' \in AppState /\ st'.run = s.run /\ st'.status = s.status /\ st'.seq = st.seq + 1
      /\ MirrorOf(st') = MirrorOf(s)
  BY <1>1 DEF AppState, MirrorOf
<1>3. out' \in [Threads -> [at : {"free", "guard", "emit"}, frame : AppState \cup {None}]]
  BY <1>1, <1>2 DEF FrameTypes
<1>4. \A u \in Threads : ~Free(u)' => out'[u].frame \in AppState /\ out'[u].frame.seq <= st'.seq
  <2> TAKE u \in Threads
  <2>1. CASE u = t BY <1>1, <1>2, <2>1 DEF FrameTypes
  <2>2. CASE u # t
    <3>1. out'[u] = out[u] BY <1>1, <2>2 DEF FrameTypes
    <3>2. ~Free(u) => out[u].frame.seq \in Nat BY DEF FrameTypes, AppState
    <3> QED BY <1>1, <1>2, <3>1, <3>2 DEF FrameTypes, Free
  <2> QED BY <2>1, <2>2
<1>5. FrameTypes'
  <2>1. last' \in 0..st'.seq BY <1>1, <1>2 DEF FrameTypes
  <2> QED BY <1>1, <1>2, <1>3, <1>4, <2>1 DEF FrameTypes
<1> QED BY <1>2, <1>5

LEMMA SendKeepsFrames ==
  ASSUME FrameTypes, NEW t \in Threads, ShouldEmit(t) \/ Emit(t)
  PROVE  FrameTypes' /\ UNCHANGED <<st, offload, mirror, switches, cmd, crossed, count>>
<1>1. UNCHANGED <<st, offload, mirror, switches, cmd, crossed, count>> BY DEF ShouldEmit, Emit
<1>2. CASE ShouldEmit(t)
  <2>1. out[t] \in [at : {"free", "guard", "emit"}, frame : AppState \cup {None}]
        /\ out[t].frame \in AppState /\ out[t].frame.seq \in 0..st.seq
    BY <1>2 DEF ShouldEmit, FrameTypes, Free, AppState
  <2>2. last' \in 0..st.seq
    <3>1. last \in Nat /\ out[t].frame.seq \in Nat BY <2>1 DEF FrameTypes
    <3> QED BY <1>2, <2>1, <3>1, MaxOfTwo DEF ShouldEmit, FrameTypes
  <2>3. PICK box \in [at : {"free", "guard", "emit"}, frame : AppState \cup {None}] :
          out' = [out EXCEPT ![t] = box] /\ (box.at # "free" => box.frame = out[t].frame)
    <3>1. CASE last < out[t].frame.seq
      <4>1. [out[t] EXCEPT !.at = "emit"] \in [at : {"free", "guard", "emit"}, frame : AppState \cup {None}]
            /\ [out[t] EXCEPT !.at = "emit"].frame = out[t].frame
        BY <2>1
      <4> QED BY <1>2, <3>1, <4>1 DEF ShouldEmit
    <3>2. CASE ~(last < out[t].frame.seq)
      <4>1. [at |-> "free", frame |-> None] \in [at : {"free", "guard", "emit"}, frame : AppState \cup {None}]
        OBVIOUS
      <4> QED BY <1>2, <3>2, <4>1 DEF ShouldEmit
    <3> QED BY <3>1, <3>2
  <2>4. \A u \in Threads : ~Free(u)' => out'[u].frame \in AppState /\ out'[u].frame.seq <= st.seq
    <3> TAKE u \in Threads
    <3>1. CASE u = t
      <4>1. out'[u] = box BY <2>3, <3>1 DEF FrameTypes
      <4> QED BY <2>1, <2>3, <4>1 DEF Free, FrameTypes, AppState
    <3>2. CASE u # t BY <2>3, <3>2 DEF FrameTypes, Free
    <3> QED BY <3>1, <3>2
  <2>5. out' \in [Threads -> [at : {"free", "guard", "emit"}, frame : AppState \cup {None}]]
    BY <2>3 DEF FrameTypes
  <2> QED BY <1>1, <1>2, <2>2, <2>4, <2>5 DEF ShouldEmit, FrameTypes
<1>3. CASE Emit(t)
  <2>1. out[t].frame \in AppState BY <1>3 DEF Emit, FrameTypes, Free
  <2>2. out' \in [Threads -> [at : {"free", "guard", "emit"}, frame : AppState \cup {None}]]
    BY <1>3 DEF Emit, FrameTypes
  <2>3. \A u \in Threads : ~Free(u)' => ~Free(u) /\ out'[u] = out[u]
    BY <1>3 DEF Emit, FrameTypes, Free
  <2>4. ui' \in [frame : AppState, seen : BOOLEAN, hydrate : {"no", "cloned", "done"},
                 copy : AppState \cup {None}] /\ ui'.hydrate = ui.hydrate /\ ui'.copy = ui.copy
    BY <1>3, <2>1 DEF Emit, FrameTypes
  <2>5. sent' \in AppState BY <1>3, <2>1 DEF Emit, FrameTypes
  <2> QED BY <1>1, <1>3, <2>2, <2>3, <2>4, <2>5 DEF Emit, FrameTypes
<1> QED BY <1>1, <1>2, <1>3

LEMMA WindowKeepsFrames ==
  ASSUME FrameTypes, MirrorTypes, Window
  PROVE  FrameTypes' /\ UNCHANGED <<st, offload, mirror, switches, cmd, crossed, count>>
<1>1. UNCHANGED <<st, out, last, sent, offload, mirror, switches, cmd, crossed, count>>
  BY DEF Window, GetState, Hydrate
<1>2. CASE GetState
  <2>1. ui' \in [frame : AppState, seen : BOOLEAN, hydrate : {"no", "cloned", "done"},
                 copy : AppState \cup {None}] /\ ui'.copy \in AppState
    BY <1>2 DEF GetState, FrameTypes
  <2> QED BY <1>1, <2>1 DEF FrameTypes, Free
<1>3. CASE Hydrate
  <2>1. ui.copy \in AppState BY <1>3 DEF Hydrate, FrameTypes
  <2>2. Pending \in Nat /\ Failed \in Nat
    <3>1. IsFiniteSet(Jobs) BY BoundsAssumption
    <3> QED BY <3>1, FS_Subset, FS_CardinalityType DEF Pending, Failed
  <2>3. [ui.copy EXCEPT !.pending = Pending, !.failed = Failed] \in AppState
    BY <2>1, <2>2 DEF AppState
  <2>4. ui' \in [frame : AppState, seen : BOOLEAN, hydrate : {"no", "cloned", "done"},
                 copy : AppState \cup {None}] /\ ui'.hydrate = "done"
    BY <1>3, <2>3 DEF Hydrate, FrameTypes
  <2> QED BY <1>1, <2>4 DEF FrameTypes, Free
<1> QED BY <1>1, <1>2, <1>3 DEF Window


-----------------------------------------------------------------------------
(* The offload.                                                            *)

LEMMA FoldSays ==
  ASSUME FrameTypes, NEW t \in Threads, NEW s, NEW run, NEW status, Says(s, st, run, status), Fold(t, s)
  PROVE  /\ FrameTypes' /\ st'.run = run /\ st'.status = status /\ MirrorOf(st') = MirrorOf(st)
BY FoldMakes DEF Says

DriverAt == {"rest", "scan", "file", "copying", "landed", "verified", "queue", "free", "eject", "abort"}
Driver == [at : DriverAt, wired : BOOLEAN, mirroring : BOOLEAN, index : 0..MaxFiles + 1,
           total : 0..MaxFiles, cum : 0..Size, failed : 0..MaxFiles, copied : 0..MaxFiles]

LEMMA DriverTypesAre == DriverTypes <=> driver \in Driver /\ outcome \in {"clean", "bad", None}
BY DEF DriverTypes, Driver, DriverAt

\* Where an offload begins, and where one ends without a plan.
LEMMA EdgesShow ==
  ASSUME FrameTypes, OffloadShown,
         Begin \/ NeverBegins \/ Scan \/ NoRoom \/ Abort \/ Complete \/ Eject
  PROVE  FrameTypes' /\ OffloadShown' /\ MirrorOf(st') = MirrorOf(st)
<1> USE DEF OffloadShown
<1>0. /\ "driver" \in Threads /\ st \in AppState /\ MaxFiles \in Nat
      /\ None \notin RunProgress /\ None # "bad"
  BY BoundsAssumption, NoneAssumption DEF Threads, FrameTypes
<1>1. driver \in Driver /\ outcome \in {"clean", "bad", None} BY DriverTypesAre
<1>2. AtRest \in Driver /\ AtRest.at = "rest"
  BY <1>0 DEF AtRest, Driver, DriverAt, Size
<1>3. CASE Begin
  <2>1. FrameTypes' /\ st'.run = RunOf(st) /\ st'.status = st.status /\ MirrorOf(st') = MirrorOf(st)
    BY <1>0, <1>3, RunReducers, FoldSays DEF Begin
  <2>2. driver' \in Driver /\ driver'.at = "scan" /\ outcome' = None
        /\ driver'.copied = 0 /\ driver'.failed = 0 /\ driver'.cum = 0
    BY <1>2, <1>3 DEF Begin, Driver, DriverAt, AtRest
  <2>3. st'.run # None BY <1>0, <2>1, RunReducers
  <2>4. DriverTypes' BY <2>2 DEF DriverTypes, Driver, DriverAt
  <2> QED BY <2>1, <2>2, <2>3, <2>4 DEF DriverInPlan, RunFollows
<1>4. CASE NeverBegins
  <2>1. FrameTypes' /\ st'.run = None /\ st'.status = "Error" /\ MirrorOf(st') = MirrorOf(st)
    BY <1>0, <1>4, RunReducers, FoldSays DEF NeverBegins
  <2>2. driver' = AtRest /\ outcome' = "bad" BY <1>4 DEF NeverBegins, RunEnds
  <2>3. DriverTypes' BY <1>2, <2>2 DEF DriverTypes, Driver, DriverAt
  <2> QED BY <1>2, <2>1, <2>2, <2>3 DEF DriverInPlan, RunFollows
<1>5. CASE Scan
  <2>1. PICK files \in 0..MaxFiles, m \in BOOLEAN :
          /\ Fold("driver", Scanned(st, files))
          /\ driver' = [driver EXCEPT !.at = "file", !.index = 1, !.total = files, !.mirroring = m]
    BY <1>5 DEF Scan
  <2>2. /\ FrameTypes' /\ st'.run = [Started EXCEPT !.total = files] /\ MirrorOf(st') = MirrorOf(st)
    BY <1>0, <2>1, RunReducers, FoldSays
  <2>3. [Started EXCEPT !.total = files] \in RunProgress BY <1>0 DEF Started, RunProgress
  <2>4. /\ st'.run # None /\ st'.run.total = files /\ st'.run.completed = 0 /\ st'.run.bytes = 0
        /\ st'.run.done = 0
    BY <1>0, <2>2, <2>3 DEF Started
  <2>5. /\ driver' \in Driver /\ driver'.at = "file" /\ driver'.index = 1 /\ driver'.total = files
    <3>1. 1 \in 0..MaxFiles + 1 /\ files \in 0..MaxFiles BY <1>0
    <3>2. /\ driver'.at = "file" /\ driver'.index = 1 /\ driver'.total = files
          /\ driver'.mirroring = m /\ DOMAIN driver' = DOMAIN driver
          /\ UNCHANGED <<driver.wired, driver.cum, driver.failed, driver.copied>>
      BY <1>1, <2>1 DEF Driver
    <3>3. driver' \in Driver
      BY <1>1, <2>1, <3>1 DEF Driver, DriverAt
    <3> QED BY <3>2, <3>3
  <2>6. DriverTypes' BY <1>1, <1>5, <2>5 DEF Scan, DriverTypes, Driver, DriverAt
  <2>7. driver.copied = 0 /\ driver.failed = 0 /\ driver.cum = 0
    BY <1>5 DEF Scan, DriverInPlan
  <2>8. UNCHANGED <<driver.copied, driver.failed, driver.cum>>
    BY <1>1, <2>1 DEF Driver
  <2> QED BY <2>2, <2>4, <2>5, <2>6, <2>7, <2>8 DEF DriverInPlan, RunFollows, Size
<1>6. CASE NoRoom
  <2>1. FrameTypes' /\ st'.run = st.run /\ MirrorOf(st') = MirrorOf(st)
    BY <1>0, <1>6, RunReducers, FoldSays DEF NoRoom
  <2>2. driver' \in Driver /\ driver'.at = "abort" /\ outcome' = outcome
    BY <1>1, <1>6 DEF NoRoom, Driver, DriverAt
  <2>3. st.run # None BY <1>6 DEF NoRoom, RunFollows
  <2>4. DriverTypes' BY <1>1, <2>2 DEF DriverTypes, Driver, DriverAt
  <2> QED BY <2>1, <2>2, <2>3, <2>4 DEF DriverInPlan, RunFollows
<1>7. CASE Abort
  <2>1. FrameTypes' /\ st'.run = None /\ st'.status = "Error" /\ MirrorOf(st') = MirrorOf(st)
    BY <1>0, <1>7, RunReducers, FoldSays DEF Abort
  <2>2. driver' = AtRest /\ outcome' = "bad" BY <1>7 DEF Abort, RunEnds
  <2>3. DriverTypes' BY <1>2, <2>2 DEF DriverTypes, Driver, DriverAt
  <2> QED BY <1>2, <2>1, <2>2, <2>3 DEF DriverInPlan, RunFollows
<1>8. CASE Complete
  <2>1. driver.failed \in Nat BY <1>1 DEF Driver
  <2>2. /\ FrameTypes' /\ st'.run = None /\ MirrorOf(st') = MirrorOf(st)
        /\ st'.status = IF driver.failed > 0 THEN "Error" ELSE "Idle"
    BY <1>0, <1>8, <2>1, RunReducers, FoldSays DEF Complete
  <2>3. /\ driver' \in Driver /\ driver'.at \in {"rest", "eject"}
        /\ outcome' = IF driver.failed > 0 THEN "bad" ELSE "clean"
    BY <1>2, <1>8 DEF Complete, Driver, DriverAt
  <2>4. DriverTypes' BY <2>3 DEF DriverTypes, Driver, DriverAt
  <2> QED BY <2>2, <2>3, <2>4 DEF DriverInPlan, RunFollows
<1>9. CASE Eject
  <2>1. driver.at = "eject" /\ st.run = None /\ (outcome = "bad" => st.status = "Error")
    BY <1>9 DEF Eject, RunFollows
  <2>2. driver' = AtRest /\ outcome' \in {outcome, "bad"} BY <1>9 DEF Eject, RunEnds
  <2>3. DriverTypes' BY <1>1, <1>2, <2>2 DEF DriverTypes, Driver, DriverAt
  <2>4. /\ FrameTypes' /\ st'.run = None /\ MirrorOf(st') = MirrorOf(st)
        /\ outcome' = "bad" => st'.status = "Error"
    <3>1. CASE UNCHANGED <<st, out, feed>> /\ RunEnds(outcome)
      BY <2>1, <3>1 DEF RunEnds, feed, FrameTypes, Free, MirrorOf
    <3>2. CASE Fold("driver", Noted(st)) /\ RunEnds(outcome)
      BY <1>0, <2>1, <3>2, RunReducers, FoldSays DEF RunEnds
    <3>3. CASE Fold("driver", FileFailed(st)) /\ RunEnds("bad")
      BY <1>0, <2>1, <3>3, RunReducers, FoldSays DEF RunEnds
    <3> QED BY <1>9, <3>1, <3>2, <3>3 DEF Eject
  <2> QED BY <1>2, <2>2, <2>3, <2>4 DEF DriverInPlan, RunFollows
<1> QED BY <1>3, <1>4, <1>5, <1>6, <1>7, <1>8, <1>9


LEMMA DriverUpdates ==
  ASSUME NEW d \in Driver, NEW n \in 0..MaxFiles
  PROVE  /\ \A i \in 0..MaxFiles + 1 :
           /\ [d EXCEPT !.at = "file", !.index = i, !.cum = 0] \in Driver
           /\ [d EXCEPT !.at = "file", !.index = i, !.cum = 0, !.failed = n] \in Driver
         /\ [d EXCEPT !.at = "landed", !.cum = Size, !.copied = n] \in Driver
<1>1. 0 \in 0..Size /\ Size \in 0..Size BY DEF Size
<1>2. \A i \in 0..MaxFiles + 1 : [d EXCEPT !.at = "file", !.index = i, !.cum = 0] \in Driver
  BY <1>1 DEF Driver, DriverAt
<1>3. \A i \in 0..MaxFiles + 1 : [d EXCEPT !.at = "file", !.index = i, !.cum = 0, !.failed = n] \in Driver
  BY <1>1 DEF Driver, DriverAt
<1>4. [d EXCEPT !.at = "landed", !.cum = Size, !.copied = n] \in Driver
  BY <1>1 DEF Driver, DriverAt
<1> QED BY <1>2, <1>3, <1>4

\* A file, from its place in the plan to the next.
LEMMA FilesShow ==
  ASSUME FrameTypes, OffloadShown,
         Adopt \/ Copy \/ HalfWay \/ CopyFails \/ Land \/ Verify \/ CommitWired \/ Queue \/ FreeCard
  PROVE  FrameTypes' /\ OffloadShown' /\ st'.uploading = st.uploading
<1> USE DEF OffloadShown
<1>0. "driver" \in Threads /\ st \in AppState /\ MaxFiles \in Nat
  BY BoundsAssumption DEF Threads, FrameTypes
<1>1. driver \in Driver /\ outcome' = outcome /\ outcome \in {"clean", "bad", None}
  BY DriverTypesAre DEF Adopt, Copy, HalfWay, CopyFails, Land, Verify, CommitWired, Queue, FreeCard
<1>2. /\ driver.index \in Nat /\ driver.total \in 0..MaxFiles /\ driver.cum \in 0..Size
      /\ driver.failed \in Nat /\ driver.copied \in Nat
  BY <1>1 DEF Driver
<1>3. st.run # None
  BY DEF RunFollows, Adopt, Copy, HalfWay, CopyFails, Land, Verify, CommitWired, Queue, FreeCard
<1>4. st.run \in RunProgress BY <1>0, <1>3 DEF AppState
<1>5. /\ st.run.done \in 0..MaxFiles /\ st.run.total \in 0..MaxFiles /\ st.run.bytes \in Nat
      /\ st.run.completed \in Nat
  BY <1>4 DEF RunProgress
<1>6. ASSUME driver' \in Driver PROVE DriverTypes'
  BY <1>1, <1>6 DEF DriverTypes, Driver, DriverAt
<1>7. CASE Adopt
  <2>1. UNCHANGED <<st, out, last, ui, sent>> BY <1>7 DEF Adopt, feed
  <2>2. FrameTypes' BY <2>1 DEF FrameTypes, Free
  <2>3. driver' \in Driver /\ driver' = [driver EXCEPT !.at = "queue"]
    BY <1>1, <1>7 DEF Adopt, Driver, DriverAt
  <2>4. /\ driver'.at = "queue"
        /\ UNCHANGED <<driver.index, driver.total, driver.failed, driver.copied>>
    BY <1>1, <2>3 DEF Driver
  <2> QED BY <1>2, <1>3, <1>5, <1>6, <1>7, <2>1, <2>2, <2>3, <2>4 DEF Adopt, DriverInPlan, RunFollows, Size
<1>8. CASE Copy
  <2>1. driver.index \in 1..MaxFiles BY <1>0, <1>2, <1>8 DEF Copy, DriverInPlan
  <2>2. /\ FrameTypes' /\ MirrorOf(st') = MirrorOf(st)
        /\ st'.run = [st.run EXCEPT !.done = driver.index - 1, !.bytes = st.run.completed]
    <3>1. driver.index \in 1..MaxFiles + 1 BY <1>0, <2>1
    <3>2. RunOf(st) = st.run BY <1>0, <1>3, RunReducers
    <3> QED BY <1>0, <1>8, <3>1, <3>2, RunReducers, FoldSays DEF Copy
  <2>3. /\ st'.run.done = driver.index - 1 /\ st'.run.bytes = st.run.completed
        /\ st'.run.completed = st.run.completed /\ st'.run.total = st.run.total
    BY <1>4, <2>2 DEF RunProgress
  <2>4. st'.run # None
    <3>1. [st.run EXCEPT !.done = driver.index - 1, !.bytes = st.run.completed] \in RunProgress
      <4>1. \A r \in RunProgress, a \in 0..MaxFiles : [r EXCEPT !.done = a, !.bytes = r.completed] \in RunProgress
        BY DEF RunProgress
      <4>2. driver.index - 1 \in 0..MaxFiles BY <1>0, <2>1
      <4> QED BY <1>4, <4>1, <4>2
    <3> QED BY <2>2, <3>1, NoneAssumption
  <2>5. driver' \in Driver /\ driver' = [driver EXCEPT !.at = "copying"]
    BY <1>1, <1>8 DEF Copy, Driver, DriverAt
  <2>6. /\ driver'.at = "copying"
        /\ UNCHANGED <<driver.index, driver.total, driver.failed, driver.copied, driver.cum>>
    BY <1>1, <2>5 DEF Driver
  <2>7. st'.uploading = st.uploading BY <2>2 DEF MirrorOf
  <2> QED BY <1>2, <1>5, <1>6, <1>8, <2>2, <2>3, <2>4, <2>5, <2>6, <2>7 DEF Copy, DriverInPlan, RunFollows, Size
<1>9. CASE HalfWay
  <2>2. /\ FrameTypes' /\ MirrorOf(st') = MirrorOf(st)
        /\ st'.run = [st.run EXCEPT !.bytes = st.run.completed + 1]
    BY <1>0, <1>3, <1>9, RunReducers, FoldSays DEF HalfWay
  <2>3. /\ st'.run.bytes = st.run.completed + 1
        /\ UNCHANGED <<st.run.done, st.run.completed, st.run.total>>
    BY <1>4, <2>2 DEF RunProgress
  <2>4. st'.run # None
    <3>1. [st.run EXCEPT !.bytes = st.run.completed + 1] \in RunProgress BY <1>4 DEF RunProgress
    <3> QED BY <2>2, <3>1, NoneAssumption
  <2>5. driver' \in Driver /\ driver' = [driver EXCEPT !.cum = 1]
    BY <1>1, <1>9 DEF HalfWay, Driver, DriverAt, Size
  <2>6. /\ driver'.cum = 1
        /\ UNCHANGED <<driver.at, driver.index, driver.total, driver.failed, driver.copied>>
    BY <1>1, <2>5 DEF Driver
  <2>7. st'.uploading = st.uploading BY <2>2 DEF MirrorOf
  <2> QED BY <1>2, <1>5, <1>6, <1>9, <2>2, <2>3, <2>4, <2>5, <2>6, <2>7 DEF HalfWay, DriverInPlan, RunFollows
<1>10. CASE CopyFails
  <2>1. /\ FrameTypes' /\ MirrorOf(st') = MirrorOf(st) /\ st'.run = st.run
    BY <1>0, <1>10, RunReducers, FoldSays DEF CopyFails
  <2>2. /\ driver.at = "copying" /\ driver.index \in 1..driver.total
        /\ driver.copied + driver.failed < driver.index
    BY <1>10 DEF CopyFails, DriverInPlan
  <2>3. driver.index + 1 \in 0..MaxFiles + 1 /\ driver.failed + 1 \in 0..MaxFiles
    BY <1>0, <1>2, <2>2
  <2>4. driver' = [driver EXCEPT !.at = "file", !.index = @ + 1, !.cum = 0, !.failed = @ + 1]
    BY <1>1, <1>10 DEF CopyFails, NextFile, Driver
  <2>5. driver' \in Driver
    <3>1. [driver EXCEPT !.at = "file", !.index = driver.index + 1, !.cum = 0, !.failed = driver.failed + 1] \in Driver
      BY <1>1, <2>3, DriverUpdates
    <3> QED BY <2>4, <3>1
  <2>6. /\ driver'.at = "file" /\ driver'.index = driver.index + 1 /\ driver'.cum = 0
        /\ driver'.failed = driver.failed + 1 /\ UNCHANGED <<driver.total, driver.copied>>
    BY <1>1, <2>4 DEF Driver
  <2>7. st'.uploading = st.uploading BY <2>1 DEF MirrorOf
  <2>8. DriverInPlan' BY <1>2, <2>2, <2>6 DEF DriverInPlan
  <2>9. RunFollows'
    <3>1. /\ st.run.total = driver.total /\ st.run.completed = Size * driver.copied
          /\ st.run.bytes = st.run.completed + driver.cum /\ st.run.done = driver.index - 1
          /\ driver.cum \in 0..1
      BY <2>2 DEF RunFollows, DriverInPlan
    <3> QED BY <1>2, <1>3, <1>5, <2>1, <2>2, <2>6, <3>1 DEF RunFollows, Size
  <2> QED BY <1>6, <2>1, <2>5, <2>7, <2>8, <2>9
<1>11. CASE Land
  <2>1. /\ FrameTypes' /\ MirrorOf(st') = MirrorOf(st)
        /\ st'.run = [st.run EXCEPT !.bytes = st.run.completed + Size]
    BY <1>0, <1>3, <1>11, RunReducers, FoldSays DEF Land, Size
  <2>2. /\ st'.run.bytes = st.run.completed + Size
        /\ UNCHANGED <<st.run.done, st.run.completed, st.run.total>>
    BY <1>4, <2>1 DEF RunProgress
  <2>3. st'.run # None
    <3>1. [st.run EXCEPT !.bytes = st.run.completed + Size] \in RunProgress
      BY <1>4 DEF RunProgress, Size
    <3> QED BY <2>1, <3>1, NoneAssumption
  <2>4. /\ driver.at = "copying" /\ driver.index \in 1..driver.total
        /\ driver.copied + driver.failed < driver.index
    BY <1>11 DEF Land, DriverInPlan
  <2>5. driver' = [driver EXCEPT !.at = "landed", !.cum = Size, !.copied = @ + 1]
    BY <1>11 DEF Land
  <2>6. driver.copied + 1 \in 0..MaxFiles BY <1>0, <1>2, <2>4
  <2>7. driver' \in Driver
    <3>1. [driver EXCEPT !.at = "landed", !.cum = Size, !.copied = driver.copied + 1] \in Driver
      BY <1>1, <2>6, DriverUpdates
    <3> QED BY <2>5, <3>1
  <2>8. /\ driver'.at = "landed" /\ driver'.copied = driver.copied + 1
        /\ UNCHANGED <<driver.index, driver.total, driver.failed>>
    BY <1>1, <2>5 DEF Driver
  <2>9. st'.uploading = st.uploading BY <2>1 DEF MirrorOf
  <2>10. DriverInPlan' BY <1>2, <2>4, <2>8 DEF DriverInPlan
  <2>11. RunFollows'
    <3>1. /\ st.run.total = driver.total /\ st.run.completed = Size * driver.copied
          /\ st.run.done = driver.index - 1
      BY <2>4 DEF RunFollows
    <3> QED BY <1>2, <1>5, <2>2, <2>3, <2>4, <2>8, <3>1 DEF RunFollows, Size
  <2> QED BY <1>6, <2>1, <2>7, <2>9, <2>10, <2>11
<1>12. CASE Verify
  <2>1. /\ driver.at = "landed" /\ driver.index \in 1..driver.total
        /\ driver.copied + driver.failed <= driver.index
        /\ st.run.total = driver.total /\ driver.copied >= 1
        /\ st.run.bytes = Size * driver.copied /\ st.run.done = driver.index - 1
    BY <1>12 DEF Verify, DriverInPlan, RunFollows
  <2> DEFINE done == IF st.run.done + 1 < st.run.total THEN st.run.done + 1 ELSE st.run.total
  <2>2. done = driver.index /\ done \in 0..MaxFiles BY <1>0, <1>2, <1>5, <2>1
  <2>3. /\ FrameTypes' /\ MirrorOf(st') = MirrorOf(st)
        /\ st'.run = [st.run EXCEPT !.done = done, !.completed = st.run.bytes]
    BY <1>0, <1>3, <1>12, RunReducers, FoldSays DEF Verify
  <2> HIDE DEF done
  <2>4. /\ st'.run.done = driver.index /\ st'.run.completed = st.run.bytes
        /\ UNCHANGED <<st.run.bytes, st.run.total>>
    BY <1>4, <2>2, <2>3 DEF RunProgress
  <2>5. st'.run # None
    <3>1. [st.run EXCEPT !.done = done, !.completed = st.run.bytes] \in RunProgress
      BY <1>4, <2>2 DEF RunProgress
    <3> QED BY <2>3, <3>1, NoneAssumption
  <2>6. driver' = [driver EXCEPT !.at = IF driver.wired THEN "verified" ELSE "queue"]
    BY <1>12 DEF Verify
  <2>7. driver' \in Driver BY <1>1, <2>6 DEF Driver, DriverAt
  <2>8. /\ driver'.at \in {"verified", "queue"}
        /\ UNCHANGED <<driver.index, driver.total, driver.failed, driver.copied>>
    BY <1>1, <2>6 DEF Driver
  <2>9. st'.uploading = st.uploading BY <2>3 DEF MirrorOf
  <2>10. DriverInPlan' BY <1>2, <2>1, <2>8 DEF DriverInPlan
  <2>11. RunFollows' BY <1>2, <1>5, <2>1, <2>4, <2>5, <2>8 DEF RunFollows, Size
  <2> QED BY <1>6, <2>3, <2>7, <2>9, <2>10, <2>11
<1>13. CASE CommitWired
  <2>1. UNCHANGED <<st, out, last, ui, sent>> BY <1>13 DEF CommitWired, feed
  <2>2. FrameTypes' BY <2>1 DEF FrameTypes, Free
  <2>3. driver' \in Driver /\ driver' = [driver EXCEPT !.at = "queue"]
    BY <1>1, <1>13 DEF CommitWired, Driver, DriverAt
  <2>4. /\ driver'.at = "queue"
        /\ UNCHANGED <<driver.index, driver.total, driver.failed, driver.copied>>
    BY <1>1, <2>3 DEF Driver
  <2> QED BY <1>6, <1>13, <2>1, <2>2, <2>3, <2>4 DEF CommitWired, DriverInPlan, RunFollows
<1>14. CASE Queue \/ FreeCard
  <2>1. /\ FrameTypes' /\ st'.uploading = st.uploading /\ st'.run = st.run
    <3>1. CASE UNCHANGED <<st, out, feed>>
      BY <3>1 DEF feed, FrameTypes, Free
    <3>2. CASE Fold("driver", CloudQueued(st))
      <4>1. CloudQueued(st) \in AppState /\ CloudQueued(st).run = st.run
            /\ CloudQueued(st).uploading = st.uploading
        BY <1>0, MirrorReducers DEF Beside
      <4> QED BY <1>0, <3>2, <4>1, FoldMakes DEF MirrorOf
    <3>3. CASE Fold("driver", Noted(st))
      <4>1. FrameTypes' /\ st'.run = st.run /\ MirrorOf(st') = MirrorOf(st)
        BY <1>0, <3>3, RunReducers, FoldSays
      <4> QED BY <4>1 DEF MirrorOf
    <3> QED BY <1>14, <3>1, <3>2, <3>3 DEF Queue, FreeCard
  <2>2. /\ driver.at \in {"queue", "free"} /\ driver.index \in 1..driver.total
        /\ driver.copied + driver.failed <= driver.index
        /\ st.run.total = driver.total /\ st.run.completed = Size * driver.copied
        /\ st.run.bytes <= Size * driver.total /\ st.run.done \in driver.copied .. driver.index
    BY <1>14 DEF Queue, FreeCard, DriverInPlan, RunFollows
  <2>3. CASE driver' = NextFile
    <3>1. driver.index + 1 \in 0..MaxFiles + 1 BY <1>0, <1>2, <2>2
    <3>2. driver' \in Driver
      <4>1. 0 \in 0..MaxFiles BY <1>0
      <4>2. [driver EXCEPT !.at = "file", !.index = driver.index + 1, !.cum = 0] \in Driver
        BY <1>1, <3>1, <4>1, DriverUpdates
      <4> QED BY <2>3, <4>2 DEF NextFile
    <3>3. /\ driver'.at = "file" /\ driver'.index = driver.index + 1 /\ driver'.cum = 0
          /\ UNCHANGED <<driver.total, driver.copied, driver.failed>>
      BY <1>1, <2>3 DEF NextFile, Driver
    <3>4. DriverInPlan' BY <1>2, <2>2, <3>3 DEF DriverInPlan
    <3>5. RunFollows' BY <1>2, <1>3, <1>5, <2>1, <2>2, <3>3 DEF RunFollows, Size
    <3> QED BY <1>6, <2>1, <3>2, <3>4, <3>5
  <2>4. CASE driver' = [driver EXCEPT !.at = "free"]
    <3>1. driver' \in Driver BY <1>1, <2>4 DEF Driver, DriverAt
    <3>2. /\ driver'.at = "free"
          /\ UNCHANGED <<driver.index, driver.total, driver.failed, driver.copied>>
      BY <1>1, <2>4 DEF Driver
    <3>3. DriverInPlan' BY <2>2, <3>2 DEF DriverInPlan
    <3>4. RunFollows' BY <1>3, <2>1, <2>2, <3>2 DEF RunFollows
    <3> QED BY <1>6, <2>1, <3>1, <3>3, <3>4
  <2> QED BY <1>14, <2>3, <2>4 DEF Queue, FreeCard
<1> QED BY <1>7, <1>8, <1>9, <1>10, <1>11, <1>12, <1>13, <1>14


-----------------------------------------------------------------------------
(* The mirror.                                                             *)

\* A task has a row that is uploading; what is announced, a task; a report, a job.
TasksUpload ==
  /\ \A j \in Jobs : task[j] # "none" => phase[j] = "uploading"
  /\ \A i \in 1..Len(chan) : task[chan[i]] = "upload"
  /\ drain.at \in {"rest", "claim"} => \A j \in Jobs : task[j] = "none"
  /\ drain.at = "report" => drain.job \in Jobs

MirrorShown == MirrorTypes /\ TasksUpload /\ SlotIsLive

\* An offload adds rows and touches no other.
LEMMA OffloadAddsRows ==
  ASSUME Offload
  PROVE  /\ UNCHANGED <<drain, task, chan, unreported, switches, cmd>>
         /\ phase' = phase \/ \E j \in Absent : phase' = [phase EXCEPT ![j] = "queued"]
         /\ crossed' \in {crossed, crossed + 1}
<1>1. CASE Begin \/ NeverBegins \/ Scan \/ NoRoom \/ Abort \/ Complete \/ Eject
  BY <1>1 DEF Begin, NeverBegins, Scan, NoRoom, Abort, Complete, Eject, mirror
<1>2. CASE Copy \/ HalfWay \/ CopyFails \/ Verify \/ Queue \/ FreeCard
  BY <1>2 DEF Copy, HalfWay, CopyFails, Verify, Queue, FreeCard, mirror, Cross
<1>3. CASE Adopt \/ Land \/ CommitWired
  BY <1>3 DEF Adopt, Land, CommitWired, Commit
<1> QED BY <1>1, <1>2, <1>3 DEF Offload

LEMMA OffloadKeepsMirror ==
  ASSUME MirrorShown, Offload, st \in AppState, st'.uploading = st.uploading
  PROVE  MirrorShown'
<1> USE DEF MirrorShown
<1>1. UNCHANGED <<drain, task, chan, unreported>> BY OffloadAddsRows
<1>2. CASE phase' = phase
  BY <1>1, <1>2 DEF MirrorTypes, TasksUpload, SlotIsLive
<1>3. ASSUME NEW j \in Absent, phase' = [phase EXCEPT ![j] = "queued"] PROVE MirrorShown'
  <2>1. j \in Jobs /\ phase[j] = "absent" BY <1>3 DEF Absent
  <2>2. MirrorTypes' BY <1>1, <1>3, <2>1 DEF MirrorTypes, Live
  <2>3. \A k \in Jobs : k # j => phase'[k] = phase[k] BY <1>3, <2>1 DEF MirrorTypes
  <2>4. phase'[j] = "queued" BY <1>3, <2>1 DEF MirrorTypes
  <2>5. TasksUpload' BY <1>1, <2>1, <2>3 DEF TasksUpload
  <2>6. SlotIsLive' BY <1>1, <2>3, <2>4 DEF SlotIsLive, Live, AppState
  <2> QED BY <2>2, <2>5, <2>6
<1> QED BY <1>2, <1>3, OffloadAddsRows

\* What is queued to be announced is empty when no task is.
LEMMA NothingAnnounced ==
  ASSUME MirrorShown, \A j \in Jobs : task[j] = "none"
  PROVE  chan = <<>>
<1>1. chan \in Seq(Jobs) BY DEF MirrorShown, MirrorTypes
<1>2. \A i \in 1..Len(chan) : chan[i] \in Jobs /\ task[chan[i]] = "upload"
  BY <1>1 DEF MirrorShown, TasksUpload
<1>3. \A i \in 1..Len(chan) : FALSE BY <1>2
<1>4. Len(chan) = 0 BY <1>1, <1>3
<1> QED BY <1>1, <1>4

\* The rows of the drain, where no frame is folded.
LEMMA RowsKeepMirror ==
  ASSUME MirrorShown, st \in AppState, UNCHANGED st,
         \/ Tick \/ Claim \/ Drained \/ EndPass \/ DrainFails
         \/ \E j \in Jobs : RetryDue(j) \/ StartUpload(j) \/ Join(j)
  PROVE  MirrorShown'
<1> USE DEF MirrorShown
<1>0. st.uploading \in Jobs \cup {None} BY DEF AppState
<1>1. CASE Tick
  <2>1. /\ phase' = [j \in Jobs |-> IF phase[j] = "uploading" THEN "queued" ELSE phase[j]]
        /\ UNCHANGED <<task, chan, unreported>> /\ drain.at = "rest"
        /\ drain' = [drain EXCEPT !.at = "claim"]
    BY <1>1 DEF Tick
  <2>2. MirrorTypes' /\ drain'.at = "claim" BY <2>1 DEF MirrorTypes, Live
  <2>3. TasksUpload' BY <2>1, <2>2 DEF TasksUpload
  <2>4. SlotIsLive' BY <1>0, <2>1 DEF SlotIsLive, Live, MirrorTypes
  <2> QED BY <2>2, <2>3, <2>4
<1>2. CASE Claim
  <2>1. PICK jobs \in SUBSET Queued :
          /\ phase' = [j \in Jobs |-> IF j \in jobs THEN "uploading" ELSE phase[j]]
          /\ task' = [j \in Jobs |-> IF j \in jobs THEN "check" ELSE "none"]
    BY <1>2 DEF Claim
  <2>2. /\ UNCHANGED <<chan, unreported>> /\ drain.at = "claim"
        /\ drain' = [drain EXCEPT !.at = "pass"]
    BY <1>2 DEF Claim
  <2>3. MirrorTypes' /\ drain'.at = "pass" BY <2>1, <2>2 DEF MirrorTypes, Live
  <2>4. chan = <<>> BY <2>2, NothingAnnounced DEF TasksUpload
  <2>5. TasksUpload' BY <2>1, <2>2, <2>3, <2>4 DEF TasksUpload
  <2>6. SlotIsLive' BY <1>0, <2>1, <2>2 DEF SlotIsLive, Live, Queued, MirrorTypes
  <2> QED BY <2>3, <2>5, <2>6
<1>3. CASE Drained \/ EndPass
  <2>1. /\ UNCHANGED <<phase, task, chan, unreported>> /\ drain.at \in {"claim", "pass"}
        /\ drain'.at \in {"rest", "claim"} /\ drain' = [drain EXCEPT !.at = drain'.at]
        /\ \A j \in Jobs : task[j] = "none"
    BY <1>3 DEF Drained, EndPass, TasksUpload, MirrorTypes
  <2>2. MirrorTypes' BY <2>1 DEF MirrorTypes
  <2> QED BY <2>1, <2>2 DEF TasksUpload, SlotIsLive
<1>4. CASE DrainFails
  <2>1. /\ UNCHANGED <<phase, unreported>> /\ drain' = [at |-> "rest", job |-> None, event |-> None]
        /\ task' = [j \in Jobs |-> "none"] /\ chan' = <<>>
    BY <1>4 DEF DrainFails
  <2> QED BY <2>1 DEF MirrorTypes, TasksUpload, SlotIsLive
<1>5. ASSUME NEW j \in Jobs, RetryDue(j) PROVE MirrorShown'
  <2>1. /\ phase[j] = "waiting" /\ phase' = [phase EXCEPT ![j] = "queued"]
        /\ UNCHANGED <<drain, task, chan, unreported>>
    BY <1>5 DEF RetryDue
  <2>2. MirrorTypes' BY <2>1 DEF MirrorTypes, Live
  <2>3. \A k \in Jobs : phase'[k] = IF k = j THEN "queued" ELSE phase[k] BY <2>1 DEF MirrorTypes
  <2> QED BY <1>0, <2>1, <2>2, <2>3 DEF TasksUpload, SlotIsLive, Live
<1>6. ASSUME NEW j \in Jobs, StartUpload(j) PROVE MirrorShown'
  <2>1. /\ task[j] = "check" /\ task' = [task EXCEPT ![j] = "upload"] /\ chan' = Append(chan, j)
        /\ UNCHANGED <<phase, drain, unreported>>
    BY <1>6 DEF StartUpload
  <2>2. \A k \in Jobs : task'[k] = IF k = j THEN "upload" ELSE task[k] BY <2>1 DEF MirrorTypes
  <2>3. MirrorTypes' BY <2>1 DEF MirrorTypes
  <2>4. \A i \in 1..Len(chan') : task'[chan'[i]] = "upload"
    <3>1. chan \in Seq(Jobs) BY DEF MirrorTypes
    <3>2. \A i \in 1..Len(chan') : IF i \in 1..Len(chan) THEN chan'[i] = chan[i] ELSE chan'[i] = j
      BY <2>1, <3>1
    <3>3. \A i \in 1..Len(chan) : chan[i] \in Jobs BY <3>1
    <3> QED BY <2>2, <3>2, <3>3 DEF TasksUpload
  <2>5. drain.at \notin {"rest", "claim"} BY <2>1 DEF TasksUpload
  <2>6. TasksUpload' BY <2>1, <2>2, <2>4, <2>5 DEF TasksUpload
  <2> QED BY <2>1, <2>3, <2>6 DEF SlotIsLive
<1>7. ASSUME NEW j \in Jobs, NEW end \in {"done", "failed", "waiting"}, Stamp(j, end)
      PROVE  MirrorShown'
  <2>1. /\ drain.at = "pass" /\ chan = <<>> /\ chan' = <<>> /\ task[j] # "none"
        /\ task' = [task EXCEPT ![j] = "none"] /\ phase' = [phase EXCEPT ![j] = end]
    BY <1>7 DEF Stamp
  <2>2. \A k \in Jobs : /\ task'[k] = IF k = j THEN "none" ELSE task[k]
                        /\ phase'[k] = IF k = j THEN end ELSE phase[k]
    BY <2>1 DEF MirrorTypes
  <2>3. \/ end = "waiting" /\ UNCHANGED <<drain, unreported>>
        \/ /\ end # "waiting" /\ unreported' = unreported \cup {j} /\ drain'.at = "report" /\ drain'.job = j
           /\ drain' \in [at : {"report"}, job : Jobs, event : {"Mirrored", "CloudFailed"}]
    BY <1>7 DEF Stamp
  <2>4. MirrorTypes' BY <2>1, <2>3 DEF MirrorTypes, Live
  <2>5. TasksUpload' BY <2>1, <2>2, <2>3 DEF TasksUpload
  <2>6. SlotIsLive' BY <1>0, <2>2, <2>3 DEF SlotIsLive, Live
  <2> QED BY <2>4, <2>5, <2>6
<1> QED BY <1>1, <1>2, <1>3, <1>4, <1>5, <1>6, <1>7 DEF Join

\* What the drain reports leaves the run alone, and the slot to a job that has not ended.
LEMMA ReportsKeepMirror ==
  ASSUME FrameTypes, MirrorShown, Announce \/ Report \/ FreeSource
  PROVE  FrameTypes' /\ MirrorShown' /\ st'.run = st.run /\ st'.status \in {st.status, "Error"}
<1> USE DEF MirrorShown
<1>0. "cloud" \in Threads /\ st \in AppState /\ st.uploading \in Jobs \cup {None}
  BY DEF Threads, FrameTypes, AppState
<1>1. CASE Announce
  <2>1. /\ chan # <<>> /\ chan \in Seq(Jobs) /\ Fold("cloud", Uploading(st, Head(chan)))
        /\ chan' = Tail(chan) /\ UNCHANGED <<phase, drain, task, unreported>>
    BY <1>1 DEF Announce, MirrorTypes
  <2>2. /\ Head(chan) \in Jobs /\ Head(chan) = chan[1] /\ 1 \in 1..Len(chan) /\ Tail(chan) \in Seq(Jobs)
        /\ \A i \in 1..Len(Tail(chan)) : Tail(chan)[i] = chan[i + 1] /\ i + 1 \in 1..Len(chan)
    BY <2>1
  <2>3. /\ FrameTypes' /\ st'.run = st.run /\ st'.status \in {st.status, "Error"}
        /\ st'.uploading = Head(chan)
    <3>1. /\ Uploading(st, Head(chan)) \in AppState /\ Uploading(st, Head(chan)).run = st.run
          /\ Uploading(st, Head(chan)).status \in {st.status, "Error"}
          /\ Uploading(st, Head(chan)).uploading = Head(chan)
      <4>1. st \in AppState /\ Head(chan) \in Jobs BY <1>0, <2>2
      <4> HIDE DEF MirrorShown
      <4> QED BY <4>1, MirrorReducers DEF Beside
    <3> QED BY <1>0, <2>1, <3>1, FoldMakes DEF MirrorOf
  <2>4. MirrorTypes' BY <2>1, <2>2 DEF MirrorTypes
  <2>5. TasksUpload' BY <2>1, <2>2 DEF TasksUpload
  <2>6. phase[Head(chan)] = "uploading" BY <2>2 DEF TasksUpload
  <2>7. SlotIsLive' BY <2>1, <2>3, <2>6 DEF SlotIsLive, Live
  <2> QED BY <2>3, <2>4, <2>5, <2>7
<1>2. CASE Report
  <2>1. /\ drain.at = "report" /\ drain.job \in Jobs /\ unreported' = unreported \ {drain.job}
        /\ drain' \in [at : {"pass", "free"}, job : {None}, event : {None}]
        /\ UNCHANGED <<phase, task, chan>>
    BY <1>2 DEF Report, TasksUpload
  <2>2. PICK s : /\ s \in AppState /\ s.run = st.run /\ s.status \in {st.status, "Error"}
                 /\ s.uploading = IF st.uploading = drain.job THEN None ELSE st.uploading
                 /\ Fold("cloud", s)
    <3>1. CASE drain.event = "Mirrored"
      BY <1>0, <1>2, <2>1, <3>1, MirrorReducers DEF Report, Beside
    <3>2. CASE drain.event # "Mirrored"
      BY <1>0, <1>2, <2>1, <3>2, MirrorReducers DEF Report, Beside
    <3> QED BY <3>1, <3>2
  <2>3. /\ FrameTypes' /\ st'.run = st.run /\ st'.status \in {st.status, "Error"}
        /\ st'.uploading = IF st.uploading = drain.job THEN None ELSE st.uploading
    BY <1>0, <2>2, FoldMakes DEF MirrorOf
  <2>4. MirrorTypes' BY <2>1 DEF MirrorTypes
  <2>5. TasksUpload' BY <2>1 DEF TasksUpload
  <2>6. SlotIsLive' BY <2>1, <2>3 DEF SlotIsLive
  <2> QED BY <2>3, <2>4, <2>5, <2>6
<1>3. CASE FreeSource
  <2>1. /\ drain.at = "free" /\ drain' = [drain EXCEPT !.at = "pass"] /\ Fold("cloud", Noted(st))
        /\ UNCHANGED <<phase, task, chan, unreported>>
    BY <1>3 DEF FreeSource
  <2>2. FrameTypes' /\ st'.run = st.run /\ st'.status = st.status /\ MirrorOf(st') = MirrorOf(st)
    BY <1>0, <2>1, RunReducers, FoldSays
  <2>3. drain'.at = "pass" /\ MirrorTypes' BY <2>1 DEF MirrorTypes
  <2>4. st'.uploading = st.uploading BY <2>2 DEF MirrorOf
  <2> QED BY <2>1, <2>2, <2>3, <2>4 DEF TasksUpload, SlotIsLive
<1> QED BY <1>1, <1>2, <1>3

\* The loop as a whole.
LEMMA MirrorLoopShows ==
  ASSUME FrameTypes, MirrorShown, MirrorLoop
  PROVE  /\ FrameTypes' /\ MirrorShown' /\ st'.run = st.run /\ st'.status \in {st.status, "Error"}
         /\ UNCHANGED <<offload, switches, cmd>> /\ crossed' \in {crossed, crossed + 1}
<1>1. UNCHANGED <<offload, switches, cmd>> /\ crossed' \in {crossed, crossed + 1}
  BY DEF MirrorLoop, Tick, Claim, Drained, Announce, Report, FreeSource, EndPass, DrainFails, RetryDue,
         StartUpload, Join, Stamp, Cross
<1>2. CASE Announce \/ Report \/ FreeSource
  BY <1>1, <1>2, ReportsKeepMirror
<1>3. CASE \/ Tick \/ Claim \/ Drained \/ EndPass \/ DrainFails
           \/ \E j \in Jobs : RetryDue(j) \/ StartUpload(j) \/ Join(j)
  <2>1. UNCHANGED <<st, out, last, ui, sent>>
    BY <1>3 DEF Tick, Claim, Drained, EndPass, DrainFails, RetryDue, StartUpload, Join, Stamp, feed
  <2>2. FrameTypes' BY <2>1 DEF FrameTypes, Free
  <2>3. MirrorShown' BY <1>3, <2>1, RowsKeepMirror DEF FrameTypes
  <2> QED BY <1>1, <2>1, <2>2, <2>3
<1> QED BY <1>2, <1>3 DEF MirrorLoop

-----------------------------------------------------------------------------
(* The commands.                                                           *)

LEMMA CountsTyped ==
  ASSUME NEW rows
  PROVE  /\ Cardinality({j \in Jobs : rows[j] \in Live}) \in 0..Cardinality(Jobs)
         /\ Cardinality({j \in Jobs : rows[j] = "failed"}) \in 0..Cardinality(Jobs)
<1>1. IsFiniteSet(Jobs) /\ Cardinality(Jobs) \in Nat BY BoundsAssumption, FS_CardinalityType
<1>2. \A T \in SUBSET Jobs : Cardinality(T) \in 0..Cardinality(Jobs)
  <2> TAKE T \in SUBSET Jobs
  <2>1. IsFiniteSet(T) /\ Cardinality(T) <= Cardinality(Jobs) BY <1>1, FS_Subset
  <2> QED BY <1>1, <2>1, FS_CardinalityType
<1> QED BY <1>2

LEMMA CommandsShow ==
  ASSUME FrameTypes, MirrorShown, CommandTypes, Commands
  PROVE  /\ FrameTypes' /\ MirrorShown' /\ CommandTypes' /\ st'.run = st.run /\ st'.status = st.status
         /\ UNCHANGED offload
<1> USE DEF MirrorShown
<1>0. /\ "command" \in Threads /\ st \in AppState /\ st.uploading \in Jobs \cup {None}
      /\ 0 \in 0..Cardinality(Jobs)
  BY BoundsAssumption, FS_CardinalityType DEF Threads, FrameTypes, AppState
<1>1. ASSUME NEW p \in BOOLEAN, SetPaused(p)
      PROVE  /\ FrameTypes' /\ MirrorShown' /\ CommandTypes' /\ st'.run = st.run /\ st'.status = st.status
             /\ UNCHANGED offload
  <2>1. UNCHANGED <<st, out, last, ui, sent, phase, drain, task, chan, unreported, configured,
                 crossed, offload>>
    BY <1>1 DEF SetPaused, feed, mirror
  <2>2. FrameTypes' /\ MirrorTypes' /\ TasksUpload' /\ SlotIsLive'
    BY <2>1 DEF FrameTypes, Free, MirrorTypes, TasksUpload, SlotIsLive
  <2>3. CommandTypes' BY <1>1, <2>1 DEF SetPaused, CommandTypes
  <2> QED BY <2>1, <2>2, <2>3
<1>2. CASE SaveConfig
  <2>1. /\ UNCHANGED <<st, out, last, ui, sent, phase, drain, task, chan, unreported, paused, configured,
                     offload>>
        /\ cmd' = Counts("save", phase) /\ crossed' \in 0..1
    BY <1>2 DEF SaveConfig, Count, feed, mirror, switches
  <2>2. FrameTypes' /\ MirrorTypes' /\ TasksUpload' /\ SlotIsLive'
    BY <2>1 DEF FrameTypes, Free, MirrorTypes, TasksUpload, SlotIsLive
  <2>3. CommandTypes' BY <2>1, CountsTyped DEF Counts, CommandTypes
  <2> QED BY <2>1, <2>2, <2>3
<1>3. CASE RetryFailed
  <2>1. /\ UNCHANGED <<st, out, last, ui, sent, drain, task, chan, unreported, paused, configured,
                     offload>>
        /\ cmd' = Counts("retry", phase') /\ crossed' \in 0..1
        /\ phase' = [j \in Jobs |-> IF phase[j] = "failed" THEN "queued" ELSE phase[j]]
    BY <1>3 DEF RetryFailed, Count, feed, switches
  <2>2. FrameTypes' BY <2>1 DEF FrameTypes, Free
  <2>3. MirrorTypes' BY <2>1 DEF MirrorTypes, Live
  <2>4. TasksUpload'
    <3>1. \A j \in Jobs : phase[j] = "uploading" => phase'[j] = "uploading" BY <2>1
    <3> QED BY <2>1, <3>1 DEF TasksUpload
  <2>5. SlotIsLive' BY <1>0, <2>1 DEF SlotIsLive, Live
  <2>6. CommandTypes'
    <3> DEFINE rows == phase'
    <3>1. cmd' = Counts("retry", rows) BY <2>1
    <3> HIDE DEF rows
    <3>2. cmd' \in [what : {"pause", "resume", "retry", "save", None}, counted : BOOLEAN,
                    pending : 0..Cardinality(Jobs), failed : 0..Cardinality(Jobs)]
      BY <3>1, CountsTyped DEF Counts
    <3> QED BY <2>1, <3>2 DEF CommandTypes
  <2> QED BY <2>1, <2>2, <2>3, <2>4, <2>5, <2>6
<1>4. CASE Answer
  <2>0. cmd.pending \in Nat /\ cmd.failed \in Nat /\ cmd.what \in {"pause", "resume", "retry", "save"}
    BY <1>4, BoundsAssumption, FS_CardinalityType DEF Answer, CommandTypes
  <2>1. PICK s : /\ s \in AppState /\ s.run = st.run /\ s.status = st.status
                 /\ s.uploading \in {st.uploading, None} /\ Fold("command", s)
    <3>1. CASE cmd.what \in {"pause", "resume"}
      <4>1. Fold("command", [st EXCEPT !.paused = (cmd.what = "pause")]) BY <1>4, <3>1 DEF Answer
      <4> QED BY <1>0, <4>1 DEF AppState
    <3>2. CASE cmd.what = "retry"
      <4>1. Fold("command", [st EXCEPT !.pending = cmd.pending, !.failed = cmd.failed])
        BY <1>4, <3>2 DEF Answer
      <4> QED BY <1>0, <2>0, <4>1 DEF AppState
    <3>3. CASE cmd.what = "save"
      <4>1. Fold("command", Applied) BY <1>4, <3>3 DEF Answer
      <4>2. /\ Applied \in AppState /\ Applied.run = st.run /\ Applied.status = st.status
            /\ Applied.uploading \in {st.uploading, None}
        BY <1>0, <2>0 DEF Applied, AppState
      <4> QED BY <4>1, <4>2
    <3> QED BY <2>0, <3>1, <3>2, <3>3
  <2>2. /\ FrameTypes' /\ st'.run = st.run /\ st'.status = st.status
        /\ st'.uploading \in {st.uploading, None}
    BY <1>0, <2>1, FoldMakes DEF MirrorOf
  <2>3. UNCHANGED <<phase, drain, task, chan, unreported, offload>> BY <1>4 DEF Answer, mirror
  <2>4. MirrorTypes' /\ TasksUpload' /\ SlotIsLive'
    BY <2>2, <2>3 DEF MirrorTypes, TasksUpload, SlotIsLive
  <2>5. CommandTypes' BY <1>0, <1>4 DEF Answer, CommandTypes
  <2> QED BY <2>2, <2>3, <2>4, <2>5
<1> QED BY <1>1, <1>2, <1>3, <1>4 DEF Commands

-----------------------------------------------------------------------------
(* What the snapshot says of the offload and the mirror, as an invariant.  *)

FeedWork == FrameTypes /\ OffloadShown /\ MirrorShown /\ CommandTypes /\ CountTypes

LEMMA OffloadShows ==
  ASSUME FrameTypes, OffloadShown, MirrorShown, CommandTypes, Offload
  PROVE  FrameTypes' /\ OffloadShown' /\ MirrorShown' /\ CommandTypes'
<1>1. FrameTypes' /\ OffloadShown' /\ st'.uploading = st.uploading
  <2>1. CASE Begin \/ NeverBegins \/ Scan \/ NoRoom \/ Abort \/ Complete \/ Eject
    BY <2>1, EdgesShow DEF MirrorOf
  <2>2. CASE Adopt \/ Copy \/ HalfWay \/ CopyFails \/ Land \/ Verify \/ CommitWired \/ Queue \/ FreeCard
    BY <2>2, FilesShow
  <2> QED BY <2>1, <2>2 DEF Offload
<1>2. MirrorShown' BY <1>1, OffloadKeepsMirror DEF FrameTypes
<1>3. CommandTypes' BY OffloadAddsRows DEF CommandTypes, switches
<1> QED BY <1>1, <1>2, <1>3

\* Every counter of a step is below its bound before it.
LEMMA CountsStay ==
  ASSUME CountTypes, Next
  PROVE  CountTypes'
<1>0. MaxRuns \in Nat /\ MaxFaults \in Nat /\ MaxCommands \in Nat BY BoundsAssumption
<1>1. CASE \/ UNCHANGED count
           \/ count.runs < MaxRuns /\ count' = [count EXCEPT !.runs = @ + 1]
           \/ count.faults < MaxFaults /\ count' = [count EXCEPT !.faults = @ + 1]
           \/ count.commands < MaxCommands /\ count' = [count EXCEPT !.commands = @ + 1]
  <2>1. /\ count.runs \in Nat /\ count.runs <= MaxRuns /\ count.faults \in Nat /\ count.faults <= MaxFaults
        /\ count.commands \in Nat /\ count.commands <= MaxCommands
    BY <1>0 DEF CountTypes
  <2>2. CASE UNCHANGED count BY <2>2 DEF CountTypes
  <2>3. CASE count.runs < MaxRuns /\ count' = [count EXCEPT !.runs = @ + 1]
    BY <1>0, <2>1, <2>3 DEF CountTypes
  <2>4. CASE count.faults < MaxFaults /\ count' = [count EXCEPT !.faults = @ + 1]
    BY <1>0, <2>1, <2>4 DEF CountTypes
  <2>5. CASE count.commands < MaxCommands /\ count' = [count EXCEPT !.commands = @ + 1]
    BY <1>0, <2>1, <2>5 DEF CountTypes
  <2> QED BY <1>1, <2>2, <2>3, <2>4, <2>5
<1>2. CASE Offload
  <2>1. CASE Begin \/ NeverBegins \/ Scan \/ NoRoom \/ Abort \/ Complete \/ Eject
    BY <1>1, <2>1 DEF Begin, NeverBegins, Scan, NoRoom, Abort, Complete, Eject, Fails
  <2>2. CASE Adopt \/ Copy \/ HalfWay \/ CopyFails \/ Land \/ Verify \/ CommitWired \/ Queue \/ FreeCard
    BY <1>1, <2>2 DEF Adopt, Copy, HalfWay, CopyFails, Land, Verify, CommitWired, Queue, FreeCard, Fails
  <2> QED BY <1>2, <2>1, <2>2 DEF Offload
<1>3. CASE MirrorLoop
  BY <1>1, <1>3 DEF MirrorLoop, Tick, Claim, Drained, Announce, Report, FreeSource, EndPass, DrainFails,
         RetryDue, StartUpload, Join, Fails
<1>4. CASE Commands
  BY <1>1, <1>4 DEF Commands, SetPaused, RetryFailed, SaveConfig, Answer, MayCommand
<1>5. CASE Window \/ \E t \in Threads : ShouldEmit(t) \/ Emit(t)
  BY <1>1, <1>5 DEF Window, GetState, Hydrate, ShouldEmit, Emit
<1> QED BY <1>2, <1>3, <1>4, <1>5 DEF Next

LEMMA FeedWorkInit == Init => FeedWork
<1> SUFFICES ASSUME Init PROVE FeedWork OBVIOUS
<1> USE DEF Init
<1>0. /\ IsFiniteSet(Jobs) /\ MaxFiles \in Nat /\ MaxRuns \in Nat /\ MaxFaults \in Nat /\ MaxCommands \in Nat
      /\ None \notin Jobs /\ None # "bad"
  BY BoundsAssumption, NoneAssumption
<1>1. Pending \in Nat /\ Failed \in Nat
  BY <1>0, FS_Subset, FS_CardinalityType DEF Pending, Failed
<1>2. Blank \in AppState BY DEF Blank, AppState
<1>3. st \in AppState /\ st.seq = 0 /\ st.run = None /\ st.uploading = None
  <2>1. st \in AppState BY <1>1, <1>2 DEF Seed, AppState
  <2>2. st.seq = Blank.seq /\ st.run = Blank.run /\ st.uploading = Blank.uploading
    BY <1>2 DEF Seed, AppState
  <2> QED BY <2>1, <2>2 DEF Blank
<1>4. FrameTypes BY <1>2, <1>3 DEF FrameTypes, Free
<1>5. OffloadShown
  <2>1. DriverTypes BY <1>0 DEF DriverTypes, AtRest, Size
  <2>2. DriverInPlan BY DEF DriverInPlan, AtRest
  <2>3. RunFollows BY <1>0, <1>3 DEF RunFollows, AtRest
  <2> QED BY <2>1, <2>2, <2>3 DEF OffloadShown
<1>6. MirrorShown BY <1>3 DEF MirrorShown, MirrorTypes, TasksUpload, SlotIsLive, Live
<1>7. CommandTypes
  <2>1. 0 \in 0..Cardinality(Jobs) BY <1>0, FS_CardinalityType
  <2> QED BY <2>1 DEF CommandTypes
<1>8. CountTypes BY <1>0 DEF CountTypes
<1> QED BY <1>4, <1>5, <1>6, <1>7, <1>8 DEF FeedWork

LEMMA FeedWorkStep ==
  ASSUME FeedWork, [Next]_vars
  PROVE  FeedWork'
<1> USE DEF FeedWork
<1>1. CASE Offload
  <2>1. CountTypes' BY <1>1, CountsStay DEF Next
  <2> QED BY <1>1, <2>1, OffloadShows
<1>2. CASE MirrorLoop \/ Commands
  <2>1. CountTypes' BY <1>2, CountsStay DEF Next
  <2>2. /\ FrameTypes' /\ MirrorShown' /\ CommandTypes' /\ st'.run = st.run
        /\ st'.status \in {st.status, "Error"} /\ UNCHANGED <<driver, outcome>>
    <3>1. CASE MirrorLoop BY <3>1, MirrorLoopShows DEF CommandTypes, switches, offload
    <3>2. CASE Commands BY <3>2, CommandsShow DEF offload
    <3> QED BY <1>2, <3>1, <3>2
  <2>3. OffloadShown' BY <2>2 DEF OffloadShown, DriverTypes, DriverInPlan, RunFollows
  <2> QED BY <2>1, <2>2, <2>3
<1>3. CASE Window \/ (\E t \in Threads : ShouldEmit(t) \/ Emit(t)) \/ UNCHANGED vars
  <2>1. FrameTypes' /\ UNCHANGED <<st, offload, mirror, switches, cmd, crossed, count>>
    <3>1. CASE Window BY <3>1, WindowKeepsFrames DEF MirrorShown
    <3>2. CASE \E t \in Threads : ShouldEmit(t) \/ Emit(t) BY <3>2, SendKeepsFrames
    <3>3. CASE UNCHANGED vars
      BY <3>3 DEF vars, offload, mirror, switches, FrameTypes, Free
    <3> QED BY <1>3, <3>1, <3>2, <3>3
  <2>2. UNCHANGED <<st, driver, outcome, phase, drain, task, chan, unreported, paused, configured, cmd,
                 crossed, count>>
    BY <2>1 DEF offload, mirror, switches
  <2>3. OffloadShown' BY <2>2 DEF OffloadShown, DriverTypes, DriverInPlan, RunFollows
  <2>4. MirrorShown' BY <2>2 DEF MirrorShown, MirrorTypes, TasksUpload, SlotIsLive
  <2>5. CommandTypes' /\ CountTypes' BY <2>2 DEF CommandTypes, CountTypes
  <2> QED BY <2>1, <2>3, <2>4, <2>5
<1> QED BY <1>1, <1>2, <1>3 DEF Next

LEMMA FeedWorkHolds == Spec => []FeedWork
<1>1. Init => FeedWork BY FeedWorkInit
<1>2. FeedWork /\ [Next]_vars => FeedWork' BY FeedWorkStep
<1> QED BY <1>1, <1>2, PTL DEF Spec

-----------------------------------------------------------------------------
(* What follows of it.                                                     *)

\* Every variable has its type, and the job the popover shows as uploading is one that is, or
\* one whose end no event has told: no retry of what failed, no drain that breaks off and no
\* announcement that waited in the channel fills the slot with a job that was told to be over
\* (app_state.rs, CloudUploading and the events that clear it).
THEOREM SlotTells == Spec => []FeedInv
<1>1. FeedWork => FeedInv
  <2> SUFFICES ASSUME FeedWork PROVE FeedInv OBVIOUS
  <2> USE DEF FeedWork
  <2>1. /\ st \in AppState /\ last \in 0..st.seq
        /\ \A t \in Threads : /\ out[t].at \in {"free", "guard", "emit"}
                              /\ out[t].frame \in AppState \cup {None}
        /\ ui.frame \in AppState /\ ui.copy \in AppState \cup {None}
        /\ ui.seen \in BOOLEAN /\ ui.hydrate \in {"no", "cloned", "done"}
        /\ sent \in AppState
    BY DEF FrameTypes
  <2>2. /\ driver.at \in {"rest", "scan", "file", "copying", "landed", "verified", "queue",
                          "free", "eject", "abort"}
        /\ driver.index \in 0..MaxFiles + 1 /\ driver.failed \in 0..MaxFiles
        /\ outcome \in {"clean", "bad", None}
    BY DEF OffloadShown, DriverTypes
  <2>3. MirrorTypes /\ SlotIsLive BY DEF MirrorShown
  <2>4. TypeOK BY <2>1, <2>2, <2>3 DEF TypeOK, MirrorTypes, CommandTypes, CountTypes
  <2> QED BY <2>3, <2>4 DEF FeedInv
<1> QED BY <1>1, FeedWorkHolds, PTL

\* The progress shown is that of the offload that runs, whatever the mirror, the popover's
\* commands and the window do meanwhile: its files and bytes are those of the plan and of the
\* files that landed, there is none once it is over, one that failed leaves the error, and
\* while one runs the tray never shows an idle app (app_state.rs, apply and derive_tray_state).
THEOREM RunIsShown == Spec => []RunIsTheOffloads
<1>1. FeedWork => RunIsTheOffloads
  <2> SUFFICES ASSUME FeedWork PROVE RunIsTheOffloads OBVIOUS
  <2>1. RunFollows BY DEF FeedWork, OffloadShown
  <2>2. driver.at \in {"rest", "eject"} => st.run = None BY <2>1 DEF RunFollows
  <2>3. driver.at = "rest" /\ outcome = "bad" => Tray(st) = "error" BY <2>1 DEF RunFollows, Tray
  <2>4. driver.at \notin {"rest", "eject"} => Tray(st) # "idle" BY <2>1 DEF RunFollows, Tray
  <2>5. driver.at = "file" =>
          /\ st.run.total = driver.total
          /\ st.run.completed = Size * driver.copied
          /\ st.run.bytes <= Size * driver.total
          /\ st.run.done \in driver.copied .. driver.index - 1
    BY <2>1 DEF RunFollows
  <2> QED BY <2>2, <2>3, <2>4, <2>5 DEF RunIsTheOffloads
<1> QED BY <1>1, FeedWorkHolds, PTL

-----------------------------------------------------------------------------
(* The badges.                                                             *)

\* The counts as the answer that is on its way has them, or else the last fold; and what
\* they may lack.
HeldPending == crossed + IF cmd.counted THEN cmd.pending ELSE st.pending
HeldFailed == crossed + IF cmd.counted THEN cmd.failed ELSE st.failed

\* A row that is there and not yet counted; one that has ended and is still counted.
Owed == IF driver.mirroring /\ (driver.at = "queue" \/ (driver.at = "landed" /\ ~driver.wired))
        THEN 1 ELSE 0
Ending == IF drain.at = "report" THEN 1 ELSE 0

LiveRows == {j \in Jobs : phase[j] \in Live}
Untold == {j \in Jobs : phase[j] = "failed"} \ unreported

CountsCover ==
  configured \/ cmd.counted =>
    /\ HeldPending + Owed >= Pending + Ending
    /\ HeldFailed >= Cardinality(Untold)

\* A row whose upload is reported is done: a retry may have taken one that failed back
\* before its report.  Only a retry or a save has counted.
ReportIsOfItsRow ==
  /\ drain.at = "report" /\ drain.event = "Mirrored" => phase[drain.job] = "done"
  /\ cmd.counted <=> cmd.what \in {"retry", "save"}

Badges == CountsCover /\ ReportIsOfItsRow

LEMMA JobSets ==
  ASSUME NEW S \in SUBSET Jobs
  PROVE  /\ Cardinality(S) \in Nat
         /\ \A T \in SUBSET S : Cardinality(T) <= Cardinality(S) /\ Cardinality(T) \in Nat
         /\ \A j \in Jobs \ S : Cardinality(S \cup {j}) = Cardinality(S) + 1
<1>1. IsFiniteSet(S) BY BoundsAssumption, FS_Subset
<1> QED BY <1>1, FS_Subset, FS_AddElement, FS_CardinalityType

LEMMA CountsAreNumbers ==
  ASSUME FeedWork
  PROVE  /\ HeldPending \in Nat /\ HeldFailed \in Nat /\ Owed \in 0..1 /\ Ending \in 0..1
         /\ Pending \in Nat /\ Pending = Cardinality(LiveRows) /\ Cardinality(Untold) \in Nat
         /\ LiveRows \in SUBSET Jobs /\ Untold \in SUBSET Jobs
<1>1. cmd.pending \in Nat /\ cmd.failed \in Nat /\ st.pending \in Nat /\ st.failed \in Nat
      /\ crossed \in Nat
  <2>1. Cardinality(Jobs) \in Nat BY BoundsAssumption, FS_CardinalityType
  <2> QED BY <2>1 DEF FeedWork, CommandTypes, FrameTypes, AppState
<1>2. LiveRows \in SUBSET Jobs /\ Untold \in SUBSET Jobs BY DEF LiveRows, Untold
<1>3. Cardinality(LiveRows) \in Nat /\ Cardinality(Untold) \in Nat BY <1>2, JobSets
<1>4. Pending = Cardinality(LiveRows) BY DEF Pending, LiveRows
<1>5. Owed \in 0..1 /\ Ending \in 0..1 BY DEF Owed, Ending
<1> QED BY <1>1, <1>2, <1>3, <1>4, <1>5 DEF HeldPending, HeldFailed

\* An offload adds a row, then owes its count, then pays it.
OwesNoMore ==
  /\ phase' = phase /\ Owed' >= Owed
  /\ UNCHANGED <<HeldPending, HeldFailed>>
AddsARow ==
  /\ \E j \in Absent : phase' = [phase EXCEPT ![j] = "queued"]
  /\ Owed = 0 /\ Owed' = 1
  /\ UNCHANGED <<HeldPending, HeldFailed>>
CountsTheRow ==
  /\ phase' = phase
  /\ Owed = 1 /\ Owed' = 0
  /\ HeldPending' = HeldPending + 1 /\ HeldFailed' \in {HeldFailed, HeldFailed + 1}

\* A step that leaves the counts where they are, and is not the ledger's, changes nothing here.
LEMMA HeldStays ==
  ASSUME UNCHANGED <<cmd, crossed>>, st'.pending = st.pending, st'.failed = st.failed
  PROVE  UNCHANGED <<HeldPending, HeldFailed>>
BY DEF HeldPending, HeldFailed

LEMMA OffloadOwes ==
  ASSUME FeedWork, Offload
  PROVE  OwesNoMore \/ AddsARow \/ CountsTheRow
<1> USE DEF FeedWork, OffloadShown
<1>0. /\ "driver" \in Threads /\ st \in AppState /\ driver \in Driver
  BY DriverTypesAre DEF Threads, FrameTypes
<1>01. cmd' = cmd BY OffloadAddsRows
<1>02. ASSUME crossed' = crossed, st'.pending = st.pending, st'.failed = st.failed
       PROVE  UNCHANGED <<HeldPending, HeldFailed>>
  BY <1>01, <1>02, HeldStays
<1>1. CASE Begin \/ NeverBegins \/ Scan \/ NoRoom \/ Abort \/ Complete \/ Eject
  <2>1. st'.pending = st.pending /\ st'.failed = st.failed BY <1>1, EdgesShow DEF MirrorOf
  <2>2. phase' = phase /\ crossed' = crossed
    BY <1>1 DEF Begin, NeverBegins, Scan, NoRoom, Abort, Complete, Eject, mirror
  <2>3. driver.at \notin {"queue", "landed"}
    BY <1>1 DEF Begin, NeverBegins, Scan, NoRoom, Abort, MayAbort, Complete, Eject
  <2>4. Owed = 0 /\ Owed' \in 0..1 BY <2>3 DEF Owed
  <2> QED BY <1>02, <2>1, <2>2, <2>4 DEF OwesNoMore
<1>2. ASSUME Copy \/ HalfWay \/ CopyFails \/ Land \/ Verify \/ FreeCard
      PROVE  UNCHANGED <<HeldPending, HeldFailed>>
  <2>0. crossed' = crossed BY <1>2 DEF Copy, HalfWay, CopyFails, Land, Verify, FreeCard
  <2>1. st.run # None BY <1>2 DEF RunFollows, Copy, HalfWay, CopyFails, Land, Verify, FreeCard
  <2>2. ASSUME MirrorOf(st') = MirrorOf(st) PROVE UNCHANGED <<HeldPending, HeldFailed>>
    BY <1>02, <2>0, <2>2 DEF MirrorOf
  <2>3. CASE Copy
    <3>1. driver.index \in 1..MaxFiles + 1
      BY <2>3, <1>0, BoundsAssumption DEF Copy, Driver, DriverInPlan
    <3> QED BY <1>0, <2>2, <2>3, <3>1, RunReducers, FoldSays DEF Copy
  <2>4. CASE HalfWay BY <1>0, <2>1, <2>2, <2>4, RunReducers, FoldSays DEF HalfWay
  <2>5. CASE Land BY <1>0, <2>1, <2>2, <2>5, RunReducers, FoldSays DEF Land, Size
  <2>6. CASE Verify BY <1>0, <2>1, <2>2, <2>6, RunReducers, FoldSays DEF Verify
  <2>7. CASE CopyFails \/ FreeCard BY <1>0, <2>2, <2>7, RunReducers, FoldSays DEF CopyFails, FreeCard
  <2> QED BY <1>2, <2>3, <2>4, <2>5, <2>6, <2>7
<1>3. CASE Copy \/ HalfWay \/ CopyFails \/ FreeCard
  <2>1. phase' = phase /\ driver.at \notin {"queue", "landed"}
    BY <1>3 DEF Copy, HalfWay, CopyFails, FreeCard, mirror
  <2>2. Owed = 0 /\ Owed' \in 0..1 BY <2>1 DEF Owed
  <2> QED BY <1>2, <1>3, <2>1, <2>2 DEF OwesNoMore
<1>4. CASE Land
  <2>1. /\ driver.at = "copying" /\ driver'.at = "landed"
        /\ driver'.mirroring = driver.mirroring /\ driver'.wired = driver.wired
    BY <1>0, <1>4 DEF Land, Driver
  <2>2. Owed = 0 /\ Owed' = IF driver.mirroring /\ ~driver.wired THEN 1 ELSE 0 BY <2>1 DEF Owed
  <2> QED BY <1>2, <1>4, <2>2 DEF Land, Commit, OwesNoMore, AddsARow
<1>5. CASE Verify
  <2>1. /\ driver.at = "landed" /\ driver'.mirroring = driver.mirroring /\ phase' = phase
        /\ ~driver.wired => driver'.at = "queue"
    BY <1>0, <1>5 DEF Verify, Driver, mirror
  <2>2. Owed' >= Owed BY <2>1 DEF Owed
  <2> QED BY <1>2, <1>5, <2>1, <2>2 DEF OwesNoMore
<1>6. CASE Adopt \/ CommitWired
  <2>1. /\ driver.at \in {"file", "verified"} /\ driver'.at = "queue"
        /\ driver'.mirroring = driver.mirroring /\ st' = st
    BY <1>0, <1>6 DEF Adopt, CommitWired, Driver
  <2>2. Owed = 0 /\ Owed' = IF driver.mirroring THEN 1 ELSE 0 BY <2>1 DEF Owed
  <2>3. UNCHANGED <<HeldPending, HeldFailed>> BY <1>02, <1>6, <2>1 DEF Adopt, CommitWired
  <2> QED BY <1>6, <2>1, <2>2, <2>3 DEF Adopt, CommitWired, Commit, OwesNoMore, AddsARow
<1>7. CASE Queue
  <2>1. /\ driver.at = "queue" /\ driver'.at \in {"file", "free"} /\ phase' = phase
    BY <1>0, <1>7 DEF Queue, NextFile, Driver, mirror
  <2>2. Owed' = 0 /\ Owed = IF driver.mirroring THEN 1 ELSE 0 BY <2>1 DEF Owed
  <2>3. CASE driver.mirroring
    <3>1. Fold("driver", CloudQueued(st)) BY <1>7, <2>3 DEF Queue
    <3>2. /\ CloudQueued(st) \in AppState /\ CloudQueued(st).pending = st.pending + 1
          /\ CloudQueued(st).failed = st.failed
      BY <1>0, MirrorReducers DEF Beside
    <3>3. MirrorOf(st') = MirrorOf(CloudQueued(st)) BY <1>0, <3>1, <3>2, FoldMakes
    <3>4. st'.pending = st.pending + 1 /\ st'.failed = st.failed BY <3>2, <3>3 DEF MirrorOf
    <3>5. crossed' = IF cmd.counted THEN crossed + 1 ELSE crossed BY <1>7, <2>3 DEF Queue, Cross
    <3>6. /\ crossed \in Nat /\ st.pending \in Nat /\ st.failed \in Nat
          /\ cmd.pending \in Nat /\ cmd.failed \in Nat
      BY <1>0, BoundsAssumption, FS_CardinalityType DEF CommandTypes, AppState
    <3>7. HeldPending' = HeldPending + 1 /\ HeldFailed' \in {HeldFailed, HeldFailed + 1}
      <4>1. CASE cmd.counted BY <1>01, <3>5, <3>6, <4>1 DEF HeldPending, HeldFailed
      <4>2. CASE ~cmd.counted BY <1>01, <3>4, <3>5, <3>6, <4>2 DEF HeldPending, HeldFailed
      <4> QED BY <4>1, <4>2
    <3> QED BY <2>1, <2>2, <2>3, <3>7 DEF CountsTheRow
  <2>4. CASE ~driver.mirroring
    <3>1. UNCHANGED <<st, crossed>> BY <1>7, <2>4 DEF Queue
    <3>2. UNCHANGED <<HeldPending, HeldFailed>> BY <1>02, <3>1
    <3> QED BY <2>1, <2>2, <2>4, <3>2 DEF OwesNoMore
  <2> QED BY <2>3, <2>4
<1> QED BY <1>1, <1>3, <1>4, <1>5, <1>6, <1>7 DEF Offload

LEMMA OffloadKeepsBadges ==
  ASSUME FeedWork, Badges, Offload
  PROVE  Badges'
<1> USE DEF Badges
<1>1. UNCHANGED <<drain, unreported, configured, cmd>> BY OffloadAddsRows DEF switches
<1>2. Ending' = Ending BY <1>1 DEF Ending
<1>3. /\ HeldPending \in Nat /\ HeldFailed \in Nat /\ Owed \in 0..1 /\ Owed' \in 0..1 /\ Ending \in 0..1
      /\ Pending \in Nat /\ Cardinality(Untold) \in Nat
  BY CountsAreNumbers DEF Owed
<1>4. CASE OwesNoMore
  <2>1. Pending' = Pending /\ Untold' = Untold BY <1>1, <1>4 DEF OwesNoMore, Pending, Untold
  <2>2. HeldPending' = HeldPending /\ HeldFailed' = HeldFailed BY <1>4 DEF OwesNoMore
  <2>3. Owed' >= Owed BY <1>4 DEF OwesNoMore
  <2>4. CountsCover'
    <3> SUFFICES ASSUME configured \/ cmd.counted
                 PROVE  HeldPending' + Owed' >= Pending' + Ending' /\ HeldFailed' >= Cardinality(Untold')
      BY <1>1 DEF CountsCover
    <3>1. HeldPending + Owed >= Pending + Ending /\ HeldFailed >= Cardinality(Untold) BY DEF CountsCover
    <3>2. HeldPending + Owed' >= Pending + Ending
      <4>1. \A h, p \in Nat, o, n, e \in 0..1 : h + o >= p + e /\ n >= o => h + n >= p + e
        OBVIOUS
      <4>2. HeldPending \in Nat /\ Pending \in Nat /\ Owed \in 0..1 /\ Owed' \in 0..1 /\ Ending \in 0..1
        BY <1>3
      <4> QED BY <2>3, <3>1, <4>1, <4>2
    <3> QED BY <1>2, <2>1, <2>2, <3>1, <3>2
  <2> QED BY <1>1, <1>4, <2>4 DEF OwesNoMore, ReportIsOfItsRow
<1>5. CASE AddsARow
  <2>1. PICK j \in Absent : phase' = [phase EXCEPT ![j] = "queued"] BY <1>5 DEF AddsARow
  <2>2. /\ j \in Jobs /\ phase[j] = "absent" /\ \A k \in Jobs : phase'[k] = IF k = j THEN "queued" ELSE phase[k]
    BY <2>1 DEF Absent, FeedWork, MirrorShown, MirrorTypes
  <2>3. LiveRows' = LiveRows \cup {j} /\ j \notin LiveRows /\ Untold' = Untold
    BY <1>1, <2>2 DEF LiveRows, Untold, Live
  <2>4. Pending' = Pending + 1
    <3>1. LiveRows \in SUBSET Jobs /\ Pending = Cardinality(LiveRows) BY CountsAreNumbers
    <3>2. Pending' = Cardinality(LiveRows') BY DEF Pending, LiveRows
    <3>3. Cardinality(LiveRows \cup {j}) = Cardinality(LiveRows) + 1 BY <2>2, <2>3, <3>1, JobSets
    <3> QED BY <2>3, <3>1, <3>2, <3>3
  <2>5. HeldPending' = HeldPending /\ HeldFailed' = HeldFailed /\ Owed = 0 /\ Owed' = 1
    BY <1>5 DEF AddsARow
  <2>6. CountsCover' BY <1>1, <1>2, <1>3, <2>3, <2>4, <2>5 DEF CountsCover
  <2>7. drain.at = "report" /\ drain.event = "Mirrored" => phase'[drain.job] = "done"
    BY <2>2 DEF FeedWork, MirrorShown, TasksUpload, ReportIsOfItsRow
  <2> QED BY <1>1, <2>6, <2>7 DEF ReportIsOfItsRow
<1>6. CASE CountsTheRow
  <2>1. Pending' = Pending /\ Untold' = Untold BY <1>1, <1>6 DEF CountsTheRow, Pending, Untold
  <2>2. /\ HeldPending' = HeldPending + 1 /\ HeldFailed' \in {HeldFailed, HeldFailed + 1}
        /\ Owed = 1 /\ Owed' = 0
    BY <1>6 DEF CountsTheRow
  <2>3. CountsCover' BY <1>1, <1>2, <1>3, <2>1, <2>2 DEF CountsCover
  <2> QED BY <1>1, <1>6, <2>3 DEF CountsTheRow, ReportIsOfItsRow
<1> QED BY <1>4, <1>5, <1>6, OffloadOwes

\* Rows that move on while no count is folded.
LEMMA CoverStays ==
  ASSUME FeedWork, CountsCover, UNCHANGED <<configured, cmd, crossed, driver>>,
         st'.pending = st.pending, st'.failed = st.failed,
         Pending' \in Nat, Ending' \in 0..1, Pending' + Ending' <= Pending + Ending,
         Untold' \subseteq Untold
  PROVE  CountsCover'
<1>1. /\ HeldPending \in Nat /\ HeldFailed \in Nat /\ Owed \in 0..1 /\ Ending \in 0..1
      /\ Pending \in Nat /\ Cardinality(Untold) \in Nat /\ Untold \in SUBSET Jobs
  BY CountsAreNumbers
<1>2. HeldPending' = HeldPending /\ HeldFailed' = HeldFailed /\ Owed' = Owed
  BY HeldStays DEF Owed
<1>3. Cardinality(Untold') <= Cardinality(Untold) /\ Cardinality(Untold') \in Nat BY <1>1, JobSets
<1> SUFFICES ASSUME configured \/ cmd.counted
             PROVE  HeldPending' + Owed' >= Pending' + Ending' /\ HeldFailed' >= Cardinality(Untold')
  BY DEF CountsCover
<1>4. HeldPending + Owed >= Pending + Ending /\ HeldFailed >= Cardinality(Untold) BY DEF CountsCover
<1>5. HeldPending + Owed >= Pending' + Ending'
  <2>1. \A h, o, p, e, n, f \in Nat : h + o >= p + e /\ n + f <= p + e => h + o >= n + f
    OBVIOUS
  <2>2. Owed \in Nat /\ Ending \in Nat /\ Ending' \in Nat BY <1>1
  <2> QED BY <1>1, <1>4, <2>1, <2>2
<1>6. HeldFailed >= Cardinality(Untold') BY <1>1, <1>3, <1>4
<1> QED BY <1>2, <1>5, <1>6

LEMMA RowsKeepBadges ==
  ASSUME FeedWork, Badges, UNCHANGED <<st, offload, switches, cmd, crossed>>,
         \/ Tick \/ Claim \/ Drained \/ EndPass \/ DrainFails
         \/ \E j \in Jobs : RetryDue(j) \/ StartUpload(j) \/ Join(j)
  PROVE  Badges'
<1> USE DEF Badges
<1>0. /\ UNCHANGED <<configured, cmd, crossed, driver>> /\ st'.pending = st.pending /\ st'.failed = st.failed
      /\ MirrorTypes /\ TasksUpload
  BY DEF offload, switches, FeedWork, MirrorShown
<1>1. /\ Ending \in 0..1 /\ Ending' \in 0..1 /\ Pending \in Nat /\ Pending = Cardinality(LiveRows)
      /\ LiveRows \in SUBSET Jobs /\ Pending' = Cardinality(LiveRows')
  BY CountsAreNumbers DEF Ending, Pending, LiveRows
<1>2. ASSUME LiveRows' = LiveRows, Untold' = Untold, Ending' <= Ending, ReportIsOfItsRow'
      PROVE  Badges'
  <2>1. Pending' = Pending BY <1>1, <1>2
  <2>2. Pending' \in Nat /\ Pending' + Ending' <= Pending + Ending BY <1>1, <1>2, <2>1
  <2>3. CountsCover' BY <1>0, <1>1, <1>2, <2>2, CoverStays
  <2> QED BY <1>2, <2>3
<1>3. CASE Tick
  <2>1. /\ phase' = [j \in Jobs |-> IF phase[j] = "uploading" THEN "queued" ELSE phase[j]]
        /\ UNCHANGED unreported /\ drain'.at = "claim"
    BY <1>0, <1>3 DEF Tick, MirrorTypes
  <2>2. LiveRows' = LiveRows /\ Untold' = Untold BY <2>1 DEF LiveRows, Untold, Live
  <2>3. Ending' <= Ending /\ ReportIsOfItsRow' BY <1>0, <2>1 DEF Ending, ReportIsOfItsRow
  <2> QED BY <1>2, <2>2, <2>3
<1>4. CASE Claim
  <2>1. PICK jobs \in SUBSET Queued :
          phase' = [j \in Jobs |-> IF j \in jobs THEN "uploading" ELSE phase[j]]
    BY <1>4 DEF Claim
  <2>2. UNCHANGED unreported /\ drain'.at = "pass" BY <1>0, <1>4 DEF Claim, MirrorTypes
  <2>3. LiveRows' = LiveRows /\ Untold' = Untold BY <2>1, <2>2 DEF LiveRows, Untold, Live, Queued
  <2>4. Ending' <= Ending /\ ReportIsOfItsRow' BY <1>0, <2>2 DEF Ending, ReportIsOfItsRow
  <2> QED BY <1>2, <2>3, <2>4
<1>5. CASE Drained \/ EndPass \/ DrainFails
  <2>1. UNCHANGED <<phase, unreported>> /\ drain'.at # "report"
    BY <1>0, <1>5 DEF Drained, EndPass, DrainFails, MirrorTypes
  <2>2. LiveRows' = LiveRows /\ Untold' = Untold BY <2>1 DEF LiveRows, Untold
  <2>3. Ending' <= Ending /\ ReportIsOfItsRow' BY <1>0, <2>1 DEF Ending, ReportIsOfItsRow
  <2> QED BY <1>2, <2>2, <2>3
<1>6. ASSUME NEW j \in Jobs, RetryDue(j) PROVE Badges'
  <2>1. /\ phase[j] = "waiting" /\ UNCHANGED <<drain, unreported>>
        /\ phase' = [phase EXCEPT ![j] = "queued"]
    BY <1>6 DEF RetryDue
  <2>2. \A k \in Jobs : phase'[k] = IF k = j THEN "queued" ELSE phase[k] BY <1>0, <2>1 DEF MirrorTypes
  <2>3. LiveRows' = LiveRows /\ Untold' = Untold BY <2>1, <2>2 DEF LiveRows, Untold, Live
  <2>4. Ending' <= Ending BY <2>1 DEF Ending
  <2>5. ReportIsOfItsRow' BY <1>0, <2>1, <2>2 DEF ReportIsOfItsRow, TasksUpload
  <2> QED BY <1>2, <2>3, <2>4, <2>5
<1>7. ASSUME NEW j \in Jobs, StartUpload(j) PROVE Badges'
  <2>1. UNCHANGED <<phase, drain, unreported>> BY <1>7 DEF StartUpload
  <2>2. LiveRows' = LiveRows /\ Untold' = Untold BY <2>1 DEF LiveRows, Untold
  <2>3. Ending' <= Ending /\ ReportIsOfItsRow' BY <1>0, <2>1 DEF Ending, ReportIsOfItsRow
  <2> QED BY <1>2, <2>2, <2>3
<1>8. ASSUME NEW j \in Jobs, NEW end \in {"done", "failed", "waiting"}, Stamp(j, end)
      PROVE  Badges'
  <2>1. /\ drain.at = "pass" /\ phase[j] = "uploading" /\ phase' = [phase EXCEPT ![j] = end]
    BY <1>0, <1>8 DEF Stamp, TasksUpload
  <2>2. \A k \in Jobs : phase'[k] = IF k = j THEN end ELSE phase[k] BY <1>0, <2>1 DEF MirrorTypes
  <2>3. CASE end = "waiting"
    <3>1. UNCHANGED <<drain, unreported>> BY <1>8, <2>3 DEF Stamp
    <3>2. LiveRows' = LiveRows /\ Untold' = Untold BY <2>1, <2>2, <2>3, <3>1 DEF LiveRows, Untold, Live
    <3>3. Ending' <= Ending /\ ReportIsOfItsRow' BY <1>0, <2>1, <3>1 DEF Ending, ReportIsOfItsRow
    <3> QED BY <1>2, <3>2, <3>3
  <2>4. CASE end # "waiting"
    <3>1. /\ unreported' = unreported \cup {j} /\ drain'.at = "report" /\ drain'.job = j
          /\ drain'.event = IF end = "failed" THEN "CloudFailed" ELSE "Mirrored"
      BY <1>8, <2>4 DEF Stamp
    <3>2. LiveRows = LiveRows' \cup {j} /\ j \notin LiveRows' /\ LiveRows' \in SUBSET Jobs /\ Untold' \subseteq Untold
      BY <2>1, <2>2, <2>4, <3>1 DEF LiveRows, Untold, Live
    <3>3. Pending' \in Nat /\ Pending = Pending' + 1
      <4> DEFINE rest == LiveRows'
      <4>1. rest \in SUBSET Jobs /\ j \in Jobs \ rest /\ LiveRows = rest \cup {j} BY <3>2
      <4> HIDE DEF rest
      <4>2. Cardinality(rest) \in Nat /\ Cardinality(LiveRows) = Cardinality(rest) + 1 BY <4>1, JobSets
      <4> QED BY <1>1, <4>2 DEF rest
    <3>4. Ending = 0 /\ Ending' = 1 BY <2>1, <3>1 DEF Ending
    <3>5. Pending' + Ending' <= Pending + Ending
      <4>1. \A n \in Nat : n + 1 <= n + 1 + 0 OBVIOUS
      <4> QED BY <3>3, <3>4, <4>1
    <3>6. CountsCover' BY <1>0, <1>1, <3>2, <3>3, <3>5, CoverStays
    <3>7. ReportIsOfItsRow' BY <1>0, <2>2, <2>4, <3>1 DEF ReportIsOfItsRow
    <3> QED BY <3>6, <3>7
  <2> QED BY <2>3, <2>4
<1> QED BY <1>3, <1>4, <1>5, <1>6, <1>7, <1>8 DEF Join

LEMMA ReportsKeepBadges ==
  ASSUME FeedWork, Badges, Announce \/ Report \/ FreeSource
  PROVE  Badges'
<1> USE DEF Badges
<1>0. /\ "cloud" \in Threads /\ st \in AppState /\ FrameTypes /\ MirrorTypes /\ TasksUpload
      /\ UNCHANGED <<configured, cmd, driver>>
  BY DEF Threads, FeedWork, FrameTypes, MirrorShown, Announce, Report, FreeSource, offload, switches
<1>1. /\ Ending' \in 0..1 /\ Pending \in Nat /\ Owed \in 0..1 /\ Untold \in SUBSET Jobs
      /\ UNCHANGED <<phase, Pending>>
  <2>1. Pending \in Nat /\ Owed \in 0..1 /\ Untold \in SUBSET Jobs BY CountsAreNumbers
  <2>2. UNCHANGED phase BY DEF Announce, Report, FreeSource
  <2>3. UNCHANGED Pending BY <2>2 DEF Pending
  <2> QED BY <2>1, <2>2, <2>3 DEF Ending
<1>2. CASE Announce \/ FreeSource
  <2>1. st'.pending = st.pending /\ st'.failed = st.failed
    <3>1. CASE Announce
      <4>1. /\ chan # <<>> /\ chan \in Seq(Jobs) /\ Fold("cloud", Uploading(st, Head(chan)))
        BY <1>0, <3>1 DEF Announce, MirrorTypes
      <4>2. Head(chan) \in Jobs BY <4>1
      <4>3. /\ Uploading(st, Head(chan)) \in AppState /\ Uploading(st, Head(chan)).pending = st.pending
            /\ Uploading(st, Head(chan)).failed = st.failed
        BY <1>0, <4>2, MirrorReducers DEF Beside
      <4>4. MirrorOf(st') = MirrorOf(Uploading(st, Head(chan))) BY <1>0, <4>1, <4>3, FoldMakes
      <4> QED BY <4>3, <4>4 DEF MirrorOf
    <3>2. CASE FreeSource
      <4>1. Fold("cloud", Noted(st)) BY <3>2 DEF FreeSource
      <4>2. MirrorOf(st') = MirrorOf(st) BY <1>0, <4>1, RunReducers, FoldSays
      <4> QED BY <4>2 DEF MirrorOf
    <3> QED BY <1>2, <3>1, <3>2
  <2>2. UNCHANGED <<unreported, crossed>> /\ drain.at # "report" /\ drain'.at # "report"
    BY <1>0, <1>2 DEF Announce, FreeSource, MirrorTypes
  <2>3. Untold' = Untold /\ Ending = 0 /\ Ending' = 0 BY <1>1, <2>2 DEF Untold, Ending
  <2>4. CountsCover' BY <1>0, <1>1, <2>1, <2>2, <2>3, CoverStays
  <2> QED BY <1>0, <2>2, <2>4 DEF ReportIsOfItsRow
<1>3. CASE Report
  <2> DEFINE j == drain.job
  <2>1. /\ drain.at = "report" /\ j \in Jobs /\ unreported' = unreported \ {j}
        /\ drain'.at # "report"
        /\ drain.event = "Mirrored" => phase[j] = "done"
    BY <1>0, <1>3 DEF Report, TasksUpload, ReportIsOfItsRow
  <2>2. Ending = 1 /\ Ending' = 0 BY <2>1 DEF Ending
  <2>3. /\ HeldPending' \in Nat /\ HeldPending' + 1 >= HeldPending
        /\ HeldFailed' \in Nat
        /\ HeldFailed' >= HeldFailed + (IF drain.event = "Mirrored" THEN 0 ELSE 1)
    <3> DEFINE s == IF drain.event = "Mirrored" THEN Mirrored(st, j) ELSE CloudFailed(st, j)
    <3>1. Fold("cloud", s) BY <1>3 DEF Report
    <3>2. /\ s \in AppState /\ s.pending = OneLess(st.pending)
          /\ s.failed = IF drain.event = "Mirrored" THEN st.failed ELSE st.failed + 1
      BY <1>0, <2>1, MirrorReducers DEF Beside
    <3> HIDE DEF s
    <3>3. MirrorOf(st') = MirrorOf(s) BY <1>0, <3>1, <3>2, FoldMakes
    <3>4. /\ st'.pending = OneLess(st.pending)
          /\ st'.failed = IF drain.event = "Mirrored" THEN st.failed ELSE st.failed + 1
      BY <3>2, <3>3 DEF MirrorOf
    <3>5. crossed' = IF cmd.counted THEN crossed + 1 ELSE crossed BY <1>3 DEF Report, Cross
    <3>6. /\ crossed \in Nat /\ st.pending \in Nat /\ st.failed \in Nat
          /\ cmd.pending \in Nat /\ cmd.failed \in Nat
      BY <1>0, BoundsAssumption, FS_CardinalityType DEF FeedWork, CommandTypes, AppState
    <3>7. CASE cmd.counted
      <4>1. HeldPending' = HeldPending + 1 /\ HeldFailed' = HeldFailed + 1
            /\ HeldPending \in Nat /\ HeldFailed \in Nat
        BY <1>0, <3>5, <3>6, <3>7 DEF HeldPending, HeldFailed
      <4> QED BY <4>1
    <3>8. CASE ~cmd.counted
      <4>1. /\ HeldPending = crossed + st.pending /\ HeldPending' = crossed + st'.pending
            /\ HeldFailed = crossed + st.failed /\ HeldFailed' = crossed + st'.failed
        BY <1>0, <3>5, <3>8 DEF HeldPending, HeldFailed
      <4>2. st'.pending \in Nat /\ st'.pending + 1 >= st.pending BY <3>4, <3>6 DEF OneLess
      <4>3. st'.failed \in Nat /\ st'.failed >= st.failed + (IF drain.event = "Mirrored" THEN 0 ELSE 1)
        BY <3>4, <3>6
      <4> QED BY <3>6, <4>1, <4>2, <4>3
    <3> QED BY <3>7, <3>8
  <2>4. /\ Cardinality(Untold') \in Nat /\ Cardinality(Untold) \in Nat
        /\ Cardinality(Untold') <= Cardinality(Untold) + (IF drain.event = "Mirrored" THEN 0 ELSE 1)
    <3>1. Untold' \subseteq Untold \cup (IF drain.event = "Mirrored" THEN {} ELSE {j})
      BY <1>1, <2>1 DEF Untold
    <3>2. Cardinality(Untold) \in Nat /\ Cardinality(Untold \cup {j}) \in 0..Cardinality(Untold) + 1
      <4>1. CASE j \in Untold
        <5>1. Untold \cup {j} = Untold BY <4>1
        <5>2. Cardinality(Untold) \in Nat BY <1>1, JobSets
        <5> QED BY <5>1, <5>2
      <4>2. CASE j \notin Untold BY <1>1, <2>1, <4>2, JobSets
      <4> QED BY <4>1, <4>2
    <3>3. CASE drain.event = "Mirrored"
      <4>1. Untold' \subseteq Untold BY <3>1, <3>3
      <4> QED BY <1>1, <3>2, <3>3, <4>1, JobSets
    <3>4. CASE drain.event # "Mirrored"
      <4>1. Untold' \subseteq Untold \cup {j} /\ Untold \cup {j} \in SUBSET Jobs BY <1>1, <2>1, <3>1, <3>4
      <4>2. Cardinality(Untold') \in Nat /\ Cardinality(Untold') <= Cardinality(Untold \cup {j})
        BY <4>1, JobSets
      <4> QED BY <3>2, <3>4, <4>2
    <3> QED BY <3>3, <3>4
  <2>5. CountsCover'
    <3> SUFFICES ASSUME configured \/ cmd.counted
                 PROVE  HeldPending' + Owed' >= Pending' + Ending' /\ HeldFailed' >= Cardinality(Untold')
      BY <1>0 DEF CountsCover
    <3>1. HeldPending + Owed >= Pending + 1 /\ HeldFailed >= Cardinality(Untold)
      BY <2>2 DEF CountsCover
    <3>2. HeldPending \in Nat /\ HeldFailed \in Nat BY CountsAreNumbers
    <3>3. HeldPending' + Owed >= Pending
      <4>1. \A h, k, p \in Nat, o \in 0..1 : h + o >= p + 1 /\ k + 1 >= h => k + o >= p
        OBVIOUS
      <4> QED BY <1>1, <2>3, <3>1, <3>2, <4>1
    <3>4. HeldFailed' >= Cardinality(Untold')
      <4>1. CASE drain.event = "Mirrored" BY <2>3, <2>4, <3>1, <3>2, <4>1
      <4>2. CASE drain.event # "Mirrored" BY <2>3, <2>4, <3>1, <3>2, <4>2
      <4> QED BY <4>1, <4>2
    <3>5. Owed' = Owed /\ Pending' = Pending /\ Ending' = 0 BY <1>0, <1>1, <2>2 DEF Owed
    <3> QED BY <1>1, <3>3, <3>4, <3>5
  <2> QED BY <1>0, <2>1, <2>5 DEF ReportIsOfItsRow
<1> QED BY <1>2, <1>3

LEMMA CommandsKeepBadges ==
  ASSUME FeedWork, Badges, Commands
  PROVE  Badges'
<1> USE DEF Badges
<1>0. /\ "command" \in Threads /\ st \in AppState /\ FrameTypes /\ MirrorTypes /\ TasksUpload
      /\ cmd \in [what : {"pause", "resume", "retry", "save", None}, counted : BOOLEAN,
                  pending : 0..Cardinality(Jobs), failed : 0..Cardinality(Jobs)]
      /\ None \notin {"retry", "save"} /\ configured \in BOOLEAN
  BY NoneAssumption DEF Threads, FeedWork, FrameTypes, MirrorShown, CommandTypes
<1>1. ASSUME NEW p \in BOOLEAN, SetPaused(p) PROVE Badges'
  <2>1. /\ UNCHANGED <<st, phase, drain, unreported, configured, crossed, driver>> /\ cmd.what = None
        /\ cmd' = [cmd EXCEPT !.what = IF p THEN "pause" ELSE "resume"]
    BY <1>1 DEF SetPaused, MayCommand, mirror, offload
  <2>2. /\ cmd'.counted = cmd.counted /\ cmd'.pending = cmd.pending /\ cmd'.failed = cmd.failed
        /\ cmd'.what \notin {"retry", "save"}
    BY <1>0, <2>1
  <2>3. ~cmd.counted BY <1>0, <2>1 DEF ReportIsOfItsRow
  <2>4. HeldPending' = HeldPending /\ HeldFailed' = HeldFailed /\ Owed' = Owed /\ Ending' = Ending
        /\ Pending' = Pending /\ Untold' = Untold
    BY <2>1, <2>2 DEF HeldPending, HeldFailed, Owed, Ending, Pending, Untold
  <2>5. CountsCover' BY <2>1, <2>2, <2>4 DEF CountsCover
  <2> QED BY <2>1, <2>2, <2>3, <2>5 DEF ReportIsOfItsRow
<1>2. ASSUME NEW what \in {"retry", "save"}, cmd' = Counts(what, phase'), drain' = drain,
             crossed' = IF drain.at = "report" THEN 1 ELSE 0,
             drain.at = "report" /\ drain.event = "Mirrored" => phase'[drain.job] = "done"
      PROVE  Badges'
  <2>1. /\ cmd'.what = what /\ cmd'.counted /\ cmd'.pending = Pending'
        /\ cmd'.failed = Cardinality({j \in Jobs : phase'[j] = "failed"})
    BY <1>2 DEF Counts, Pending
  <2>2. /\ HeldPending' = Ending' + Pending' /\ Ending' \in 0..1
        /\ HeldFailed' = Ending' + Cardinality({j \in Jobs : phase'[j] = "failed"})
    BY <1>2, <2>1 DEF HeldPending, HeldFailed, Ending
  <2>3. Cardinality(Untold') <= Cardinality({j \in Jobs : phase'[j] = "failed"})
    <3>1. Untold' \subseteq {j \in Jobs : phase'[j] = "failed"} BY DEF Untold
    <3> QED BY <3>1, JobSets
  <2>4. Owed' \in 0..1 BY DEF Owed
  <2>5. Pending' \in Nat
    <3>1. {j \in Jobs : phase'[j] \in Live} \in SUBSET Jobs OBVIOUS
    <3> QED BY <3>1, JobSets DEF Pending
  <2>6. Cardinality(Untold') \in Nat /\ Cardinality({j \in Jobs : phase'[j] = "failed"}) \in Nat
    <3>1. Untold' \in SUBSET Jobs BY DEF Untold
    <3> QED BY <3>1, JobSets
  <2>7. HeldPending' + Owed' >= Pending' + Ending'
    <3>1. \A n \in Nat, o, e \in 0..1 : (e + n) + o >= n + e OBVIOUS
    <3> QED BY <2>2, <2>4, <2>5, <3>1
  <2>8. HeldFailed' >= Cardinality(Untold')
    <3>1. \A n, m \in Nat, e \in 0..1 : m <= n => e + n >= m OBVIOUS
    <3> QED BY <2>2, <2>3, <2>6, <3>1
  <2>9. CountsCover' BY <2>7, <2>8 DEF CountsCover
  <2> QED BY <1>2, <2>1, <2>9 DEF ReportIsOfItsRow
<1>3. CASE RetryFailed
  <2>1. /\ cmd' = Counts("retry", phase') /\ drain' = drain
        /\ crossed' = IF drain.at = "report" THEN 1 ELSE 0
    BY <1>3 DEF RetryFailed, Count
  <2>2. \A j \in Jobs : phase[j] = "done" => phase'[j] = "done" BY <1>3 DEF RetryFailed
  <2> QED BY <1>0, <1>2, <2>1, <2>2 DEF ReportIsOfItsRow, TasksUpload
<1>4. CASE SaveConfig
  <2>1. /\ cmd' = Counts("save", phase') /\ drain' = drain /\ phase' = phase
        /\ crossed' = IF drain.at = "report" THEN 1 ELSE 0
    BY <1>4 DEF SaveConfig, Count, mirror
  <2> QED BY <1>2, <2>1 DEF ReportIsOfItsRow
<1>5. CASE Answer
  <2>1. /\ UNCHANGED <<phase, drain, unreported, crossed, driver>>
        /\ configured' = IF cmd.what = "save" THEN ~configured ELSE configured
        /\ cmd'.what = None /\ cmd'.counted = FALSE
        /\ cmd.what \in {"pause", "resume", "retry", "save"}
    BY <1>0, <1>5 DEF Answer, mirror, offload
  <2>2. Owed' = Owed /\ Ending' = Ending /\ Pending' = Pending /\ Untold' = Untold
        /\ HeldPending' = crossed + st'.pending /\ HeldFailed' = crossed + st'.failed
    BY <2>1 DEF HeldPending, HeldFailed, Owed, Ending, Pending, Untold
  <2>3. cmd.pending \in Nat /\ cmd.failed \in Nat
    BY <1>0, BoundsAssumption, FS_CardinalityType
  <2>4. ASSUME NEW s \in AppState, Fold("command", s)
        PROVE  st'.pending = s.pending /\ st'.failed = s.failed
    BY <1>0, <2>4, FoldMakes DEF MirrorOf
  <2>5. configured' => /\ configured \/ cmd.counted
                       /\ crossed + st'.pending = HeldPending
                       /\ crossed + st'.failed = HeldFailed
    <3>1. CASE cmd.what \in {"pause", "resume"}
      <4> DEFINE s == [st EXCEPT !.paused = (cmd.what = "pause")]
      <4>1. Fold("command", s) BY <1>5, <3>1 DEF Answer
      <4>2. s \in AppState /\ s.pending = st.pending /\ s.failed = st.failed BY <1>0 DEF AppState
      <4> HIDE DEF s
      <4>3. st'.pending = st.pending /\ st'.failed = st.failed BY <2>4, <4>1, <4>2
      <4>4. ~cmd.counted BY <3>1 DEF ReportIsOfItsRow
      <4> QED BY <2>1, <3>1, <4>3, <4>4 DEF HeldPending, HeldFailed
    <3>2. CASE cmd.what = "retry"
      <4> DEFINE s == [st EXCEPT !.pending = cmd.pending, !.failed = cmd.failed]
      <4>1. Fold("command", s) BY <1>5, <3>2 DEF Answer
      <4>2. s \in AppState /\ s.pending = cmd.pending /\ s.failed = cmd.failed
        BY <1>0, <2>3 DEF AppState
      <4> HIDE DEF s
      <4>3. st'.pending = cmd.pending /\ st'.failed = cmd.failed BY <2>4, <4>1, <4>2
      <4>4. cmd.counted BY <3>2 DEF ReportIsOfItsRow
      <4> QED BY <4>3, <4>4 DEF HeldPending, HeldFailed
    <3>3. CASE cmd.what = "save"
      <4>1. Fold("command", Applied) BY <1>5, <3>3 DEF Answer
      <4>2. Applied \in AppState BY <1>0, <2>3 DEF Applied, AppState
      <4>3. ~configured => Applied.pending = cmd.pending /\ Applied.failed = cmd.failed
        BY <1>0 DEF Applied, AppState
      <4>4. st'.pending = Applied.pending /\ st'.failed = Applied.failed BY <2>4, <4>1, <4>2
      <4>5. cmd.counted BY <3>3 DEF ReportIsOfItsRow
      <4> QED BY <2>1, <3>3, <4>3, <4>4, <4>5 DEF HeldPending, HeldFailed
    <3> QED BY <2>1, <3>1, <3>2, <3>3
  <2>6. CountsCover' BY <2>1, <2>2, <2>5 DEF CountsCover
  <2> QED BY <1>0, <2>1, <2>6 DEF ReportIsOfItsRow
<1> QED BY <1>1, <1>3, <1>4, <1>5 DEF Commands

LEMMA BadgesInit ==
  ASSUME Init
  PROVE  Badges
<1>1. /\ cmd.counted = FALSE /\ cmd.what = None /\ drain.at = "rest" /\ driver.at = "rest"
      /\ crossed = 0
      /\ unreported = {} /\ st = Seed(Blank, configured)
  BY DEF Init, AtRest
<1>2. st.pending = Pending /\ st.failed = Failed BY <1>1 DEF Seed, Blank
<1>3. Untold = {j \in Jobs : phase[j] = "failed"} BY <1>1 DEF Untold
<1>4. Pending \in Nat /\ Failed \in Nat /\ Cardinality(Untold) = Failed
  BY <1>3, JobSets DEF Pending, Failed
<1>5. /\ Owed = 0 /\ Ending = 0 /\ HeldPending = Pending /\ HeldFailed = Failed
  BY <1>1, <1>2, <1>4 DEF Owed, Ending, HeldPending, HeldFailed
<1>6. CountsCover BY <1>4, <1>5 DEF CountsCover
<1> QED BY <1>1, <1>6, NoneAssumption DEF Badges, ReportIsOfItsRow

LEMMA BadgesStep ==
  ASSUME FeedWork, Badges, [Next]_vars
  PROVE  Badges'
<1>1. CASE Offload BY <1>1, OffloadKeepsBadges
<1>2. CASE MirrorLoop
  <2>1. CASE Announce \/ Report \/ FreeSource BY <2>1, ReportsKeepBadges
  <2>2. CASE \/ Tick \/ Claim \/ Drained \/ EndPass \/ DrainFails
             \/ \E j \in Jobs : RetryDue(j) \/ StartUpload(j) \/ Join(j)
    <3>1. UNCHANGED <<st, offload, switches, cmd, crossed>>
      BY <2>2 DEF Tick, Claim, Drained, EndPass, DrainFails, RetryDue, StartUpload, Join, Stamp
    <3> QED BY <2>2, <3>1, RowsKeepBadges
  <2> QED BY <1>2, <2>1, <2>2 DEF MirrorLoop
<1>3. CASE Commands BY <1>3, CommandsKeepBadges
<1>4. CASE Window \/ (\E t \in Threads : ShouldEmit(t) \/ Emit(t)) \/ UNCHANGED vars
  <2>1. UNCHANGED <<st, offload, mirror, switches, cmd, crossed>>
    BY <1>4 DEF Window, GetState, Hydrate, ShouldEmit, Emit, vars, offload, mirror, switches
  <2>2. UNCHANGED <<st, driver, phase, drain, unreported, configured, cmd, crossed>>
    BY <2>1 DEF offload, mirror, switches
  <2>3. HeldPending' = HeldPending /\ HeldFailed' = HeldFailed /\ Owed' = Owed /\ Ending' = Ending
        /\ Pending' = Pending /\ Untold' = Untold
    BY <2>2 DEF HeldPending, HeldFailed, Owed, Ending, Pending, Untold
  <2> QED BY <2>2, <2>3 DEF Badges, CountsCover, ReportIsOfItsRow
<1> QED BY <1>1, <1>2, <1>3, <1>4 DEF Next

\* While a mirror is configured, once every row is announced and no end is left to report, the
\* badges are short of what is left to upload and of what there is to retry by no more than the
\* events that crossed the last counts of a command (retry_failed_cloud and save_config read
\* them before the lock): drains that break off, retries and a table removed and put back hide
\* nothing, nor does any command that no event crosses.
THEOREM BadgesCount == Spec => []BadgesMissOnlyCrossed
<1>1. Init => Badges BY BadgesInit
<1>2. FeedWork /\ Badges /\ [Next]_vars => Badges' BY BadgesStep
<1>3. FeedWork /\ Badges => BadgesMissOnlyCrossed
  <2> SUFFICES ASSUME FeedWork, Badges, configured, unreported = {},
                      driver.at \notin {"landed", "queue"}, ~cmd.counted
               PROVE  st.pending + crossed >= Pending /\ st.failed + crossed >= Failed
    BY DEF BadgesMissOnlyCrossed, Settled
  <2>1. /\ HeldPending = crossed + st.pending /\ HeldFailed = crossed + st.failed
        /\ Owed = 0 /\ Ending \in 0..1
    BY DEF HeldPending, HeldFailed, Owed, Ending
  <2>2. Untold = {j \in Jobs : phase[j] = "failed"} BY DEF Untold
  <2>3. Cardinality(Untold) = Failed BY <2>2 DEF Failed
  <2>4. HeldPending \in Nat /\ HeldFailed \in Nat /\ Pending \in Nat /\ Failed \in Nat
    BY <2>3, CountsAreNumbers
  <2>5. HeldPending + 0 >= Pending + Ending /\ HeldFailed >= Failed
    BY <2>1, <2>3 DEF Badges, CountsCover
  <2>6. crossed \in Nat /\ st.pending \in Nat /\ st.failed \in Nat
    BY DEF FeedWork, CommandTypes, FrameTypes, AppState
  <2> QED BY <2>1, <2>4, <2>5, <2>6
<1> QED BY <1>1, <1>2, <1>3, FeedWorkHolds, PTL DEF Spec
=============================================================================
