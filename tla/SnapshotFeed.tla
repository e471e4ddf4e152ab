---------------------------- MODULE SnapshotFeed ----------------------------
(***************************************************************************)
(* What the popover shows: the snapshot that the events of an offload and  *)
(* of a drain are folded into (app_state.rs), the frames the threads send  *)
(* after they have let go of its lock (lib.rs), and the commands that      *)
(* pause, retry and reconfigure the mirror (commands.rs).  How offloads    *)
(* and uploads work is in the other modules: here they report.             *)
(***************************************************************************)
EXTENDS Integers, Sequences, FiniteSets, FiniteSetsExt

CONSTANTS
  Jobs,
  FailedBefore, \* the jobs that had failed when the app was started
  Concurrency, \* max_concurrency
  MaxFiles,    \* bound on the files of a plan
  MaxRuns,     \* bound on the offloads
  MaxFaults,   \* bound on what fails
  MaxCommands, \* bound on the commands
  Events,      \* what may happen, of the set below
  None

ASSUME BoundsAssumption ==
  /\ IsFiniteSet(Jobs) /\ FailedBefore \subseteq Jobs
  /\ Concurrency \in Nat \ {0}
  /\ MaxFiles \in Nat /\ MaxRuns \in Nat /\ MaxFaults \in Nat /\ MaxCommands \in Nat
  /\ Events \subseteq {"runFails",    \* an offload may end with an error
                       "copyFails",   \* so may the copy of a file
                       "uploadFails", \* so may an upload, for good or for now
                       "ledgerFails", \* so may a statement of the drain
                       "reconfigure"} \* the [cloud] table may be removed and put back

VARIABLES
  st,         \* AppState, without its texts
  out,        \* the frame each thread has folded and not yet sent, and how far it is
  last,       \* LAST_EMITTED_SEQ
  ui,         \* what the popover shows, and its hydrate()
  sent,       \* the newest frame that was emitted (history)
  driver,     \* the offload
  phase,      \* the rows of cloud_jobs
  drain,      \* the cloud loop
  task,       \* the upload tasks of the pass
  chan,       \* the channel of their Uploading events
  paused,     \* AppCtx.paused
  configured, \* whether the cloud runtime has a destination
  cmd,        \* the command that is being served
  crossed,    \* the ledger's events that crossed the last counts a command read (history)
  unreported, \* jobs stamped as ended whose event has not been folded (history)
  outcome,    \* how the last offload ended (history)
  count       \* of runs, faults and commands

vars == <<st, out, last, ui, sent, driver, phase, drain, task, chan, paused, configured, cmd,
          crossed, unreported, outcome, count>>
feed == <<last, ui, sent>>
mirror == <<phase, drain, task, chan, unreported>>
switches == <<paused, configured>>
offload == <<driver, outcome>>

-----------------------------------------------------------------------------
Threads == {"driver", "cloud", "command"}
Size == 2  \* the bytes of a file: one report comes half-way
Live == {"queued", "uploading", "waiting"}
Pending == Cardinality({j \in Jobs : phase[j] \in Live})
Failed == Cardinality({j \in Jobs : phase[j] = "failed"})

\* RunProgress::started.
Started == [done |-> 0, total |-> 0, bytes |-> 0, completed |-> 0]
RunProgress == [done : 0..MaxFiles, total : 0..MaxFiles, bytes : Nat, completed : Nat]
ASSUME NoneAssumption == None \notin Jobs \cup RunProgress \cup {"bad", "retry", "save"}

AppState == [status : {"Idle", "Working", "Error"}, run : RunProgress \cup {None},
             pending : Nat, failed : Nat, paused : BOOLEAN, configured : BOOLEAN,
             uploading : Jobs \cup {None}, seq : Nat]

AtRest == [at |-> "rest", wired |-> FALSE, mirroring |-> FALSE, index |-> 0, total |-> 0,
           cum |-> 0, failed |-> 0, copied |-> 0]

\* seed_cloud_state: whether there is a mirror, and the counts of the ledger.
Seed(s, mirrored) ==
  [s EXCEPT !.configured = mirrored, !.pending = Pending, !.failed = Failed]

\* AppState::default, which the popover starts with as well.
Blank == [status |-> "Idle", run |-> None, pending |-> 0, failed |-> 0, paused |-> FALSE,
          configured |-> FALSE, uploading |-> None, seq |-> 0]

Init ==
  /\ paused = FALSE /\ configured \in BOOLEAN
  /\ phase = [j \in Jobs |-> IF j \in FailedBefore THEN "failed" ELSE "absent"]
  /\ st = Seed(Blank, configured)
  /\ out = [t \in Threads |-> [at |-> "free", frame |-> None]]
  /\ last = 0
  /\ ui = [frame |-> Blank, seen |-> FALSE, hydrate |-> "no", copy |-> None]
  /\ sent = Blank
  /\ driver = AtRest
  /\ drain = [at |-> "rest", job |-> None, event |-> None]
  /\ task = [j \in Jobs |-> "none"]
  /\ chan = <<>>
  /\ cmd = [what |-> None, counted |-> FALSE, pending |-> 0, failed |-> 0]
  /\ crossed = 0
  /\ unreported = {}
  /\ outcome = None
  /\ count = [runs |-> 0, faults |-> 0, commands |-> 0]

TypeOK ==
  /\ st \in AppState
  /\ \A t \in Threads : /\ out[t].at \in {"free", "guard", "emit"}
                        /\ out[t].frame \in AppState \cup {None}
  /\ last \in 0..st.seq
  /\ ui.frame \in AppState /\ ui.copy \in AppState \cup {None}
  /\ ui.seen \in BOOLEAN /\ ui.hydrate \in {"no", "cloned", "done"}
  /\ sent \in AppState
  /\ driver.at \in {"rest", "scan", "file", "copying", "landed", "verified", "queue",
                    "free", "eject", "abort"}
  /\ driver.index \in 0..MaxFiles + 1 /\ driver.failed \in 0..MaxFiles
  /\ phase \in [Jobs -> Live \cup {"absent", "done", "failed"}]
  /\ drain \in [at : {"rest", "claim", "pass", "report", "free"}, job : Jobs \cup {None},
                event : {"Mirrored", "CloudFailed", None}]
  /\ task \in [Jobs -> {"none", "check", "upload"}]
  /\ chan \in Seq(Jobs)
  /\ paused \in BOOLEAN /\ configured \in BOOLEAN
  /\ cmd \in [what : {"pause", "resume", "retry", "save", None}, counted : BOOLEAN,
              pending : 0..Cardinality(Jobs), failed : 0..Cardinality(Jobs)]
  /\ crossed \in Nat
  /\ unreported \subseteq Jobs
  /\ outcome \in {"clean", "bad", None}
  /\ count \in [runs : 0..MaxRuns, faults : 0..MaxFaults, commands : 0..MaxCommands]

-----------------------------------------------------------------------------
(* The reducers.                                                           *)

RunOf(s) == IF s.run = None THEN Started ELSE s.run

Scanned(s, files) == [s EXCEPT !.run = [Started EXCEPT !.total = files], !.status = "Working"]
CardDetected(s) == [s EXCEPT !.run = RunOf(s)]
Copying(s, index) ==
  [s EXCEPT !.run = [RunOf(s) EXCEPT !.done = index - 1, !.bytes = RunOf(s).completed],
            !.status = "Working"]
Progress(s, copied) ==
  IF s.run = None THEN s ELSE [s EXCEPT !.run.bytes = s.run.completed + copied]
Verified(s) ==
  IF s.run = None THEN s
  ELSE [s EXCEPT !.run.done = Min({@ + 1, s.run.total}), !.run.completed = s.run.bytes]
FileFailed(s) == [s EXCEPT !.status = "Error"]
RunComplete(s, failed) ==
  [s EXCEPT !.run = None, !.status = IF failed > 0 THEN "Error" ELSE "Idle"]
RunErrorKeepsRun(s) == [s EXCEPT !.status = "Error"]
RunError(s) == [s EXCEPT !.run = None, !.status = "Error"]
CloudQueued(s) == [s EXCEPT !.pending = @ + 1, !.configured = TRUE]

\* Card files deleted or not deletable, a card ejected: a message at most, but a frame.
Noted(s) == s

Uploading(s, j) == [s EXCEPT !.uploading = j]
OneLessUnchecked(n) == n - 1
OneLess(n) == IF n = 0 THEN 0 ELSE n - 1
MirroredKeepsSlot(s, j) == [s EXCEPT !.pending = OneLess(@)]
Mirrored(s, j) ==
  [s EXCEPT !.uploading = IF @ = j THEN None ELSE @, !.pending = OneLess(@)]
CloudFailed(s, j) == [Mirrored(s, j) EXCEPT !.failed = @ + 1, !.status = "Error"]

\* derive_tray_state: the icon that goes with a snapshot.
Tray(s) == IF s.status = "Error" THEN "error"
           ELSE IF s.run # None \/ s.uploading # None THEN "working" ELSE "idle"

-----------------------------------------------------------------------------
(* From the lock to the popover.                                           *)

\* fold_*: under the lock, the snapshot, its number and the copy to send.
Fold(t, s) ==
  /\ out[t].at = "free"
  /\ st' = [s EXCEPT !.seq = st.seq + 1]
  /\ out' = [out EXCEPT ![t] = [at |-> "guard", frame |-> st']]
  /\ UNCHANGED feed

ShouldAlwaysEmit(t) ==
  /\ out[t].at = "guard"
  /\ last' = Max({last, out[t].frame.seq})
  /\ out' = [out EXCEPT ![t].at = "emit"]
  /\ UNCHANGED <<st, ui, sent, offload, mirror, switches, cmd, crossed, count>>

\* should_emit: a frame that is not newer than the newest is dropped.  One that is passes,
\* and is emitted when its thread goes on, whatever the other threads do in between.
ShouldEmit(t) ==
  /\ out[t].at = "guard"
  /\ last' = Max({last, out[t].frame.seq})
  /\ out' = [out EXCEPT ![t] = IF last < out[t].frame.seq THEN [@ EXCEPT !.at = "emit"]
                               ELSE [at |-> "free", frame |-> None]]
  /\ UNCHANGED <<st, ui, sent, offload, mirror, switches, cmd, crossed, count>>

Emit(t) ==
  /\ out[t].at = "emit"
  /\ ui' = [ui EXCEPT !.frame = out[t].frame, !.seen = TRUE]
  /\ sent' = IF sent.seq < out[t].frame.seq THEN out[t].frame ELSE sent
  /\ out' = [out EXCEPT ![t] = [at |-> "free", frame |-> None]]
  /\ UNCHANGED <<st, last, offload, mirror, switches, cmd, crossed, count>>

\* get_state: the copy, then the counts of the ledger and the answer, which an event that
\* came first outdates (and one that came before the call makes void).
GetState ==
  /\ ui.hydrate = "no" /\ ~ui.seen
  /\ ui' = [ui EXCEPT !.hydrate = "cloned", !.copy = st]
  /\ UNCHANGED <<st, out, last, sent, offload, mirror, switches, cmd, crossed, count>>

Hydrate ==
  /\ ui.hydrate = "cloned"
  /\ ui' = [ui EXCEPT !.hydrate = "done", !.copy = None,
                      !.frame = IF ui.seen THEN @
                                ELSE [ui.copy EXCEPT !.pending = Pending, !.failed = Failed]]
  /\ UNCHANGED <<st, out, last, sent, offload, mirror, switches, cmd, crossed, count>>

Window == GetState \/ Hydrate

-----------------------------------------------------------------------------
(* An offload, of a card or a camera (run_offload, run_wired_offload).     *)

Free(t) == out[t].at = "free"
Fails(event) ==
  /\ event \in Events
  /\ count.faults < MaxFaults
  /\ count' = [count EXCEPT !.faults = @ + 1]
NextFile == [driver EXCEPT !.at = "file", !.index = @ + 1, !.cum = 0]
Absent == {j \in Jobs : phase[j] = "absent"}

\* An event of the ledger is folded; its row may not be in the counts a command has read.
Cross == crossed' = IF cmd.counted THEN crossed + 1 ELSE crossed

\* commit_imported: the row is there before anything is said of it.
Commit ==
  IF driver.mirroring
  THEN \E j \in Absent : phase' = [phase EXCEPT ![j] = "queued"]
  ELSE UNCHANGED phase

RunEnds(how) == driver' = AtRest /\ outcome' = how

Begin ==
  /\ driver.at = "rest" /\ count.runs < MaxRuns
  /\ count' = [count EXCEPT !.runs = @ + 1]
  /\ Fold("driver", CardDetected(st))
  /\ \E w \in BOOLEAN : driver' = [AtRest EXCEPT !.at = "scan", !.wired = w]
  /\ outcome' = None
  /\ UNCHANGED <<mirror, switches, cmd, crossed>>

\* The destination, the ledger or the camera may not answer: no offload begins.
NeverBegins ==
  /\ driver.at = "rest"
  /\ Fails("runFails")
  /\ Fold("driver", RunError(st)) /\ RunEnds("bad")
  /\ UNCHANGED <<mirror, switches, cmd, crossed>>

Scan ==
  /\ driver.at = "scan"
  /\ \E files \in 0..MaxFiles, m \in BOOLEAN :
       /\ m => configured /\ Cardinality(Absent) >= files
       /\ Fold("driver", Scanned(st, files))
       /\ driver' = [driver EXCEPT !.at = "file", !.index = 1, !.total = files, !.mirroring = m]
  /\ UNCHANGED <<mirror, switches, cmd, crossed, outcome, count>>

NoRoom ==
  /\ driver.at = "file" /\ driver.index = 1
  /\ Fails("runFails")
  /\ Fold("driver", FileFailed(st))
  /\ driver' = [driver EXCEPT !.at = "abort"]
  /\ UNCHANGED <<mirror, switches, cmd, crossed, outcome>>

\* Where a statement of the ledger, the listing, or the camera for the second file in a
\* row ends the run.
MayAbort ==
  IF driver.wired
  THEN \/ driver.at \in {"scan", "verified"}
       \/ (driver.at = "file" /\ (driver.index = 1 \/ driver.failed > 0))
  ELSE driver.at \in {"scan", "file", "copying"}

Abort ==
  /\ IF driver.at = "abort" THEN UNCHANGED count ELSE MayAbort /\ Fails("runFails")
  /\ Fold("driver", RunError(st)) /\ RunEnds("bad")
  /\ UNCHANGED <<mirror, switches, cmd, crossed>>

\* A card's file that is whole already is taken over without a copy.
Adopt ==
  /\ driver.at = "file" /\ driver.index <= driver.total
  /\ ~driver.wired /\ Free("driver")
  /\ Commit
  /\ driver' = [driver EXCEPT !.at = "queue"]
  /\ UNCHANGED <<st, out, feed, drain, task, chan, unreported,
                 switches, cmd, crossed, outcome, count>>

Copy ==
  /\ driver.at = "file" /\ driver.index <= driver.total
  /\ Fold("driver", Copying(st, driver.index))
  /\ driver' = [driver EXCEPT !.at = "copying"]
  /\ UNCHANGED <<mirror, switches, cmd, crossed, outcome, count>>

HalfWay ==
  /\ driver.at = "copying" /\ driver.cum = 0
  /\ Fold("driver", Progress(st, 1))
  /\ driver' = [driver EXCEPT !.cum = 1]
  /\ UNCHANGED <<mirror, switches, cmd, crossed, outcome, count>>

CopyFails ==
  /\ driver.at = "copying"
  /\ Fails("copyFails")
  /\ Fold("driver", FileFailed(st))
  /\ driver' = [NextFile EXCEPT !.failed = @ + 1]
  /\ UNCHANGED <<mirror, switches, cmd, crossed, outcome>>

\* A card's file is committed before its last reports, a camera's after them.
Land ==
  /\ driver.at = "copying"
  /\ IF driver.wired THEN UNCHANGED phase ELSE Commit
  /\ Fold("driver", Progress(st, Size))
  /\ driver' = [driver EXCEPT !.at = "landed", !.cum = Size, !.copied = @ + 1]
  /\ UNCHANGED <<drain, task, chan, unreported, switches, cmd, crossed, outcome, count>>

Verify ==
  /\ driver.at = "landed"
  /\ Fold("driver", Verified(st))
  /\ driver' = [driver EXCEPT !.at = IF driver.wired THEN "verified" ELSE "queue"]
  /\ UNCHANGED <<mirror, switches, cmd, crossed, outcome, count>>

CommitWired ==
  /\ driver.at = "verified" /\ Free("driver")
  /\ Commit
  /\ driver' = [driver EXCEPT !.at = "queue"]
  /\ UNCHANGED <<st, out, feed, drain, task, chan, unreported,
                 switches, cmd, crossed, outcome, count>>

Queue ==
  /\ driver.at = "queue"
  /\ IF driver.mirroring
     THEN Fold("driver", CloudQueued(st)) /\ Cross
     ELSE Free("driver") /\ UNCHANGED <<st, out, feed, crossed>>
  /\ driver' \in {NextFile, [driver EXCEPT !.at = "free"]}
  /\ UNCHANGED <<mirror, switches, cmd, outcome, count>>

\* delete_after_verify without an Auto mirror, whether the delete succeeds or not.
FreeCard ==
  /\ driver.at = "free"
  /\ Fold("driver", Noted(st))
  /\ driver' = NextFile
  /\ UNCHANGED <<mirror, switches, cmd, crossed, outcome, count>>

Complete ==
  /\ driver.at = "file" /\ driver.index > driver.total
  /\ Fold("driver", RunComplete(st, driver.failed))
  /\ outcome' = IF driver.failed > 0 THEN "bad" ELSE "clean"
  /\ driver' = IF driver.wired THEN AtRest ELSE [AtRest EXCEPT !.at = "eject"]
  /\ UNCHANGED <<mirror, switches, cmd, crossed, count>>

Eject ==
  /\ driver.at = "eject"
  /\ \/ Free("driver") /\ RunEnds(outcome) /\ UNCHANGED <<st, out, feed, count>> \* not asked for
     \/ Fold("driver", Noted(st)) /\ RunEnds(outcome) /\ UNCHANGED count
     \/ Fails("runFails") /\ Fold("driver", FileFailed(st)) /\ RunEnds("bad")
  /\ UNCHANGED <<mirror, switches, cmd, crossed>>

Offload == \/ Begin \/ NeverBegins \/ Scan \/ NoRoom \/ Abort \/ Adopt \/ Copy \/ HalfWay \/ CopyFails
           \/ Land \/ Verify \/ CommitWired \/ Queue \/ FreeCard \/ Complete \/ Eject

-----------------------------------------------------------------------------
(* The cloud loop and the drain it runs (spawn_cloud_loop, CloudWorker).   *)

\* A mode of Off is one more reason not to drain, and nothing here needs a drain to begin.
ShouldDrain == ~paused /\ configured

\* The tick of the loop, and the reclaim a drain begins with.
Tick ==
  /\ drain.at = "rest" /\ Free("cloud")
  /\ ShouldDrain /\ Pending > 0
  /\ phase' = [j \in Jobs |-> IF phase[j] = "uploading" THEN "queued" ELSE phase[j]]
  /\ drain' = [drain EXCEPT !.at = "claim"]
  /\ UNCHANGED <<st, out, feed, task, chan, unreported, offload, switches, cmd, crossed, count>>

Queued == {j \in Jobs : phase[j] = "queued"}

Claim ==
  /\ drain.at = "claim" /\ Queued # {}
  /\ \E jobs \in SUBSET Queued :
       /\ Cardinality(jobs) = Min({Concurrency, Cardinality(Queued)})
       /\ phase' = [j \in Jobs |-> IF j \in jobs THEN "uploading" ELSE phase[j]]
       /\ task' = [j \in Jobs |-> IF j \in jobs THEN "check" ELSE "none"]
  /\ drain' = [drain EXCEPT !.at = "pass"]
  /\ UNCHANGED <<st, out, feed, chan, unreported, offload, switches, cmd, crossed, count>>

\* Time passes: a retry comes due.
RetryDue(j) ==
  /\ phase[j] = "waiting"
  /\ phase' = [phase EXCEPT ![j] = "queued"]
  /\ UNCHANGED <<st, out, feed, drain, task, chan, unreported, offload,
                 switches, cmd, crossed, count>>

Drained ==
  /\ drain.at = "claim" /\ Pending = 0
  /\ drain' = [drain EXCEPT !.at = "rest"]
  /\ UNCHANGED <<st, out, feed, phase, task, chan, unreported, offload,
                 switches, cmd, crossed, count>>

\* An upload is announced once it is known to be needed.
StartUpload(j) ==
  /\ task[j] = "check"
  /\ task' = [task EXCEPT ![j] = "upload"]
  /\ chan' = Append(chan, j)
  /\ UNCHANGED <<st, out, feed, phase, drain, unreported, offload, switches, cmd, crossed, count>>

Announce ==
  /\ drain.at = "pass" /\ chan # <<>>
  /\ Fold("cloud", Uploading(st, Head(chan)))
  /\ chan' = Tail(chan)
  /\ UNCHANGED <<phase, drain, task, unreported, offload, switches, cmd, crossed, count>>

\* What a task returned is stamped: the object is there, or the upload has failed, for
\* good or for now.  The first two are reported then.
Stamp(j, end) ==
  /\ drain.at = "pass" /\ Free("cloud") /\ chan = <<>>
  /\ task[j] # "none"
  /\ task' = [task EXCEPT ![j] = "none"]
  /\ phase' = [phase EXCEPT ![j] = end]
  /\ IF end = "waiting"
     THEN UNCHANGED <<drain, unreported>>
     ELSE /\ unreported' = unreported \cup {j}
          /\ drain' = [at |-> "report", job |-> j,
                       event |-> IF end = "failed" THEN "CloudFailed" ELSE "Mirrored"]
  /\ UNCHANGED <<st, out, feed, chan, offload, switches, cmd, crossed>>

Join(j) ==
  \/ Stamp(j, "done") /\ UNCHANGED count
  \/ \E end \in {"failed", "waiting"} : Stamp(j, end) /\ Fails("uploadFails")

Report ==
  /\ drain.at = "report"
  /\ Fold("cloud", IF drain.event = "Mirrored" THEN Mirrored(st, drain.job)
                   ELSE CloudFailed(st, drain.job))
  /\ unreported' = unreported \ {drain.job}
  /\ Cross
  /\ drain' \in [at : {"pass"} \cup (IF drain.event = "Mirrored" THEN {"free"} ELSE {}),
                job : {None}, event : {None}]
  /\ UNCHANGED <<phase, task, chan, offload, switches, cmd, count>>

\* The original of a mirrored file is deleted, or cannot be.
FreeSource ==
  /\ drain.at = "free"
  /\ Fold("cloud", Noted(st))
  /\ drain' = [drain EXCEPT !.at = "pass"]
  /\ UNCHANGED <<phase, task, chan, unreported, offload, switches, cmd, crossed, count>>

EndPass ==
  /\ drain.at = "pass" /\ Free("cloud") /\ chan = <<>>
  /\ \A j \in Jobs : task[j] = "none"
  /\ drain' = [drain EXCEPT !.at = "claim"]
  /\ UNCHANGED <<st, out, feed, phase, task, chan, unreported, offload,
                 switches, cmd, crossed, count>>

\* An error of the ledger ends the drain, and its tasks with it.
DrainFails ==
  /\ Free("cloud")
  /\ \/ drain.at \in {"claim", "report"}
     \/ drain.at = "pass" /\ chan = <<>> /\ \E j \in Jobs : task[j] # "none"
  /\ drain' = [at |-> "rest", job |-> None, event |-> None]
  /\ task' = [j \in Jobs |-> "none"]
  /\ chan' = <<>>
  /\ Fails("ledgerFails")
  /\ UNCHANGED <<st, out, feed, phase, unreported, offload, switches, cmd, crossed>>

MirrorLoop ==
  \/ Tick \/ Claim \/ Drained \/ Announce \/ Report \/ FreeSource \/ EndPass \/ DrainFails
  \/ \E j \in Jobs : RetryDue(j) \/ StartUpload(j) \/ Join(j)

-----------------------------------------------------------------------------
(* The commands of the popover and the settings window.                    *)

MayCommand ==
  /\ cmd.what = None /\ count.commands < MaxCommands
  /\ count' = [count EXCEPT !.commands = @ + 1]

\* pause_cloud and resume_cloud, whichever the popover offers: the flag, then the snapshot.
SetPaused(p) ==
  /\ MayCommand /\ p # paused
  /\ paused' = p
  /\ cmd' = [cmd EXCEPT !.what = IF p THEN "pause" ELSE "resume"]
  /\ UNCHANGED <<st, out, feed, mirror, configured, offload, crossed>>

Counts(what, rows) ==
  [what |-> what, counted |-> TRUE,
   pending |-> Cardinality({j \in Jobs : rows[j] \in Live}),
   failed  |-> Cardinality({j \in Jobs : rows[j] = "failed"})]

\* The counts are of now; an event that is yet to be folded is of a row already in them.
Count(what, rows) ==
  /\ cmd' = Counts(what, rows)
  /\ crossed' = IF drain.at = "report" THEN 1 ELSE 0

RetryCountsFirst ==
  /\ MayCommand
  /\ phase' = [j \in Jobs |-> IF phase[j] = "failed" THEN "queued" ELSE phase[j]]
  /\ Count("retry", phase)
  /\ UNCHANGED <<st, out, feed, drain, task, chan, unreported, switches, offload>>

\* retry_failed_cloud: the rows, then their counts, before the lock.
RetryFailed ==
  /\ MayCommand
  /\ phase' = [j \in Jobs |-> IF phase[j] = "failed" THEN "queued" ELSE phase[j]]
  /\ Count("retry", phase')
  /\ UNCHANGED <<st, out, feed, drain, task, chan, unreported, switches, offload>>

\* save_config, with the [cloud] table removed or put back.
SaveConfig ==
  /\ "reconfigure" \in Events
  /\ MayCommand
  /\ Count("save", phase)
  /\ UNCHANGED <<st, out, feed, mirror, switches, offload>>

\* apply_config_in_memory.
Applied ==
  IF configured
  THEN [st EXCEPT !.configured = FALSE, !.pending = 0, !.failed = 0, !.uploading = None]
  ELSE [st EXCEPT !.configured = TRUE, !.pending = cmd.pending, !.failed = cmd.failed]

AnswerUnnumbered ==
  /\ cmd.what \in {"pause", "resume"}
  /\ st' = [st EXCEPT !.paused = (cmd.what = "pause")]
  /\ out' = [out EXCEPT !["command"] = [at |-> "guard", frame |-> st']]
  /\ cmd' = [cmd EXCEPT !.what = None]
  /\ UNCHANGED <<feed, mirror, paused, configured, offload, crossed, count>>

Answer ==
  /\ cmd.what # None
  /\ Fold("command", CASE cmd.what \in {"pause", "resume"} -> [st EXCEPT !.paused = (cmd.what = "pause")]
                       [] cmd.what = "retry" -> [st EXCEPT !.pending = cmd.pending, !.failed = cmd.failed]
                       [] cmd.what = "save" -> Applied)
  /\ configured' = IF cmd.what = "save" THEN ~configured ELSE configured
  /\ cmd' = [what |-> None, counted |-> FALSE, pending |-> 0, failed |-> 0]
  /\ UNCHANGED <<mirror, paused, offload, crossed, count>>

Commands == \/ \E p \in BOOLEAN : SetPaused(p)
            \/ RetryFailed \/ SaveConfig \/ Answer

-----------------------------------------------------------------------------
Next == \/ Offload \/ MirrorLoop \/ Commands \/ Window
        \/ \E t \in Threads : ShouldEmit(t) \/ Emit(t)

Spec == Init /\ [][Next]_vars

-----------------------------------------------------------------------------
(* What the popover can be believed.                                       *)

Quiet == \A t \in Threads : Free(t)

\* From the first event on, the popover never goes back in time: "two threads that fold
\* under the lock but emit after releasing it can no longer deliver an older frame after a
\* newer" (AppState::seq).  It does: the guard and the emission are two steps.
FramesInOrder == [][ui.seen => ui.frame.seq' >= ui.frame.seq]_vars

\* What the guard does give: a frame that passes is newer than all that were emitted and all
\* that have passed and wait for their thread to go on; so no frame goes out twice, and one
\* comes late only if its thread was overtaken after the guard (should_emit).
OnlyNewerPass ==
  [][\A t, u \in Threads : out[t].at = "guard" /\ out'[t].at = "emit" =>
       /\ sent.seq < out[t].frame.seq
       /\ out[u].at = "emit" => out[u].frame.seq < out[t].frame.seq]_vars

\* When no thread has a frame in hand, the snapshot has been emitted: a frame is dropped only
\* for a newer one that goes out, and every change of the snapshot has a number of its own.
\* Before the first event, what get_state answered is the snapshot, but for counts that it
\* read from the ledger itself.
Shown(s) == [status |-> s.status, run |-> s.run, paused |-> s.paused, uploading |-> s.uploading,
             configured |-> s.configured]
NewestIsSent ==
  Quiet => IF st.seq > 0 THEN sent = st
           ELSE ui.hydrate = "done" => Shown(ui.frame) = Shown(st)

\* The progress is that of the offload that runs, file by file, and there is none without
\* one, however it ended; one that failed leaves the status at Error till the next.
\* The tray never shows an idle app while one runs, whatever the mirror reports meanwhile.
RunIsTheOffloads ==
  /\ driver.at \in {"rest", "eject"} => st.run = None
  /\ driver.at = "rest" /\ outcome = "bad" => Tray(st) = "error"
  /\ driver.at \notin {"rest", "eject"} => Tray(st) # "idle"
  /\ driver.at = "file" =>
       /\ st.run.total = driver.total
       /\ st.run.completed = Size * driver.copied
       /\ st.run.bytes <= Size * driver.total
       /\ st.run.done \in driver.copied .. driver.index - 1

\* The job shown as uploading has not ended, unless its end is not reported.
SlotIsLive == st.uploading # None => phase[st.uploading] \in Live \/ st.uploading \in unreported

FeedInv == TypeOK /\ SlotIsLive

\* Once every row is announced and no end is left to report, while a mirror is configured.
Settled == configured /\ unreported = {} /\ driver.at \notin {"landed", "queue"} /\ ~cmd.counted

\* The badges never hide work: what is left to upload and what there is to retry is counted,
\* as "every seed path keeps the two popover counters consistent" (CloudCounts).  They do hide
\* some, if a command reads its counts while an event is on its way.
BadgesHideNothing == Settled => st.pending >= Pending /\ st.failed >= Failed

\* That is all they hide: the badges are short by no more than the events that crossed the
\* last counts a command read, whatever retries, drains that break off and a table removed
\* and put back did before; counts that no event crossed put them right.
BadgesMissOnlyCrossed ==
  Settled => st.pending + crossed >= Pending /\ st.failed + crossed >= Failed
=============================================================================
