---------------------------- MODULE WiredOffload ----------------------------
(***************************************************************************)
(* The offload of a camera on USB: run_wired_offload (wired/offload.rs)    *)
(* and the resumable download below it (wired/client.rs), with the ledger  *)
(* tables it keeps.  One run at a time; between runs the user records and  *)
(* erases, the app is restarted with other settings, and the cloud worker  *)
(* mirrors what was queued (CloudQueue has the detail of that).            *)
(*                                                                         *)
(* A file is a sequence of chunks.  Chunk <<r, i>> is the i-th chunk of    *)
(* recording r, so a file made of the wrong recording, or of the right one *)
(* in the wrong order, differs from the whole recording; Junk is a chunk   *)
(* that the disk did not keep as written.  The empty sequence stands for a *)
(* file that does not exist, as the code treats both alike.                *)
(***************************************************************************)
EXTENDS Integers, FiniteSets, Sequences

CONSTANTS
  Recordings,   \* in the order of the camera's listing
  CardPath,     \* dir/name of each recording on the camera
  Names,        \* rendered destination names
  Name,         \* the dest_name of each recording
  Size,         \* its size in chunks
  MaxSize,      \* bound on Size
  MaxAttempts,  \* max_download_attempts (5 in the code)
  MaxOffline,   \* MAX_CONSECUTIVE_OFFLINE_FILES (3 in the code)
  Modes,        \* the mirror modes a run may find configured
  Verify,       \* cfg.verify
  Events,       \* what may go wrong, of the set below
  MaxFaults,    \* bound on crashes and unreadable files
  Junk,
  NoDest

\* The suffixes a name may need: every fault may leave a file that no row names.
Variants == 0..(Cardinality(Recordings) + MaxFaults)
Dests == Names \X Variants
Chunks == (Recordings \X (1..MaxSize)) \cup {Junk}

ASSUME RecordingsAssumption == Recordings \subseteq Nat /\ IsFiniteSet(Recordings)
ASSUME FilesAssumption ==
  /\ Name \in [Recordings -> Names]
  /\ Size \in [Recordings -> 1..MaxSize]
  /\ DOMAIN CardPath = Recordings
  /\ MaxSize \in Nat
  /\ Junk \notin Recordings \X (1..MaxSize)
  /\ NoDest \notin Dests
ASSUME BoundsAssumption ==
  /\ MaxAttempts \in Nat \ {0}
  /\ MaxOffline \in Nat \ {0}
  /\ MaxFaults \in Nat
ASSUME OptionsAssumption ==
  /\ Modes \subseteq {"Auto", "Manual", "Off"}
  /\ Verify \in BOOLEAN
  /\ Events \subseteq {"cut",       \* a transfer may stop with a part on disk
                      "badWrite",  \* the disk may not keep a chunk as written
                      "powerLoss", \* a crash may lose what was not synced
                      "badEntry",  \* the camera may list a file without a usable size
                      "diskError"} \* a rename or a read-back may fail

VARIABLES
  camera,   \* the recordings on the camera
  made,     \* the recordings made so far
  part,     \* the .part file of each destination
  local,    \* the file at each destination
  imported, \* the dest_path of each imported row
  job,      \* the cloud job of each recording
  remote,   \* the object at each remote path
  marker,   \* the camera_delete_pending row of each recording
  freed,    \* the recordings the program removed from the camera (history)
  awaits,   \* the recordings imported under Auto (history)
  run,      \* the offload run
  faults    \* so far

vars == <<camera, made, part, local, imported, job, remote, marker, freed, awaits, run, faults>>
disk == <<part, local>>
ledger == <<imported, job, marker>>
onCamera == <<camera, made, freed, awaits>>

-----------------------------------------------------------------------------
Whole(r) == [i \in 1..Size[r] |-> <<r, i>>]

RunStep == {"idle", "reap", "mark", "open", "body", "rename", "verify", "commit",
            "cleanup"}

Run == [at : RunStep, mode : Modes \cup {"Off"}, delete : BOOLEAN,
        listing : SUBSET Recordings, due : SUBSET Recordings,
        todo : SUBSET Recordings, target : [Recordings -> Dests \cup {NoDest}],
        cur : Recordings \cup {0}, tries : 0..(MaxAttempts - 1),
        streak : 0..(MaxOffline - 1), pos : 0..(MaxSize + 1), hashed : Seq(Chunks)]

NoTarget == [r \in Recordings |-> NoDest]

Idle == [at |-> "idle", mode |-> "Off", delete |-> FALSE, listing |-> {}, due |-> {},
         todo |-> {}, target |-> NoTarget, cur |-> 0, tries |-> 0, streak |-> 0,
         pos |-> 0, hashed |-> <<>>]

Init ==
  /\ camera = {}
  /\ made = {}
  /\ part = [d \in Dests |-> <<>>]
  /\ local = [d \in Dests |-> <<>>]
  /\ imported = [r \in Recordings |-> NoDest]
  /\ job = [r \in Recordings |-> "none"]
  /\ remote = [n \in Names |-> <<>>]
  /\ marker = [r \in Recordings |-> "none"]
  /\ freed = {}
  /\ awaits = {}
  /\ run = Idle
  /\ faults = 0

First(S) == CHOOSE r \in S : \A q \in S : r <= q
Target == run.target[run.cur]
Deleted(r) == camera \ {q \in Recordings : CardPath[q] = CardPath[r]}

-----------------------------------------------------------------------------
(* The user and the camera, between runs.                                  *)

Record(r) ==
  /\ run.at = "idle"
  /\ r \notin made
  /\ \A q \in camera : CardPath[q] # CardPath[r]
  /\ camera' = camera \cup {r}
  /\ made' = made \cup {r}
  /\ UNCHANGED <<disk, ledger, remote, freed, awaits, run, faults>>

Erase(r) ==
  /\ run.at = "idle"
  /\ r \in camera
  /\ camera' = camera \ {r}
  /\ UNCHANGED <<disk, ledger, remote, made, freed, awaits, run, faults>>

-----------------------------------------------------------------------------
(* The cloud worker, in one step: it skips an object of the right size.    *)

CloudMirrors(r) ==
  /\ job[r] = "pending"
  /\ remote' = [remote EXCEPT ![Name[r]] =
                  IF Len(@) = Size[r] THEN @ ELSE local[imported[r]]]
  /\ job' = [job EXCEPT ![r] = "done"]
  /\ UNCHANGED <<disk, onCamera, imported, marker, run, faults>>

-----------------------------------------------------------------------------
(* A run: the listing, and the deletes deferred on earlier connects.       *)

DueCameraDeletes == {r \in Recordings : marker[r] = "pending" /\ job[r] = "done"}

\* An entry whose size does not parse is skipped, the others are listed.
ParseMediaList(answer) == IF "badEntry" \in Events THEN SUBSET answer ELSE {answer}

\* What the camera answers is what it holds; without an answer the run ends here.
MediaList == ParseMediaList(camera)

StartRun ==
  /\ run.at = "idle"
  /\ \E mode \in Modes, delete \in BOOLEAN, listing \in MediaList :
       run' = [Idle EXCEPT !.at = "reap", !.mode = mode, !.delete = delete,
                           !.listing = listing,
                           !.due = IF delete THEN DueCameraDeletes ELSE {}]
  /\ UNCHANGED <<disk, onCamera, ledger, remote, faults>>

\* Gone from the listing, or another recording at its path: nothing to delete.
ReapStaleMarker ==
  /\ run.at = "reap"
  /\ run.due # {}
  /\ First(run.due) \notin run.listing
  /\ marker' = [marker EXCEPT ![First(run.due)] = "deleted"]
  /\ run' = [run EXCEPT !.due = @ \ {First(run.due)}]
  /\ UNCHANGED <<disk, onCamera, imported, job, remote, faults>>

\* The camera deletes by path; its answer may be lost.
ReapDelete ==
  /\ run.at = "reap"
  /\ run.due # {}
  /\ First(run.due) \in run.listing
  /\ camera' = Deleted(First(run.due))
  /\ freed' = freed \cup (camera \ camera')
  /\ run' \in {[run EXCEPT !.at = "mark"], [run EXCEPT !.due = @ \ {First(run.due)}]}
  /\ UNCHANGED <<disk, made, awaits, ledger, remote, faults>>

\* Mutant of ReapDeleteFails: the marker is cleared whatever the camera answered.
ReapDeleteFailsCleared ==
  /\ run.at = "reap"
  /\ run.due # {}
  /\ First(run.due) \in run.listing
  /\ marker' = [marker EXCEPT ![First(run.due)] = "deleted"]
  /\ run' = [run EXCEPT !.due = @ \ {First(run.due)}]
  /\ UNCHANGED <<disk, onCamera, imported, job, remote, faults>>

\* Any answer but 200 and 404 leaves the marker for a later connect.
ReapDeleteFails ==
  /\ run.at = "reap"
  /\ run.due # {}
  /\ First(run.due) \in run.listing
  /\ run' = [run EXCEPT !.due = @ \ {First(run.due)}]
  /\ UNCHANGED <<disk, onCamera, ledger, remote, faults>>

MarkCameraDeleteDone ==
  /\ run.at = "mark"
  /\ marker' = [marker EXCEPT ![First(run.due)] = "deleted"]
  /\ run' = [run EXCEPT !.at = "reap", !.due = @ \ {First(run.due)}]
  /\ UNCHANGED <<disk, onCamera, imported, job, remote, faults>>

-----------------------------------------------------------------------------
(* The plan.                                                               *)

\* What resolve_collision asks of the disk: whether there is a file of that name.
Exists(d) == local[d] # <<>>

\* resolve_collision, for the r-th of a plan: the first name that is neither on
\* disk nor reserved by an earlier file.  A .part does not count.
Resolved(r, plan) ==
  CHOOSE d \in Dests :
    /\ d[1] = Name[r]
    /\ ~Exists(d)
    /\ Cardinality({k \in Variants : k < d[2] /\ ~Exists(<<Name[r], k>>)})
         = Cardinality({q \in plan : q < r /\ Name[q] = Name[r]})

\* The run as it goes on to the first of the files in rest, or ends.
GoOnTo(rest, streak) ==
  IF rest = {} THEN Idle
  ELSE [run EXCEPT !.at = "open", !.todo = rest, !.cur = First(rest), !.tries = 0,
                   !.streak = streak, !.pos = 0, !.hashed = <<>>, !.due = {}]

\* A run that lacks the disk space ends here, as one with nothing new to fetch.
PlanWired ==
  /\ run.at = "reap"
  /\ run.due = {}
  /\ LET plan == {r \in run.listing : imported[r] = NoDest} IN
       run' \in {Idle, [GoOnTo(plan, 0) EXCEPT !.target =
                   [r \in Recordings |-> IF r \in plan THEN Resolved(r, plan) ELSE NoDest]]}
  /\ UNCHANGED <<disk, onCamera, ledger, remote, faults>>

-----------------------------------------------------------------------------
(* One download attempt.                                                   *)

NextFile(streak) == GoOnTo(run.todo \ {run.cur}, streak)

\* The retry budget of a file is spent, or the error is not worth a retry.
FileFails(kind) ==
  LET streak == IF kind = "retryable" THEN run.streak + 1 ELSE 0 IN
  IF streak >= MaxOffline THEN Idle ELSE NextFile(streak)

\* Mutant of AttemptFails: the budget is tested before the attempt is counted.
AttemptFailsUncounted(kind) ==
  IF kind = "retryable" /\ run.tries < MaxAttempts
    THEN [run EXCEPT !.at = "open", !.tries = @ + 1, !.pos = 0, !.hashed = <<>>]
    ELSE FileFails(kind)

\* Mutant of AttemptFails: a retryable error is always worth another attempt.
AttemptFailsForever(kind) ==
  IF kind = "retryable" THEN [run EXCEPT !.at = "open", !.pos = 0, !.hashed = <<>>]
                        ELSE FileFails(kind)

AttemptFails(kind) ==
  IF kind = "retryable" /\ run.tries + 1 < MaxAttempts
    THEN [run EXCEPT !.at = "open", !.tries = @ + 1, !.pos = 0, !.hashed = <<>>]
    ELSE FileFails(kind)

\* Whether a status, or an error of the disk, is worth another attempt.
ErrorKind == {"retryable", "fatal"}

\* A request that is not answered, or a body that does not go on, always is.
TransportErr == {"retryable"}
TimeoutErr == {"retryable"}

\* A write or a sync: too slow for the idle timeout, or refused.
DestIoGuarded == TimeoutErr \cup {"fatal"}

\* Mutant of Have: a complete part is trusted.
HaveUnlessLonger == IF Len(part[Target]) > Size[run.cur] THEN <<>> ELSE part[Target]

\* A part as long as the recording, or longer, is discarded before the request.
Have == IF Len(part[Target]) >= Size[run.cur] THEN <<>> ELSE part[Target]

\* The hasher takes up the prefix before the request is sent.
HashPartPrefix == Have

\* The offsets the Content-Range of a 206 may name.
ContentRangeStart == 0..MaxSize

\* A 206 from the offset asked for: the part is appended to.
OpenResumed ==
  /\ run.at = "open"
  /\ Have # <<>>
  /\ \E start \in ContentRangeStart :
       /\ start = Len(Have)
       /\ run' = [run EXCEPT !.at = "body", !.pos = start + 1, !.hashed = HashPartPrefix]
  /\ UNCHANGED <<disk, onCamera, ledger, remote, faults>>

\* Mutant of OpenFresh: the part is not truncated.
OpenFreshAppending ==
  /\ run.at = "open"
  /\ part' = [part EXCEPT ![Target] = Have]
  /\ run' = [run EXCEPT !.at = "body", !.pos = 1, !.hashed = Have]
  /\ UNCHANGED <<local, onCamera, ledger, remote, faults>>

\* No part, or the server sends all of it (200), rejects the offset (416) or
\* answers for another one: what was there is truncated.
OpenFresh ==
  /\ run.at = "open"
  /\ part' = [part EXCEPT ![Target] = <<>>]
  /\ run' = [run EXCEPT !.at = "body", !.pos = 1, !.hashed = <<>>]
  /\ UNCHANGED <<local, onCamera, ledger, remote, faults>>

\* No usable answer; a 416 before it has already cost the part.
OpenFails ==
  /\ run.at = "open"
  /\ \E left \in {Have, <<>>} : part' = [part EXCEPT ![Target] = left]
  /\ \E kind \in TransportErr \cup ErrorKind : run' = AttemptFails(kind)
  /\ UNCHANGED <<local, onCamera, ledger, remote, faults>>

Written == {<<run.cur, run.pos>>} \cup IF "badWrite" \in Events THEN {Junk} ELSE {}

ReceiveChunk ==
  /\ run.at = "body"
  /\ run.pos <= Size[run.cur]
  /\ \E c \in Written : part' = [part EXCEPT ![Target] = Append(@, c)]
  /\ run' = [run EXCEPT !.pos = @ + 1, !.hashed = Append(@, <<run.cur, run.pos>>)]
  /\ UNCHANGED <<local, onCamera, ledger, remote, faults>>

\* Whether the transfer can stop where it is.
MayStop == part[Target] = <<>> \/ "cut" \in Events

\* The connection drops or stalls, or the disk refuses a write.
BodyFails ==
  /\ run.at = "body"
  /\ MayStop
  /\ \E kind \in TransportErr \cup DestIoGuarded : run' = AttemptFails(kind)
  /\ UNCHANGED <<disk, onCamera, ledger, remote, faults>>

\* The body ends, perhaps early; only the advertised size goes further.
BodyEnds ==
  /\ run.at = "body"
  /\ MayStop \/ run.pos > Size[run.cur]
  /\ run' = IF Len(part[Target]) = Size[run.cur]
              THEN [run EXCEPT !.at = "rename", !.streak = 0]
              ELSE NextFile(0)
  /\ UNCHANGED <<disk, onCamera, ledger, remote, faults>>

-----------------------------------------------------------------------------
(* What is done with a complete download.                                  *)

Rename ==
  /\ run.at = "rename"
  /\ local' = [local EXCEPT ![Target] = part[Target]]
  /\ part' = [part EXCEPT ![Target] = <<>>]
  /\ run' = [run EXCEPT !.at = "verify"]
  /\ UNCHANGED <<onCamera, ledger, remote, faults>>

RenameFails ==
  /\ run.at = "rename"
  /\ "diskError" \in Events
  /\ run' = NextFile(0)
  /\ UNCHANGED <<disk, onCamera, ledger, remote, faults>>

VerifyDestHash ==
  /\ run.at = "verify"
  /\ IF Verify /\ local[Target] # run.hashed
       THEN /\ local' = [local EXCEPT ![Target] = <<>>]
            /\ run' = NextFile(0)
       ELSE /\ run' = [run EXCEPT !.at = "commit"]
            /\ UNCHANGED local
  /\ UNCHANGED <<part, onCamera, ledger, remote, faults>>

\* The file cannot be read back: it is left where it is, and not recorded.
VerifyUnreadable ==
  /\ run.at = "verify"
  /\ Verify
  /\ "diskError" \in Events
  /\ faults < MaxFaults
  /\ faults' = faults + 1
  /\ run' = NextFile(0)
  /\ UNCHANGED <<disk, onCamera, ledger, remote>>

\* One transaction: the imported row, and its cloud job if the mode mirrors.
CommitImported ==
  /\ run.at = "commit"
  /\ imported' = [imported EXCEPT ![run.cur] = Target]
  /\ job' = [job EXCEPT ![run.cur] = IF run.mode \in {"Auto", "Manual"} THEN "pending" ELSE @]
  /\ awaits' = IF run.mode = "Auto" THEN awaits \cup {run.cur} ELSE awaits
  /\ run' = IF run.delete THEN [run EXCEPT !.at = "cleanup"] ELSE NextFile(0)
  /\ UNCHANGED <<disk, camera, made, freed, marker, remote, faults>>

\* Mutant of ShouldDeleteCard: Auto deletes at once, like the other modes.
DeleteWhateverMode(mode) == TRUE

ShouldDeleteCard(mode) == mode # "Auto"

\* The delete may fail, or succeed and its answer be lost: neither is an error.
DeleteFromCamera ==
  /\ run.at = "cleanup"
  /\ ShouldDeleteCard(run.mode)
  /\ camera' \in {camera, Deleted(run.cur)}
  /\ freed' = freed \cup (camera \ camera')
  /\ run' = NextFile(0)
  /\ UNCHANGED <<disk, made, awaits, ledger, remote, faults>>

EnqueueCameraDelete ==
  /\ run.at = "cleanup"
  /\ ~ShouldDeleteCard(run.mode)
  /\ marker' = [marker EXCEPT ![run.cur] = "pending"]
  /\ run' = NextFile(0)
  /\ UNCHANGED <<disk, onCamera, imported, job, remote, faults>>

-----------------------------------------------------------------------------
\* The app stops, or a ledger error ends the run.
Crash ==
  /\ run.at # "idle"
  /\ run.at = "body" => MayStop
  /\ faults < MaxFaults
  /\ faults' = faults + 1
  /\ run' = Idle
  /\ UNCHANGED <<disk, onCamera, ledger, remote>>

\* The power goes: of a part that was not synced, some chunks never reached the disk.
PowerLoss ==
  /\ run.at = "body"
  /\ "powerLoss" \in Events
  /\ faults < MaxFaults
  /\ faults' = faults + 1
  /\ \E kept \in 0..Len(part[Target]) :
       part' = [part EXCEPT ![Target] = [i \in DOMAIN @ |-> IF i <= kept THEN @[i] ELSE Junk]]
  /\ run' = Idle
  /\ UNCHANGED <<local, onCamera, ledger, remote>>

Reap == ReapStaleMarker \/ ReapDelete \/ ReapDeleteFails \/ MarkCameraDeleteDone

Download == OpenResumed \/ OpenFresh \/ OpenFails \/ ReceiveChunk \/ BodyFails \/ BodyEnds

Keep ==
  \/ Rename \/ RenameFails \/ VerifyDestHash \/ VerifyUnreadable
  \/ CommitImported \/ DeleteFromCamera \/ EnqueueCameraDelete

RunWiredOffload == Reap \/ PlanWired \/ Download \/ Keep

Next ==
  \/ \E r \in Recordings : Record(r) \/ Erase(r) \/ CloudMirrors(r)
  \/ StartRun
  \/ RunWiredOffload
  \/ Crash \/ PowerLoss

Spec == Init /\ [][Next]_vars

\* A run keeps going: every request, read and write has a timeout or ends.
FairSpec == Spec /\ WF_vars(RunWiredOffload)

-----------------------------------------------------------------------------
(* Correctness.                                                            *)

TypeOK ==
  /\ camera \subseteq made
  /\ made \subseteq Recordings
  /\ part \in [Dests -> Seq(Chunks)]
  /\ local \in [Dests -> Seq(Chunks)]
  /\ imported \in [Recordings -> Dests \cup {NoDest}]
  /\ job \in [Recordings -> {"none", "pending", "done"}]
  /\ remote \in [Names -> Seq(Chunks)]
  /\ marker \in [Recordings -> {"none", "pending", "deleted"}]
  /\ freed \subseteq made
  /\ awaits \subseteq made
  /\ run \in Run
  /\ faults \in 0..MaxFaults

HeldWhole(r) == imported[r] # NoDest /\ local[imported[r]] = Whole(r)
MirroredWhole(r) == job[r] = "done" /\ remote[Name[r]] = Whole(r)

\* A file the ledger calls imported is the recording, chunk for chunk: whatever
\* was resumed, restarted, truncated or retried on the way, and no later run
\* writes over it (download_attempt, verify_dest_hash, resolve_collision).
ImportedIsAuthentic ==
  \A r \in Recordings : imported[r] # NoDest => HeldWhole(r)

\* A file the ledger calls imported has the length of the recording and was finished by
\* the camera, in the download that was verified, whatever part it was resumed from and
\* whatever the disk did: a part that was complete before is never taken for a download,
\* though a shorter one is, torn or foreign as it may be (download_attempt).
FinishedByCamera ==
  \A r \in Recordings : imported[r] # NoDest =>
    LET file == local[imported[r]] IN
      Len(file) = Size[r] /\ file[Size[r]] = <<r, Size[r]>>

\* No run writes over a file that the ledger calls imported, removes it or moves its row,
\* whatever names, leftovers and failed verifications there are (resolve_collision, the
\* rename over dest_path, the removal in verify_dest_hash).
ImportedStays ==
  [][\A r \in Recordings : imported[r] # NoDest =>
       imported'[r] = imported[r] /\ local'[imported[r]] = local[imported[r]]]_vars

\* An original the program removed from the camera is held whole locally, and in
\* the cloud as well if it was imported under Auto, whatever the settings became.
FreedIsSafe ==
  \A r \in freed : HeldWhole(r) /\ (r \in awaits => MirroredWhole(r))

\* A deferred delete is over only when the recording is off the camera: no lost
\* answer, failed delete, reused path or listing read too early makes the reap
\* forget one that is still there (reap_camera_deletes).
ClearedMeansGone ==
  \A r \in Recordings : marker[r] = "deleted" => r \notin camera

\* Every run ends: attempts are bounded, and no answer of the camera, resume or
\* restart leads back to the same state.
RunEnds == run.at # "idle" ~> run.at = "idle"

\* What the offload promises, whatever happens below: see Custody.
Contract == INSTANCE Custody WITH
  Files    <- Recordings,
  original <- camera,
  held     <- {r \in Recordings : HeldWhole(r)},
  mirrored <- {r \in Recordings : MirroredWhole(r)}

\* The run, its crashes and resumes, and the worker between them never give up a
\* copy that was counted on, nor an original before its copies are there.
KeepsCustody == Contract!Spec
=============================================================================
