----------------------------- MODULE SdOffload -----------------------------
(***************************************************************************)
(* The offload of a mounted card: run_offload_with_ejector and what it     *)
(* calls (orchestrator.rs, scanner.rs, copy.rs, transfer.rs), with the     *)
(* ledger rows it keeps and, in one step each, what the cloud worker does  *)
(* with them.  A copy is made in a temporary file nobody sees and renamed  *)
(* into place before it is read back, so a crash may leave a file at its   *)
(* destination that no row names, verified or not; a later run adopts it.  *)
(***************************************************************************)
EXTENDS Integers, FiniteSets

CONSTANTS
  Recordings,   \* in the order the scanner finds them
  Names,        \* rendered destination names
  Name,         \* the dest_name of each recording
  Size,         \* its length
  Modes,        \* the mirror modes a run may find configured
  Verifies,     \* the values of cfg.verify a run may find
  AutoEject,    \* cfg.auto_eject
  Events,       \* what may go wrong, of the set below
  MaxFaults,    \* bound on crashes and on files left behind by a disk error
  NoDest,
  NoFile

\* The suffixes a name may need: every fault may leave a file that no row names.
Variants == 0..(Cardinality(Recordings) + MaxFaults)
Dests == Names \X Variants

ASSUME RecordingsAssumption == Recordings \subseteq Nat /\ IsFiniteSet(Recordings)
ASSUME FilesAssumption ==
  /\ Name \in [Recordings -> Names]
  /\ Size \in [Recordings -> Nat]
  /\ NoDest \notin Dests
  /\ NoFile \notin [of : Recordings, good : BOOLEAN]
ASSUME OptionsAssumption ==
  /\ Modes \subseteq {"Auto", "Manual", "Off"}
  /\ Verifies \subseteq BOOLEAN
  /\ AutoEject \in BOOLEAN
  /\ MaxFaults \in Nat
  /\ Events \subseteq {"badWrite",  \* the disk may not keep what was written
                      "diskError", \* a sync or a read-back of a copy may fail
                      "readError"} \* hashing the two files to compare may fail

VARIABLES
  card,     \* the recordings on the card
  made,     \* the recordings made so far
  mounted,  \* whether the card is mounted
  local,    \* the file at each destination
  imported, \* the dest_path of each imported row
  job,      \* the cloud job of each recording
  remote,   \* the object at each remote path, which is named after the destination
  freed,    \* the recordings the program removed from the card (history)
  awaits,   \* the recordings imported under Auto (history)
  run,      \* the offload run
  faults    \* so far

vars == <<card, made, mounted, local, imported, job, remote, freed, awaits, run, faults>>
onCard == <<card, made, freed>>
ledger == <<imported, job, awaits>>

-----------------------------------------------------------------------------
\* A file is a full-length copy of a recording, kept as written or not.
File == [of : Recordings, good : BOOLEAN]
Whole(r) == [of |-> r, good |-> TRUE]

RunStep == {"idle", "item", "verify", "commit", "cleanup", "end"}

Run == [at : RunStep, mode : Modes \cup {"Off"}, delete : BOOLEAN, verify : BOOLEAN,
        todo : SUBSET Recordings, target : [Recordings -> Dests \cup {NoDest}],
        cur : Recordings \cup {0}]

Idle == [at |-> "idle", mode |-> "Off", delete |-> FALSE, verify |-> FALSE, todo |-> {},
         target |-> [r \in Recordings |-> NoDest], cur |-> 0]

Init ==
  /\ card = {}
  /\ made = {}
  /\ mounted = FALSE
  /\ local = [d \in Dests |-> NoFile]
  /\ imported = [r \in Recordings |-> NoDest]
  /\ job = [r \in Recordings |-> "none"]
  /\ remote = [d \in Dests |-> NoFile]
  /\ freed = {}
  /\ awaits = {}
  /\ run = Idle
  /\ faults = 0

First(S) == CHOOSE r \in S : \A q \in S : r <= q
Target == run.target[run.cur]

-----------------------------------------------------------------------------
(* The user: the card records in the camera, and is pulled at any time.    *)

Record(r) ==
  /\ ~mounted
  /\ run.at = "idle"
  /\ r \notin made
  /\ card' = card \cup {r}
  /\ made' = made \cup {r}
  /\ UNCHANGED <<mounted, local, ledger, remote, freed, run, faults>>

Erase(r) ==
  /\ run.at = "idle"
  /\ r \in card
  /\ card' = card \ {r}
  /\ UNCHANGED <<made, mounted, local, ledger, remote, freed, run, faults>>

Mount ==
  /\ ~mounted
  /\ mounted' = TRUE
  /\ UNCHANGED <<onCard, local, ledger, remote, run, faults>>

PullCard ==
  /\ mounted
  /\ mounted' = FALSE
  /\ UNCHANGED <<onCard, local, ledger, remote, run, faults>>

-----------------------------------------------------------------------------
(* The cloud worker.                                                       *)

RemotePath(r) == imported[r]

\* An object of the right size is not uploaded again, and its source not deleted.
CloudMirrors(r) ==
  /\ job[r] = "pending"
  /\ LET there == remote[RemotePath(r)]
         present == there # NoFile /\ Size[there.of] = Size[r] IN
       /\ remote' = [remote EXCEPT ![RemotePath(r)] = IF present THEN @ ELSE local[imported[r]]]
       /\ \E sweep \in BOOLEAN :
            job' = [job EXCEPT ![r] = IF sweep /\ ~present THEN "sweep" ELSE "done"]
  /\ UNCHANGED <<onCard, mounted, local, imported, awaits, run, faults>>

\* remove_file(card_src); the card may be gone, and a failure is not an error.
SweepCard(r) ==
  /\ job[r] = "sweep"
  /\ job' = [job EXCEPT ![r] = "done"]
  /\ card' \in {card, IF mounted THEN card \ {r} ELSE card}
  /\ freed' = freed \cup (card \ card')
  /\ UNCHANGED <<made, mounted, local, imported, awaits, remote, run, faults>>

-----------------------------------------------------------------------------
(* The scan.                                                               *)

\* Mutant of Exists: resolve_collision does not look at the disk.
ExistsNever(d) == FALSE

Exists(d) == local[d] # NoFile
Canonical(r) == <<Name[r], 0>>

\* resolve_collision, for the r-th of a plan: the first name that is neither on
\* disk nor reserved by an earlier file.
Resolved(r, plan) ==
  CHOOSE d \in Dests :
    /\ d[1] = Name[r]
    /\ ~Exists(d)
    /\ Cardinality({k \in Variants : k < d[2] /\ ~Exists(<<Name[r], k>>)})
         = Cardinality({q \in plan : q < r /\ Name[q] = Name[r]})

\* Mutant of GoOnTo: the last file stays the current one.
GoOnToKeepingLast(rest) ==
  IF rest = {} THEN [run EXCEPT !.at = "end", !.todo = {}]
  ELSE [run EXCEPT !.at = "item", !.todo = rest, !.cur = First(rest)]

\* The run as it goes on to the first of the files in rest, or to its end.
GoOnTo(rest) ==
  IF rest = {} THEN [Idle EXCEPT !.at = "end", !.mode = run.mode, !.delete = run.delete]
  ELSE [run EXCEPT !.at = "item", !.todo = rest, !.cur = First(rest)]

\* A run that lacks the disk space ends before it starts, and changes nothing.
StartRun ==
  /\ run.at = "idle"
  /\ mounted
  /\ LET plan == {r \in card : imported[r] = NoDest} IN
       \E mode \in Modes, delete \in BOOLEAN, verify \in Verifies :
         run' = [Idle EXCEPT
           !.at = IF plan = {} THEN "end" ELSE "item",
           !.mode = mode, !.delete = delete, !.verify = verify, !.todo = plan,
           !.target = [r \in Recordings |-> IF r \in plan THEN Resolved(r, plan) ELSE NoDest],
           !.cur = IF plan = {} THEN 0 ELSE First(plan)]
  /\ UNCHANGED <<onCard, mounted, local, ledger, remote, faults>>

-----------------------------------------------------------------------------
(* One file of the plan.                                                   *)

NextFile == GoOnTo(run.todo \ {run.cur})

\* commit_imported: one transaction, the row and the job of a mode that mirrors.
RecordImport(dest) ==
  /\ imported' = [imported EXCEPT ![run.cur] = dest]
  /\ job' = [job EXCEPT ![run.cur] = IF run.mode \in {"Auto", "Manual"} THEN "pending" ELSE @]
  /\ awaits' = IF run.mode = "Auto" THEN awaits \cup {run.cur} ELSE awaits

\* matching_hash needs both files, and is asked only if verify is on.
MatchingHash(dest) == mounted /\ local[dest] = Whole(run.cur)

\* Mutant of CanAdopt: no file is ever adopted.
AdoptNothing == FALSE

CanAdopt ==
  LET there == local[Canonical(run.cur)] IN
  /\ there # NoFile
  /\ Size[there.of] = Size[run.cur]
  /\ run.verify => MatchingHash(Canonical(run.cur))

AdoptRecovered ==
  /\ run.at = "item"
  /\ CanAdopt
  /\ RecordImport(Canonical(run.cur))
  /\ run' = NextFile
  /\ UNCHANGED <<onCard, mounted, local, remote, faults>>

\* A file that could not be hashed is copied again.
CopyThere == ~CanAdopt \/ (run.verify /\ "readError" \in Events)

Copies == [of : {run.cur}, good : {TRUE} \cup IF "badWrite" \in Events THEN {FALSE} ELSE {}]

CopyPersists ==
  /\ run.at = "item"
  /\ CopyThere
  /\ mounted
  /\ \E copy \in Copies : local' = [local EXCEPT ![Target] = copy]
  /\ run' = [run EXCEPT !.at = IF run.verify THEN "verify" ELSE "commit"]
  /\ UNCHANGED <<onCard, mounted, ledger, remote, faults>>

\* The source cannot be read or the disk is full: the temporary file is dropped.
CopyFails ==
  /\ run.at = "item"
  /\ CopyThere
  /\ run' = NextFile
  /\ UNCHANGED <<onCard, mounted, local, ledger, remote, faults>>

\* Mutant of VerifyDestHash: the file is not read back.
VerifyNothing ==
  /\ run.at = "verify"
  /\ run' = [run EXCEPT !.at = "commit"]
  /\ UNCHANGED <<onCard, mounted, local, ledger, remote, faults>>

VerifyDestHash ==
  /\ run.at = "verify"
  /\ IF local[Target].good
       THEN run' = [run EXCEPT !.at = "commit"] /\ UNCHANGED local
       ELSE run' = NextFile /\ local' = [local EXCEPT ![Target] = NoFile]
  /\ UNCHANGED <<onCard, mounted, ledger, remote, faults>>

\* The file in place cannot be synced or read back: it stays, and is not recorded.
LeftBehind ==
  /\ run.at \in {"verify", "commit"}
  /\ run.verify => run.at = "verify"
  /\ "diskError" \in Events
  /\ faults < MaxFaults
  /\ faults' = faults + 1
  /\ run' = NextFile
  /\ UNCHANGED <<onCard, mounted, local, ledger, remote>>

\* Mutant of ShouldDeleteCard: Auto deletes at once, like the other modes.
DeleteWhateverMode(mode) == TRUE

ShouldDeleteCard(mode) == mode # "Auto"

CommitImported ==
  /\ run.at = "commit"
  /\ RecordImport(Target)
  /\ run' = IF run.delete /\ ShouldDeleteCard(run.mode) THEN [run EXCEPT !.at = "cleanup"]
                                                       ELSE NextFile
  /\ UNCHANGED <<onCard, mounted, local, remote, faults>>

\* remove_file(src) fails if the card was pulled; a failure is not an error.
RemoveSource ==
  /\ run.at = "cleanup"
  /\ card' \in {card, IF mounted THEN card \ {run.cur} ELSE card}
  /\ freed' = freed \cup (card \ card')
  /\ run' = NextFile
  /\ UNCHANGED <<made, mounted, local, ledger, remote, faults>>

ShouldAutoEject == AutoEject /\ ~(run.delete /\ run.mode = "Auto")

\* The run is over; the card is ejected unless the worker still needs it.
EndOfRun ==
  /\ run.at = "end"
  /\ mounted' \in {mounted, mounted /\ ~ShouldAutoEject}
  /\ run' = Idle
  /\ UNCHANGED <<onCard, local, ledger, remote, faults>>

\* The app stops, or a ledger error ends the run.
Crash ==
  /\ run.at # "idle"
  /\ faults < MaxFaults
  /\ faults' = faults + 1
  /\ run' = Idle
  /\ UNCHANGED <<onCard, mounted, local, ledger, remote>>

RunOffload ==
  \/ StartRun \/ AdoptRecovered \/ CopyPersists \/ CopyFails
  \/ VerifyDestHash \/ LeftBehind \/ CommitImported \/ RemoveSource \/ EndOfRun

Next ==
  \/ \E r \in Recordings : Record(r) \/ Erase(r) \/ CloudMirrors(r) \/ SweepCard(r)
  \/ Mount \/ PullCard
  \/ RunOffload
  \/ Crash

Spec == Init /\ [][Next]_vars

-----------------------------------------------------------------------------
(* Correctness.                                                            *)

TypeOK ==
  /\ card \subseteq made
  /\ made \subseteq Recordings
  /\ mounted \in BOOLEAN
  /\ local \in [Dests -> File \cup {NoFile}]
  /\ imported \in [Recordings -> Dests \cup {NoDest}]
  /\ job \in [Recordings -> {"none", "pending", "sweep", "done"}]
  /\ remote \in [Dests -> File \cup {NoFile}]
  /\ freed \subseteq made
  /\ awaits \subseteq made
  /\ run \in Run
  /\ IF run.at \in {"idle", "end"} THEN run.cur = 0 ELSE run.cur \in run.todo
  /\ faults \in 0..MaxFaults

HeldWhole(r) == imported[r] # NoDest /\ local[imported[r]] = Whole(r)
MirroredWhole(r) == job[r] \in {"sweep", "done"} /\ remote[RemotePath(r)] = Whole(r)

\* A file the ledger calls imported, copied or adopted after a crash, is held whole
\* at the place the row names (copy_verified, matching_hash, resolve_collision).
ImportedIsHeld ==
  \A r \in Recordings : imported[r] # NoDest => HeldWhole(r)

\* A source the program removed from the card, inline or after its upload, is held
\* whole locally, and in the cloud as well if it was imported under Auto.
FreedIsSafe ==
  \A r \in freed : HeldWhole(r) /\ (r \in awaits => MirroredWhole(r))

\* A recording whose name is its own is never copied again under a suffix while its
\* canonical copy is whole, recorded or not: a run cut short between copy and row is
\* made good by adoption (run_offload_with_ejector, before the copy).
NoNeedlessSuffix ==
  \A r \in Recordings, d \in Dests :
    /\ \A q \in Recordings \ {r} : Name[q] # Name[r]
    /\ d # Canonical(r)
    /\ local[d] = Whole(r)
    => local[Canonical(r)] # Whole(r)

\* What the offload promises, whatever happens below: see Custody.
Contract == INSTANCE Custody WITH
  Files    <- Recordings,
  original <- card,
  held     <- {r \in Recordings : HeldWhole(r)},
  mirrored <- {r \in Recordings : MirroredWhole(r)}

\* The run, its crashes, a pulled card and the worker beside it never give up a copy
\* that was counted on, nor a source before its copies are there.
KeepsCustody == Contract!Spec
=============================================================================
