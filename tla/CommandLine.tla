---------------------------- MODULE CommandLine ----------------------------
(***************************************************************************)
(* The commands of gpbeam-cli (main.rs, lib.rs): how an argument vector    *)
(* becomes a command, what a command reads, opens, copies, ejects and      *)
(* drains, in which order, and the exit code a script sees.  Several       *)
(* commands may run at once, on one destination and its ledger, whose      *)
(* schema the first to open it creates (ledger.rs), and the app may be     *)
(* draining it.  How a file is copied is SdOffload, how one is uploaded    *)
(* CloudQueue: here each is one step with an outcome.                      *)
(***************************************************************************)
EXTENDS Integers, Sequences, FiniteSets, SequencesExt

CONSTANTS
  Files,       \* the recordings on the card
  Procs,       \* processes of the command line
  Argvs,       \* the argument vectors a user types
  Texts,       \* what the file named by --config may hold
  EnvSecret,   \* whether GPBEAM_NC_USERNAME or GPBEAM_NC_APP_PASSWORD is set
  MaxCommands, \* bound on the commands started
  MaxMishaps,  \* bound on crashes, failed copies, failed uploads and the like
  MaxMounts,   \* bound on the times the card is mounted again, and on the app's drains
  None

\* A text that does not parse, or cannot be read, has valid = FALSE.
Conf == [valid : BOOLEAN, mode : {"none", "Off", "Auto", "Manual"},
         delete : BOOLEAN, eject : BOOLEAN, url : BOOLEAN, entry : BOOLEAN]

ASSUME CommandAssumption ==
  /\ Texts \subseteq Conf
  /\ EnvSecret \in BOOLEAN
  /\ MaxCommands \in Nat /\ MaxMishaps \in Nat /\ MaxMounts \in Nat
  /\ None \notin STRING \cup Procs
  /\ "app" \notin Procs

VARIABLES
  proc,     \* each process
  dest,     \* whether the destination folder exists
  schema,   \* the ledger's user_version and what its migrations have created
  imported, \* the files with an imported row
  jobs,     \* the rows of cloud_jobs, in the order of their ids
  card,     \* the files on the card
  mounted,  \* whether the card is mounted
  lock,     \* who holds the worker lock
  count     \* of commands, faults and mounts

commandVars == <<proc, dest, schema, imported, jobs, card, mounted, lock, count>>
ledger == <<schema, imported, jobs>>
media == <<card, mounted>>

-----------------------------------------------------------------------------
(* From arguments to a command.                                            *)

\* split_config: --config takes the next argument, whatever it is.
SplitConfig(argv) ==
  LET step(acc, a) ==
        IF acc.open THEN [acc EXCEPT !.open = FALSE, !.config = a]
        ELSE IF a = "--config" THEN [acc EXCEPT !.open = TRUE]
        ELSE [acc EXCEPT !.rest = Append(@, a)] IN
  FoldLeft(step, [rest |-> <<>>, config |-> None, open |-> FALSE], argv)

SafetyFlags == {"--delete-after-verify", "--auto-eject"}
LongFlags == SafetyFlags \cup {"--version", "--config", "--delete-after-verfy"}

\* parse_safety_flags.
Flags(args) == SafetyFlags \cap ToSet(args)
Positional(args) == SelectSeq(args, LAMBDA a : a \notin SafetyFlags)
Unrecognized(args) == ToSet(args) \cap (LongFlags \ (SafetyFlags \cup {"--version"}))

\* How many positional arguments each command needs, itself included.
Arity == [c \in {"offload", "watch", "mirror", "mirror-status", "retry-cloud"} |->
            IF c = "offload" THEN 3 ELSE 2]

\* main's dispatch: the command, "version", or "usage" for exit code 2.
CommandOf(argv) ==
  LET split == SplitConfig(argv)
      args == Positional(split.rest) IN
  IF split.open \/ Unrecognized(split.rest) # {} \/ args = <<>> THEN "usage"
  ELSE IF args[1] \in {"--version", "-V"} THEN "version"
  ELSE IF args[1] \in DOMAIN Arity /\ Len(args) >= Arity[args[1]] THEN args[1]
  ELSE "usage"

\* Config::new, and load_or_default_config with apply_safety_overrides.
NoConf == [valid |-> TRUE, mode |-> "none", delete |-> FALSE, eject |-> FALSE,
           url |-> FALSE, entry |-> FALSE]
Overridden(conf, flags) ==
  [conf EXCEPT !.delete = @ \/ "--delete-after-verify" \in flags,
               !.eject = @ \/ "--auto-eject" \in flags]

\* EnvConfigStore::get: either variable makes a secret, with or without an entry.
HasSecret(conf) == conf.entry \/ EnvSecret

\* build_uploader: a base URL that is fit for a password, and a secret to send.
Buildable(conf) == conf.url /\ HasSecret(conf)

-----------------------------------------------------------------------------
Step == {"off", "wait", "dest", "config", "open", "migrate", "scan", "copy", "eject",
         "build", "lock", "drain", "unlock", "requeue", "list"}
Job == [file : Files, state : {"queued", "done", "failed"}]
Proc == [at : Step, cmd : DOMAIN Arity \cup {"version", "usage"}, flags : SUBSET SafetyFlags,
         named : BOOLEAN,        \* whether a --config was given
         conf : Conf, seen : 0..3, plan : SUBSET Files,
         failed : Nat, gaveUp : Nat,   \* RunSummary.failed, and cloud_failed
         code : 0..2,            \* the exit code of a process that is off
         \* history: the files the scan found, those it failed on, whether it ejected the
         \* card, and the rows others left to its drain
         owed : SUBSET Files, lost : SUBSET Files, ejected : BOOLEAN, entrusted : SUBSET Nat]

Off == [at |-> "off", cmd |-> "usage", flags |-> {}, named |-> FALSE, conf |-> NoConf,
        seen |-> 0, plan |-> {}, failed |-> 0, gaveUp |-> 0, code |-> 0,
        owed |-> {}, lost |-> {}, ejected |-> FALSE, entrusted |-> {}]

\* What each migration creates.
Creates == <<{"imported"}, {"cloud_status", "cloud_jobs"}, {"camera_delete_pending"}>>

CommandInit ==
  /\ proc = [p \in Procs |-> Off]
  /\ dest \in BOOLEAN
  /\ schema = [version |-> 0, tables |-> {}]
  /\ imported = {}
  /\ jobs = <<>>
  /\ card = Files
  /\ mounted = TRUE
  /\ lock = None
  /\ count = [commands |-> 0, faults |-> 0, mounts |-> 0]

MoveTo(p, step) == proc' = [proc EXCEPT ![p].at = step]

\* A run of watch that ends leaves the loop waiting; anything else exits.
Ended(q, code) ==
  IF q.cmd = "watch"
  THEN [Off EXCEPT !.at = "wait", !.cmd = q.cmd, !.flags = q.flags, !.named = q.named]
  ELSE [Off EXCEPT !.code = code]
End(p, code) == proc' = [proc EXCEPT ![p] = Ended(@, code)]

Fault == count.faults < MaxMishaps /\ count' = [count EXCEPT !.faults = @ + 1]

-----------------------------------------------------------------------------
(* A command starts, finds its configuration and opens the ledger.         *)

\* A usage error and --version end the process before it touches anything.
StartCommand(p, argv) ==
  /\ proc[p].at = "off"
  /\ count.commands < MaxCommands
  /\ count' = [count EXCEPT !.commands = @ + 1]
  /\ LET name == CommandOf(argv)
         split == SplitConfig(argv)
         first == CASE name = "offload" -> "dest"
                    [] name = "watch" -> "wait"
                    [] name = "mirror" -> "config"
                    [] name \in {"mirror-status", "retry-cloud"} -> "open"
                    [] OTHER -> "off" IN
       proc' = [proc EXCEPT ![p] =
         [Off EXCEPT !.at = first, !.cmd = IF first = "off" THEN @ ELSE name, !.flags = Flags(split.rest),
                     !.named = split.config # None,
                     !.code = IF name = "usage" THEN 2 ELSE 0]]
  /\ UNCHANGED <<dest, ledger, media, lock>>

\* The card is plugged in, and watch hears of it and offloads it.
Watch(p) ==
  /\ proc[p].at = "wait"
  /\ count.mounts < MaxMounts
  /\ count' = [count EXCEPT !.mounts = @ + 1]
  /\ mounted' = TRUE
  /\ MoveTo(p, "dest")
  /\ UNCHANGED <<dest, ledger, card, lock>>

\* create_dir_all.
MakeDest(p) ==
  /\ proc[p].at = "dest"
  /\ \/ /\ dest' = TRUE
        /\ MoveTo(p, "config")
        /\ UNCHANGED count
     \/ /\ ~dest
        /\ Fault
        /\ End(p, 1)
        /\ UNCHANGED dest
  /\ UNCHANGED <<ledger, media, lock>>

\* mirror has nothing to do without a [cloud] section, and builds its worker at once.
LoadConfig(p) ==
  /\ proc[p].at = "config"
  /\ \E text \in IF proc[p].named THEN Texts ELSE {NoConf} :
       LET conf == Overridden(text, proc[p].flags)
           mirror == proc[p].cmd = "mirror" IN
       IF ~text.valid \/ (mirror /\ text.mode = "none") THEN End(p, 1)
       ELSE proc' = [proc EXCEPT ![p].at = IF mirror THEN "build" ELSE "open",
                                 ![p].conf = conf]
  /\ UNCHANGED <<dest, ledger, media, lock, count>>

\* Ledger::open reads the version once; without a folder to lie in, no file opens.
ReadVersion(p) ==
  /\ proc[p].at = "open"
  /\ IF dest THEN proc' = [proc EXCEPT ![p].at = "migrate", ![p].seen = schema.version]
     ELSE End(p, 1)
  /\ UNCHANGED <<dest, ledger, media, lock, count>>

\* Where a command goes once the ledger is open.
Opened(p) == CASE proc[p].cmd \in {"offload", "watch"} ->
                    IF lock = p THEN "drain" ELSE "scan"
               [] proc[p].cmd = "mirror" -> "drain"
               [] proc[p].cmd = "mirror-status" -> "list"
               [] OTHER -> "requeue"

\* Mutant of ApplyMigration: the version is bumped after the transaction, and a crash may come between.
MigrateTorn(p) ==
  /\ proc[p].at = "migrate"
  /\ proc[p].seen < 3
  /\ LET n == proc[p].seen + 1 IN
       IF Creates[n] \cap schema.tables # {}
       THEN /\ End(p, 1)
            /\ lock' = IF lock = p THEN None ELSE lock
            /\ UNCHANGED <<schema, count>>
       ELSE /\ \/ /\ schema' = [version |-> n, tables |-> schema.tables \cup Creates[n]]
                  /\ proc' = [proc EXCEPT ![p].seen = n]
                  /\ UNCHANGED count
               \/ /\ schema' = [schema EXCEPT !.tables = @ \cup Creates[n]]
                  /\ End(p, 1)
                  /\ Fault
            /\ UNCHANGED lock
  /\ UNCHANGED <<dest, imported, jobs, media>>

\* One migration is one transaction: what it creates and the version, or neither.
\* What another process has created meanwhile it cannot create again.
ApplyMigration(p) ==
  /\ proc[p].at = "migrate"
  /\ proc[p].seen < 3
  /\ LET n == proc[p].seen + 1 IN
       IF Creates[n] \cap schema.tables # {}
       THEN /\ End(p, 1)
            /\ lock' = IF lock = p THEN None ELSE lock
            /\ UNCHANGED schema
       ELSE /\ schema' = [version |-> n, tables |-> schema.tables \cup Creates[n]]
            /\ proc' = [proc EXCEPT ![p].seen = n]
            /\ UNCHANGED lock
  /\ UNCHANGED <<dest, imported, jobs, media, count>>

OpenDone(p) ==
  /\ proc[p].at = "migrate"
  /\ proc[p].seen = 3
  /\ MoveTo(p, Opened(p))
  /\ UNCHANGED <<dest, ledger, media, lock, count>>

-----------------------------------------------------------------------------
(* The offload.                                                            *)

\* A volume that is not a GoPro card, or not there, is an empty run.
Scan(p) ==
  /\ proc[p].at = "scan"
  /\ \/ /\ ~mounted
        /\ MoveTo(p, "build")
     \/ /\ mounted
        /\ proc' = [proc EXCEPT ![p].at = "copy",
                                ![p].plan = card \ imported, ![p].owed = card]
  /\ UNCHANGED <<dest, ledger, media, lock, count>>

\* The card cannot be read, or the plan has no room (diskguard): the command ends.
NoRoom(p) ==
  /\ proc[p].at = "scan"
  /\ mounted
  /\ Fault
  /\ End(p, 1)
  /\ UNCHANGED <<dest, ledger, media, lock>>

Mirroring(p) == proc[p].conf.mode \in {"Auto", "Manual"}

\* should_delete_card: under Auto the worker deletes, once the upload is done.
DeletesInline(p) == proc[p].conf.delete /\ proc[p].conf.mode # "Auto"

\* Copy, verify, commit, queue, and the inline delete, which may fail.
CopyFile(p, f) ==
  /\ proc[p].at = "copy"
  /\ f \in proc[p].plan
  /\ mounted /\ f \in card
  /\ imported' = imported \cup {f}
  /\ jobs' = IF Mirroring(p) THEN Append(jobs, [file |-> f, state |-> "queued"]) ELSE jobs
  /\ proc' = [proc EXCEPT ![p].plan = @ \ {f}]
  /\ \/ /\ card' = IF DeletesInline(p) THEN card \ {f} ELSE card
        /\ UNCHANGED count
     \/ /\ DeletesInline(p)
        /\ Fault
        /\ UNCHANGED card
  /\ UNCHANGED <<dest, schema, mounted, lock>>

\* A file that cannot be copied is counted and the run goes on.
CopyFails(p, f) ==
  /\ proc[p].at = "copy"
  /\ f \in proc[p].plan
  /\ IF mounted /\ f \in card THEN Fault ELSE UNCHANGED count
  /\ proc' = [proc EXCEPT ![p].plan = @ \ {f}, ![p].failed = @ + 1, ![p].lost = @ \cup {f}]
  /\ UNCHANGED <<dest, ledger, media, lock>>

\* A ledger error ends the command at once.
CommitFails(p) ==
  /\ proc[p].at = "copy"
  /\ proc[p].plan # {}
  /\ Fault
  /\ End(p, 1)
  /\ UNCHANGED <<dest, ledger, media, lock>>

CopyDone(p) ==
  /\ proc[p].at = "copy"
  /\ proc[p].plan = {}
  /\ MoveTo(p, "eject")
  /\ UNCHANGED <<dest, ledger, media, lock, count>>

\* Mutant of ShouldEject: the card is ejected whenever that was asked for.
EjectWhenAsked(conf) == conf.eject

\* should_auto_eject: not while the worker has yet to delete from the card.
ShouldEject(conf) == conf.eject /\ ~(conf.delete /\ conf.mode = "Auto")

\* An eject that fails is reported and costs nothing.
Eject(p) ==
  /\ proc[p].at = "eject"
  /\ \/ /\ ShouldEject(proc[p].conf)
        /\ mounted' = FALSE
        /\ proc' = [proc EXCEPT ![p].at = "build", ![p].ejected = TRUE]
        /\ UNCHANGED count
     \/ /\ IF ShouldEject(proc[p].conf) THEN Fault ELSE UNCHANGED count
        /\ MoveTo(p, "build")
        /\ UNCHANGED mounted
  /\ UNCHANGED <<dest, ledger, card, lock>>

-----------------------------------------------------------------------------
(* The drain.                                                              *)

Queued == {i \in DOMAIN jobs : jobs[i].state = "queued"}

\* Mutant of ExitCode: a run that went on to the cloud forgets the copies that failed.
ExitCodeOfUploads(p) == IF proc[p].gaveUp = 0 THEN 0 ELSE 1

ExitCode(p) == IF proc[p].failed + proc[p].gaveUp = 0 THEN 0 ELSE 1

\* build_cloud_worker.
BuildWorker(p) == IF Buildable(proc[p].conf) THEN MoveTo(p, "lock") ELSE End(p, 1)

\* An offload goes on to the cloud only under Auto.
OffloadGoesOn(p) ==
  /\ proc[p].at = "build"
  /\ proc[p].cmd # "mirror"
  /\ IF proc[p].conf.mode = "Auto" THEN BuildWorker(p) ELSE End(p, ExitCode(p))
  /\ UNCHANGED <<dest, ledger, media, lock, count>>

\* mirror drains in any mode.
MirrorGoesOn(p) ==
  /\ proc[p].at = "build"
  /\ proc[p].cmd = "mirror"
  /\ BuildWorker(p)
  /\ UNCHANGED <<dest, ledger, media, lock, count>>

\* What is queued is left to the worker that holds the lock.
Skip(p) ==
  LET left == IF lock \in Procs THEN [proc EXCEPT ![lock].entrusted = @ \cup Queued] ELSE proc IN
  proc' = [left EXCEPT ![p] = Ended(@, ExitCode(p))]

\* Mutant of TryLock: the lock is waited for.
WaitForLock(p) ==
  /\ proc[p].at = "lock"
  /\ \/ /\ ~dest
        /\ End(p, 1)
        /\ UNCHANGED lock
     \/ /\ dest /\ lock = None
        /\ lock' = p
        /\ MoveTo(p, "open")
  /\ UNCHANGED <<dest, ledger, media, count>>

\* Another worker that holds the lock is not waited for.  The lock file lies in dest.
TryLock(p) ==
  /\ proc[p].at = "lock"
  /\ \/ /\ ~dest
        /\ End(p, 1)
        /\ UNCHANGED lock
     \/ /\ dest /\ lock # None
        /\ Skip(p)
        /\ UNCHANGED lock
     \/ /\ dest /\ lock = None
        /\ lock' = p
        /\ MoveTo(p, "open")
  /\ UNCHANGED <<dest, ledger, media, count>>

\* An upload, and the delete of the source if it still is where it was.
Mirrors(p, i) ==
  /\ proc[p].at = "drain"
  /\ i \in Queued
  /\ jobs' = [jobs EXCEPT ![i].state = "done"]
  /\ card' = IF proc[p].conf.delete /\ mounted THEN card \ {jobs[i].file} ELSE card
  /\ UNCHANGED <<proc, dest, schema, imported, mounted, lock, count>>

\* CloudFailed: retries exhausted, or an error that no retry mends.
GivesUp(p, i) ==
  /\ proc[p].at = "drain"
  /\ i \in Queued
  /\ Fault
  /\ jobs' = [jobs EXCEPT ![i].state = "failed"]
  /\ proc' = [proc EXCEPT ![p].gaveUp = @ + 1, ![p].lost = @ \cup {jobs[i].file}]
  /\ UNCHANGED <<dest, schema, imported, media, lock>>

\* The drain is over when nothing is pending; a ledger error ends it at any time.
DrainDone(p) ==
  /\ proc[p].at = "drain"
  /\ Queued = {}
  /\ MoveTo(p, "unlock")
  /\ UNCHANGED <<dest, ledger, media, lock, count>>

DrainFails(p) ==
  /\ proc[p].at = "drain"
  /\ Fault
  /\ End(p, 1)
  /\ lock' = None
  /\ UNCHANGED <<dest, ledger, media>>

\* The lock goes when run_until_drained returns, after its last look at the queue.
Unlock(p) ==
  /\ proc[p].at = "unlock"
  /\ lock' = None
  /\ End(p, ExitCode(p))
  /\ UNCHANGED <<dest, ledger, media, count>>

-----------------------------------------------------------------------------
(* The two commands that only use the ledger.                              *)

RetryCloud(p) ==
  /\ proc[p].at = "requeue"
  /\ jobs' = [i \in DOMAIN jobs |->
               IF jobs[i].state = "failed" THEN [jobs[i] EXCEPT !.state = "queued"] ELSE jobs[i]]
  /\ End(p, 0)
  /\ UNCHANGED <<dest, schema, imported, media, lock, count>>

MirrorStatus(p) ==
  /\ proc[p].at = "list"
  /\ End(p, 0)
  /\ UNCHANGED <<dest, ledger, media, lock, count>>

-----------------------------------------------------------------------------
(* Around the command line.                                                *)

\* A process is killed: its lock goes with it, and nothing else.
Kill(p) ==
  /\ proc[p].at # "off"
  /\ Fault
  /\ proc' = [proc EXCEPT ![p] = [Off EXCEPT !.code = 1]]
  /\ lock' = IF lock = p THEN None ELSE lock
  /\ UNCHANGED <<dest, ledger, media>>

\* The user mounts the card again.
Remount ==
  /\ ~mounted
  /\ count.mounts < MaxMounts
  /\ mounted' = TRUE
  /\ count' = [count EXCEPT !.mounts = @ + 1]
  /\ UNCHANGED <<proc, dest, ledger, card, lock>>

\* The app takes the lock for a drain of its own, for as long as that takes.
AppLocks ==
  /\ lock = None
  /\ dest
  /\ schema.version = 3
  /\ count.mounts < MaxMounts
  /\ lock' = "app"
  /\ count' = [count EXCEPT !.mounts = @ + 1]
  /\ UNCHANGED <<proc, dest, ledger, media>>

AppUnlocks ==
  /\ lock = "app"
  /\ lock' = None
  /\ UNCHANGED <<proc, dest, ledger, media, count>>

-----------------------------------------------------------------------------
Advance(p) ==
  \/ MakeDest(p) \/ LoadConfig(p) \/ ReadVersion(p) \/ ApplyMigration(p) \/ OpenDone(p)
  \/ Scan(p) \/ NoRoom(p) \/ CommitFails(p) \/ CopyDone(p) \/ Eject(p)
  \/ OffloadGoesOn(p) \/ MirrorGoesOn(p) \/ TryLock(p) \/ DrainDone(p) \/ DrainFails(p) \/ Unlock(p) \/ RetryCloud(p) \/ MirrorStatus(p)
  \/ \E f \in Files : CopyFile(p, f) \/ CopyFails(p, f)
  \/ \E i \in DOMAIN jobs : Mirrors(p, i) \/ GivesUp(p, i)

CommandNext ==
  \/ \E p \in Procs : Advance(p) \/ Watch(p) \/ Kill(p)
  \/ \E p \in Procs, argv \in Argvs : StartCommand(p, argv)
  \/ Remount \/ AppLocks \/ AppUnlocks

CommandSpec == CommandInit /\ [][CommandNext]_commandVars

\* A process that runs is scheduled.
FairCommandSpec == CommandSpec /\ \A p \in Procs : WF_commandVars(Advance(p))

-----------------------------------------------------------------------------
CommandTypes ==
  /\ proc \in [Procs -> Proc]
  /\ dest \in BOOLEAN /\ mounted \in BOOLEAN
  /\ schema \in [version : 0..3, tables : SUBSET UNION Range(Creates)]
  /\ imported \subseteq Files /\ card \subseteq Files
  /\ jobs \in Seq(Job)
  /\ lock \in Procs \cup {"app", None}
  /\ count \in [commands : 0..MaxCommands, faults : 0..MaxMishaps, mounts : 0..MaxMounts]

Exits(p) == proc[p].at # "off" /\ proc'[p].at = "off"

\* A script may trust exit code 0: whatever its scan found on the card is imported, and
\* no copy and no upload of its own failed, whatever other commands did meanwhile
\* (run_offload_and_mirror, drain_counting_failures, main).
CleanExitIsClean ==
  [][\A p \in Procs : Exits(p) /\ proc'[p].code = 0 =>
       /\ proc[p].owed \subseteq imported'
       /\ proc[p].lost = {}]_commandVars

\* However often processes die in the middle of a first open, the ledger can be opened:
\* a migration fails only because another process has migrated since (from_conn).
OpensUnlessRaced ==
  [][\A p \in Procs : proc[p].at = "migrate" /\ Exits(p) /\ count'.faults = count.faults =>
       schema.version # proc[p].seen]_commandVars

\* A command that has yet to delete uploaded files from the card does not eject it
\* first (should_auto_eject).
CardStaysForDeletes ==
  \A p \in Procs : proc[p].at \in {"lock", "drain"} /\ proc[p].conf.delete => ~proc[p].ejected

CommandInv == CommandTypes /\ CardStaysForDeletes

\* Every command but watch ends: none waits for the worker lock (run_until_drained).
CommandsEnd ==
  \A p \in Procs : proc[p].at # "off" /\ proc[p].cmd # "watch" ~> proc[p].at = "off"

\* The drain that made others skip theirs handles what was queued by then
\* (run_until_drained: "its pass will handle everything pending").
SkippedIsHandled ==
  [][\A p \in Procs : proc[p].at = "unlock" /\ proc'[p].at # "unlock" /\ count'.faults = count.faults =>
       \A i \in proc[p].entrusted : jobs[i].state # "queued"]_commandVars
=============================================================================
