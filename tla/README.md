# GPBeam: a TLA+ verification project

GPBeam copies recordings from GoPro cameras (a mounted card, or a camera on USB) to a
local folder, verifies them, mirrors them to a Nextcloud server, and, if asked to,
deletes the originals. The copies it makes are often the only ones left, so the questions
behind everything here are: *can the program ever give up a recording it does not safely
hold elsewhere, does it finish what it started, and can its user believe what it says?*

## 1. Inventory

Paths are relative to `src/`; `core` is `crates/gpbeam-core/src`.

| Component | State it keeps | Operations | Hard part |
|---|---|---|---|
| Ledger (`core/ledger.rs`) | SQLite: `imported` (with `cloud_status`), `cloud_jobs`, `camera_delete_pending` | migrations; one transaction per import (row and job), claim, mark done/failed, reclaim, requeue, due deletes | shared by two processes; statements that belong together but are separate; a first open that is killed |
| Cloud worker (`core/cloud/worker.rs`) | the worker lock file, the join set of a pass | reclaim, claim, upload tasks, terminal stamps, card sweep, retry parking, sleep | concurrency, crashes, lost answers, retries |
| Nextcloud uploader (`core/cloud/nextcloud.rs`) | nothing local; a chunk session on the server | PROPFIND, PUT, chunked PUT and MOVE; URLs | resume of chunks, lost answers, names that mean something in a URL |
| Wired offload (`core/wired/offload.rs`, `client.rs`) | `.part` files, the run, the ledger | listing, reap of deferred deletes, plan, resumable download, rename, verify, commit, delete | resume, retry budgets, deletes that cross several connects |
| SD offload (`core/orchestrator.rs`, `scanner.rs`, `copy.rs`, `transfer.rs`) | temporary files, the run, the ledger | scan, adopt, copy, verify, commit, delete, eject | card pulled at any time, crash between rename, verify and commit |
| Names, capture time, kinds (`core/naming.rs`, `capture.rs`, `gopro.rs`) | none | classify, read the time taken, render, sanitize, resolve collisions | names that collide, hold separators, or bring tokens |
| Detection (`core/wired/detect.rs`, `core/detect.rs`) | the de-bounce set, re-arm requests, the mounts seen | probe, edge, poll | a re-arm racing an edge |
| Desktop shell (`src-tauri/src/lib.rs`, `commands.rs`, `cloud_runtime.rs`) | offload lock, drain ticker, detector and pause flags, re-arm budget | start-up recovery, mounts, wired runs, commands | locks, flags read before and used after an await |
| State reducer (`src-tauri/src/app_state.rs`) | the snapshot shown to the user, its sequence number | apply run and cloud events, emit | event streams of several threads, emission order |
| Configuration, credentials (`config_io.rs`, `keyring_store.rs`, `core/credentials.rs`) | `gpbeam.toml`, keychain, environment, in-memory fallback | load, save, set, clear and migrate passwords, look one up | an order of two stores under crashes |
| CLI (`crates/gpbeam-cli`) | none | offload, watch, mirror, mirror-status, retry-cloud | second process, exit code |
| Disk guard, progress throttle | none | pure functions | none |
| UI (`ui/`) | none | renders snapshots | none |

Interaction: the detectors of the app feed two consumer loops, which run one offload at a
time under the offload lock. An offload run commits an import and its cloud job in one
transaction; the app's ticker (or a CLI run) starts a drain of the queue under an advisory
file lock; a drain marks the job done, stamps the file's status, and sweeps the card source;
the next wired run reads that status to decide which deferred camera deletes have come due.
Runs, drains and commands each fold what they do into one snapshot, which goes to the window.

What makes each one correct:

- *Queue*: no job is uploaded by two workers; no row is stranded; done means stored and is
  final; the source is freed only then; every accepted job settles.
- *Offloads*: what the ledger calls imported is the recording and stays it; an original is
  deleted only when a whole copy is held, and under Auto only when the cloud has it too;
  an interrupted run is made good by the next one; every run ends.
- *Names*: every recording gets a name of its own, inside the destination, and the object a
  done job points at is its own file.
- *Shell*: one offload at a time; what is plugged in is offloaded, in spite of failures.
- *Snapshot*: only newer frames are sent, the newest of them is the state, it is of the offload
  that runs, and what the badges miss can be told. (That frames arrive in order and that the
  badges miss nothing, as the code's comments say, is refuted: section 3.)
- *Configuration*: no password is lost or half written, none that was revoked is used, and
  what a command reports is so.
- *CLI*: exit code 0 means clean; a killed command leaves a ledger that opens.

## 2. Modules

| Module | Models | Abstract spec it implements |
|---|---|---|
| `CloudQueue` | the queue tables of the ledger, the workers that drain them, start-up recovery, Retry, the clock | `MirrorContract` |
| `WiredOffload` | `run_wired_offload`, `reap_camera_deletes`, `download_resumable`/`download_attempt` | `Custody` |
| `SdOffload` | `run_offload_with_ejector`, `scan_with_skips`, `copy_verified`, `commit_imported` | `Custody` |
| `ChunkedUpload` | `already_present` and `upload` of `NextcloudUploader`: the plain PUT, the upload directory, the resume of chunks, the MOVE | |
| `Ingest` | both detectors, both consumer loops, the offload lock, the pause flag, `RearmBudget`, the switch for wired ingest | |
| `SnapshotFeed` | `AppState::apply`, `hydrate`, `emit_state`, the tray state; the events of an offload, a drain and the commands | |
| `ConfigStore` | `config_io.rs`, `keyring_store.rs`, the commands of the settings window | |
| `CommandLine` | `gpbeam-cli` from its arguments to its exit code, the ledger's migrations | |
| `FileRoute` | what happens to a file's name: scanner, `gopro.rs`, `capture.rs`, `naming.rs`, identity, remote path, URL | |
| `MirrorContract` | what mirroring promises of a file: accepted, stored, mirrored, freed, in that order | |
| `Custody` | what an offload promises about originals: freed only when held, and mirrored where promised | |
| `CloudQueueProofs`, `WiredOffloadProofs`, `SdOffloadProofs`, `IngestProofs`, `SnapshotFeedProofs` | the proofs about the component of that name | |
| `ObjectProofs` | the proofs about `ChunkedUpload` and `FileRoute`: an object is its file, whole and under its name | |
| `SettingsProofs` | the proofs about `ConfigStore` and `CommandLine`: the settings, and the commands that read them | |
| `CountingProofs` | lemmas about sequences, ranks and sums that several of them use | |
| `MC*` | constants for TLC | |

**CloudQueue.** `job` is a row of `cloud_jobs` (state, attempts, and the seconds left to
`next_retry_at`, so that no clock needs a bound), `cloudStatus` the file's status,
`remote` the server, `card` what is at each `card_src` path, `lock` the lock file, `drain`
the program counter of each `run_until_drained`, `task` its upload tasks. Each SQL
statement is an action, so a crash (`CutShort`), an app start (`RecoverAtStartup`), a Retry
or the other process falls between any two. An upload that lands may still be reported as
failed (`UploadLands`).

**WiredOffload.** A file is a sequence of chunks `<<recording, index>>`, so a file made of
the wrong recording or in the wrong order is told apart from the whole one; `Junk` is a
chunk the disk did not keep. `run` is the local state of the run: its position, the
listing it took, its plan and targets, the retry budget, the offline streak, and what the
hasher has seen (`hashed`, which is what verification compares with). `Have` is the prefix a
download starts from, `OpenResumed`, `OpenFresh` and `OpenFails` the outcomes of the range
request loop, `AttemptFails` the retry loop, `FileFails` the breaker.

**SdOffload.** A file is a full-length copy, good or bad (the temporary file of a copy is
never visible under its name). `run` holds the plan with its resolved targets;
`AdoptRecovered` is the record-or-recover branch, `CopyPersists`, `VerifyDestHash` and
`CommitImported` the steps a crash can fall between.

**ChunkedUpload.** What `CloudQueue` does in one step (`UploadLands`, `CheckAlreadyPresent`),
request by request. `up` is where the attempt of each job stands (`at`, the next `part`, and
the `present` chunks as they were listed), `dir` the upload directories on the server,
`object` what is at the remote path, `late` the requests whose client gave up. `UploadId` is
`derive_upload_id`; a chunk records whose bytes it holds and how many, so a directory that
two ledgers fill, or a torn chunk, gives an object that is `Mixed` or too short. The server
is taken from how the code uses it: it turns an assembly down unless the lengths add up to
`OC-Total-Length` and the checksum, where one is sent, agrees; it assembles whatever has the
right length otherwise.

**Ingest.** Addresses are four numbers, so that the derivation of the camera's address from
the host's (`CandidateCameraIps`) is the code's; `present` and `rearm` are the poller's sets,
`found` the channel to the consumer, `paused`, `active` and `enabled` the three flags of
`AppCtx`, `wanted` the switch in the file, `lock` the offload mutex. A tick is `Tick`, one
`Probe` per address, `Edge`, a `Report` or `GiveUp` per new camera, `EndTick`;
`recompute_detector_pause` is its two loads and its store (`LoadActive`, `LoadEnabled`,
`StorePause`), by the consumer or by a save. An offload is `StartRun` and `FinishRun`. Two
history variables, `credit` and `settled`, are what the properties need.

**SnapshotFeed.** `st` is `AppState`, and each event of `RunEvent` or `CloudEvent` an
operator on it named after the event (`Scanned`, `Copying`, `Mirrored`, ...); `Fold`
applies one under the lock, numbers the frame, and leaves it with its thread
(`out[t]`), which passes the guard (`ShouldEmit`, the `fetch_max`) and emits in a later
step (`Emit`); nothing keeps the other threads from folding, passing and emitting in between.
The threads are the offload, the drain and the commands. A command that needs the counts
of the ledger reads them in one step (`Count`) and stores them under the lock in another
(`Answer`), with folds in between. `ui` is the window: what it
shows, and its own call of `get_state` (`hydrate`). The offload (`driver`) and the drain
(`drain`, `task`, `chan`) emit events in the orders the code does, with every way to stop
early; `phase` is the ledger's row of each job, which commands count. Two history variables
are what the properties need: `sent`, the newest frame that was emitted, and `crossed`, the
number of the ledger's events that were on their way when a command last counted the rows,
or were folded between that count and its store.

**ConfigStore.** `file` is the configuration file (`Missing`, `Torn`, or its settings and its
`[credentials]` entry), `part` the file beside it, `unsynced` what a power loss takes, `handle`
who has the part open; `keychain`, `fallback` and `runtime` are the stores a password or a
setting may be in, `used` the password the last uploader was built with. Each command is a
sequence of the code's file operations (`cmd[w].at`), between any two of which the app may be
killed, the disk may fail or the keychain be locked. `Shown` is what the settings window
displays.

**CommandLine.** Arguments are sequences of words, parsed by `SplitConfig`, `Positional` and
`CommandOf` as the code does. `proc[p]` is a process: its step, its command, the configuration
it loaded, the version it read (`seen`) before its migration's transaction, its plan and its counts.
`schema` is `user_version` with the tables there are. Copies and uploads are one step each
here, with an outcome; `SdOffload` and `CloudQueue` have their detail.

**FileRoute.** Texts are sequences of tokens; only what a property tells apart is a token
(separators, dots, template tokens, characters a URL escapes). `Classify`, `ResolveCapture`,
`RenderName`, `SanitizeFileName`, `ResolveCollision`, `RemotePathFor`, `RemoteRel` and `FilesUrl`
are the pure functions; `ledger` maps an identity to the name it was recorded under, `objects` a
server path to the file there.

In both offload modules `CloudMirrors` (and `SweepCard`) stand for the whole queue in one
step; `CloudQueue` has the detail and `MirrorContract` is the bridge between them.

Modelling decisions common to all:

- Except in `FileRoute`, recordings differ in their deduplication key (serial, name, size,
  time) and names are abstract: a destination is a rendered name and a suffix. The content of
  a camera or card does not change under a run (the user records and erases between runs).
  The camera path is a constant of the recording, so that a run can choose whether paths are
  reused.
- A rename is durable once done; loss of directory entries is not modelled.
- Where the code ignores an error (`let _ =`, a best-effort delete) the action may or may
  not have its effect; where `?` ends the run, `Crash`/`CutShort` stands for it too.

## 3. Runs

| Run | Bounds | Shows |
|---|---|---|
| `cloud_queue_safety` | 2 jobs (one with a card source), 2 processes, 2 attempts, delays up to 3 s, 1 crash, Retry, card swap, failing deletes | no double upload, no stranded row, the implementation of `MirrorContract`, and `PendingSettles` |
| `wired_resume` | 3 recordings of 2 chunks, two of them at one camera path, each with a name of its own, any cuts, 2 attempts, breaker at 2, 1 crash, Auto and Manual; the disk keeps what it is given | authentic imports, safe deletes over several connects (`Custody`), deferred deletes that are not forgotten |
| `wired_faults` | 2 recordings of 2 chunks that want one name, Off; any cuts, bad writes, failing renames and bad entries, 1 crash, power loss or unreadable file | imports of full length, finished by the camera and not displaced (`FinishedByCamera`); `RunEnds` |
| `sd_offload` | 3 recordings, two of which share a name, all of one size, bad writes, disk errors, 1 crash or leftover, Auto and Off | held imports, adoption, `Custody` |
| `chunked_upload` | 3 jobs, all row 1 of their ledgers, of 1, 3 and 4 bytes (below the threshold, two chunks with a short last one, two full ones), one late or torn request | whole objects, honest results, refusals only for a cause outside of the upload |
| `ingest_serves` | 1 camera, 1 card, 2 retries, 2 plugs, 1 save, failing runs, a destination that does not open, a camera that answers only the probe | one offload at a time, bounded retries, `CameraIsServed`, `CardIsServed` |
| `snapshot_feed` | 2 jobs (one failed before the start), 2 uploads at a time, 1 offload of up to 2 files, 1 fault, 1 command, any order of folds, guards and emissions | only newer frames pass, the newest is emitted, the run and tray shown, badges short only by what crossed a count |
| `config_store` | 2 passwords, one command at a time, disk errors at any step, 2 kills, power losses or turns of the keychain | whole files, passwords kept, revoked passwords not used, honest results |
| `command_line` | 1 file, 2 processes, 2 commands out of 10 argument vectors and 5 configurations, 2 faults, 1 remount or app drain | exit codes, a ledger that opens, no eject before deletes, every command ends |
| `file_route` | 8 files on 2 cards, 4 settings, 1 change of settings, 2 strangers in the destination | names kept, nothing forgotten, objects that are their files |
| `cloud_card_swap` | 1 job, 1 process, a card swap | violation of `DeletesOnlyOriginals` |
| `snapshot_order` | 1 job, 1 offload of 1 file, 1 command, no fault | violation of `FramesInOrder` |

Why the bounds are enough: two processes and one crash are what a double claim or a
stranded row needs. Two chunks give the cases nothing, a proper prefix, and the whole; two
attempts give the first, a retry and the last; a breaker at 2 with 3 recordings gives trip,
reset and a failing tail. Two recordings under one name and one under its own give every case
of name resolution together with a leftover of a crash. One size for all files makes length
checks pass, so that only hashes can tell files apart, which is the hard case. In
`chunked_upload` the sizes differ instead, because the already-present check and the salt of
the upload id know files at one path by their size alone; 3 and 4 bytes need the chunk size
doubled once, one of them to an exact multiple, so a chunk size that does not grow shows as
a part too many. In `ingest_serves` two plugs give one device replugged, or a camera and a
card that compete for the lock, and two retries give a first, a last and one too many. In
`snapshot_feed` three threads each have a frame in hand at once, two jobs upload together,
and the second file of a plan shows a counter not reset. A `VIEW` keeps the order of the numbers
of frames instead of the numbers, and of the content of a frame whether it is the snapshot: no
step reads more, and the properties of `snapshot_feed` compare no more. `snapshot_order`, whose
property looks at the window, has no view. `config_store` needs two faults for a crash during
the repair of a failure.
`command_line` needs two processes for every race there is on the lock, and on the first
open, and two faults for a kill in a race. `file_route` lists names instead of counting: each
of its files or settings is there for one rule of the code (see `MCFileRoute`).

Bounds that do not come from the code: `MaxCrashes`, `MaxFaults` (crashes, leftovers and other
failures), `MaxPlugs`, `MaxToggles`, `MaxRuns`, `MaxFiles`, `MaxCommands`, `MaxMounts`,
`MaxEdits`, and smaller values of `MaxDelay` (64 s in the code) and `MaxOffline` (3),
`MaxAttempts` (5), `MaxRearms` (2, as in the code).

**Fairness.** `CloudQueue`: the app's ticker keeps starting drains while work is counted
(`spawn_cloud_loop`), a drain and its tasks keep running, requests end, time passes.
Nothing makes a CLI run start, and Retry is never fair. `WiredOffload`: the run keeps
going, since every request, read and write carries a timeout (`client.rs` 19-41, 466-501).
`Ingest`: each thread keeps being scheduled and runs end (that is `RunEnds`); the two `SF` on
the lock say that a waiter gets it in the end, as tokio's mutex is first come, first served;
`SF` on `Report` says that a camera that answers every probe answers `info()` at some time. Nothing
is assumed of the user, who may unplug, plug and save at any time. `CommandLine`: a process
that runs is scheduled, and its requests end. The other modules have no fairness.
An upload has no overall timeout of its own in the code; that a request ends rests on the
connection failing.

Deadlock is checked where a run that is over stays restartable or the user can always do
something. It is off where the bounded user runs out of things to do
(`ingest_serves`, `snapshot_feed`, `command_line`, `file_route`) and in the two runs that show a violation.

### Where the code and its texts disagree

Two have a run that TLC refutes:

- `cloud_card_swap`: the sweep removes by path, whatever card is there by then
  (`worker.rs` 262-270).
- `snapshot_order`: two threads "can no longer deliver an older frame after a newer"
  (`app_state.rs` 83-88), but guard and emission are two steps (`lib.rs` 283-287): one that is
  overtaken between them puts the older frame into the window, where it stays until the next
  event.

The others can be seen by checking a definition the modules keep, with the constants named:

| Checking | of | under | finds |
|---|---|---|---|
| `BackstopUnreachable` | `CloudQueue` | the constants of `cloud_queue_safety` | a retry that comes due between the empty claim and the look for a sleep sends the drain into the branch called "unreachable under correct code" (`worker.rs` 392-395, 431-442), which returns Ok with work pending |
| `DoneGetsFreed` | `CloudQueue`, with `FairSpec` | the same, no events, no crash | a job found already present is marked done without a sweep (`worker.rs` 231), though the card file is to go "once the upload reaches Done" (`orchestrator.rs` 113-115) |
| `FreedIsSafe` | `WiredOffload` | `OwnPath`, `SharedName`, `OneChunk`, `Modes = {"Auto"}`, no events | the remote path is made of the unresolved name, so two recordings of one name share it, the second upload is skipped or displaces the first, and both originals go, although the deferred delete is "never erasing the only other copy before the cloud has it" (`offload.rs` 265-291) |
| `ImportedIsAuthentic` (or `FreedIsSafe`) | `WiredOffload` | 1 recording, `TwoChunks`, `Modes = {"Manual"}`, `Events = {"powerLoss"}` | "a torn write left by a crash" is discarded if the part has the full length of the recording; a shorter one is hashed as it is found and resumed, so the file verifies against itself and the original goes (`client.rs` 337-350 and 370-374) |
| `ImportedIsAuthentic` | `WiredOffload` | `SamePath`, `SharedName`, `TwoChunks`, `Modes = {"Off"}`, `Events = {"cut"}` | a part is known by the destination's name alone (`offload.rs` 29), and "a leftover from different content" only by being too long (`client.rs` 328-335), so a recording may be finished onto the beginning of another |
| `BadgesHideNothing` | `SnapshotFeed` | the constants of `snapshot_feed`, no events, no faults | the counts are read "so every seed path keeps the two popover counters consistent" (`commands.rs` 130-132), but outside the lock they are stored under (506-530), so an event folded in between is overwritten |
| `FreedIsSafe` | `SdOffload` | `Verifies = {FALSE}` | without verification a copy of the right length is taken for the file, and the original goes (`orchestrator.rs` 356) |
| `PauseFollowsSwitches` | `Ingest` | `Events = {"runFails", "overlap"}` | of two recomputations that overlap the one with older loads may store last, although "any interleaving converges" (`commands.rs` 76-79) |
| `ReadersSeeWholeFiles` | `ConfigStore` | two `Callers`, `Overlap = TRUE` | two writers share one `.part`, so the rename of one publishes the truncated file of the other (`config_io.rs` 320-321) |
| `SkippedIsHandled` | `CommandLine` | `Argvs2`, `Texts2`, no faults, no mounts | a run that finds the lock held leaves its job to a drain that is past its last look, although "its pass will handle everything pending" (`worker.rs` 346-350) |

Where one of these cases is within the bounds of a passing run, the run checks what is left of the
claim with the case in it, and not without it. `wired_faults` resumes torn and foreign parts:
what holds is that a part which was complete before is never taken for a download, so an
imported file has the right length and was finished by the camera (`FinishedByCamera`).
`snapshot_feed` has every order of folds, guards and emissions: a frame comes late only if its
thread was overtaken after the guard (`OnlyNewerPass`), the newest is sent (`NewestIsSent`), and
a badge misses only what crossed a count (`BadgesMissOnlyCrossed`).

Met while modelling, without a definition of their own.

*Queue and uploads.* The sleep looks only at retries strictly in the future, so a job that has
just come due may wait for a later one (`worker.rs` 431-442). A crash between `mark_job_done`
and `set_cloud_status` (255-256) leaves a done file without a status, whose deferred delete
never comes due. The jitter of the backoff vanishes at the 64 s cap. An assembling MOVE into a
remote folder that does not exist is turned down by the server and the job given up, for only
the plain PUT makes the folder (`nextcloud.rs` 389-443 against 642-682). A MOVE that lands
after its client gave up takes the upload directory from under the next attempt, whose chunk
PUT is then refused, so the job is given up although its file is stored (a Retry puts it
right). The remote root is put before a name twice, when the job is queued (`transfer.rs` 362)
and when it is uploaded (`nextcloud.rs` 332), so files land in `<root>/<root>/<name>`.

*Offloads.* A crash between `commit_imported` and `enqueue_camera_delete` (`wired/offload.rs`
265-308) loses the marker. The comments at `client.rs` 299-300 and `offload.rs` 202-203 still
say that a part of full length is re-hashed, where the code discards it (346). A listing entry
whose length or time cannot be parsed is left out of the listing (`client.rs` 596-602), and the
reap takes a recording that is not listed for gone: with `"badEntry"` in `Events`,
`wired_resume` violates `ClearedMeansGone`. With verify off an unrelated file of the same name
and length is adopted (`orchestrator.rs` 242). A copy made under a suffix is not found again by
the adoption, which looks at the canonical name only. Template tokens are replaced one after
another, so a file whose own name holds a token has it expanded (`naming.rs` 20-26). Two cards
without a serial are one camera to the ledger.

*Shell.* A single missed probe counts as a replug and refills the retry budget (`lib.rs`
129-131). A `CameraFound` that is dropped because wired ingest is off is not repeated when it is
turned on; neither is a replug during an offload of another camera. Volumes
mounted before the start are never offloaded. With two cameras, a tick in progress may
probe the second while the first is offloaded, which the pause flag is there to prevent. A CLI
run does not take the offload lock. The tray icon is set after the fold without a look at the
sequence number (`lib.rs` 247-260), so a late thread may leave an older icon.

*Snapshot.* Pausing does not stop a drain that runs (`commands.rs` 464). A retryable failure emits
nothing. A command that counts a row whose report is on its way counts it, and then the report
does again. The upload shown is the last one announced, and is cleared
when that one ends although others go on. A ledger error between the stamp and its event leaves
the slot filled. A clean offload clears an Error status that the cloud set.

*Configuration.* Under `GPBEAM_DEST` the window shows the override, and a save writes it into
the file. A file that cannot be read during a save loses its `[credentials]` table. The
migration overwrites a newer password in the keychain (`commands.rs` 430). A keychain that
refuses fails the lookup even where the environment has the password (`keyring_store.rs` 225),
while the window may say there is one. A save beside a migration may write the stripped
password back.

*Command line.* `mirror-status` is called a pure read (`lib.rs` 282) and creates or migrates a
ledger. The README's table says an offload mirrors in manual mode too; the code drains only in
Auto. A failed eject and a card that is no GoPro's exit 0. Two offloads that overlap
queue two jobs for a file. Of two first opens that race one may fail, once. `--config`
swallows whatever word follows it.

## 4. Proofs

Every theorem is for every value of the constants and any number of steps, crashes and
failures, under the assumption its row names. (`CountingProofs` holds lemmas only.)

| Module | Theorem | Property | Assumption |
|---|---|---|---|
| `CloudQueueProofs` | `QueueInvariance` | the inductive invariant `QueueInv` | |
| | `TypeCorrect` | `TypeOK` | |
| | `SingleUploader` | `OneUploaderPerJob` | |
| | `NothingStranded` | `NoStrandedUpload` | |
| | `AttemptsSuffice` | `AttemptsLeft` | |
| | `StatusIsTrue` | `StatusFollowsJob` | |
| | `DoneIsFinal` | `DoneStays` | |
| | `DoneMeansMirrored` | `DoneIsMirrored` | distinct remote paths |
| | `FreedMeansMirrored` | `FreedIsMirrored` | distinct remote paths |
| | `QueueImplementsContract` | `KeepsContract` | distinct remote paths |
| `WiredOffloadProofs` | `RunInvHolds` | the inductive invariant `RunInv` | |
| | `TypeCorrect` | `TypeOK` | |
| | `NothingIsOverwritten` | no run writes over an imported file or moves its row | |
| | `CameraFinishes` | `FinishedByCamera` | `Verify` |
| | `ClearedIsGone` | `ClearedMeansGone` | no `"badEntry"` |
| | `VerifiedIsAuthentic` | `ImportedIsAuthentic` | `Verify`, and no download resumes from a part not its own |
| | `KeptInvHolds` | the inductive invariant `KeptInv` | `OwnNames`, `DiskKeeps` |
| | `ImportedAuthentic` | `ImportedIsAuthentic` | `OwnNames`, `DiskKeeps` |
| | `AuthenticKeepsCustody` | `KeepsCustody` | `OwnNames`, and imported files are the recordings |
| | `OffloadKeepsCustody` | `KeepsCustody` | `OwnNames`, `DiskKeeps` |
| | `FreedSafe` | `FreedIsSafe` | `OwnNames`, `DiskKeeps` |
| `SdOffloadProofs` | `RunInvHolds` | the inductive invariant `RunInv` | |
| | `TypeCorrect` | `TypeOK` | |
| | `VerifiedInvHolds` | the inductive invariant `VerifiedInv` | `Verifying` |
| | `ImportedHeld` | `ImportedIsHeld` | `Verifying` |
| | `FreedSafe` | `FreedIsSafe` | `Verifying` |
| | `OffloadKeepsCustody` | `KeepsCustody` | `Verifying` |
| | `NoSuffixNeedless` | `NoNeedlessSuffix` | `Verifying`, no `"readError"` |
| `ObjectProofs` (`ChunkedUpload`) | `TypeCorrect` | `TypeOK` | |
| | `ObjectWhole` | `ObjectIsWhole` | `DistinctIds`, `NoneEmpty` |
| | `MirroredStored` | `MirroredIsStored` | `DistinctSizes`, `NoneEmpty` |
| | `RefusalCaused` | `RefusalHasCause` | `DistinctIds` |
| `ObjectProofs` (`FileRoute`) | `NamesKept` | `RouteInv` | |
| | `ObjectsKept` | `ObjectIsItsFile` | |
| | `NoneForgotten` | `NothingIsForgotten` | |
| `SnapshotFeedProofs` | `FeedIsOrdered` | the inductive invariant `FeedOrder` | |
| | `FramesPassInOrder` | `OnlyNewerPass` | |
| | `NewestSent` | `NewestIsSent` | |
| | `SlotTells` | `FeedInv` | |
| | `RunIsShown` | `RunIsTheOffloads` | |
| | `BadgesCount` | `BadgesMissOnlyCrossed` | |
| `IngestProofs` | `IngestIsTyped` | `TypeOK` | |
| | `OffloadsExclude` | `OneOffloadAtATime` | |
| | `RetriesAreBounded` | `RetriesBounded` | no `"probeMiss"` |
| | `IngestInvHolds` | `IngestInv` | no `"probeMiss"` |
| `SettingsProofs` (`ConfigStore`) | `StoreIsOrdered` | the inductive invariant `StoreOrder` | `Alone` |
| | `StoreIsTrue` | `StoreInv` | `Alone` |
| | `FileStaysWhole` | `ReadersSeeWholeFiles` | `Alone` |
| | `PasswordsAreKept` | `PasswordKept` | `Alone` |
| | `UploadersUseHeldPasswords` | `OnlyHeldPasswordsUsed` | `Alone` |
| | `ResultsHold` | `ResultsAreTrue` | `Alone` |
| `SettingsProofs` (`CommandLine`) | `CommandsInOrder` | the inductive invariant `CommandOrder` | |
| | `CommandsKeepCard` | `CommandInv` | |
| | `CleanExitsAreClean` | `CleanExitIsClean` | |
| | `LedgersOpenUnlessRaced` | `OpensUnlessRaced` | |

**The queue.** `QueueInv` adds to the checked invariants what makes them inductive: only
the holder of the lock is inside a drain (`HolderDrains`), tasks exist only between a claim
and the end of its join (`TasksAreJoined`), the cursor of the join loop is the job just
stamped (`CursorIsAJob`, `CursorIsMarked`), and the task of a claimed job owns its row, or
the row was reset to queued under it by an app start (`TaskOwnsRow`). The last one is what
the unlocked reset makes necessary: it says that such a reset can never make a done row
claimable again. `MirrorInv` adds that a task past its upload has its object in place
(`ObjectsInPlace`, `ReportsAreTrue`); it needs `DistinctPaths`, which says that no two jobs
share a remote path; the table of section 3 shows what happens without it. The refinement
theorem maps every action of the queue to a step of the contract or a stutter, one case per
action.

**The offloads.** What both have to show first is that `resolve_collision` finds a name at
all, which is a matter of counting: a suffix is in the range of the type because there are
no more files than rows, the one in hand and one for each fault so far
(`OrphansAreFaults`), so one of enough suffixes is free. Files that faults left behind are
what makes the count necessary. `RunInv` ties this to the plan: each planned file has a
target of its own that nothing else takes until it is reached (`PlanIsOpen`,
`TargetsDiffer`, `InHandIsNew`), from which `NothingIsOverwritten` follows for any names.

For the SD offload, `Verifying` is the default of the setting. Then a copy about to be recorded
is whole (`CommitIsWhole`), an adopted one was compared, and an object in the cloud is the
copy of the recording whose row names its path; `Custody` follows, one case per action.
Without verification it does not (the table of section 3).

For the wired offload there are two arguments, because verification compares with what the
hasher saw and not with the camera's file. `VerifiedIsAuthentic` follows the hasher: whatever the
disk does, the file that passes is what was hashed (`CommitIsHashed`), and what was hashed is a
beginning of the recording (`HashedIsTrue`) as long as the part a download resumes from is one.
`ImportedAuthentic` needs no verification: if names are distinct (`OwnNames`) and the disk keeps
what it is given (`DiskKeeps`: no `"badWrite"`, no `"powerLoss"`), every part stays a beginning
of its own recording through cuts, resumes, restarts and truncations (`PartsAreTheirOwn`).
`CameraFinishes` asks less of the part: `HashEndsTrue` says that the last chunk the hasher has seen
of a whole download came from the camera, whatever came before, since a part of full length is
thrown away. It is what is left when the disk tears a part, or a part is another recording's.
`OwnNames` is needed for the cloud side too; the table of section 3 shows what happens without
it, and `ClearedIsGone` needs every listing entry to be readable, as section 3 says.

**The chunked upload.** The chunk arithmetic is proved for every size: the loop of
`pick_chunk_size` ends with few enough chunks (`PickedChunkSize`), and the chunks tile the file,
none of them empty unless the file is (`ChunksTile`). `UploadInv` says that a directory holds only
chunks of its job, none longer than its place, that the chunks an attempt passed or will
skip are there in full, and that all of them are when it assembles, unless the directory
has gone (`JobRight`). A directory that sums to the file's size is then complete
(`SumMakesWhole`: numbers that fit in the gaps of a ladder reach its top only if each fills
its gap), so a length check is enough, with or without a checksum, however late or torn
requests came in between. `DistinctIds` says that no two jobs share an upload directory (two
ledgers with one row id, path and size would), `NoneEmpty` that `chunk_threshold` is not so
low that an empty file goes up in chunks. `DistinctSizes`, which the run has too, is
what the already-present check takes for granted: it compares sizes and nothing else.

**The snapshot.** `FeedOrder` assumes nothing of when a thread goes on. It says that every frame in
hand carries a number, and that one past the guard is no newer than the guard has seen
(`InHand`); that the frame with the newest number is the snapshot, and that it waits at the guard,
is on its way, or is `sent`, which is what the guard's counter has come to stand for
(`NewestIsSnapshot`). When nothing is on its way only the last is left. That the window shows
it does not follow, and is false: `snapshot_order` has the older frame emitted last. `HydratesFirst`
covers the window's own call before the first event.

`FeedWork` follows the three threads instead of the frames: what the
snapshot says of the offload is what the driver has done so far, event by event
(`OffloadShown`), and the job in the popover is one that uploads, or one whose end is still on its
way as an event (`MirrorShown`). For the badges, `CountsCover` keeps the account: the pending
count, of the snapshot or of a command that has read and not yet stored it, together with the
row that is there but not announced yet and with what `crossed`, is no less than the rows that wait
together with the one that has ended and is still to be reported; a report lowers both sides
by one. A command that reads while a report is on its way reads a count without the row, from
which the report then takes one more, and one that reads before a commit stores a count without
the new row: each of these adds one to `crossed`, and nothing else has to.

**The ingest.** The lock is one variable, but who holds it is spread over two threads, each
of which asks, waits, runs and lets go in steps of its own, with early returns in between;
the invariant `IngestOrder` ties the holder to the step its thread is at
(`OneOffloadAtATime`), and the step to the device it works on (`FiresCameras`,
`WorksOnCamera`, `HasMount`). The retry budget is a function that three actors grow and
reset; that no streak passes `MaxRearms` is part of its type, and that no camera is offloaded
more often than that allows is `CreditCovers`: the runs a camera has left (`credit`) are no fewer
than those that the event in hand and the reports still to come (`Reports`: in the channel, in
this tick, or in a later one) may bring, retries included. A plug adds as many as the edge it
makes may bring, a run takes one. A connected camera that misses a probe makes an edge nobody
paid for, so `"probeMiss"` is out of the theorem and in the list of section 3.

**The configuration.** `Alone` says that a command that writes the file starts only when no
other is under way, as with a user who waits for one button before the next; the code does not
enforce it (the run checks under the same assumption; the table of section 3 shows what
`Overlap` does). `StoreOrder` follows a command through its steps: its text is whole and is on
the disk before it gets its name (`PartIsBody`), a save carries the entry of the file it
replaces, whatever came in between (`SaveCarries`), a migration has filled the keychain before
it touches the file, and stays in possession of it until memory has followed
(`MigrationMoves`), and memory is of the file except for what the one command under way is
about to bring (`MemoryIsOfFile`). A password set from outside is never empty, so it cannot
undo any of this; only clearing can, and clearing waits for a save to be through.

**The file route.** `RouteIInv` has a part for each place a file passes. What is planned is
not there yet, neither the file nor its name (`PlanInv`); the destination and the ledger tell
the same of every file (`DiskInv`: a name that is no stranger's is the file's whose row gives
that name); a job and an object are of a file that is in the ledger, under its name
(`JobInv`, `ObjectInv`); and every file of the card is still to be looked at, planned, imported,
or left out for what it is (`LeftInv`). `ObjectInv` is what keeps an object from being
displaced: an upload writes to the path its URL means on the server, two paths that end in
one name are of one file, and so whatever was there is the file's own. It says this of the
end of a path only, because root and user may be edited while a job waits.

Three facts about texts carry it, each proved for every text. What a URL means on the server
ends in the file's name, whatever characters that is made of (`UrlRead`, from `SegmentRead`: a
percent-coded segment is read as the segment; `SameReading`: what follows does not change how
a piece is read), and the bound before it tells where the name starts (`PathTellsName`).
Sanitizing and suffixing leave one safe component (`SanitizedIsName`,
`SuffixedIs`). `resolve_collision` finds a free name (`ResolvedIsFree`), again by counting: names
in use are no more than files and strangers (`UsedIsSmall`), and different suffixes make
different names (`SuffixesDiffer`). Induction over the length of a text is possible here,
although the library's induction theorems are not: `CountUp` and `GrowSeq` state it of a set
instead of a predicate, and follow from the least element of a set of numbers
(`LeastExists`).

**The command line.** `CommandOrder` says of each process where its command can be
(`OnItsWay`), that one in a drain, or about to open the ledger for one, holds the lock
(`HasLock`), that one that has ejected the card has nothing to delete from it (`EjectsLast`),
that what its scan found is imported, planned or lost, and that something lost has been
counted (`Accounts`), and that its look at the version was not ahead of the ledger
(`NotAhead`); of the ledger it says that the version tells which tables there are
(`SchemaIsMade`). The step lemmas show it of the process that moves; for the others it is
enough that imports only grow, the version only rises, and nobody takes a lock from its
holder (`MoveOne`). For the two action properties, `ExitIsWayOut` lists the ways a process
may exit (`WayOut`): a code of 0 comes from the counts of a run, or from a command that only uses
the ledger, and a migration ends a process only where its tables are there already.

Assumptions on constants that proofs use and TLC evaluates: the sets of jobs, files and
recordings are finite, limits are numbers, the values that stand for nothing (`None`,
`NoObject`, `NoChunk`, `NoDir`) are none of the things they are told apart from, names and
settings are texts in which nothing stands for the bound between two components
(`TextsAssumption`), files differ in identity (`DistinctAssumption`), and different numbers have
different numerals (`NumeralsAssumption`).

Only model-checked: liveness (`PendingSettles`, `RunEnds`, `CameraIsServed`, `CardIsServed`,
`CommandsEnd`), which is out of the prover's reach, and the violation runs, which show that a
claim does not hold. Every other property of the runs is proved, under the hypotheses of the
table.

## 5. Plan

1. `CloudQueue` with `MirrorContract`, its runs and proofs: done.
2. `WiredOffload` and `SdOffload` with `Custody`, their runs: done.
3. `ChunkedUpload`: done. Left: late landings in `CloudQueue` too, so that a job given up may
   still be stored.
4. `Ingest`, `SnapshotFeed`, `ConfigStore`, `CommandLine`, `FileRoute`, their runs: done.
5. A composition of one offload, the queue and the reap on one ledger, in place of the
   one-step worker of the offload modules.
6. Proofs of every safety property the passing runs check: done. Left: the table of section
   4 without its hypotheses, where the code can be made to justify them.

Not modelled and not planned: the parsing of EXIF and MP4 boxes, XML and JSON, the arithmetic
of the disk margin and of progress rates, the UI and its windows, notifications, the tray's
drawing, platform ejectors beyond success and failure, the output of the command line, the
validation of single settings, and `transfer.rs` 1-91, a reference implementation that only
tests use.
