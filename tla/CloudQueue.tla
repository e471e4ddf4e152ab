----------------------------- MODULE CloudQueue -----------------------------
(***************************************************************************)
(* The persisted cloud-mirror queue of GPBeam: the cloud_jobs table and    *)
(* the per-file cloud_status of the SQLite ledger (ledger.rs), and the     *)
(* workers that drain it (cloud/worker.rs).  The desktop app and the CLI   *)
(* may run a worker on the same ledger; an advisory file lock is meant to  *)
(* let one of them drain at a time.  Every SQL statement is a step of its  *)
(* own, so that a crash, a ledger error or another process can come        *)
(* between any two of them.                                                *)
(*                                                                         *)
(* Time is kept relative: a row's retryIn is the number of seconds left to *)
(* its next_retry_at, 0 once that moment has come, so the clock itself     *)
(* needs no bound.                                                         *)
(***************************************************************************)
EXTENDS Integers, FiniteSets

CONSTANTS
  Jobs,             \* row ids of cloud_jobs, in insertion order
  Workers,          \* the processes that may drain this ledger
  App,              \* the worker of the desktop app; the others are CLI runs
  Paths,            \* remote paths
  RemotePath,       \* the remote_path of each job
  Size,             \* the total_bytes of each job
  CardJobs,         \* the jobs with a card_src (a wired import has none)
  MaxConcurrency,   \* cloud.max_concurrency
  MaxAttempts,      \* cloud.max_attempts
  DeleteAfterVerify,\* delete_after_verify
  MaxDelay,         \* MAX_BACKOFF_SECS (64 s in the code)
  MaxCrashes,       \* bound on drains cut short by a crash or a ledger error
  Events,           \* what the environment may do, of the set below
  NULL,             \* SQL NULL
  NoWorker,
  NoObject          \* no object at a remote path

ASSUME JobsAssumption == Jobs \subseteq Nat /\ IsFiniteSet(Jobs)
ASSUME WorkersAssumption == App \in Workers /\ NoWorker \notin Workers
ASSUME PathsAssumption ==
  /\ RemotePath \in [Jobs -> Paths]
  /\ Size \in [Jobs -> Nat]
  /\ NoObject \notin Jobs
  /\ CardJobs \subseteq Jobs
ASSUME BoundsAssumption ==
  /\ MaxConcurrency \in Nat
  /\ MaxAttempts \in Nat
  /\ MaxDelay \in Nat \ {0}
  /\ MaxCrashes \in Nat
  /\ NULL \notin Nat \cup {"done", "failed"}
ASSUME OptionsAssumption ==
  /\ DeleteAfterVerify \in BOOLEAN
  /\ Events \subseteq {"retry",       \* the user presses Retry
                      "swap",        \* another card is mounted at the same path
                      "deleteFails"} \* removing a card file fails

VARIABLES
  job,          \* cloud_jobs: state, attempts and next_retry_at of each row
  cloudStatus,  \* imported.cloud_status of the file of each job
  remote,       \* the object the server holds at each path
  card,         \* what is at the card_src path of each job
  lock,         \* the holder of .gpbeam-worker.lock
  drain,        \* the control state of each worker's run_until_drained
  task,         \* the upload task each worker runs for each job
  crashes       \* drains cut short so far

vars == <<job, cloudStatus, remote, card, lock, drain, task, crashes>>
ledger == <<job, cloudStatus>>
outside == <<remote, card>>

-----------------------------------------------------------------------------
(* The rows and what the queries on them select.                           *)

\* The states of a row, and "absent" for a row not inserted yet.
JobState == {"absent", "queued", "uploading", "done", "failed"}
RetryIn == 0..MaxDelay \cup {NULL}

\* attempts never passes this: a job always gets one attempt, whatever the limit.
AttemptLimit == IF MaxAttempts = 0 THEN 1 ELSE MaxAttempts

JobRow == [state : JobState, attempts : 0..AttemptLimit, retryIn : RetryIn]

ParkedForRetry(j) == job[j].state = "failed" /\ job[j].retryIn # NULL
\* Mutant of GivenUp: the retry's WHERE clause forgets the state.
GivenUpByRetryAtAlone(j) == job[j].state # "absent" /\ job[j].retryIn = NULL

GivenUp(j) == job[j].state = "failed" /\ job[j].retryIn = NULL
Pending(j) == job[j].state \in {"queued", "uploading"} \/ ParkedForRetry(j)
\* Mutant of Claimable: parked failures are never claimed again.
ClaimableOnlyQueued(j) == job[j].state = "queued"

Claimable(j) == job[j].state = "queued"
             \/ (job[j].state = "failed" /\ job[j].retryIn = 0)

\* The n oldest rows of a selection: ORDER BY id LIMIT n.
Oldest(S, n) == {j \in S : Cardinality({i \in S : i < j}) < n}

-----------------------------------------------------------------------------
(* The workers and their upload tasks.                                     *)

TaskPhase == {"none", "preflight", "uploading", "skipped", "uploaded",
              "failed", "refused"}
Task == [phase : TaskPhase, attempts : 0..AttemptLimit]
NoTask == [phase |-> "none", attempts |-> 0]
Joined == {"skipped", "uploaded", "failed", "refused"}

DrainStep == {"idle", "reclaim", "count", "claim", "join", "stamp", "sweep",
              "plan", "sleep", "backstop"}
Drain == [at : DrainStep, cur : Jobs \cup {NULL}, progressed : BOOLEAN,
          wakeIn : 0..MaxDelay]
IdleDrain == [at |-> "idle", cur |-> NULL, progressed |-> FALSE, wakeIn |-> 0]

Goto(w, step) == drain' = [drain EXCEPT ![w].at = step]
SetPhase(w, j, phase) == task' = [task EXCEPT ![w][j].phase = phase]

\* run_until_drained returns, or is cut short: the lock file and the JoinSet drop.
Release(w) ==
  /\ lock' = NoWorker
  /\ drain' = [drain EXCEPT ![w] = IdleDrain]
  /\ task' = [task EXCEPT ![w] = [j \in Jobs |-> NoTask]]

Init ==
  /\ job = [j \in Jobs |-> [state |-> "absent", attempts |-> 0, retryIn |-> NULL]]
  /\ cloudStatus = [j \in Jobs |-> NULL]
  /\ remote = [p \in Paths |-> NoObject]
  /\ card = [j \in Jobs |-> "original"]
  /\ lock = NoWorker
  /\ drain = [w \in Workers |-> IdleDrain]
  /\ task = [w \in Workers |-> [j \in Jobs |-> NoTask]]
  /\ crashes = 0

-----------------------------------------------------------------------------
(* Other users of the ledger: offload runs, app start, the Retry command.  *)

\* An offload run commits an import together with its job (enqueue_cloud_job_on).
EnqueueCloudJob(j) ==
  /\ job[j].state = "absent"
  /\ job' = [job EXCEPT ![j] = [state |-> "queued", attempts |-> 0, retryIn |-> NULL]]
  /\ UNCHANGED <<cloudStatus, outside, lock, drain, task, crashes>>

\* Mutant of ReclaimedRows: nothing is reclaimed.
NothingReclaimed == job

ReclaimedRows ==
  [j \in Jobs |-> IF job[j].state = "uploading"
                  THEN [job[j] EXCEPT !.state = "queued"] ELSE job[j]]

\* App start resets every uploading row, without the worker lock: a CLI run may
\* be in the middle of those uploads (recover_and_count_pending).
RecoverAtStartup ==
  /\ drain[App].at = "idle"
  /\ \E j \in Jobs : job[j].state = "uploading"
  /\ job' = ReclaimedRows
  /\ UNCHANGED <<cloudStatus, outside, lock, drain, task, crashes>>

RequeuedRow == [state |-> "queued", attempts |-> 0, retryIn |-> NULL]

\* The user's Retry: only the rows the worker gave up on.
RequeueFailedCloudJobs ==
  /\ "retry" \in Events
  /\ \E j \in Jobs : GivenUp(j)
  /\ job' = [j \in Jobs |-> IF GivenUp(j) THEN RequeuedRow ELSE job[j]]
  /\ UNCHANGED <<cloudStatus, outside, lock, drain, task, crashes>>

-----------------------------------------------------------------------------
(* A drain, up to the claim.                                               *)

\* Mutant of TryAcquireWorkerLock: the lock is not tested.
TakeWorkerLock(w) ==
  /\ drain[w].at = "idle"
  /\ w = App => \E j \in Jobs : Pending(j)
  /\ lock' = w
  /\ Goto(w, "reclaim")
  /\ UNCHANGED <<ledger, outside, task, crashes>>

\* The app's ticker starts a drain only when it counts work; a CLI run always does.
\* A drain that finds the lock held returns at once and is not a step here.
TryAcquireWorkerLock(w) ==
  /\ drain[w].at = "idle"
  /\ w = App => \E j \in Jobs : Pending(j)
  /\ lock = NoWorker
  /\ lock' = w
  /\ Goto(w, "reclaim")
  /\ UNCHANGED <<ledger, outside, task, crashes>>

ReclaimOrphanedUploading(w) ==
  /\ drain[w].at = "reclaim"
  /\ job' = ReclaimedRows
  /\ Goto(w, "count")
  /\ UNCHANGED <<cloudStatus, outside, lock, task, crashes>>

PendingCloudCount(w) ==
  /\ drain[w].at = "count"
  /\ IF \E j \in Jobs : Pending(j)
       THEN Goto(w, "claim") /\ UNCHANGED <<lock, task>>
       ELSE Release(w)
  /\ UNCHANGED <<ledger, outside, crashes>>

\* One transaction: the oldest due rows become uploading, and a task starts for each.
ClaimDueCloudJobs(w) ==
  /\ drain[w].at = "claim"
  /\ LET claimed == Oldest({j \in Jobs : Claimable(j)}, MaxConcurrency) IN
       /\ job' = [j \in Jobs |-> IF j \in claimed
                                 THEN [job[j] EXCEPT !.state = "uploading"]
                                 ELSE job[j]]
       /\ task' = [task EXCEPT ![w] =
            [j \in Jobs |-> IF j \in claimed
                            THEN [phase |-> "preflight", attempts |-> job[j].attempts]
                            ELSE NoTask]]
       /\ drain' = [drain EXCEPT ![w].at = IF claimed = {} THEN "plan" ELSE "join",
                                 ![w].progressed = FALSE]
  /\ UNCHANGED <<cloudStatus, outside, lock, crashes>>

-----------------------------------------------------------------------------
(* An upload task, run concurrently with the others of its pass.           *)

\* PROPFIND compares the size alone.
AlreadyPresent(j) ==
  /\ remote[RemotePath[j]] # NoObject
  /\ Size[remote[RemotePath[j]]] = Size[j]

CheckAlreadyPresent(w, j) ==
  /\ task[w][j].phase = "preflight"
  /\ SetPhase(w, j, IF AlreadyPresent(j) THEN "skipped" ELSE "uploading")
  /\ UNCHANGED <<ledger, outside, lock, drain, crashes>>

\* Mutant of UploadLands: the upload is reported before the object is in place.
UploadReportedEarly(w, j) ==
  /\ task[w][j].phase = "uploading"
  /\ SetPhase(w, j, "uploaded")
  /\ UNCHANGED <<ledger, outside, lock, drain, crashes>>

\* The object is stored; the answer may still be lost on its way back.
UploadLands(w, j) ==
  /\ task[w][j].phase = "uploading"
  /\ remote' = [remote EXCEPT ![RemotePath[j]] = j]
  /\ \E phase \in {"uploaded", "failed"} : SetPhase(w, j, phase)
  /\ UNCHANGED <<ledger, card, lock, drain, crashes>>

\* Mutant of RequestFails: a failed check is taken for "already present".
FailureTakenForPresent(w, j) ==
  /\ task[w][j].phase \in {"preflight", "uploading"}
  /\ \E phase \in {"failed", "skipped"} : SetPhase(w, j, phase)
  /\ UNCHANGED <<ledger, outside, lock, drain, crashes>>

\* A transport error or 5xx is retryable ("failed"), any other error is not.
RequestFails(w, j) ==
  /\ task[w][j].phase \in {"preflight", "uploading"}
  /\ \E phase \in {"failed", "refused"} : SetPhase(w, j, phase)
  /\ UNCHANGED <<ledger, outside, lock, drain, crashes>>

-----------------------------------------------------------------------------
(* The join loop: one finished task at a time, one SQL statement a step.   *)

MarkJobDone(w, j) ==
  /\ drain[w].at = "join"
  /\ task[w][j].phase \in {"skipped", "uploaded"}
  /\ job' = [job EXCEPT ![j].state = "done", ![j].retryIn = NULL]
  /\ drain' = [drain EXCEPT ![w].at = "stamp", ![w].cur = j]
  /\ UNCHANGED <<cloudStatus, outside, lock, task, crashes>>

\* Mutant of AttemptNum: the attempt that just failed is not counted.
AttemptsSoFar(w, j) == task[w][j].attempts

AttemptNum(w, j) == task[w][j].attempts + 1
\* Mutant of IsRetryable: there is no limit on the attempts.
RetryableForever(w, j) == task[w][j].phase = "failed"

IsRetryable(w, j) == task[w][j].phase = "failed" /\ AttemptNum(w, j) < MaxAttempts

FailedRow(j, delay) ==
  [state |-> "failed", attempts |-> job[j].attempts + 1, retryIn |-> delay]

\* backoff_delay_secs: 2^attempts seconds and up to four of jitter, capped.
BackoffDelays(attempts) ==
  {delay \in 1..MaxDelay : \E jitter \in 0..4 :
     LET wait == 2 ^ attempts + jitter IN delay = IF wait > MaxDelay THEN MaxDelay ELSE wait}

\* A retryable failure with attempts left is parked for a later pass.
MarkJobFailedForRetry(w, j) ==
  /\ drain[w].at = "join"
  /\ task[w][j].phase \in {"failed", "refused"}
  /\ IsRetryable(w, j)
  /\ \E delay \in BackoffDelays(AttemptNum(w, j)) : job' = [job EXCEPT ![j] = FailedRow(j, delay)]
  /\ task' = [task EXCEPT ![w][j] = NoTask]
  /\ UNCHANGED <<cloudStatus, outside, lock, drain, crashes>>

MarkJobFailedForGood(w, j) ==
  /\ drain[w].at = "join"
  /\ task[w][j].phase \in {"failed", "refused"}
  /\ ~IsRetryable(w, j)
  /\ job' = [job EXCEPT ![j] = FailedRow(j, NULL)]
  /\ drain' = [drain EXCEPT ![w].at = "stamp", ![w].cur = j]
  /\ UNCHANGED <<cloudStatus, outside, lock, task, crashes>>

\* Mutant of SetCloudStatus: every finished job is called done, and swept.
StampAndSweepAll(w) ==
  /\ drain[w].at = "stamp"
  /\ cloudStatus' = [cloudStatus EXCEPT ![drain[w].cur] = "done"]
  /\ drain' = [drain EXCEPT ![w].at = "sweep", ![w].progressed = TRUE]
  /\ UNCHANGED <<job, outside, lock, task, crashes>>

\* set_cloud_status, the second statement of every terminal outcome.
SetCloudStatus(w) ==
  /\ drain[w].at = "stamp"
  /\ LET j == drain[w].cur
         mirrored == task[w][j].phase \in {"skipped", "uploaded"}
         sweep == task[w][j].phase = "uploaded" /\ DeleteAfterVerify /\ j \in CardJobs IN
       /\ cloudStatus' = [cloudStatus EXCEPT ![j] = IF mirrored THEN "done" ELSE "failed"]
       /\ drain' = [drain EXCEPT ![w].at = IF sweep THEN "sweep" ELSE "join",
                                 ![w].cur = IF sweep THEN j ELSE NULL,
                                 ![w].progressed = TRUE]
       /\ task' = [task EXCEPT ![w][j] = IF sweep THEN @ ELSE NoTask]
  /\ UNCHANGED <<job, outside, lock, crashes>>

\* remove_file(card_src): by path, and a failure is not an error.
RemoveCardSrc(w) ==
  /\ drain[w].at = "sweep"
  /\ \/ card' = [card EXCEPT ![drain[w].cur] = "gone"]
     \/ "deleteFails" \in Events /\ card' = card
  /\ task' = [task EXCEPT ![w][drain[w].cur] = NoTask]
  /\ drain' = [drain EXCEPT ![w].at = "join", ![w].cur = NULL]
  /\ UNCHANGED <<ledger, remote, lock, crashes>>

EndOfPass(w) ==
  /\ drain[w].at = "join"
  /\ \A j \in Jobs : task[w][j].phase = "none"
  /\ Goto(w, IF drain[w].progressed THEN "count" ELSE "plan")
  /\ UNCHANGED <<ledger, outside, lock, task, crashes>>

-----------------------------------------------------------------------------
(* A pass without terminal progress: sleep to the soonest retry.           *)

\* Only retries still in the future count: one that has just come due is left out.
FutureRetries == {job[j].retryIn : j \in {i \in Jobs : ParkedForRetry(i)}} \ {0}

SecsUntilNextRetry(w) ==
  /\ drain[w].at = "plan"
  /\ IF FutureRetries = {}
       THEN Goto(w, "backstop")
       ELSE \E soonest \in FutureRetries :
              /\ \A t \in FutureRetries : soonest <= t
              /\ drain' = [drain EXCEPT ![w].at = "sleep", ![w].wakeIn = soonest]
  /\ UNCHANGED <<ledger, outside, lock, task, crashes>>

Wake(w) ==
  /\ drain[w].at = "sleep"
  /\ drain[w].wakeIn = 0
  /\ Goto(w, "count")
  /\ UNCHANGED <<ledger, outside, lock, task, crashes>>

\* After IDLE_BACKSTOP the drain returns Ok, whatever is still pending.
IdleBackstop(w) ==
  /\ drain[w].at = "backstop"
  /\ Release(w)
  /\ UNCHANGED <<ledger, outside, crashes>>

-----------------------------------------------------------------------------
(* The environment.                                                        *)

\* A crash of the process, or a ledger error that `?` returns from the drain.
CutShort(w) ==
  /\ drain[w].at # "idle"
  /\ crashes < MaxCrashes
  /\ crashes' = crashes + 1
  /\ Release(w)
  /\ UNCHANGED <<ledger, outside>>

Elapsed(t) == IF t = NULL \/ t = 0 THEN t ELSE t - 1

\* A second passes.
Tick ==
  /\ \/ \E j \in Jobs : job[j].retryIn \notin {NULL, 0}
     \/ \E w \in Workers : drain[w].wakeIn # 0
  /\ job' = [j \in Jobs |-> [job[j] EXCEPT !.retryIn = Elapsed(@)]]
  /\ drain' = [w \in Workers |-> [drain[w] EXCEPT !.wakeIn = Elapsed(@)]]
  /\ UNCHANGED <<cloudStatus, outside, lock, task, crashes>>

\* The user mounts another card at the same path, with files of the same names.
SwapCard ==
  /\ "swap" \in Events
  /\ \E j \in Jobs : card[j] = "original"
  /\ card' = [j \in Jobs |-> IF card[j] = "original" THEN "stranger" ELSE card[j]]
  /\ UNCHANGED <<ledger, remote, lock, drain, task, crashes>>

-----------------------------------------------------------------------------
UploadStep(w, j) ==
  CheckAlreadyPresent(w, j) \/ UploadLands(w, j) \/ RequestFails(w, j)

JoinStep(w) ==
  \/ \E j \in Jobs : MarkJobDone(w, j) \/ MarkJobFailedForRetry(w, j)
                     \/ MarkJobFailedForGood(w, j)
  \/ SetCloudStatus(w) \/ RemoveCardSrc(w) \/ EndOfPass(w)

DrainStepOf(w) ==
  \/ ReclaimOrphanedUploading(w) \/ PendingCloudCount(w) \/ ClaimDueCloudJobs(w)
  \/ JoinStep(w)
  \/ SecsUntilNextRetry(w) \/ Wake(w) \/ IdleBackstop(w)

Next ==
  \/ \E j \in Jobs : EnqueueCloudJob(j)
  \/ RecoverAtStartup
  \/ RequeueFailedCloudJobs
  \/ \E w \in Workers : TryAcquireWorkerLock(w) \/ DrainStepOf(w) \/ CutShort(w)
  \/ \E w \in Workers, j \in Jobs : UploadStep(w, j)
  \/ Tick
  \/ SwapCard

Spec == Init /\ [][Next]_vars

(***************************************************************************)
(* The app's ticker keeps starting drains, a drain and its tasks keep      *)
(* running, requests end, time passes.  Nothing makes a CLI run start.     *)
(***************************************************************************)
Fairness ==
  /\ WF_vars(TryAcquireWorkerLock(App))
  /\ WF_vars(Tick)
  /\ \A w \in Workers : WF_vars(DrainStepOf(w))
  /\ \A w \in Workers, j \in Jobs : WF_vars(UploadStep(w, j))

FairSpec == Spec /\ Fairness

-----------------------------------------------------------------------------
(* Correctness.                                                            *)

TypeOK ==
  /\ job \in [Jobs -> JobRow]
  /\ cloudStatus \in [Jobs -> {NULL, "done", "failed"}]
  /\ remote \in [Paths -> Jobs \cup {NoObject}]
  /\ card \in [Jobs -> {"original", "stranger", "gone"}]
  /\ lock \in Workers \cup {NoWorker}
  /\ drain \in [Workers -> Drain]
  /\ task \in [Workers -> [Jobs -> Task]]
  /\ crashes \in 0..MaxCrashes

\* No job is ever uploaded by two workers at once, whatever app starts, crashes
\* and CLI runs do to the rows: the worker lock is what the claim relies on
\* (run_until_drained, try_acquire_worker_lock).
OneUploaderPerJob ==
  \A v, w \in Workers, j \in Jobs :
    task[v][j].phase # "none" /\ task[w][j].phase # "none" => v = w

\* Once a drain has reclaimed the orphans, every uploading row is one of its own
\* tasks: no row is stuck in a state that no claim selects (finding H1 in worker.rs).
NoStrandedUpload ==
  \A w \in Workers, j \in Jobs :
    /\ drain[w].at \notin {"idle", "reclaim"}
    /\ job[j].state = "uploading"
    => task[w][j].phase # "none"

\* A job marked done has its own file on the server, at its own path, not only
\* some object of the same size (propfind_present, mark_job_done).
DoneIsMirrored ==
  \A j \in Jobs : job[j].state = "done" => remote[RemotePath[j]] = j

\* The source on the card is gone only if the server has the file and the row
\* says so (delete-after-verify under Auto).
FreedIsMirrored ==
  \A j \in Jobs : card[j] = "gone" => /\ remote[RemotePath[j]] = j
                                      /\ job[j].state = "done"

\* No row that may be tried again has used up its attempts, although the limit
\* is decided from the row as claimed and the count is kept in the row as it is.
AttemptsLeft ==
  \A j \in Jobs : Claimable(j) \/ Pending(j) => job[j].attempts < AttemptLimit

\* The per-file status, which a deferred camera delete waits for, says done only
\* of a file whose job is done (due_camera_deletes).
StatusFollowsJob ==
  \A j \in Jobs : cloudStatus[j] = "done" => job[j].state = "done"

\* A finished job is never reopened: not by a reclaim, a retry or a late task.
DoneStays ==
  [][\A j \in Jobs : job[j].state = "done" => job'[j] = job[j]]_vars

\* Every job the queue accepted is mirrored or given up in the end, through
\* lost answers, crashes of either process and another process's reclaim.
PendingSettles ==
  \A j \in Jobs : Pending(j) ~> job[j].state = "done" \/ GivenUp(j)

(***************************************************************************)
(* What the queue promises, whatever happens below: see MirrorContract.    *)
(***************************************************************************)
Outcome(j) ==
  CASE job[j].state = "absent" -> "none"
    [] job[j].state = "done"   -> "mirrored"
    [] GivenUp(j)              -> "givenUp"
    [] OTHER                   -> "accepted"

Contract == INSTANCE MirrorContract WITH
  Files   <- Jobs,
  outcome <- [j \in Jobs |-> Outcome(j)],
  stored  <- {j \in Jobs : remote[RemotePath[j]] = j},
  freed   <- {j \in Jobs : card[j] = "gone"}

\* The queue implements the contract: no crash, late task or second process makes a
\* file skip a stage on its way from accepted to stored, mirrored and freed.
KeepsContract == Contract!Spec

\* worker.rs calls the state with work pending, none of it claimable and no retry
\* scheduled "unreachable under correct code".
BackstopUnreachable ==
  \A w \in Workers : drain[w].at # "backstop"

\* orchestrator.rs: under Auto the worker deletes the card file "once the upload
\* reaches Done".
DoneGetsFreed ==
  \A j \in Jobs : job[j].state = "done" ~> card[j] # "original"

\* What the worker deletes from a card is the file it uploaded.
DeletesOnlyOriginals ==
  [][\A j \in Jobs : card[j] # "gone" /\ card'[j] = "gone" => card[j] = "original"]_vars
=============================================================================
