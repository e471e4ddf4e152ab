-------------------------- MODULE CloudQueueProofs --------------------------
(***************************************************************************)
(* Proofs about CloudQueue, for any number of jobs and workers, any limits *)
(* and any number of crashes.                                              *)
(***************************************************************************)
EXTENDS CloudQueue, TLAPS

-----------------------------------------------------------------------------
(* The inductive invariant.                                                *)

\* Only the holder of the worker lock is in a drain.
HolderDrains == \A w \in Workers : drain[w].at # "idle" => lock = w

\* A drain has tasks only while it joins them.
TasksAreJoined ==
  \A w \in Workers, j \in Jobs :
    task[w][j].phase # "none" => drain[w].at \in {"join", "stamp", "sweep"}

AtCursor(w, j) == drain[w].at \in {"stamp", "sweep"} /\ drain[w].cur = j

\* Between the two statements of an outcome the row already shows the outcome.
CursorIsMarked ==
  \A w \in Workers, j \in Jobs :
    AtCursor(w, j) =>
      /\ task[w][j].phase \in Joined
      /\ task[w][j].phase \in {"skipped", "uploaded"} => job[j].state = "done"
      /\ task[w][j].phase \in {"failed", "refused"} => job[j].state \in {"queued", "failed"}
      /\ drain[w].at = "sweep" => task[w][j].phase = "uploaded"

CursorIsAJob ==
  \A w \in Workers : drain[w].at \in {"stamp", "sweep"} => drain[w].cur \in Jobs

\* A task that has not been joined still has its row to itself.
TaskOwnsRow ==
  \A w \in Workers, j \in Jobs :
    task[w][j].phase # "none" /\ ~AtCursor(w, j) =>
      /\ job[j].state \in {"queued", "uploading"}
      /\ job[j].attempts = task[w][j].attempts

\* An object is at the path of its own job.
ObjectsInPlace ==
  \A p \in Paths : remote[p] # NoObject => RemotePath[remote[p]] = p

\* What a task reports as mirrored is on the server.
ReportsAreTrue ==
  \A w \in Workers, j \in Jobs :
    task[w][j].phase \in {"skipped", "uploaded"} => remote[RemotePath[j]] = j

QueueInv ==
  /\ TypeOK
  /\ HolderDrains
  /\ TasksAreJoined
  /\ CursorIsMarked
  /\ CursorIsAJob
  /\ TaskOwnsRow
  /\ NoStrandedUpload
  /\ AttemptsLeft
  /\ StatusFollowsJob

MirrorInv ==
  /\ ObjectsInPlace
  /\ ReportsAreTrue
  /\ DoneIsMirrored
  /\ FreedIsMirrored

-----------------------------------------------------------------------------
(* Steps that are the same for several actions.                            *)

LEMMA AttemptLimitType == AttemptLimit \in Nat /\ AttemptLimit >= 1 /\ AttemptLimit >= MaxAttempts
BY BoundsAssumption DEF AttemptLimit

LEMMA NoTaskType == NoTask \in Task
BY AttemptLimitType DEF NoTask, Task, TaskPhase

\* A worker moves within its drain, past steps that hold no tasks unless it joins.
LEMMA DrainMoves ==
  ASSUME QueueInv, NEW w \in Workers,
         UNCHANGED <<job, cloudStatus, remote, card, lock, task, crashes>>,
         drain' \in [Workers -> Drain],
         \A v \in Workers : v # w => drain'[v] = drain[v],
         drain[w].at \notin {"idle", "reclaim"},
         drain'[w].at \notin {"reclaim", "join", "stamp", "sweep"},
         \A j \in Jobs : task[w][j].phase = "none"
  PROVE  QueueInv'
<1>1. TypeOK' BY DEF QueueInv, TypeOK
<1>2. HolderDrains' BY DEF QueueInv, HolderDrains
<1>3. TasksAreJoined' BY DEF QueueInv, TasksAreJoined
<1>4. CursorIsMarked' BY DEF QueueInv, CursorIsMarked, AtCursor
<1>5. CursorIsAJob' BY DEF QueueInv, CursorIsAJob
<1>6. TaskOwnsRow' BY DEF QueueInv, TaskOwnsRow, AtCursor
<1>7. NoStrandedUpload' BY DEF QueueInv, NoStrandedUpload
<1>8. AttemptsLeft' BY DEF QueueInv, AttemptsLeft, Claimable, Pending, ParkedForRetry
<1>9. StatusFollowsJob' BY DEF QueueInv, StatusFollowsJob
<1> QED BY <1>1, <1>2, <1>3, <1>4, <1>5, <1>6, <1>7, <1>8, <1>9 DEF QueueInv

\* A drain ends, by itself or not.
LEMMA DrainEnds ==
  ASSUME QueueInv, NEW w \in Workers, drain[w].at # "idle", Release(w),
         UNCHANGED <<job, cloudStatus, remote, card>>, crashes' \in 0..MaxCrashes
  PROVE  QueueInv'
<1>0. lock = w BY DEF QueueInv, HolderDrains
<1>1. IdleDrain \in Drain BY BoundsAssumption DEF IdleDrain, Drain, DrainStep
<1>2. TypeOK' BY <1>1, NoTaskType DEF QueueInv, TypeOK, Release
<1>3. /\ \A v \in Workers : v # w => drain'[v] = drain[v] /\ task'[v] = task[v]
      /\ drain'[w].at = "idle"
      /\ \A j \in Jobs : task'[w][j].phase = "none"
  BY DEF QueueInv, TypeOK, Release, IdleDrain, NoTask
<1>4. \A v \in Workers : drain'[v].at = "idle"
  BY <1>0, <1>3 DEF QueueInv, HolderDrains
<1>5. HolderDrains' BY <1>4 DEF HolderDrains
<1>6. TasksAreJoined' BY <1>3 DEF QueueInv, TasksAreJoined
<1>7. CursorIsMarked' /\ CursorIsAJob' BY <1>4 DEF CursorIsMarked, CursorIsAJob, AtCursor
<1>8. TaskOwnsRow' BY <1>3, <1>4 DEF QueueInv, TaskOwnsRow, TasksAreJoined, AtCursor
<1>9. NoStrandedUpload' BY <1>4 DEF NoStrandedUpload
<1>10. AttemptsLeft' BY DEF QueueInv, AttemptsLeft, Claimable, Pending, ParkedForRetry
<1>11. StatusFollowsJob' BY DEF QueueInv, StatusFollowsJob
<1> QED BY <1>2, <1>5, <1>6, <1>7, <1>8, <1>9, <1>10, <1>11 DEF QueueInv

\* A task changes its phase, and is not joined by that.
LEMMA TaskMoves ==
  ASSUME QueueInv, NEW w \in Workers, NEW j \in Jobs, NEW phase \in TaskPhase \ {"none"},
         task[w][j].phase \in {"preflight", "uploading"}, SetPhase(w, j, phase),
         remote' \in [Paths -> Jobs \cup {NoObject}],
         UNCHANGED <<job, cloudStatus, card, lock, drain, crashes>>
  PROVE  QueueInv'
<1> task[w][j] \in Task BY DEF QueueInv, TypeOK
<1>0. [task[w][j] EXCEPT !.phase = phase] \in Task BY DEF Task
<1>1. task' \in [Workers -> [Jobs -> Task]]
  BY <1>0 DEF QueueInv, TypeOK, SetPhase
<1>2. /\ \A v \in Workers, i \in Jobs : v # w \/ i # j => task'[v][i] = task[v][i]
      /\ task'[w][j].phase = phase
      /\ task'[w][j].attempts = task[w][j].attempts
  BY DEF QueueInv, TypeOK, SetPhase, Task
<1>3. ~AtCursor(w, j)
  BY DEF QueueInv, CursorIsMarked, Joined
<1>4. TypeOK' BY <1>1 DEF QueueInv, TypeOK
<1>5. HolderDrains' BY DEF QueueInv, HolderDrains
<1>6. TasksAreJoined' BY <1>2 DEF QueueInv, TasksAreJoined
<1>7. CursorIsMarked' BY <1>2, <1>3 DEF QueueInv, CursorIsMarked, AtCursor
<1>8. CursorIsAJob' BY DEF QueueInv, CursorIsAJob
<1>9. TaskOwnsRow' BY <1>2, <1>3 DEF QueueInv, TaskOwnsRow, AtCursor
<1>10. NoStrandedUpload' BY <1>2 DEF QueueInv, NoStrandedUpload
<1>11. AttemptsLeft' BY DEF QueueInv, AttemptsLeft, Claimable, Pending, ParkedForRetry
<1>12. StatusFollowsJob' BY DEF QueueInv, StatusFollowsJob
<1> QED BY <1>4, <1>5, <1>6, <1>7, <1>8, <1>9, <1>10, <1>11, <1>12 DEF QueueInv

\* Uploading rows are requeued, by the holder of the lock or past it.
LEMMA RowsAreReclaimed ==
  ASSUME QueueInv, job' = ReclaimedRows, drain' \in [Workers -> Drain],
         UNCHANGED <<cloudStatus, remote, card, lock, task, crashes>>,
         \A w \in Workers : \/ drain'[w] = drain[w]
                            \/ drain[w].at = "reclaim" /\ drain'[w].at = "count"
  PROVE  QueueInv'
<1>1. \A j \in Jobs :
        /\ job'[j].state = IF job[j].state = "uploading" THEN "queued" ELSE job[j].state
        /\ job'[j].attempts = job[j].attempts
        /\ job'[j].retryIn = job[j].retryIn
        /\ job'[j] \in JobRow
  BY DEF QueueInv, TypeOK, ReclaimedRows, JobRow, JobState
<1>2. job' \in [Jobs -> JobRow] BY <1>1 DEF ReclaimedRows
<1>3. TypeOK' BY <1>2 DEF QueueInv, TypeOK
<1>4. HolderDrains' BY DEF QueueInv, HolderDrains
<1>5. TasksAreJoined' BY DEF QueueInv, TasksAreJoined
<1>6. \A w \in Workers, j \in Jobs : AtCursor(w, j)' <=> AtCursor(w, j)
  BY DEF AtCursor
<1>7. CursorIsMarked' 
  <2> SUFFICES ASSUME NEW w \in Workers, NEW j \in Jobs, AtCursor(w, j)'
               PROVE  /\ task[w][j].phase \in Joined
                      /\ task[w][j].phase \in {"skipped", "uploaded"} => job'[j].state = "done"
                      /\ task[w][j].phase \in {"failed", "refused"} => job'[j].state \in {"queued", "failed"}
                      /\ drain'[w].at = "sweep" => task[w][j].phase = "uploaded"
    BY DEF CursorIsMarked
  <2>1. AtCursor(w, j) /\ drain'[w] = drain[w] BY <1>6 DEF AtCursor
  <2> QED BY <1>1, <2>1 DEF QueueInv, CursorIsMarked
<1>8. CursorIsAJob' BY DEF QueueInv, CursorIsAJob
<1>9. TaskOwnsRow' BY <1>1, <1>6 DEF QueueInv, TaskOwnsRow
<1>10. NoStrandedUpload' BY <1>1 DEF NoStrandedUpload
<1>11. AttemptsLeft' BY <1>1 DEF QueueInv, AttemptsLeft, Claimable, Pending, ParkedForRetry
<1>12. StatusFollowsJob' BY <1>1 DEF QueueInv, StatusFollowsJob
<1> QED BY <1>3, <1>4, <1>5, <1>7, <1>8, <1>9, <1>10, <1>11, <1>12 DEF QueueInv

-----------------------------------------------------------------------------
(* One lemma for each action.                                              *)

LEMMA EnqueueCloudJobStep ==
  ASSUME QueueInv, NEW j \in Jobs, EnqueueCloudJob(j)
  PROVE  QueueInv'
<1>1. /\ job' \in [Jobs -> JobRow]
      /\ job[j].state = "absent"
      /\ \A i \in Jobs : i # j => job'[i] = job[i]
      /\ job'[j].state = "queued" /\ job'[j].attempts = 0
  BY AttemptLimitType DEF QueueInv, TypeOK, EnqueueCloudJob, JobRow, JobState, RetryIn
<1>2. UNCHANGED <<cloudStatus, remote, card, lock, drain, task, crashes>>
  BY DEF EnqueueCloudJob, outside
<1>3. TypeOK' BY <1>1, <1>2 DEF QueueInv, TypeOK
<1>4. HolderDrains' /\ TasksAreJoined' /\ CursorIsAJob'
  BY <1>2 DEF QueueInv, HolderDrains, TasksAreJoined, CursorIsAJob
<1>5. CursorIsMarked' BY <1>1, <1>2 DEF QueueInv, CursorIsMarked, AtCursor, Joined
<1>6. TaskOwnsRow' BY <1>1, <1>2 DEF QueueInv, TaskOwnsRow, CursorIsMarked, AtCursor
<1>7. NoStrandedUpload' BY <1>1, <1>2 DEF QueueInv, NoStrandedUpload
<1>8. AttemptsLeft'
  BY <1>1, AttemptLimitType DEF QueueInv, AttemptsLeft, Claimable, Pending, ParkedForRetry
<1>9. StatusFollowsJob' BY <1>1, <1>2 DEF QueueInv, StatusFollowsJob
<1> QED BY <1>3, <1>4, <1>5, <1>6, <1>7, <1>8, <1>9 DEF QueueInv

LEMMA RecoverAtStartupStep ==
  ASSUME QueueInv, RecoverAtStartup
  PROVE  QueueInv'
BY RowsAreReclaimed DEF QueueInv, TypeOK, RecoverAtStartup, outside

LEMMA RequeueFailedCloudJobsStep ==
  ASSUME QueueInv, RequeueFailedCloudJobs
  PROVE  QueueInv'
<1>1. RequeuedRow \in JobRow
  BY AttemptLimitType DEF RequeuedRow, JobRow, JobState, RetryIn
<1>2. \A j \in Jobs : \/ job'[j] = job[j]
                      \/ /\ job[j].state = "failed" /\ job'[j].state = "queued"
                         /\ job'[j].attempts = 0
  BY DEF RequeueFailedCloudJobs, RequeuedRow, GivenUp
<1>3. UNCHANGED <<cloudStatus, remote, card, lock, drain, task, crashes>>
  BY DEF RequeueFailedCloudJobs, outside
<1>4. TypeOK' BY <1>1, <1>3 DEF QueueInv, TypeOK, RequeueFailedCloudJobs
<1>5. HolderDrains' /\ TasksAreJoined' /\ CursorIsAJob'
  BY <1>3 DEF QueueInv, HolderDrains, TasksAreJoined, CursorIsAJob
<1>6. CursorIsMarked' BY <1>2, <1>3 DEF QueueInv, CursorIsMarked, AtCursor, Joined
<1>7. TaskOwnsRow' BY <1>2, <1>3 DEF QueueInv, TaskOwnsRow, AtCursor
<1>8. NoStrandedUpload' BY <1>2, <1>3 DEF QueueInv, NoStrandedUpload
<1>9. AttemptsLeft'
  BY <1>2, AttemptLimitType DEF QueueInv, AttemptsLeft, Claimable, Pending, ParkedForRetry
<1>10. StatusFollowsJob' BY <1>2, <1>3 DEF QueueInv, StatusFollowsJob
<1> QED BY <1>4, <1>5, <1>6, <1>7, <1>8, <1>9, <1>10 DEF QueueInv

LEMMA TryAcquireWorkerLockStep ==
  ASSUME QueueInv, NEW w \in Workers, TryAcquireWorkerLock(w)
  PROVE  QueueInv'
<1>1. /\ drain[w].at = "idle" /\ lock = NoWorker /\ lock' = w
      /\ UNCHANGED <<job, cloudStatus, remote, card, task, crashes>>
      /\ drain' = [drain EXCEPT ![w].at = "reclaim"]
  BY DEF TryAcquireWorkerLock, Goto, ledger, outside
<1>2. /\ drain' \in [Workers -> Drain]
      /\ \A v \in Workers : v # w => drain'[v] = drain[v]
      /\ drain'[w].at = "reclaim"
  BY <1>1 DEF QueueInv, TypeOK, Drain, DrainStep
<1>3. \A v \in Workers : drain[v].at = "idle"
  BY <1>1, WorkersAssumption DEF QueueInv, HolderDrains
<1>4. TypeOK' BY <1>1, <1>2 DEF QueueInv, TypeOK
<1>5. HolderDrains' BY <1>1, <1>2, <1>3 DEF HolderDrains
<1>6. TasksAreJoined' BY <1>1, <1>2, <1>3 DEF QueueInv, TasksAreJoined
<1>7. CursorIsMarked' /\ CursorIsAJob'
  BY <1>2, <1>3 DEF CursorIsMarked, CursorIsAJob, AtCursor
<1>8. TaskOwnsRow' BY <1>1, <1>3 DEF QueueInv, TaskOwnsRow, TasksAreJoined
<1>9. NoStrandedUpload' BY <1>2, <1>3 DEF NoStrandedUpload
<1>10. AttemptsLeft'
  BY <1>1 DEF QueueInv, AttemptsLeft, Claimable, Pending, ParkedForRetry
<1>11. StatusFollowsJob' BY <1>1 DEF QueueInv, StatusFollowsJob
<1> QED BY <1>4, <1>5, <1>6, <1>7, <1>8, <1>9, <1>10, <1>11 DEF QueueInv

LEMMA ReclaimOrphanedUploadingStep ==
  ASSUME QueueInv, NEW w \in Workers, ReclaimOrphanedUploading(w)
  PROVE  QueueInv'
<1>1. /\ drain[w].at = "reclaim" /\ job' = ReclaimedRows
      /\ UNCHANGED <<cloudStatus, remote, card, lock, task, crashes>>
      /\ drain' = [drain EXCEPT ![w].at = "count"]
  BY DEF ReclaimOrphanedUploading, Goto, outside
<1>2. /\ drain' \in [Workers -> Drain]
      /\ \A v \in Workers : v # w => drain'[v] = drain[v]
      /\ drain'[w].at = "count"
  BY <1>1 DEF QueueInv, TypeOK, Drain, DrainStep
<1> QED BY <1>1, <1>2, RowsAreReclaimed

LEMMA PendingCloudCountStep ==
  ASSUME QueueInv, NEW w \in Workers, PendingCloudCount(w)
  PROVE  QueueInv'
<1>1. /\ drain[w].at = "count"
      /\ UNCHANGED <<job, cloudStatus, remote, card, crashes>>
      /\ \A j \in Jobs : task[w][j].phase = "none"
  BY DEF QueueInv, TasksAreJoined, PendingCloudCount, ledger, outside
<1>2. CASE Goto(w, "claim") /\ UNCHANGED <<lock, task>>
  <2>1. /\ drain' \in [Workers -> Drain]
        /\ \A v \in Workers : v # w => drain'[v] = drain[v]
        /\ drain'[w].at = "claim"
    BY SMTT(40), <1>2 DEF QueueInv, TypeOK, Goto, Drain, DrainStep
  <2> QED BY <1>1, <1>2, <2>1, DrainMoves
<1>3. CASE Release(w)
  BY <1>1, <1>3, DrainEnds DEF QueueInv, TypeOK
<1> QED BY <1>2, <1>3 DEF PendingCloudCount

LEMMA ClaimDueCloudJobsStep ==
  ASSUME QueueInv, NEW w \in Workers, ClaimDueCloudJobs(w)
  PROVE  QueueInv'
<1> DEFINE claimed == Oldest({j \in Jobs : Claimable(j)}, MaxConcurrency)
<1>1. \A j \in claimed : j \in Jobs /\ Claimable(j) BY DEF Oldest
<1>2. /\ drain[w].at = "claim"
      /\ job' = [j \in Jobs |-> IF j \in claimed
                                THEN [job[j] EXCEPT !.state = "uploading"] ELSE job[j]]
      /\ task' = [task EXCEPT ![w] =
           [j \in Jobs |-> IF j \in claimed
                           THEN [phase |-> "preflight", attempts |-> job[j].attempts]
                           ELSE NoTask]]
      /\ drain' = [drain EXCEPT ![w].at = IF claimed = {} THEN "plan" ELSE "join",
                                ![w].progressed = FALSE]
      /\ UNCHANGED <<cloudStatus, remote, card, lock, crashes>>
  BY DEF ClaimDueCloudJobs, outside
<1> HIDE DEF claimed
<1>3. /\ drain' \in [Workers -> Drain]
      /\ \A v \in Workers : v # w => drain'[v] = drain[v]
      /\ drain'[w].at = IF claimed = {} THEN "plan" ELSE "join"
  <2> DEFINE step == IF claimed = {} THEN "plan" ELSE "join"
  <2>1. step \in DrainStep BY DEF DrainStep
  <2>2. drain \in [Workers -> Drain] BY DEF QueueInv, TypeOK
  <2>3. drain' = [drain EXCEPT ![w].at = step, ![w].progressed = FALSE] BY <1>2
  <2> HIDE DEF step
  <2>4. /\ drain' \in [Workers -> Drain]
        /\ \A v \in Workers : v # w => drain'[v] = drain[v]
        /\ drain'[w].at = step
    BY <2>1, <2>2, <2>3 DEF Drain
  <2> QED BY <2>4 DEF step
<1>4. \A j \in Jobs :
        /\ [job[j] EXCEPT !.state = "uploading"] \in JobRow
        /\ [phase |-> "preflight", attempts |-> job[j].attempts] \in Task
  BY ZenonT(40) DEF QueueInv, TypeOK, JobRow, JobState, Task, TaskPhase
<1>5. job' \in [Jobs -> JobRow] /\ task' \in [Workers -> [Jobs -> Task]]
  BY <1>2, <1>4, NoTaskType DEF QueueInv, TypeOK
<1>6. \A j \in Jobs : /\ job'[j].attempts = job[j].attempts
                      /\ job'[j].retryIn = job[j].retryIn
                      /\ j \notin claimed => job'[j] = job[j]
                      /\ j \in claimed => job'[j].state = "uploading"
  BY <1>2, <1>4 DEF QueueInv, TypeOK, JobRow
<1>7. /\ \A v \in Workers : v # w => task'[v] = task[v]
      /\ \A j \in Jobs : /\ j \in claimed => /\ task'[w][j].phase = "preflight"
                                             /\ task'[w][j].attempts = job[j].attempts
                         /\ j \notin claimed => task'[w][j].phase = "none"
  BY <1>2 DEF QueueInv, TypeOK, NoTask
<1>8. \A v \in Workers : v # w => /\ drain[v].at = "idle"
                                  /\ \A j \in Jobs : task[v][j].phase = "none"
  BY <1>2 DEF QueueInv, HolderDrains, TasksAreJoined
<1>9. TypeOK' BY <1>2, <1>3, <1>5 DEF QueueInv, TypeOK
<1>10. HolderDrains' BY <1>2, <1>3 DEF QueueInv, HolderDrains
<1>11. TasksAreJoined' BY <1>3, <1>7, <1>8 DEF TasksAreJoined
<1>12. CursorIsMarked' /\ CursorIsAJob'
  BY <1>3, <1>8 DEF CursorIsMarked, CursorIsAJob, AtCursor
<1>13. TaskOwnsRow' BY <1>6, <1>7, <1>8 DEF TaskOwnsRow
<1>14. \A j \in Jobs : job[j].state # "uploading"
  BY <1>2 DEF QueueInv, NoStrandedUpload, TasksAreJoined
<1>15. NoStrandedUpload' BY <1>3, <1>6, <1>7, <1>8, <1>14 DEF NoStrandedUpload
<1>16. AttemptsLeft'
  BY <1>1, <1>6 DEF QueueInv, AttemptsLeft, Claimable, Pending, ParkedForRetry
<1>17. StatusFollowsJob'
  BY <1>1, <1>2, <1>6 DEF QueueInv, StatusFollowsJob, Claimable
<1> QED BY <1>9, <1>10, <1>11, <1>12, <1>13, <1>15, <1>16, <1>17 DEF QueueInv

LEMMA CheckAlreadyPresentStep ==
  ASSUME QueueInv, NEW w \in Workers, NEW j \in Jobs, CheckAlreadyPresent(w, j)
  PROVE  QueueInv'
<1> DEFINE phase == IF AlreadyPresent(j) THEN "skipped" ELSE "uploading"
<1>1. phase \in TaskPhase \ {"none"} BY DEF TaskPhase
<1>2. /\ task[w][j].phase = "preflight" /\ SetPhase(w, j, phase)
      /\ UNCHANGED <<job, cloudStatus, remote, card, lock, drain, crashes>>
  BY DEF CheckAlreadyPresent, ledger, outside
<1> HIDE DEF phase
<1> QED BY <1>1, <1>2, TaskMoves DEF QueueInv, TypeOK

LEMMA UploadLandsStep ==
  ASSUME QueueInv, NEW w \in Workers, NEW j \in Jobs, UploadLands(w, j)
  PROVE  QueueInv'
<1>1. PICK phase \in {"uploaded", "failed"} : SetPhase(w, j, phase) BY DEF UploadLands
<1>2. /\ task[w][j].phase = "uploading"
      /\ UNCHANGED <<job, cloudStatus, card, lock, drain, crashes>>
  BY DEF UploadLands, ledger
<1>3. remote' \in [Paths -> Jobs \cup {NoObject}] BY DEF UploadLands, QueueInv, TypeOK
<1> QED BY <1>1, <1>2, <1>3, TaskMoves DEF TaskPhase

LEMMA RequestFailsStep ==
  ASSUME QueueInv, NEW w \in Workers, NEW j \in Jobs, RequestFails(w, j)
  PROVE  QueueInv'
<1>1. PICK phase \in {"failed", "refused"} : SetPhase(w, j, phase) BY DEF RequestFails
<1>2. /\ task[w][j].phase \in {"preflight", "uploading"}
      /\ UNCHANGED <<job, cloudStatus, remote, card, lock, drain, crashes>>
  BY DEF RequestFails, ledger, outside
<1> QED BY <1>1, <1>2, TaskMoves DEF TaskPhase, QueueInv, TypeOK

\* The row of a joined task is marked, and the worker turns to its file's status.
LEMMA RowIsMarked ==
  ASSUME QueueInv, NEW w \in Workers, NEW j \in Jobs, NEW row \in JobRow,
         drain[w].at = "join", task[w][j].phase \in Joined,
         job' = [job EXCEPT ![j] = row],
         drain' = [drain EXCEPT ![w].at = "stamp", ![w].cur = j],
         UNCHANGED <<cloudStatus, remote, card, lock, task, crashes>>,
         IF task[w][j].phase \in {"skipped", "uploaded"}
           THEN row.state = "done"
           ELSE row.state = "failed" /\ row.retryIn = NULL
  PROVE  QueueInv'
<1>1. drain \in [Workers -> Drain] BY DEF QueueInv, TypeOK
<1>2. /\ drain' \in [Workers -> Drain]
      /\ \A v \in Workers : v # w => drain'[v] = drain[v]
      /\ drain'[w].at = "stamp" /\ drain'[w].cur = j
  BY <1>1 DEF Drain, DrainStep
<1>3. /\ job' \in [Jobs -> JobRow]
      /\ job'[j] = row
      /\ \A i \in Jobs : i # j => job'[i] = job[i]
  BY DEF QueueInv, TypeOK
<1>4. \A v \in Workers : v # w => /\ drain[v].at = "idle"
                                  /\ \A i \in Jobs : task[v][i].phase = "none"
  BY DEF QueueInv, HolderDrains, TasksAreJoined
<1>5. job[j].state \in {"queued", "uploading"}
  BY DEF QueueInv, TaskOwnsRow, AtCursor, Joined
<1>6. TypeOK' BY <1>2, <1>3 DEF QueueInv, TypeOK
<1>7. HolderDrains' BY <1>2 DEF QueueInv, HolderDrains
<1>8. TasksAreJoined' BY <1>2 DEF QueueInv, TasksAreJoined
<1>9. CursorIsMarked' /\ CursorIsAJob'
  BY <1>2, <1>3, <1>4 DEF CursorIsMarked, CursorIsAJob, AtCursor, Joined
<1>10. TaskOwnsRow' BY <1>2, <1>3, <1>4 DEF QueueInv, TaskOwnsRow, AtCursor
<1>11. NoStrandedUpload' BY <1>2, <1>3, <1>4 DEF QueueInv, NoStrandedUpload
<1>12. AttemptsLeft'
  BY <1>3, BoundsAssumption DEF QueueInv, AttemptsLeft, Claimable, Pending, ParkedForRetry
<1>13. StatusFollowsJob' BY <1>3, <1>5 DEF QueueInv, StatusFollowsJob
<1> QED BY <1>6, <1>7, <1>8, <1>9, <1>10, <1>11, <1>12, <1>13 DEF QueueInv

LEMMA MarkJobDoneStep ==
  ASSUME QueueInv, NEW w \in Workers, NEW j \in Jobs, MarkJobDone(w, j)
  PROVE  QueueInv'
<1> DEFINE row == [job[j] EXCEPT !.state = "done", !.retryIn = NULL]
<1>1. job[j] \in JobRow BY DEF QueueInv, TypeOK
<1>2. row \in JobRow /\ row.state = "done" BY <1>1 DEF JobRow, JobState, RetryIn
<1>3. job' = [job EXCEPT ![j] = row] BY <1>1 DEF MarkJobDone, JobRow, QueueInv, TypeOK
<1>4. /\ drain[w].at = "join" /\ task[w][j].phase \in {"skipped", "uploaded"}
      /\ drain' = [drain EXCEPT ![w].at = "stamp", ![w].cur = j]
      /\ UNCHANGED <<cloudStatus, remote, card, lock, task, crashes>>
  BY DEF MarkJobDone, outside
<1> HIDE DEF row
<1> QED BY <1>2, <1>3, <1>4, RowIsMarked DEF Joined

\* A failed task has its row to itself, and an attempt left to record.
LEMMA FailedTaskHasRow ==
  ASSUME QueueInv, NEW w \in Workers, NEW j \in Jobs,
         drain[w].at = "join", task[w][j].phase \in {"failed", "refused"}
  PROVE  /\ job[j] \in JobRow
         /\ job[j].state \in {"queued", "uploading"}
         /\ job[j].attempts = task[w][j].attempts
         /\ job[j].attempts + 1 \in 0..AttemptLimit
<1>1. job[j] \in JobRow BY DEF QueueInv, TypeOK
<1>2. job[j].state \in {"queued", "uploading"} /\ job[j].attempts = task[w][j].attempts
  BY DEF QueueInv, TaskOwnsRow, AtCursor
<1>3. job[j].attempts < AttemptLimit BY <1>2 DEF QueueInv, AttemptsLeft, Pending
<1> QED BY <1>1, <1>2, <1>3, AttemptLimitType DEF JobRow

LEMMA MarkJobFailedForRetryStep ==
  ASSUME QueueInv, NEW w \in Workers, NEW j \in Jobs, MarkJobFailedForRetry(w, j)
  PROVE  QueueInv'
<1>1. PICK delay \in 1..MaxDelay : job' = [job EXCEPT ![j] = FailedRow(j, delay)]
  BY DEF MarkJobFailedForRetry, BackoffDelays
<1>2. /\ drain[w].at = "join" /\ task[w][j].phase \in {"failed", "refused"}
      /\ IsRetryable(w, j)
      /\ task' = [task EXCEPT ![w][j] = NoTask]
      /\ UNCHANGED <<cloudStatus, remote, card, lock, drain, crashes>>
  BY DEF MarkJobFailedForRetry, outside
<1>3. /\ job[j].state \in {"queued", "uploading"}
      /\ job[j].attempts = task[w][j].attempts
      /\ job[j].attempts + 1 \in 0..AttemptLimit
  BY <1>2, FailedTaskHasRow
<1>4. job[j].attempts + 1 < AttemptLimit
  BY <1>2, <1>3, AttemptLimitType, BoundsAssumption DEF IsRetryable, AttemptNum
<1>5. FailedRow(j, delay) \in JobRow BY <1>3 DEF FailedRow, JobRow, JobState, RetryIn
<1>6. /\ job' \in [Jobs -> JobRow]
      /\ job'[j].state = "failed" /\ job'[j].attempts = job[j].attempts + 1
      /\ \A i \in Jobs : i # j => job'[i] = job[i]
  BY <1>1, <1>5 DEF QueueInv, TypeOK, FailedRow
<1>7. /\ task' \in [Workers -> [Jobs -> Task]]
      /\ task'[w][j].phase = "none"
      /\ \A v \in Workers, i \in Jobs : v # w \/ i # j => task'[v][i] = task[v][i]
  BY <1>2, NoTaskType DEF QueueInv, TypeOK, NoTask
<1>8. \A v \in Workers : v # w => /\ drain[v].at = "idle"
                                  /\ \A i \in Jobs : task[v][i].phase = "none"
  BY <1>2 DEF QueueInv, HolderDrains, TasksAreJoined
<1>9. TypeOK' BY <1>2, <1>6, <1>7 DEF QueueInv, TypeOK
<1>10. HolderDrains' /\ CursorIsAJob' BY <1>2 DEF QueueInv, HolderDrains, CursorIsAJob
<1>11. TasksAreJoined' BY <1>2, <1>7 DEF QueueInv, TasksAreJoined
<1>12. CursorIsMarked' BY <1>2, <1>8 DEF CursorIsMarked, AtCursor
<1>13. TaskOwnsRow' BY <1>2, <1>6, <1>7, <1>8 DEF QueueInv, TaskOwnsRow, AtCursor
<1>14. NoStrandedUpload' BY <1>2, <1>6, <1>7, <1>8 DEF QueueInv, NoStrandedUpload
<1>15. AttemptsLeft'
  BY <1>4, <1>6 DEF QueueInv, AttemptsLeft, Claimable, Pending, ParkedForRetry
<1>16. StatusFollowsJob' BY <1>2, <1>3, <1>6 DEF QueueInv, StatusFollowsJob
<1> QED BY <1>9, <1>10, <1>11, <1>12, <1>13, <1>14, <1>15, <1>16 DEF QueueInv

LEMMA MarkJobFailedForGoodStep ==
  ASSUME QueueInv, NEW w \in Workers, NEW j \in Jobs, MarkJobFailedForGood(w, j)
  PROVE  QueueInv'
<1>1. /\ drain[w].at = "join" /\ task[w][j].phase \in {"failed", "refused"}
      /\ job' = [job EXCEPT ![j] = FailedRow(j, NULL)]
      /\ drain' = [drain EXCEPT ![w].at = "stamp", ![w].cur = j]
      /\ UNCHANGED <<cloudStatus, remote, card, lock, task, crashes>>
  BY DEF MarkJobFailedForGood, outside
<1>2. job[j].attempts + 1 \in 0..AttemptLimit BY <1>1, FailedTaskHasRow
<1>3. /\ FailedRow(j, NULL) \in JobRow
      /\ FailedRow(j, NULL).state = "failed" /\ FailedRow(j, NULL).retryIn = NULL
  BY <1>2 DEF FailedRow, JobRow, JobState, RetryIn
<1> QED BY <1>1, <1>3, RowIsMarked DEF Joined

LEMMA SetCloudStatusStep ==
  ASSUME QueueInv, NEW w \in Workers, SetCloudStatus(w)
  PROVE  QueueInv'
<1> DEFINE j == drain[w].cur
           mirrored == task[w][j].phase \in {"skipped", "uploaded"}
           sweep == task[w][j].phase = "uploaded" /\ DeleteAfterVerify /\ j \in CardJobs
           step == IF sweep THEN "sweep" ELSE "join"
           cur == IF sweep THEN j ELSE NULL
<1>1. /\ drain[w].at = "stamp"
      /\ cloudStatus' = [cloudStatus EXCEPT ![j] = IF mirrored THEN "done" ELSE "failed"]
      /\ drain' = [drain EXCEPT ![w].at = step, ![w].cur = cur, ![w].progressed = TRUE]
      /\ task' = [task EXCEPT ![w][j] = IF sweep THEN @ ELSE NoTask]
      /\ UNCHANGED <<job, remote, card, lock, crashes>>
  BY DEF SetCloudStatus, outside
<1>2. j \in Jobs /\ AtCursor(w, j) BY <1>1 DEF QueueInv, CursorIsAJob, AtCursor
<1>3. step \in DrainStep /\ cur \in Jobs \cup {NULL} BY <1>2 DEF DrainStep
<1>4. drain \in [Workers -> Drain] BY DEF QueueInv, TypeOK
<1>5. /\ drain' \in [Workers -> Drain]
      /\ \A v \in Workers : v # w => drain'[v] = drain[v]
      /\ drain'[w].at = step /\ drain'[w].cur = cur
  <2> HIDE DEF step, cur, sweep, mirrored, j
  <2> QED BY <1>1, <1>3, <1>4 DEF Drain
<1>6. /\ task' \in [Workers -> [Jobs -> Task]]
      /\ \A v \in Workers, i \in Jobs : v # w \/ i # j => task'[v][i] = task[v][i]
      /\ task'[w][j] = IF sweep THEN task[w][j] ELSE NoTask
  <2> HIDE DEF step, cur, sweep, mirrored, j
  <2> QED BY <1>1, <1>2, NoTaskType DEF QueueInv, TypeOK
<1>7. \A v \in Workers : v # w => /\ drain[v].at = "idle"
                                  /\ \A i \in Jobs : task[v][i].phase = "none"
  BY <1>1 DEF QueueInv, HolderDrains, TasksAreJoined
<1>8. mirrored => job[j].state = "done" BY <1>2 DEF QueueInv, CursorIsMarked
<1>9. job[j].state # "uploading"
  BY <1>2 DEF QueueInv, CursorIsMarked, Joined
<1>10. /\ cloudStatus' \in [Jobs -> {NULL, "done", "failed"}]
       /\ cloudStatus'[j] = IF mirrored THEN "done" ELSE "failed"
       /\ \A i \in Jobs : i # j => cloudStatus'[i] = cloudStatus[i]
  BY <1>1, <1>2 DEF QueueInv, TypeOK
<1>11. TypeOK' BY <1>1, <1>5, <1>6, <1>10 DEF QueueInv, TypeOK
<1>12. HolderDrains' BY <1>1, <1>5 DEF QueueInv, HolderDrains
<1>13. TasksAreJoined' BY <1>5, <1>6, <1>7 DEF QueueInv, TasksAreJoined
<1>20. \A v \in Workers, i \in Jobs :
        AtCursor(v, i)' <=> v = w /\ i = j /\ sweep
  BY <1>2, <1>5, <1>7 DEF AtCursor
<1>21. \A v \in Workers, i \in Jobs :
        task'[v][i].phase # "none" =>
          /\ task'[v][i] = task[v][i]
          /\ v = w
          /\ i = j => sweep
  BY <1>6, <1>7 DEF NoTask
<1>14. CursorIsMarked'
  BY SMTT(40), <1>1, <1>2, <1>6, <1>8, <1>20 DEF CursorIsMarked, Joined
<1>15. CursorIsAJob' BY <1>2, <1>5, <1>7 DEF CursorIsAJob
<1>16. TaskOwnsRow'
  <2> SUFFICES ASSUME NEW v \in Workers, NEW i \in Jobs,
                      task'[v][i].phase # "none", ~AtCursor(v, i)'
               PROVE  /\ job'[i].state \in {"queued", "uploading"}
                      /\ job'[i].attempts = task'[v][i].attempts
    BY DEF TaskOwnsRow
  <2>1. task'[v][i] = task[v][i] /\ i # j BY <1>20, <1>21
  <2>2. ~AtCursor(v, i) BY <1>21, <2>1 DEF AtCursor
  <2> QED BY <1>1, <2>1, <2>2 DEF QueueInv, TaskOwnsRow
<1>17. NoStrandedUpload'
  <2> SUFFICES ASSUME NEW v \in Workers, NEW i \in Jobs,
                      drain'[v].at \notin {"idle", "reclaim"}, job'[i].state = "uploading"
               PROVE  task'[v][i].phase # "none"
    BY DEF NoStrandedUpload
  <2>1. v = w /\ i # j BY <1>1, <1>5, <1>7, <1>9
  <2> QED BY <1>1, <1>6, <2>1 DEF QueueInv, NoStrandedUpload
<1>18. AttemptsLeft'
  BY <1>1 DEF QueueInv, AttemptsLeft, Claimable, Pending, ParkedForRetry
<1>19. StatusFollowsJob' BY <1>1, <1>8, <1>10 DEF QueueInv, StatusFollowsJob
<1> QED BY <1>11, <1>12, <1>13, <1>14, <1>15, <1>16, <1>17, <1>18, <1>19 DEF QueueInv

LEMMA RemoveCardSrcStep ==
  ASSUME QueueInv, NEW w \in Workers, RemoveCardSrc(w)
  PROVE  QueueInv'
<1> DEFINE j == drain[w].cur
<1>1. /\ drain[w].at = "sweep"
      /\ card' = [card EXCEPT ![j] = "gone"] \/ card' = card
      /\ task' = [task EXCEPT ![w][j] = NoTask]
      /\ drain' = [drain EXCEPT ![w].at = "join", ![w].cur = NULL]
      /\ UNCHANGED <<job, cloudStatus, remote, lock, crashes>>
  BY DEF RemoveCardSrc, ledger
<1>2. j \in Jobs /\ AtCursor(w, j) BY <1>1 DEF QueueInv, CursorIsAJob, AtCursor
<1>3. drain \in [Workers -> Drain] BY DEF QueueInv, TypeOK
<1>4. /\ drain' \in [Workers -> Drain]
      /\ \A v \in Workers : v # w => drain'[v] = drain[v]
      /\ drain'[w].at = "join"
  BY ZenonT(40), <1>1, <1>3 DEF Drain, DrainStep
<1>5. /\ task' \in [Workers -> [Jobs -> Task]]
      /\ \A v \in Workers, i \in Jobs : v # w \/ i # j => task'[v][i] = task[v][i]
      /\ task'[w][j].phase = "none"
  BY <1>1, <1>2, NoTaskType DEF QueueInv, TypeOK, NoTask
<1>6. \A v \in Workers : v # w => /\ drain[v].at = "idle"
                                  /\ \A i \in Jobs : task[v][i].phase = "none"
  BY <1>1 DEF QueueInv, HolderDrains, TasksAreJoined
<1>7. job[j].state = "done" BY <1>1, <1>2 DEF QueueInv, CursorIsMarked
<1>8. card' \in [Jobs -> {"original", "stranger", "gone"}]
  BY <1>1, <1>2 DEF QueueInv, TypeOK
<1>9. TypeOK' BY <1>1, <1>4, <1>5, <1>8 DEF QueueInv, TypeOK
<1>10. HolderDrains' BY <1>1, <1>4 DEF QueueInv, HolderDrains
<1>11. TasksAreJoined' BY <1>4, <1>5, <1>6 DEF TasksAreJoined
<1>12. CursorIsMarked' /\ CursorIsAJob'
  BY <1>4, <1>6 DEF CursorIsMarked, CursorIsAJob, AtCursor
<1>13. TaskOwnsRow'
  <2> SUFFICES ASSUME NEW v \in Workers, NEW i \in Jobs, task'[v][i].phase # "none"
               PROVE  /\ job'[i].state \in {"queued", "uploading"}
                      /\ job'[i].attempts = task'[v][i].attempts
    BY DEF TaskOwnsRow
  <2>1. v = w /\ i # j BY <1>5, <1>6
  <2>2. ~AtCursor(v, i) BY <2>1 DEF AtCursor
  <2> QED BY <1>1, <1>5, <2>1, <2>2 DEF QueueInv, TaskOwnsRow
<1>14. NoStrandedUpload'
  <2> SUFFICES ASSUME NEW v \in Workers, NEW i \in Jobs,
                      drain'[v].at \notin {"idle", "reclaim"}, job'[i].state = "uploading"
               PROVE  task'[v][i].phase # "none"
    BY DEF NoStrandedUpload
  <2>1. v = w /\ i # j BY <1>1, <1>4, <1>6, <1>7
  <2> QED BY <1>1, <1>5, <2>1 DEF QueueInv, NoStrandedUpload
<1>15. AttemptsLeft'
  BY <1>1 DEF QueueInv, AttemptsLeft, Claimable, Pending, ParkedForRetry
<1>16. StatusFollowsJob' BY <1>1 DEF QueueInv, StatusFollowsJob
<1> QED BY <1>9, <1>10, <1>11, <1>12, <1>13, <1>14, <1>15, <1>16 DEF QueueInv

LEMMA EndOfPassStep ==
  ASSUME QueueInv, NEW w \in Workers, EndOfPass(w)
  PROVE  QueueInv'
<1>1. PICK step \in {"count", "plan"} : Goto(w, step) BY DEF EndOfPass
<1>2. /\ drain[w].at = "join" /\ \A j \in Jobs : task[w][j].phase = "none"
      /\ UNCHANGED <<job, cloudStatus, remote, card, lock, task, crashes>>
  BY DEF EndOfPass, ledger, outside
<1>3. /\ drain' \in [Workers -> Drain]
      /\ \A v \in Workers : v # w => drain'[v] = drain[v]
      /\ drain'[w].at \in {"count", "plan"}
  BY ZenonT(40), <1>1 DEF QueueInv, TypeOK, Goto, Drain, DrainStep
<1> QED BY <1>2, <1>3, DrainMoves

LEMMA SecsUntilNextRetryStep ==
  ASSUME QueueInv, NEW w \in Workers, SecsUntilNextRetry(w)
  PROVE  QueueInv'
<1>1. /\ drain[w].at = "plan" /\ \A j \in Jobs : task[w][j].phase = "none"
      /\ UNCHANGED <<job, cloudStatus, remote, card, lock, task, crashes>>
  BY DEF SecsUntilNextRetry, ledger, outside, QueueInv, TasksAreJoined
<1>2. drain \in [Workers -> Drain] BY DEF QueueInv, TypeOK
<1>3. CASE FutureRetries = {}
  <2>1. /\ drain' \in [Workers -> Drain]
        /\ \A v \in Workers : v # w => drain'[v] = drain[v]
        /\ drain'[w].at = "backstop"
    BY <1>2, <1>3 DEF SecsUntilNextRetry, Goto, Drain, DrainStep
  <2> QED BY <1>1, <2>1, DrainMoves
<1>4. CASE FutureRetries # {}
  <2>1. PICK soonest \in FutureRetries :
          drain' = [drain EXCEPT ![w].at = "sleep", ![w].wakeIn = soonest]
    BY <1>4 DEF SecsUntilNextRetry
  <2>2. soonest \in 0..MaxDelay
    BY DEF QueueInv, TypeOK, FutureRetries, ParkedForRetry, JobRow, RetryIn
  <2>3. /\ drain' \in [Workers -> Drain]
        /\ \A v \in Workers : v # w => drain'[v] = drain[v]
        /\ drain'[w].at = "sleep"
    BY <1>2, <2>1, <2>2 DEF Drain, DrainStep
  <2> QED BY <1>1, <2>3, DrainMoves
<1> QED BY <1>3, <1>4

LEMMA WakeStep ==
  ASSUME QueueInv, NEW w \in Workers, Wake(w)
  PROVE  QueueInv'
<1>1. /\ drain[w].at = "sleep" /\ \A j \in Jobs : task[w][j].phase = "none"
      /\ UNCHANGED <<job, cloudStatus, remote, card, lock, task, crashes>>
      /\ Goto(w, "count")
  BY DEF Wake, ledger, outside, QueueInv, TasksAreJoined
<1>2. /\ drain' \in [Workers -> Drain]
      /\ \A v \in Workers : v # w => drain'[v] = drain[v]
      /\ drain'[w].at = "count"
  BY <1>1 DEF QueueInv, TypeOK, Goto, Drain, DrainStep
<1> QED BY <1>1, <1>2, DrainMoves

LEMMA IdleBackstopStep ==
  ASSUME QueueInv, NEW w \in Workers, IdleBackstop(w)
  PROVE  QueueInv'
BY DrainEnds DEF IdleBackstop, ledger, outside, QueueInv, TypeOK

LEMMA CutShortStep ==
  ASSUME QueueInv, NEW w \in Workers, CutShort(w)
  PROVE  QueueInv'
<1>1. crashes' \in 0..MaxCrashes
  BY BoundsAssumption DEF CutShort, QueueInv, TypeOK
<1> QED BY <1>1, DrainEnds DEF CutShort, ledger, outside

LEMMA TickStep ==
  ASSUME QueueInv, Tick
  PROVE  QueueInv'
<1>1. /\ job' = [j \in Jobs |-> [job[j] EXCEPT !.retryIn = Elapsed(@)]]
      /\ drain' = [w \in Workers |-> [drain[w] EXCEPT !.wakeIn = Elapsed(@)]]
      /\ UNCHANGED <<cloudStatus, remote, card, lock, task, crashes>>
  BY DEF Tick, outside
<1>2. \A t \in 0..MaxDelay : Elapsed(t) \in 0..MaxDelay
  BY BoundsAssumption DEF Elapsed
<1>3. \A t \in RetryIn : Elapsed(t) \in RetryIn /\ (Elapsed(t) = NULL <=> t = NULL)
  BY BoundsAssumption DEF Elapsed, RetryIn
<1>4. \A j \in Jobs : /\ job'[j] \in JobRow
                      /\ job'[j].state = job[j].state
                      /\ job'[j].attempts = job[j].attempts
                      /\ job'[j].retryIn = NULL <=> job[j].retryIn = NULL
  BY <1>1, <1>3 DEF QueueInv, TypeOK, JobRow
<1>5. \A w \in Workers : /\ drain'[w] \in Drain
                         /\ drain'[w].at = drain[w].at
                         /\ drain'[w].cur = drain[w].cur
  BY <1>1, <1>2 DEF QueueInv, TypeOK, Drain
<1>6. job' \in [Jobs -> JobRow] /\ drain' \in [Workers -> Drain]
  BY <1>1, <1>4, <1>5
<1>7. TypeOK' BY <1>1, <1>6 DEF QueueInv, TypeOK
<1>8. HolderDrains' /\ CursorIsAJob' BY <1>1, <1>5 DEF QueueInv, HolderDrains, CursorIsAJob
<1>9. TasksAreJoined' BY <1>1, <1>5 DEF QueueInv, TasksAreJoined
<1>10. CursorIsMarked' BY <1>1, <1>4, <1>5 DEF QueueInv, CursorIsMarked, AtCursor
<1>11. TaskOwnsRow' BY <1>1, <1>4, <1>5 DEF QueueInv, TaskOwnsRow, AtCursor
<1>12. NoStrandedUpload' BY <1>1, <1>4, <1>5 DEF QueueInv, NoStrandedUpload
<1>13. AttemptsLeft'
  BY <1>4, BoundsAssumption DEF QueueInv, AttemptsLeft, Claimable, Pending, ParkedForRetry
<1>14. StatusFollowsJob' BY <1>1, <1>4 DEF QueueInv, StatusFollowsJob
<1> QED BY <1>7, <1>8, <1>9, <1>10, <1>11, <1>12, <1>13, <1>14 DEF QueueInv

LEMMA SwapCardStep ==
  ASSUME QueueInv, SwapCard
  PROVE  QueueInv'
<1>1. UNCHANGED <<job, cloudStatus, remote, lock, drain, task, crashes>>
  BY DEF SwapCard, ledger
<1>2. TypeOK' BY <1>1 DEF QueueInv, TypeOK, SwapCard
<1>3. HolderDrains' /\ TasksAreJoined' /\ CursorIsAJob'
  BY <1>1 DEF QueueInv, HolderDrains, TasksAreJoined, CursorIsAJob
<1>4. CursorIsMarked' BY <1>1 DEF QueueInv, CursorIsMarked, AtCursor
<1>5. TaskOwnsRow' BY <1>1 DEF QueueInv, TaskOwnsRow, AtCursor
<1>6. NoStrandedUpload' /\ StatusFollowsJob'
  BY <1>1 DEF QueueInv, NoStrandedUpload, StatusFollowsJob
<1>7. AttemptsLeft'
  BY <1>1 DEF QueueInv, AttemptsLeft, Claimable, Pending, ParkedForRetry
<1> QED BY <1>2, <1>3, <1>4, <1>5, <1>6, <1>7 DEF QueueInv

-----------------------------------------------------------------------------
(* The invariants of the queue.                                            *)

LEMMA QueueInvInit == Init => QueueInv
<1> SUFFICES ASSUME Init PROVE QueueInv OBVIOUS
<1>1. IdleDrain \in Drain BY BoundsAssumption DEF IdleDrain, Drain, DrainStep
<1>2. [state |-> "absent", attempts |-> 0, retryIn |-> NULL] \in JobRow
  BY AttemptLimitType DEF JobRow, JobState, RetryIn
<1>3. TypeOK BY <1>1, <1>2, NoTaskType, BoundsAssumption DEF Init, TypeOK
<1>4. \A w \in Workers : /\ drain[w].at = "idle"
                         /\ \A j \in Jobs : task[w][j].phase = "none"
  BY DEF Init, IdleDrain, NoTask
<1>5. HolderDrains /\ TasksAreJoined /\ NoStrandedUpload
  BY <1>4 DEF HolderDrains, TasksAreJoined, NoStrandedUpload
<1>6. CursorIsMarked /\ CursorIsAJob /\ TaskOwnsRow
  BY <1>4 DEF CursorIsMarked, CursorIsAJob, TaskOwnsRow, AtCursor
<1>7. AttemptsLeft BY DEF Init, AttemptsLeft, Claimable, Pending, ParkedForRetry
<1>8. StatusFollowsJob BY BoundsAssumption DEF Init, StatusFollowsJob
<1> QED BY <1>3, <1>5, <1>6, <1>7, <1>8 DEF QueueInv

LEMMA QueueInvStep == QueueInv /\ [Next]_vars => QueueInv'
<1> SUFFICES ASSUME QueueInv, [Next]_vars PROVE QueueInv' OBVIOUS
<1>1. ASSUME NEW j \in Jobs, EnqueueCloudJob(j) PROVE QueueInv'
  BY <1>1, EnqueueCloudJobStep
<1>2. CASE RecoverAtStartup BY <1>2, RecoverAtStartupStep
<1>3. CASE RequeueFailedCloudJobs BY <1>3, RequeueFailedCloudJobsStep
<1>4. ASSUME NEW w \in Workers, TryAcquireWorkerLock(w) PROVE QueueInv'
  BY <1>4, TryAcquireWorkerLockStep
<1>5. ASSUME NEW w \in Workers, JoinStep(w) PROVE QueueInv'
  BY <1>5, MarkJobDoneStep, MarkJobFailedForRetryStep, MarkJobFailedForGoodStep,
     SetCloudStatusStep, RemoveCardSrcStep, EndOfPassStep DEF JoinStep
<1>6. ASSUME NEW w \in Workers, DrainStepOf(w) PROVE QueueInv'
  BY <1>5, <1>6, ReclaimOrphanedUploadingStep, PendingCloudCountStep,
     ClaimDueCloudJobsStep, SecsUntilNextRetryStep, WakeStep, IdleBackstopStep
  DEF DrainStepOf
<1>7. ASSUME NEW w \in Workers, CutShort(w) PROVE QueueInv' BY <1>7, CutShortStep
<1>8. ASSUME NEW w \in Workers, NEW j \in Jobs, UploadStep(w, j) PROVE QueueInv'
  BY <1>8, CheckAlreadyPresentStep, UploadLandsStep, RequestFailsStep DEF UploadStep
<1>9. CASE Tick BY <1>9, TickStep
<1>10. CASE SwapCard BY <1>10, SwapCardStep
<1>11. CASE UNCHANGED vars
  BY <1>11 DEF vars, QueueInv, TypeOK, HolderDrains, TasksAreJoined, CursorIsMarked,
     CursorIsAJob, TaskOwnsRow, NoStrandedUpload, AttemptsLeft, StatusFollowsJob,
     AtCursor, Claimable, Pending, ParkedForRetry
<1> QED
  BY <1>1, <1>2, <1>3, <1>4, <1>6, <1>7, <1>8, <1>9, <1>10, <1>11 DEF Next

\* The queue's bookkeeping holds in every state, for every number of workers, jobs
\* and crashes (run_until_drained and the ledger statements it makes).
THEOREM QueueInvariance == Spec => []QueueInv
BY QueueInvInit, QueueInvStep, PTL DEF Spec

\* Every variable keeps its type.
THEOREM TypeCorrect == Spec => []TypeOK
BY QueueInvariance, PTL DEF QueueInv

\* No job is uploaded by two workers at once, although app start resets rows without
\* taking the worker lock (try_acquire_worker_lock, recover_and_count_pending).
THEOREM SingleUploader == Spec => []OneUploaderPerJob
<1>1. QueueInv => OneUploaderPerJob
  BY DEF QueueInv, HolderDrains, TasksAreJoined, OneUploaderPerJob
<1> QED BY <1>1, QueueInvariance, PTL

\* After the reclaim of a drain no row is left uploading without a task
\* (reclaim_orphaned_uploading).
THEOREM NothingStranded == Spec => []NoStrandedUpload
BY QueueInvariance, PTL DEF QueueInv

\* A row that will be tried again has attempts left (run_once, mark_job_failed).
THEOREM AttemptsSuffice == Spec => []AttemptsLeft
BY QueueInvariance, PTL DEF QueueInv

\* Only a file whose job is done has status done (mark_job_done, set_cloud_status).
THEOREM StatusIsTrue == Spec => []StatusFollowsJob
BY QueueInvariance, PTL DEF QueueInv

-----------------------------------------------------------------------------
(* What the steps do to one variable each.                                 *)

\* A finished row has no retry scheduled.
DoneHasNoRetry == \A j \in Jobs : job[j].state = "done" => job[j].retryIn = NULL

\* A row becomes done by mark_job_done alone, and stays as it is then.
LEMMA DoneSteps ==
  ASSUME QueueInv, DoneHasNoRetry, [Next]_vars, NEW j \in Jobs
  PROVE  /\ job[j].state = "done" => job'[j] = job[j]
         /\ job'[j].state = "done" =>
              job[j].state = "done" \/ \E w \in Workers : MarkJobDone(w, j)
<1> DEFINE P == /\ job[j].state = "done" => job'[j] = job[j]
                /\ job'[j].state = "done" =>
                     job[j].state = "done" \/ \E w \in Workers : MarkJobDone(w, j)
<1>1. job \in [Jobs -> JobRow] BY DEF QueueInv, TypeOK
<1>2. ASSUME job' = job PROVE P BY <1>2
<1>3. ASSUME NEW i \in Jobs, EnqueueCloudJob(i) PROVE P
  BY <1>1, <1>3 DEF EnqueueCloudJob
<1>4. ASSUME job' = ReclaimedRows PROVE P
  BY <1>1, <1>4 DEF ReclaimedRows, JobRow
<1>5. CASE RequeueFailedCloudJobs
  BY <1>1, <1>5 DEF RequeueFailedCloudJobs, RequeuedRow, GivenUp
<1>6. ASSUME NEW w \in Workers, ClaimDueCloudJobs(w) PROVE P
  <2> DEFINE claimed == Oldest({i \in Jobs : Claimable(i)}, MaxConcurrency)
  <2>1. \A i \in claimed : Claimable(i) BY DEF Oldest
  <2>2. job' = [i \in Jobs |-> IF i \in claimed
                               THEN [job[i] EXCEPT !.state = "uploading"] ELSE job[i]]
    BY <1>6 DEF ClaimDueCloudJobs
  <2> HIDE DEF claimed
  <2> QED BY <1>1, <2>1, <2>2 DEF Claimable, JobRow
<1>7. ASSUME NEW w \in Workers, NEW i \in Jobs, MarkJobDone(w, i) PROVE P
  <2>1. job[i].state \in {"queued", "uploading"}
    BY <1>7 DEF MarkJobDone, QueueInv, TaskOwnsRow, AtCursor
  <2> QED BY <1>1, <1>7, <2>1 DEF MarkJobDone
<1>8. ASSUME NEW w \in Workers, NEW i \in Jobs,
             MarkJobFailedForRetry(w, i) \/ MarkJobFailedForGood(w, i)
      PROVE  P
  <2>1. job[i].state \in {"queued", "uploading"}
    BY <1>8, FailedTaskHasRow DEF MarkJobFailedForRetry, MarkJobFailedForGood
  <2>2. /\ \A k \in Jobs : k # i => job'[k] = job[k]
        /\ job'[i].state = "failed"
    BY <1>1, <1>8 DEF MarkJobFailedForRetry, MarkJobFailedForGood, FailedRow
  <2> QED BY <2>1, <2>2
<1>9. CASE Tick
  <2>1. job' = [i \in Jobs |-> [job[i] EXCEPT !.retryIn = Elapsed(@)]] BY <1>9 DEF Tick
  <2>2. job'[j].state = job[j].state BY <1>1, <2>1 DEF JobRow
  <2>3. job[j].state = "done" => job[j].retryIn = NULL
    BY DEF DoneHasNoRetry
  <2> QED BY <1>1, <2>1, <2>2, <2>3 DEF JobRow, Elapsed
<1> QED
  BY <1>2, <1>3, <1>4, <1>5, <1>6, <1>7, <1>8, <1>9
  DEF Next, vars, ledger, UploadStep, DrainStepOf, JoinStep, RecoverAtStartup,
      TryAcquireWorkerLock, ReclaimOrphanedUploading, PendingCloudCount,
      CheckAlreadyPresent, UploadLands, RequestFails, SetCloudStatus, RemoveCardSrc,
      EndOfPass, SecsUntilNextRetry, Wake, IdleBackstop, CutShort, SwapCard

LEMMA DoneHasNoRetryStep ==
  ASSUME QueueInv, DoneHasNoRetry, [Next]_vars
  PROVE  DoneHasNoRetry'
<1> SUFFICES ASSUME NEW j \in Jobs, job'[j].state = "done" PROVE job'[j].retryIn = NULL
  BY DEF DoneHasNoRetry
<1>1. CASE job[j].state = "done" BY <1>1, DoneSteps DEF DoneHasNoRetry
<1>2. ASSUME NEW w \in Workers, MarkJobDone(w, j) PROVE job'[j].retryIn = NULL
  BY <1>2 DEF MarkJobDone, QueueInv, TypeOK, JobRow
<1> QED BY <1>1, <1>2, DoneSteps

LEMMA DoneHasNoRetryInvariance == Spec => []DoneHasNoRetry
<1>1. Init => DoneHasNoRetry BY DEF Init, DoneHasNoRetry
<1> QED BY <1>1, DoneHasNoRetryStep, QueueInvariance, PTL DEF Spec

\* A finished job is never reopened: not by a claim, a reclaim, a retry or a late task
\* (claim_due_cloud_jobs, reclaim_orphaned_uploading, requeue_failed_cloud_jobs).
THEOREM DoneIsFinal == Spec => DoneStays
<1>1. QueueInv /\ DoneHasNoRetry /\ [Next]_vars =>
        [\A j \in Jobs : job[j].state = "done" => job'[j] = job[j]]_vars
  BY DoneSteps
<1> QED BY <1>1, QueueInvariance, DoneHasNoRetryInvariance, PTL DEF Spec, DoneStays

\* The server's objects change only when an upload lands.
LEMMA RemoteSteps ==
  ASSUME [Next]_vars
  PROVE  \/ remote' = remote
         \/ \E w \in Workers, j \in Jobs : UploadLands(w, j)
BY ZenonT(40) DEF Next, vars, outside, UploadStep, DrainStepOf, JoinStep, EnqueueCloudJob,
   RecoverAtStartup, RequeueFailedCloudJobs, TryAcquireWorkerLock,
   ReclaimOrphanedUploading, PendingCloudCount, ClaimDueCloudJobs, CheckAlreadyPresent,
   RequestFails, MarkJobDone, MarkJobFailedForRetry, MarkJobFailedForGood,
   SetCloudStatus, RemoveCardSrc, EndOfPass, SecsUntilNextRetry, Wake, IdleBackstop,
   CutShort, Tick, SwapCard

\* A card file goes only by the sweep of a worker whose cursor is on its job.
LEMMA CardSteps ==
  ASSUME QueueInv, [Next]_vars, NEW j \in Jobs, card'[j] = "gone"
  PROVE  \/ card[j] = "gone"
         \/ \E w \in Workers : drain[w].at = "sweep" /\ drain[w].cur = j
<1>1. ASSUME card' = card PROVE card[j] = "gone" BY <1>1
<1>2. CASE SwapCard BY <1>2 DEF SwapCard
<1>3. ASSUME NEW w \in Workers, RemoveCardSrc(w)
      PROVE  card[j] = "gone" \/ (drain[w].at = "sweep" /\ drain[w].cur = j)
  BY <1>3 DEF RemoveCardSrc, QueueInv, TypeOK
<1> QED
  BY ZenonT(40), <1>1, <1>2, <1>3
  DEF Next, vars, outside, UploadStep, DrainStepOf, JoinStep, EnqueueCloudJob,
      RecoverAtStartup, RequeueFailedCloudJobs, TryAcquireWorkerLock,
      ReclaimOrphanedUploading, PendingCloudCount, ClaimDueCloudJobs,
      CheckAlreadyPresent, UploadLands, RequestFails, MarkJobDone,
      MarkJobFailedForRetry, MarkJobFailedForGood, SetCloudStatus, EndOfPass,
      SecsUntilNextRetry, Wake, IdleBackstop, CutShort, Tick

\* A task reports a file as mirrored by its check or its upload.
LEMMA ReportSteps ==
  ASSUME QueueInv, [Next]_vars, NEW w \in Workers, NEW j \in Jobs,
         task'[w][j].phase \in {"skipped", "uploaded"}
  PROVE  \/ task[w][j].phase = task'[w][j].phase
         \/ CheckAlreadyPresent(w, j) /\ AlreadyPresent(j)
         \/ UploadLands(w, j)
<1> DEFINE P == \/ task[w][j].phase = task'[w][j].phase
                \/ CheckAlreadyPresent(w, j) /\ AlreadyPresent(j)
                \/ UploadLands(w, j)
<1>1. task \in [Workers -> [Jobs -> Task]] BY DEF QueueInv, TypeOK
<1>2. ASSUME task' = task PROVE P BY <1>2
<1>3. ASSUME NEW v \in Workers, Release(v) PROVE P
  BY <1>1, <1>3 DEF Release, NoTask
<1>4. ASSUME NEW v \in Workers, ClaimDueCloudJobs(v) PROVE P
  <2> DEFINE claimed == Oldest({i \in Jobs : Claimable(i)}, MaxConcurrency)
  <2>1. task' = [task EXCEPT ![v] =
           [i \in Jobs |-> IF i \in claimed
                           THEN [phase |-> "preflight", attempts |-> job[i].attempts]
                           ELSE NoTask]]
    BY <1>4 DEF ClaimDueCloudJobs
  <2> HIDE DEF claimed
  <2> QED BY <1>1, <2>1 DEF NoTask
<1>5. ASSUME NEW v \in Workers, NEW i \in Jobs, UploadStep(v, i) PROVE P
  <2>1. v # w \/ i # j => task'[w][j] = task[w][j]
    BY <1>1, <1>5 DEF UploadStep, CheckAlreadyPresent, UploadLands, RequestFails, SetPhase
  <2>2. ASSUME v = w, i = j, RequestFails(v, i) PROVE FALSE
    <3>1. PICK phase \in {"failed", "refused"} : SetPhase(w, j, phase)
      BY <2>2 DEF RequestFails
    <3>2. task'[w][j].phase = phase BY <1>1, <3>1 DEF SetPhase, Task
    <3> QED BY <3>2
  <2>3. ASSUME v = w, i = j, CheckAlreadyPresent(v, i) PROVE AlreadyPresent(j)
    <3>1. SUFFICES ASSUME ~AlreadyPresent(j) PROVE FALSE OBVIOUS
    <3>2. SetPhase(w, j, "uploading") BY <2>3, <3>1 DEF CheckAlreadyPresent
    <3>3. task'[w][j].phase = "uploading" BY <1>1, <3>2 DEF SetPhase, Task
    <3> QED BY <3>3
  <2> QED BY <1>5, <2>1, <2>2, <2>3 DEF UploadStep
<1>6. ASSUME NEW v \in Workers, NEW i \in Jobs, MarkJobFailedForRetry(v, i) PROVE P
  BY <1>1, <1>6 DEF MarkJobFailedForRetry, NoTask
<1>7. ASSUME NEW v \in Workers, RemoveCardSrc(v) PROVE P
  BY <1>1, <1>7 DEF RemoveCardSrc, NoTask
<1>8. ASSUME NEW v \in Workers, SetCloudStatus(v) PROVE P
  <2>1. PICK keep \in BOOLEAN :
          task' = [task EXCEPT ![v][drain[v].cur] = IF keep THEN @ ELSE NoTask]
    <3> DEFINE keep == task[v][drain[v].cur].phase = "uploaded" /\ DeleteAfterVerify
                       /\ drain[v].cur \in CardJobs
    <3>1. task' = [task EXCEPT ![v][drain[v].cur] = IF keep THEN @ ELSE NoTask]
      BY <1>8 DEF SetCloudStatus
    <3>2. keep \in BOOLEAN OBVIOUS
    <3> HIDE DEF keep
    <3> QED BY <3>1, <3>2
  <2> QED BY <1>1, <2>1 DEF NoTask
<1> QED
  BY <1>2, <1>3, <1>4, <1>5, <1>6, <1>7, <1>8
  DEF Next, vars, DrainStepOf, JoinStep, EnqueueCloudJob, RecoverAtStartup,
      RequeueFailedCloudJobs, TryAcquireWorkerLock, ReclaimOrphanedUploading,
      PendingCloudCount, MarkJobDone, MarkJobFailedForGood, EndOfPass,
      SecsUntilNextRetry, Wake, IdleBackstop, CutShort, Tick, SwapCard

-----------------------------------------------------------------------------
(* What is called mirrored is mirrored, where no two jobs share a path.    *)

DistinctPaths == \A i, j \in Jobs : RemotePath[i] = RemotePath[j] => i = j

LEMMA UploadKeepsObjects ==
  ASSUME DistinctPaths, QueueInv, NEW w \in Workers, NEW j \in Jobs, UploadLands(w, j)
  PROVE  /\ remote'[RemotePath[j]] = j
         /\ \A p \in Paths : p # RemotePath[j] => remote'[p] = remote[p]
         /\ \A i \in Jobs : remote[RemotePath[i]] = i => remote'[RemotePath[i]] = i
BY PathsAssumption DEF DistinctPaths, QueueInv, TypeOK, UploadLands

LEMMA MirrorInvStep ==
  ASSUME DistinctPaths, QueueInv, DoneHasNoRetry, MirrorInv, [Next]_vars
  PROVE  MirrorInv'
<1>1. \A i \in Jobs : remote[RemotePath[i]] = i => remote'[RemotePath[i]] = i
  BY RemoteSteps, UploadKeepsObjects
<1>2. ObjectsInPlace'
  <2>1. CASE remote' = remote BY <2>1 DEF MirrorInv, ObjectsInPlace
  <2>2. ASSUME NEW w \in Workers, NEW j \in Jobs, UploadLands(w, j) PROVE ObjectsInPlace'
    BY <2>2, UploadKeepsObjects DEF MirrorInv, ObjectsInPlace
  <2> QED BY <2>1, <2>2, RemoteSteps
<1>3. ReportsAreTrue'
  <2> SUFFICES ASSUME NEW w \in Workers, NEW j \in Jobs,
                      task'[w][j].phase \in {"skipped", "uploaded"}
               PROVE  remote'[RemotePath[j]] = j
    BY DEF ReportsAreTrue
  <2>1. CASE task[w][j].phase = task'[w][j].phase
    BY <1>1, <2>1 DEF MirrorInv, ReportsAreTrue
  <2>2. CASE CheckAlreadyPresent(w, j) /\ AlreadyPresent(j)
    <3>1. RemotePath[j] \in Paths /\ remote[RemotePath[j]] # NoObject
      BY <2>2, PathsAssumption DEF AlreadyPresent
    <3>2. remote[RemotePath[j]] \in Jobs BY <3>1 DEF QueueInv, TypeOK
    <3>3. RemotePath[remote[RemotePath[j]]] = RemotePath[j]
      BY <3>1 DEF MirrorInv, ObjectsInPlace
    <3>4. remote[RemotePath[j]] = j BY <3>2, <3>3 DEF DistinctPaths
    <3> QED BY <1>1, <3>4
  <2>3. CASE UploadLands(w, j) BY <2>3, UploadKeepsObjects
  <2> QED BY <2>1, <2>2, <2>3, ReportSteps
<1>4. DoneIsMirrored'
  <2> SUFFICES ASSUME NEW j \in Jobs, job'[j].state = "done"
               PROVE  remote'[RemotePath[j]] = j
    BY DEF DoneIsMirrored
  <2>1. CASE job[j].state = "done" BY <1>1, <2>1 DEF MirrorInv, DoneIsMirrored
  <2>2. ASSUME NEW w \in Workers, MarkJobDone(w, j) PROVE remote'[RemotePath[j]] = j
    BY <1>1, <2>2 DEF MarkJobDone, MirrorInv, ReportsAreTrue
  <2> QED BY <2>1, <2>2, DoneSteps
<1>5. FreedIsMirrored'
  <2> SUFFICES ASSUME NEW j \in Jobs, card'[j] = "gone"
               PROVE  remote'[RemotePath[j]] = j /\ job'[j].state = "done"
    BY DEF FreedIsMirrored
  <2>1. job[j].state = "done"
    <3>1. CASE card[j] = "gone" BY <3>1 DEF MirrorInv, FreedIsMirrored
    <3>2. ASSUME NEW w \in Workers, drain[w].at = "sweep", drain[w].cur = j
          PROVE  job[j].state = "done"
      BY <3>2 DEF QueueInv, CursorIsMarked, AtCursor
    <3> QED BY <3>1, <3>2, CardSteps
  <2>2. job'[j].state = "done" BY <2>1, DoneSteps
  <2> QED BY <1>4, <2>2 DEF DoneIsMirrored
<1> QED BY <1>2, <1>3, <1>4, <1>5 DEF MirrorInv

LEMMA MirrorInvariance ==
  ASSUME DistinctPaths
  PROVE  Spec => []MirrorInv
<1>1. Init => MirrorInv
  <2> SUFFICES ASSUME Init PROVE MirrorInv OBVIOUS
  <2>1. ObjectsInPlace BY DEF Init, ObjectsInPlace
  <2>2. ReportsAreTrue BY DEF Init, ReportsAreTrue, NoTask
  <2>3. DoneIsMirrored /\ FreedIsMirrored BY DEF Init, DoneIsMirrored, FreedIsMirrored
  <2> QED BY <2>1, <2>2, <2>3 DEF MirrorInv
<1>2. QueueInv /\ DoneHasNoRetry /\ MirrorInv /\ [Next]_vars => MirrorInv'
  BY MirrorInvStep
<1> QED BY <1>1, <1>2, QueueInvariance, DoneHasNoRetryInvariance, PTL DEF Spec

\* Where no two jobs share a remote path, a job marked done has its own file on the
\* server, also when the check that skips an upload compares sizes alone
\* (propfind_present, mark_job_done).
THEOREM DoneMeansMirrored ==
  ASSUME DistinctPaths
  PROVE  Spec => []DoneIsMirrored
<1>1. MirrorInv => DoneIsMirrored BY DEF MirrorInv
<1> QED BY <1>1, MirrorInvariance, PTL

\* Then a card file goes only when the server has it (delete-after-verify under Auto).
THEOREM FreedMeansMirrored ==
  ASSUME DistinctPaths
  PROVE  Spec => []FreedIsMirrored
<1>1. MirrorInv => FreedIsMirrored BY DEF MirrorInv
<1> QED BY <1>1, MirrorInvariance, PTL

-----------------------------------------------------------------------------
(* The queue implements the contract.                                      *)

\* Steps that leave the row's outcome, the server and the freed files alone.
LEMMA ContractStutters ==
  ASSUME \A j \in Jobs : Outcome(j)' = Outcome(j), remote' = remote,
         \A j \in Jobs : card'[j] = "gone" <=> card[j] = "gone"
  PROVE  UNCHANGED Contract!vars
BY DEF Contract!vars

LEMMA SameRowsSameOutcome ==
  ASSUME job' = job
  PROVE  \A j \in Jobs : Outcome(j)' = Outcome(j)
BY DEF Outcome, GivenUp

LEMMA ContractInit == Init => Contract!Init
<1> SUFFICES ASSUME Init PROVE Contract!Init OBVIOUS
<1>1. \A j \in Jobs : Outcome(j) = "none"
  <2>1. \A j \in Jobs : job[j].state = "absent" BY DEF Init
  <2> QED BY <2>1 DEF Outcome, GivenUp
<1>2. {j \in Jobs : remote[RemotePath[j]] = j} = {} BY PathsAssumption DEF Init
<1>3. {j \in Jobs : card[j] = "gone"} = {} BY DEF Init
<1> QED BY <1>1, <1>2, <1>3 DEF Contract!Init

\* A row keeps its outcome when neither its being done, given up nor absent changes.
LEMMA OutcomeKept ==
  ASSUME NEW j \in Jobs,
         job'[j].state = "absent" <=> job[j].state = "absent",
         job'[j].state = "done" <=> job[j].state = "done",
         GivenUp(j)' <=> GivenUp(j)
  PROVE  Outcome(j)' = Outcome(j)
BY DEF Outcome

LEMMA ReclaimKeepsOutcomes ==
  ASSUME QueueInv, job' = ReclaimedRows
  PROVE  \A j \in Jobs : Outcome(j)' = Outcome(j)
<1> SUFFICES ASSUME NEW j \in Jobs PROVE Outcome(j)' = Outcome(j) OBVIOUS
<1>1. /\ job'[j].retryIn = job[j].retryIn
      /\ job'[j].state = IF job[j].state = "uploading" THEN "queued" ELSE job[j].state
  BY DEF QueueInv, TypeOK, ReclaimedRows, JobRow
<1> QED BY <1>1, OutcomeKept DEF GivenUp

LEMMA AcceptStep ==
  ASSUME QueueInv, NEW j \in Jobs, EnqueueCloudJob(j)
  PROVE  Contract!Accept(j)
<1>1. /\ job[j].state = "absent" /\ job'[j].state = "queued"
      /\ \A i \in Jobs : i # j => job'[i] = job[i]
  BY DEF EnqueueCloudJob, QueueInv, TypeOK
<1>2. Outcome(j) = "none" BY <1>1 DEF Outcome, GivenUp
<1>3. Outcome(j)' = "accepted" BY <1>1 DEF Outcome, GivenUp
<1>4. \A i \in Jobs : i # j => Outcome(i)' = Outcome(i) BY <1>1 DEF Outcome, GivenUp
<1>5. UNCHANGED <<remote, card>> BY DEF EnqueueCloudJob, outside
<1> QED BY <1>2, <1>3, <1>4, <1>5 DEF Contract!Accept

LEMMA RetryStep ==
  ASSUME QueueInv, RequeueFailedCloudJobs
  PROVE  Contract!Retry
<1>1. \A j \in Jobs : Outcome(j) = "givenUp" <=> GivenUp(j)
  BY DEF Outcome, GivenUp
<1>2. \A j \in Jobs : GivenUp(j) => Outcome(j)' = "accepted"
  BY DEF RequeueFailedCloudJobs, RequeuedRow, Outcome, GivenUp
<1>3. \A j \in Jobs : ~GivenUp(j) => job'[j] = job[j] BY DEF RequeueFailedCloudJobs
<1>4. \A j \in Jobs : ~GivenUp(j) => Outcome(j)' = Outcome(j)
  BY <1>3 DEF Outcome, GivenUp
<1>5. UNCHANGED <<remote, card>> BY DEF RequeueFailedCloudJobs, outside
<1> QED BY <1>1, <1>2, <1>4, <1>5 DEF Contract!Retry

LEMMA ClaimKeepsOutcomes ==
  ASSUME QueueInv, NEW w \in Workers, ClaimDueCloudJobs(w)
  PROVE  \A j \in Jobs : Outcome(j)' = Outcome(j)
<1> SUFFICES ASSUME NEW j \in Jobs PROVE Outcome(j)' = Outcome(j) OBVIOUS
<1> DEFINE claimed == Oldest({i \in Jobs : Claimable(i)}, MaxConcurrency)
<1>1. \A i \in claimed : Claimable(i) BY DEF Oldest
<1>2. job' = [i \in Jobs |-> IF i \in claimed
                             THEN [job[i] EXCEPT !.state = "uploading"] ELSE job[i]]
  BY DEF ClaimDueCloudJobs
<1> HIDE DEF claimed
<1>3. CASE j \notin claimed
  <2>1. job'[j] = job[j] BY <1>2, <1>3
  <2> QED BY <2>1, OutcomeKept DEF GivenUp
<1>4. CASE j \in claimed
  <2>1. job'[j].state = "uploading" BY <1>2, <1>4 DEF QueueInv, TypeOK, JobRow
  <2>2. job[j].state \in {"queued", "failed"} BY <1>1, <1>4 DEF Claimable
  <2>3. ~GivenUp(j)
    BY <1>1, <1>4, BoundsAssumption DEF Claimable, GivenUp
  <2>4. ~GivenUp(j)' BY <2>1 DEF GivenUp
  <2> QED BY <2>1, <2>2, <2>3, <2>4, OutcomeKept
<1> QED BY <1>3, <1>4

LEMMA StoreStep ==
  ASSUME DistinctPaths, QueueInv, NEW w \in Workers, NEW j \in Jobs, UploadLands(w, j)
  PROVE  Contract!Store(j)
<1>1. job[j].state \in {"queued", "uploading"}
  BY DEF UploadLands, QueueInv, TaskOwnsRow, CursorIsMarked, Joined
<1>2. Outcome(j) = "accepted" BY <1>1 DEF Outcome, GivenUp
<1>3. {i \in Jobs : remote[RemotePath[i]] = i}' = {i \in Jobs : remote[RemotePath[i]] = i} \cup {j}
  <2>1. \A i \in Jobs : i # j => remote'[RemotePath[i]] = remote[RemotePath[i]]
    BY UploadKeepsObjects, PathsAssumption DEF DistinctPaths
  <2> QED BY <2>1, UploadKeepsObjects
<1>4. UNCHANGED <<job, card>> BY DEF UploadLands, ledger
<1>5. \A i \in Jobs : Outcome(i)' = Outcome(i) BY <1>4, SameRowsSameOutcome
<1> QED BY <1>2, <1>3, <1>4, <1>5 DEF Contract!Store

LEMMA MirrorStep ==
  ASSUME QueueInv, MirrorInv, NEW w \in Workers, NEW j \in Jobs, MarkJobDone(w, j)
  PROVE  Contract!Mirror(j)
<1>1. job[j].state \in {"queued", "uploading"}
  BY DEF MarkJobDone, QueueInv, TaskOwnsRow, AtCursor
<1>2. Outcome(j) = "accepted" BY <1>1 DEF Outcome, GivenUp
<1>3. job'[j].state = "done" /\ \A i \in Jobs : i # j => job'[i] = job[i]
  BY DEF MarkJobDone, QueueInv, TypeOK, JobRow
<1>4. Outcome(j)' = "mirrored" BY <1>3 DEF Outcome, GivenUp
<1>5. \A i \in Jobs : i # j => Outcome(i)' = Outcome(i) BY <1>3 DEF Outcome, GivenUp
<1>6. remote[RemotePath[j]] = j BY DEF MarkJobDone, MirrorInv, ReportsAreTrue
<1>7. UNCHANGED <<remote, card>> BY DEF MarkJobDone, outside
<1> QED BY <1>2, <1>4, <1>5, <1>6, <1>7 DEF Contract!Mirror

LEMMA ParkKeepsOutcomes ==
  ASSUME QueueInv, NEW w \in Workers, NEW j \in Jobs, MarkJobFailedForRetry(w, j)
  PROVE  \A i \in Jobs : Outcome(i)' = Outcome(i)
<1>1. job[j].state \in {"queued", "uploading"}
  BY FailedTaskHasRow DEF MarkJobFailedForRetry
<1>2. /\ job'[j].state = "failed" /\ job'[j].retryIn # NULL
      /\ \A i \in Jobs : i # j => job'[i] = job[i]
  BY BoundsAssumption DEF MarkJobFailedForRetry, BackoffDelays, FailedRow, QueueInv, TypeOK
<1>3. Outcome(j)' = Outcome(j) BY <1>1, <1>2, OutcomeKept DEF GivenUp
<1>4. \A i \in Jobs : i # j => Outcome(i)' = Outcome(i)
  BY <1>2, OutcomeKept DEF GivenUp
<1> QED BY <1>3, <1>4

LEMMA GiveUpStep ==
  ASSUME QueueInv, NEW w \in Workers, NEW j \in Jobs, MarkJobFailedForGood(w, j)
  PROVE  Contract!GiveUp(j)
<1>1. job[j].state \in {"queued", "uploading"}
  BY FailedTaskHasRow DEF MarkJobFailedForGood
<1>2. Outcome(j) = "accepted" BY <1>1 DEF Outcome, GivenUp
<1>3. /\ job'[j].state = "failed" /\ job'[j].retryIn = NULL
      /\ \A i \in Jobs : i # j => job'[i] = job[i]
  BY DEF MarkJobFailedForGood, FailedRow, QueueInv, TypeOK
<1>4. Outcome(j)' = "givenUp" BY <1>3 DEF Outcome, GivenUp
<1>5. \A i \in Jobs : i # j => Outcome(i)' = Outcome(i) BY <1>3 DEF Outcome, GivenUp
<1>6. UNCHANGED <<remote, card>> BY DEF MarkJobFailedForGood, outside
<1> QED BY <1>2, <1>4, <1>5, <1>6 DEF Contract!GiveUp

LEMMA FreeStep ==
  ASSUME QueueInv, NEW w \in Workers, RemoveCardSrc(w), NEW j \in Jobs, drain[w].cur = j
  PROVE  Contract!Free(j) \/ UNCHANGED Contract!vars
<1>1. job[j].state = "done"
  BY DEF RemoveCardSrc, QueueInv, CursorIsMarked, AtCursor
<1>2. UNCHANGED <<job, remote>> BY DEF RemoveCardSrc, ledger
<1>3. \A i \in Jobs : Outcome(i)' = Outcome(i) BY <1>2, SameRowsSameOutcome
<1>4. Outcome(j) = "mirrored" BY <1>1 DEF Outcome, GivenUp
<1>5. CASE card' = card BY <1>2, <1>3, <1>5, ContractStutters
<1>6. CASE card' = [card EXCEPT ![j] = "gone"]
  <2>1. {i \in Jobs : card[i] = "gone"}' = {i \in Jobs : card[i] = "gone"} \cup {j}
    BY <1>1, <1>6 DEF QueueInv, TypeOK
  <2> QED BY <1>1, <1>2, <1>3, <1>4, <2>1 DEF Contract!Free
<1> QED BY <1>5, <1>6 DEF RemoveCardSrc

LEMMA TickKeepsOutcomes ==
  ASSUME QueueInv, Tick
  PROVE  \A j \in Jobs : Outcome(j)' = Outcome(j)
<1> SUFFICES ASSUME NEW j \in Jobs PROVE Outcome(j)' = Outcome(j) OBVIOUS
<1>1. job' = [i \in Jobs |-> [job[i] EXCEPT !.retryIn = Elapsed(@)]] BY DEF Tick
<1>2. job[j] \in JobRow BY DEF QueueInv, TypeOK
<1>3. job'[j].state = job[j].state /\ job'[j].retryIn = Elapsed(job[j].retryIn)
  BY <1>1, <1>2 DEF JobRow
<1>4. Elapsed(job[j].retryIn) = NULL <=> job[j].retryIn = NULL
  BY <1>2, BoundsAssumption DEF JobRow, RetryIn, Elapsed
<1> QED BY <1>3, <1>4, OutcomeKept DEF GivenUp

LEMMA ContractStep ==
  ASSUME DistinctPaths, QueueInv, DoneHasNoRetry, MirrorInv, [Next]_vars
  PROVE  [Contract!Next]_Contract!vars
<1> DEFINE Goal == [Contract!Next]_Contract!vars
<1> SUFFICES Goal OBVIOUS
<1>1. ASSUME UNCHANGED <<job, remote, card>> PROVE Goal
  BY <1>1, SameRowsSameOutcome, ContractStutters
<1>2. ASSUME NEW j \in Jobs, EnqueueCloudJob(j) PROVE Goal
  BY <1>2, AcceptStep DEF Contract!Next
<1>3. ASSUME job' = ReclaimedRows, UNCHANGED <<remote, card>> PROVE Goal
  BY <1>3, ReclaimKeepsOutcomes, ContractStutters
<1>4. CASE RequeueFailedCloudJobs BY <1>4, RetryStep DEF Contract!Next
<1>5. ASSUME NEW w \in Workers, ClaimDueCloudJobs(w) PROVE Goal
  <2>1. UNCHANGED <<remote, card>> BY <1>5 DEF ClaimDueCloudJobs, outside
  <2> QED BY <1>5, <2>1, ClaimKeepsOutcomes, ContractStutters
<1>6. ASSUME NEW w \in Workers, NEW j \in Jobs, UploadLands(w, j) PROVE Goal
  BY <1>6, StoreStep DEF Contract!Next
<1>7. ASSUME NEW w \in Workers, NEW j \in Jobs, MarkJobDone(w, j) PROVE Goal
  BY <1>7, MirrorStep DEF Contract!Next
<1>8. ASSUME NEW w \in Workers, NEW j \in Jobs, MarkJobFailedForRetry(w, j) PROVE Goal
  <2>1. UNCHANGED <<remote, card>> BY <1>8 DEF MarkJobFailedForRetry, outside
  <2> QED BY <1>8, <2>1, ParkKeepsOutcomes, ContractStutters
<1>9. ASSUME NEW w \in Workers, NEW j \in Jobs, MarkJobFailedForGood(w, j) PROVE Goal
  BY <1>9, GiveUpStep DEF Contract!Next
<1>10. ASSUME NEW w \in Workers, RemoveCardSrc(w) PROVE Goal
  <2>1. PICK j \in Jobs : drain[w].cur = j
    BY <1>10 DEF RemoveCardSrc, QueueInv, CursorIsAJob
  <2>2. CASE Contract!Free(j) BY <2>2 DEF Contract!Next
  <2> QED BY <1>10, <2>1, <2>2, FreeStep
<1>11. CASE Tick
  <2>1. UNCHANGED <<remote, card>> BY <1>11 DEF Tick, outside
  <2> QED BY <1>11, <2>1, TickKeepsOutcomes, ContractStutters
<1>12. CASE SwapCard
  <2>1. UNCHANGED <<job, remote>> BY <1>12 DEF SwapCard, ledger
  <2>2. \A j \in Jobs : card'[j] = "gone" <=> card[j] = "gone" BY <1>12 DEF SwapCard
  <2> QED BY <2>1, <2>2, SameRowsSameOutcome, ContractStutters
<1> HIDE DEF Goal
<1>13. CASE RecoverAtStartup BY <1>3, <1>13 DEF RecoverAtStartup, outside
<1>14. ASSUME NEW w \in Workers, ReclaimOrphanedUploading(w) PROVE Goal
  BY <1>3, <1>14 DEF ReclaimOrphanedUploading, outside
<1>15. ASSUME NEW w \in Workers,
              \/ TryAcquireWorkerLock(w) \/ PendingCloudCount(w) \/ SetCloudStatus(w)
              \/ EndOfPass(w) \/ SecsUntilNextRetry(w) \/ Wake(w) \/ IdleBackstop(w)
              \/ CutShort(w)
       PROVE  Goal
  BY <1>1, <1>15
  DEF TryAcquireWorkerLock, PendingCloudCount, SetCloudStatus, EndOfPass,
      SecsUntilNextRetry, Wake, IdleBackstop, CutShort, ledger, outside
<1>16. ASSUME NEW w \in Workers, NEW j \in Jobs,
              CheckAlreadyPresent(w, j) \/ RequestFails(w, j)
       PROVE  Goal
  BY <1>1, <1>16 DEF CheckAlreadyPresent, RequestFails, ledger, outside
<1>17. CASE UNCHANGED vars BY <1>1, <1>17 DEF vars
<1> QED
  BY <1>2, <1>4, <1>5, <1>6, <1>7, <1>8, <1>9, <1>10, <1>11, <1>12, <1>13, <1>14,
     <1>15, <1>16, <1>17
  DEF Next, UploadStep, DrainStepOf, JoinStep

\* Where no two jobs share a remote path, the queue with its workers, crashes and late
\* tasks implements the contract of MirrorContract.
THEOREM QueueImplementsContract ==
  ASSUME DistinctPaths
  PROVE  Spec => KeepsContract
<1>1. QueueInv /\ DoneHasNoRetry /\ MirrorInv /\ [Next]_vars =>
        [Contract!Next]_Contract!vars
  BY ContractStep
<1> QED
  BY <1>1, ContractInit, QueueInvariance, DoneHasNoRetryInvariance, MirrorInvariance, PTL
  DEF Spec, KeepsContract, Contract!Spec
=============================================================================
