------------------------------- MODULE Ingest -------------------------------
(***************************************************************************)
(* How an offload comes to run: the two detectors (detect.rs,              *)
(* wired/detect.rs), the two consumer loops of the app's set-up, the lock  *)
(* they share, the flag that keeps the camera's detector quiet during an   *)
(* offload, the budget of automatic retries and the switch in the settings  *)
(* that turns wired ingest on and off (lib.rs, commands.rs).  What an      *)
(* offload does is WiredOffload and SdOffload; here it starts and ends.    *)
(***************************************************************************)
EXTENDS Integers, Sequences, FiniteSets, SequencesExt

CONSTANTS
  Cameras,    \* their addresses, four numbers each
  Host,       \* the address of this machine on the link each camera makes
  OtherHosts, \* its addresses on other networks
  Mounts,     \* removable volumes
  Cards,      \* those that are a camera's card
  MaxRearms,  \* MAX_WIRED_REARMS
  Events,     \* what may happen, of the set below
  MaxPlugs,   \* bound on the times something is plugged in
  MaxToggles, \* bound on the saves that turn wired ingest on or off
  None

ASSUME DevicesAssumption ==
  /\ IsFiniteSet(Mounts) /\ Cards \subseteq Mounts
  /\ None \notin Cameras \cup Mounts \cup {"wired", "sd"}
  /\ Host \in [Cameras -> Seq(0..255)]
  /\ \A c \in Cameras : c = [Host[c] EXCEPT ![4] = 51] /\ c # Host[c]
ASSUME OptionsAssumption ==
  /\ MaxRearms \in Nat /\ MaxPlugs \in Nat /\ MaxToggles \in Nat
  /\ Events \subseteq {"runFails",   \* a run may end with an error or failed files
                       "localError", \* the destination or the ledger may not open
                       "infoFails",  \* a camera may answer the probe and not more
                       "probeMiss",  \* or leave a probe without an answer
                       "overlap"}    \* two computations of the flag may overlap

VARIABLES
  plugged,   \* the cameras that are connected
  present,   \* the poller's de-bounce set
  rearm,     \* the cameras the poller is asked to forget
  poller,    \* the poller's tick
  found,     \* the CameraFound events not yet taken
  paused,    \* detector_paused
  active,    \* wired_offload_active
  enabled,   \* wired_enabled
  wanted,    \* wired_ingest in the configuration file
  at,        \* where the wired consumer and a save are
  saw,       \* what each has computed the pause flag to be
  cam,       \* the camera the consumer works on, or None
  retry,     \* what the last run returned
  streak,    \* the budget's count of automatic retries
  rearmed,   \* the budget's rearmed_last
  lock,      \* who holds the offload lock
  mounted,   \* the mounted volumes
  seen,      \* those the mount poller has seen
  arrived,   \* the mounts not yet taken
  sd,        \* where the SD consumer is
  credit,    \* runs each camera has left for the times it was plugged in (history)
  settled,   \* cameras with nothing left to retry, cards offloaded (history)
  count      \* of plugs and of toggles

vars == <<plugged, present, rearm, poller, found, paused, active, enabled, wanted, at, saw,
          cam, retry, streak, rearmed, lock, mounted, seen, arrived, sd, credit, settled, count>>
detector == <<present, rearm, poller, found>>
budget == <<streak, rearmed>>
flags == <<paused, active, enabled, wanted, at, saw>>
work == <<cam, retry>>
mounting == <<mounted, seen, arrived, sd>>
history == <<credit, settled>>
world == <<plugged, count>>

-----------------------------------------------------------------------------
Threads == {"consumer", "saver"}
Recomputing == {"loadActive", "loadEnabled", "storePause"}
ConsumerStep == Recomputing \cup {"recv", "lock", "check", "run", "settle"}
SaverStep == Recomputing \cup {"idle", "flag"}

\* candidate_camera_ips: a camera answers at .51 of a network in 172.20 to 172.29, on which
\* this machine has another number.
CandidateCameraIps(ips) ==
  {[ip EXCEPT ![4] = 51] : ip \in {i \in ips : i[1] = 172 /\ i[2] \in 20..29 /\ i[4] # 51}}

\* host_ipv4s, as the interfaces are now.
HostIpv4s == {Host[c] : c \in plugged} \cup OtherHosts

Addresses == Cameras \cup CandidateCameraIps(OtherHosts)

Poller == [at : {"rest", "probe", "fire"}, todo : SUBSET Addresses, confirmed : SUBSET Cameras]
AtRest == [at |-> "rest", todo |-> {}, confirmed |-> {}]

\* detector_should_pause.
ShouldPause(a, e) == a \/ ~e

Init ==
  /\ plugged = {} /\ present = {} /\ rearm = {}
  /\ poller = AtRest
  /\ found = <<>>
  /\ wanted \in (IF MaxToggles = 0 THEN {TRUE} ELSE BOOLEAN)
  /\ enabled = wanted
  /\ active = FALSE
  /\ paused = ShouldPause(active, enabled)
  /\ at = [consumer |-> "recv", saver |-> "idle"]
  /\ saw = [t \in Threads |-> FALSE]
  /\ cam = None
  /\ retry = FALSE
  /\ streak = [c \in Cameras |-> 0]
  /\ rearmed = {}
  /\ lock = None
  /\ mounted = {} /\ seen = {}
  /\ arrived = <<>>
  /\ sd = [at |-> "recv", mount |-> None]
  /\ credit = [c \in Cameras |-> 0]
  /\ settled = {}
  /\ count = [plugs |-> 0, toggles |-> 0]

TypeOK ==
  /\ plugged \subseteq Cameras /\ present \subseteq Cameras /\ rearm \subseteq Cameras
  /\ poller \in Poller
  /\ found \in Seq(Cameras)
  /\ paused \in BOOLEAN /\ active \in BOOLEAN /\ enabled \in BOOLEAN /\ wanted \in BOOLEAN
  /\ at \in [consumer : ConsumerStep, saver : SaverStep]
  /\ saw \in [Threads -> BOOLEAN]
  /\ cam \in Cameras \cup {None}
  /\ retry \in BOOLEAN
  /\ streak \in [Cameras -> 0..MaxRearms]
  /\ rearmed \subseteq Cameras
  /\ lock \in {"wired", "sd", None}
  /\ mounted \subseteq Mounts /\ seen \subseteq Mounts
  /\ arrived \in Seq(Mounts)
  /\ sd \in [at : {"recv", "lock", "run"}, mount : Mounts \cup {None}]
  /\ credit \in [Cameras -> Int]
  /\ settled \subseteq Cameras \cup Mounts
  /\ count \in [plugs : 0..MaxPlugs, toggles : 0..MaxToggles]

-----------------------------------------------------------------------------
(* The camera detector: poll_for_camera_with_rearm and poll_once.          *)

\* Mutant: the requests are dropped before they are applied.
TickForgetsRequests ==
  /\ poller.at = "rest" /\ ~paused
  /\ rearm' = {}
  /\ poller' = [at |-> "probe", todo |-> CandidateCameraIps(HostIpv4s), confirmed |-> {}]
  /\ UNCHANGED <<present, found, flags, work, budget, lock, mounting, history, world>>

\* A tick that finds the flag clear forgets what it is asked to forget, once, and
\* enumerates the candidates.
Tick ==
  /\ poller.at = "rest" /\ ~paused
  /\ present' = present \ rearm
  /\ rearm' = {}
  /\ poller' = [at |-> "probe", todo |-> CandidateCameraIps(HostIpv4s), confirmed |-> {}]
  /\ UNCHANGED <<found, flags, work, budget, lock, mounting, history, world>>

\* version(): whatever is not a 200 with JSON in time is no answer.
Version(c) == {c \in plugged} \cup (IF "probeMiss" \in Events THEN {FALSE} ELSE {})

\* info(), asked of a camera that answered version().
Info(c) == {c \in plugged} \cup (IF "infoFails" \in Events THEN {FALSE} ELSE {})

Probe(c) ==
  /\ poller.at = "probe" /\ c \in poller.todo
  /\ \E answers \in Version(c) :
       poller' = [poller EXCEPT !.todo = @ \ {c},
                                !.confirmed = IF answers THEN @ \cup {c} ELSE @]
  /\ UNCHANGED <<present, rearm, found, flags, work, budget, lock, mounting, history, world>>

\* probe_edge.
Edge ==
  /\ poller.at = "probe" /\ poller.todo = {}
  /\ poller' = [poller EXCEPT !.at = "fire", !.todo = poller.confirmed \ present]
  /\ UNCHANGED <<present, rearm, found, flags, work, budget, lock, mounting, history, world>>

\* Whoever answers info() is reported; who does not is probed anew the next time.
Report(c) ==
  /\ poller.at = "fire" /\ c \in poller.todo
  /\ TRUE \in Info(c)
  /\ found' = Append(found, c)
  /\ poller' = [poller EXCEPT !.todo = @ \ {c}]
  /\ UNCHANGED <<present, rearm, flags, work, budget, lock, mounting, history, world>>

GiveUp(c) ==
  /\ poller.at = "fire" /\ c \in poller.todo
  /\ FALSE \in Info(c)
  /\ poller' = [poller EXCEPT !.todo = @ \ {c}, !.confirmed = @ \ {c}]
  /\ UNCHANGED <<present, rearm, found, flags, work, budget, lock, mounting, history, world>>

EndTick ==
  /\ poller.at = "fire" /\ poller.todo = {}
  /\ present' = poller.confirmed
  /\ poller' = AtRest
  /\ UNCHANGED <<rearm, found, flags, work, budget, lock, mounting, history, world>>

Poll == \/ Tick \/ Edge \/ EndTick
        \/ \E c \in Addresses : Probe(c) \/ Report(c) \/ GiveUp(c)

-----------------------------------------------------------------------------
(* recompute_detector_pause: two loads and a store, by either thread.      *)

LoadActive(t) ==
  /\ at[t] = "loadActive"
  /\ "overlap" \in Events \/ \A u \in Threads : at[u] \notin {"loadEnabled", "storePause"}
  /\ saw' = [saw EXCEPT ![t] = active]
  /\ at' = [at EXCEPT ![t] = "loadEnabled"]
  /\ UNCHANGED <<paused, active, enabled, wanted, detector, work, budget, lock, mounting, history, world>>

LoadEnabled(t) ==
  /\ at[t] = "loadEnabled"
  /\ saw' = [saw EXCEPT ![t] = ShouldPause(@, enabled)]
  /\ at' = [at EXCEPT ![t] = "storePause"]
  /\ UNCHANGED <<paused, active, enabled, wanted, detector, work, budget, lock, mounting, history, world>>

StorePause(t) ==
  /\ at[t] = "storePause"
  /\ paused' = saw[t]
  /\ at' = [at EXCEPT ![t] = IF t = "saver" THEN "idle" ELSE IF active THEN "lock" ELSE "settle"]
  /\ UNCHANGED <<active, enabled, wanted, saw, detector, work, budget, lock, mounting, history, world>>

Recompute(t) == LoadActive(t) \/ LoadEnabled(t) \/ StorePause(t)

-----------------------------------------------------------------------------
(* The wired consumer loop of run and run_wired_offload_for_camera.        *)

\* Mutant: every event counts as a replug.
NoteEveryEvent(c) == [streak EXCEPT ![c] = 0]

\* RearmBudget::note_event: a camera that was not re-armed has been plugged in.
NoteEvent(c) == IF c \in rearmed THEN streak ELSE [streak EXCEPT ![c] = 0]

Receive ==
  /\ at.consumer = "recv" /\ found # <<>>
  /\ found' = Tail(found)
  /\ IF enabled
     THEN /\ cam' = Head(found)
          /\ streak' = NoteEvent(Head(found))
          /\ active' = TRUE
          /\ at' = [at EXCEPT !.consumer = "loadActive"]
     ELSE UNCHANGED <<cam, streak, active, at>>
  /\ UNCHANGED <<present, rearm, poller, paused, enabled, wanted, saw, retry, rearmed, lock,
                 mounting, history, world>>

LockWired ==
  /\ at.consumer = "lock" /\ lock = None
  /\ lock' = "wired"
  /\ at' = [at EXCEPT !.consumer = "check"]
  /\ UNCHANGED <<paused, active, enabled, wanted, saw, detector, work, budget, mounting, history, world>>

\* A run that is over gives the lock back and the camera free.
EndRun(again) ==
  /\ lock' = None
  /\ active' = FALSE
  /\ retry' = again
  /\ at' = [at EXCEPT !.consumer = "loadActive"]

\* Turned off in the file meanwhile, or no destination or ledger: no run, no retry.
CheckFails ==
  /\ at.consumer = "check"
  /\ ~wanted \/ "localError" \in Events
  /\ EndRun(FALSE)
  /\ UNCHANGED <<paused, enabled, wanted, saw, detector, cam, budget, mounting, history, world>>

StartRun ==
  /\ at.consumer = "check" /\ wanted
  /\ credit' = [credit EXCEPT ![cam] = @ - 1]
  /\ at' = [at EXCEPT !.consumer = "run"]
  /\ UNCHANGED <<paused, active, enabled, wanted, saw, detector, work, budget, lock, mounting,
                 settled, world>>

RearmNeeded(ok, failed) == ~ok \/ failed > 0

\* A run ends with the number of files that failed, or with an error.
FinishRun ==
  /\ at.consumer = "run"
  /\ \E ok \in BOOLEAN, failed \in 0..1 :
       LET again == RearmNeeded(ok, failed) IN
       /\ cam \notin plugged => again
       /\ again => cam \notin plugged \/ "runFails" \in Events
       /\ EndRun(again)
  /\ UNCHANGED <<paused, enabled, wanted, saw, detector, cam, budget, mounting, history, world>>

\* Mutant: one retry too many.
SettleOffByOne ==
  LET again == retry /\ streak[cam] <= MaxRearms IN
  /\ at.consumer = "settle"
  /\ streak' = [streak EXCEPT ![cam] = IF again THEN @ + 1 ELSE IF retry THEN @ ELSE 0]
  /\ rearmed' = IF again THEN rearmed \cup {cam} ELSE rearmed \ {cam}
  /\ rearm' = IF again THEN rearm \cup {cam} ELSE rearm
  /\ settled' = IF again THEN settled ELSE settled \cup {cam}
  /\ cam' = None
  /\ retry' = FALSE
  /\ at' = [at EXCEPT !.consumer = "recv"]
  /\ UNCHANGED <<present, poller, found, paused, active, enabled, wanted, saw, lock, mounting,
                 credit, world>>

\* RearmBudget::should_rearm, and the request it decides.
Settle ==
  LET again == retry /\ streak[cam] < MaxRearms IN
  /\ at.consumer = "settle"
  /\ streak' = [streak EXCEPT ![cam] = IF again THEN @ + 1 ELSE IF retry THEN @ ELSE 0]
  /\ rearmed' = IF again THEN rearmed \cup {cam} ELSE rearmed \ {cam}
  /\ rearm' = IF again THEN rearm \cup {cam} ELSE rearm
  /\ settled' = IF again THEN settled ELSE settled \cup {cam}
  /\ cam' = None
  /\ retry' = FALSE
  /\ at' = [at EXCEPT !.consumer = "recv"]
  /\ UNCHANGED <<present, poller, found, paused, active, enabled, wanted, saw, lock, mounting,
                 credit, world>>

Consume == Receive \/ LockWired \/ CheckFails \/ StartRun \/ FinishRun \/ Settle

-----------------------------------------------------------------------------
(* save_config: the file first, then the flag, then the pause.             *)

SaveFile ==
  /\ at.saver = "idle"
  /\ count.toggles < MaxToggles
  /\ count' = [count EXCEPT !.toggles = @ + 1]
  /\ wanted' = ~wanted
  /\ at' = [at EXCEPT !.saver = "flag"]
  /\ UNCHANGED <<paused, active, enabled, saw, detector, work, budget, lock, mounting, history, plugged>>

\* Mutant: the save leaves the pause to the next offload.
SaveFlagOnly ==
  /\ at.saver = "flag"
  /\ enabled' = wanted
  /\ at' = [at EXCEPT !.saver = "idle"]
  /\ UNCHANGED <<paused, active, wanted, saw, detector, work, budget, lock, mounting, history, world>>

SaveFlag ==
  /\ at.saver = "flag"
  /\ enabled' = wanted
  /\ at' = [at EXCEPT !.saver = "loadActive"]
  /\ UNCHANGED <<paused, active, wanted, saw, detector, work, budget, lock, mounting, history, world>>

-----------------------------------------------------------------------------
(* The SD side: poll_removable_mounts, its consumer loop, handle_mount.    *)

PollMounts ==
  /\ seen # mounted
  /\ \E new \in SetToSeqs(mounted \ seen) : arrived' = arrived \o new
  /\ seen' = mounted
  /\ UNCHANGED <<mounted, sd, detector, flags, work, budget, lock, history, world>>

\* Mutant: a card that comes while an offload runs is passed over.
TakeMountIfFree ==
  /\ sd.at = "recv" /\ arrived # <<>>
  /\ arrived' = Tail(arrived)
  /\ sd' = IF Head(arrived) \in Cards /\ Head(arrived) \in mounted /\ lock = None
           THEN [at |-> "lock", mount |-> Head(arrived)] ELSE sd
  /\ UNCHANGED <<mounted, seen, detector, flags, work, budget, lock, history, world>>

\* A volume that is no card is dropped without a side effect.
TakeMount ==
  /\ sd.at = "recv" /\ arrived # <<>>
  /\ arrived' = Tail(arrived)
  /\ sd' = IF Head(arrived) \in Cards /\ Head(arrived) \in mounted
           THEN [at |-> "lock", mount |-> Head(arrived)] ELSE sd
  /\ UNCHANGED <<mounted, seen, detector, flags, work, budget, lock, history, world>>

\* Mutant: an offload of a card does not wait.
LockSdAtOnce ==
  /\ sd.at = "lock"
  /\ lock' = "sd"
  /\ sd' = [sd EXCEPT !.at = "run"]
  /\ UNCHANGED <<mounted, seen, arrived, detector, flags, work, budget, history, world>>

LockSd ==
  /\ sd.at = "lock" /\ lock = None
  /\ lock' = "sd"
  /\ sd' = [sd EXCEPT !.at = "run"]
  /\ UNCHANGED <<mounted, seen, arrived, detector, flags, work, budget, history, world>>

\* However the run ends, its card is not offloaded again before it is mounted again.
FinishSd ==
  /\ sd.at = "run"
  /\ lock' = None
  /\ settled' = settled \cup {sd.mount}
  /\ sd' = [at |-> "recv", mount |-> None]
  /\ UNCHANGED <<mounted, seen, arrived, detector, flags, work, budget, credit, world>>

OffloadCards == TakeMount \/ LockSd \/ FinishSd

-----------------------------------------------------------------------------
(* The user.                                                               *)

MayPlug == count.plugs < MaxPlugs /\ count' = [count EXCEPT !.plugs = @ + 1]

Plug(c) ==
  /\ c \notin plugged /\ MayPlug
  /\ plugged' = plugged \cup {c}
  /\ credit' = [credit EXCEPT ![c] = @ + 1 + MaxRearms]
  /\ settled' = settled \ {c}
  /\ UNCHANGED <<detector, flags, work, budget, lock, mounting>>

Unplug(c) ==
  /\ c \in plugged
  /\ plugged' = plugged \ {c}
  /\ UNCHANGED <<detector, flags, work, budget, lock, mounting, history, count>>

Mount(v) ==
  /\ v \notin mounted /\ MayPlug
  /\ mounted' = mounted \cup {v}
  /\ settled' = settled \ {v}
  /\ UNCHANGED <<plugged, seen, arrived, sd, detector, flags, work, budget, lock, credit>>

Unmount(v) ==
  /\ v \in mounted
  /\ mounted' = mounted \ {v}
  /\ UNCHANGED <<seen, arrived, sd, detector, flags, work, budget, lock, history, world>>

User == \/ \E c \in Cameras : Plug(c) \/ Unplug(c)
        \/ \E v \in Mounts : Mount(v) \/ Unmount(v)

-----------------------------------------------------------------------------
Next ==
  \/ Poll
  \/ \E t \in Threads : Recompute(t)
  \/ Consume
  \/ SaveFile \/ SaveFlag
  \/ PollMounts \/ OffloadCards
  \/ User

\* Each thread keeps being scheduled and every run ends (WiredOffload, SdOffload); the
\* lock is given to those who wait in the order they came; a camera that is asked again and
\* again, because it answers the probe, answers info() in the end.
Fairness ==
  /\ WF_vars(Poll) /\ \A c \in Cameras : SF_vars(Report(c))
  /\ WF_vars(Consume \/ Recompute("consumer")) /\ SF_vars(LockWired)
  /\ WF_vars(SaveFlag \/ Recompute("saver"))
  /\ WF_vars(PollMounts) /\ WF_vars(OffloadCards) /\ SF_vars(LockSd)

Spec == Init /\ [][Next]_vars
FairSpec == Spec /\ Fairness

-----------------------------------------------------------------------------
(* What ingest promises.                                                   *)

\* One offload plans and copies at a time, card or camera, and it holds the lock.
OneOffloadAtATime ==
  /\ at.consumer \in {"check", "run"} => lock = "wired"
  /\ sd.at = "run" => lock = "sd"

\* A camera that keeps failing is tried again MaxRearms times each time it is plugged in,
\* and then left alone.
RetriesBounded == \A c \in Cameras : credit[c] >= 0

IngestInv == TypeOK /\ RetriesBounded

\* When neither a save nor the consumer is at it, the flag says what the two switches say.
PauseFollowsSwitches ==
  at.consumer \notin Recomputing /\ at.saver \in {"idle"}
    => paused = ShouldPause(active, enabled)

\* A connected camera that is news to the detector at its next tick is offloaded, again
\* after every failure, until a run is clean, the budget is spent, it is unplugged, or
\* wired ingest is turned off.
CameraIsServed ==
  \A c \in Cameras : poller.at = "rest" /\ c \in plugged \ present
                      ~> c \in settled \/ c \notin plugged \/ ~wanted \/ ~enabled

\* A card that is mounted is offloaded, or unmounted.
CardIsServed == \A v \in Cards : v \in mounted \ seen ~> v \in settled \/ v \notin mounted
=============================================================================
