---------------------------- MODULE IngestProofs ----------------------------
(***************************************************************************)
(* Proofs about Ingest, for any cameras, volumes and networks, any budget  *)
(* of retries, and anything that may happen.                               *)
(***************************************************************************)
EXTENDS Ingest, CountingProofs

-----------------------------------------------------------------------------
(* The inductive invariant.                                                *)

\* Whoever is reported answered as a camera.
FiresCameras == poller.at = "fire" => poller.todo \subseteq Cameras

\* Between an event and its end the consumer has a camera.
WorksOnCamera == at.consumer # "recv" => cam \in Cameras

\* A card waits or is offloaded only while the SD side has one.
HasMount == sd.at # "recv" => sd.mount \in Mounts

IngestOrder ==
  /\ TypeOK
  /\ FiresCameras
  /\ WorksOnCamera
  /\ HasMount
  /\ OneOffloadAtATime

-----------------------------------------------------------------------------
\* The address asked on a camera's own link is the camera's.
LEMMA CandidatesAreAddresses ==
  ASSUME plugged \subseteq Cameras
  PROVE  CandidateCameraIps(HostIpv4s) \subseteq Addresses
<1> SUFFICES ASSUME NEW i \in HostIpv4s, i[1] = 172 /\ i[2] \in 20..29 /\ i[4] # 51
             PROVE  [i EXCEPT ![4] = 51] \in Addresses
  BY DEF CandidateCameraIps
<1>1. CASE i \in OtherHosts
  <2>1. [i EXCEPT ![4] = 51] \in {[ip EXCEPT ![4] = 51] : ip \in {k \in OtherHosts : k[1] = 172 /\ k[2] \in 20..29 /\ k[4] # 51}}
    BY <1>1
  <2> QED
    BY <2>1 DEF Addresses, CandidateCameraIps
<1>2. ASSUME NEW c \in plugged, i = Host[c]
      PROVE  [i EXCEPT ![4] = 51] \in Addresses
  BY <1>2, DevicesAssumption DEF Addresses
<1>3. i \in OtherHosts \/ \E c \in plugged : i = Host[c]
  BY DEF HostIpv4s
<1> QED
  BY <1>1, <1>2, <1>3

LEMMA InitInOrder == Init => IngestOrder
<1> SUFFICES ASSUME Init PROVE IngestOrder
  OBVIOUS
<1>1. TypeOK
  <2>1. poller \in Poller
    BY DEF Init, Poller, AtRest
  <2>2. at \in [consumer : ConsumerStep, saver : SaverStep]
    BY DEF Init, ConsumerStep, SaverStep
  <2>3. wanted \in BOOLEAN
    BY DEF Init
  <2>4. streak \in [Cameras -> 0..MaxRearms]
    BY OptionsAssumption DEF Init
  <2>5. count \in [plugs : 0..MaxPlugs, toggles : 0..MaxToggles]
    BY OptionsAssumption DEF Init
  <2>6. found \in Seq(Cameras) /\ arrived \in Seq(Mounts)
    BY DEF Init
  <2>7. saw \in [Threads -> BOOLEAN] /\ credit \in [Cameras -> Int]
        /\ sd \in [at : {"recv", "lock", "run"}, mount : Mounts \cup {None}]
    BY DEF Init
  <2>8. paused \in BOOLEAN /\ active \in BOOLEAN /\ enabled \in BOOLEAN
    BY <2>3 DEF Init, ShouldPause
  <2> QED
    BY <2>1, <2>2, <2>3, <2>4, <2>5, <2>6, <2>7, <2>8 DEF Init, TypeOK
<1>2. FiresCameras /\ WorksOnCamera /\ HasMount /\ OneOffloadAtATime
  BY DEF Init, FiresCameras, WorksOnCamera, HasMount, OneOffloadAtATime, AtRest
<1> QED
  BY <1>1, <1>2 DEF IngestOrder

\* The detector touches neither the lock nor the consumers.
LEMMA PollKeepsOrder ==
  ASSUME IngestOrder, Poll
  PROVE  IngestOrder'
<1> USE DEF IngestOrder
<1>1. UNCHANGED <<flags, work, budget, lock, mounting, history, world>>
  BY DEF Poll, Tick, Edge, EndTick, Probe, Report, GiveUp
<1>2. /\ present' \subseteq Cameras /\ rearm' \subseteq Cameras
      /\ poller' \in Poller /\ found' \in Seq(Cameras)
      /\ FiresCameras'
  <2>1. CASE Tick
    BY <2>1, CandidatesAreAddresses DEF Tick, TypeOK, Poller, FiresCameras
  <2>2. ASSUME NEW c \in Addresses, Probe(c)
        PROVE  /\ present' \subseteq Cameras /\ rearm' \subseteq Cameras
               /\ poller' \in Poller /\ found' \in Seq(Cameras)
               /\ FiresCameras'
    <3>1. PICK answers \in Version(c) :
            poller' = [poller EXCEPT !.todo = @ \ {c},
                                     !.confirmed = IF answers THEN @ \cup {c} ELSE @]
      BY <2>2 DEF Probe
    <3>2. answers \in BOOLEAN /\ (answers => c \in Cameras)
      BY DEF Version, TypeOK
    <3>3. poller' \in Poller /\ poller'.at = "probe"
      BY <2>2, <3>1, <3>2 DEF Probe, TypeOK, Poller
    <3> QED
      BY <2>2, <3>3 DEF Probe, TypeOK, FiresCameras
  <2>3. CASE Edge
    BY <2>3 DEF Edge, TypeOK, Poller, FiresCameras, Addresses
  <2>4. ASSUME NEW c \in Addresses, Report(c)
        PROVE  /\ present' \subseteq Cameras /\ rearm' \subseteq Cameras
               /\ poller' \in Poller /\ found' \in Seq(Cameras)
               /\ FiresCameras'
    <3>1. c \in Cameras
      BY <2>4 DEF Report, FiresCameras
    <3>2. found' \in Seq(Cameras)
      BY <2>4, <3>1 DEF Report, TypeOK
    <3> QED
      BY <2>4, <3>2 DEF Report, TypeOK, Poller, FiresCameras
  <2>5. ASSUME NEW c \in Addresses, GiveUp(c)
        PROVE  /\ present' \subseteq Cameras /\ rearm' \subseteq Cameras
               /\ poller' \in Poller /\ found' \in Seq(Cameras)
               /\ FiresCameras'
    BY <2>5 DEF GiveUp, TypeOK, Poller, FiresCameras
  <2>6. CASE EndTick
    BY <2>6 DEF EndTick, TypeOK, Poller, AtRest, FiresCameras
  <2> QED
    BY <2>1, <2>2, <2>3, <2>4, <2>5, <2>6 DEF Poll
<1>3. TypeOK'
  BY <1>1, <1>2 DEF TypeOK, flags, work, budget, mounting, history, world
<1>4. WorksOnCamera' /\ HasMount' /\ OneOffloadAtATime'
  BY <1>1 DEF WorksOnCamera, HasMount, OneOffloadAtATime, flags, work, mounting
<1> QED
  BY <1>2, <1>3, <1>4

\* Nor does the pause flag.
LEMMA RecomputeKeepsOrder ==
  ASSUME IngestOrder, NEW t \in Threads, Recompute(t)
  PROVE  IngestOrder'
<1> USE DEF IngestOrder
<1>1. UNCHANGED <<active, enabled, wanted, detector, work, budget, lock, mounting, history, world>>
  BY DEF Recompute, LoadActive, LoadEnabled, StorePause
<1>2. /\ at' \in [consumer : ConsumerStep, saver : SaverStep]
      /\ saw' \in [Threads -> BOOLEAN] /\ paused' \in BOOLEAN
      /\ at'.consumer # at.consumer => at.consumer \in Recomputing
                                       /\ at'.consumer \in Recomputing \cup {"lock", "settle"}
  <2>1. CASE LoadActive(t)
    BY <2>1 DEF LoadActive, TypeOK, Threads, ConsumerStep, SaverStep, Recomputing
  <2>2. CASE LoadEnabled(t)
    BY <2>2 DEF LoadEnabled, TypeOK, Threads, ConsumerStep, SaverStep, Recomputing, ShouldPause
  <2>3. CASE StorePause(t)
    BY <2>3 DEF StorePause, TypeOK, Threads, ConsumerStep, SaverStep, Recomputing
  <2> QED
    BY <2>1, <2>2, <2>3 DEF Recompute
<1>3. TypeOK'
  BY <1>1, <1>2 DEF TypeOK, detector, work, budget, mounting, history, world
<1>4. FiresCameras' /\ WorksOnCamera' /\ HasMount' /\ OneOffloadAtATime'
  BY <1>1, <1>2 DEF FiresCameras, WorksOnCamera, HasMount, OneOffloadAtATime, detector, work, mounting,
                    Recomputing
<1> QED
  BY <1>3, <1>4

\* The consumer runs an offload only from where it took the lock to where it gives it back.
LEMMA ConsumeKeepsOrder ==
  ASSUME IngestOrder, Consume
  PROVE  IngestOrder'
<1> USE DEF IngestOrder
<1>1. CASE Receive
  <2>1. Head(found) \in Cameras /\ found' \in Seq(Cameras)
    BY <1>1 DEF Receive, TypeOK
  <2>2. TypeOK'
    <3>1. CASE enabled
      <4>1. streak' \in [Cameras -> 0..MaxRearms]
        <5>1. streak' = NoteEvent(Head(found))
          BY <1>1, <3>1 DEF Receive
        <5>2. streak \in [Cameras -> 0..MaxRearms] /\ 0 \in 0..MaxRearms
          BY OptionsAssumption DEF TypeOK
        <5> QED
          BY <2>1, <5>1, <5>2 DEF NoteEvent
      <4>2. at' \in [consumer : ConsumerStep, saver : SaverStep]
        BY <1>1, <3>1 DEF Receive, TypeOK, ConsumerStep, Recomputing
      <4> QED
        BY <1>1, <2>1, <3>1, <4>1, <4>2 DEF Receive, TypeOK, mounting, history, world
    <3>2. CASE ~enabled
      BY <1>1, <2>1, <3>2 DEF Receive, TypeOK, mounting, history, world
    <3> QED
      BY <3>1, <3>2
  <2>3. FiresCameras' /\ HasMount'
    BY <1>1 DEF Receive, FiresCameras, HasMount, mounting
  <2>4. WorksOnCamera' /\ OneOffloadAtATime'
    BY <1>1, <2>1 DEF Receive, WorksOnCamera, OneOffloadAtATime, TypeOK, mounting
  <2> QED
    BY <2>2, <2>3, <2>4
<1>2. CASE LockWired
  <2>1. TypeOK'
    BY <1>2 DEF LockWired, TypeOK, ConsumerStep, SaverStep, detector, work, budget, mounting, history, world
  <2>2. sd.at # "run"
    BY <1>2, DevicesAssumption DEF LockWired, OneOffloadAtATime
  <2> QED
    BY <1>2, <2>1, <2>2 DEF LockWired, FiresCameras, WorksOnCamera, HasMount, OneOffloadAtATime, TypeOK,
                            detector, work, mounting
<1>3. CASE CheckFails \/ FinishRun
  <2>1. PICK again \in BOOLEAN : EndRun(again)
    BY <1>3 DEF CheckFails, FinishRun, RearmNeeded
  <2>2. /\ at.consumer \in {"check", "run"}
        /\ UNCHANGED <<paused, enabled, wanted, saw, detector, cam, budget, mounting, history, world>>
    BY <1>3 DEF CheckFails, FinishRun
  <2>3. TypeOK'
    BY <2>1, <2>2 DEF EndRun, TypeOK, ConsumerStep, SaverStep, Recomputing, detector, budget, mounting,
                      history, world
  <2>4. sd.at # "run"
    BY <2>2 DEF OneOffloadAtATime
  <2> QED
    BY <2>1, <2>2, <2>3, <2>4 DEF EndRun, FiresCameras, WorksOnCamera, HasMount, OneOffloadAtATime, TypeOK,
                                  detector, mounting
<1>4. CASE StartRun
  <2>1. credit' \in [Cameras -> Int]
    <3>1. cam \in Cameras /\ credit[cam] - 1 \in Int
      BY <1>4 DEF StartRun, TypeOK, WorksOnCamera
    <3> QED
      BY <1>4, <3>1 DEF StartRun, TypeOK
  <2>2. at' \in [consumer : ConsumerStep, saver : SaverStep]
    BY <1>4 DEF StartRun, TypeOK, ConsumerStep
  <2>3. TypeOK'
    BY <1>4, <2>1, <2>2 DEF StartRun, TypeOK, detector, work, budget, mounting, world
  <2> QED
    BY <1>4, <2>3 DEF StartRun, FiresCameras, WorksOnCamera, HasMount, OneOffloadAtATime, TypeOK,
                      detector, work, mounting
<1>5. CASE Settle
  <2>1. cam \in Cameras
    BY <1>5 DEF Settle, WorksOnCamera
  <2>2. streak' \in [Cameras -> 0..MaxRearms]
    BY <1>5, <2>1, OptionsAssumption DEF Settle, TypeOK
  <2>3. TypeOK'
    BY <1>5, <2>1, <2>2 DEF Settle, TypeOK, ConsumerStep, SaverStep, mounting, world
  <2> QED
    BY <1>5, <2>3 DEF Settle, FiresCameras, WorksOnCamera, HasMount, OneOffloadAtATime, TypeOK, mounting
<1> QED
  BY <1>1, <1>2, <1>3, <1>4, <1>5 DEF Consume

\* The SD side does the same with its own.
LEMMA CardsKeepOrder ==
  ASSUME IngestOrder, OffloadCards \/ PollMounts
  PROVE  IngestOrder'
<1> USE DEF IngestOrder
<1>1. UNCHANGED <<detector, flags, work, budget, world, mounted, credit>>
  BY DEF OffloadCards, PollMounts, TakeMount, LockSd, FinishSd, history
<1>2. /\ sd' \in [at : {"recv", "lock", "run"}, mount : Mounts \cup {None}]
      /\ seen' \subseteq Mounts /\ arrived' \in Seq(Mounts)
      /\ lock' \in {"wired", "sd", None} /\ settled' \subseteq Cameras \cup Mounts
      /\ HasMount' /\ OneOffloadAtATime'
  <2>1. CASE PollMounts
    <3>1. PICK new \in SetToSeqs(mounted \ seen) : arrived' = arrived \o new
      BY <2>1 DEF PollMounts
    <3>2. new \in Seq(mounted \ seen)
      <4>1. Cardinality(mounted \ seen) \in Nat
        BY DevicesAssumption, FS_Subset, FS_CardinalityType DEF TypeOK
      <4>2. new \in [1..Cardinality(mounted \ seen) -> mounted \ seen]
        BY DEF SetToSeqs
      <4>3. ASSUME NEW n \in Nat, NEW S, NEW f \in [1..n -> S]
            PROVE  f \in Seq(S)
        OBVIOUS
      <4> QED
        BY <4>1, <4>2, <4>3
    <3>3. new \in Seq(Mounts)
      BY <3>2 DEF TypeOK
    <3>4. arrived' \in Seq(Mounts)
      BY <3>1, <3>3 DEF TypeOK
    <3> QED
      BY <2>1, <3>4 DEF PollMounts, TypeOK, HasMount, OneOffloadAtATime, flags, history
  <2>2. CASE TakeMount
    <3>1. Head(arrived) \in Mounts /\ arrived' \in Seq(Mounts)
      BY <2>2 DEF TakeMount, TypeOK
    <3> QED
      BY <2>2, <3>1 DEF TakeMount, TypeOK, HasMount, OneOffloadAtATime, flags, history
  <2>3. CASE LockSd
    <3>1. at.consumer \notin {"check", "run"}
      BY <2>3, DevicesAssumption DEF LockSd, OneOffloadAtATime
    <3> QED
      BY <2>3, <3>1 DEF LockSd, TypeOK, HasMount, OneOffloadAtATime, flags, history
  <2>4. CASE FinishSd
    <3>1. at.consumer \notin {"check", "run"}
      BY <2>4 DEF FinishSd, OneOffloadAtATime
    <3> QED
      BY <2>4, <3>1 DEF FinishSd, TypeOK, HasMount, OneOffloadAtATime, flags
  <2> QED
    BY <2>1, <2>2, <2>3, <2>4 DEF OffloadCards
<1>3. TypeOK'
  BY <1>1, <1>2 DEF TypeOK, detector, flags, work, budget, world
<1>4. FiresCameras' /\ WorksOnCamera'
  BY <1>1 DEF FiresCameras, WorksOnCamera, detector, flags, work
<1> QED
  BY <1>2, <1>3, <1>4

LEMMA CountsStayBounded ==
  ASSUME count \in [plugs : 0..MaxPlugs, toggles : 0..MaxToggles],
         \/ UNCHANGED count
         \/ MayPlug
         \/ count.toggles < MaxToggles /\ count' = [count EXCEPT !.toggles = @ + 1]
  PROVE  count' \in [plugs : 0..MaxPlugs, toggles : 0..MaxToggles]
<1>1. CASE UNCHANGED count
  BY <1>1
<1>2. CASE MayPlug
  BY <1>2, OptionsAssumption DEF MayPlug
<1>3. CASE count.toggles < MaxToggles /\ count' = [count EXCEPT !.toggles = @ + 1]
  BY <1>3, OptionsAssumption
<1> QED
  BY <1>1, <1>2, <1>3

\* What the user does changes nothing an offload holds.
LEMMA UserKeepsOrder ==
  ASSUME IngestOrder, User \/ SaveFile \/ SaveFlag
  PROVE  IngestOrder'
<1> USE DEF IngestOrder
<1>1. UNCHANGED <<detector, work, lock, sd, at.consumer>>
  BY DEF User, Plug, Unplug, Mount, Unmount, MayPlug, SaveFile, SaveFlag, flags, mounting, TypeOK
<1>2. TypeOK'
  <2>1. ASSUME NEW c \in Cameras, Plug(c) \/ Unplug(c)
        PROVE  TypeOK'
    <3>1. count' \in [plugs : 0..MaxPlugs, toggles : 0..MaxToggles]
      BY <2>1, CountsStayBounded DEF Plug, Unplug, TypeOK
    <3>2. credit' \in [Cameras -> Int]
      BY <2>1, OptionsAssumption DEF Plug, Unplug, TypeOK, history
    <3>3. plugged' \subseteq Cameras /\ settled' \subseteq Cameras \cup Mounts
      BY <2>1 DEF Plug, Unplug, TypeOK, history
    <3>4. UNCHANGED <<detector, flags, work, budget, lock, mounting>>
      BY <2>1 DEF Plug, Unplug
    <3> QED
      BY <3>1, <3>2, <3>3, <3>4 DEF TypeOK, detector, flags, work, budget, mounting
  <2>2. ASSUME NEW v \in Mounts, Mount(v) \/ Unmount(v)
        PROVE  TypeOK'
    <3>1. count' \in [plugs : 0..MaxPlugs, toggles : 0..MaxToggles]
      BY <2>2, CountsStayBounded DEF Mount, Unmount, TypeOK, world
    <3>2. mounted' \subseteq Mounts /\ settled' \subseteq Cameras \cup Mounts
      BY <2>2 DEF Mount, Unmount, TypeOK, history
    <3>3. UNCHANGED <<detector, flags, work, budget, lock, seen, arrived, sd, credit, plugged>>
      BY <2>2 DEF Mount, Unmount, history, world
    <3> QED
      BY <3>1, <3>2, <3>3 DEF TypeOK, detector, flags, work, budget
  <2>3. CASE SaveFile \/ SaveFlag
    <3>1. count' \in [plugs : 0..MaxPlugs, toggles : 0..MaxToggles]
      BY <2>3, CountsStayBounded DEF SaveFile, SaveFlag, TypeOK, world
    <3>2. /\ wanted' \in BOOLEAN /\ enabled' \in BOOLEAN
          /\ at' \in [consumer : ConsumerStep, saver : SaverStep]
      BY <2>3 DEF SaveFile, SaveFlag, TypeOK, SaverStep, Recomputing
    <3>3. UNCHANGED <<paused, active, saw, detector, work, budget, lock, mounting, history, plugged>>
      BY <2>3 DEF SaveFile, SaveFlag, world
    <3> QED
      BY <3>1, <3>2, <3>3 DEF TypeOK, detector, work, budget, mounting, history
  <2> QED
    BY <2>1, <2>2, <2>3 DEF User
<1>3. FiresCameras' /\ WorksOnCamera' /\ HasMount' /\ OneOffloadAtATime'
  BY <1>1 DEF FiresCameras, WorksOnCamera, HasMount, OneOffloadAtATime, detector, work
<1> QED
  BY <1>2, <1>3

LEMMA StepKeepsIngestOrder ==
  ASSUME IngestOrder, [Next]_vars
  PROVE  IngestOrder'
<1>1. CASE UNCHANGED vars
  BY <1>1 DEF vars, IngestOrder, TypeOK, FiresCameras, WorksOnCamera, HasMount, OneOffloadAtATime
<1> QED
  BY <1>1, PollKeepsOrder, RecomputeKeepsOrder, ConsumeKeepsOrder, CardsKeepOrder, UserKeepsOrder DEF Next

-----------------------------------------------------------------------------
\* Every variable keeps its type; in particular no streak of retries exceeds MaxRearms.
THEOREM IngestIsTyped == Spec => []TypeOK
<1>1. IngestOrder /\ [Next]_vars => IngestOrder'
  BY StepKeepsIngestOrder
<1>2. IngestOrder => TypeOK
  BY DEF IngestOrder
<1> QED
  BY <1>1, <1>2, InitInOrder, PTL DEF Spec

\* Card and camera are never offloaded at the same time, however the two sides wait for
\* the lock, runs fail, and the user saves or plugs beside them (handle_mount,
\* run_wired_offload_for_camera).
THEOREM OffloadsExclude == Spec => []OneOffloadAtATime
<1>1. IngestOrder /\ [Next]_vars => IngestOrder'
  BY StepKeepsIngestOrder
<1>2. IngestOrder => OneOffloadAtATime
  BY DEF IngestOrder
<1> QED
  BY <1>1, <1>2, InitInOrder, PTL DEF Spec
-----------------------------------------------------------------------------
(* The budget of retries.  Each time a camera is plugged in it may be      *)
(* reported once more and, for each report that is not a retry, offloaded  *)
(* 1 + MaxRearms times.  A replug is known by its report alone, so the     *)
(* bound needs an account of the reports that are still to come.           *)

\* The cameras that answer on a network the detector asks.
Reachable == CandidateCameraIps({Host[c] : c \in Cameras} \cup OtherHosts)

DetectsReachable ==
  /\ present \cup poller.confirmed \subseteq Reachable
  /\ poller.at = "probe" => poller.todo \subseteq Reachable

\* The two steps where the consumer recomputes the flag are told apart by active.
StepsInOrder ==
  /\ at.consumer = "recv" <=> cam = None
  /\ at.consumer \in {"lock", "check", "run"} => active
  /\ at.consumer \in {"recv", "settle"} => ~active

\* The camera is reported by this tick if nothing happens to it.
BeingReported(c) ==
  \/ /\ poller.at = "probe" /\ c \notin present
     /\ c \in poller.confirmed \/ c \in poller.todo \cap plugged
  \/ poller.at = "fire" /\ c \in poller.todo

\* The cameras the next tick takes for known.
Known ==
  IF poller.at = "rest" THEN present
  ELSE poller.confirmed \cup (IF poller.at = "probe" THEN poller.todo ELSE {})

\* It is reported by a later tick: it is new then, or asked for again.
ToBeReported(c) == c \in rearm \/ c \in plugged \ Known

Reports(c) ==
  Occurrences(c, found) + (IF BeingReported(c) THEN 1 ELSE 0)
                        + (IF ToBeReported(c) THEN 1 ELSE 0)

\* The runs that n replugs may bring.
Runs(n) == n * (MaxRearms + 1)

\* Whether the run for the event at hand is still to come.
RunIsAhead == active /\ at.consumer # "run"

\* The runs there may be for c without another plug: the next report of a camera that was
\* re-armed goes on with its streak, every other report begins anew.
Due(c) ==
  IF cam = c
    THEN Runs(Reports(c)) + (MaxRearms - streak[c]) + (IF RunIsAhead THEN 1 ELSE 0)
  ELSE IF c \in rearmed
    THEN 1 + (MaxRearms - streak[c]) + (IF Reports(c) = 0 THEN 0 ELSE Runs(Reports(c) - 1))
    ELSE Runs(Reports(c))

CreditCovers == \A c \in Cameras : credit[c] >= Due(c)

BudgetInv == IngestOrder /\ DetectsReachable /\ StepsInOrder /\ CreditCovers

-----------------------------------------------------------------------------
LEMMA RunsGrow ==
  /\ Runs(0) = 0
  /\ \A n \in Nat : Runs(n) \in Nat /\ Runs(n + 1) = Runs(n) + MaxRearms + 1
  /\ \A m, n \in Nat : m <= n => Runs(m) <= Runs(n)
<1>1. MaxRearms \in Nat BY OptionsAssumption
<1>2. Runs(0) = 0 BY <1>1 DEF Runs
<1>3. ASSUME NEW n \in Nat PROVE Runs(n) \in Nat /\ Runs(n + 1) = Runs(n) + MaxRearms + 1
  BY <1>1 DEF Runs
<1>4. ASSUME NEW m \in Nat, NEW n \in Nat, m <= n PROVE Runs(m) <= Runs(n)
  <2> DEFINE k == n - m
  <2>1. k \in Nat /\ n = m + k BY <1>4
  <2> HIDE DEF k
  <2>2. n * (MaxRearms + 1) = m * (MaxRearms + 1) + k * (MaxRearms + 1) BY <1>1, <2>1
  <2>3. k * (MaxRearms + 1) \in Nat /\ m * (MaxRearms + 1) \in Nat BY <1>1, <2>1
  <2> QED BY <2>2, <2>3 DEF Runs
<1> QED BY <1>2, <1>3, <1>4

LEMMA ReportsCount ==
  ASSUME TypeOK, NEW c \in Cameras
  PROVE  Reports(c) \in Nat /\ Occurrences(c, found) \in Nat
<1>1. found \in Seq(Cameras) BY DEF TypeOK
<1>2. Occurrences(c, found) \in Nat BY <1>1, OccurrencesCount
<1> QED BY <1>2 DEF Reports

\* Fewer reports, and no other run ahead: what was covered is covered.
LEMMA FewerReports ==
  ASSUME TypeOK, TypeOK', NEW c \in Cameras, credit[c] >= Due(c),
         credit'[c] >= credit[c], Reports(c)' <= Reports(c),
         UNCHANGED <<cam, rearmed, streak>>, RunIsAhead' => RunIsAhead
  PROVE  credit'[c] >= Due(c)'
<1>1. Reports(c) \in Nat /\ Reports(c)' \in Nat
  <2>1. Reports(c)' \in Nat
    <3>1. found' \in Seq(Cameras) BY DEF TypeOK
    <3>2. Occurrences(c, found') \in Nat BY <3>1, OccurrencesCount
    <3> QED BY <3>2 DEF Reports
  <2> QED BY <2>1, ReportsCount
<1> DEFINE n == Reports(c)
           m == Reports(c)'
<1>2. n \in Nat /\ m \in Nat /\ m <= n BY <1>1
<1>3. /\ Runs(m) \in Nat /\ Runs(n) \in Nat /\ Runs(m) <= Runs(n)
      /\ m # 0 => /\ Runs(m - 1) \in Nat /\ Runs(n - 1) \in Nat /\ Runs(m - 1) <= Runs(n - 1)
  <2> HIDE DEF m, n
  <2>1. Runs(m) \in Nat /\ Runs(n) \in Nat /\ Runs(m) <= Runs(n) BY <1>2, RunsGrow
  <2>2. m # 0 => m - 1 \in Nat /\ n - 1 \in Nat /\ m - 1 <= n - 1 BY <1>2
  <2> QED BY <2>1, <2>2, RunsGrow
<1>4. /\ credit[c] \in Int /\ credit'[c] \in Int /\ streak[c] \in Nat /\ MaxRearms \in Nat
  BY OptionsAssumption DEF TypeOK
<1>5. /\ Due(c) = IF cam = c THEN Runs(n) + (MaxRearms - streak[c]) + (IF RunIsAhead THEN 1 ELSE 0)
                  ELSE IF c \in rearmed
                    THEN 1 + (MaxRearms - streak[c]) + (IF n = 0 THEN 0 ELSE Runs(n - 1))
                    ELSE Runs(n)
      /\ Due(c)' = IF cam = c THEN Runs(m) + (MaxRearms - streak[c]) + (IF RunIsAhead' THEN 1 ELSE 0)
                   ELSE IF c \in rearmed
                     THEN 1 + (MaxRearms - streak[c]) + (IF m = 0 THEN 0 ELSE Runs(m - 1))
                     ELSE Runs(m)
  BY DEF Due, Runs
<1>6. n # 0 => Runs(n - 1) \in Nat
  <2> HIDE DEF n
  <2> QED BY <1>2, RunsGrow
<1> HIDE DEF m, n
<1>7. CASE cam = c BY <1>3, <1>4, <1>5, <1>7
<1>8. CASE cam # c /\ c \in rearmed
  <2>1. CASE m = 0 BY <1>2, <1>3, <1>4, <1>5, <1>6, <1>8, <2>1
  <2>2. CASE m # 0 BY <1>2, <1>3, <1>4, <1>5, <1>8, <2>2
  <2> QED BY <2>1, <2>2
<1>9. CASE cam # c /\ c \notin rearmed BY <1>3, <1>4, <1>5, <1>9
<1> QED BY <1>7, <1>8, <1>9

-----------------------------------------------------------------------------
LEMMA AskedAtItsNetwork ==
  ASSUME NEW Networks, NEW ip \in Networks, ip[1] = 172, ip[2] \in 20..29, ip[4] # 51
  PROVE  [ip EXCEPT ![4] = 51] \in CandidateCameraIps(Networks)
<1> DEFINE Asked == {i \in Networks : i[1] = 172 /\ i[2] \in 20..29 /\ i[4] # 51}
           AskedAt(i) == [i EXCEPT ![4] = 51]
<1>1. ip \in Asked OBVIOUS
<1>2. CandidateCameraIps(Networks) = {AskedAt(i) : i \in Asked}
  BY DEF CandidateCameraIps
<1>3. AskedAt(ip) \in {AskedAt(i) : i \in Asked}
  <2> HIDE DEF Asked, AskedAt
  <2> QED BY <1>1
<1> QED BY ZenonT(40), <1>2, <1>3

\* A tick asks for every connected camera that can be asked for, and for nothing else.
LEMMA PluggedAreAsked ==
  ASSUME plugged \subseteq Cameras
  PROVE  /\ CandidateCameraIps(HostIpv4s) \subseteq Reachable
         /\ plugged \cap Reachable \subseteq CandidateCameraIps(HostIpv4s)
<1> DEFINE Networks == {Host[c] : c \in Cameras} \cup OtherHosts
<1>1. HostIpv4s \subseteq Networks BY DEF HostIpv4s
<1>2. CandidateCameraIps(HostIpv4s) \subseteq CandidateCameraIps(Networks)
  <2> HIDE DEF Networks
  <2> QED BY <1>1 DEF CandidateCameraIps
<1>3. ASSUME NEW c \in plugged, c \in Reachable
      PROVE  c \in CandidateCameraIps(HostIpv4s)
  <2>1. PICK ip \in Networks : /\ ip[1] = 172 /\ ip[2] \in 20..29 /\ ip[4] # 51
                               /\ c = [ip EXCEPT ![4] = 51]
    BY <1>3 DEF Reachable, CandidateCameraIps
  <2>2. ip \in HostIpv4s
    <3>1. CASE ip \in OtherHosts BY <3>1 DEF HostIpv4s
    <3>2. ASSUME NEW d \in Cameras, ip = Host[d] PROVE ip \in HostIpv4s
      <4>1. c = d BY <2>1, <3>2, DevicesAssumption
      <4> QED BY <3>2, <4>1 DEF HostIpv4s
    <3> QED BY <2>1, <3>1, <3>2
  <2> QED BY ZenonT(40), <2>1, <2>2, AskedAtItsNetwork
<1> QED BY <1>2, <1>3 DEF Reachable

LEMMA StepDetectsReachable ==
  ASSUME IngestOrder, DetectsReachable, [Next]_vars
  PROVE  DetectsReachable'
<1> USE DEF IngestOrder
<1>1. CASE Tick
  <2>1. CandidateCameraIps(HostIpv4s) \subseteq Reachable BY PluggedAreAsked DEF TypeOK
  <2> QED BY <1>1, <2>1 DEF Tick, DetectsReachable, Reachable
<1>2. CASE Edge BY <1>2 DEF Edge, DetectsReachable, TypeOK, Poller, Reachable
<1>3. CASE EndTick BY <1>3 DEF EndTick, DetectsReachable, AtRest, Reachable
<1>4. ASSUME NEW c \in Addresses, Probe(c) \/ Report(c) \/ GiveUp(c)
      PROVE  DetectsReachable'
  <2>1. /\ poller'.at = poller.at /\ poller'.todo \subseteq poller.todo /\ UNCHANGED present
        /\ poller'.confirmed \subseteq poller.confirmed \cup (IF poller.at = "probe" THEN {c} ELSE {})
        /\ c \in poller.todo
    <3>1. CASE Probe(c)
      <4>1. PICK answers \in Version(c) :
              poller' = [poller EXCEPT !.todo = @ \ {c},
                                       !.confirmed = IF answers THEN @ \cup {c} ELSE @]
        BY <3>1 DEF Probe
      <4> QED BY <3>1, <4>1 DEF Probe, TypeOK, Poller
    <3>2. CASE Report(c) BY <3>2 DEF Report, TypeOK, Poller
    <3>3. CASE GiveUp(c) BY <3>3 DEF GiveUp, TypeOK, Poller
    <3> QED BY <1>4, <3>1, <3>2, <3>3
  <2> QED BY <2>1 DEF DetectsReachable, Reachable
<1>5. CASE UNCHANGED <<present, poller>> BY <1>5 DEF DetectsReachable, Reachable
<1>6. CASE \E t \in Threads : Recompute(t)
  BY <1>5, <1>6 DEF Recompute, LoadActive, LoadEnabled, StorePause, detector
<1>7. CASE Consume
  BY <1>5, <1>7 DEF Consume, Receive, LockWired, CheckFails, StartRun, FinishRun, Settle, detector
<1>8. CASE SaveFile \/ SaveFlag \/ PollMounts \/ OffloadCards \/ User
  BY <1>5, <1>8 DEF SaveFile, SaveFlag, PollMounts, OffloadCards, TakeMount, LockSd, FinishSd,
                    User, Plug, Unplug, Mount, Unmount, detector
<1>9. CASE UNCHANGED vars BY <1>5, <1>9 DEF vars
<1> QED BY <1>1, <1>2, <1>3, <1>4, <1>6, <1>7, <1>8, <1>9 DEF Next, Poll

LEMMA StepKeepsSteps ==
  ASSUME IngestOrder, StepsInOrder, [Next]_vars
  PROVE  StepsInOrder'
<1> USE DEF IngestOrder
<1>0. None \notin Cameras BY DevicesAssumption
<1>1. CASE UNCHANGED <<at, cam, active>> BY <1>1 DEF StepsInOrder
<1>2. CASE Poll
  BY <1>1, <1>2 DEF Poll, Tick, Edge, EndTick, Probe, Report, GiveUp, flags, work
<1>3. ASSUME NEW t \in Threads, Recompute(t) PROVE StepsInOrder'
  <2>1. UNCHANGED <<cam, active>>
    BY <1>3 DEF Recompute, LoadActive, LoadEnabled, StorePause, work
  <2>2. \/ at'.consumer = at.consumer
        \/ at.consumer \in Recomputing /\ at'.consumer \in {"loadEnabled", "storePause"}
        \/ at.consumer = "storePause" /\ at'.consumer = IF active THEN "lock" ELSE "settle"
    BY <1>3 DEF Recompute, LoadActive, LoadEnabled, StorePause, TypeOK, Threads, Recomputing
  <2> QED BY <2>1, <2>2 DEF StepsInOrder, Recomputing
<1>4. CASE Receive
  <2>1. Head(found) \in Cameras BY <1>4 DEF Receive, TypeOK
  <2> QED BY <1>0, <1>4, <2>1 DEF Receive, StepsInOrder, TypeOK
<1>5. CASE LockWired \/ StartRun
  BY <1>5 DEF LockWired, StartRun, StepsInOrder, TypeOK, work
<1>6. CASE CheckFails \/ FinishRun
  BY <1>6 DEF CheckFails, FinishRun, EndRun, StepsInOrder, TypeOK
<1>7. CASE Settle BY <1>7 DEF Settle, StepsInOrder, TypeOK
<1>8. CASE SaveFile \/ SaveFlag
  BY <1>8 DEF SaveFile, SaveFlag, StepsInOrder, TypeOK, work
<1>9. CASE PollMounts \/ OffloadCards \/ User
  BY <1>1, <1>9 DEF PollMounts, OffloadCards, TakeMount, LockSd, FinishSd,
                    User, Plug, Unplug, Mount, Unmount, flags, work
<1>10. CASE UNCHANGED vars BY <1>1, <1>10 DEF vars
<1> QED BY <1>2, <1>3, <1>4, <1>5, <1>6, <1>7, <1>8, <1>9, <1>10 DEF Next, Consume

-----------------------------------------------------------------------------
\* A tick reports nothing twice: what it takes up it no longer owes.
LEMMA PollReports ==
  ASSUME IngestOrder, DetectsReachable, "probeMiss" \notin Events, Poll, NEW c \in Cameras
  PROVE  Reports(c)' <= Reports(c)
<1> USE DEF IngestOrder
<1>0. Occurrences(c, found) \in Nat BY ReportsCount
<1>1. ASSUME UNCHANGED found, BeingReported(c)' => BeingReported(c), ToBeReported(c)' => ToBeReported(c)
      PROVE  Reports(c)' <= Reports(c)
  BY <1>0, <1>1 DEF Reports
<1>2. CASE Tick
  <2>1. ~BeingReported(c) BY <1>2 DEF Tick, BeingReported
  <2>2. plugged \cap Reachable \subseteq poller'.todo
    BY <1>2, PluggedAreAsked DEF Tick, TypeOK
  <2>3. /\ UNCHANGED <<found, plugged>> /\ present' = present \ rearm /\ rearm' = {}
        /\ poller'.at = "probe" /\ poller'.confirmed = {}
        /\ ToBeReported(c) <=> c \in rearm \/ c \in plugged \ present
    BY <1>2 DEF Tick, ToBeReported, Known, world
  <2>4. BeingReported(c)' => ToBeReported(c) /\ ~ToBeReported(c)'
    BY <2>3 DEF BeingReported, ToBeReported, Known
  <2>5. ToBeReported(c)' => ToBeReported(c) /\ ~BeingReported(c)'
    <3>1. ToBeReported(c)' => c \in plugged \ poller'.todo
      BY <2>3 DEF ToBeReported, Known
    <3>2. present \subseteq Reachable BY DEF DetectsReachable
    <3> QED BY <2>2, <2>3, <2>4, <3>1, <3>2
  <2> QED BY <1>0, <2>1, <2>3, <2>4, <2>5 DEF Reports
<1>3. CASE Edge
  BY <1>1, <1>3 DEF Edge, BeingReported, ToBeReported, Known, TypeOK, Poller, world
<1>4. CASE EndTick
  BY <1>1, <1>4 DEF EndTick, BeingReported, ToBeReported, Known, AtRest, world
<1>5. ASSUME NEW d \in Addresses, Probe(d) PROVE Reports(c)' <= Reports(c)
  <2>1. /\ poller' = [poller EXCEPT !.todo = @ \ {d},
                                    !.confirmed = IF d \in plugged THEN @ \cup {d} ELSE @]
        /\ poller.at = "probe" /\ d \in poller.todo
        /\ UNCHANGED <<present, rearm, found, plugged>>
    BY <1>5 DEF Probe, Version, world
  <2>2. /\ poller'.at = "probe" /\ poller'.todo = poller.todo \ {d}
        /\ poller'.confirmed = IF d \in plugged THEN poller.confirmed \cup {d} ELSE poller.confirmed
    BY <2>1 DEF TypeOK, Poller
  <2> QED BY <1>1, <2>1, <2>2 DEF BeingReported, ToBeReported, Known
<1>6. ASSUME NEW d \in Addresses, Report(d) PROVE Reports(c)' <= Reports(c)
  <2>1. /\ found' = Append(found, d) /\ UNCHANGED <<present, rearm, plugged>>
        /\ poller.at = "fire" /\ d \in poller.todo
        /\ poller'.at = "fire" /\ poller'.todo = poller.todo \ {d}
        /\ poller'.confirmed = poller.confirmed
    BY <1>6 DEF Report, TypeOK, Poller, world
  <2>2. d \in Cameras /\ found \in Seq(Cameras) BY <2>1 DEF FiresCameras, TypeOK
  <2>3. Occurrences(c, found') = Occurrences(c, found) + (IF d = c THEN 1 ELSE 0)
    BY <2>1, <2>2, OccurrencesAppend
  <2>4. ToBeReported(c)' <=> ToBeReported(c) BY <2>1 DEF ToBeReported, Known
  <2>5. BeingReported(c)' <=> BeingReported(c) /\ d # c BY <2>1 DEF BeingReported
  <2>6. d = c => BeingReported(c) BY <2>1 DEF BeingReported
  <2> QED BY <1>0, <2>3, <2>4, <2>5, <2>6 DEF Reports
<1>7. ASSUME NEW d \in Addresses, GiveUp(d) PROVE Reports(c)' <= Reports(c)
  <2>1. /\ UNCHANGED <<present, rearm, plugged, found>>
        /\ poller.at = "fire" /\ d \in poller.todo
        /\ poller'.at = "fire" /\ poller'.todo = poller.todo \ {d}
        /\ poller'.confirmed = poller.confirmed \ {d}
    BY <1>7 DEF GiveUp, TypeOK, Poller, world
  <2>2. BeingReported(c)' <=> BeingReported(c) /\ d # c BY <2>1 DEF BeingReported
  <2>3. d = c => BeingReported(c) BY <2>1 DEF BeingReported
  <2>4. d # c => (ToBeReported(c)' <=> ToBeReported(c)) BY <2>1 DEF ToBeReported, Known
  <2> QED BY <1>0, <2>1, <2>2, <2>3, <2>4 DEF Reports
<1> QED BY <1>2, <1>3, <1>4, <1>5, <1>6, <1>7 DEF Poll

\* Whoever neither detects, plugs in nor settles adds no report.
LEMMA OthersReport ==
  ASSUME TypeOK, UNCHANGED <<found, poller, present, rearm>>, plugged' \subseteq plugged,
         NEW c \in Cameras
  PROVE  Reports(c)' <= Reports(c)
<1>1. Occurrences(c, found) \in Nat BY ReportsCount
<1>2. (BeingReported(c)' => BeingReported(c)) /\ (ToBeReported(c)' => ToBeReported(c))
  BY DEF BeingReported, ToBeReported, Known
<1> QED BY <1>1, <1>2 DEF Reports


\* What each report is worth, in the forms the steps need.
LEMMA DueOf ==
  ASSUME IngestOrder, NEW c \in Cameras, NEW n \in Nat, n = Reports(c)
  PROVE  /\ cam = c => Due(c) = Runs(n) + (MaxRearms - streak[c]) + (IF RunIsAhead THEN 1 ELSE 0)
         /\ cam # c /\ c \in rearmed =>
              Due(c) = 1 + (MaxRearms - streak[c]) + (IF n = 0 THEN 0 ELSE Runs(n - 1))
         /\ cam # c /\ c \notin rearmed => Due(c) = Runs(n)
         /\ MaxRearms \in Nat /\ streak[c] \in Nat /\ streak[c] <= MaxRearms
         /\ credit[c] \in Int /\ Runs(n) \in Nat /\ Runs(n + 1) = Runs(n) + MaxRearms + 1
         /\ n # 0 => /\ n - 1 \in Nat /\ Runs(n - 1) \in Nat
                     /\ Runs(n) = Runs(n - 1) + MaxRearms + 1
<1>1. /\ cam = c => Due(c) = Runs(n) + (MaxRearms - streak[c]) + (IF RunIsAhead THEN 1 ELSE 0)
      /\ cam # c /\ c \in rearmed =>
           Due(c) = 1 + (MaxRearms - streak[c]) + (IF n = 0 THEN 0 ELSE Runs(n - 1))
      /\ cam # c /\ c \notin rearmed => Due(c) = Runs(n)
  BY DEF Due
<1>2. /\ MaxRearms \in Nat /\ streak[c] \in Nat /\ streak[c] <= MaxRearms /\ credit[c] \in Int
  BY OptionsAssumption DEF IngestOrder, TypeOK
<1>3. n # 0 => n - 1 \in Nat /\ (n - 1) + 1 = n OBVIOUS
<1> QED BY <1>1, <1>2, <1>3, RunsGrow

\* The event taken from the queue becomes the run that is ahead.
LEMMA ReceiveCovers ==
  ASSUME IngestOrder, IngestOrder', StepsInOrder, Receive, NEW c \in Cameras, credit[c] >= Due(c)
  PROVE  credit'[c] >= Due(c)'
<1> DEFINE n == Reports(c)
           m == Reports(c)'
           h == Head(found)
<1>1. found \in Seq(Cameras) /\ found # <<>> /\ h \in Cameras
  BY DEF Receive, IngestOrder, TypeOK
<1>2. Occurrences(c, found) = Occurrences(c, found') + (IF h = c THEN 1 ELSE 0)
  BY <1>1, OccurrencesTail DEF Receive
<1>3. Occurrences(c, found') \in Nat /\ m \in Nat /\ n \in Nat
  <2>1. found' \in Seq(Cameras) BY DEF IngestOrder, TypeOK
  <2>2. Occurrences(c, found') \in Nat BY <2>1, OccurrencesCount
  <2> QED BY <1>2, <2>2 DEF Reports
<1>4. n = m + (IF h = c THEN 1 ELSE 0)
  <2>1. UNCHANGED <<present, rearm, poller, plugged>> BY DEF Receive, world
  <2>2. (BeingReported(c)' <=> BeingReported(c)) /\ (ToBeReported(c)' <=> ToBeReported(c))
    BY <2>1 DEF BeingReported, ToBeReported, Known
  <2> QED BY <1>2, <1>3, <2>2 DEF Reports
<1>5. UNCHANGED credit /\ rearmed' = rearmed /\ credit[c] \in Int
  BY DEF Receive, history, IngestOrder, TypeOK
<1>6. CASE ~enabled
  <2>1. UNCHANGED <<cam, rearmed, streak, active, at>> BY <1>6 DEF Receive
  <2>2. m <= n BY <1>3, <1>4
  <2>3. RunIsAhead' => RunIsAhead BY <2>1 DEF RunIsAhead
  <2> QED BY <1>5, <2>1, <2>2, <2>3, FewerReports DEF IngestOrder
<1>7. CASE enabled
  <2>1. /\ cam' = h /\ streak' = NoteEvent(h) /\ active' /\ at'.consumer = "loadActive"
        /\ cam \notin Cameras
    BY <1>7, DevicesAssumption DEF Receive, StepsInOrder, IngestOrder, TypeOK
  <2>2. streak'[c] = IF c = h /\ c \notin rearmed THEN 0 ELSE streak[c]
    BY SMTT(40), <1>1, <2>1 DEF NoteEvent, IngestOrder, TypeOK
  <2>3. RunIsAhead' BY <2>1 DEF RunIsAhead
  <2>4. /\ cam' = c => Due(c)' = Runs(m) + (MaxRearms - streak'[c]) + 1
        /\ cam' # c /\ c \in rearmed =>
             Due(c)' = 1 + (MaxRearms - streak'[c]) + (IF m = 0 THEN 0 ELSE Runs(m - 1))
        /\ cam' # c /\ c \notin rearmed => Due(c)' = Runs(m)
    BY <1>5, <2>3 DEF Due, Runs
  <2>5. /\ c \in rearmed =>
             Due(c) = 1 + (MaxRearms - streak[c]) + (IF n = 0 THEN 0 ELSE Runs(n - 1))
        /\ c \notin rearmed => Due(c) = Runs(n)
        /\ MaxRearms \in Nat /\ streak[c] \in Nat
        /\ n # 0 => Runs(n) = Runs(n - 1) + MaxRearms + 1 /\ Runs(n - 1) \in Nat
        /\ Runs(n) \in Nat
    <3> HIDE DEF n, m, h
    <3>1. n = Reports(c) BY DEF n
    <3> QED BY <1>3, <2>1, <3>1, DueOf
  <2>6. CASE c = h
    <3>1. n - 1 = m /\ n # 0 BY <1>3, <1>4, <2>6
    <3>2. Runs(m) = Runs(n - 1) BY <3>1
    <3>3. Due(c)' = Runs(m) + (MaxRearms - streak'[c]) + 1 BY <2>1, <2>4, <2>6
    <3>4. CASE c \in rearmed
      BY <1>5, <2>2, <2>5, <3>1, <3>2, <3>3, <3>4
    <3>5. CASE c \notin rearmed
      <4>1. streak'[c] = 0 BY <2>2, <2>6, <3>5
      <4>2. credit[c] >= Runs(n - 1) + MaxRearms + 1 BY <2>5, <3>1, <3>5
      <4> QED BY <1>5, <2>5, <3>1, <3>2, <3>3, <4>1, <4>2
    <3> QED BY <3>4, <3>5
  <2>7. CASE c # h
    <3>1. m = n BY <1>3, <1>4, <2>7
    <3>2. Due(c)' = Due(c) BY <2>1, <2>2, <2>4, <2>5, <2>7, <3>1
    <3> QED BY <1>5, <3>2
  <2> QED BY <2>6, <2>7
<1> QED BY <1>6, <1>7

\* A run that starts is paid for.
LEMMA StartRunCovers ==
  ASSUME IngestOrder, IngestOrder', StepsInOrder, StartRun, NEW c \in Cameras, credit[c] >= Due(c)
  PROVE  credit'[c] >= Due(c)'
<1> DEFINE n == Reports(c)
<1>1. n \in Nat /\ Reports(c)' = n
  <2>1. UNCHANGED <<present, rearm, poller, plugged, found>>
    BY DEF StartRun, detector, world
  <2>2. (BeingReported(c)' <=> BeingReported(c)) /\ (ToBeReported(c)' <=> ToBeReported(c))
    BY <2>1 DEF BeingReported, ToBeReported, Known
  <2> QED BY <2>1, <2>2, ReportsCount DEF Reports, IngestOrder
<1>2. /\ UNCHANGED <<cam, streak, rearmed, active>> /\ at.consumer = "check" /\ at'.consumer = "run"
      /\ credit' = [credit EXCEPT ![cam] = @ - 1] /\ cam \in Cameras /\ active
  BY DEF StartRun, work, budget, StepsInOrder, IngestOrder, TypeOK, WorksOnCamera
<1>3. RunIsAhead /\ ~RunIsAhead' BY <1>2 DEF RunIsAhead
<1>4. credit'[c] = IF c = cam THEN credit[c] - 1 ELSE credit[c]
  BY <1>2 DEF IngestOrder, TypeOK
<1>5. /\ cam = c => Due(c)' = Runs(n) + (MaxRearms - streak[c]) + 0
      /\ cam # c => Due(c)' = Due(c)
  <2>1. UNCHANGED <<cam, streak, rearmed>> /\ Reports(c)' = Reports(c) BY <1>1, <1>2
  <2>2. CASE cam = c BY <1>3, <2>1, <2>2 DEF Due, Runs
  <2>3. CASE cam # c BY <2>1, <2>3 DEF Due, Runs
  <2> QED BY <2>2, <2>3
<1>6. /\ cam = c => Due(c) = Runs(n) + (MaxRearms - streak[c]) + 1
      /\ MaxRearms \in Nat /\ streak[c] \in Nat /\ Runs(n) \in Nat /\ credit[c] \in Int
  <2> HIDE DEF n
  <2>1. n = Reports(c) BY DEF n
  <2> QED BY <1>1, <1>3, <2>1, DueOf
<1> HIDE DEF n
<1>7. CASE cam = c BY <1>4, <1>5, <1>6, <1>7
<1>8. CASE cam # c BY <1>4, <1>5, <1>8
<1> QED BY <1>7, <1>8

\* A retry takes one from the budget and brings one report.
LEMMA SettleCovers ==
  ASSUME IngestOrder, IngestOrder', StepsInOrder, Settle, NEW c \in Cameras, credit[c] >= Due(c)
  PROVE  credit'[c] >= Due(c)'
<1> DEFINE n == Reports(c)
           m == Reports(c)'
           again == retry /\ streak[cam] < MaxRearms
<1>1. /\ n \in Nat /\ m \in Nat /\ m <= n + 1
      /\ ~(again /\ cam = c) => m = n
  <2>1. UNCHANGED <<present, poller, plugged, found>> BY DEF Settle, world
  <2>2. BeingReported(c)' <=> BeingReported(c) BY <2>1 DEF BeingReported
  <2>3. rearm' = IF again THEN rearm \cup {cam} ELSE rearm BY DEF Settle
  <2>4. ~(again /\ cam = c) => (c \in rearm' <=> c \in rearm) BY <2>3
  <2>5. ~(again /\ cam = c) => (ToBeReported(c)' <=> ToBeReported(c))
    BY <2>1, <2>4 DEF ToBeReported, Known
  <2>6. Occurrences(c, found) \in Nat BY ReportsCount DEF IngestOrder
  <2> QED BY <2>1, <2>2, <2>5, <2>6 DEF Reports
<1>2. cam \in Cameras /\ ~active /\ ~RunIsAhead
  BY DEF Settle, WorksOnCamera, IngestOrder, StepsInOrder, RunIsAhead
<1>3. /\ cam' # c /\ UNCHANGED credit
      /\ c \in rearmed' <=> IF c = cam THEN again ELSE c \in rearmed
  BY <1>2, DevicesAssumption DEF Settle
<1>4. streak'[c] = IF c # cam THEN streak[c] ELSE IF again THEN streak[c] + 1 ELSE IF retry THEN streak[c] ELSE 0
  BY <1>2 DEF Settle, IngestOrder, TypeOK
<1>5. /\ c \in rearmed' => Due(c)' = 1 + (MaxRearms - streak'[c]) + (IF m = 0 THEN 0 ELSE Runs(m - 1))
      /\ c \notin rearmed' => Due(c)' = Runs(m)
  BY <1>3 DEF Due, Runs
<1>6. /\ cam = c => Due(c) = Runs(n) + (MaxRearms - streak[c])
      /\ cam # c /\ c \in rearmed =>
           Due(c) = 1 + (MaxRearms - streak[c]) + (IF n = 0 THEN 0 ELSE Runs(n - 1))
      /\ cam # c /\ c \notin rearmed => Due(c) = Runs(n)
      /\ MaxRearms \in Nat /\ streak[c] \in Nat /\ streak[c] <= MaxRearms
      /\ Runs(n) \in Nat /\ credit[c] \in Int
  <2> HIDE DEF n, m, again
  <2>1. n = Reports(c) BY DEF n
  <2> QED BY <1>1, <1>2, <2>1, DueOf
<1>7. CASE c # cam
  <2>1. m = n BY <1>1, <1>7
  <2>2. Due(c)' = Due(c) BY <1>3, <1>4, <1>5, <1>6, <1>7, <2>1
  <2> QED BY <1>3, <2>2
<1>8. CASE c = cam /\ again
  <2>1. c \in rearmed' /\ streak'[c] = streak[c] + 1 BY <1>3, <1>4, <1>8
  <2>2. (IF m = 0 THEN 0 ELSE Runs(m - 1)) <= Runs(n) /\ (IF m = 0 THEN 0 ELSE Runs(m - 1)) \in Nat
    <3>1. CASE m = 0 BY <1>6, <3>1
    <3>2. CASE m # 0
      <4>1. m - 1 \in Nat /\ m - 1 <= n BY <1>1, <3>2
      <4> HIDE DEF m, n
      <4>2. Runs(m - 1) <= Runs(n) /\ Runs(m - 1) \in Nat BY <1>1, <4>1, RunsGrow
      <4> QED BY <3>2, <4>2
    <3> QED BY <3>1, <3>2
  <2> DEFINE r == IF m = 0 THEN 0 ELSE Runs(m - 1)
  <2>3. Due(c)' = 1 + (MaxRearms - (streak[c] + 1)) + r BY <1>5, <2>1
  <2>4. Due(c) = Runs(n) + (MaxRearms - streak[c]) BY <1>6, <1>8
  <2>5. r <= Runs(n) /\ r \in Nat BY <2>2
  <2> HIDE DEF r, n, m, again
  <2> QED BY <1>3, <1>6, <2>3, <2>4, <2>5
<1>9. CASE c = cam /\ ~again
  <2>1. Due(c)' = Runs(n) BY <1>1, <1>3, <1>5, <1>9
  <2>2. Due(c) = Runs(n) + (MaxRearms - streak[c]) BY <1>6, <1>9
  <2> HIDE DEF n, m, again
  <2> QED BY <1>3, <1>6, <2>1, <2>2
<1> QED BY <1>7, <1>8, <1>9

\* A plug brings one report at most, and what it is worth.
LEMMA PlugCovers ==
  ASSUME IngestOrder, IngestOrder', NEW d \in Cameras, Plug(d), NEW c \in Cameras,
         credit[c] >= Due(c)
  PROVE  credit'[c] >= Due(c)'
<1> DEFINE n == Reports(c)
           m == Reports(c)'
<1>1. /\ UNCHANGED <<present, rearm, poller, found, cam, rearmed, streak, active, at>>
      /\ plugged' = plugged \cup {d} /\ d \notin plugged
  BY DEF Plug, detector, work, budget, flags
<1>2. /\ n \in Nat /\ m \in Nat /\ m <= n + 1
      /\ d # c => m <= n
  <2>1. Occurrences(c, found) \in Nat BY ReportsCount DEF IngestOrder
  <2>2. d # c => /\ BeingReported(c)' <=> BeingReported(c)
                 /\ ToBeReported(c)' <=> ToBeReported(c)
    BY <1>1 DEF BeingReported, ToBeReported, Known
  <2>3. /\ c \in Known => (ToBeReported(c)' <=> ToBeReported(c))
        /\ c \notin Known => (BeingReported(c)' <=> BeingReported(c))
    BY <1>1 DEF BeingReported, ToBeReported, Known
  <2>4. /\ BeingReported(c) => BeingReported(c)'
        /\ ToBeReported(c) => ToBeReported(c)'
    BY <1>1 DEF BeingReported, ToBeReported, Known
  <2>5. Occurrences(c, found)' = Occurrences(c, found) BY <1>1
  <2> QED BY <2>1, <2>2, <2>3, <2>4, <2>5 DEF Reports
<1>3. credit'[c] = IF c = d THEN credit[c] + 1 + MaxRearms ELSE credit[c]
  BY DEF Plug, IngestOrder, TypeOK
<1>4. RunIsAhead' <=> RunIsAhead BY <1>1 DEF RunIsAhead
<1>5. CASE c # d
  <2>1. credit[c] \in Int BY DEF IngestOrder, TypeOK
  <2>2. credit'[c] >= credit[c] BY <1>3, <1>5, <2>1
  <2> QED BY <1>1, <1>2, <1>4, <1>5, <2>2, FewerReports DEF IngestOrder
<1>6. CASE c = d
  <2>1. /\ cam = c => Due(c)' = Runs(m) + (MaxRearms - streak[c]) + (IF RunIsAhead THEN 1 ELSE 0)
        /\ cam # c /\ c \in rearmed =>
             Due(c)' = 1 + (MaxRearms - streak[c]) + (IF m = 0 THEN 0 ELSE Runs(m - 1))
        /\ cam # c /\ c \notin rearmed => Due(c)' = Runs(m)
    BY <1>1, <1>4 DEF Due, Runs
  <2>2. credit'[c] = credit[c] + 1 + MaxRearms BY <1>3, <1>6
  <2> HIDE DEF n, m
  <2>3. n = Reports(c) BY DEF n
  <2>4. /\ cam = c => Due(c) = Runs(n) + (MaxRearms - streak[c]) + (IF RunIsAhead THEN 1 ELSE 0)
        /\ cam # c /\ c \in rearmed =>
             Due(c) = 1 + (MaxRearms - streak[c]) + (IF n = 0 THEN 0 ELSE Runs(n - 1))
        /\ cam # c /\ c \notin rearmed => Due(c) = Runs(n)
        /\ MaxRearms \in Nat /\ streak[c] \in Nat /\ streak[c] <= MaxRearms
        /\ credit[c] \in Int /\ Runs(n) \in Nat /\ Runs(n + 1) = Runs(n) + MaxRearms + 1
        /\ n # 0 => Runs(n - 1) \in Nat /\ Runs(n) = Runs(n - 1) + MaxRearms + 1
    BY <1>2, <2>3, DueOf
  <2>5. Runs(m) \in Nat /\ Runs(m) <= Runs(n) + MaxRearms + 1
    <3>1. n + 1 \in Nat BY <1>2
    <3>2. Runs(m) <= Runs(n + 1) BY <1>2, <3>1, RunsGrow
    <3> QED BY <1>2, <2>4, <3>2, RunsGrow
  <2>6. m # 0 => Runs(m - 1) \in Nat /\ Runs(m - 1) <= Runs(n)
    <3> SUFFICES ASSUME m # 0 PROVE Runs(m - 1) \in Nat /\ Runs(m - 1) <= Runs(n)
      OBVIOUS
    <3>1. m - 1 \in Nat /\ m - 1 <= n BY <1>2
    <3> QED BY <1>2, <3>1, RunsGrow
  <2>7. CASE cam = c BY <2>1, <2>2, <2>4, <2>5, <2>7
  <2>8. CASE cam # c /\ c \in rearmed
    <3>1. n # 0 => Runs(n) = Runs(n - 1) + MaxRearms + 1 BY <2>4
    <3>2. n = 0 => Runs(n) = 0 BY RunsGrow
    <3>3. CASE m = 0
      <4>1. CASE n = 0 BY <2>1, <2>2, <2>4, <2>8, <3>3, <4>1
      <4>2. CASE n # 0 BY <2>1, <2>2, <2>4, <2>8, <3>3, <4>2
      <4> QED BY <4>1, <4>2
    <3>4. CASE m # 0
      <4>1. CASE n = 0 BY <2>1, <2>2, <2>4, <2>6, <2>8, <3>2, <3>4, <4>1
      <4>2. CASE n # 0 BY <2>1, <2>2, <2>4, <2>6, <2>8, <3>1, <3>4, <4>2
      <4> QED BY <4>1, <4>2
    <3> QED BY <3>3, <3>4
  <2>9. CASE cam # c /\ c \notin rearmed BY <2>1, <2>2, <2>4, <2>5, <2>9
  <2> QED BY <2>7, <2>8, <2>9
<1> QED BY <1>5, <1>6

LEMMA StepCovers ==
  ASSUME BudgetInv, IngestOrder', "probeMiss" \notin Events, [Next]_vars
  PROVE  CreditCovers'
<1> SUFFICES ASSUME NEW c \in Cameras PROVE credit'[c] >= Due(c)'
  BY DEF CreditCovers
<1>0. credit[c] >= Due(c) /\ IngestOrder /\ TypeOK /\ TypeOK' /\ StepsInOrder /\ DetectsReachable
      /\ credit[c] \in Int
  BY DEF BudgetInv, CreditCovers, IngestOrder, TypeOK
<1>1. ASSUME UNCHANGED <<cam, rearmed, streak, credit>>, Reports(c)' <= Reports(c),
             RunIsAhead' => RunIsAhead
      PROVE  credit'[c] >= Due(c)'
  <2>1. credit'[c] >= credit[c] BY <1>0, <1>1
  <2> QED BY <1>0, <1>1, <2>1, FewerReports
<1>2. CASE Poll
  <2>1. UNCHANGED <<cam, rearmed, streak, credit, active, at>>
    BY <1>2 DEF Poll, Tick, Edge, EndTick, Probe, Report, GiveUp, flags, work, budget, history
  <2>2. RunIsAhead' => RunIsAhead BY <2>1 DEF RunIsAhead
  <2> QED BY <1>0, <1>1, <1>2, <2>1, <2>2, PollReports
<1>3. ASSUME UNCHANGED <<cam, rearmed, streak, credit, detector>>, plugged' \subseteq plugged,
             RunIsAhead' => RunIsAhead
      PROVE  credit'[c] >= Due(c)'
  <2>1. Reports(c)' <= Reports(c) BY <1>0, <1>3, OthersReport DEF detector
  <2> QED BY <1>1, <1>3, <2>1
<1>4. ASSUME NEW t \in Threads, Recompute(t) PROVE credit'[c] >= Due(c)'
  <2>1. /\ UNCHANGED <<cam, rearmed, streak, credit, detector, plugged, active>>
        /\ at'.consumer = at.consumer \/ at.consumer \in Recomputing
    BY <1>0, <1>4 DEF Recompute, LoadActive, LoadEnabled, StorePause, work, budget, history, world,
                      TypeOK, Threads, Recomputing
  <2>2. RunIsAhead' => RunIsAhead BY <2>1 DEF RunIsAhead, Recomputing
  <2> QED BY <1>3, <2>1, <2>2
<1>5. CASE Receive BY <1>0, <1>5, ReceiveCovers
<1>6. CASE LockWired
  <2>1. /\ UNCHANGED <<cam, rearmed, streak, credit, detector, plugged, active>>
        /\ at.consumer = "lock"
    BY <1>6 DEF LockWired, work, budget, history, world
  <2>2. RunIsAhead' => RunIsAhead BY <2>1 DEF RunIsAhead
  <2> QED BY <1>3, <2>1, <2>2
<1>7. CASE CheckFails \/ FinishRun
  <2>1. /\ UNCHANGED <<cam, rearmed, streak, credit, detector, plugged>> /\ ~active'
    BY <1>7 DEF CheckFails, FinishRun, EndRun, budget, history, world
  <2>2. RunIsAhead' => RunIsAhead BY <2>1 DEF RunIsAhead
  <2> QED BY <1>3, <2>1, <2>2
<1>8. CASE StartRun BY <1>0, <1>8, StartRunCovers
<1>9. CASE Settle BY <1>0, <1>9, SettleCovers
<1>10. CASE SaveFile \/ SaveFlag
  <2>1. /\ UNCHANGED <<cam, rearmed, streak, credit, detector, plugged, active>>
        /\ at'.consumer = at.consumer
    BY <1>0, <1>10 DEF SaveFile, SaveFlag, work, budget, history, world, TypeOK
  <2>2. RunIsAhead' => RunIsAhead BY <2>1 DEF RunIsAhead
  <2> QED BY <1>3, <2>1, <2>2
<1>11. CASE PollMounts \/ OffloadCards
  <2>1. UNCHANGED <<cam, rearmed, streak, credit, detector, plugged, active, at>>
    BY <1>11 DEF PollMounts, OffloadCards, TakeMount, LockSd, FinishSd, flags, work, budget,
                 history, world
  <2>2. RunIsAhead' => RunIsAhead BY <2>1 DEF RunIsAhead
  <2> QED BY <1>3, <2>1, <2>2
<1>12. ASSUME NEW d \in Cameras, Plug(d) PROVE credit'[c] >= Due(c)'
  BY <1>0, <1>12, PlugCovers
<1>13. ASSUME NEW d \in Cameras, Unplug(d) PROVE credit'[c] >= Due(c)'
  <2>1. UNCHANGED <<cam, rearmed, streak, credit, detector, active, at>> /\ plugged' \subseteq plugged
    BY <1>13 DEF Unplug, flags, work, budget, history
  <2>2. RunIsAhead' => RunIsAhead BY <2>1 DEF RunIsAhead
  <2> QED BY <1>3, <2>1, <2>2
<1>14. ASSUME NEW v \in Mounts, Mount(v) \/ Unmount(v) PROVE credit'[c] >= Due(c)'
  <2>1. UNCHANGED <<cam, rearmed, streak, credit, detector, plugged, active, at>>
    BY <1>14 DEF Mount, Unmount, flags, work, budget, history, world
  <2>2. RunIsAhead' => RunIsAhead BY <2>1 DEF RunIsAhead
  <2> QED BY <1>3, <2>1, <2>2
<1>15. CASE UNCHANGED vars
  <2>1. UNCHANGED <<cam, rearmed, streak, credit, detector, plugged, active, at>>
    BY <1>15 DEF vars, detector
  <2>2. RunIsAhead' => RunIsAhead BY <2>1 DEF RunIsAhead
  <2> QED BY <1>3, <2>1, <2>2
<1> QED BY <1>2, <1>4, <1>5, <1>6, <1>7, <1>8, <1>9, <1>10, <1>11, <1>12, <1>13, <1>14, <1>15
        DEF BudgetInv, Next, Consume, User

LEMMA InitCovers == Init => BudgetInv
<1> SUFFICES ASSUME Init PROVE BudgetInv
  OBVIOUS
<1>1. IngestOrder BY InitInOrder
<1>2. DetectsReachable BY DEF Init, DetectsReachable, AtRest
<1>3. StepsInOrder BY DEF Init, StepsInOrder
<1>4. CreditCovers
  <2> SUFFICES ASSUME NEW c \in Cameras PROVE credit[c] >= Due(c)
    BY DEF CreditCovers
  <2>1. Occurrences(c, found) = 0 BY OccurrencesEmpty DEF Init
  <2>2. Reports(c) = 0
    BY <2>1 DEF Init, Reports, BeingReported, ToBeReported, AtRest
  <2>3. cam # c /\ c \notin rearmed /\ credit[c] = 0 BY DevicesAssumption DEF Init
  <2>4. Due(c) = 0 BY <2>2, <2>3, RunsGrow DEF Due
  <2> QED BY <2>3, <2>4
<1> QED BY <1>1, <1>2, <1>3, <1>4 DEF BudgetInv

LEMMA CoveredIsBounded == BudgetInv => RetriesBounded
<1> SUFFICES ASSUME BudgetInv, NEW c \in Cameras PROVE credit[c] >= 0
  BY DEF RetriesBounded
<1> DEFINE n == Reports(c)
<1>1. n \in Nat BY ReportsCount DEF BudgetInv, IngestOrder
<1>2. credit[c] >= Due(c) /\ IngestOrder BY DEF BudgetInv, CreditCovers
<1> HIDE DEF n
<1>3. n = Reports(c) BY DEF n
<1>4. /\ cam = c => Due(c) = Runs(n) + (MaxRearms - streak[c]) + (IF RunIsAhead THEN 1 ELSE 0)
      /\ cam # c /\ c \in rearmed =>
           Due(c) = 1 + (MaxRearms - streak[c]) + (IF n = 0 THEN 0 ELSE Runs(n - 1))
      /\ cam # c /\ c \notin rearmed => Due(c) = Runs(n)
      /\ MaxRearms \in Nat /\ streak[c] \in Nat /\ streak[c] <= MaxRearms
      /\ credit[c] \in Int /\ Runs(n) \in Nat
      /\ n # 0 => Runs(n - 1) \in Nat
  BY <1>1, <1>2, <1>3, DueOf
<1>5. CASE cam = c BY <1>2, <1>4, <1>5
<1>6. CASE cam # c /\ c \in rearmed
  <2>1. CASE n = 0 BY <1>2, <1>4, <1>6, <2>1
  <2>2. CASE n # 0 BY <1>2, <1>4, <1>6, <2>2
  <2> QED BY <2>1, <2>2
<1>7. CASE cam # c /\ c \notin rearmed BY <1>2, <1>4, <1>7
<1> QED BY <1>5, <1>6, <1>7

\* A camera whose runs keep failing is offloaded 1 + MaxRearms times for each time it is
\* plugged in and no more, whoever else is plugged in beside it, wherever a replug comes in
\* the middle of a tick, a retry or a run, and whatever the user saves meanwhile
\* (RearmBudget, poll_for_camera_with_rearm).  A connected camera that leaves a probe
\* without an answer looks like a replug: the theorem is about those that do not.
THEOREM RetriesAreBounded == "probeMiss" \notin Events => (Spec => []RetriesBounded)
<1> SUFFICES ASSUME "probeMiss" \notin Events PROVE Spec => []RetriesBounded
  OBVIOUS
<1>1. BudgetInv /\ [Next]_vars => BudgetInv'
  <2> SUFFICES ASSUME BudgetInv, [Next]_vars PROVE BudgetInv'
    OBVIOUS
  <2>1. IngestOrder' BY StepKeepsIngestOrder DEF BudgetInv
  <2>2. DetectsReachable' BY StepDetectsReachable DEF BudgetInv
  <2>3. StepsInOrder' BY StepKeepsSteps DEF BudgetInv
  <2>4. CreditCovers' BY <2>1, StepCovers
  <2> QED BY <2>1, <2>2, <2>3, <2>4 DEF BudgetInv
<1> QED BY <1>1, InitCovers, CoveredIsBounded, PTL DEF Spec

\* With the types, that is the invariant the runs check.
THEOREM IngestInvHolds == "probeMiss" \notin Events => (Spec => []IngestInv)
<1> SUFFICES ASSUME "probeMiss" \notin Events PROVE Spec => []IngestInv
  OBVIOUS
<1>1. Spec => []TypeOK BY IngestIsTyped
<1>2. Spec => []RetriesBounded BY RetriesAreBounded
<1>3. TypeOK /\ RetriesBounded => IngestInv BY DEF IngestInv
<1> QED BY <1>1, <1>2, <1>3, PTL

=============================================================================
