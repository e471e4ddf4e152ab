-------------------------- MODULE SdOffloadProofs --------------------------
(***************************************************************************)
(* Proofs about SdOffload, for any recordings, names and sizes, and any    *)
(* number of crashes.                                                      *)
(***************************************************************************)
EXTENDS SdOffload, CountingProofs

-----------------------------------------------------------------------------
(* The inductive invariant of a run.                                       *)

\* The two places of a run where its target is a file that no row names yet.
InHand == IF run.at \in {"verify", "commit"} THEN {Target} ELSE {}

Taken == {d \in Dests : Exists(d)}
Rows == {imported[r] : r \in Recordings}
Orphans == Taken \ (Rows \cup InHand)

\* A file that neither a row nor the run accounts for was left behind by a fault.
OrphansAreFaults == IsFiniteSet(Orphans) /\ Cardinality(Orphans) <= faults

\* A file is at a destination of its own name.
NamesAreKept == \A d \in Dests : Exists(d) => Name[local[d].of] = d[1]

RowsHaveFiles == \A r \in Recordings : imported[r] # NoDest => Exists(imported[r])

JobsHaveRows ==
  \A r \in Recordings :
    imported[r] = NoDest => job[r] = "none" /\ r \notin awaits /\ r \notin freed

\* Whether a file of the plan is the one the run has started on.
Begun(r) == r = run.cur /\ run.at # "item"

\* What is left of the plan: recordings still on the card, not imported, each with a
\* destination of its name where nothing is yet.
PlanIsOpen ==
  \A r \in run.todo :
    /\ run.target[r] \in Dests
    /\ run.target[r][1] = Name[r]
    /\ Begun(r) \/ ~Exists(run.target[r])
    /\ (Begun(r) /\ run.at = "cleanup") \/ (imported[r] = NoDest /\ r \in card)

TargetsDiffer ==
  \A r, q \in run.todo : r # q => run.target[r] # run.target[q]

RestHasNoPlan == run.at \in {"idle", "end"} => run.todo = {}

\* The file in hand is a copy of the current recording that no row names.
InHandIsNew ==
  run.at \in {"verify", "commit"} =>
    /\ Exists(Target)
    /\ local[Target].of = run.cur
    /\ Target \notin Rows

CleanupFollowsImport ==
  run.at = "cleanup" => imported[run.cur] # NoDest /\ run.cur \notin awaits

RunInv ==
  /\ TypeOK
  /\ OrphansAreFaults
  /\ NamesAreKept
  /\ RowsHaveFiles
  /\ JobsHaveRows
  /\ PlanIsOpen
  /\ TargetsDiffer
  /\ RestHasNoPlan
  /\ InHandIsNew
  /\ CleanupFollowsImport

-----------------------------------------------------------------------------
(* What verification adds.                                                 *)

\* Every run finds verification on, which is the setting's default.
Verifying == Verifies \subseteq {TRUE}

RunVerifies == run.at \notin {"idle", "end"} => run.verify

CommitIsWhole == run.at = "commit" => local[Target] = Whole(run.cur)

\* An object is the copy of the recording whose row names its path.
ObjectsAreMirrors ==
  \A d \in Dests : remote[d] # NoFile =>
    \E r \in Recordings : imported[r] = d /\ MirroredWhole(r)

MirrorsAreWhole ==
  \A r \in Recordings : job[r] \in {"sweep", "done"} => MirroredWhole(r)

VerifiedInv ==
  /\ RunInv
  /\ RunVerifies
  /\ CommitIsWhole
  /\ ImportedIsHeld
  /\ ObjectsAreMirrors
  /\ MirrorsAreWhole
  /\ FreedIsSafe

-----------------------------------------------------------------------------
(* What the names add, where no file fails to be hashed.                   *)

Alone(r) == \A q \in Recordings \ {r} : Name[q] # Name[r]

\* A suffix is used only next to a canonical file, which is not the one in hand.
SuffixHasCanonical ==
  \A r \in Recordings, d \in Dests :
    Alone(r) /\ d[1] = Name[r] /\ d # Canonical(r) /\ Exists(d)
      => Exists(Canonical(r)) /\ Canonical(r) \notin InHand

\* A recording planned under a suffix found its canonical name taken.
PlanHasCanonical ==
  \A r \in run.todo :
    Alone(r) /\ run.target[r] # Canonical(r) => Exists(Canonical(r))

NamingInv ==
  /\ SuffixHasCanonical
  /\ PlanHasCanonical
  /\ NoNeedlessSuffix

-----------------------------------------------------------------------------
(* Steps that are the same for several actions.                            *)

LEMMA FirstIsIn ==
  ASSUME NEW S \in SUBSET Recordings, S # {}
  PROVE  First(S) \in S /\ \A q \in S : First(S) <= q
<1>1. S \subseteq Nat BY RecordingsAssumption
<1>2. \E m \in S : \A n \in S : m <= n BY <1>1, LeastExists
<1> QED BY <1>2 DEF First

LEMMA IdleIsRun == Idle \in Run /\ [Idle EXCEPT !.at = "end"] \in Run
BY DEF Idle, Run, RunStep

LEMMA OrphansShrink ==
  ASSUME OrphansAreFaults, faults \in Nat, faults' \in Nat, faults <= faults',
         Orphans' \subseteq Orphans
  PROVE  OrphansAreFaults'
<1>1. IsFiniteSet(Orphans') /\ Cardinality(Orphans') <= Cardinality(Orphans)
  BY FS_Subset DEF OrphansAreFaults
<1>2. Cardinality(Orphans) \in Nat /\ Cardinality(Orphans') \in Nat
  BY <1>1, FS_CardinalityType DEF OrphansAreFaults
<1> QED BY <1>1, <1>2 DEF OrphansAreFaults

LEMMA OrphanByFault ==
  ASSUME OrphansAreFaults, faults \in Nat, faults' = faults + 1,
         NEW d, Orphans' \subseteq Orphans \cup {d}
  PROVE  OrphansAreFaults'
<1>1. /\ IsFiniteSet(Orphans \cup {d})
      /\ Cardinality(Orphans \cup {d}) <= Cardinality(Orphans) + 1
  <2>1. Cardinality(Orphans) \in Nat BY FS_CardinalityType DEF OrphansAreFaults
  <2>2. IsFiniteSet(Orphans) BY DEF OrphansAreFaults
  <2>3. /\ IsFiniteSet(Orphans \cup {d})
        /\ Cardinality(Orphans \cup {d})
             = IF d \in Orphans THEN Cardinality(Orphans) ELSE Cardinality(Orphans) + 1
    BY <2>2, FS_AddElement
  <2> QED BY <2>1, <2>3
<1>2. IsFiniteSet(Orphans') /\ Cardinality(Orphans') <= Cardinality(Orphans \cup {d})
  BY <1>1, FS_Subset
<1>3. /\ Cardinality(Orphans) \in Nat /\ Cardinality(Orphans') \in Nat
      /\ Cardinality(Orphans \cup {d}) \in Nat
  BY <1>1, <1>2, FS_CardinalityType DEF OrphansAreFaults
<1> QED BY <1>1, <1>2, <1>3 DEF OrphansAreFaults

\* The run goes on to the next file of the plan, or to its end.
LEMMA GoOn ==
  ASSUME TypeOK, NEW rest \in SUBSET run.todo
  PROVE  /\ GoOnTo(rest) \in Run
         /\ GoOnTo(rest).todo = rest
         /\ GoOnTo(rest).mode = run.mode
         /\ IF rest = {} THEN GoOnTo(rest).at = "end" /\ GoOnTo(rest).cur = 0
                         ELSE /\ GoOnTo(rest).at = "item"
                              /\ GoOnTo(rest).cur \in rest
                              /\ GoOnTo(rest).target = run.target
                              /\ GoOnTo(rest).verify = run.verify
<1>1. run \in Run /\ rest \subseteq Recordings BY DEF TypeOK, Run
<1>2. CASE rest = {}
  <2>1. GoOnTo(rest) = [Idle EXCEPT !.at = "end", !.mode = run.mode, !.delete = run.delete]
    BY <1>2 DEF GoOnTo
  <2>2. run.mode \in Modes \cup {"Off"} /\ run.delete \in BOOLEAN BY <1>1 DEF Run
  <2>3. GoOnTo(rest) \in Run BY <2>1, <2>2, IdleIsRun DEF Run
  <2> QED BY <1>2, <2>1, <2>3 DEF Idle
<1>3. CASE rest # {}
  <2>1. First(rest) \in rest BY <1>1, <1>3, FirstIsIn
  <2>2. GoOnTo(rest) = [run EXCEPT !.at = "item", !.todo = rest, !.cur = First(rest)]
    BY <1>3 DEF GoOnTo
  <2> QED BY <1>1, <1>3, <2>1, <2>2 DEF Run, RunStep
<1> QED BY <1>2, <1>3

\* The conjuncts about the run hold of its next file if they did before, and the step
\* leaves the files of the rest of the plan alone.
LEMMA NextFileKeepsPlan ==
  ASSUME RunInv, run.at \notin {"idle", "end"}, run' = NextFile,
         \A r \in run.todo \ {run.cur} :
           /\ imported'[r] = imported[r]
           /\ r \in card => r \in card'
           /\ local'[run.target[r]] = local[run.target[r]]
  PROVE  /\ run' \in Run
         /\ IF run'.at \in {"idle", "end"} THEN run'.cur = 0 ELSE run'.cur \in run'.todo
         /\ InHand' = {}
         /\ PlanIsOpen' /\ TargetsDiffer' /\ RestHasNoPlan'
         /\ InHandIsNew' /\ CleanupFollowsImport'
<1> DEFINE rest == run.todo \ {run.cur}
<1>1. TypeOK /\ run.cur \in run.todo BY DEF RunInv, TypeOK
<1>2. run' = GoOnTo(rest) /\ rest \in SUBSET run.todo BY DEF NextFile
<1> HIDE DEF rest
<1>3. /\ run' \in Run /\ run'.todo = rest /\ run'.at \in {"item", "end"}
      /\ rest = {} => run'.at = "end" /\ run'.cur = 0
      /\ rest # {} => run'.at = "item" /\ run'.cur \in rest /\ run'.target = run.target
  BY <1>1, <1>2, GoOn
<1>4. InHand' = {} BY <1>3 DEF InHand
<1>5. ASSUME NEW r \in rest
      PROVE  /\ run.target[r] \in Dests /\ run.target[r][1] = Name[r]
             /\ ~Exists(run.target[r]) /\ imported[r] = NoDest /\ r \in card
  BY DEF rest, RunInv, PlanIsOpen, Begun
<1>6. PlanIsOpen' BY <1>3, <1>5 DEF PlanIsOpen, Begun, Exists, rest
<1>7. TargetsDiffer' BY <1>3 DEF RunInv, TargetsDiffer, rest
<1>8. RestHasNoPlan' /\ InHandIsNew' /\ CleanupFollowsImport'
  BY <1>3 DEF RestHasNoPlan, InHandIsNew, CleanupFollowsImport
<1> QED BY <1>3, <1>4, <1>6, <1>7, <1>8

-----------------------------------------------------------------------------
(* resolve_collision.                                                      *)

FreeBelow(n, k) == {j \in Variants : j < k /\ ~Exists(<<n, j>>)}

\* There are suffixes enough: each one taken is a row's or was left by a fault.
LEMMA TakenIsBounded ==
  ASSUME RunInv, run.at = "idle", NEW n \in Names,
         NEW plan \in SUBSET Recordings, \A r \in plan : imported[r] = NoDest
  PROVE  LET taken == {k \in Variants : Exists(<<n, k>>)} IN
         /\ IsFiniteSet(taken)
         /\ Cardinality(taken) \in Nat /\ Cardinality(plan) \in Nat
         /\ Cardinality(taken) + Cardinality(plan) <= Cardinality(Recordings) + MaxFaults
<1> DEFINE taken == {k \in Variants : Exists(<<n, k>>)}
           imports == {r \in Recordings : imported[r] # NoDest}
           places == {imported[r] : r \in imports}
           row == [r \in imports |-> imported[r]]
           place == [k \in taken |-> <<n, k>>]
<1>1. faults \in 0..MaxFaults BY DEF RunInv, TypeOK
<1>2. IsFiniteSet(Recordings) /\ MaxFaults \in Nat BY RecordingsAssumption, OptionsAssumption
<1>3. /\ IsFiniteSet(imports) /\ IsFiniteSet(plan)
      /\ Cardinality(imports) \in Nat /\ Cardinality(plan) \in Nat
      /\ Cardinality(Recordings) \in Nat
      /\ Cardinality(imports) + Cardinality(plan) <= Cardinality(Recordings)
  <2>1. imports \in SUBSET Recordings /\ imports \cap plan = {} OBVIOUS
  <2> HIDE DEF imports
  <2> QED BY <1>2, <2>1, DisjointFit
<1>4. IsFiniteSet(places) /\ Cardinality(places) <= Cardinality(imports)
  <2>1. row \in Surjection(imports, places) BY DEF Surjection
  <2> HIDE DEF imports, places, row
  <2> QED BY <1>3, <2>1, FS_Surjection
<1>5. /\ IsFiniteSet(Orphans) /\ Cardinality(Orphans) \in Nat
      /\ Cardinality(Orphans) <= faults
  BY FS_CardinalityType DEF RunInv, OrphansAreFaults
<1>6. Cardinality(places) \in Nat BY <1>4, FS_CardinalityType
<1>7. /\ IsFiniteSet(places \cup Orphans)
      /\ Cardinality(places \cup Orphans) <= Cardinality(places) + Cardinality(Orphans)
  <2> HIDE DEF places
  <2>1. /\ IsFiniteSet(places \cup Orphans)
        /\ Cardinality(places \cup Orphans)
             = Cardinality(places) + Cardinality(Orphans) - Cardinality(places \cap Orphans)
    BY <1>4, <1>5, FS_Union
  <2>2. Cardinality(places \cap Orphans) \in Nat
    BY <1>4, FS_Intersection, FS_CardinalityType
  <2> QED BY <1>5, <1>6, <2>1, <2>2
<1>8. IsFiniteSet(taken) /\ Cardinality(taken) <= Cardinality(places \cup Orphans)
  <2>1. ASSUME NEW k \in taken PROVE <<n, k>> \in places \cup Orphans
    <3>1. <<n, k>> \in Taken BY DEF Taken, Dests
    <3>2. InHand = {} BY DEF InHand
    <3>3. <<n, k>> # NoDest BY FilesAssumption DEF Dests
    <3> QED BY <3>1, <3>2, <3>3 DEF Orphans, Rows
  <2>2. place \in Injection(taken, places \cup Orphans) BY <2>1 DEF Injection, IsInjective
  <2> HIDE DEF taken, place, places
  <2> QED BY <1>7, <2>2, FS_Injection
<1>9. Cardinality(taken) \in Nat /\ Cardinality(places \cup Orphans) \in Nat
  BY <1>7, <1>8, FS_CardinalityType
<1> HIDE DEF taken, imports, places, row, place
<1>10. Cardinality(taken) + Cardinality(plan) <= Cardinality(Recordings) + MaxFaults
  BY <1>1, <1>2, <1>3, <1>4, <1>5, <1>6, <1>7, <1>8, <1>9
<1> QED BY <1>3, <1>8, <1>9, <1>10 DEF taken

LEMMA ResolvedIsFree ==
  ASSUME RunInv, run.at = "idle",
         NEW plan \in SUBSET Recordings, \A r \in plan : imported[r] = NoDest,
         NEW r \in plan
  PROVE  /\ Resolved(r, plan) \in Dests
         /\ Resolved(r, plan)[1] = Name[r]
         /\ ~Exists(Resolved(r, plan))
         /\ Cardinality(FreeBelow(Name[r], Resolved(r, plan)[2]))
              = Cardinality(Earlier(r, plan, Name))
<1> DEFINE n == Name[r]
           taken == {k \in Variants : Exists(<<n, k>>)}
           free == {k \in Variants : ~Exists(<<n, k>>)}
           N == Cardinality(Recordings) + MaxFaults
           m == Cardinality(Earlier(r, plan, Name))
           Fits(d) == d[1] = n /\ ~Exists(d) /\ Cardinality(FreeBelow(n, d[2])) = m
<1>1. n \in Names BY FilesAssumption
<1>2. N \in Nat /\ Variants = 0..N
  BY RecordingsAssumption, OptionsAssumption, FS_CardinalityType DEF Variants
<1>3. /\ IsFiniteSet(taken) /\ Cardinality(taken) \in Nat /\ Cardinality(plan) \in Nat
      /\ Cardinality(taken) + Cardinality(plan) <= N
  BY <1>1, TakenIsBounded
<1>4. m \in Nat /\ m < Cardinality(plan)
  BY RecordingsAssumption, FS_Subset, EarlierIsFewer
<1>5. PICK k \in free : Cardinality({j \in free : j < k}) = m
  <2>1. taken \in SUBSET (0..N) /\ free = (0..N) \ taken BY <1>2
  <2>2. free \in SUBSET (0..N) BY <1>2
  <2> HIDE DEF taken, free, N, m
  <2>3. Cardinality(free) = N + 1 - Cardinality(taken) BY <1>2, <1>3, <2>1, FreeCount
  <2>4. m < Cardinality(free) BY <1>2, <1>3, <1>4, <2>3
  <2> QED BY <1>2, <1>4, <2>2, <2>4, RankExists
<1>6. {j \in free : j < k} = FreeBelow(n, k) BY DEF FreeBelow
<1>7. \E d \in Dests : Fits(d)
  <2>1. <<n, k>> \in Dests BY <1>1 DEF Dests
  <2>2. Fits(<<n, k>>) BY <1>5, <1>6
  <2> QED BY <2>1, <2>2
<1>8. Resolved(r, plan) = CHOOSE d \in Dests : Fits(d)
  BY DEF Resolved, FreeBelow, Earlier
<1> HIDE DEF Fits
<1>9. Resolved(r, plan) \in Dests /\ Fits(Resolved(r, plan)) BY <1>7, <1>8
<1> QED BY <1>9 DEF Fits

\* Two files of a plan never get the same destination.
LEMMA ResolvedDiffer ==
  ASSUME RunInv, run.at = "idle",
         NEW plan \in SUBSET Recordings, \A r \in plan : imported[r] = NoDest,
         NEW r \in plan, NEW q \in plan, q # r
  PROVE  Resolved(r, plan) # Resolved(q, plan)
<1> SUFFICES ASSUME Resolved(r, plan) = Resolved(q, plan) PROVE FALSE
  OBVIOUS
<1>1. Name[r] = Name[q] BY ResolvedIsFree
<1>2. Cardinality(Earlier(r, plan, Name)) = Cardinality(Earlier(q, plan, Name))
  BY <1>1, ResolvedIsFree
<1>3. plan \in SUBSET Nat /\ IsFiniteSet(plan) BY RecordingsAssumption, FS_Subset
<1>4. q < r \/ r < q BY <1>3
<1> QED BY <1>1, <1>2, <1>3, <1>4, EarlierIsFewer

LEMMA CanonicalIsDest ==
  ASSUME NEW r \in Recordings
  PROVE  Canonical(r) \in Dests
<1>1. Cardinality(Recordings) + MaxFaults \in Nat
  BY RecordingsAssumption, OptionsAssumption, FS_CardinalityType
<1>2. 0 \in Variants BY <1>1 DEF Variants
<1>3. Name[r] \in Names BY FilesAssumption
<1> QED BY <1>2, <1>3 DEF Canonical, Dests

-----------------------------------------------------------------------------
(* Every step keeps the invariant of a run.                                *)

\* The steps of the user and of the worker leave files, rows and run alone.
LEMMA BesideTheRun ==
  ASSUME RunInv, TypeOK', UNCHANGED <<local, imported, run, faults>>,
         \A r \in run.todo : imported[r] = NoDest /\ r \in card => r \in card',
         run.at = "cleanup" => run.cur \notin awaits',
         \A r \in Recordings :
           imported[r] = NoDest => job'[r] = job[r] /\ r \notin awaits' /\ r \notin freed'
  PROVE  RunInv'
<1>1. OrphansAreFaults'
  <2>1. Orphans' = Orphans BY DEF Orphans, Taken, Exists, Rows, InHand, Target
  <2>2. faults \in Nat /\ faults' = faults BY DEF RunInv, TypeOK
  <2> QED BY <2>1, <2>2, OrphansShrink DEF RunInv
<1>2. NamesAreKept' /\ RowsHaveFiles' BY DEF RunInv, NamesAreKept, RowsHaveFiles, Exists
<1>3. JobsHaveRows' BY DEF RunInv, JobsHaveRows
<1>4. TargetsDiffer' /\ RestHasNoPlan' BY DEF RunInv, TargetsDiffer, RestHasNoPlan
<1>5. PlanIsOpen' BY DEF RunInv, PlanIsOpen, Begun, Exists, RestHasNoPlan
<1>6. InHandIsNew' BY DEF RunInv, InHandIsNew, Exists, Target, Rows
<1>7. CleanupFollowsImport' BY DEF RunInv, CleanupFollowsImport
<1> QED BY <1>1, <1>2, <1>3, <1>4, <1>5, <1>6, <1>7 DEF RunInv

LEMMA UserKeepsRunInv ==
  ASSUME RunInv, Mount \/ PullCard \/ \E r \in Recordings : Record(r) \/ Erase(r)
  PROVE  RunInv'
<1>1. TypeOK' BY DEF RunInv, TypeOK, Record, Erase, Mount, PullCard, onCard, ledger
<1>2. /\ UNCHANGED <<local, imported, job, awaits, freed, run, faults>>
      /\ run.at = "idle" \/ card' = card
  BY DEF Record, Erase, Mount, PullCard, onCard, ledger
<1> QED BY <1>1, <1>2, BesideTheRun
       DEF RunInv, JobsHaveRows, CleanupFollowsImport, RestHasNoPlan

LEMMA WorkerKeepsRunInv ==
  ASSUME RunInv, NEW r \in Recordings, CloudMirrors(r) \/ SweepCard(r)
  PROVE  RunInv'
<1>1. imported[r] # NoDest /\ imported[r] \in Dests
  BY DEF RunInv, TypeOK, JobsHaveRows, CloudMirrors, SweepCard
<1>2. TypeOK'
  <2>1. CASE CloudMirrors(r)
    BY <1>1, <2>1 DEF CloudMirrors, RunInv, TypeOK, RemotePath, onCard
  <2>2. CASE SweepCard(r)
    BY <2>2 DEF SweepCard, RunInv, TypeOK
  <2> QED BY <2>1, <2>2
<1>3. /\ UNCHANGED <<local, imported, awaits, run, faults>>
      /\ \A q \in Recordings \ {r} :
           /\ job'[q] = job[q]
           /\ q \in card => q \in card'
           /\ q \in freed' => q \in freed
  BY DEF CloudMirrors, SweepCard, onCard, RunInv, TypeOK
<1>4. run.todo \subseteq Recordings BY DEF RunInv, TypeOK, Run
<1> QED BY <1>1, <1>2, <1>3, <1>4, BesideTheRun
       DEF RunInv, JobsHaveRows, CleanupFollowsImport

LEMMA StartRunKeepsRunInv ==
  ASSUME RunInv, StartRun
  PROVE  RunInv'
<1> DEFINE plan == {r \in card : imported[r] = NoDest}
           target == [r \in Recordings |-> IF r \in plan THEN Resolved(r, plan) ELSE NoDest]
<1>1. plan \in SUBSET Recordings /\ \A r \in plan : imported[r] = NoDest /\ r \in card
  BY DEF RunInv, TypeOK
<1>2. run.at = "idle" /\ UNCHANGED <<card, made, freed, mounted, local, imported, job, awaits,
                                      remote, faults>>
  BY DEF StartRun, onCard, ledger
<1>3. PICK mode \in Modes, delete \in BOOLEAN, verify \in Verifies :
        run' = [Idle EXCEPT
           !.at = IF plan = {} THEN "end" ELSE "item",
           !.mode = mode, !.delete = delete, !.verify = verify, !.todo = plan,
           !.target = target, !.cur = IF plan = {} THEN 0 ELSE First(plan)]
  BY Zenon DEF StartRun
<1> HIDE DEF plan
<1>4. \A r \in plan : /\ Resolved(r, plan) \in Dests
                      /\ Resolved(r, plan)[1] = Name[r]
                      /\ ~Exists(Resolved(r, plan))
  BY <1>1, <1>2, ResolvedIsFree
<1>5. \A r, q \in plan : r # q => Resolved(r, plan) # Resolved(q, plan)
  BY <1>1, <1>2, ResolvedDiffer
<1>6. target \in [Recordings -> Dests \cup {NoDest}] BY <1>4
<1>7. \A r \in plan : target[r] = Resolved(r, plan) BY <1>1
<1> HIDE DEF target
<1>8. /\ run'.at = IF plan = {} THEN "end" ELSE "item"
      /\ run'.mode = mode /\ run'.delete = delete /\ run'.verify = verify
      /\ run'.todo = plan /\ run'.target = target
      /\ run'.cur = IF plan = {} THEN 0 ELSE First(plan)
  BY <1>3 DEF Idle
<1>9. plan # {} => First(plan) \in plan BY <1>1, FirstIsIn
<1>10. run' \in Run
  <2>1. verify \in BOOLEAN BY OptionsAssumption
  <2>2. run'.cur \in Recordings \cup {0} BY <1>1, <1>8, <1>9
  <2> QED BY <1>1, <1>3, <1>6, <1>8, <2>1, <2>2 DEF Run, RunStep, Idle
<1>11. TypeOK'
  BY <1>2, <1>8, <1>9, <1>10 DEF RunInv, TypeOK
<1>12. OrphansAreFaults'
  <2>1. Orphans' = Orphans BY <1>2, <1>8 DEF Orphans, Taken, Exists, Rows, InHand
  <2> QED BY <1>2, <2>1, OrphansShrink DEF RunInv, TypeOK
<1>13. NamesAreKept' /\ RowsHaveFiles' /\ JobsHaveRows'
  BY <1>2 DEF RunInv, NamesAreKept, RowsHaveFiles, JobsHaveRows, Exists
<1>14. PlanIsOpen'
  BY <1>1, <1>2, <1>4, <1>7, <1>8 DEF PlanIsOpen, Begun, Exists
<1>15. TargetsDiffer' BY <1>5, <1>7, <1>8 DEF TargetsDiffer
<1>16. RestHasNoPlan' /\ InHandIsNew' /\ CleanupFollowsImport'
  BY <1>8 DEF RestHasNoPlan, InHandIsNew, CleanupFollowsImport
<1> QED BY <1>11, <1>12, <1>13, <1>14, <1>15, <1>16 DEF RunInv

LEMMA EndOfRunKeepsRunInv ==
  ASSUME RunInv, EndOfRun
  PROVE  RunInv'
<1>1. /\ UNCHANGED <<card, made, freed, local, imported, job, awaits, remote, faults>>
      /\ run.at = "end" /\ run' = Idle /\ mounted' \in BOOLEAN
  BY DEF EndOfRun, onCard, ledger, RunInv, TypeOK
<1>2. TypeOK' BY <1>1, IdleIsRun DEF RunInv, TypeOK, Idle
<1>3. OrphansAreFaults'
  <2>1. Orphans' = Orphans BY <1>1 DEF Orphans, Taken, Exists, Rows, InHand, Idle
  <2> QED BY <1>1, <2>1, OrphansShrink DEF RunInv, TypeOK
<1>4. NamesAreKept' /\ RowsHaveFiles' /\ JobsHaveRows'
  BY <1>1 DEF RunInv, NamesAreKept, RowsHaveFiles, JobsHaveRows, Exists
<1>5. PlanIsOpen' /\ TargetsDiffer' /\ RestHasNoPlan' /\ InHandIsNew' /\ CleanupFollowsImport'
  BY <1>1 DEF PlanIsOpen, TargetsDiffer, RestHasNoPlan, InHandIsNew, CleanupFollowsImport, Idle
<1> QED BY <1>2, <1>3, <1>4, <1>5 DEF RunInv

\* A crash leaves at most the file in hand behind.
LEMMA CrashKeepsRunInv ==
  ASSUME RunInv, Crash
  PROVE  RunInv'
<1>1. /\ UNCHANGED <<card, made, freed, mounted, local, imported, job, awaits, remote>>
      /\ run' = Idle /\ faults' = faults + 1 /\ faults < MaxFaults
      /\ faults \in 0..MaxFaults /\ MaxFaults \in Nat
  BY OptionsAssumption DEF Crash, onCard, ledger, RunInv, TypeOK
<1>2. TypeOK' BY <1>1, IdleIsRun DEF RunInv, TypeOK, Idle
<1>3. OrphansAreFaults'
  <2>1. Orphans' \subseteq Orphans \cup {Target}
    BY <1>1 DEF Orphans, Taken, Exists, Rows, InHand, Idle
  <2> QED BY <1>1, <2>1, OrphanByFault DEF RunInv
<1>4. NamesAreKept' /\ RowsHaveFiles' /\ JobsHaveRows'
  BY <1>1 DEF RunInv, NamesAreKept, RowsHaveFiles, JobsHaveRows, Exists
<1>5. PlanIsOpen' /\ TargetsDiffer' /\ RestHasNoPlan' /\ InHandIsNew' /\ CleanupFollowsImport'
  BY <1>1 DEF PlanIsOpen, TargetsDiffer, RestHasNoPlan, InHandIsNew, CleanupFollowsImport, Idle
<1> QED BY <1>2, <1>3, <1>4, <1>5 DEF RunInv

\* A file of the plan that is not imported yet can be recorded at a file of its name.
LEMMA RecordKeepsRows ==
  ASSUME RunInv, run.cur \in run.todo, imported[run.cur] = NoDest, run.cur \in card,
         NEW dest \in Dests, Exists(dest), RecordImport(dest),
         UNCHANGED <<card, made, freed, mounted, local, remote, faults>>
  PROVE  /\ imported' \in [Recordings -> Dests \cup {NoDest}]
         /\ job' \in [Recordings -> {"none", "pending", "sweep", "done"}]
         /\ awaits' \subseteq made
         /\ Rows' \subseteq Rows \cup {dest}
         /\ Rows \subseteq Rows' \cup {NoDest}
         /\ dest \in Rows'
         /\ \A q \in Recordings \ {run.cur} : imported'[q] = imported[q]
         /\ imported'[run.cur] = dest
         /\ NamesAreKept' /\ RowsHaveFiles' /\ JobsHaveRows'
<1>1. run.cur \in Recordings BY DEF RunInv, TypeOK
<1>2. /\ imported \in [Recordings -> Dests \cup {NoDest}]
      /\ imported' = [imported EXCEPT ![run.cur] = dest]
      /\ job \in [Recordings -> {"none", "pending", "sweep", "done"}]
      /\ job' = [job EXCEPT ![run.cur] = IF run.mode \in {"Auto", "Manual"} THEN "pending" ELSE @]
      /\ awaits' = IF run.mode = "Auto" THEN awaits \cup {run.cur} ELSE awaits
      /\ awaits \subseteq made /\ card \subseteq made
  BY DEF RunInv, TypeOK, RecordImport
<1>3. /\ \A q \in Recordings \ {run.cur} : imported'[q] = imported[q] /\ job'[q] = job[q]
      /\ imported'[run.cur] = dest
  BY <1>1, <1>2
<1>4. dest # NoDest BY FilesAssumption
<1>5. dest \in Rows' BY <1>1, <1>3 DEF Rows
<1>6. Rows' \subseteq Rows \cup {dest} BY <1>3 DEF Rows
<1>7. Rows \subseteq Rows' \cup {NoDest} BY <1>3 DEF Rows
<1>8. NamesAreKept' BY DEF RunInv, NamesAreKept, Exists
<1>9. RowsHaveFiles' BY <1>1, <1>3 DEF RunInv, RowsHaveFiles, Exists
<1>10. JobsHaveRows' BY <1>1, <1>2, <1>3, <1>4 DEF RunInv, JobsHaveRows
<1> QED BY <1>1, <1>2, <1>3, <1>5, <1>6, <1>7, <1>8, <1>9, <1>10

LEMMA AdoptRecoveredKeepsRunInv ==
  ASSUME RunInv, AdoptRecovered
  PROVE  RunInv'
<1> DEFINE dest == Canonical(run.cur)
<1>1. /\ UNCHANGED <<card, made, freed, mounted, local, remote, faults>>
      /\ run.at = "item" /\ run' = NextFile
      /\ RecordImport(dest) /\ Exists(dest)
  BY DEF AdoptRecovered, CanAdopt, Exists, onCard
<1>2. /\ run.cur \in run.todo /\ imported[run.cur] = NoDest /\ run.cur \in card
      /\ run.todo \subseteq Recordings
  BY <1>1 DEF RunInv, TypeOK, Run, PlanIsOpen, Begun
<1>3. dest \in Dests BY <1>2, CanonicalIsDest
<1> HIDE DEF dest
<1>4. /\ imported' \in [Recordings -> Dests \cup {NoDest}]
      /\ job' \in [Recordings -> {"none", "pending", "sweep", "done"}]
      /\ awaits' \subseteq made
      /\ Rows \subseteq Rows' \cup {NoDest}
      /\ \A q \in Recordings \ {run.cur} : imported'[q] = imported[q]
      /\ NamesAreKept' /\ RowsHaveFiles' /\ JobsHaveRows'
  BY <1>1, <1>2, <1>3, RecordKeepsRows
<1>5. /\ run' \in Run
      /\ IF run'.at \in {"idle", "end"} THEN run'.cur = 0 ELSE run'.cur \in run'.todo
      /\ InHand' = {}
      /\ PlanIsOpen' /\ TargetsDiffer' /\ RestHasNoPlan'
      /\ InHandIsNew' /\ CleanupFollowsImport'
  BY <1>1, <1>2, <1>4, NextFileKeepsPlan
<1>6. TypeOK' BY <1>1, <1>4, <1>5 DEF RunInv, TypeOK
<1>7. OrphansAreFaults'
  <2>1. Orphans' \subseteq Orphans
    <3>1. NoDest \notin Taken BY FilesAssumption DEF Taken
    <3>2. Taken' = Taken /\ InHand = {} BY <1>1 DEF Taken, Exists, InHand
    <3> QED BY <1>4, <1>5, <3>1, <3>2 DEF Orphans
  <2> QED BY <1>1, <2>1, OrphansShrink DEF RunInv, TypeOK
<1> QED BY <1>4, <1>5, <1>6, <1>7 DEF RunInv

LEMMA CopyFailsKeepsRunInv ==
  ASSUME RunInv, CopyFails
  PROVE  RunInv'
<1>1. /\ UNCHANGED <<card, made, freed, mounted, local, imported, job, awaits, remote, faults>>
      /\ run.at = "item" /\ run' = NextFile
  BY DEF CopyFails, onCard, ledger
<1>2. /\ run' \in Run
      /\ IF run'.at \in {"idle", "end"} THEN run'.cur = 0 ELSE run'.cur \in run'.todo
      /\ InHand' = {}
      /\ PlanIsOpen' /\ TargetsDiffer' /\ RestHasNoPlan'
      /\ InHandIsNew' /\ CleanupFollowsImport'
  BY <1>1, NextFileKeepsPlan
<1>3. TypeOK' BY <1>1, <1>2 DEF RunInv, TypeOK
<1>4. OrphansAreFaults'
  <2>1. Orphans' = Orphans BY <1>1, <1>2 DEF Orphans, Taken, Exists, Rows, InHand
  <2> QED BY <1>1, <2>1, OrphansShrink DEF RunInv, TypeOK
<1>5. NamesAreKept' /\ RowsHaveFiles' /\ JobsHaveRows'
  BY <1>1 DEF RunInv, NamesAreKept, RowsHaveFiles, JobsHaveRows, Exists
<1> QED BY <1>2, <1>3, <1>4, <1>5 DEF RunInv

\* What the run has in hand when it is at a file.
LEMMA AtFile ==
  ASSUME RunInv, run.at \notin {"idle", "end"}
  PROVE  /\ run.cur \in run.todo /\ run.cur \in Recordings /\ run.todo \subseteq Recordings
         /\ Target \in Dests /\ Target[1] = Name[run.cur] /\ Target # NoDest
         /\ \A r \in run.todo \ {run.cur} : run.target[r] \in Dests /\ run.target[r] # Target
         /\ run.at # "cleanup" => imported[run.cur] = NoDest /\ run.cur \in card
         /\ run.at = "item" => ~Exists(Target)
BY FilesAssumption DEF RunInv, TypeOK, Run, PlanIsOpen, TargetsDiffer, Begun, Target

LEMMA CopyPersistsKeepsRunInv ==
  ASSUME RunInv, CopyPersists
  PROVE  RunInv'
<1>1. /\ UNCHANGED <<card, made, freed, mounted, imported, job, awaits, remote, faults>>
      /\ run.at = "item"
      /\ run' = [run EXCEPT !.at = IF run.verify THEN "verify" ELSE "commit"]
  BY DEF CopyPersists, onCard, ledger
<1>2. PICK copy \in Copies : local' = [local EXCEPT ![Target] = copy]
  BY DEF CopyPersists
<1>3. /\ run.cur \in run.todo /\ run.cur \in Recordings /\ run.todo \subseteq Recordings
      /\ Target \in Dests /\ Target[1] = Name[run.cur]
      /\ \A r \in run.todo \ {run.cur} : run.target[r] \in Dests /\ run.target[r] # Target
      /\ imported[run.cur] = NoDest /\ run.cur \in card /\ ~Exists(Target)
  BY <1>1, AtFile
<1>4. copy \in File /\ copy # NoFile /\ copy.of = run.cur
  BY <1>3, FilesAssumption DEF Copies, File
<1>5. run \in Run /\ local \in [Dests -> File \cup {NoFile}] BY DEF RunInv, TypeOK
<1>6. /\ run' \in Run /\ run'.at \in {"verify", "commit"}
      /\ run'.todo = run.todo /\ run'.cur = run.cur /\ run'.target = run.target
      /\ Target' = Target
  BY <1>1, <1>5 DEF Run, RunStep, Target
<1>7. /\ \A d \in Dests \ {Target} : local'[d] = local[d]
      /\ local'[Target] = copy
      /\ local' \in [Dests -> File \cup {NoFile}]
  BY <1>2, <1>3, <1>4, <1>5
<1>8. TypeOK' BY <1>1, <1>3, <1>6, <1>7 DEF RunInv, TypeOK
<1>9. OrphansAreFaults'
  <2>1. Orphans' \subseteq Orphans
    <3>1. InHand' = {Target} /\ InHand = {} BY <1>1, <1>6 DEF InHand
    <3>2. Taken' \subseteq Taken \cup {Target} BY <1>7 DEF Taken, Exists
    <3>3. Rows' = Rows BY <1>1 DEF Rows
    <3> QED BY <3>1, <3>2, <3>3 DEF Orphans
  <2> QED BY <1>1, <2>1, OrphansShrink DEF RunInv, TypeOK
<1>10. NamesAreKept' BY <1>3, <1>4, <1>7 DEF RunInv, NamesAreKept, Exists
<1>11. RowsHaveFiles' /\ Target \notin Rows
  <2>1. ASSUME NEW r \in Recordings, imported[r] # NoDest
        PROVE  imported[r] \in Dests /\ Exists(imported[r]) /\ imported[r] # Target
    BY <1>3, <2>1 DEF RunInv, TypeOK, RowsHaveFiles
  <2> QED BY <1>1, <1>3, <1>7, <2>1, FilesAssumption DEF RowsHaveFiles, Exists, Rows
<1>12. JobsHaveRows' BY <1>1 DEF RunInv, JobsHaveRows
<1>13. PlanIsOpen' BY <1>1, <1>3, <1>6, <1>7 DEF RunInv, PlanIsOpen, Begun, Exists
<1>14. TargetsDiffer' /\ RestHasNoPlan' /\ CleanupFollowsImport'
  BY <1>6 DEF RunInv, TargetsDiffer, RestHasNoPlan, CleanupFollowsImport
<1>15. InHandIsNew'
  BY <1>1, <1>4, <1>6, <1>7, <1>11 DEF InHandIsNew, Exists, Rows
<1> QED BY <1>8, <1>9, <1>10, <1>11, <1>12, <1>13, <1>14, <1>15 DEF RunInv

LEMMA VerifyKeepsRunInv ==
  ASSUME RunInv, VerifyDestHash
  PROVE  RunInv'
<1>1. /\ UNCHANGED <<card, made, freed, mounted, imported, job, awaits, remote, faults>>
      /\ run.at = "verify"
  BY DEF VerifyDestHash, onCard, ledger
<1>2. /\ run.cur \in run.todo /\ run.cur \in Recordings /\ run.todo \subseteq Recordings
      /\ Target \in Dests
      /\ \A r \in run.todo \ {run.cur} : run.target[r] \in Dests /\ run.target[r] # Target
  BY <1>1, AtFile
<1>3. run \in Run /\ local \in [Dests -> File \cup {NoFile}] BY DEF RunInv, TypeOK
<1>4. JobsHaveRows' BY <1>1 DEF RunInv, JobsHaveRows
<1>5. CASE local[Target].good
  <2>1. UNCHANGED local /\ run' = [run EXCEPT !.at = "commit"] BY <1>5 DEF VerifyDestHash
  <2>2. /\ run' \in Run /\ run'.at = "commit"
        /\ run'.todo = run.todo /\ run'.cur = run.cur /\ run'.target = run.target
        /\ Target' = Target
    BY <1>3, <2>1 DEF Run, RunStep, Target
  <2>3. TypeOK' BY <1>1, <1>2, <2>1, <2>2 DEF RunInv, TypeOK
  <2>4. OrphansAreFaults'
    <3>1. Orphans' = Orphans BY <1>1, <2>1, <2>2 DEF Orphans, Taken, Exists, Rows, InHand
    <3> QED BY <1>1, <3>1, OrphansShrink DEF RunInv, TypeOK
  <2>5. NamesAreKept' /\ RowsHaveFiles'
    BY <1>1, <2>1 DEF RunInv, NamesAreKept, RowsHaveFiles, Exists
  <2>6. PlanIsOpen' BY <1>1, <2>1, <2>2 DEF RunInv, PlanIsOpen, Begun, Exists
  <2>7. TargetsDiffer' /\ RestHasNoPlan' /\ CleanupFollowsImport'
    BY <2>2 DEF RunInv, TargetsDiffer, RestHasNoPlan, CleanupFollowsImport
  <2>8. InHandIsNew' BY <1>1, <2>1, <2>2 DEF RunInv, InHandIsNew, Exists, Rows
  <2> QED BY <1>4, <2>3, <2>4, <2>5, <2>6, <2>7, <2>8 DEF RunInv
<1>6. CASE ~local[Target].good
  <2>1. run' = NextFile /\ local' = [local EXCEPT ![Target] = NoFile]
    BY <1>6 DEF VerifyDestHash
  <2>2. /\ \A d \in Dests \ {Target} : local'[d] = local[d]
        /\ local'[Target] = NoFile
        /\ local' \in [Dests -> File \cup {NoFile}]
    BY <1>2, <1>3, <2>1
  <2>3. /\ run' \in Run
        /\ IF run'.at \in {"idle", "end"} THEN run'.cur = 0 ELSE run'.cur \in run'.todo
        /\ InHand' = {}
        /\ PlanIsOpen' /\ TargetsDiffer' /\ RestHasNoPlan'
        /\ InHandIsNew' /\ CleanupFollowsImport'
    BY <1>1, <1>2, <2>1, <2>2, NextFileKeepsPlan
  <2>4. TypeOK' BY <1>1, <2>2, <2>3 DEF RunInv, TypeOK
  <2>5. OrphansAreFaults'
    <3>1. Orphans' \subseteq Orphans
      <4>1. Taken' \subseteq Taken \ {Target} BY <2>2 DEF Taken, Exists
      <4>2. Rows' = Rows /\ InHand = {Target} BY <1>1 DEF Rows, InHand
      <4> QED BY <2>3, <4>1, <4>2 DEF Orphans
    <3> QED BY <1>1, <3>1, OrphansShrink DEF RunInv, TypeOK
  <2>6. NamesAreKept' BY <2>2 DEF RunInv, NamesAreKept, Exists
  <2>7. RowsHaveFiles'
    <3>1. ASSUME NEW r \in Recordings, imported[r] # NoDest
          PROVE  imported[r] \in Dests /\ Exists(imported[r]) /\ imported[r] # Target
      BY <1>1, <3>1 DEF RunInv, TypeOK, RowsHaveFiles, InHandIsNew, Rows
    <3> QED BY <1>1, <2>2, <3>1 DEF RowsHaveFiles, Exists
  <2> QED BY <1>4, <2>3, <2>4, <2>5, <2>6, <2>7 DEF RunInv
<1> QED BY <1>5, <1>6

LEMMA LeftBehindKeepsRunInv ==
  ASSUME RunInv, LeftBehind
  PROVE  RunInv'
<1>1. /\ UNCHANGED <<card, made, freed, mounted, local, imported, job, awaits, remote>>
      /\ run.at \in {"verify", "commit"} /\ run' = NextFile
      /\ faults' = faults + 1 /\ faults < MaxFaults
      /\ faults \in 0..MaxFaults /\ MaxFaults \in Nat
  BY OptionsAssumption DEF LeftBehind, onCard, ledger, RunInv, TypeOK
<1>2. /\ run' \in Run
      /\ IF run'.at \in {"idle", "end"} THEN run'.cur = 0 ELSE run'.cur \in run'.todo
      /\ InHand' = {}
      /\ PlanIsOpen' /\ TargetsDiffer' /\ RestHasNoPlan'
      /\ InHandIsNew' /\ CleanupFollowsImport'
  BY <1>1, NextFileKeepsPlan
<1>3. TypeOK' BY <1>1, <1>2 DEF RunInv, TypeOK
<1>4. OrphansAreFaults'
  <2>1. Orphans' \subseteq Orphans \cup {Target}
    BY <1>1 DEF Orphans, Taken, Exists, Rows, InHand
  <2> QED BY <1>1, <2>1, OrphanByFault DEF RunInv
<1>5. NamesAreKept' /\ RowsHaveFiles' /\ JobsHaveRows'
  BY <1>1 DEF RunInv, NamesAreKept, RowsHaveFiles, JobsHaveRows, Exists
<1> QED BY <1>2, <1>3, <1>4, <1>5 DEF RunInv

LEMMA CommitKeepsRunInv ==
  ASSUME RunInv, CommitImported
  PROVE  RunInv'
<1>1. /\ UNCHANGED <<card, made, freed, mounted, local, remote, faults>>
      /\ run.at = "commit" /\ RecordImport(Target)
  BY DEF CommitImported, onCard
<1>2. /\ run.cur \in run.todo /\ run.cur \in Recordings /\ run.todo \subseteq Recordings
      /\ Target \in Dests /\ Target # NoDest /\ Exists(Target)
      /\ imported[run.cur] = NoDest /\ run.cur \in card
  BY <1>1, AtFile DEF RunInv, InHandIsNew
<1>3. /\ imported' \in [Recordings -> Dests \cup {NoDest}]
      /\ job' \in [Recordings -> {"none", "pending", "sweep", "done"}]
      /\ awaits' \subseteq made
      /\ Rows \subseteq Rows' \cup {NoDest}
      /\ Target \in Rows'
      /\ \A q \in Recordings \ {run.cur} : imported'[q] = imported[q]
      /\ imported'[run.cur] = Target
      /\ NamesAreKept' /\ RowsHaveFiles' /\ JobsHaveRows'
  BY <1>1, <1>2, RecordKeepsRows
<1>4. ASSUME InHand' = {} PROVE OrphansAreFaults'
  <2>1. Orphans' \subseteq Orphans
    <3>1. NoDest \notin Taken BY FilesAssumption DEF Taken
    <3>2. Taken' = Taken /\ InHand = {Target} BY <1>1 DEF Taken, Exists, InHand
    <3> QED BY <1>3, <1>4, <3>1, <3>2 DEF Orphans
  <2> QED BY <1>1, <2>1, OrphansShrink DEF RunInv, TypeOK
<1>5. CASE run.delete /\ ShouldDeleteCard(run.mode)
  <2>1. run' = [run EXCEPT !.at = "cleanup"] BY <1>5 DEF CommitImported
  <2>2. run \in Run BY DEF RunInv, TypeOK
  <2>3. /\ run' \in Run /\ run'.at = "cleanup"
        /\ run'.todo = run.todo /\ run'.cur = run.cur /\ run'.target = run.target
    BY <2>1, <2>2 DEF Run, RunStep
  <2>4. InHand' = {} BY <2>3 DEF InHand
  <2>5. TypeOK' BY <1>1, <1>2, <1>3, <2>3 DEF RunInv, TypeOK
  <2>6. PlanIsOpen' BY <1>1, <1>2, <1>3, <2>3 DEF RunInv, PlanIsOpen, Begun, Exists
  <2>7. TargetsDiffer' /\ RestHasNoPlan' /\ InHandIsNew'
    BY <2>3 DEF RunInv, TargetsDiffer, RestHasNoPlan, InHandIsNew
  <2>8. CleanupFollowsImport'
    <3>1. run.mode # "Auto" BY <1>5 DEF ShouldDeleteCard
    <3>2. run.cur \notin awaits' BY <1>1, <1>2, <3>1 DEF RunInv, JobsHaveRows, RecordImport
    <3> QED BY <1>2, <1>3, <2>3, <3>2 DEF CleanupFollowsImport
  <2> QED BY <1>3, <1>4, <2>4, <2>5, <2>6, <2>7, <2>8 DEF RunInv
<1>6. CASE ~(run.delete /\ ShouldDeleteCard(run.mode))
  <2>1. run' = NextFile BY <1>6 DEF CommitImported
  <2>2. /\ run' \in Run
        /\ IF run'.at \in {"idle", "end"} THEN run'.cur = 0 ELSE run'.cur \in run'.todo
        /\ InHand' = {}
        /\ PlanIsOpen' /\ TargetsDiffer' /\ RestHasNoPlan'
        /\ InHandIsNew' /\ CleanupFollowsImport'
    BY <1>1, <1>2, <1>3, <2>1, NextFileKeepsPlan
  <2>3. TypeOK' BY <1>1, <1>3, <2>2 DEF RunInv, TypeOK
  <2> QED BY <1>3, <1>4, <2>2, <2>3 DEF RunInv
<1> QED BY <1>5, <1>6

LEMMA RemoveSourceKeepsRunInv ==
  ASSUME RunInv, RemoveSource
  PROVE  RunInv'
<1>1. /\ UNCHANGED <<made, mounted, local, imported, job, awaits, remote, faults>>
      /\ run.at = "cleanup" /\ run' = NextFile
      /\ card' \in {card, card \ {run.cur}}
      /\ freed' = freed \cup (card \ card')
      /\ imported[run.cur] # NoDest /\ card \subseteq made /\ freed \subseteq made
  BY DEF RemoveSource, ledger, RunInv, TypeOK, CleanupFollowsImport
<1>2. card' \subseteq made /\ freed' \subseteq made /\ freed' \subseteq freed \cup {run.cur}
  BY <1>1
<1>3. /\ run' \in Run
      /\ IF run'.at \in {"idle", "end"} THEN run'.cur = 0 ELSE run'.cur \in run'.todo
      /\ InHand' = {}
      /\ PlanIsOpen' /\ TargetsDiffer' /\ RestHasNoPlan'
      /\ InHandIsNew' /\ CleanupFollowsImport'
  BY <1>1, NextFileKeepsPlan
<1>4. TypeOK' BY <1>1, <1>2, <1>3 DEF RunInv, TypeOK
<1>5. OrphansAreFaults'
  <2>1. Orphans' = Orphans BY <1>1, <1>3 DEF Orphans, Taken, Exists, Rows, InHand
  <2> QED BY <1>1, <2>1, OrphansShrink DEF RunInv, TypeOK
<1>6. NamesAreKept' /\ RowsHaveFiles' BY <1>1 DEF RunInv, NamesAreKept, RowsHaveFiles, Exists
<1>7. JobsHaveRows' BY <1>1, <1>2 DEF RunInv, JobsHaveRows
<1> QED BY <1>3, <1>4, <1>5, <1>6, <1>7 DEF RunInv

LEMMA InitRunInv == Init => RunInv
<1> SUFFICES ASSUME Init PROVE RunInv
  OBVIOUS
<1>1. MaxFaults \in Nat /\ 0 \in 0..MaxFaults BY OptionsAssumption
<1>2. TypeOK BY <1>1, IdleIsRun DEF Init, TypeOK, Idle
<1>3. ~\E d \in Dests : Exists(d) BY DEF Init, Exists
<1>4. OrphansAreFaults
  <2>1. Orphans = {} BY <1>3 DEF Orphans, Taken
  <2> QED BY <2>1, FS_EmptySet DEF Init, OrphansAreFaults
<1> QED
  BY <1>2, <1>3, <1>4
     DEF Init, Idle, RunInv, NamesAreKept, RowsHaveFiles, JobsHaveRows, PlanIsOpen,
         TargetsDiffer, RestHasNoPlan, InHandIsNew, CleanupFollowsImport

LEMMA StutterKeepsRunInv ==
  ASSUME RunInv, UNCHANGED vars
  PROVE  RunInv'
<1>1. /\ UNCHANGED <<local, imported, job, awaits, freed, run, faults, card>>
      /\ TypeOK'
  BY DEF vars, RunInv, TypeOK
<1> QED BY <1>1, BesideTheRun DEF RunInv, JobsHaveRows, CleanupFollowsImport

LEMMA NextRunInv == RunInv /\ [Next]_vars => RunInv'
<1> SUFFICES ASSUME RunInv, [Next]_vars PROVE RunInv'
  OBVIOUS
<1>1. CASE Mount \/ PullCard \/ \E r \in Recordings : Record(r) \/ Erase(r)
  BY <1>1, UserKeepsRunInv
<1>2. ASSUME NEW r \in Recordings, CloudMirrors(r) \/ SweepCard(r) PROVE RunInv'
  BY <1>2, WorkerKeepsRunInv
<1>3. CASE RunOffload
  BY <1>3, StartRunKeepsRunInv, AdoptRecoveredKeepsRunInv, CopyPersistsKeepsRunInv,
     CopyFailsKeepsRunInv, VerifyKeepsRunInv, LeftBehindKeepsRunInv, CommitKeepsRunInv,
     RemoveSourceKeepsRunInv, EndOfRunKeepsRunInv
     DEF RunOffload
<1>4. CASE Crash BY <1>4, CrashKeepsRunInv
<1>5. CASE UNCHANGED vars BY <1>5, StutterKeepsRunInv
<1> QED BY <1>1, <1>2, <1>3, <1>4, <1>5 DEF Next

\* Every state of an offload satisfies the invariant of a run: the files on disk are the
\* rows', the one in hand, or as many as there were faults, and every file of the plan has
\* a name that is free or its own (run_offload_with_ejector, resolve_collision).
THEOREM RunInvHolds == Spec => []RunInv
BY InitRunInv, NextRunInv, PTL DEF Spec

\* Every value keeps its type in any run, verified or not: in particular the names of a
\* plan resolve to destinations, however many files faults left behind.
THEOREM TypeCorrect == Spec => []TypeOK
<1>1. RunInv => TypeOK BY DEF RunInv
<1> QED BY <1>1, RunInvHolds, PTL

-----------------------------------------------------------------------------
(* Every step keeps what verification adds.                                *)

\* A whole file is the copy of one recording.
LEMMA RowsAreDistinct ==
  ASSUME VerifiedInv, NEW r \in Recordings, NEW q \in Recordings,
         imported[r] # NoDest, imported[r] = imported[q]
  PROVE  r = q
<1>1. Whole(r) = Whole(q) BY DEF VerifiedInv, ImportedIsHeld, HeldWhole
<1> QED BY <1>1 DEF Whole

LEMMA WholeIsFile ==
  ASSUME NEW r \in Recordings
  PROVE  Whole(r) \in File /\ Whole(r) # NoFile
<1>1. Whole(r) \in File BY DEF Whole, File
<1>2. NoFile \notin File BY FilesAssumption DEF File
<1> QED BY <1>1, <1>2

LEMMA NextFileVerifies ==
  ASSUME VerifiedInv, run.at \notin {"idle", "end"}, run' = NextFile
  PROVE  RunVerifies' /\ CommitIsWhole'
<1>1. run.verify BY DEF VerifiedInv, RunVerifies
<1>2. TypeOK /\ run.todo \ {run.cur} \in SUBSET run.todo BY DEF VerifiedInv, RunInv
<1>3. run'.at \in {"item", "end"} /\ (run'.at = "item" => run'.verify)
  BY <1>1, <1>2, GoOn DEF NextFile
<1> QED BY <1>3 DEF RunVerifies, CommitIsWhole

\* A step that leaves files, rows, jobs and objects alone.
LEMMA FilesStayVerified ==
  ASSUME VerifiedInv, RunInv', UNCHANGED <<local, imported, job, remote, awaits, freed>>,
         RunVerifies', CommitIsWhole'
  PROVE  VerifiedInv'
BY DEF VerifiedInv, ImportedIsHeld, ObjectsAreMirrors, MirrorsAreWhole, FreedIsSafe,
       HeldWhole, MirroredWhole, RemotePath

LEMMA RunStaysVerified ==
  ASSUME VerifiedInv, UNCHANGED <<local, run>>
  PROVE  RunVerifies' /\ CommitIsWhole'
BY DEF VerifiedInv, RunVerifies, CommitIsWhole, Target

LEMMA UserKeepsVerified ==
  ASSUME VerifiedInv, RunInv', Mount \/ PullCard \/ \E r \in Recordings : Record(r) \/ Erase(r)
  PROVE  VerifiedInv'
<1>1. UNCHANGED <<local, imported, job, remote, awaits, freed, run>>
  BY DEF Mount, PullCard, Record, Erase, onCard, ledger
<1> QED BY <1>1, RunStaysVerified, FilesStayVerified

LEMMA CloudMirrorsKeepsVerified ==
  ASSUME VerifiedInv, RunInv', NEW r \in Recordings, CloudMirrors(r)
  PROVE  VerifiedInv'
<1>1. /\ UNCHANGED <<local, imported, awaits, freed, run>>
      /\ job[r] = "pending"
      /\ job \in [Recordings -> {"none", "pending", "sweep", "done"}]
      /\ remote \in [Dests -> File \cup {NoFile}]
  BY DEF CloudMirrors, onCard, VerifiedInv, RunInv, TypeOK
<1>2. /\ imported[r] # NoDest /\ imported[r] \in Dests
      /\ local[imported[r]] = Whole(r)
  BY <1>1 DEF VerifiedInv, RunInv, TypeOK, JobsHaveRows, ImportedIsHeld, HeldWhole
<1>3. remote[imported[r]] = NoFile
  <2> SUFFICES ASSUME remote[imported[r]] # NoFile PROVE FALSE
    OBVIOUS
  <2>1. PICK q \in Recordings : imported[q] = imported[r] /\ MirroredWhole(q)
    BY <1>2 DEF VerifiedInv, ObjectsAreMirrors
  <2>2. q = r BY <1>2, <2>1, RowsAreDistinct
  <2> QED BY <1>1, <2>1, <2>2 DEF MirroredWhole
<1>4. /\ remote' = [remote EXCEPT ![imported[r]] = Whole(r)]
      /\ \A q \in Recordings \ {r} : job'[q] = job[q]
      /\ job'[r] \in {"sweep", "done"}
  BY <1>1, <1>2, <1>3 DEF CloudMirrors, RemotePath
<1>5. remote'[imported[r]] = Whole(r) /\ \A d \in Dests \ {imported[r]} : remote'[d] = remote[d]
  BY <1>1, <1>2, <1>4
<1>6. MirroredWhole(r)' BY <1>1, <1>4, <1>5 DEF MirroredWhole, RemotePath
<1>7. ASSUME NEW q \in Recordings \ {r}, MirroredWhole(q)
      PROVE  MirroredWhole(q)'
  <2>1. imported[q] # NoDest /\ imported[q] \in Dests
    BY <1>7 DEF VerifiedInv, RunInv, TypeOK, JobsHaveRows, MirroredWhole
  <2>2. imported[q] # imported[r] BY <2>1, RowsAreDistinct
  <2> QED BY <1>1, <1>4, <1>5, <1>7, <2>1, <2>2 DEF MirroredWhole, RemotePath
<1>8. MirrorsAreWhole' BY <1>4, <1>6, <1>7 DEF VerifiedInv, MirrorsAreWhole
<1>9. ObjectsAreMirrors'
  <2> SUFFICES ASSUME NEW d \in Dests, remote'[d] # NoFile
               PROVE  \E q \in Recordings : imported'[q] = d /\ MirroredWhole(q)'
    BY DEF ObjectsAreMirrors
  <2>1. CASE d = imported[r] BY <1>1, <1>6, <2>1
  <2>2. CASE d # imported[r]
    <3>1. PICK q \in Recordings : imported[q] = d /\ MirroredWhole(q)
      BY <1>5, <2>2 DEF VerifiedInv, ObjectsAreMirrors
    <3> QED BY <1>1, <1>7, <2>2, <3>1
  <2> QED BY <2>1, <2>2
<1>10. ImportedIsHeld' BY <1>1 DEF VerifiedInv, ImportedIsHeld, HeldWhole
<1>11. FreedIsSafe'
  <2> SUFFICES ASSUME NEW q \in freed PROVE HeldWhole(q)' /\ (q \in awaits => MirroredWhole(q)')
    BY <1>1 DEF FreedIsSafe
  <2>1. q \in Recordings BY DEF VerifiedInv, RunInv, TypeOK
  <2>2. HeldWhole(q) /\ (q \in awaits => MirroredWhole(q)) BY DEF VerifiedInv, FreedIsSafe
  <2> QED BY <1>1, <1>6, <1>7, <2>1, <2>2 DEF HeldWhole
<1>12. RunVerifies' /\ CommitIsWhole' BY <1>1, RunStaysVerified
<1> QED BY <1>8, <1>9, <1>10, <1>11, <1>12 DEF VerifiedInv

\* The sweep comes after the upload of the same recording.
LEMMA SweepCardKeepsVerified ==
  ASSUME VerifiedInv, RunInv', NEW r \in Recordings, SweepCard(r)
  PROVE  VerifiedInv'
<1>1. /\ UNCHANGED <<local, imported, awaits, remote, run>>
      /\ job[r] = "sweep"
      /\ job' = [job EXCEPT ![r] = "done"]
      /\ freed' \subseteq freed \cup {r}
      /\ job \in [Recordings -> {"none", "pending", "sweep", "done"}]
  BY DEF SweepCard, VerifiedInv, RunInv, TypeOK
<1>2. \A q \in Recordings : job'[q] \in {"sweep", "done"} <=> job[q] \in {"sweep", "done"}
  BY <1>1
<1>3. \A q \in Recordings : (MirroredWhole(q) <=> MirroredWhole(q)') /\ (HeldWhole(q) <=> HeldWhole(q)')
  BY <1>1, <1>2 DEF MirroredWhole, HeldWhole, RemotePath
<1>4. MirrorsAreWhole' BY <1>2, <1>3 DEF VerifiedInv, MirrorsAreWhole
<1>5. ObjectsAreMirrors' BY <1>1, <1>3 DEF VerifiedInv, ObjectsAreMirrors
<1>6. ImportedIsHeld' BY <1>1, <1>3 DEF VerifiedInv, ImportedIsHeld
<1>7. FreedIsSafe'
  <2>1. imported[r] # NoDest BY <1>1 DEF VerifiedInv, RunInv, JobsHaveRows
  <2>2. HeldWhole(r) /\ MirroredWhole(r)
    BY <1>1, <2>1 DEF VerifiedInv, ImportedIsHeld, MirrorsAreWhole
  <2>3. freed \subseteq Recordings BY DEF VerifiedInv, RunInv, TypeOK
  <2> QED BY <1>1, <1>3, <2>2, <2>3 DEF VerifiedInv, FreedIsSafe
<1>8. RunVerifies' /\ CommitIsWhole' BY <1>1, RunStaysVerified
<1> QED BY <1>4, <1>5, <1>6, <1>7, <1>8 DEF VerifiedInv

LEMMA StartRunKeepsVerified ==
  ASSUME Verifying, VerifiedInv, RunInv', StartRun
  PROVE  VerifiedInv'
<1>1. UNCHANGED <<local, imported, job, remote, awaits, freed>> BY DEF StartRun, onCard, ledger
<1>2. PICK mode \in Modes, delete \in BOOLEAN, verify \in Verifies :
        LET plan == {r \in card : imported[r] = NoDest} IN
        run' = [Idle EXCEPT
           !.at = IF plan = {} THEN "end" ELSE "item",
           !.mode = mode, !.delete = delete, !.verify = verify, !.todo = plan,
           !.target = [r \in Recordings |-> IF r \in plan THEN Resolved(r, plan) ELSE NoDest],
           !.cur = IF plan = {} THEN 0 ELSE First(plan)]
  BY Zenon DEF StartRun
<1>3. run'.verify = verify /\ run'.at \in {"end", "item"} BY <1>2 DEF Idle
<1>4. RunVerifies' /\ CommitIsWhole'
  BY <1>3 DEF Verifying, RunVerifies, CommitIsWhole
<1> QED BY <1>1, <1>4, FilesStayVerified

\* A row that names a whole file of its recording.
LEMMA RecordKeepsVerified ==
  ASSUME VerifiedInv, RunInv', RunVerifies', CommitIsWhole',
         run.at \in {"item", "commit"},
         NEW dest \in Dests, local[dest] = Whole(run.cur), RecordImport(dest),
         UNCHANGED <<local, remote, freed>>
  PROVE  VerifiedInv'
<1>1. /\ run.cur \in Recordings /\ imported[run.cur] = NoDest
      /\ imported \in [Recordings -> Dests \cup {NoDest}]
      /\ job \in [Recordings -> {"none", "pending", "sweep", "done"}]
      /\ job[run.cur] = "none"
  BY AtFile DEF VerifiedInv, RunInv, TypeOK, JobsHaveRows
<1>2. /\ \A q \in Recordings \ {run.cur} : imported'[q] = imported[q] /\ job'[q] = job[q]
      /\ imported'[run.cur] = dest /\ job'[run.cur] \in {"none", "pending"}
      /\ awaits' \subseteq awaits \cup {run.cur}
  BY <1>1 DEF RecordImport
<1>3. \A q \in Recordings \ {run.cur} :
        (MirroredWhole(q) <=> MirroredWhole(q)') /\ (HeldWhole(q) <=> HeldWhole(q)')
  BY <1>2 DEF MirroredWhole, HeldWhole, RemotePath
<1>4. ~MirroredWhole(run.cur) BY <1>1 DEF MirroredWhole
<1>5. dest # NoDest BY FilesAssumption
<1>6. ImportedIsHeld'
  BY <1>2, <1>3, <1>5 DEF VerifiedInv, ImportedIsHeld, HeldWhole
<1>7. MirrorsAreWhole' BY <1>2, <1>3 DEF VerifiedInv, MirrorsAreWhole
<1>8. ObjectsAreMirrors' BY <1>2, <1>3, <1>4 DEF VerifiedInv, ObjectsAreMirrors
<1>9. FreedIsSafe'
  <2>1. freed \subseteq Recordings \ {run.cur}
    BY <1>1 DEF VerifiedInv, RunInv, TypeOK, JobsHaveRows
  <2> QED BY <1>2, <1>3, <2>1 DEF VerifiedInv, FreedIsSafe
<1> QED BY <1>6, <1>7, <1>8, <1>9 DEF VerifiedInv

LEMMA AdoptRecoveredKeepsVerified ==
  ASSUME VerifiedInv, RunInv', AdoptRecovered
  PROVE  VerifiedInv'
<1> DEFINE dest == Canonical(run.cur)
<1>1. /\ UNCHANGED <<local, remote, freed>>
      /\ run.at = "item" /\ run' = NextFile /\ RecordImport(dest)
  BY DEF AdoptRecovered, onCard
<1>2. local[dest] = Whole(run.cur)
  BY <1>1 DEF AdoptRecovered, CanAdopt, MatchingHash, VerifiedInv, RunVerifies
<1>3. dest \in Dests
  <2>1. run.cur \in Recordings BY <1>1, AtFile DEF VerifiedInv
  <2> QED BY <2>1, CanonicalIsDest
<1>4. RunVerifies' /\ CommitIsWhole' BY <1>1, NextFileVerifies
<1> QED BY <1>1, <1>2, <1>3, <1>4, RecordKeepsVerified

LEMMA CommitKeepsVerified ==
  ASSUME VerifiedInv, RunInv', CommitImported
  PROVE  VerifiedInv'
<1>1. /\ UNCHANGED <<local, remote, freed>>
      /\ run.at = "commit" /\ RecordImport(Target)
  BY DEF CommitImported, onCard
<1>2. local[Target] = Whole(run.cur) BY <1>1 DEF VerifiedInv, CommitIsWhole
<1>3. Target \in Dests BY <1>1, AtFile DEF VerifiedInv
<1>4. RunVerifies' /\ CommitIsWhole'
  <2>1. CASE run' = NextFile BY <1>1, <2>1, NextFileVerifies
  <2>2. CASE run' = [run EXCEPT !.at = "cleanup"]
    <3>1. run \in Run BY DEF VerifiedInv, RunInv, TypeOK
    <3>2. run'.at = "cleanup" /\ run'.verify = run.verify BY <2>2, <3>1 DEF Run
    <3> QED BY <1>1, <3>2 DEF VerifiedInv, RunVerifies, CommitIsWhole
  <2> QED BY <2>1, <2>2 DEF CommitImported
<1> QED BY <1>1, <1>2, <1>3, <1>4, RecordKeepsVerified

\* A copy replaces, and a failed verification removes, no file that a row names.
LEMMA CopyKeepsVerified ==
  ASSUME VerifiedInv, RunInv', RunVerifies', CommitIsWhole',
         \A r \in Recordings : imported[r] # NoDest => local'[imported[r]] = local[imported[r]],
         UNCHANGED <<imported, job, remote, awaits, freed>>
  PROVE  VerifiedInv'
<1>1. \A r \in Recordings :
        (HeldWhole(r) <=> HeldWhole(r)') /\ (MirroredWhole(r) <=> MirroredWhole(r)')
  BY DEF HeldWhole, MirroredWhole, RemotePath
<1>2. freed \subseteq Recordings BY DEF VerifiedInv, RunInv, TypeOK
<1> QED BY <1>1, <1>2 DEF VerifiedInv, ImportedIsHeld, ObjectsAreMirrors, MirrorsAreWhole, FreedIsSafe

LEMMA CopyPersistsKeepsVerified ==
  ASSUME VerifiedInv, RunInv', CopyPersists
  PROVE  VerifiedInv'
<1>1. /\ UNCHANGED <<imported, job, remote, awaits, freed>>
      /\ run.at = "item"
      /\ run' = [run EXCEPT !.at = IF run.verify THEN "verify" ELSE "commit"]
      /\ \E copy \in Copies : local' = [local EXCEPT ![Target] = copy]
  BY DEF CopyPersists, onCard, ledger
<1>2. run.verify /\ run \in Run BY <1>1 DEF VerifiedInv, RunVerifies, RunInv, TypeOK
<1>3. run'.at = "verify" /\ run'.verify = run.verify BY <1>1, <1>2 DEF Run
<1>4. RunVerifies' /\ CommitIsWhole' BY <1>2, <1>3 DEF RunVerifies, CommitIsWhole
<1>5. ASSUME NEW r \in Recordings, imported[r] # NoDest
      PROVE  local'[imported[r]] = local[imported[r]]
  <2>1. ~Exists(Target) BY <1>1, AtFile DEF VerifiedInv
  <2>2. Exists(imported[r]) /\ imported[r] \in Dests
    BY <1>5 DEF VerifiedInv, RunInv, RowsHaveFiles, TypeOK
  <2>3. local \in [Dests -> File \cup {NoFile}] BY DEF VerifiedInv, RunInv, TypeOK
  <2> QED BY <1>1, <2>1, <2>2, <2>3
<1> QED BY <1>1, <1>4, <1>5, CopyKeepsVerified

LEMMA VerifyKeepsVerified ==
  ASSUME VerifiedInv, RunInv', VerifyDestHash
  PROVE  VerifiedInv'
<1>1. /\ UNCHANGED <<imported, job, remote, awaits, freed>>
      /\ run.at = "verify"
  BY DEF VerifyDestHash, onCard, ledger
<1>2. local \in [Dests -> File \cup {NoFile}] /\ run \in Run
  BY DEF VerifiedInv, RunInv, TypeOK
<1>3. Target \in Dests /\ run.cur \in Recordings BY <1>1, AtFile DEF VerifiedInv
<1>4. CASE local[Target].good
  <2>1. UNCHANGED local /\ run' = [run EXCEPT !.at = "commit"] BY <1>4 DEF VerifyDestHash
  <2>2. /\ run'.at = "commit" /\ run'.verify = run.verify
        /\ run'.cur = run.cur /\ Target' = Target
    BY <1>2, <2>1 DEF Run, Target
  <2>3. local[Target] \in File /\ local[Target].of = run.cur
    BY <1>1, <1>2, <1>3 DEF VerifiedInv, RunInv, InHandIsNew, Exists
  <2>4. local[Target] = Whole(run.cur) BY <1>4, <2>3 DEF File, Whole
  <2>5. RunVerifies' /\ CommitIsWhole'
    BY <1>1, <2>1, <2>2, <2>4 DEF VerifiedInv, RunVerifies, CommitIsWhole
  <2> QED BY <1>1, <2>1, <2>5, FilesStayVerified
<1>5. CASE ~local[Target].good
  <2>1. run' = NextFile /\ local' = [local EXCEPT ![Target] = NoFile]
    BY <1>5 DEF VerifyDestHash
  <2>2. ASSUME NEW r \in Recordings, imported[r] # NoDest
        PROVE  local'[imported[r]] = local[imported[r]]
    <3>1. imported[r] # Target /\ imported[r] \in Dests
      BY <1>1, <2>2 DEF VerifiedInv, RunInv, InHandIsNew, Rows, TypeOK
    <3> QED BY <1>2, <2>1, <3>1
  <2>3. RunVerifies' /\ CommitIsWhole' BY <1>1, <2>1, NextFileVerifies
  <2> QED BY <1>1, <2>2, <2>3, CopyKeepsVerified
<1> QED BY <1>4, <1>5

LEMMA NextFileKeepsVerified ==
  ASSUME VerifiedInv, RunInv', CopyFails \/ LeftBehind
  PROVE  VerifiedInv'
<1>1. /\ UNCHANGED <<local, imported, job, remote, awaits, freed>>
      /\ run.at \notin {"idle", "end"} /\ run' = NextFile
  BY DEF CopyFails, LeftBehind, onCard, ledger
<1> QED BY <1>1, NextFileVerifies, FilesStayVerified

\* The source is removed after the copy was verified and recorded, and not under Auto.
LEMMA RemoveSourceKeepsVerified ==
  ASSUME VerifiedInv, RunInv', RemoveSource
  PROVE  VerifiedInv'
<1>1. /\ UNCHANGED <<local, imported, job, remote, awaits>>
      /\ run.at = "cleanup" /\ run' = NextFile
      /\ freed' \subseteq freed \cup {run.cur}
  BY DEF RemoveSource, ledger
<1>2. RunVerifies' /\ CommitIsWhole' BY <1>1, NextFileVerifies
<1>3. \A r \in Recordings :
        (HeldWhole(r) <=> HeldWhole(r)') /\ (MirroredWhole(r) <=> MirroredWhole(r)')
  BY <1>1 DEF HeldWhole, MirroredWhole, RemotePath
<1>4. run.cur \in Recordings /\ HeldWhole(run.cur) /\ run.cur \notin awaits
  BY <1>1, AtFile DEF VerifiedInv, RunInv, CleanupFollowsImport, ImportedIsHeld
<1>5. freed \subseteq Recordings BY DEF VerifiedInv, RunInv, TypeOK
<1>6. FreedIsSafe' BY <1>1, <1>3, <1>4, <1>5 DEF VerifiedInv, FreedIsSafe
<1> QED BY <1>1, <1>2, <1>3, <1>6
       DEF VerifiedInv, ImportedIsHeld, ObjectsAreMirrors, MirrorsAreWhole

LEMMA RunEndsVerified ==
  ASSUME VerifiedInv, RunInv', EndOfRun \/ Crash
  PROVE  VerifiedInv'
<1>1. UNCHANGED <<local, imported, job, remote, awaits, freed>> /\ run' = Idle
  BY DEF EndOfRun, Crash, onCard, ledger
<1>2. RunVerifies' /\ CommitIsWhole' BY <1>1 DEF Idle, RunVerifies, CommitIsWhole
<1> QED BY <1>1, <1>2, FilesStayVerified

LEMMA InitVerifiedInv == Init => VerifiedInv
<1> SUFFICES ASSUME Init PROVE VerifiedInv
  OBVIOUS
<1> QED
  BY InitRunInv
     DEF Init, Idle, VerifiedInv, RunVerifies, CommitIsWhole, ImportedIsHeld,
         ObjectsAreMirrors, MirrorsAreWhole, FreedIsSafe

LEMMA NextVerifiedInv ==
  ASSUME Verifying
  PROVE  VerifiedInv /\ [Next]_vars => VerifiedInv'
<1> SUFFICES ASSUME VerifiedInv, [Next]_vars PROVE VerifiedInv'
  OBVIOUS
<1>1. RunInv' BY NextRunInv DEF VerifiedInv
<1>2. CASE Mount \/ PullCard \/ \E r \in Recordings : Record(r) \/ Erase(r)
  BY <1>1, <1>2, UserKeepsVerified
<1>3. ASSUME NEW r \in Recordings, CloudMirrors(r) \/ SweepCard(r) PROVE VerifiedInv'
  BY <1>1, <1>3, CloudMirrorsKeepsVerified, SweepCardKeepsVerified
<1>4. CASE RunOffload
  BY <1>1, <1>4, StartRunKeepsVerified, AdoptRecoveredKeepsVerified,
     CopyPersistsKeepsVerified, VerifyKeepsVerified, NextFileKeepsVerified,
     CommitKeepsVerified, RemoveSourceKeepsVerified, RunEndsVerified
     DEF RunOffload
<1>5. CASE Crash BY <1>1, <1>5, RunEndsVerified
<1>6. CASE UNCHANGED vars
  <2>1. UNCHANGED <<local, imported, job, remote, awaits, freed, run>> BY <1>6 DEF vars
  <2> QED BY <1>1, <2>1, RunStaysVerified, FilesStayVerified
<1> QED BY <1>2, <1>3, <1>4, <1>5, <1>6 DEF Next

\* With verification on, copies about to be recorded are whole, and so are the objects in
\* the cloud (copy_verified, commit_imported).
THEOREM VerifiedInvHolds == Verifying => (Spec => []VerifiedInv)
<1> SUFFICES ASSUME Verifying PROVE Spec => []VerifiedInv
  OBVIOUS
<1> QED BY InitVerifiedInv, NextVerifiedInv, PTL DEF Spec

\* With verification on, a file the ledger calls imported is held whole at the place its
\* row names, whether it was copied or adopted after a crash.
THEOREM ImportedHeld == Verifying => (Spec => []ImportedIsHeld)
<1>1. VerifiedInv => ImportedIsHeld BY DEF VerifiedInv
<1> QED BY <1>1, VerifiedInvHolds, PTL

\* With verification on, a source the program removed from the card is held whole locally,
\* and in the cloud too if it was imported under Auto.
THEOREM FreedSafe == Verifying => (Spec => []FreedIsSafe)
<1>1. VerifiedInv => FreedIsSafe BY DEF VerifiedInv
<1> QED BY <1>1, VerifiedInvHolds, PTL

-----------------------------------------------------------------------------
(* The offload implements Custody.                                         *)

Held == {r \in Recordings : HeldWhole(r)}
Mirrored == {r \in Recordings : MirroredWhole(r)}

\* With verification on, the ledger alone says what is held and what is mirrored.
LEMMA LedgerTells ==
  ASSUME VerifiedInv
  PROVE  /\ Held = {r \in Recordings : imported[r] # NoDest}
         /\ Mirrored = {r \in Recordings : job[r] \in {"sweep", "done"}}
BY DEF Held, Mirrored, HeldWhole, MirroredWhole, VerifiedInv, ImportedIsHeld, MirrorsAreWhole

LEMMA SameLedgerSameCopies ==
  ASSUME VerifiedInv, VerifiedInv', UNCHANGED imported,
         \A r \in Recordings : job'[r] \in {"sweep", "done"} <=> job[r] \in {"sweep", "done"}
  PROVE  Held' = Held /\ Mirrored' = Mirrored
<1>1. /\ Held' = {r \in Recordings : imported'[r] # NoDest}
      /\ Mirrored' = {r \in Recordings : job'[r] \in {"sweep", "done"}}
  BY DEF Held, Mirrored, HeldWhole, MirroredWhole, VerifiedInv, ImportedIsHeld, MirrorsAreWhole
<1> QED BY <1>1, LedgerTells

LEMMA CustodyInit == Init => Contract!Init
<1> SUFFICES ASSUME Init PROVE Contract!Init
  OBVIOUS
<1>1. Held = {} /\ Mirrored = {} BY DEF Init, Held, Mirrored, HeldWhole, MirroredWhole
<1> QED BY <1>1 DEF Init, Contract!Init, Held, Mirrored

LEMMA CustodyStutters ==
  ASSUME VerifiedInv, VerifiedInv', UNCHANGED <<card, imported, job, awaits, freed>>
  PROVE  UNCHANGED Contract!vars
<1>1. Held' = Held /\ Mirrored' = Mirrored BY SameLedgerSameCopies
<1> QED BY <1>1 DEF Contract!vars, Held, Mirrored

LEMMA RecordAppears ==
  ASSUME VerifiedInv, VerifiedInv', NEW r \in Recordings, Record(r)
  PROVE  Contract!Appear(r)
<1>1. /\ r \notin card /\ card' = card \cup {r}
      /\ UNCHANGED <<imported, job, awaits, freed>>
  BY DEF Record, ledger, VerifiedInv, RunInv, TypeOK
<1>2. Held' = Held /\ Mirrored' = Mirrored BY <1>1, SameLedgerSameCopies
<1> QED BY <1>1, <1>2 DEF Contract!Appear, Held, Mirrored

LEMMA EraseErases ==
  ASSUME VerifiedInv, VerifiedInv', NEW r \in Recordings, Erase(r)
  PROVE  Contract!Erase(r)
<1>1. card' = card \ {r} /\ UNCHANGED <<imported, job, awaits, freed>>
  BY DEF Erase, ledger
<1>2. Held' = Held /\ Mirrored' = Mirrored BY <1>1, SameLedgerSameCopies
<1> QED BY <1>1, <1>2 DEF Contract!Erase, Held, Mirrored

LEMMA CloudMirrorsMirrors ==
  ASSUME VerifiedInv, VerifiedInv', NEW r \in Recordings, CloudMirrors(r)
  PROVE  Contract!Mirror(r, {})
<1>1. /\ UNCHANGED <<card, imported, awaits, freed>>
      /\ job[r] = "pending"
      /\ \A q \in Recordings \ {r} : job'[q] = job[q]
      /\ job'[r] \in {"sweep", "done"}
  BY DEF CloudMirrors, onCard, VerifiedInv, RunInv, TypeOK
<1>2. /\ Held' = {q \in Recordings : imported'[q] # NoDest}
      /\ Mirrored' = {q \in Recordings : job'[q] \in {"sweep", "done"}}
  BY DEF Held, Mirrored, HeldWhole, MirroredWhole, VerifiedInv, ImportedIsHeld, MirrorsAreWhole
<1>3. Held' = Held /\ Mirrored' = (Mirrored \ {}) \cup {r} BY <1>1, <1>2, LedgerTells
<1>4. r \in Held BY <1>1, LedgerTells DEF VerifiedInv, RunInv, JobsHaveRows
<1> QED BY <1>1, <1>3, <1>4 DEF Contract!Mirror, Held, Mirrored

\* The worker's sweep and the inline removal.
LEMMA RemovalFrees ==
  ASSUME VerifiedInv, VerifiedInv', NEW r \in Recordings, r \in Held,
         r \in awaits => r \in Mirrored,
         UNCHANGED <<imported, awaits>>,
         \A q \in Recordings : job'[q] \in {"sweep", "done"} <=> job[q] \in {"sweep", "done"},
         card' \in {card, card \ {r}}, freed' = freed \cup (card \ card')
  PROVE  Contract!Free(r) \/ UNCHANGED Contract!vars
<1>1. Held' = Held /\ Mirrored' = Mirrored BY SameLedgerSameCopies
<1>2. CASE card' = card
  <2>1. freed' = freed BY <1>2
  <2> QED BY <1>1, <1>2, <2>1 DEF Contract!vars, Held, Mirrored
<1>3. CASE card' # card
  <2>1. r \in card /\ card' = card \ {r} /\ freed' = freed \cup {r} BY <1>3
  <2> QED BY <1>1, <2>1 DEF Contract!Free, Held, Mirrored
<1> QED BY <1>2, <1>3

LEMMA SweepFrees ==
  ASSUME VerifiedInv, VerifiedInv', NEW r \in Recordings, SweepCard(r)
  PROVE  Contract!Free(r) \/ UNCHANGED Contract!vars
<1>1. /\ UNCHANGED <<imported, awaits>>
      /\ job[r] = "sweep"
      /\ \A q \in Recordings : job'[q] \in {"sweep", "done"} <=> job[q] \in {"sweep", "done"}
      /\ card' \in {card, card \ {r}} /\ freed' = freed \cup (card \ card')
  BY DEF SweepCard, VerifiedInv, RunInv, TypeOK
<1>2. r \in Held /\ r \in Mirrored
  BY <1>1, LedgerTells DEF VerifiedInv, RunInv, JobsHaveRows
<1> QED BY <1>1, <1>2, RemovalFrees

LEMMA RemoveSourceFrees ==
  ASSUME VerifiedInv, VerifiedInv', RemoveSource
  PROVE  run.cur \in Recordings /\ (Contract!Free(run.cur) \/ UNCHANGED Contract!vars)
<1>1. /\ UNCHANGED <<imported, job, awaits>> /\ run.at = "cleanup"
      /\ card' \in {card, card \ {run.cur}} /\ freed' = freed \cup (card \ card')
  BY DEF RemoveSource, ledger
<1>2. run.cur \in Recordings BY <1>1, AtFile DEF VerifiedInv
<1>3. run.cur \in Held /\ run.cur \notin awaits
  BY <1>1, <1>2, LedgerTells DEF VerifiedInv, RunInv, CleanupFollowsImport
<1> QED BY <1>1, <1>2, <1>3, RemovalFrees

LEMMA RecordImports ==
  ASSUME VerifiedInv, VerifiedInv', run.at \in {"item", "commit"},
         NEW dest \in Dests, RecordImport(dest), UNCHANGED <<card, freed>>
  PROVE  run.cur \in Recordings /\ Contract!Import(run.cur, run.mode = "Auto")
<1>1. /\ run.cur \in Recordings /\ run.cur \in card /\ imported[run.cur] = NoDest
      /\ job[run.cur] = "none"
      /\ imported \in [Recordings -> Dests \cup {NoDest}]
      /\ job \in [Recordings -> {"none", "pending", "sweep", "done"}]
  BY AtFile DEF VerifiedInv, RunInv, TypeOK, JobsHaveRows
<1>2. /\ \A q \in Recordings \ {run.cur} : imported'[q] = imported[q] /\ job'[q] = job[q]
      /\ imported'[run.cur] = dest /\ job'[run.cur] \in {"none", "pending"}
      /\ awaits' = IF run.mode = "Auto" THEN awaits \cup {run.cur} ELSE awaits
  BY <1>1 DEF RecordImport
<1>3. dest # NoDest BY FilesAssumption
<1>4. /\ Held' = {q \in Recordings : imported'[q] # NoDest}
      /\ Mirrored' = {q \in Recordings : job'[q] \in {"sweep", "done"}}
  BY DEF Held, Mirrored, HeldWhole, MirroredWhole, VerifiedInv, ImportedIsHeld, MirrorsAreWhole
<1>5. Held' = Held \cup {run.cur} /\ run.cur \notin Held
  BY <1>1, <1>2, <1>3, <1>4, LedgerTells
<1>6. Mirrored' = Mirrored BY <1>1, <1>2, <1>4, LedgerTells
<1> QED BY <1>1, <1>2, <1>5, <1>6 DEF Contract!Import, Held, Mirrored

LEMMA CustodyStep ==
  ASSUME VerifiedInv, VerifiedInv', [Next]_vars
  PROVE  [Contract!Next]_Contract!vars
<1> DEFINE Goal == [Contract!Next]_Contract!vars
<1> SUFFICES Goal OBVIOUS
<1>1. ASSUME UNCHANGED <<card, imported, job, awaits, freed>> PROVE Goal
  BY <1>1, CustodyStutters
<1>2. ASSUME NEW r \in Recordings, Record(r) PROVE Goal
  BY <1>2, RecordAppears DEF Contract!Next
<1>3. ASSUME NEW r \in Recordings, Erase(r) PROVE Goal
  BY <1>3, EraseErases DEF Contract!Next
<1>4. ASSUME NEW r \in Recordings, CloudMirrors(r) PROVE Goal
  BY <1>4, CloudMirrorsMirrors DEF Contract!Next
<1>5. ASSUME NEW r \in Recordings, SweepCard(r) PROVE Goal
  BY <1>5, SweepFrees DEF Contract!Next
<1>6. CASE RemoveSource BY <1>6, RemoveSourceFrees DEF Contract!Next
<1>7. ASSUME NEW dest \in Dests, RecordImport(dest), run.at \in {"item", "commit"},
             UNCHANGED <<card, freed>>
      PROVE  Goal
  <2>1. run.cur \in Recordings /\ Contract!Import(run.cur, run.mode = "Auto")
    BY <1>7, RecordImports
  <2>2. (run.mode = "Auto") \in BOOLEAN OBVIOUS
  <2> QED BY <2>1, <2>2 DEF Contract!Next
<1> HIDE DEF Goal
<1>8. CASE AdoptRecovered
  <2>1. run.at = "item" /\ RecordImport(Canonical(run.cur)) /\ UNCHANGED <<card, freed>>
    BY <1>8 DEF AdoptRecovered, onCard
  <2>2. run.cur \in Recordings BY <2>1, AtFile DEF VerifiedInv
  <2> QED BY <1>7, <2>1, <2>2, CanonicalIsDest
<1>9. CASE CommitImported
  <2>1. run.at = "commit" /\ RecordImport(Target) /\ UNCHANGED <<card, freed>>
    BY <1>9 DEF CommitImported, onCard
  <2>2. Target \in Dests BY <2>1, AtFile DEF VerifiedInv
  <2> QED BY <1>7, <2>1, <2>2
<1>10. CASE Mount \/ PullCard \/ StartRun \/ CopyPersists \/ CopyFails \/ VerifyDestHash
            \/ LeftBehind \/ EndOfRun \/ Crash \/ UNCHANGED vars
  BY <1>1, <1>10
     DEF Mount, PullCard, StartRun, CopyPersists, CopyFails, VerifyDestHash, LeftBehind,
         EndOfRun, Crash, vars, onCard, ledger
<1> QED
  BY <1>2, <1>3, <1>4, <1>5, <1>6, <1>8, <1>9, <1>10 DEF Next, RunOffload

\* With verification on, the run, its crashes, a pulled card and the worker beside it
\* implement the contract of Custody: no copy that was counted on is given up, and no
\* source is removed before its copies are there.
THEOREM OffloadKeepsCustody == Verifying => (Spec => KeepsCustody)
<1> SUFFICES ASSUME Verifying PROVE Spec => KeepsCustody
  OBVIOUS
<1>1. VerifiedInv /\ VerifiedInv' /\ [Next]_vars => [Contract!Next]_Contract!vars
  BY CustodyStep
<1>2. Spec => []VerifiedInv BY VerifiedInvHolds
<1> QED BY <1>1, <1>2, CustodyInit, PTL DEF Spec, KeepsCustody, Contract!Spec

-----------------------------------------------------------------------------
(* Every step keeps what the names add.                                    *)

\* Steps after which no file is new, none is gone but one in hand, and the plan is what
\* is left of the one before.
LEMMA NamingIsKept ==
  ASSUME RunInv, NamingInv, InHand' \subseteq InHand,
         \A d \in Dests : local'[d] = local[d] \/ (d \in InHand /\ local'[d] = NoFile),
         \A r \in run'.todo :
           /\ r \in run.todo
           /\ run'.target[r] = run.target[r]
           /\ Alone(r) => local'[Canonical(r)] = local[Canonical(r)],
         run'.todo \subseteq Recordings
  PROVE  NamingInv'
<1>1. SuffixHasCanonical'
  <2> SUFFICES ASSUME NEW r \in Recordings, NEW d \in Dests, Alone(r), d[1] = Name[r],
                      d # Canonical(r), Exists(d)'
               PROVE  Exists(Canonical(r))' /\ Canonical(r) \notin InHand'
    BY DEF SuffixHasCanonical, Alone, Canonical
  <2>1. Exists(d) BY DEF Exists
  <2>2. Exists(Canonical(r)) /\ Canonical(r) \notin InHand
    BY <2>1 DEF NamingInv, SuffixHasCanonical
  <2>3. Canonical(r) \in Dests BY CanonicalIsDest
  <2> QED BY <2>2, <2>3 DEF Exists
<1>2. PlanHasCanonical'
  <2> SUFFICES ASSUME NEW r \in run'.todo, Alone(r), run'.target[r] # Canonical(r)
               PROVE  Exists(Canonical(r))'
    BY DEF PlanHasCanonical, Alone, Canonical
  <2>1. r \in Recordings /\ Canonical(r) \in Dests BY CanonicalIsDest
  <2>2. Exists(Canonical(r)) BY DEF NamingInv, PlanHasCanonical
  <2> QED BY <2>1, <2>2 DEF Exists
<1>3. NoNeedlessSuffix'
  <2> SUFFICES ASSUME NEW r \in Recordings, NEW d \in Dests, Alone(r), d # Canonical(r),
                      local'[d] = Whole(r)
               PROVE  local'[Canonical(r)] # Whole(r)
    BY DEF NoNeedlessSuffix, Alone, Canonical, Whole
  <2>1. local[d] = Whole(r) BY WholeIsFile
  <2>2. local[Canonical(r)] # Whole(r) BY <2>1 DEF NamingInv, NoNeedlessSuffix, Alone
  <2> QED BY <2>2, CanonicalIsDest, WholeIsFile
<1> QED BY <1>1, <1>2, <1>3 DEF NamingInv

\* The name of a recording of its own is resolved to a suffix only if it is taken.
LEMMA SuffixFindsCanonical ==
  ASSUME RunInv, run.at = "idle",
         NEW plan \in SUBSET Recordings, \A r \in plan : imported[r] = NoDest,
         NEW r \in plan, Alone(r), Resolved(r, plan) # Canonical(r)
  PROVE  Exists(Canonical(r))
<1> DEFINE d == Resolved(r, plan)
<1>1. /\ d \in Dests /\ d[1] = Name[r]
      /\ Cardinality(FreeBelow(Name[r], d[2])) = Cardinality(Earlier(r, plan, Name))
  BY ResolvedIsFree
<1> HIDE DEF d
<1>2. Earlier(r, plan, Name) = {}
  <2>1. \A q \in plan : q < r => q \in Recordings \ {r} BY RecordingsAssumption
  <2> QED BY <2>1 DEF Earlier, Alone
<1>3. Cardinality(Recordings) + MaxFaults \in Nat
  BY RecordingsAssumption, OptionsAssumption, FS_CardinalityType
<1>4. FreeBelow(Name[r], d[2]) = {}
  <2>1. Cardinality(FreeBelow(Name[r], d[2])) = 0 BY <1>1, <1>2, FS_EmptySet
  <2>2. IsFiniteSet(Variants) BY <1>3, FS_Interval DEF Variants
  <2>3. IsFiniteSet(FreeBelow(Name[r], d[2])) BY <2>2, FS_Subset DEF FreeBelow
  <2> QED BY <2>1, <2>3, FS_EmptySet
<1>5. d = <<Name[r], d[2]>> /\ d[2] \in Variants BY <1>1 DEF Dests
<1>6. d[2] # 0 BY <1>5 DEF Canonical, d
<1>7. 0 \in Variants /\ 0 < d[2] BY <1>3, <1>5, <1>6 DEF Variants
<1> QED BY <1>4, <1>7 DEF FreeBelow, Canonical

LEMMA StartRunKeepsNaming ==
  ASSUME RunInv, NamingInv, StartRun
  PROVE  NamingInv'
<1> DEFINE plan == {r \in card : imported[r] = NoDest}
           target == [r \in Recordings |-> IF r \in plan THEN Resolved(r, plan) ELSE NoDest]
<1>1. plan \in SUBSET Recordings /\ \A r \in plan : imported[r] = NoDest
  BY DEF RunInv, TypeOK
<1>2. run.at = "idle" /\ UNCHANGED local BY DEF StartRun
<1>3. PICK mode \in Modes, delete \in BOOLEAN, verify \in Verifies :
        run' = [Idle EXCEPT
           !.at = IF plan = {} THEN "end" ELSE "item",
           !.mode = mode, !.delete = delete, !.verify = verify, !.todo = plan,
           !.target = target, !.cur = IF plan = {} THEN 0 ELSE First(plan)]
  BY Zenon DEF StartRun
<1> HIDE DEF plan
<1>4. \A r \in plan : target[r] = Resolved(r, plan) BY <1>1
<1> HIDE DEF target
<1>5. run'.at \in {"end", "item"} /\ run'.todo = plan /\ run'.target = target
  BY <1>3 DEF Idle
<1>6. InHand' = {} /\ InHand = {} BY <1>2, <1>5 DEF InHand
<1>7. SuffixHasCanonical' BY <1>2, <1>6 DEF NamingInv, SuffixHasCanonical, Alone, Exists, Canonical
<1>8. NoNeedlessSuffix' BY <1>2 DEF NamingInv, NoNeedlessSuffix
<1>9. PlanHasCanonical'
  <2> SUFFICES ASSUME NEW r \in plan, Alone(r), Resolved(r, plan) # Canonical(r)
               PROVE  Exists(Canonical(r))
    BY <1>2, <1>4, <1>5 DEF PlanHasCanonical, Alone, Exists, Canonical
  <2> QED BY <1>1, <1>2, SuffixFindsCanonical
<1> QED BY <1>7, <1>8, <1>9 DEF NamingInv

LEMMA CopyPersistsKeepsNaming ==
  ASSUME "readError" \notin Events, VerifiedInv, NamingInv, CopyPersists
  PROVE  NamingInv'
<1>1. /\ run.at = "item" /\ ~CanAdopt /\ mounted
      /\ run' = [run EXCEPT !.at = IF run.verify THEN "verify" ELSE "commit"]
  BY DEF CopyPersists, CopyThere
<1>2. PICK copy \in Copies : local' = [local EXCEPT ![Target] = copy]
  BY DEF CopyPersists
<1>3. /\ run.cur \in run.todo /\ run.cur \in Recordings /\ run.todo \subseteq Recordings
      /\ Target \in Dests /\ Target[1] = Name[run.cur] /\ ~Exists(Target)
  BY <1>1, AtFile DEF VerifiedInv
<1>4. copy \in File /\ copy # NoFile /\ copy.of = run.cur
  BY <1>3, FilesAssumption DEF Copies, File
<1>5. run \in Run /\ local \in [Dests -> File \cup {NoFile}] /\ run.verify
  BY <1>1 DEF VerifiedInv, RunInv, TypeOK, RunVerifies
<1>6. /\ run'.at = "verify" /\ run'.todo = run.todo /\ run'.cur = run.cur
      /\ run'.target = run.target /\ Target' = Target /\ InHand' = {Target}
  BY <1>1, <1>5 DEF Run, Target, InHand
<1>7. local'[Target] = copy /\ \A d \in Dests \ {Target} : local'[d] = local[d]
  BY <1>2, <1>3, <1>5
<1>8. \A r \in Recordings : Alone(r) /\ Target[1] = Name[r] => r = run.cur
  BY <1>3 DEF Alone
<1>9. \A r \in Recordings : Canonical(r) \in Dests /\ Canonical(r)[1] = Name[r]
  BY CanonicalIsDest DEF Canonical
<1>10. SuffixHasCanonical'
  <2> SUFFICES ASSUME NEW r \in Recordings, NEW d \in Dests, Alone(r), d[1] = Name[r],
                      d # Canonical(r), Exists(d)'
               PROVE  Exists(Canonical(r))' /\ Canonical(r) \notin InHand'
    BY DEF SuffixHasCanonical, Alone, Canonical
  <2>1. Exists(Canonical(r))
    <3>1. CASE d = Target
      <4>1. r = run.cur BY <1>8, <3>1
      <4> QED BY <1>3, <3>1, <4>1 DEF NamingInv, PlanHasCanonical, Target
    <3>2. CASE d # Target
      <4>1. Exists(d) BY <1>7, <3>2 DEF Exists
      <4> QED BY <4>1 DEF NamingInv, SuffixHasCanonical
    <3> QED BY <3>1, <3>2
  <2>2. Canonical(r) # Target BY <1>3, <2>1
  <2> QED BY <1>6, <1>7, <1>9, <2>1, <2>2 DEF Exists
<1>11. PlanHasCanonical'
  <2> SUFFICES ASSUME NEW r \in run.todo, Alone(r), run.target[r] # Canonical(r)
               PROVE  Exists(Canonical(r))'
    BY <1>6 DEF PlanHasCanonical, Alone, Canonical
  <2>1. Exists(Canonical(r)) BY DEF NamingInv, PlanHasCanonical
  <2>2. Canonical(r) # Target BY <1>3, <2>1
  <2> QED BY <1>3, <1>7, <1>9, <2>1, <2>2 DEF Exists
<1>12. NoNeedlessSuffix'
  <2> SUFFICES ASSUME NEW r \in Recordings, NEW d \in Dests, Alone(r), d # Canonical(r),
                      local'[d] = Whole(r)
               PROVE  local'[Canonical(r)] # Whole(r)
    BY DEF NoNeedlessSuffix, Alone, Canonical, Whole
  <2>1. CASE d = Target
    <3>1. r = run.cur BY <1>4, <1>7, <2>1 DEF Whole
    <3>2. local[Canonical(r)] # Whole(r)
      <4> SUFFICES ASSUME local[Canonical(r)] = Whole(r) PROVE FALSE
        OBVIOUS
      <4>1. local[Canonical(r)] # NoFile BY WholeIsFile
      <4> QED BY <1>1, <3>1, <4>1 DEF CanAdopt, MatchingHash, Whole
    <3> QED BY <1>7, <1>9, <2>1, <3>2
  <2>2. CASE d # Target
    <3>1. local[d] = Whole(r) /\ Exists(d) BY <1>7, <2>2, WholeIsFile DEF Exists
    <3>2. d[1] = Name[r] BY <3>1 DEF VerifiedInv, RunInv, NamesAreKept, Whole
    <3>3. Exists(Canonical(r)) BY <3>1, <3>2 DEF NamingInv, SuffixHasCanonical
    <3>4. Canonical(r) # Target BY <1>3, <3>3
    <3>5. local[Canonical(r)] # Whole(r) BY <3>1 DEF NamingInv, NoNeedlessSuffix, Alone
    <3> QED BY <1>7, <1>9, <3>4, <3>5
  <2> QED BY <2>1, <2>2
<1> QED BY <1>10, <1>11, <1>12 DEF NamingInv

LEMMA NextFileKeepsNaming ==
  ASSUME RunInv, NamingInv, run.at \notin {"idle", "end"}, run' = NextFile,
         \A d \in Dests : local'[d] = local[d] \/ (d \in InHand /\ local'[d] = NoFile)
  PROVE  NamingInv'
<1>1. TypeOK /\ run.todo \ {run.cur} \in SUBSET run.todo BY DEF RunInv
<1>2. /\ run'.todo = run.todo \ {run.cur} /\ run'.at \in {"item", "end"}
      /\ run'.todo # {} => run'.target = run.target
  BY <1>1, GoOn DEF NextFile
<1>3. InHand' = {} BY <1>2 DEF InHand
<1>4. run.todo \subseteq Recordings /\ run.cur \in Recordings /\ Target[1] = Name[run.cur]
  BY AtFile
<1>5. ASSUME NEW r \in run'.todo, Alone(r) PROVE local'[Canonical(r)] = local[Canonical(r)]
  <2>1. r \in Recordings /\ r # run.cur BY <1>2, <1>4
  <2>2. Canonical(r)[1] # Target[1] BY <1>4, <1>5, <2>1 DEF Alone, Canonical
  <2>3. Canonical(r) \notin InHand /\ Canonical(r) \in Dests
    BY <2>1, <2>2, CanonicalIsDest DEF InHand
  <2> QED BY <2>3
<1> QED BY <1>2, <1>3, <1>4, <1>5, NamingIsKept

LEMMA NextNamingInv ==
  ASSUME "readError" \notin Events
  PROVE  VerifiedInv /\ NamingInv /\ [Next]_vars => NamingInv'
<1> SUFFICES ASSUME VerifiedInv, NamingInv, [Next]_vars PROVE NamingInv'
  OBVIOUS
<1>1. RunInv /\ run \in Run /\ run.todo \subseteq Recordings
  BY DEF VerifiedInv, RunInv, TypeOK, Run
<1>2. ASSUME UNCHANGED <<local, run>> PROVE NamingInv'
  <2>1. InHand' = InHand BY <1>2 DEF InHand, Target
  <2> QED BY <1>1, <1>2, <2>1, NamingIsKept
<1>3. CASE Mount \/ PullCard \/ UNCHANGED vars
  BY <1>2, <1>3 DEF Mount, PullCard, vars
<1>4. ASSUME NEW r \in Recordings, Record(r) \/ Erase(r) \/ CloudMirrors(r) \/ SweepCard(r)
      PROVE  NamingInv'
  BY <1>2, <1>4 DEF Record, Erase, CloudMirrors, SweepCard
<1>5. CASE StartRun BY <1>1, <1>5, StartRunKeepsNaming
<1>6. CASE CopyPersists BY <1>6, CopyPersistsKeepsNaming
<1>7. CASE AdoptRecovered \/ CopyFails \/ LeftBehind \/ RemoveSource
  <2>1. UNCHANGED local /\ run' = NextFile /\ run.at \notin {"idle", "end"}
    BY <1>7 DEF AdoptRecovered, CopyFails, LeftBehind, RemoveSource
  <2> QED BY <1>1, <2>1, NextFileKeepsNaming
<1>8. ASSUME UNCHANGED local,
             NEW at \in {"commit", "cleanup"}, run' = [run EXCEPT !.at = at],
             run.at \in {"verify", "commit"}
      PROVE  NamingInv'
  <2>1. /\ run'.at = at /\ run'.todo = run.todo /\ run'.cur = run.cur
        /\ run'.target = run.target
    BY <1>1, <1>8 DEF Run
  <2>2. InHand' \subseteq InHand BY <1>8, <2>1 DEF InHand, Target
  <2> QED BY <1>1, <1>8, <2>1, <2>2, NamingIsKept
<1>9. CASE VerifyDestHash
  <2>1. CASE local[Target].good BY <1>8, <1>9, <2>1 DEF VerifyDestHash
  <2>2. CASE ~local[Target].good
    <3>1. run.at = "verify" /\ run' = NextFile /\ local' = [local EXCEPT ![Target] = NoFile]
      BY <1>9, <2>2 DEF VerifyDestHash
    <3>2. InHand = {Target} /\ local \in [Dests -> File \cup {NoFile}]
      BY <1>1, <3>1 DEF InHand, RunInv, TypeOK
    <3> QED BY <1>1, <3>1, <3>2, NextFileKeepsNaming
  <2> QED BY <2>1, <2>2
<1>10. CASE CommitImported
  <2>1. UNCHANGED local /\ run.at = "commit" BY <1>10 DEF CommitImported
  <2>2. CASE run' = NextFile BY <1>1, <2>1, <2>2, NextFileKeepsNaming
  <2>3. CASE run' = [run EXCEPT !.at = "cleanup"] BY <1>8, <2>1, <2>3
  <2> QED BY <1>10, <2>2, <2>3 DEF CommitImported
<1>11. CASE EndOfRun \/ Crash
  <2>1. UNCHANGED local /\ run' = Idle BY <1>11 DEF EndOfRun, Crash
  <2>2. InHand' = {} /\ run'.todo = {} BY <2>1 DEF Idle, InHand
  <2> QED BY <1>1, <2>1, <2>2, NamingIsKept
<1> QED
  BY <1>3, <1>4, <1>5, <1>6, <1>7, <1>9, <1>10, <1>11 DEF Next, RunOffload

LEMMA InitNamingInv == Init => NamingInv
<1> SUFFICES ASSUME Init PROVE NamingInv
  OBVIOUS
<1>1. \A d \in Dests : local[d] = NoFile BY DEF Init
<1>2. run.todo = {} BY DEF Init, Idle
<1>3. SuffixHasCanonical BY <1>1 DEF SuffixHasCanonical, Exists
<1>4. NoNeedlessSuffix BY <1>1, WholeIsFile DEF NoNeedlessSuffix
<1> QED BY <1>2, <1>3, <1>4 DEF NamingInv, PlanHasCanonical

\* With verification on, and where no file fails to be hashed, a recording whose name is
\* its own is never copied again under a suffix next to its whole canonical copy.
THEOREM NoSuffixNeedless ==
  Verifying /\ "readError" \notin Events => (Spec => []NoNeedlessSuffix)
<1> SUFFICES ASSUME Verifying, "readError" \notin Events PROVE Spec => []NoNeedlessSuffix
  OBVIOUS
<1>1. VerifiedInv /\ NamingInv /\ [Next]_vars => NamingInv' BY NextNamingInv
<1>2. Spec => []VerifiedInv BY VerifiedInvHolds
<1>3. NamingInv => NoNeedlessSuffix BY DEF NamingInv
<1> QED BY <1>1, <1>2, <1>3, InitNamingInv, PTL DEF Spec

=============================================================================
