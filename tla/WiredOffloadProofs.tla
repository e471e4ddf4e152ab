------------------------- MODULE WiredOffloadProofs -------------------------
(***************************************************************************)
(* Proofs about WiredOffload, for any recordings, paths, names and sizes,  *)
(* and any number of attempts, connects and crashes.                       *)
(***************************************************************************)
EXTENDS WiredOffload, CountingProofs

-----------------------------------------------------------------------------
(* The inductive invariant of a run.                                       *)

AtFile == run.at \in {"open", "body", "rename", "verify", "commit", "cleanup"}

\* The two places of a run where its target is a file that no row names yet.
InHand == IF run.at \in {"verify", "commit"} THEN {Target} ELSE {}

Taken == {d \in Dests : Exists(d)}
Rows == {imported[r] : r \in Recordings}
Orphans == Taken \ (Rows \cup InHand)

\* A file that neither a row nor the run accounts for was left behind by a fault.
OrphansAreFaults == IsFiniteSet(Orphans) /\ Cardinality(Orphans) <= faults

RowsHaveFiles == \A r \in Recordings : imported[r] # NoDest => Exists(imported[r])

RowsAreMade ==
  \A r \in Recordings :
    IF imported[r] = NoDest
      THEN job[r] = "none" /\ marker[r] = "none" /\ r \notin awaits /\ r \notin freed
      ELSE r \in made

\* What is removed was recorded, and uploaded if that was promised.
FreedIsDone == \A r \in freed : r \in awaits => job[r] = "done"

CurIsPlanned == IF AtFile THEN run.cur \in run.todo ELSE run.todo = {}

\* Whether a file of the plan is the one the run has renamed into place.
Begun(r) == r = run.cur /\ run.at \in {"verify", "commit", "cleanup"}

\* What is left of the plan: listed recordings, not imported, each with a destination of
\* its name where nothing is yet.
PlanIsOpen ==
  \A r \in run.todo :
    /\ r \in run.listing
    /\ run.target[r] \in Dests
    /\ run.target[r][1] = Name[r]
    /\ Begun(r) \/ ~Exists(run.target[r])
    /\ (Begun(r) /\ run.at = "cleanup") \/ imported[r] = NoDest

TargetsDiffer ==
  \A r, q \in run.todo : r # q => run.target[r] # run.target[q]

InHandIsNew ==
  run.at \in {"verify", "commit"} => Exists(Target) /\ Target \notin Rows

\* Where the transfer is, and what only a complete one reaches.
TransferIsBounded ==
  /\ run.at = "body" => run.pos \in 1..(Size[run.cur] + 1)
  /\ run.at = "rename" => Len(part[Target]) = Size[run.cur]

CleanupFollowsImport ==
  run.at = "cleanup" =>
    imported[run.cur] # NoDest /\ (ShouldDeleteCard(run.mode) => run.cur \notin awaits)

\* While a run lasts, what it listed and did not import is still there, and each camera
\* path is one recording's.
ListingIsThere ==
  /\ run.listing \subseteq made
  /\ run.at = "idle" => run.listing = {}
  /\ \A r \in run.listing : imported[r] = NoDest => r \in camera
  /\ \A r, q \in camera \cup run.listing : CardPath[r] = CardPath[q] => r = q

DueAreDone ==
  /\ \A r \in run.due : job[r] = "done"
  /\ run.at = "mark" => run.due # {} /\ First(run.due) \notin camera

RunInv ==
  /\ TypeOK
  /\ OrphansAreFaults
  /\ RowsHaveFiles
  /\ RowsAreMade
  /\ FreedIsDone
  /\ CurIsPlanned
  /\ PlanIsOpen
  /\ TargetsDiffer
  /\ InHandIsNew
  /\ TransferIsBounded
  /\ CleanupFollowsImport
  /\ ListingIsThere
  /\ DueAreDone

-----------------------------------------------------------------------------
(* What a complete listing adds.                                           *)

\* A run listed all that is on the camera.
ListingIsAll == run.at # "idle" => camera \subseteq run.listing

ClearedInv == ListingIsAll /\ ClearedMeansGone

-----------------------------------------------------------------------------
(* What verification adds: the chunks, in order, are the recording's.      *)

Prefix(r, n) == [i \in 1..n |-> <<r, i>>]

\* What a download would resume is the beginning of its recording.
PartIsItsOwn == run.at = "open" => Have = Prefix(run.cur, Len(Have))

\* The hasher has seen the recording up to the position, and after it all of it.
HashedIsTrue ==
  /\ run.at = "body" => /\ run.hashed = Prefix(run.cur, run.pos - 1)
                        /\ Len(part[Target]) = run.pos - 1
  /\ run.at \in {"rename", "verify", "commit"} => run.hashed = Whole(run.cur)

CommitIsHashed == run.at = "commit" => local[Target] = run.hashed

VerifiedInv == HashedIsTrue /\ CommitIsHashed /\ ImportedIsAuthentic

\* The hasher has seen as much as there is in the part, and what it saw last of a whole
\* download came from the camera, whatever it resumed from.
HashEndsTrue ==
  /\ run.at = "body" =>
       /\ Len(run.hashed) = run.pos - 1 /\ Len(part[Target]) = run.pos - 1
       /\ Size[run.cur] \in 1..Len(run.hashed) =>
            run.hashed[Size[run.cur]] = <<run.cur, Size[run.cur]>>
  /\ run.at \in {"rename", "verify", "commit"} =>
       /\ Len(run.hashed) = Size[run.cur]
       /\ run.hashed[Size[run.cur]] = <<run.cur, Size[run.cur]>>

-----------------------------------------------------------------------------
(* What names of their own and a disk that keeps what it is given add.     *)

OwnNames == \A r, q \in Recordings : Name[r] = Name[q] => r = q
DiskKeeps == Events \cap {"badWrite", "powerLoss"} = {}

PartsAreTheirOwn ==
  \A r \in Recordings, d \in Dests :
    d[1] = Name[r] => part[d] = Prefix(r, Len(part[d]))

BodyIsAtPart == run.at = "body" => Len(part[Target]) = run.pos - 1

InHandIsWhole == run.at \in {"verify", "commit"} => local[Target] = Whole(run.cur)

KeptInv == PartsAreTheirOwn /\ BodyIsAtPart /\ InHandIsWhole /\ ImportedIsAuthentic

\* An object is the copy of the recording whose name it has.
ObjectsAreMirrors ==
  \A n \in Names : remote[n] # <<>> =>
    \E r \in Recordings : Name[r] = n /\ MirroredWhole(r)

MirrorsAreWhole == \A r \in Recordings : job[r] = "done" => MirroredWhole(r)

MirrorInv == ObjectsAreMirrors /\ MirrorsAreWhole

-----------------------------------------------------------------------------
(* Steps that are the same for several actions.                            *)

LEMMA FirstIsIn ==
  ASSUME NEW S \in SUBSET Recordings, S # {}
  PROVE  First(S) \in S /\ \A q \in S : First(S) <= q
<1>1. S \subseteq Nat BY RecordingsAssumption
<1>2. \E m \in S : \A n \in S : m <= n BY <1>1, LeastExists
<1> QED BY <1>2 DEF First

LEMMA EmptyIsSeq == <<>> \in Seq(Chunks) /\ Len(<<>>) = 0
OBVIOUS

LEMMA IdleIsRun == Idle \in Run
<1>1. 0 \in 0..(MaxAttempts - 1) /\ 0 \in 0..(MaxOffline - 1) /\ 0 \in 0..(MaxSize + 1)
  BY BoundsAssumption, FilesAssumption
<1>2. NoTarget \in [Recordings -> Dests \cup {NoDest}] BY DEF NoTarget
<1> QED BY <1>1, <1>2, EmptyIsSeq DEF Idle, Run, RunStep

LEMMA OrphansShrink ==
  ASSUME OrphansAreFaults, faults \in Nat, faults' \in Nat, faults <= faults',
         Orphans' \subseteq Orphans
  PROVE  OrphansAreFaults'
<1>1. IsFiniteSet(Orphans') /\ Cardinality(Orphans') <= Cardinality(Orphans)
  BY FS_Subset DEF OrphansAreFaults
<1>2. Cardinality(Orphans) \in Nat /\ Cardinality(Orphans') \in Nat
  BY <1>1, FS_CardinalityType DEF OrphansAreFaults
<1> QED BY <1>1, <1>2 DEF OrphansAreFaults

LEMMA OrphanByFault ==
  ASSUME OrphansAreFaults, faults \in Nat, faults' = faults + 1,
         NEW d, Orphans' \subseteq Orphans \cup {d}
  PROVE  OrphansAreFaults'
<1>1. /\ IsFiniteSet(Orphans \cup {d})
      /\ Cardinality(Orphans \cup {d}) <= Cardinality(Orphans) + 1
  <2>1. Cardinality(Orphans) \in Nat BY FS_CardinalityType DEF OrphansAreFaults
  <2>2. IsFiniteSet(Orphans) BY DEF OrphansAreFaults
  <2>3. /\ IsFiniteSet(Orphans \cup {d})
        /\ Cardinality(Orphans \cup {d})
             = IF d \in Orphans THEN Cardinality(Orphans) ELSE Cardinality(Orphans) + 1
    BY <2>2, FS_AddElement
  <2> QED BY <2>1, <2>3
<1>2. IsFiniteSet(Orphans') /\ Cardinality(Orphans') <= Cardinality(Orphans \cup {d})
  BY <1>1, FS_Subset
<1>3. /\ Cardinality(Orphans) \in Nat /\ Cardinality(Orphans') \in Nat
      /\ Cardinality(Orphans \cup {d}) \in Nat
  BY <1>1, <1>2, FS_CardinalityType DEF OrphansAreFaults
<1> QED BY <1>1, <1>2, <1>3 DEF OrphansAreFaults

\* What the run has in hand when it is at a file.
LEMMA AtFileHas ==
  ASSUME RunInv, AtFile
  PROVE  /\ run.cur \in run.todo /\ run.cur \in Recordings /\ run.todo \subseteq Recordings
         /\ run.cur \in run.listing /\ run.cur \in made
         /\ Target \in Dests /\ Target[1] = Name[run.cur] /\ Target # NoDest
         /\ \A r \in run.todo \ {run.cur} : run.target[r] \in Dests /\ run.target[r] # Target
         /\ run.at # "cleanup" => imported[run.cur] = NoDest /\ run.cur \in camera
         /\ run.at \in {"open", "body", "rename"} => ~Exists(Target)
         /\ Size[run.cur] \in 1..MaxSize
<1>1. run.cur \in run.todo /\ run.todo \subseteq Recordings /\ run.listing \subseteq Recordings
  BY DEF RunInv, CurIsPlanned, TypeOK, Run
<1>2. /\ run.cur \in run.listing /\ Target \in Dests /\ Target[1] = Name[run.cur]
      /\ \A r \in run.todo \ {run.cur} : run.target[r] \in Dests /\ run.target[r] # Target
      /\ run.at # "cleanup" => imported[run.cur] = NoDest
      /\ run.at \in {"open", "body", "rename"} => ~Exists(Target)
  BY <1>1 DEF RunInv, PlanIsOpen, TargetsDiffer, Begun, Target
<1>3. run.cur \in made /\ (imported[run.cur] = NoDest => run.cur \in camera)
  BY <1>2 DEF RunInv, ListingIsThere
<1> QED BY <1>1, <1>2, <1>3, FilesAssumption

\* A run that is done with an attempt: it starts on a file of the plan, or is over.
Leaves(next) ==
  /\ next \in Run
  /\ \/ next = Idle
     \/ /\ next.at = "open"
        /\ next.todo \in {run.todo, run.todo \ {run.cur}}
        /\ next.cur \in next.todo
        /\ next.target = run.target
        /\ next.listing = run.listing
        /\ next.due \subseteq run.due

LEMMA NextFileLeaves ==
  ASSUME TypeOK, NEW streak \in 0..(MaxOffline - 1)
  PROVE  /\ Leaves(NextFile(streak))
         /\ NextFile(streak) # Idle => NextFile(streak).todo = run.todo \ {run.cur}
<1> DEFINE rest == run.todo \ {run.cur}
<1>1. run \in Run /\ rest \in SUBSET Recordings BY DEF TypeOK, Run
<1>2. rest = run.todo \ {run.cur} OBVIOUS
<1> HIDE DEF rest
<1>3. NextFile(streak) = GoOnTo(rest, streak) BY <1>2 DEF NextFile
<1>4. CASE rest = {}
  <2>1. NextFile(streak) = Idle BY <1>3, <1>4 DEF GoOnTo
  <2> QED BY <2>1, IdleIsRun DEF Leaves
<1>5. CASE rest # {}
  <2>1. First(rest) \in rest BY <1>1, <1>5, FirstIsIn
  <2>2. NextFile(streak) =
          [run EXCEPT !.at = "open", !.todo = rest, !.cur = First(rest), !.tries = 0,
                      !.streak = streak, !.pos = 0, !.hashed = <<>>, !.due = {}]
    BY <1>3, <1>5 DEF GoOnTo
  <2>3. 0 \in 0..(MaxAttempts - 1) /\ 0 \in 0..(MaxSize + 1)
    BY BoundsAssumption, FilesAssumption
  <2>4. NextFile(streak) \in Run
    <3>1. [run EXCEPT !.at = "open", !.tries = 0, !.streak = streak, !.pos = 0,
                      !.hashed = <<>>] \in Run
      BY <1>1, <2>3, EmptyIsSeq DEF Run, RunStep
    <3>2. \A old \in Run, c \in Recordings :
            [old EXCEPT !.todo = rest, !.cur = c, !.due = {}] \in Run
      BY <1>1 DEF Run
    <3>3. First(rest) \in Recordings BY <1>1, <2>1
    <3>4. NextFile(streak) =
            [[run EXCEPT !.at = "open", !.tries = 0, !.streak = streak, !.pos = 0,
                         !.hashed = <<>>]
              EXCEPT !.todo = rest, !.cur = First(rest), !.due = {}]
      BY <1>1, <2>2 DEF Run
    <3> QED BY <3>1, <3>2, <3>3, <3>4
  <2>5. /\ NextFile(streak).at = "open" /\ NextFile(streak).todo = rest
        /\ NextFile(streak).cur = First(rest) /\ NextFile(streak).target = run.target
        /\ NextFile(streak).listing = run.listing /\ NextFile(streak).due = {}
    BY <1>1, <2>2 DEF Run
  <2> QED BY <1>2, <2>1, <2>4, <2>5 DEF Leaves
<1> QED BY <1>4, <1>5

LEMMA AttemptFailsLeaves ==
  ASSUME TypeOK, run.cur \in run.todo, NEW kind
  PROVE  Leaves(AttemptFails(kind))
<1>1. run \in Run /\ run.tries \in 0..(MaxAttempts - 1) /\ run.streak \in 0..(MaxOffline - 1)
  BY DEF TypeOK, Run
<1>2. MaxAttempts \in Nat \ {0} /\ MaxOffline \in Nat \ {0} BY BoundsAssumption
<1>3. CASE kind = "retryable" /\ run.tries + 1 < MaxAttempts
  <2>1. AttemptFails(kind) =
          [run EXCEPT !.at = "open", !.tries = run.tries + 1, !.pos = 0, !.hashed = <<>>]
    BY <1>3 DEF AttemptFails
  <2>2. run.tries + 1 \in 0..(MaxAttempts - 1) /\ 0 \in 0..(MaxSize + 1)
    BY <1>1, <1>2, <1>3, FilesAssumption
  <2>3. AttemptFails(kind) \in Run BY <1>1, <2>1, <2>2, EmptyIsSeq DEF Run, RunStep
  <2> QED BY <1>1, <2>1, <2>3 DEF Leaves, Run
<1>4. CASE ~(kind = "retryable" /\ run.tries + 1 < MaxAttempts)
  <2> DEFINE streak == IF kind = "retryable" THEN run.streak + 1 ELSE 0
  <2>1. AttemptFails(kind) = IF streak >= MaxOffline THEN Idle ELSE NextFile(streak)
    BY <1>4 DEF AttemptFails, FileFails
  <2>2. streak \in Nat BY <1>1, <1>2
  <2> HIDE DEF streak
  <2>3. CASE streak >= MaxOffline BY <2>1, <2>3, IdleIsRun DEF Leaves
  <2>4. CASE ~(streak >= MaxOffline)
    <3>1. streak \in 0..(MaxOffline - 1) BY <1>2, <2>2, <2>4
    <3> QED BY <2>1, <2>4, <3>1, NextFileLeaves
  <2> QED BY <2>3, <2>4
<1> QED BY <1>3, <1>4

\* The conjuncts about the run hold of what it goes on with.
LEMMA LeavingKeepsPlan ==
  ASSUME RunInv, AtFile, Leaves(run'),
         run.at \in {"verify", "commit", "cleanup"} /\ run' # Idle =>
           run'.todo = run.todo \ {run.cur},
         \A r \in run'.todo :
           imported'[r] = imported[r] /\ local'[run.target[r]] = local[run.target[r]],
         \A r \in Recordings : job[r] = "done" => job'[r] = "done"
  PROVE  /\ InHand' = {}
         /\ CurIsPlanned' /\ PlanIsOpen' /\ TargetsDiffer' /\ InHandIsNew'
         /\ TransferIsBounded' /\ CleanupFollowsImport' /\ DueAreDone'
<1>1. CASE run' = Idle
  <2>1. run'.at = "idle" /\ run'.todo = {} /\ run'.due = {} BY <1>1 DEF Idle
  <2> QED BY <2>1
      DEF InHand, CurIsPlanned, AtFile, PlanIsOpen, TargetsDiffer, InHandIsNew,
          TransferIsBounded, CleanupFollowsImport, DueAreDone
<1>2. CASE run' # Idle
  <2>1. /\ run'.at = "open" /\ run'.todo \in {run.todo, run.todo \ {run.cur}}
        /\ run'.cur \in run'.todo /\ run'.target = run.target
        /\ run'.listing = run.listing /\ run'.due \subseteq run.due
        /\ run' \in Run
    BY <1>2 DEF Leaves
  <2>2. ASSUME NEW r \in run'.todo
        PROVE  /\ r \in run.listing /\ run.target[r] \in Dests /\ run.target[r][1] = Name[r]
               /\ ~Exists(run.target[r]) /\ imported[r] = NoDest
    <3>1. r \in run.todo BY <2>1
    <3>2. ~Begun(r) BY <1>2, <2>1 DEF Begun
    <3> QED BY <3>1, <3>2 DEF RunInv, PlanIsOpen
  <2>3. PlanIsOpen' BY <2>1, <2>2 DEF PlanIsOpen, Exists, Begun
  <2>4. TargetsDiffer' BY <2>1 DEF RunInv, TargetsDiffer
  <2>5. DueAreDone'
    <3>1. run.due \subseteq Recordings BY DEF RunInv, TypeOK, Run
    <3> QED BY <2>1, <3>1 DEF RunInv, DueAreDone
  <2> QED BY <2>1, <2>3, <2>4, <2>5
      DEF InHand, CurIsPlanned, AtFile, InHandIsNew, TransferIsBounded, CleanupFollowsImport
<1> QED BY <1>1, <1>2

-----------------------------------------------------------------------------
(* resolve_collision.                                                      *)

FreeBelow(n, k) == {j \in Variants : j < k /\ ~Exists(<<n, j>>)}

\* There are suffixes enough: each one taken is a row's or was left by a fault.
LEMMA TakenIsBounded ==
  ASSUME RunInv, run.at = "reap", NEW n \in Names,
         NEW plan \in SUBSET Recordings, \A r \in plan : imported[r] = NoDest
  PROVE  LET taken == {k \in Variants : Exists(<<n, k>>)} IN
         /\ IsFiniteSet(taken)
         /\ Cardinality(taken) \in Nat /\ Cardinality(plan) \in Nat
         /\ Cardinality(taken) + Cardinality(plan) <= Cardinality(Recordings) + MaxFaults
<1> DEFINE taken == {k \in Variants : Exists(<<n, k>>)}
           imports == {r \in Recordings : imported[r] # NoDest}
           places == {imported[r] : r \in imports}
           row == [r \in imports |-> imported[r]]
           place == [k \in taken |-> <<n, k>>]
<1>1. faults \in 0..MaxFaults BY DEF RunInv, TypeOK
<1>2. IsFiniteSet(Recordings) /\ MaxFaults \in Nat BY RecordingsAssumption, BoundsAssumption
<1>3. /\ IsFiniteSet(imports) /\ IsFiniteSet(plan)
      /\ Cardinality(imports) \in Nat /\ Cardinality(plan) \in Nat
      /\ Cardinality(Recordings) \in Nat
      /\ Cardinality(imports) + Cardinality(plan) <= Cardinality(Recordings)
  <2>1. imports \in SUBSET Recordings /\ imports \cap plan = {} OBVIOUS
  <2> HIDE DEF imports
  <2> QED BY <1>2, <2>1, DisjointFit
<1>4. IsFiniteSet(places) /\ Cardinality(places) <= Cardinality(imports)
  <2>1. row \in Surjection(imports, places) BY DEF Surjection
  <2> HIDE DEF imports, places, row
  <2> QED BY <1>3, <2>1, FS_Surjection
<1>5. /\ IsFiniteSet(Orphans) /\ Cardinality(Orphans) \in Nat
      /\ Cardinality(Orphans) <= faults
  BY FS_CardinalityType DEF RunInv, OrphansAreFaults
<1>6. Cardinality(places) \in Nat BY <1>4, FS_CardinalityType
<1>7. /\ IsFiniteSet(places \cup Orphans)
      /\ Cardinality(places \cup Orphans) <= Cardinality(places) + Cardinality(Orphans)
  <2> HIDE DEF places
  <2>1. /\ IsFiniteSet(places \cup Orphans)
        /\ Cardinality(places \cup Orphans)
             = Cardinality(places) + Cardinality(Orphans) - Cardinality(places \cap Orphans)
    BY <1>4, <1>5, FS_Union
  <2>2. Cardinality(places \cap Orphans) \in Nat
    BY <1>4, FS_Intersection, FS_CardinalityType
  <2> QED BY <1>5, <1>6, <2>1, <2>2
<1>8. IsFiniteSet(taken) /\ Cardinality(taken) <= Cardinality(places \cup Orphans)
  <2>1. ASSUME NEW k \in taken PROVE <<n, k>> \in places \cup Orphans
    <3>1. <<n, k>> \in Taken BY DEF Taken, Dests
    <3>2. InHand = {} BY DEF InHand
    <3>3. <<n, k>> # NoDest BY FilesAssumption DEF Dests
    <3> QED BY <3>1, <3>2, <3>3 DEF Orphans, Rows
  <2>2. place \in Injection(taken, places \cup Orphans) BY <2>1 DEF Injection, IsInjective
  <2> HIDE DEF taken, place, places
  <2> QED BY <1>7, <2>2, FS_Injection
<1>9. Cardinality(taken) \in Nat /\ Cardinality(places \cup Orphans) \in Nat
  BY <1>7, <1>8, FS_CardinalityType
<1> HIDE DEF taken, imports, places, row, place
<1>10. Cardinality(taken) + Cardinality(plan) <= Cardinality(Recordings) + MaxFaults
  BY <1>1, <1>2, <1>3, <1>4, <1>5, <1>6, <1>7, <1>8, <1>9
<1> QED BY <1>3, <1>8, <1>9, <1>10 DEF taken

LEMMA ResolvedIsFree ==
  ASSUME RunInv, run.at = "reap",
         NEW plan \in SUBSET Recordings, \A r \in plan : imported[r] = NoDest,
         NEW r \in plan
  PROVE  /\ Resolved(r, plan) \in Dests
         /\ Resolved(r, plan)[1] = Name[r]
         /\ ~Exists(Resolved(r, plan))
         /\ Cardinality(FreeBelow(Name[r], Resolved(r, plan)[2]))
              = Cardinality(Earlier(r, plan, Name))
<1> DEFINE n == Name[r]
           taken == {k \in Variants : Exists(<<n, k>>)}
           free == {k \in Variants : ~Exists(<<n, k>>)}
           N == Cardinality(Recordings) + MaxFaults
           m == Cardinality(Earlier(r, plan, Name))
           Fits(d) == d[1] = n /\ ~Exists(d) /\ Cardinality(FreeBelow(n, d[2])) = m
<1>1. n \in Names BY FilesAssumption
<1>2. N \in Nat /\ Variants = 0..N
  BY RecordingsAssumption, BoundsAssumption, FS_CardinalityType DEF Variants
<1>3. /\ IsFiniteSet(taken) /\ Cardinality(taken) \in Nat /\ Cardinality(plan) \in Nat
      /\ Cardinality(taken) + Cardinality(plan) <= N
  BY <1>1, TakenIsBounded
<1>4. m \in Nat /\ m < Cardinality(plan)
  BY RecordingsAssumption, FS_Subset, EarlierIsFewer
<1>5. PICK k \in free : Cardinality({j \in free : j < k}) = m
  <2>1. taken \in SUBSET (0..N) /\ free = (0..N) \ taken BY <1>2
  <2>2. free \in SUBSET (0..N) BY <1>2
  <2> HIDE DEF taken, free, N, m
  <2>3. Cardinality(free) = N + 1 - Cardinality(taken) BY <1>2, <1>3, <2>1, FreeCount
  <2>4. m < Cardinality(free) BY <1>2, <1>3, <1>4, <2>3
  <2> QED BY <1>2, <1>4, <2>2, <2>4, RankExists
<1>6. {j \in free : j < k} = FreeBelow(n, k) BY DEF FreeBelow
<1>7. \E d \in Dests : Fits(d)
  <2>1. <<n, k>> \in Dests BY <1>1 DEF Dests
  <2>2. Fits(<<n, k>>) BY <1>5, <1>6
  <2> QED BY <2>1, <2>2
<1>8. Resolved(r, plan) = CHOOSE d \in Dests : Fits(d)
  BY DEF Resolved, FreeBelow, Earlier
<1> HIDE DEF Fits
<1>9. Resolved(r, plan) \in Dests /\ Fits(Resolved(r, plan)) BY <1>7, <1>8
<1> QED BY <1>9 DEF Fits

\* Two files of a plan never get the same destination.
LEMMA ResolvedDiffer ==
  ASSUME RunInv, run.at = "reap",
         NEW plan \in SUBSET Recordings, \A r \in plan : imported[r] = NoDest,
         NEW r \in plan, NEW q \in plan, q # r
  PROVE  Resolved(r, plan) # Resolved(q, plan)
<1> SUFFICES ASSUME Resolved(r, plan) = Resolved(q, plan) PROVE FALSE
  OBVIOUS
<1>1. Name[r] = Name[q] BY ResolvedIsFree
<1>2. Cardinality(Earlier(r, plan, Name)) = Cardinality(Earlier(q, plan, Name))
  BY <1>1, ResolvedIsFree
<1>3. plan \in SUBSET Nat /\ IsFiniteSet(plan) BY RecordingsAssumption, FS_Subset
<1>4. q < r \/ r < q BY <1>3
<1> QED BY <1>1, <1>2, <1>3, <1>4, EarlierIsFewer

-----------------------------------------------------------------------------
(* Every step keeps the invariant of a run.                                *)

\* Between files nothing is in hand.
LEMMA FilesAndRowsStay ==
  ASSUME RunInv, UNCHANGED <<local, imported, faults>>, InHand' = InHand
  PROVE  OrphansAreFaults' /\ RowsHaveFiles'
<1>1. Orphans' = Orphans BY DEF Orphans, Taken, Exists, Rows
<1>2. faults \in Nat BY DEF RunInv, TypeOK
<1> QED BY <1>1, <1>2, OrphansShrink DEF RunInv, RowsHaveFiles, Exists

LEMMA UserKeepsRunInv ==
  ASSUME RunInv, NEW r \in Recordings, Record(r) \/ Erase(r)
  PROVE  RunInv'
<1>1. /\ UNCHANGED <<part, local, imported, job, marker, remote, freed, awaits, run, faults>>
      /\ run.at = "idle" /\ made \subseteq made' /\ InHand' = InHand
  BY DEF Record, Erase, disk, ledger, InHand, Target
<1>2. TypeOK' BY DEF RunInv, TypeOK, Record, Erase, disk, ledger
<1>3. OrphansAreFaults' /\ RowsHaveFiles' BY <1>1, FilesAndRowsStay
<1>4. RowsAreMade' /\ FreedIsDone' BY <1>1 DEF RunInv, RowsAreMade, FreedIsDone
<1>5. CurIsPlanned' /\ PlanIsOpen' /\ TargetsDiffer'
  BY <1>1 DEF RunInv, CurIsPlanned, AtFile, PlanIsOpen, TargetsDiffer
<1>6. InHandIsNew' /\ TransferIsBounded' /\ CleanupFollowsImport' /\ DueAreDone'
  BY <1>1 DEF RunInv, InHandIsNew, TransferIsBounded, CleanupFollowsImport, DueAreDone
<1>7. ListingIsThere'
  <2>1. run.listing = {} BY <1>1 DEF RunInv, ListingIsThere
  <2>2. \A q \in camera' : q \in camera \/ (q = r /\ \A p \in camera : CardPath[p] # CardPath[r])
    BY DEF Record, Erase
  <2> QED BY <1>1, <2>1, <2>2 DEF RunInv, ListingIsThere
<1> QED BY <1>2, <1>3, <1>4, <1>5, <1>6, <1>7 DEF RunInv

LEMMA CloudMirrorsKeepsRunInv ==
  ASSUME RunInv, NEW r \in Recordings, CloudMirrors(r)
  PROVE  RunInv'
<1>1. /\ UNCHANGED <<part, local, imported, marker, camera, made, freed, awaits, run, faults>>
      /\ job[r] = "pending" /\ job' = [job EXCEPT ![r] = "done"] /\ InHand' = InHand
  BY DEF CloudMirrors, disk, onCamera, InHand, Target
<1>2. imported[r] # NoDest /\ imported[r] \in Dests /\ Name[r] \in Names
  BY <1>1, FilesAssumption DEF RunInv, TypeOK, RowsAreMade
<1>3. job' \in [Recordings -> {"none", "pending", "done"}]
      /\ \A q \in Recordings : job'[q] = IF q = r THEN "done" ELSE job[q]
  BY <1>1 DEF RunInv, TypeOK
<1>4. TypeOK'
  <2>1. remote' \in [Names -> Seq(Chunks)]
    BY <1>2 DEF RunInv, TypeOK, CloudMirrors
  <2> QED BY <1>1, <1>3, <2>1 DEF RunInv, TypeOK
<1>5. OrphansAreFaults' /\ RowsHaveFiles' BY <1>1, FilesAndRowsStay
<1>6. RowsAreMade' BY <1>1, <1>2, <1>3 DEF RunInv, RowsAreMade
<1>7. freed \subseteq Recordings /\ run.due \subseteq Recordings BY DEF RunInv, TypeOK, Run
<1>8. FreedIsDone' /\ DueAreDone' BY <1>1, <1>3, <1>7 DEF RunInv, FreedIsDone, DueAreDone
<1>9. CurIsPlanned' /\ PlanIsOpen' /\ TargetsDiffer'
  BY <1>1 DEF RunInv, CurIsPlanned, AtFile, PlanIsOpen, TargetsDiffer, Begun, Exists
<1>10. InHandIsNew' /\ TransferIsBounded' /\ CleanupFollowsImport' /\ ListingIsThere'
  BY <1>1 DEF RunInv, InHandIsNew, Exists, Rows, Target, TransferIsBounded,
              CleanupFollowsImport, ListingIsThere
<1> QED BY <1>4, <1>5, <1>6, <1>8, <1>9, <1>10 DEF RunInv

LEMMA StutterKeepsRunInv ==
  ASSUME RunInv, UNCHANGED vars
  PROVE  RunInv'
BY DEF vars, RunInv, TypeOK, OrphansAreFaults, Orphans, Taken, Exists, Rows, InHand, Target,
       RowsHaveFiles, RowsAreMade, FreedIsDone, CurIsPlanned, AtFile, PlanIsOpen, Begun,
       TargetsDiffer, InHandIsNew, TransferIsBounded, CleanupFollowsImport, ListingIsThere,
       DueAreDone

LEMMA StartRunKeepsRunInv ==
  ASSUME RunInv, StartRun
  PROVE  RunInv'
<1>1. /\ UNCHANGED <<part, local, imported, job, marker, remote, camera, made, freed, awaits, faults>>
      /\ run.at = "idle"
  BY DEF StartRun, disk, onCamera, ledger
<1>2. PICK mode \in Modes, delete \in BOOLEAN, listing \in MediaList :
        run' = [Idle EXCEPT !.at = "reap", !.mode = mode, !.delete = delete,
                            !.listing = listing,
                            !.due = IF delete THEN DueCameraDeletes ELSE {}]
  BY DEF StartRun
<1> DEFINE due == IF delete THEN DueCameraDeletes ELSE {}
<1>3. listing \subseteq camera BY DEF MediaList, ParseMediaList
<1>4. camera \subseteq made /\ made \subseteq Recordings BY DEF RunInv, TypeOK
<1>5. due \subseteq Recordings /\ \A r \in due : job[r] = "done" BY DEF DueCameraDeletes
<1>6. /\ run'.at = "reap" /\ run'.listing = listing /\ run'.due = due /\ run'.todo = {}
  BY <1>2 DEF Idle
<1> HIDE DEF due
<1>7. run' \in Run
  <2>1. run' = [Idle EXCEPT !.at = "reap", !.mode = mode, !.delete = delete,
                            !.listing = listing, !.due = due]
    BY <1>2 DEF due
  <2> QED BY <1>3, <1>4, <1>5, <2>1, IdleIsRun DEF Run, RunStep
<1>8. TypeOK' BY <1>1, <1>7 DEF RunInv, TypeOK
<1>9. OrphansAreFaults' /\ RowsHaveFiles'
  BY <1>1, <1>6, FilesAndRowsStay DEF InHand
<1>10. RowsAreMade' /\ FreedIsDone' BY <1>1 DEF RunInv, RowsAreMade, FreedIsDone
<1>11. /\ CurIsPlanned' /\ PlanIsOpen' /\ TargetsDiffer' /\ InHandIsNew'
       /\ TransferIsBounded' /\ CleanupFollowsImport'
  BY <1>6 DEF CurIsPlanned, AtFile, PlanIsOpen, TargetsDiffer, InHandIsNew,
              TransferIsBounded, CleanupFollowsImport
<1>12. ListingIsThere' BY <1>1, <1>3, <1>4, <1>6 DEF RunInv, ListingIsThere
<1>13. DueAreDone' BY <1>1, <1>5, <1>6 DEF DueAreDone
<1> QED BY <1>8, <1>9, <1>10, <1>11, <1>12, <1>13 DEF RunInv

\* What the reap looks at is a recording whose upload is done.
LEMMA FirstIsDue ==
  ASSUME RunInv, run.due # {}
  PROVE  /\ First(run.due) \in Recordings /\ First(run.due) \in run.due
         /\ imported[First(run.due)] # NoDest /\ job[First(run.due)] = "done"
<1>1. run.due \in SUBSET Recordings BY DEF RunInv, TypeOK, Run
<1>2. First(run.due) \in run.due BY <1>1, FirstIsIn
<1> QED BY <1>1, <1>2 DEF RunInv, DueAreDone, RowsAreMade

\* A step of the reap: no file, row or job changes.
LEMMA ReapStepKeepsRunInv ==
  ASSUME RunInv,
         UNCHANGED <<part, local, imported, job, remote, made, awaits, faults>>,
         run.at \in {"reap", "mark"}, run'.at \in {"reap", "mark"}, run' \in Run,
         run'.todo = run.todo, run'.listing = run.listing, run'.due \subseteq run.due,
         marker' \in [Recordings -> {"none", "pending", "deleted"}],
         \A r \in Recordings : imported[r] = NoDest => marker'[r] = marker[r],
         camera' \subseteq camera, freed' = freed \cup (camera \ camera'),
         \A r \in camera \ camera' : imported[r] # NoDest /\ job[r] = "done",
         run'.at = "mark" => run'.due # {} /\ First(run'.due) \notin camera'
  PROVE  RunInv'
<1>1. TypeOK' BY DEF RunInv, TypeOK
<1>2. OrphansAreFaults' /\ RowsHaveFiles' BY FilesAndRowsStay DEF InHand
<1>3. RowsAreMade' /\ FreedIsDone' BY DEF RunInv, RowsAreMade, FreedIsDone
<1>4. /\ CurIsPlanned' /\ PlanIsOpen' /\ TargetsDiffer' /\ InHandIsNew'
      /\ TransferIsBounded' /\ CleanupFollowsImport'
  BY DEF RunInv, CurIsPlanned, AtFile, PlanIsOpen, TargetsDiffer, InHandIsNew,
         TransferIsBounded, CleanupFollowsImport
<1>5. ListingIsThere' BY DEF RunInv, ListingIsThere
<1>6. DueAreDone' BY DEF RunInv, DueAreDone
<1> QED BY <1>1, <1>2, <1>3, <1>4, <1>5, <1>6 DEF RunInv

LEMMA ReapKeepsRunInv ==
  ASSUME RunInv, Reap
  PROVE  RunInv'
<1> DEFINE r == First(run.due)
           fewer == [run EXCEPT !.due = @ \ {r}]
<1>1. run \in Run /\ run.due \subseteq Recordings BY DEF RunInv, TypeOK, Run
<1>2. /\ UNCHANGED <<part, local, imported, job, remote, made, awaits, faults>>
      /\ run.at \in {"reap", "mark"}
  BY DEF Reap, ReapStaleMarker, ReapDelete, ReapDeleteFails, MarkCameraDeleteDone, disk,
         onCamera, ledger
<1>3. run.due # {}
  BY DEF Reap, ReapStaleMarker, ReapDelete, ReapDeleteFails, MarkCameraDeleteDone, RunInv,
         DueAreDone
<1>4. /\ r \in Recordings /\ r \in run.due
      /\ imported[r] # NoDest /\ job[r] = "done"
  BY <1>3, FirstIsDue
<1>5. /\ fewer \in Run /\ fewer.at = run.at /\ fewer.todo = run.todo
      /\ fewer.listing = run.listing /\ fewer.due \subseteq run.due
  BY <1>1 DEF Run
<1> HIDE DEF fewer
<1>6. CASE ReapStaleMarker
  <2>1. /\ marker' = [marker EXCEPT ![r] = "deleted"] /\ run' = fewer /\ run.at = "reap"
        /\ UNCHANGED <<camera, freed>>
    BY <1>6 DEF ReapStaleMarker, onCamera, fewer
  <2>2. /\ marker' \in [Recordings -> {"none", "pending", "deleted"}]
        /\ \A q \in Recordings : imported[q] = NoDest => marker'[q] = marker[q]
    BY <1>4, <2>1 DEF RunInv, TypeOK
  <2>3. freed' = freed \cup (camera \ camera') /\ camera \ camera' = {} BY <2>1
  <2> QED BY <1>2, <1>5, <2>1, <2>2, <2>3, ReapStepKeepsRunInv
<1>7. CASE MarkCameraDeleteDone
  <2>1. /\ marker' = [marker EXCEPT ![r] = "deleted"]
        /\ run' = [run EXCEPT !.at = "reap", !.due = @ \ {r}]
        /\ UNCHANGED <<camera, freed>>
    BY <1>7 DEF MarkCameraDeleteDone, onCamera
  <2>2. /\ run' \in Run /\ run'.at = "reap" /\ run'.todo = run.todo
        /\ run'.listing = run.listing /\ run'.due \subseteq run.due
    BY <1>1, <2>1 DEF Run, RunStep
  <2>3. /\ marker' \in [Recordings -> {"none", "pending", "deleted"}]
        /\ \A q \in Recordings : imported[q] = NoDest => marker'[q] = marker[q]
    BY <1>4, <2>1 DEF RunInv, TypeOK
  <2>4. freed' = freed \cup (camera \ camera') /\ camera \ camera' = {} BY <2>1
  <2> QED BY <1>2, <2>1, <2>2, <2>3, <2>4, ReapStepKeepsRunInv
<1>8. CASE ReapDeleteFails
  <2>1. run' = fewer /\ run.at = "reap" /\ UNCHANGED <<camera, freed, marker>>
    BY <1>8 DEF ReapDeleteFails, onCamera, ledger, fewer
  <2>2. marker' \in [Recordings -> {"none", "pending", "deleted"}]
    BY <2>1 DEF RunInv, TypeOK
  <2>3. freed' = freed \cup (camera \ camera') /\ camera \ camera' = {} BY <2>1
  <2> QED BY <1>2, <1>5, <2>1, <2>2, <2>3, ReapStepKeepsRunInv
<1>9. CASE ReapDelete
  <2>1. /\ r \in run.listing /\ camera' = Deleted(r) /\ run.at = "reap"
        /\ freed' = freed \cup (camera \ camera') /\ UNCHANGED marker
        /\ run' \in {[run EXCEPT !.at = "mark"], fewer}
    BY <1>9 DEF ReapDelete, ledger, fewer
  <2>2. marker' \in [Recordings -> {"none", "pending", "deleted"}]
    BY <2>1 DEF RunInv, TypeOK
  <2>3. \A q \in camera \ camera' : q = r
    BY <2>1 DEF Deleted, RunInv, ListingIsThere
  <2>4. camera' \subseteq camera /\ r \notin camera' BY <1>4, <2>1 DEF Deleted
  <2>5. CASE run' = fewer
    BY <1>2, <1>4, <1>5, <2>1, <2>2, <2>3, <2>4, <2>5, ReapStepKeepsRunInv
  <2>6. CASE run' = [run EXCEPT !.at = "mark"]
    <3>1. /\ run' \in Run /\ run'.at = "mark" /\ run'.todo = run.todo
          /\ run'.listing = run.listing /\ run'.due = run.due
      BY <1>1, <2>6 DEF Run, RunStep
    <3> QED BY <1>2, <1>3, <1>4, <2>1, <2>2, <2>3, <2>4, <3>1, ReapStepKeepsRunInv
  <2> QED BY <2>1, <2>5, <2>6
<1> QED BY <1>6, <1>7, <1>8, <1>9 DEF Reap

\* A run that is over leaves nothing to keep.
LEMMA IdleKeepsPlan ==
  ASSUME RunInv, run' = Idle, UNCHANGED <<imported, camera, made>>
  PROVE  /\ InHand' = {}
         /\ CurIsPlanned' /\ PlanIsOpen' /\ TargetsDiffer' /\ InHandIsNew'
         /\ TransferIsBounded' /\ CleanupFollowsImport' /\ ListingIsThere' /\ DueAreDone'
<1>1. run'.at = "idle" /\ run'.todo = {} /\ run'.due = {} /\ run'.listing = {} BY DEF Idle
<1> QED BY <1>1
    DEF InHand, CurIsPlanned, AtFile, PlanIsOpen, TargetsDiffer, InHandIsNew, RunInv,
        TransferIsBounded, CleanupFollowsImport, ListingIsThere, DueAreDone

LEMMA PlanWiredKeepsRunInv ==
  ASSUME RunInv, PlanWired
  PROVE  RunInv'
<1> DEFINE plan == {r \in run.listing : imported[r] = NoDest}
           target == [r \in Recordings |-> IF r \in plan THEN Resolved(r, plan) ELSE NoDest]
<1>1. /\ UNCHANGED <<part, local, imported, job, marker, remote, camera, made, freed, awaits, faults>>
      /\ run.at = "reap" /\ run.due = {}
      /\ run' \in {Idle, [GoOnTo(plan, 0) EXCEPT !.target = target]}
  BY DEF PlanWired, disk, onCamera, ledger
<1>2. run \in Run /\ run.listing \subseteq Recordings BY DEF RunInv, TypeOK, Run
<1>3. /\ plan \in SUBSET Recordings
      /\ \A r \in plan : imported[r] = NoDest /\ r \in run.listing
  BY <1>2
<1> HIDE DEF plan
<1>4. \A r \in plan : /\ Resolved(r, plan) \in Dests
                      /\ Resolved(r, plan)[1] = Name[r]
                      /\ ~Exists(Resolved(r, plan))
  BY <1>1, <1>3, ResolvedIsFree
<1>5. \A r, q \in plan : r # q => Resolved(r, plan) # Resolved(q, plan)
  BY <1>1, <1>3, ResolvedDiffer
<1>6. target \in [Recordings -> Dests \cup {NoDest}] BY <1>4
<1>7. \A r \in plan : target[r] = Resolved(r, plan) BY <1>3
<1>8. plan = {} => target = NoTarget BY DEF NoTarget
<1> HIDE DEF target
<1>9. OrphansAreFaults' /\ RowsHaveFiles'
  <2>1. InHand' = InHand
    <3> DEFINE begun == [run EXCEPT !.at = "open", !.todo = plan, !.cur = First(plan),
                                    !.tries = 0, !.streak = 0, !.pos = 0, !.hashed = <<>>,
                                    !.due = {}]
    <3>1. run'.at \in {"idle", "open"}
      <4>1. [Idle EXCEPT !.target = target].at = "idle" /\ Idle.at = "idle" BY DEF Idle
      <4>2. [begun EXCEPT !.target = target].at = "open" BY <1>2 DEF Run
      <4>3. GoOnTo(plan, 0) = IF plan = {} THEN Idle ELSE begun BY DEF GoOnTo
      <4> HIDE DEF begun
      <4> QED BY <1>1, <4>1, <4>2, <4>3
    <3> QED BY <1>1, <3>1 DEF InHand
  <2> QED BY <1>1, <2>1, FilesAndRowsStay
<1>10. RowsAreMade' /\ FreedIsDone' BY <1>1 DEF RunInv, RowsAreMade, FreedIsDone
<1>11. CASE run' = Idle
  <2>1. TypeOK' BY <1>1, <1>11, IdleIsRun DEF RunInv, TypeOK
  <2> QED BY <1>1, <1>9, <1>10, <1>11, <2>1, IdleKeepsPlan DEF RunInv
<1>12. CASE run' # Idle
  <2>1. plan # {}
    <3> SUFFICES ASSUME plan = {} PROVE run' = Idle
      BY <1>12
    <3>1. GoOnTo(plan, 0) = Idle BY DEF GoOnTo
    <3>2. [Idle EXCEPT !.target = NoTarget] = Idle
      <4>1. \A old \in Run : [old EXCEPT !.target = old.target] = old BY DEF Run
      <4>2. Idle.target = NoTarget BY DEF Idle
      <4> QED BY <4>1, <4>2, IdleIsRun
    <3>3. target = NoTarget BY <1>8
    <3>4. run' \in {Idle, [Idle EXCEPT !.target = NoTarget]} BY <1>1, <3>1, <3>3
    <3> QED BY <3>2, <3>4
  <2>2. First(plan) \in plan BY <1>3, <2>1, FirstIsIn
  <2> DEFINE begun == [run EXCEPT !.at = "open", !.todo = plan, !.cur = First(plan),
                                  !.tries = 0, !.streak = 0, !.pos = 0, !.hashed = <<>>,
                                  !.due = {}]
  <2>3. run' = [begun EXCEPT !.target = target]
    BY <1>1, <1>12, <2>1 DEF GoOnTo
  <2>4. 0 \in 0..(MaxAttempts - 1) /\ 0 \in 0..(MaxOffline - 1) /\ 0 \in 0..(MaxSize + 1)
    BY BoundsAssumption, FilesAssumption
  <2>5. run' \in Run
    <3>1. \A old \in Run : [old EXCEPT !.at = "open", !.tries = 0, !.streak = 0, !.pos = 0,
                                       !.hashed = <<>>] \in Run
      BY ZenonT(40), <2>4, EmptyIsSeq DEF Run, RunStep
    <3>2. \A old \in Run, c \in Recordings :
            [old EXCEPT !.todo = plan, !.cur = c, !.due = {}, !.target = target] \in Run
      BY <1>3, <1>6 DEF Run
    <3>3. First(plan) \in Recordings BY <1>3, <2>2
    <3>4. run' = [[run EXCEPT !.at = "open", !.tries = 0, !.streak = 0, !.pos = 0, !.hashed = <<>>]
                   EXCEPT !.todo = plan, !.cur = First(plan), !.due = {}, !.target = target]
      BY <1>2, <2>3 DEF Run
    <3> QED BY <1>2, <3>1, <3>2, <3>3, <3>4
  <2>6. /\ run'.at = "open" /\ run'.todo = plan /\ run'.cur = First(plan) /\ run'.due = {}
        /\ run'.listing = run.listing /\ run'.target = target
    BY <1>2, <2>3 DEF Run
  <2>7. TypeOK' BY <1>1, <2>5 DEF RunInv, TypeOK
  <2>8. CurIsPlanned' BY <2>2, <2>6 DEF CurIsPlanned, AtFile
  <2>9. PlanIsOpen' BY <1>1, <1>3, <1>4, <1>7, <2>6 DEF PlanIsOpen, Begun, Exists
  <2>10. TargetsDiffer' BY <1>5, <1>7, <2>6 DEF TargetsDiffer
  <2>11. InHandIsNew' /\ TransferIsBounded' /\ CleanupFollowsImport' /\ DueAreDone'
    BY <2>6 DEF InHandIsNew, TransferIsBounded, CleanupFollowsImport, DueAreDone
  <2>12. ListingIsThere' BY <1>1, <2>6 DEF RunInv, ListingIsThere
  <2> QED BY <1>9, <1>10, <2>7, <2>8, <2>9, <2>10, <2>11, <2>12 DEF RunInv
<1> QED BY <1>11, <1>12

\* What stays of the listing when a run leaves a file, or is over.
LEMMA LeavingKeepsListing ==
  ASSUME RunInv, Leaves(run'), UNCHANGED <<made, imported, camera>>
  PROVE  ListingIsThere'
<1>1. CASE run' = Idle
  <2>1. run'.listing = {} BY <1>1 DEF Idle
  <2> QED BY <2>1 DEF RunInv, ListingIsThere
<1>2. CASE run' # Idle
  <2>1. run'.listing = run.listing /\ run'.at = "open" BY <1>2 DEF Leaves
  <2> QED BY <2>1 DEF RunInv, ListingIsThere
<1> QED BY <1>1, <1>2

\* A step of a transfer: it goes on, is complete, or leaves the file.
LEMMA TransferKeepsRunInv ==
  ASSUME RunInv, run.at \in {"open", "body", "rename"},
         UNCHANGED <<local, imported, job, marker, remote, camera, made, freed, awaits, faults>>,
         part' \in [Dests -> Seq(Chunks)],
         \/ Leaves(run')
         \/ /\ run' \in Run /\ run'.at \in {"body", "rename"}
            /\ run'.todo = run.todo /\ run'.cur = run.cur /\ run'.target = run.target
            /\ run'.listing = run.listing /\ run'.due = run.due
            /\ TransferIsBounded'
  PROVE  RunInv'
<1>1. AtFile BY DEF AtFile
<1>2. TypeOK' BY DEF RunInv, TypeOK, Leaves
<1>3. RowsAreMade' /\ FreedIsDone' BY DEF RunInv, RowsAreMade, FreedIsDone
<1>4. CASE Leaves(run')
  <2>1. /\ InHand' = {}
        /\ CurIsPlanned' /\ PlanIsOpen' /\ TargetsDiffer' /\ InHandIsNew'
        /\ TransferIsBounded' /\ CleanupFollowsImport' /\ DueAreDone'
    BY <1>1, <1>4, LeavingKeepsPlan
  <2>2. OrphansAreFaults' /\ RowsHaveFiles'
    BY <2>1, FilesAndRowsStay DEF InHand
  <2>3. ListingIsThere' BY <1>4, LeavingKeepsListing
  <2> QED BY <1>2, <1>3, <2>1, <2>2, <2>3 DEF RunInv
<1>5. CASE ~Leaves(run')
  <2>1. /\ run'.at \in {"body", "rename"}
        /\ run'.todo = run.todo /\ run'.cur = run.cur /\ run'.target = run.target
        /\ run'.listing = run.listing /\ run'.due = run.due
        /\ TransferIsBounded'
    BY <1>5
  <2>2. OrphansAreFaults' /\ RowsHaveFiles' BY <2>1, FilesAndRowsStay DEF InHand
  <2>3. CurIsPlanned' BY <1>1, <2>1 DEF RunInv, CurIsPlanned, AtFile
  <2>4. PlanIsOpen' BY <2>1 DEF RunInv, PlanIsOpen, Begun, Exists
  <2>5. TargetsDiffer' /\ InHandIsNew' /\ CleanupFollowsImport'
    BY <2>1 DEF RunInv, TargetsDiffer, InHandIsNew, CleanupFollowsImport
  <2>6. ListingIsThere' /\ DueAreDone' BY <2>1 DEF RunInv, ListingIsThere, DueAreDone
  <2> QED BY <1>2, <1>3, <2>1, <2>2, <2>3, <2>4, <2>5, <2>6 DEF RunInv
<1> QED BY <1>4, <1>5

\* The prefix a download starts from is shorter than its recording.
LEMMA HaveIsShort ==
  ASSUME RunInv, AtFile
  PROVE  Have \in Seq(Chunks) /\ Len(Have) \in Nat /\ Len(Have) < Size[run.cur]
<1>1. part[Target] \in Seq(Chunks) BY AtFileHas DEF RunInv, TypeOK
<1>2. Size[run.cur] \in Nat \ {0} BY AtFileHas, FilesAssumption
<1>3. Len(part[Target]) \in Nat BY <1>1
<1> QED BY <1>1, <1>2, <1>3, EmptyIsSeq DEF Have

LEMMA DownloadKeepsRunInv ==
  ASSUME RunInv, Download
  PROVE  RunInv'
<1>1. /\ UNCHANGED <<local, imported, job, marker, remote, camera, made, freed, awaits, faults>>
      /\ run.at \in {"open", "body"}
  BY DEF Download, OpenResumed, OpenFresh, OpenFails, ReceiveChunk, BodyFails, BodyEnds,
         disk, onCamera, ledger
<1>2. AtFile BY <1>1 DEF AtFile
<1>3. /\ run.cur \in run.todo /\ run.cur \in Recordings /\ Target \in Dests
      /\ Size[run.cur] \in 1..MaxSize /\ MaxSize \in Nat
  BY <1>2, AtFileHas, FilesAssumption
<1>4. /\ run \in Run /\ part \in [Dests -> Seq(Chunks)] /\ TypeOK
  BY DEF RunInv, TypeOK
<1>5. Have \in Seq(Chunks) /\ Len(Have) \in Nat /\ Len(Have) < Size[run.cur]
  BY <1>2, HaveIsShort
<1>6. \A kind : Leaves(AttemptFails(kind)) BY <1>3, <1>4, AttemptFailsLeaves
<1>7. 0 \in 0..(MaxOffline - 1) BY BoundsAssumption
<1>8. CASE OpenResumed
  <2>1. /\ run' = [run EXCEPT !.at = "body", !.pos = Len(Have) + 1, !.hashed = Have]
        /\ UNCHANGED part
    BY <1>8 DEF OpenResumed, HashPartPrefix, disk
  <2>2. Len(Have) + 1 \in 1..(Size[run.cur] + 1) /\ Len(Have) + 1 \in 0..(MaxSize + 1)
    BY <1>3, <1>5
  <2>3. /\ run' \in Run /\ run'.at = "body" /\ run'.todo = run.todo /\ run'.cur = run.cur
        /\ run'.target = run.target /\ run'.listing = run.listing /\ run'.due = run.due
        /\ run'.pos = Len(Have) + 1
    BY <1>4, <1>5, <2>1, <2>2 DEF Run, RunStep
  <2>4. TransferIsBounded' BY <2>2, <2>3 DEF TransferIsBounded
  <2> QED BY <1>1, <1>4, <2>1, <2>3, <2>4, TransferKeepsRunInv
<1>9. CASE OpenFresh
  <2>1. /\ run' = [run EXCEPT !.at = "body", !.pos = 1, !.hashed = <<>>]
        /\ part' = [part EXCEPT ![Target] = <<>>]
    BY <1>9 DEF OpenFresh
  <2>2. 1 \in 1..(Size[run.cur] + 1) /\ 1 \in 0..(MaxSize + 1) BY <1>3
  <2>3. /\ run' \in Run /\ run'.at = "body" /\ run'.todo = run.todo /\ run'.cur = run.cur
        /\ run'.target = run.target /\ run'.listing = run.listing /\ run'.due = run.due
        /\ run'.pos = 1
    BY <1>4, <2>1, <2>2, EmptyIsSeq DEF Run, RunStep
  <2>4. TransferIsBounded' BY <2>2, <2>3 DEF TransferIsBounded
  <2>5. part' \in [Dests -> Seq(Chunks)] BY <1>4, <2>1, EmptyIsSeq
  <2> QED BY <1>1, <2>3, <2>4, <2>5, TransferKeepsRunInv
<1>10. CASE OpenFails
  <2>1. PICK left \in {Have, <<>>} : part' = [part EXCEPT ![Target] = left]
    BY <1>10 DEF OpenFails
  <2>2. part' \in [Dests -> Seq(Chunks)] BY <1>4, <1>5, <2>1, EmptyIsSeq
  <2>3. Leaves(run') BY <1>6, <1>10 DEF OpenFails
  <2> QED BY <1>1, <2>2, <2>3, TransferKeepsRunInv
<1>11. CASE ReceiveChunk
  <2>1. PICK c \in Written : part' = [part EXCEPT ![Target] = Append(@, c)]
    BY <1>11 DEF ReceiveChunk
  <2>2. /\ run' = [run EXCEPT !.pos = @ + 1, !.hashed = Append(@, <<run.cur, run.pos>>)]
        /\ run.at = "body" /\ run.pos <= Size[run.cur] /\ run.pos \in 1..(Size[run.cur] + 1)
    BY <1>11 DEF ReceiveChunk, RunInv, TransferIsBounded
  <2>3. /\ run.pos \in 1..MaxSize /\ run.pos + 1 \in 1..(Size[run.cur] + 1)
        /\ run.pos + 1 \in 0..(MaxSize + 1)
    BY <1>3, <2>2
  <2>4. <<run.cur, run.pos>> \in Chunks BY <1>3, <2>3 DEF Chunks
  <2>5. c \in Chunks
    <3>1. Junk \in Chunks BY DEF Chunks
    <3> QED BY <2>4, <3>1 DEF Written
  <2>6. part' \in [Dests -> Seq(Chunks)]
    <3>1. part[Target] \in Seq(Chunks) BY <1>3, <1>4
    <3>2. Append(part[Target], c) \in Seq(Chunks) BY <2>5, <3>1
    <3> QED BY <1>4, <2>1, <3>2
  <2>7. Append(run.hashed, <<run.cur, run.pos>>) \in Seq(Chunks)
    <3>1. run.hashed \in Seq(Chunks) BY <1>4 DEF Run
    <3> QED BY <2>4, <3>1
  <2>8. /\ run' \in Run /\ run'.at = "body" /\ run'.todo = run.todo /\ run'.cur = run.cur
        /\ run'.target = run.target /\ run'.listing = run.listing /\ run'.due = run.due
        /\ run'.pos = run.pos + 1
    BY <1>4, <2>2, <2>3, <2>7 DEF Run, RunStep
  <2>9. TransferIsBounded' BY <2>3, <2>8 DEF TransferIsBounded
  <2> QED BY <1>1, <2>6, <2>8, <2>9, TransferKeepsRunInv
<1>12. CASE BodyFails
  <2>1. Leaves(run') /\ UNCHANGED part BY <1>6, <1>12 DEF BodyFails, disk
  <2> QED BY <1>1, <1>4, <2>1, TransferKeepsRunInv
<1>13. CASE BodyEnds
  <2>1. UNCHANGED part BY <1>13 DEF BodyEnds, disk
  <2>2. CASE Len(part[Target]) = Size[run.cur]
    <3>1. run' = [run EXCEPT !.at = "rename", !.streak = 0] BY <1>13, <2>2 DEF BodyEnds
    <3>2. /\ run' \in Run /\ run'.at = "rename" /\ run'.todo = run.todo
          /\ run'.cur = run.cur /\ run'.target = run.target
          /\ run'.listing = run.listing /\ run'.due = run.due
      BY <1>4, <1>7, <3>1 DEF Run, RunStep
    <3>3. TransferIsBounded' BY <2>1, <2>2, <3>2 DEF TransferIsBounded, Target
    <3> QED BY <1>1, <1>4, <2>1, <3>2, <3>3, TransferKeepsRunInv
  <2>3. CASE Len(part[Target]) # Size[run.cur]
    <3>1. Leaves(run') BY <1>4, <1>7, <1>13, <2>3, NextFileLeaves DEF BodyEnds
    <3> QED BY <1>1, <1>4, <2>1, <3>1, TransferKeepsRunInv
  <2> QED BY <2>2, <2>3
<1> QED BY <1>8, <1>9, <1>10, <1>11, <1>12, <1>13 DEF Download

\* Leaving a file, or ending, once the files and rows are accounted for.
LEMMA LeavingKeepsRunInv ==
  ASSUME RunInv, AtFile, Leaves(run'),
         run.at \in {"verify", "commit", "cleanup"} /\ run' # Idle =>
           run'.todo = run.todo \ {run.cur},
         TypeOK', OrphansAreFaults', RowsHaveFiles', RowsAreMade', FreedIsDone',
         ListingIsThere',
         \A r \in run'.todo :
           imported'[r] = imported[r] /\ local'[run.target[r]] = local[run.target[r]],
         \A r \in Recordings : job[r] = "done" => job'[r] = "done"
  PROVE  RunInv'
<1>1. /\ CurIsPlanned' /\ PlanIsOpen' /\ TargetsDiffer' /\ InHandIsNew'
      /\ TransferIsBounded' /\ CleanupFollowsImport' /\ DueAreDone'
  BY LeavingKeepsPlan
<1> QED BY <1>1 DEF RunInv

\* The file after this one: the run leaves, with one file less to do.
LEMMA NextFileIsNext ==
  ASSUME RunInv, AtFile, run' = NextFile(0)
  PROVE  /\ Leaves(run') /\ run' \in Run /\ InHand' = {}
         /\ run' # Idle => run'.todo = run.todo \ {run.cur}
         /\ run'.todo \subseteq run.todo \ {run.cur}
<1>1. 0 \in 0..(MaxOffline - 1) BY BoundsAssumption
<1>2. Leaves(run') /\ (run' # Idle => run'.todo = run.todo \ {run.cur})
  BY <1>1, NextFileLeaves DEF RunInv
<1>3. run' # Idle => run'.at = "open" BY <1>2 DEF Leaves
<1>4. Idle.todo = {} /\ Idle.at = "idle" BY DEF Idle
<1> QED BY <1>2, <1>3, <1>4 DEF Leaves, InHand

LEMMA RenameKeepsRunInv ==
  ASSUME RunInv, Rename
  PROVE  RunInv'
<1>1. /\ run.at = "rename" /\ AtFile
      /\ local' = [local EXCEPT ![Target] = part[Target]]
      /\ part' = [part EXCEPT ![Target] = <<>>]
      /\ run' = [run EXCEPT !.at = "verify"]
      /\ UNCHANGED <<imported, job, marker, remote, camera, made, freed, awaits, faults>>
  BY DEF Rename, AtFile, onCamera, ledger
<1>2. /\ run.cur \in run.todo /\ run.cur \in Recordings /\ run.todo \subseteq Recordings
      /\ Target \in Dests /\ Target # NoDest /\ ~Exists(Target)
      /\ \A r \in run.todo \ {run.cur} : run.target[r] \in Dests /\ run.target[r] # Target
      /\ imported[run.cur] = NoDest
  BY <1>1, AtFileHas
<1>3. /\ part \in [Dests -> Seq(Chunks)] /\ local \in [Dests -> Seq(Chunks)]
      /\ imported \in [Recordings -> Dests \cup {NoDest}] /\ run \in Run
  BY DEF RunInv, TypeOK
<1>4. /\ run' \in Run /\ run'.at = "verify" /\ run'.todo = run.todo /\ run'.cur = run.cur
      /\ run'.target = run.target /\ run'.listing = run.listing /\ run'.due = run.due
      /\ run'.pos = run.pos /\ Target' = Target
  BY <1>1, <1>3 DEF Run, RunStep, Target
<1>5. part[Target] # <<>>
  <2>1. Len(part[Target]) = Size[run.cur] BY <1>1 DEF RunInv, TransferIsBounded
  <2>2. Size[run.cur] \in 1..MaxSize BY <1>2, FilesAssumption
  <2> QED BY <2>1, <2>2, EmptyIsSeq
<1>6. TypeOK'
  <2>1. part' \in [Dests -> Seq(Chunks)] /\ local' \in [Dests -> Seq(Chunks)]
    BY <1>1, <1>2, <1>3, EmptyIsSeq
  <2> QED BY <1>1, <1>4, <2>1 DEF RunInv, TypeOK
<1>7. \A d \in Dests : Exists(d)' <=> Exists(d) \/ d = Target
  BY <1>1, <1>2, <1>3, <1>5 DEF Exists
<1>8. Target \notin Rows
  BY <1>2 DEF RunInv, RowsHaveFiles, Rows
<1>9. OrphansAreFaults'
  <2>1. InHand' = {Target} /\ InHand = {} BY <1>1, <1>4 DEF InHand
  <2>2. Orphans' \subseteq Orphans
    BY <1>1, <1>7, <2>1 DEF Orphans, Taken, Rows
  <2>3. faults \in Nat /\ faults' = faults BY <1>1 DEF RunInv, TypeOK
  <2> QED BY <2>2, <2>3, OrphansShrink DEF RunInv
<1>10. RowsHaveFiles' BY <1>1, <1>3, <1>7 DEF RunInv, RowsHaveFiles
<1>11. RowsAreMade' /\ FreedIsDone' BY <1>1 DEF RunInv, RowsAreMade, FreedIsDone
<1>12. CurIsPlanned' BY <1>2, <1>4 DEF CurIsPlanned, AtFile
<1>13. PlanIsOpen'
  <2> SUFFICES ASSUME NEW r \in run.todo
               PROVE  /\ r \in run.listing /\ run.target[r] \in Dests
                      /\ run.target[r][1] = Name[r] /\ imported[r] = NoDest
                      /\ r = run.cur \/ ~Exists(run.target[r])'
    BY <1>1, <1>4 DEF PlanIsOpen, Begun, Exists
  <2>1. /\ r \in run.listing /\ run.target[r] \in Dests /\ run.target[r][1] = Name[r]
        /\ imported[r] = NoDest /\ ~Exists(run.target[r])
    BY <1>1 DEF RunInv, PlanIsOpen, Begun
  <2>2. r # run.cur => ~Exists(run.target[r])'
    BY <1>1, <1>2, <1>3, <2>1 DEF Exists
  <2> QED BY <2>1, <2>2
<1>14. TargetsDiffer' /\ DueAreDone' /\ ListingIsThere'
  BY <1>1, <1>4 DEF RunInv, TargetsDiffer, DueAreDone, ListingIsThere
<1>15. InHandIsNew' BY <1>1, <1>2, <1>4, <1>7, <1>8 DEF InHandIsNew, Rows
<1>16. TransferIsBounded' /\ CleanupFollowsImport'
  BY <1>4 DEF TransferIsBounded, CleanupFollowsImport
<1> QED BY <1>6, <1>9, <1>10, <1>11, <1>12, <1>13, <1>14, <1>15, <1>16 DEF RunInv

LEMMA RenameFailsKeepsRunInv ==
  ASSUME RunInv, RenameFails
  PROVE  RunInv'
<1>1. /\ run.at = "rename" /\ AtFile /\ run' = NextFile(0)
      /\ UNCHANGED <<part, local, imported, job, marker, remote, camera, made, freed, awaits, faults>>
  BY DEF RenameFails, AtFile, disk, onCamera, ledger
<1>2. Leaves(run') BY <1>1, NextFileIsNext
<1>3. part' \in [Dests -> Seq(Chunks)] BY <1>1 DEF RunInv, TypeOK
<1> QED BY <1>1, <1>2, <1>3, TransferKeepsRunInv

\* While its target is in hand, the run has it to itself.
LEMMA InHandIsAlone ==
  ASSUME RunInv, run.at \in {"verify", "commit"}
  PROVE  /\ AtFile /\ InHand = {Target}
         /\ run.cur \in Recordings /\ run.cur \in made /\ imported[run.cur] = NoDest
         /\ Target \in Dests /\ Target # NoDest /\ Target \notin Rows
         /\ job[run.cur] = "none" /\ run.cur \notin freed /\ run.cur \notin awaits
<1>1. AtFile BY DEF AtFile
<1>2. /\ run.cur \in Recordings /\ run.cur \in made /\ imported[run.cur] = NoDest
      /\ Target \in Dests /\ Target # NoDest
  BY <1>1, AtFileHas
<1> QED BY <1>1, <1>2 DEF InHand, RunInv, InHandIsNew, RowsAreMade

LEMMA VerifyKeepsRunInv ==
  ASSUME RunInv, VerifyDestHash
  PROVE  RunInv'
<1>1. /\ run.at = "verify"
      /\ UNCHANGED <<part, imported, job, marker, remote, camera, made, freed, awaits, faults>>
  BY DEF VerifyDestHash, onCamera, ledger
<1>2. /\ AtFile /\ InHand = {Target} /\ Target \in Dests /\ Target \notin Rows
  BY <1>1, InHandIsAlone
<1>3. \A r \in run.todo \ {run.cur} : run.target[r] \in Dests /\ run.target[r] # Target
  BY <1>2, AtFileHas
<1>4. /\ local \in [Dests -> Seq(Chunks)] /\ run \in Run
      /\ imported \in [Recordings -> Dests \cup {NoDest}] /\ faults \in Nat
  BY DEF RunInv, TypeOK
<1>5. RowsAreMade' /\ FreedIsDone' BY <1>1 DEF RunInv, RowsAreMade, FreedIsDone
<1>6. CASE Verify /\ local[Target] # run.hashed
  <2>1. local' = [local EXCEPT ![Target] = <<>>] /\ run' = NextFile(0)
    BY <1>6 DEF VerifyDestHash
  <2>2. /\ Leaves(run') /\ run' \in Run /\ InHand' = {}
        /\ run' # Idle => run'.todo = run.todo \ {run.cur}
        /\ run'.todo \subseteq run.todo \ {run.cur}
    BY <1>2, <2>1, NextFileIsNext
  <2>3. \A d \in Dests : Exists(d)' <=> Exists(d) /\ d # Target
    BY <1>2, <1>4, <2>1 DEF Exists
  <2>4. TypeOK'
    <3>1. local' \in [Dests -> Seq(Chunks)] BY <1>4, <2>1, EmptyIsSeq
    <3> QED BY <1>1, <2>2, <3>1 DEF RunInv, TypeOK
  <2>5. OrphansAreFaults'
    <3>1. Orphans' \subseteq Orphans BY <1>1, <1>2, <2>2, <2>3 DEF Orphans, Taken, Rows
    <3> QED BY <1>1, <1>4, <3>1, OrphansShrink DEF RunInv
  <2>6. RowsHaveFiles' BY <1>1, <1>2, <1>4, <2>3 DEF RunInv, RowsHaveFiles, Rows
  <2>7. \A r \in run'.todo :
          imported'[r] = imported[r] /\ local'[run.target[r]] = local[run.target[r]]
    BY <1>1, <1>3, <1>4, <2>1, <2>2
  <2>8. ListingIsThere' BY <1>1, <2>2, LeavingKeepsListing
  <2> QED BY <1>1, <1>2, <1>5, <2>2, <2>4, <2>5, <2>6, <2>7, <2>8, LeavingKeepsRunInv
<1>7. CASE ~(Verify /\ local[Target] # run.hashed)
  <2>1. run' = [run EXCEPT !.at = "commit"] /\ UNCHANGED local
    BY <1>7 DEF VerifyDestHash
  <2>2. /\ run' \in Run /\ run'.at = "commit" /\ run'.todo = run.todo /\ run'.cur = run.cur
        /\ run'.target = run.target /\ run'.listing = run.listing /\ run'.due = run.due
        /\ Target' = Target
    BY <1>4, <2>1 DEF Run, RunStep, Target
  <2>3. TypeOK' BY <1>1, <2>1, <2>2 DEF RunInv, TypeOK
  <2>4. OrphansAreFaults' /\ RowsHaveFiles'
    BY <1>1, <2>1, <2>2, FilesAndRowsStay DEF InHand
  <2>5. CurIsPlanned' /\ TargetsDiffer' /\ DueAreDone' /\ ListingIsThere'
    BY <1>1, <1>2, <2>2 DEF RunInv, CurIsPlanned, AtFile, TargetsDiffer, DueAreDone, ListingIsThere
  <2>6. PlanIsOpen' BY <1>1, <2>1, <2>2 DEF RunInv, PlanIsOpen, Begun, Exists
  <2>7. InHandIsNew' BY <1>1, <2>1, <2>2 DEF RunInv, InHandIsNew, Exists, Rows
  <2>8. TransferIsBounded' /\ CleanupFollowsImport'
    BY <2>2 DEF TransferIsBounded, CleanupFollowsImport
  <2> QED BY <1>5, <2>3, <2>4, <2>5, <2>6, <2>7, <2>8 DEF RunInv
<1> QED BY <1>6, <1>7

LEMMA VerifyUnreadableKeepsRunInv ==
  ASSUME RunInv, VerifyUnreadable
  PROVE  RunInv'
<1>1. /\ run.at = "verify" /\ run' = NextFile(0) /\ faults < MaxFaults /\ faults' = faults + 1
      /\ UNCHANGED <<part, local, imported, job, marker, remote, camera, made, freed, awaits>>
  BY DEF VerifyUnreadable, disk, onCamera, ledger
<1>2. AtFile /\ InHand = {Target} BY <1>1, InHandIsAlone
<1>3. /\ Leaves(run') /\ run' \in Run /\ InHand' = {}
      /\ run' # Idle => run'.todo = run.todo \ {run.cur}
  BY <1>1, <1>2, NextFileIsNext
<1>4. faults \in Nat /\ faults' \in 0..MaxFaults
  BY <1>1, BoundsAssumption DEF RunInv, TypeOK
<1>5. TypeOK' BY <1>1, <1>3, <1>4 DEF RunInv, TypeOK
<1>6. OrphansAreFaults'
  <2>1. Orphans' \subseteq Orphans \cup {Target}
    BY <1>1, <1>2, <1>3 DEF Orphans, Taken, Exists, Rows
  <2> QED BY <1>1, <1>4, <2>1, OrphanByFault DEF RunInv
<1>7. /\ RowsHaveFiles' /\ RowsAreMade' /\ FreedIsDone'
  BY <1>1 DEF RunInv, RowsHaveFiles, Exists, RowsAreMade, FreedIsDone
<1>8. ListingIsThere' BY <1>1, <1>3, LeavingKeepsListing
<1> QED BY <1>1, <1>2, <1>3, <1>5, <1>6, <1>7, <1>8, LeavingKeepsRunInv

LEMMA CommitKeepsRunInv ==
  ASSUME RunInv, CommitImported
  PROVE  RunInv'
<1>1. /\ run.at = "commit"
      /\ imported' = [imported EXCEPT ![run.cur] = Target]
      /\ job' = [job EXCEPT ![run.cur] = IF run.mode \in {"Auto", "Manual"} THEN "pending" ELSE @]
      /\ awaits' = IF run.mode = "Auto" THEN awaits \cup {run.cur} ELSE awaits
      /\ run' = IF run.delete THEN [run EXCEPT !.at = "cleanup"] ELSE NextFile(0)
      /\ UNCHANGED <<part, local, marker, remote, camera, made, freed, faults>>
  BY DEF CommitImported, disk
<1>2. /\ AtFile /\ InHand = {Target}
      /\ run.cur \in Recordings /\ run.cur \in made /\ imported[run.cur] = NoDest
      /\ Target \in Dests /\ Target # NoDest /\ Target \notin Rows
      /\ job[run.cur] = "none" /\ run.cur \notin freed /\ run.cur \notin awaits
  BY <1>1, InHandIsAlone
<1>3. /\ run.cur \in run.todo /\ run.todo \subseteq Recordings
      /\ \A r \in run.todo \ {run.cur} : run.target[r] \in Dests /\ run.target[r] # Target
  BY <1>2, AtFileHas
<1>4. /\ imported \in [Recordings -> Dests \cup {NoDest}] /\ run \in Run /\ faults \in Nat
      /\ job \in [Recordings -> {"none", "pending", "done"}]
  BY DEF RunInv, TypeOK
<1>5. /\ imported' \in [Recordings -> Dests \cup {NoDest}]
      /\ \A r \in Recordings : imported'[r] = IF r = run.cur THEN Target ELSE imported[r]
  BY <1>1, <1>2, <1>4
<1>6. /\ job' \in [Recordings -> {"none", "pending", "done"}]
      /\ \A r \in Recordings : r # run.cur => job'[r] = job[r]
  BY <1>1, <1>2, <1>4
<1>7. /\ local'[Target] # <<>> /\ local' = local
      /\ \A d \in Dests : Exists(d)' <=> Exists(d)
  BY <1>1 DEF RunInv, InHandIsNew, Exists
<1>8. run' \in Run => TypeOK' BY <1>1, <1>2, <1>5, <1>6 DEF RunInv, TypeOK
<1>9. InHand' = {} => OrphansAreFaults'
  <2>1. \A d \in Rows : d \in Rows' \/ d = NoDest BY <1>2, <1>5 DEF Rows
  <2>2. Target \in Rows' BY <1>2, <1>5 DEF Rows
  <2>3. NoDest \notin Dests BY FilesAssumption
  <2>4. InHand' = {} => Orphans' \subseteq Orphans
    BY <1>2, <1>7, <2>1, <2>2, <2>3 DEF Orphans, Taken
  <2> QED BY <1>1, <1>4, <2>4, OrphansShrink DEF RunInv
<1>10. RowsHaveFiles'
  <2>1. \A r \in Recordings : imported'[r] # NoDest => local'[imported'[r]] # <<>>
    BY <1>5, <1>7 DEF RunInv, RowsHaveFiles, Exists
  <2> QED BY <2>1 DEF RowsHaveFiles, Exists
<1>11. RowsAreMade' BY <1>1, <1>2, <1>5, <1>6 DEF RunInv, RowsAreMade
<1>12. FreedIsDone'
  <2>1. freed \subseteq Recordings BY DEF RunInv, TypeOK
  <2> QED BY <1>1, <1>2, <1>6, <2>1 DEF RunInv, FreedIsDone
<1>13. \A r \in Recordings : job[r] = "done" => job'[r] = "done" BY <1>2, <1>6
<1>14. CASE ~run.delete
  <2>1. run' = NextFile(0) BY <1>1, <1>14
  <2>2. /\ Leaves(run') /\ run' \in Run /\ InHand' = {}
        /\ run' # Idle => run'.todo = run.todo \ {run.cur}
        /\ run'.todo \subseteq run.todo \ {run.cur}
    BY <1>2, <2>1, NextFileIsNext
  <2>3. ListingIsThere'
    <3>1. run' = Idle \/ (run'.at = "open" /\ run'.listing = run.listing) BY <2>2 DEF Leaves
    <3>2. Idle.listing = {} BY DEF Idle
    <3>3. run.listing \subseteq Recordings BY <1>4 DEF Run
    <3> QED BY <1>1, <1>2, <1>5, <3>1, <3>2, <3>3 DEF RunInv, ListingIsThere
  <2>4. \A r \in run'.todo :
          imported'[r] = imported[r] /\ local'[run.target[r]] = local[run.target[r]]
    BY <1>1, <1>3, <1>5, <2>2
  <2> QED BY <1>2, <1>8, <1>9, <1>10, <1>11, <1>12, <1>13, <2>2, <2>3, <2>4, LeavingKeepsRunInv
<1>15. CASE run.delete
  <2>1. run' = [run EXCEPT !.at = "cleanup"] BY <1>1, <1>15
  <2>2. /\ run' \in Run /\ run'.at = "cleanup" /\ run'.todo = run.todo /\ run'.cur = run.cur
        /\ run'.target = run.target /\ run'.listing = run.listing /\ run'.due = run.due
        /\ run'.mode = run.mode
    BY <1>4, <2>1 DEF Run, RunStep
  <2>3. OrphansAreFaults' BY <1>9, <2>2 DEF InHand
  <2>4. CurIsPlanned' BY <1>3, <2>2 DEF CurIsPlanned, AtFile
  <2>5. PlanIsOpen'
    <3> SUFFICES ASSUME NEW r \in run.todo
                 PROVE  /\ r \in run.listing /\ run.target[r] \in Dests
                        /\ run.target[r][1] = Name[r]
                        /\ r = run.cur \/ (local'[run.target[r]] = <<>> /\ imported'[r] = NoDest)
      BY <1>1, <2>2 DEF PlanIsOpen, Begun, Exists
    <3>1. /\ r \in run.listing /\ run.target[r] \in Dests /\ run.target[r][1] = Name[r]
          /\ r = run.cur \/ (~Exists(run.target[r]) /\ imported[r] = NoDest)
      BY <1>1 DEF RunInv, PlanIsOpen, Begun
    <3> QED BY <1>1, <1>3, <1>5, <3>1 DEF Exists
  <2>6. TargetsDiffer' BY <2>2 DEF RunInv, TargetsDiffer
  <2>7. InHandIsNew' /\ TransferIsBounded' BY <2>2 DEF InHandIsNew, TransferIsBounded
  <2>8. CleanupFollowsImport'
    BY <1>1, <1>2, <1>5, <2>2 DEF CleanupFollowsImport, ShouldDeleteCard
  <2>9. ListingIsThere'
    <3>1. run.listing \subseteq Recordings BY <1>4 DEF Run
    <3> QED BY <1>1, <1>2, <1>5, <2>2, <3>1 DEF RunInv, ListingIsThere
  <2>10. DueAreDone'
    <3>1. run.due \subseteq Recordings BY <1>4 DEF Run
    <3> QED BY <1>13, <2>2, <3>1 DEF RunInv, DueAreDone
  <2> QED BY <1>8, <1>10, <1>11, <1>12, <2>2, <2>3, <2>4, <2>5, <2>6, <2>7, <2>8, <2>9, <2>10
      DEF RunInv
<1>16. run.delete \in BOOLEAN BY <1>4 DEF Run
<1> QED BY <1>14, <1>15, <1>16

\* The camera deletes by path, and each path it has is one recording's.
LEMMA DeletedIsOne ==
  ASSUME RunInv, AtFile
  PROVE  Deleted(run.cur) = camera \ {run.cur}
<1>1. run.cur \in run.listing /\ run.cur \in Recordings BY AtFileHas
<1>2. camera \subseteq Recordings BY DEF RunInv, TypeOK
<1>3. \A q \in camera : CardPath[q] = CardPath[run.cur] <=> q = run.cur
  BY <1>1 DEF RunInv, ListingIsThere
<1> QED BY <1>1, <1>2, <1>3 DEF Deleted

LEMMA DeleteFromCameraKeepsRunInv ==
  ASSUME RunInv, DeleteFromCamera
  PROVE  RunInv'
<1>1. /\ run.at = "cleanup" /\ AtFile /\ ShouldDeleteCard(run.mode)
      /\ camera' \in {camera, Deleted(run.cur)}
      /\ freed' = freed \cup (camera \ camera')
      /\ run' = NextFile(0)
      /\ UNCHANGED <<part, local, imported, job, marker, remote, made, awaits, faults>>
  BY DEF DeleteFromCamera, AtFile, disk, ledger
<1>2. /\ Leaves(run') /\ run' \in Run /\ InHand' = {}
      /\ run' # Idle => run'.todo = run.todo \ {run.cur}
      /\ run'.todo \subseteq run.todo \ {run.cur}
  BY <1>1, NextFileIsNext
<1>3. imported[run.cur] # NoDest /\ run.cur \notin awaits /\ run.cur \in made
  BY <1>1, AtFileHas DEF RunInv, CleanupFollowsImport
<1>4. camera' \subseteq camera /\ freed' \subseteq freed \cup {run.cur} /\ camera \ camera' \subseteq {run.cur}
  BY <1>1, DeletedIsOne
<1>5. TypeOK' BY <1>1, <1>2, <1>3, <1>4 DEF RunInv, TypeOK
<1>6. InHand = {} BY <1>1 DEF InHand
<1>7. OrphansAreFaults' /\ RowsHaveFiles' BY <1>1, <1>2, <1>6, FilesAndRowsStay
<1>8. RowsAreMade' /\ FreedIsDone'
  BY <1>1, <1>3, <1>4 DEF RunInv, RowsAreMade, FreedIsDone
<1>9. ListingIsThere'
  <2>1. run' = Idle \/ (run'.at = "open" /\ run'.listing = run.listing) BY <1>2 DEF Leaves
  <2>2. Idle.listing = {} BY DEF Idle
  <2> QED BY <1>1, <1>3, <1>4, <2>1, <2>2 DEF RunInv, ListingIsThere
<1> QED BY <1>1, <1>2, <1>5, <1>7, <1>8, <1>9, LeavingKeepsRunInv

LEMMA EnqueueCameraDeleteKeepsRunInv ==
  ASSUME RunInv, EnqueueCameraDelete
  PROVE  RunInv'
<1>1. /\ run.at = "cleanup" /\ AtFile
      /\ marker' = [marker EXCEPT ![run.cur] = "pending"]
      /\ run' = NextFile(0)
      /\ UNCHANGED <<part, local, imported, job, remote, camera, made, freed, awaits, faults>>
  BY DEF EnqueueCameraDelete, AtFile, disk, onCamera
<1>2. /\ Leaves(run') /\ run' \in Run /\ InHand' = {}
      /\ run' # Idle => run'.todo = run.todo \ {run.cur}
  BY <1>1, NextFileIsNext
<1>3. imported[run.cur] # NoDest /\ run.cur \in Recordings
  BY <1>1, AtFileHas DEF RunInv, CleanupFollowsImport
<1>4. TypeOK' BY <1>1, <1>2, <1>3 DEF RunInv, TypeOK
<1>5. InHand = {} BY <1>1 DEF InHand
<1>6. OrphansAreFaults' /\ RowsHaveFiles' BY <1>1, <1>2, <1>5, FilesAndRowsStay
<1>7. RowsAreMade' /\ FreedIsDone'
  BY <1>1, <1>3 DEF RunInv, TypeOK, RowsAreMade, FreedIsDone
<1>8. ListingIsThere' BY <1>1, <1>2, LeavingKeepsListing
<1> QED BY <1>1, <1>2, <1>4, <1>6, <1>7, <1>8, LeavingKeepsRunInv

\* The end of a run, wherever it is: only a file in hand is left behind.
LEMMA StopKeepsRunInv ==
  ASSUME RunInv, run' = Idle, faults < MaxFaults, faults' = faults + 1,
         part' \in [Dests -> Seq(Chunks)],
         UNCHANGED <<local, imported, job, marker, remote, camera, made, freed, awaits>>
  PROVE  RunInv'
<1>1. /\ run'.at = "idle" /\ run'.todo = {} /\ run'.due = {} /\ run'.listing = {}
  BY DEF Idle
<1>2. faults \in Nat /\ faults' \in 0..MaxFaults
  BY BoundsAssumption DEF RunInv, TypeOK
<1>3. TypeOK' BY <1>2, IdleIsRun DEF RunInv, TypeOK
<1>4. OrphansAreFaults'
  <2>1. InHand \subseteq {Target} /\ InHand' = {} BY <1>1 DEF InHand
  <2>2. Orphans' \subseteq Orphans \cup {Target}
    BY <2>1 DEF Orphans, Taken, Exists, Rows
  <2> QED BY <1>2, <2>2, OrphanByFault DEF RunInv
<1>5. /\ RowsHaveFiles' /\ RowsAreMade' /\ FreedIsDone'
  BY DEF RunInv, RowsHaveFiles, Exists, RowsAreMade, FreedIsDone
<1>6. /\ CurIsPlanned' /\ PlanIsOpen' /\ TargetsDiffer' /\ InHandIsNew'
      /\ TransferIsBounded' /\ CleanupFollowsImport' /\ DueAreDone'
  BY <1>1 DEF CurIsPlanned, AtFile, PlanIsOpen, TargetsDiffer, InHandIsNew,
              TransferIsBounded, CleanupFollowsImport, DueAreDone
<1>7. ListingIsThere' BY <1>1 DEF RunInv, ListingIsThere
<1> QED BY <1>3, <1>4, <1>5, <1>6, <1>7 DEF RunInv

LEMMA CrashKeepsRunInv ==
  ASSUME RunInv, Crash
  PROVE  RunInv'
<1>1. part' \in [Dests -> Seq(Chunks)] BY DEF RunInv, TypeOK, Crash, disk
<1> QED BY <1>1, StopKeepsRunInv DEF Crash, disk, onCamera, ledger

LEMMA PowerLossKeepsRunInv ==
  ASSUME RunInv, PowerLoss
  PROVE  RunInv'
<1>1. PICK kept \in 0..Len(part[Target]) :
        part' = [part EXCEPT ![Target] = [i \in DOMAIN @ |-> IF i <= kept THEN @[i] ELSE Junk]]
  BY DEF PowerLoss
<1>2. part \in [Dests -> Seq(Chunks)] BY DEF RunInv, TypeOK
<1>3. AtFile BY DEF PowerLoss, AtFile
<1>4. part[Target] \in Seq(Chunks) BY <1>2, <1>3, AtFileHas
<1> DEFINE torn == [i \in DOMAIN part[Target] |-> IF i <= kept THEN part[Target][i] ELSE Junk]
<1>5. torn \in Seq(Chunks)
  <2>1. Len(part[Target]) \in Nat /\ DOMAIN part[Target] = 1..Len(part[Target]) BY <1>4
  <2>2. \A i \in DOMAIN part[Target] : part[Target][i] \in Chunks BY <1>4
  <2>3. Junk \in Chunks BY DEF Chunks
  <2>4. torn = [i \in 1..Len(part[Target]) |-> IF i <= kept THEN part[Target][i] ELSE Junk]
    BY <2>1
  <2> QED BY <2>1, <2>2, <2>3, <2>4
<1>6. part' \in [Dests -> Seq(Chunks)]
  <2>1. part' = [part EXCEPT ![Target] = torn] BY <1>1
  <2> HIDE DEF torn
  <2> QED BY <1>2, <1>5, <2>1
<1> QED BY <1>6, StopKeepsRunInv DEF PowerLoss, onCamera, ledger

LEMMA InitRunInv == Init => RunInv
<1> SUFFICES ASSUME Init PROVE RunInv OBVIOUS
<1>1. run = Idle /\ run.at = "idle" /\ run.todo = {} /\ run.due = {} /\ run.listing = {}
  BY DEF Init, Idle
<1>2. TypeOK BY <1>1, IdleIsRun, EmptyIsSeq, BoundsAssumption DEF Init, TypeOK
<1>3. OrphansAreFaults
  <2>1. Orphans = {} BY DEF Init, Orphans, Taken, Exists
  <2> QED BY <2>1, FS_EmptySet DEF Init, OrphansAreFaults
<1>4. RowsHaveFiles /\ RowsAreMade /\ FreedIsDone
  BY DEF Init, RowsHaveFiles, RowsAreMade, FreedIsDone
<1>5. /\ CurIsPlanned /\ PlanIsOpen /\ TargetsDiffer /\ InHandIsNew /\ TransferIsBounded
      /\ CleanupFollowsImport /\ DueAreDone
  BY <1>1 DEF CurIsPlanned, AtFile, PlanIsOpen, TargetsDiffer, InHandIsNew,
              TransferIsBounded, CleanupFollowsImport, DueAreDone
<1>6. ListingIsThere BY <1>1 DEF Init, ListingIsThere
<1> QED BY <1>2, <1>3, <1>4, <1>5, <1>6 DEF RunInv

LEMMA NextRunInv == RunInv /\ [Next]_vars => RunInv'
<1> SUFFICES ASSUME RunInv, [Next]_vars PROVE RunInv' OBVIOUS
<1>1. ASSUME NEW r \in Recordings, Record(r) \/ Erase(r) PROVE RunInv'
  BY <1>1, UserKeepsRunInv
<1>2. ASSUME NEW r \in Recordings, CloudMirrors(r) PROVE RunInv'
  BY <1>2, CloudMirrorsKeepsRunInv
<1>3. CASE StartRun BY <1>3, StartRunKeepsRunInv
<1>4. CASE Reap BY <1>4, ReapKeepsRunInv
<1>5. CASE PlanWired BY <1>5, PlanWiredKeepsRunInv
<1>6. CASE Download BY <1>6, DownloadKeepsRunInv
<1>7. CASE Keep
  BY <1>7, RenameKeepsRunInv, RenameFailsKeepsRunInv, VerifyKeepsRunInv,
     VerifyUnreadableKeepsRunInv, CommitKeepsRunInv, DeleteFromCameraKeepsRunInv,
     EnqueueCameraDeleteKeepsRunInv DEF Keep
<1>8. CASE Crash \/ PowerLoss BY <1>8, CrashKeepsRunInv, PowerLossKeepsRunInv
<1>9. CASE UNCHANGED vars BY <1>9, StutterKeepsRunInv
<1> QED BY <1>1, <1>2, <1>3, <1>4, <1>5, <1>6, <1>7, <1>8, <1>9 DEF Next, RunWiredOffload

\* Every state of an offload satisfies the invariant of a run: the files on disk are the
\* rows', the one in hand, or as many as there were faults; the plan has a free name for
\* each of its files; and what is removed was imported (run_wired_offload).
THEOREM RunInvHolds == Spec => []RunInv
<1> QED BY InitRunInv, NextRunInv, PTL DEF Spec

\* The state has its type, the suffix that resolve_collision finds in its range included.
THEOREM TypeCorrect == Spec => []TypeOK
<1>1. RunInv => TypeOK BY DEF RunInv
<1> QED BY <1>1, RunInvHolds, PTL

-----------------------------------------------------------------------------
(* Deferred deletes: with a complete listing, a marker that is cleared is  *)
(* that of a recording that is gone.                                       *)

\* Each step of a run keeps what it listed, until the run is over.
LEMMA ListingStays ==
  ASSUME RunInv, RunWiredOffload \/ Crash \/ PowerLoss
  PROVE  /\ camera' \subseteq camera
         /\ run'.at = "idle" \/ (run.at # "idle" /\ run'.listing = run.listing)
<1>1. run \in Run /\ TypeOK BY DEF RunInv, TypeOK
<1>2. Idle.at = "idle" BY DEF Idle
<1>3. ASSUME AtFile, Leaves(run')
      PROVE  run'.at = "idle" \/ (run.at # "idle" /\ run'.listing = run.listing)
  BY <1>2, <1>3 DEF Leaves, AtFile
<1>4. AtFile => run.cur \in run.todo BY AtFileHas
<1>5. AtFile => \A kind : Leaves(AttemptFails(kind)) BY <1>1, <1>4, AttemptFailsLeaves
<1>6. AtFile /\ run' = NextFile(0) => Leaves(run') BY NextFileIsNext
<1>7. CASE Reap
  BY <1>1, <1>7
  DEF Reap, ReapStaleMarker, ReapDelete, ReapDeleteFails, MarkCameraDeleteDone, Deleted, Run,
      onCamera
<1>8. CASE PlanWired
  <2> DEFINE plan == {r \in run.listing : imported[r] = NoDest}
             target == [r \in Recordings |-> IF r \in plan THEN Resolved(r, plan) ELSE NoDest]
             begun == [run EXCEPT !.at = "open", !.todo = plan, !.cur = First(plan),
                                  !.tries = 0, !.streak = 0, !.pos = 0, !.hashed = <<>>,
                                  !.due = {}]
  <2>1. run' \in {Idle, [GoOnTo(plan, 0) EXCEPT !.target = target]} /\ run.at = "reap"
        /\ camera' = camera
    BY <1>8 DEF PlanWired, onCamera
  <2>2. GoOnTo(plan, 0) = IF plan = {} THEN Idle ELSE begun BY DEF GoOnTo
  <2>3. [Idle EXCEPT !.target = target].at = "idle" BY DEF Idle
  <2>4. [begun EXCEPT !.target = target].listing = run.listing BY <1>1 DEF Run
  <2> HIDE DEF plan, target, begun
  <2> QED BY <1>2, <2>1, <2>2, <2>3, <2>4
<1>9. CASE Download
  <2>1. run.at \in {"open", "body"} /\ camera' = camera
    BY <1>9 DEF Download, OpenResumed, OpenFresh, OpenFails, ReceiveChunk, BodyFails, BodyEnds,
                onCamera
  <2>2. AtFile BY <2>1 DEF AtFile
  <2>3. CASE OpenResumed \/ OpenFresh \/ ReceiveChunk
    BY <1>1, <2>1, <2>3 DEF OpenResumed, OpenFresh, ReceiveChunk, Run
  <2>4. CASE OpenFails \/ BodyFails
    BY <1>3, <1>5, <2>1, <2>2, <2>4 DEF OpenFails, BodyFails
  <2>5. CASE BodyEnds
    <3>1. run' = [run EXCEPT !.at = "rename", !.streak = 0] \/ run' = NextFile(0)
      BY <2>5 DEF BodyEnds
    <3> QED BY <1>1, <1>3, <1>6, <2>1, <2>2, <3>1 DEF Run
  <2> QED BY <1>9, <2>3, <2>4, <2>5 DEF Download
<1>10. CASE Keep
  <2>1. AtFile
    BY <1>10 DEF Keep, Rename, RenameFails, VerifyDestHash, VerifyUnreadable, CommitImported,
                 DeleteFromCamera, EnqueueCameraDelete, AtFile
  <2>2. camera' \subseteq camera
    BY <1>10 DEF Keep, Rename, RenameFails, VerifyDestHash, VerifyUnreadable, CommitImported,
                 DeleteFromCamera, EnqueueCameraDelete, Deleted, onCamera
  <2>3. \/ run' = NextFile(0)
        \/ \E at \in {"verify", "commit", "cleanup"} : run' = [run EXCEPT !.at = at]
    BY <1>10 DEF Keep, Rename, RenameFails, VerifyDestHash, VerifyUnreadable, CommitImported,
                 DeleteFromCamera, EnqueueCameraDelete
  <2>4. \A at : [run EXCEPT !.at = at].listing = run.listing BY <1>1 DEF Run
  <2> QED BY <1>3, <1>6, <2>1, <2>2, <2>3, <2>4 DEF AtFile
<1>11. CASE Crash \/ PowerLoss BY <1>2, <1>11 DEF Crash, PowerLoss, onCamera
<1> QED BY <1>7, <1>8, <1>9, <1>10, <1>11 DEF RunWiredOffload

LEMMA NextListingIsAll ==
  ASSUME RunInv, ListingIsAll, "badEntry" \notin Events, [Next]_vars
  PROVE  ListingIsAll'
<1>1. CASE \E r \in Recordings : Record(r) \/ Erase(r)
  BY <1>1 DEF Record, Erase, ListingIsAll
<1>2. CASE \E r \in Recordings : CloudMirrors(r)
  BY <1>2 DEF CloudMirrors, onCamera, ListingIsAll
<1>3. CASE StartRun
  <2>1. PICK mode \in Modes, delete \in BOOLEAN, listing \in MediaList :
          run' = [Idle EXCEPT !.at = "reap", !.mode = mode, !.delete = delete,
                              !.listing = listing,
                              !.due = IF delete THEN DueCameraDeletes ELSE {}]
    BY <1>3 DEF StartRun
  <2>2. listing = camera BY DEF MediaList, ParseMediaList
  <2>3. run'.listing = listing BY <2>1 DEF Idle
  <2>4. camera' = camera BY <1>3 DEF StartRun, onCamera
  <2> QED BY <2>2, <2>3, <2>4 DEF ListingIsAll
<1>4. CASE RunWiredOffload \/ Crash \/ PowerLoss BY <1>4, ListingStays DEF ListingIsAll
<1>5. CASE UNCHANGED vars BY <1>5 DEF vars, ListingIsAll
<1> QED BY <1>1, <1>2, <1>3, <1>4, <1>5 DEF Next

LEMMA NextClearedMeansGone ==
  ASSUME RunInv, ListingIsAll, ClearedMeansGone, [Next]_vars
  PROVE  ClearedMeansGone'
<1>1. /\ marker \in [Recordings -> {"none", "pending", "deleted"}] /\ run \in Run
      /\ camera \subseteq made /\ made \subseteq Recordings
  BY DEF RunInv, TypeOK
<1>2. ASSUME camera' \subseteq camera, marker' = marker PROVE ClearedMeansGone'
  BY <1>2 DEF ClearedMeansGone
<1>3. ASSUME NEW r \in Recordings, Record(r) PROVE ClearedMeansGone'
  <2>1. marker[r] = "none" BY <1>3 DEF Record, RunInv, RowsAreMade
  <2>2. marker' = marker /\ camera' = camera \cup {r} BY <1>3 DEF Record, ledger
  <2> QED BY <2>1, <2>2 DEF ClearedMeansGone
<1>4. ASSUME NEW r \in Recordings, Erase(r) \/ CloudMirrors(r) PROVE ClearedMeansGone'
  BY <1>2, <1>4 DEF Erase, CloudMirrors, ledger, onCamera
<1>5. CASE ReapStaleMarker \/ MarkCameraDeleteDone
  <2>1. run.due # {} BY <1>5 DEF ReapStaleMarker, MarkCameraDeleteDone, RunInv, DueAreDone
  <2>2. First(run.due) \in Recordings BY <2>1, FirstIsDue
  <2>3. marker' = [marker EXCEPT ![First(run.due)] = "deleted"] /\ camera' = camera
    BY <1>5 DEF ReapStaleMarker, MarkCameraDeleteDone, onCamera
  <2>4. First(run.due) \notin camera
    BY <1>5 DEF ReapStaleMarker, MarkCameraDeleteDone, ListingIsAll, RunInv, DueAreDone
  <2> QED BY <1>1, <2>2, <2>3, <2>4 DEF ClearedMeansGone
<1>6. CASE EnqueueCameraDelete
  <2>1. marker' = [marker EXCEPT ![run.cur] = "pending"] /\ camera' = camera
    BY <1>6 DEF EnqueueCameraDelete, onCamera
  <2> QED BY <1>1, <2>1 DEF ClearedMeansGone
<1>7. CASE \/ StartRun \/ ReapDelete \/ ReapDeleteFails \/ PlanWired \/ Download
           \/ Rename \/ RenameFails \/ VerifyDestHash \/ VerifyUnreadable
           \/ CommitImported \/ DeleteFromCamera \/ Crash \/ PowerLoss
  <2>1. marker' = marker
    BY <1>7 DEF StartRun, ReapDelete, ReapDeleteFails, PlanWired, Download, OpenResumed,
                OpenFresh, OpenFails, ReceiveChunk, BodyFails, BodyEnds, Rename, RenameFails,
                VerifyDestHash, VerifyUnreadable, CommitImported, DeleteFromCamera, Crash,
                PowerLoss, ledger
  <2>2. camera' \subseteq camera
    <3>1. CASE StartRun BY <3>1 DEF StartRun, onCamera
    <3>2. CASE ~StartRun BY <1>7, <3>2, ListingStays DEF RunWiredOffload, Reap, Keep
    <3> QED BY <3>1, <3>2
  <2> QED BY <1>2, <2>1, <2>2
<1>8. CASE UNCHANGED vars BY <1>2, <1>8 DEF vars
<1> QED BY <1>3, <1>4, <1>5, <1>6, <1>7, <1>8 DEF Next, RunWiredOffload, Reap, Keep

\* A deferred delete is over only when the recording is off the camera, provided that the
\* camera lists no entry the parser has to skip: no lost answer, failed delete or reused
\* path makes the reap forget one (reap_camera_deletes).
THEOREM ClearedIsGone == "badEntry" \notin Events => (Spec => []ClearedMeansGone)
<1> SUFFICES ASSUME "badEntry" \notin Events PROVE Spec => []ClearedMeansGone
  OBVIOUS
<1>1. Init => ClearedInv
  BY DEF Init, Idle, ClearedInv, ListingIsAll, ClearedMeansGone
<1>2. RunInv /\ ClearedInv /\ [Next]_vars => ClearedInv'
  BY NextListingIsAll, NextClearedMeansGone DEF ClearedInv
<1>3. ClearedInv => ClearedMeansGone BY DEF ClearedInv
<1> QED BY <1>1, <1>2, <1>3, RunInvHolds, PTL DEF Spec

-----------------------------------------------------------------------------
(* The beginnings of a recording.                                          *)

LEMMA PrefixIsSeq ==
  ASSUME NEW r \in Recordings, NEW n \in Nat
  PROVE  Prefix(r, n) \in Seq(Recordings \X Nat) /\ Len(Prefix(r, n)) = n
BY DEF Prefix

LEMMA PrefixGrows ==
  ASSUME NEW r \in Recordings, NEW n \in Nat \ {0}
  PROVE  Append(Prefix(r, n - 1), <<r, n>>) = Prefix(r, n)
<1>1. n - 1 \in Nat OBVIOUS
<1>2. /\ Prefix(r, n - 1) \in Seq(Recordings \X Nat) /\ Len(Prefix(r, n - 1)) = n - 1
      /\ Prefix(r, n) \in Seq(Recordings \X Nat) /\ Len(Prefix(r, n)) = n
  BY <1>1, PrefixIsSeq
<1> DEFINE longer == Append(Prefix(r, n - 1), <<r, n>>)
<1>3. longer \in Seq(Recordings \X Nat) /\ Len(longer) = n BY <1>2
<1>4. ASSUME NEW i \in 1..n PROVE longer[i] = Prefix(r, n)[i]
  <2>1. CASE i = n BY <1>2, <2>1 DEF Prefix
  <2>2. CASE i # n
    <3>1. i \in 1..(n - 1) BY <2>2
    <3>2. longer[i] = Prefix(r, n - 1)[i] BY <1>2, <3>1
    <3> QED BY <3>1, <3>2 DEF Prefix
  <2> QED BY <2>1, <2>2
<1> HIDE DEF longer
<1>5. longer = Prefix(r, n) BY <1>2, <1>3, <1>4
<1> QED BY <1>5 DEF longer

LEMMA PrefixOfAll ==
  ASSUME NEW r \in Recordings
  PROVE  Prefix(r, Size[r]) = Whole(r) /\ Prefix(r, 0) = <<>>
<1>1. Prefix(r, 0) = <<>> BY DEF Prefix
<1>2. Prefix(r, Size[r]) = Whole(r) BY DEF Prefix, Whole
<1> QED BY <1>1, <1>2

-----------------------------------------------------------------------------
(* What is imported stays where it is.                                     *)

\* No step moves a row, or touches the file of one.
LEMMA RowsKeepTheirFiles ==
  ASSUME RunInv, [Next]_vars, NEW r \in Recordings, imported[r] # NoDest
  PROVE  imported'[r] = imported[r] /\ local'[imported[r]] = local[imported[r]]
<1>1. imported[r] \in Dests /\ local \in [Dests -> Seq(Chunks)] BY DEF RunInv, TypeOK
<1>2. CASE Rename
  <2>1. ~Exists(Target) /\ Target \in Dests BY <1>2, AtFileHas DEF Rename, AtFile
  <2>2. imported[r] # Target BY <2>1 DEF RunInv, RowsHaveFiles
  <2> QED BY <1>1, <1>2, <2>1, <2>2 DEF Rename, ledger
<1>3. CASE VerifyDestHash
  <2>1. Target \notin Rows /\ Target \in Dests BY <1>3, InHandIsAlone DEF VerifyDestHash
  <2>2. imported[r] # Target BY <2>1 DEF Rows
  <2> QED BY <1>1, <1>3, <2>1, <2>2 DEF VerifyDestHash, ledger
<1>4. CASE CommitImported
  <2>1. imported[run.cur] = NoDest BY <1>4, InHandIsAlone DEF CommitImported
  <2> QED BY <1>4, <2>1 DEF CommitImported, disk
<1>5. CASE \/ \E q \in Recordings : Record(q) \/ Erase(q) \/ CloudMirrors(q)
           \/ StartRun \/ Reap \/ PlanWired \/ Download
           \/ RenameFails \/ VerifyUnreadable \/ DeleteFromCamera \/ EnqueueCameraDelete
           \/ Crash \/ PowerLoss \/ UNCHANGED vars
  <2>1. UNCHANGED <<local, imported>>
    BY <1>5 DEF Record, Erase, CloudMirrors, StartRun, Reap, ReapStaleMarker, ReapDelete,
                ReapDeleteFails, MarkCameraDeleteDone, PlanWired, Download, OpenResumed,
                OpenFresh, OpenFails, ReceiveChunk, BodyFails, BodyEnds, RenameFails,
                VerifyUnreadable, DeleteFromCamera, EnqueueCameraDelete, Crash, PowerLoss,
                vars, disk, ledger
  <2> QED BY <2>1
<1> QED BY <1>2, <1>3, <1>4, <1>5 DEF Next, RunWiredOffload, Keep

\* A row is only ever made by a commit, for the file in hand.
LEMMA RowsComeFromCommit ==
  ASSUME RunInv, [Next]_vars, NEW r \in Recordings, imported[r] = NoDest,
         imported'[r] # NoDest
  PROVE  /\ CommitImported /\ r = run.cur /\ imported'[r] = Target
         /\ local'[imported'[r]] = local[Target]
<1>1. CommitImported
  BY DEF Record, Erase, CloudMirrors, StartRun, Reap, ReapStaleMarker, ReapDelete,
         ReapDeleteFails, MarkCameraDeleteDone, PlanWired, Download, OpenResumed,
         OpenFresh, OpenFails, ReceiveChunk, BodyFails, BodyEnds, Rename, RenameFails,
         VerifyDestHash, VerifyUnreadable, DeleteFromCamera, EnqueueCameraDelete, Crash,
         PowerLoss, vars, ledger, Next, RunWiredOffload, Keep
<1>2. imported \in [Recordings -> Dests \cup {NoDest}] BY DEF RunInv, TypeOK
<1>3. run.cur \in Recordings BY <1>1, InHandIsAlone DEF CommitImported
<1>4. r = run.cur /\ imported'[r] = Target BY <1>1, <1>2, <1>3 DEF CommitImported
<1> QED BY <1>1, <1>4 DEF CommitImported, disk

LEMMA ImportedStaysAuthentic ==
  ASSUME RunInv, ImportedIsAuthentic, [Next]_vars,
         run.at = "commit" => local[Target] = Whole(run.cur)
  PROVE  ImportedIsAuthentic'
<1> SUFFICES ASSUME NEW r \in Recordings, imported'[r] # NoDest
             PROVE  local'[imported'[r]] = Whole(r)
  BY DEF ImportedIsAuthentic, HeldWhole, Whole
<1>1. CASE imported[r] # NoDest
  BY <1>1, RowsKeepTheirFiles DEF ImportedIsAuthentic, HeldWhole
<1>2. CASE imported[r] = NoDest
  BY <1>2, RowsComeFromCommit DEF CommitImported
<1> QED BY <1>1, <1>2

-----------------------------------------------------------------------------
(* Verification: what the hasher has seen is the recording.                *)

\* Where a step of the transfer puts the run.
LEMMA LeavingIsOpen ==
  ASSUME RunInv, AtFile,
         \/ run' = NextFile(0)
         \/ \E kind : run' = AttemptFails(kind)
         \/ run' = Idle
  PROVE  run'.at \in {"idle", "open"}
<1>1. run.cur \in run.todo /\ TypeOK BY AtFileHas DEF RunInv
<1>2. Leaves(run') \/ run' = Idle BY <1>1, NextFileIsNext, AttemptFailsLeaves
<1>3. Idle.at = "idle" BY DEF Idle
<1> QED BY <1>2, <1>3 DEF Leaves

\* Beside the transfer and its end, the files in hand stay as they are.
LEMMA RunIsElsewhere ==
  ASSUME RunInv, [Next]_vars,
         ~OpenResumed, ~OpenFresh, ~ReceiveChunk, ~BodyEnds, ~Rename, ~VerifyDestHash
  PROVE  \/ run'.at \notin {"body", "rename", "verify", "commit"}
         \/ UNCHANGED <<run, part, local>>
<1>1. run \in Run BY DEF RunInv, TypeOK
<1>2. CASE \/ \E r \in Recordings : Record(r) \/ Erase(r) \/ CloudMirrors(r)
           \/ UNCHANGED vars
  BY <1>2 DEF Record, Erase, CloudMirrors, vars, disk
<1>3. CASE StartRun BY <1>3 DEF StartRun, Idle
<1>4. CASE Reap
  BY <1>1, <1>4
  DEF Reap, ReapStaleMarker, ReapDelete, ReapDeleteFails, MarkCameraDeleteDone, Run
<1>5. CASE PlanWired
  <2> DEFINE plan == {r \in run.listing : imported[r] = NoDest}
             target == [r \in Recordings |-> IF r \in plan THEN Resolved(r, plan) ELSE NoDest]
             begun == [run EXCEPT !.at = "open", !.todo = plan, !.cur = First(plan),
                                  !.tries = 0, !.streak = 0, !.pos = 0, !.hashed = <<>>,
                                  !.due = {}]
  <2>1. run' \in {Idle, [GoOnTo(plan, 0) EXCEPT !.target = target]} BY <1>5 DEF PlanWired
  <2>2. GoOnTo(plan, 0) = IF plan = {} THEN Idle ELSE begun BY DEF GoOnTo
  <2>3. Idle.at = "idle" /\ [Idle EXCEPT !.target = target].at = "idle" BY DEF Idle
  <2>4. [begun EXCEPT !.target = target].at = "open" BY <1>1 DEF Run
  <2> HIDE DEF plan, target, begun
  <2> QED BY <2>1, <2>2, <2>3, <2>4
<1>6. CASE OpenFails \/ BodyFails
  BY <1>6, LeavingIsOpen DEF OpenFails, BodyFails, AtFile
<1>7. CASE RenameFails \/ VerifyUnreadable \/ DeleteFromCamera \/ EnqueueCameraDelete
  BY <1>7, LeavingIsOpen
  DEF RenameFails, VerifyUnreadable, DeleteFromCamera, EnqueueCameraDelete, AtFile
<1>8. CASE CommitImported
  <2>1. run' = [run EXCEPT !.at = "cleanup"] \/ run' = NextFile(0)
    BY <1>8 DEF CommitImported
  <2>2. [run EXCEPT !.at = "cleanup"].at = "cleanup" BY <1>1 DEF Run
  <2> QED BY <1>8, <2>1, <2>2, LeavingIsOpen DEF CommitImported, AtFile
<1>9. CASE Crash \/ PowerLoss BY <1>9 DEF Crash, PowerLoss, Idle
<1> QED BY <1>2, <1>3, <1>4, <1>5, <1>6, <1>7, <1>8, <1>9
        DEF Next, RunWiredOffload, Download, Keep

LEMMA NextHashedIsTrue ==
  ASSUME RunInv, HashedIsTrue, CommitIsHashed, Verify, PartIsItsOwn, [Next]_vars
  PROVE  HashedIsTrue' /\ CommitIsHashed'
<1>1. run \in Run /\ part \in [Dests -> Seq(Chunks)] /\ local \in [Dests -> Seq(Chunks)]
  BY DEF RunInv, TypeOK
<1>2. AtFile => /\ run.cur \in Recordings /\ Target \in Dests /\ Size[run.cur] \in Nat
                /\ part[Target] \in Seq(Chunks) /\ Len(part[Target]) \in Nat
  BY <1>1, AtFileHas, FilesAssumption
<1>3. CASE OpenResumed
  <2>1. AtFile /\ run.at = "open" /\ Have = part[Target]
    BY <1>3 DEF OpenResumed, AtFile, Have
  <2>2. run' = [run EXCEPT !.at = "body", !.pos = Len(Have) + 1, !.hashed = Have]
    BY <1>3 DEF OpenResumed, HashPartPrefix
  <2>3. /\ run'.at = "body" /\ run'.cur = run.cur /\ Target' = Target
        /\ run'.pos = Len(Have) + 1 /\ run'.hashed = Have
    BY <1>1, <2>2 DEF Run, Target
  <2>4. part' = part BY <1>3 DEF OpenResumed, disk
  <2>5. run'.hashed = Prefix(run'.cur, run'.pos - 1) /\ Len(part'[Target']) = run'.pos - 1
    <3>1. Len(Have) \in Nat BY <1>2, <2>1
    <3>2. Len(Have) + 1 - 1 = Len(Have) BY <3>1
    <3> QED BY <2>1, <2>3, <2>4, <3>2 DEF PartIsItsOwn
  <2> QED BY <2>3, <2>5 DEF HashedIsTrue, CommitIsHashed
<1>4. CASE OpenFresh
  <2>1. AtFile /\ run' = [run EXCEPT !.at = "body", !.pos = 1, !.hashed = <<>>]
        /\ part' = [part EXCEPT ![Target] = <<>>]
    BY <1>4 DEF OpenFresh, AtFile
  <2>2. /\ run'.at = "body" /\ run'.cur = run.cur /\ Target' = Target
        /\ run'.pos = 1 /\ run'.hashed = <<>>
    BY <1>1, <2>1 DEF Run, Target
  <2>3. part'[Target] = <<>> BY <1>1, <1>2, <2>1
  <2>4. run'.hashed = Prefix(run'.cur, run'.pos - 1) /\ Len(part'[Target']) = run'.pos - 1
    BY <1>2, <2>1, <2>2, <2>3, EmptyIsSeq, PrefixOfAll
  <2> QED BY <2>2, <2>4 DEF HashedIsTrue, CommitIsHashed
<1>5. CASE ReceiveChunk
  <2>1. AtFile /\ run.at = "body" /\ run.pos \in 1..(Size[run.cur] + 1)
    BY <1>5 DEF ReceiveChunk, AtFile, RunInv, TransferIsBounded
  <2>2. run' = [run EXCEPT !.pos = @ + 1, !.hashed = Append(@, <<run.cur, run.pos>>)]
    BY <1>5 DEF ReceiveChunk
  <2>3. /\ run'.at = "body" /\ run'.cur = run.cur /\ Target' = Target
        /\ run'.pos = run.pos + 1
        /\ run'.hashed = Append(run.hashed, <<run.cur, run.pos>>)
    BY <1>1, <2>1, <2>2 DEF Run, Target
  <2>4. run.pos \in Nat \ {0} BY <1>2, <2>1
  <2>5. run'.hashed = Prefix(run'.cur, run'.pos - 1)
    <3>1. run.hashed = Prefix(run.cur, run.pos - 1) BY <2>1 DEF HashedIsTrue
    <3>2. run'.hashed = Prefix(run.cur, run.pos) BY <1>2, <2>1, <2>3, <2>4, <3>1, PrefixGrows
    <3>3. run'.pos - 1 = run.pos BY <2>3, <2>4
    <3> QED BY <2>3, <3>2, <3>3
  <2>6. Len(part'[Target']) = run'.pos - 1
    <3>1. PICK c \in Written : part' = [part EXCEPT ![Target] = Append(@, c)]
      BY <1>5 DEF ReceiveChunk
    <3>2. part'[Target] = Append(part[Target], c) BY <1>1, <1>2, <2>1, <3>1
    <3>3. Len(part'[Target]) = Len(part[Target]) + 1 BY <1>2, <2>1, <3>2
    <3>4. Len(part[Target]) = run.pos - 1 BY <2>1 DEF HashedIsTrue
    <3> QED BY <2>3, <2>4, <3>3, <3>4
  <2> QED BY <2>3, <2>5, <2>6 DEF HashedIsTrue, CommitIsHashed
<1>6. CASE BodyEnds
  <2>1. AtFile /\ run.at = "body" /\ run.pos \in 1..(Size[run.cur] + 1) /\ UNCHANGED part
    BY <1>6 DEF BodyEnds, AtFile, RunInv, TransferIsBounded, disk
  <2>2. CASE Len(part[Target]) = Size[run.cur]
    <3>1. run' = [run EXCEPT !.at = "rename", !.streak = 0] BY <1>6, <2>2 DEF BodyEnds
    <3>2. run'.at = "rename" /\ run'.cur = run.cur /\ run'.hashed = run.hashed
      BY <1>1, <3>1 DEF Run
    <3>3. run.hashed = Whole(run.cur)
      <4>1. run.pos - 1 = Size[run.cur] /\ run.hashed = Prefix(run.cur, run.pos - 1)
        BY <2>1, <2>2 DEF HashedIsTrue
      <4> QED BY <1>2, <2>1, <4>1, PrefixOfAll
    <3> QED BY <3>2, <3>3 DEF HashedIsTrue, CommitIsHashed, Whole
  <2>3. CASE Len(part[Target]) # Size[run.cur]
    <3>1. run'.at \in {"idle", "open"} BY <1>6, <2>1, <2>3, LeavingIsOpen DEF BodyEnds
    <3> QED BY <3>1 DEF HashedIsTrue, CommitIsHashed
  <2> QED BY <2>2, <2>3
<1>7. CASE Rename
  <2>1. run' = [run EXCEPT !.at = "verify"] /\ run.at = "rename" BY <1>7 DEF Rename
  <2>2. run'.at = "verify" /\ run'.cur = run.cur /\ run'.hashed = run.hashed
    BY <1>1, <2>1 DEF Run
  <2> QED BY <2>1, <2>2 DEF HashedIsTrue, CommitIsHashed, Whole
<1>8. CASE VerifyDestHash
  <2>1. AtFile /\ run.at = "verify" BY <1>8 DEF VerifyDestHash, AtFile
  <2>2. CASE local[Target] # run.hashed
    <3>1. run'.at \in {"idle", "open"} BY <1>8, <2>1, <2>2, LeavingIsOpen DEF VerifyDestHash
    <3> QED BY <3>1 DEF HashedIsTrue, CommitIsHashed
  <2>3. CASE local[Target] = run.hashed
    <3>1. run' = [run EXCEPT !.at = "commit"] /\ local' = local
      BY <1>8, <2>3 DEF VerifyDestHash
    <3>2. /\ run'.at = "commit" /\ run'.cur = run.cur /\ run'.hashed = run.hashed
          /\ Target' = Target
      BY <1>1, <3>1 DEF Run, Target
    <3> QED BY <2>1, <2>3, <3>1, <3>2 DEF HashedIsTrue, CommitIsHashed, Whole
  <2> QED BY <2>2, <2>3
<1>9. CASE /\ ~OpenResumed /\ ~OpenFresh /\ ~ReceiveChunk /\ ~BodyEnds /\ ~Rename
           /\ ~VerifyDestHash
  <2>1. CASE run'.at \notin {"body", "rename", "verify", "commit"}
    BY <2>1 DEF HashedIsTrue, CommitIsHashed
  <2>2. CASE UNCHANGED <<run, part, local>>
    BY <2>2 DEF HashedIsTrue, CommitIsHashed, Target
  <2> QED BY <1>9, <2>1, <2>2, RunIsElsewhere
<1> QED BY <1>3, <1>4, <1>5, <1>6, <1>7, <1>8, <1>9

\* With verification on, and whatever the disk does to what it is given, a file that the
\* ledger calls imported is the recording, as long as no download resumes from a part that
\* is not the beginning of its recording (download_attempt, verify_dest_hash).
THEOREM VerifiedIsAuthentic ==
  Verify => (Spec /\ []PartIsItsOwn => []ImportedIsAuthentic)
<1> SUFFICES ASSUME Verify PROVE Spec /\ []PartIsItsOwn => []ImportedIsAuthentic
  OBVIOUS
<1>1. Init => VerifiedInv
  BY DEF Init, Idle, VerifiedInv, HashedIsTrue, CommitIsHashed, ImportedIsAuthentic
<1>2. RunInv /\ PartIsItsOwn /\ VerifiedInv /\ [Next]_vars => VerifiedInv'
  <2> SUFFICES ASSUME RunInv, PartIsItsOwn, VerifiedInv, [Next]_vars PROVE VerifiedInv'
    OBVIOUS
  <2>1. HashedIsTrue' /\ CommitIsHashed' BY NextHashedIsTrue DEF VerifiedInv
  <2>2. run.at = "commit" => local[Target] = Whole(run.cur)
    BY DEF VerifiedInv, HashedIsTrue, CommitIsHashed
  <2>3. ImportedIsAuthentic' BY <2>2, ImportedStaysAuthentic DEF VerifiedInv
  <2> QED BY <2>1, <2>3 DEF VerifiedInv
<1>3. VerifiedInv => ImportedIsAuthentic BY DEF VerifiedInv
<1> QED BY <1>1, <1>2, <1>3, RunInvHolds, PTL DEF Spec

\* What was hashed of a download ends with what the camera sent, if it is all there.
LEMMA NextHashEndsTrue ==
  ASSUME RunInv, HashEndsTrue, CommitIsHashed, Verify, [Next]_vars
  PROVE  HashEndsTrue' /\ CommitIsHashed'
<1>1. /\ run \in Run /\ part \in [Dests -> Seq(Chunks)] /\ local \in [Dests -> Seq(Chunks)]
      /\ run.hashed \in Seq(Chunks)
  BY DEF RunInv, TypeOK, Run
<1>2. AtFile => /\ run.cur \in Recordings /\ Target \in Dests /\ Size[run.cur] \in Nat \ {0}
                /\ part[Target] \in Seq(Chunks) /\ Len(part[Target]) \in Nat
  <2>1. AtFile => run.cur \in Recordings /\ Target \in Dests BY <1>1, AtFileHas
  <2>2. \A r \in Recordings : Size[r] \in Nat \ {0} BY FilesAssumption
  <2> QED BY <1>1, <2>1, <2>2
<1>3. CASE OpenResumed
  <2>1. AtFile /\ Have \in Seq(Chunks) /\ Len(Have) < Size[run.cur] /\ Have = part[Target]
    BY <1>1, <1>2, <1>3 DEF OpenResumed, AtFile, Have
  <2>2. /\ run'.at = "body" /\ run'.cur = run.cur /\ Target' = Target
        /\ run'.pos = Len(Have) + 1 /\ run'.hashed = Have
    <3>1. run' = [run EXCEPT !.at = "body", !.pos = Len(Have) + 1, !.hashed = Have]
      BY <1>3 DEF OpenResumed, HashPartPrefix
    <3> QED BY <1>1, <3>1 DEF Run, Target
  <2>3. part' = part BY <1>3 DEF OpenResumed, disk
  <2>4. Size[run.cur] \notin 1..Len(Have) BY <1>2, <2>1
  <2>5. Len(Have) \in Nat BY <2>1
  <2> QED BY <2>1, <2>2, <2>3, <2>4, <2>5 DEF HashEndsTrue, CommitIsHashed
<1>4. CASE OpenFresh
  <2>1. AtFile BY <1>4 DEF OpenFresh, AtFile
  <2>2. /\ run'.at = "body" /\ run'.cur = run.cur /\ Target' = Target
        /\ run'.pos = 1 /\ run'.hashed = <<>>
    <3>1. run' = [run EXCEPT !.at = "body", !.pos = 1, !.hashed = <<>>] BY <1>4 DEF OpenFresh
    <3> QED BY <1>1, <3>1 DEF Run, Target
  <2>3. part'[Target] = <<>> BY <1>1, <1>2, <1>4, <2>1 DEF OpenFresh
  <2>4. Size[run.cur] \notin 1..Len(<<>>) BY <1>2, <2>1, EmptyIsSeq
  <2> QED BY <2>2, <2>3, <2>4, EmptyIsSeq DEF HashEndsTrue, CommitIsHashed
<1>5. CASE ReceiveChunk
  <2>1. AtFile /\ run.at = "body" /\ run.pos \in Nat \ {0}
    BY <1>2, <1>5 DEF ReceiveChunk, AtFile, RunInv, TransferIsBounded
  <2>2. /\ run'.at = "body" /\ run'.cur = run.cur /\ Target' = Target
        /\ run'.pos = run.pos + 1
        /\ run'.hashed = Append(run.hashed, <<run.cur, run.pos>>)
    <3>1. run' = [run EXCEPT !.pos = @ + 1, !.hashed = Append(@, <<run.cur, run.pos>>)]
      BY <1>5 DEF ReceiveChunk
    <3> QED BY <1>1, <2>1, <3>1 DEF Run, Target
  <2>3. /\ Len(run.hashed) = run.pos - 1 /\ Len(part[Target]) = run.pos - 1
        /\ Size[run.cur] \in 1..Len(run.hashed) =>
             run.hashed[Size[run.cur]] = <<run.cur, Size[run.cur]>>
    BY <2>1 DEF HashEndsTrue
  <2>4. Len(part'[Target]) = run.pos
    <3>1. PICK c \in Written : part' = [part EXCEPT ![Target] = Append(@, c)]
      BY <1>5 DEF ReceiveChunk
    <3>2. part'[Target] = Append(part[Target], c) BY <1>1, <1>2, <2>1, <3>1
    <3>3. Len(part'[Target]) = Len(part[Target]) + 1 BY <1>2, <2>1, <3>2
    <3> QED BY <2>1, <2>3, <3>3
  <2>5. /\ Len(run'.hashed) = run.pos /\ run'.hashed[run.pos] = <<run.cur, run.pos>>
        /\ \A i \in 1..(run.pos - 1) : run'.hashed[i] = run.hashed[i]
    <3> DEFINE c == <<run.cur, run.pos>>
    <3>1. \A h : h \in Seq(Chunks) /\ Len(h) = run.pos - 1 =>
            /\ Len(Append(h, c)) = run.pos /\ Append(h, c)[run.pos] = c
            /\ \A i \in 1..(run.pos - 1) : Append(h, c)[i] = h[i]
      <4> HIDE DEF c
      <4> QED BY <2>1
    <3> QED BY <1>1, <2>2, <2>3, <3>1
  <2>6. Size[run.cur] \in 1..run.pos =>
          run'.hashed[Size[run.cur]] = <<run.cur, Size[run.cur]>>
    <3>1. CASE Size[run.cur] = run.pos BY <2>5, <3>1
    <3>2. CASE Size[run.cur] # run.pos
      <4>1. Size[run.cur] \in 1..run.pos => Size[run.cur] \in 1..(run.pos - 1)
        BY <1>2, <2>1, <3>2
      <4> QED BY <2>3, <2>5, <4>1
    <3> QED BY <3>1, <3>2
  <2>7. run'.pos - 1 = run.pos BY <2>1, <2>2
  <2> QED BY <2>2, <2>4, <2>5, <2>6, <2>7 DEF HashEndsTrue, CommitIsHashed
<1>6. CASE BodyEnds
  <2>1. AtFile /\ run.at = "body" /\ UNCHANGED part BY <1>6 DEF BodyEnds, AtFile, disk
  <2>2. CASE Len(part[Target]) = Size[run.cur]
    <3>1. run'.at = "rename" /\ run'.cur = run.cur /\ run'.hashed = run.hashed
      <4>1. run' = [run EXCEPT !.at = "rename", !.streak = 0] BY <1>6, <2>2 DEF BodyEnds
      <4> QED BY <1>1, <4>1 DEF Run
    <3>2. Len(run.hashed) = Size[run.cur]
      BY <2>1, <2>2 DEF HashEndsTrue
    <3>3. Size[run.cur] \in 1..Len(run.hashed) BY <1>2, <2>1, <3>2
    <3> QED BY <2>1, <3>1, <3>2, <3>3 DEF HashEndsTrue, CommitIsHashed
  <2>3. CASE Len(part[Target]) # Size[run.cur]
    <3>1. run'.at \in {"idle", "open"} BY <1>6, <2>1, <2>3, LeavingIsOpen DEF BodyEnds
    <3> QED BY <3>1 DEF HashEndsTrue, CommitIsHashed
  <2> QED BY <2>2, <2>3
<1>7. CASE Rename
  <2>1. run.at = "rename" /\ run'.at = "verify" /\ run'.cur = run.cur /\ run'.hashed = run.hashed
    <3>1. run' = [run EXCEPT !.at = "verify"] /\ run.at = "rename" BY <1>7 DEF Rename
    <3> QED BY <1>1, <3>1 DEF Run
  <2> QED BY <2>1 DEF HashEndsTrue, CommitIsHashed
<1>8. CASE VerifyDestHash
  <2>1. AtFile /\ run.at = "verify" BY <1>8 DEF VerifyDestHash, AtFile
  <2>2. CASE local[Target] # run.hashed
    <3>1. run'.at \in {"idle", "open"} BY <1>8, <2>1, <2>2, LeavingIsOpen DEF VerifyDestHash
    <3> QED BY <3>1 DEF HashEndsTrue, CommitIsHashed
  <2>3. CASE local[Target] = run.hashed
    <3>1. run' = [run EXCEPT !.at = "commit"] /\ local' = local
      BY <1>8, <2>3 DEF VerifyDestHash
    <3>2. /\ run'.at = "commit" /\ run'.cur = run.cur /\ run'.hashed = run.hashed
          /\ Target' = Target
      BY <1>1, <3>1 DEF Run, Target
    <3> QED BY <2>1, <2>3, <3>1, <3>2 DEF HashEndsTrue, CommitIsHashed
  <2> QED BY <2>2, <2>3
<1>9. CASE /\ ~OpenResumed /\ ~OpenFresh /\ ~ReceiveChunk /\ ~BodyEnds /\ ~Rename
           /\ ~VerifyDestHash
  <2>1. CASE run'.at \notin {"body", "rename", "verify", "commit"}
    BY <2>1 DEF HashEndsTrue, CommitIsHashed
  <2>2. CASE UNCHANGED <<run, part, local>>
    BY <2>2 DEF HashEndsTrue, CommitIsHashed, Target
  <2> QED BY <1>9, <2>1, <2>2, RunIsElsewhere
<1> QED BY <1>3, <1>4, <1>5, <1>6, <1>7, <1>8, <1>9

\* With verification on, and nothing assumed of names, disk or parts: a file that the ledger
\* calls imported has the recording's length and was finished by the camera, in the download
\* that was verified; no complete part is ever taken for one (download_attempt).
THEOREM CameraFinishes == Verify => (Spec => []FinishedByCamera)
<1> SUFFICES ASSUME Verify PROVE Spec => []FinishedByCamera
  OBVIOUS
<1> DEFINE Inv == HashEndsTrue /\ CommitIsHashed /\ FinishedByCamera
<1>1. Init => Inv
  BY DEF Init, Idle, HashEndsTrue, CommitIsHashed, FinishedByCamera
<1>2. RunInv /\ Inv /\ [Next]_vars => Inv'
  <2> SUFFICES ASSUME RunInv, Inv, [Next]_vars PROVE Inv'
    OBVIOUS
  <2>1. HashEndsTrue' /\ CommitIsHashed' BY NextHashEndsTrue
  <2>2. FinishedByCamera'
    <3> SUFFICES ASSUME NEW r \in Recordings, imported'[r] # NoDest
                 PROVE  /\ Len(local'[imported'[r]]) = Size[r]
                        /\ local'[imported'[r]][Size[r]] = <<r, Size[r]>>
      BY DEF FinishedByCamera
    <3>1. CASE imported[r] # NoDest
      BY <3>1, RowsKeepTheirFiles DEF FinishedByCamera
    <3>2. CASE imported[r] = NoDest
      <4>1. /\ run.at = "commit" /\ r = run.cur
            /\ local'[imported'[r]] = run.hashed
        BY <3>2, RowsComeFromCommit DEF CommitImported, CommitIsHashed
      <4> QED BY <4>1 DEF HashEndsTrue
    <3> QED BY <3>1, <3>2
  <2> QED BY <2>1, <2>2
<1>3. Inv => FinishedByCamera OBVIOUS
<1> QED BY <1>1, <1>2, <1>3, RunInvHolds, PTL DEF Spec

-----------------------------------------------------------------------------
(* Names of their own, and a disk that keeps what it is given.             *)

\* A part that is truncated, or not touched, is still the beginning of its recording.
LEMMA PartsStayTheirOwn ==
  ASSUME RunInv, PartsAreTheirOwn,
         \A d \in Dests : part'[d] \in {part[d], <<>>}
  PROVE  PartsAreTheirOwn'
<1> SUFFICES ASSUME NEW r \in Recordings, NEW d \in Dests, d[1] = Name[r]
             PROVE  part'[d] = Prefix(r, Len(part'[d]))
  BY DEF PartsAreTheirOwn, Prefix
<1>1. CASE part'[d] = part[d] BY <1>1 DEF PartsAreTheirOwn
<1>2. CASE part'[d] = <<>> BY <1>2, EmptyIsSeq, PrefixOfAll
<1> QED BY <1>1, <1>2

LEMMA NextPartsAreTheirOwn ==
  ASSUME RunInv, OwnNames, DiskKeeps, PartsAreTheirOwn, BodyIsAtPart, [Next]_vars
  PROVE  PartsAreTheirOwn'
<1>1. part \in [Dests -> Seq(Chunks)] BY DEF RunInv, TypeOK
<1>2. AtFile => /\ run.cur \in Recordings /\ Target \in Dests /\ Target[1] = Name[run.cur]
                /\ Size[run.cur] \in 1..MaxSize
  BY AtFileHas
<1>3. CASE ReceiveChunk
  <2>1. AtFile /\ run.at = "body" /\ run.pos \in 1..(Size[run.cur] + 1)
    BY <1>3 DEF ReceiveChunk, AtFile, RunInv, TransferIsBounded
  <2>2. part' = [part EXCEPT ![Target] = Append(@, <<run.cur, run.pos>>)]
    BY <1>3 DEF ReceiveChunk, Written, DiskKeeps
  <2>3. \A d \in Dests : part'[d] =
          IF d = Target THEN Append(part[Target], <<run.cur, run.pos>>) ELSE part[d]
    BY <1>1, <1>2, <2>1, <2>2
  <2>4. run.pos \in Nat \ {0} BY <1>2, <2>1, FilesAssumption
  <2>5. part'[Target] = Prefix(run.cur, run.pos)
    <3>1. Len(part[Target]) = run.pos - 1 BY <2>1 DEF BodyIsAtPart
    <3>2. part[Target] = Prefix(run.cur, run.pos - 1)
      BY <1>2, <2>1, <3>1 DEF PartsAreTheirOwn
    <3> QED BY <1>2, <2>1, <2>3, <2>4, <3>2, PrefixGrows
  <2>6. Len(part'[Target]) = run.pos BY <1>2, <2>1, <2>4, <2>5, PrefixIsSeq
  <2> SUFFICES ASSUME NEW r \in Recordings, NEW d \in Dests, d[1] = Name[r]
               PROVE  part'[d] = Prefix(r, Len(part'[d]))
    BY DEF PartsAreTheirOwn, Prefix
  <2>7. CASE d = Target
    <3>1. r = run.cur BY <1>2, <2>1, <2>7 DEF OwnNames
    <3> QED BY <2>5, <2>6, <2>7, <3>1
  <2>8. CASE d # Target BY <2>3, <2>8 DEF PartsAreTheirOwn
  <2> QED BY <2>7, <2>8
<1>4. CASE OpenFresh
  <2>1. part' = [part EXCEPT ![Target] = <<>>] /\ AtFile BY <1>4 DEF OpenFresh, AtFile
  <2>2. \A d \in Dests : part'[d] \in {part[d], <<>>} BY <1>1, <1>2, <2>1
  <2> QED BY <2>2, PartsStayTheirOwn
<1>5. CASE OpenFails
  <2>1. PICK left \in {Have, <<>>} : part' = [part EXCEPT ![Target] = left]
    BY <1>5 DEF OpenFails
  <2>2. AtFile BY <1>5 DEF OpenFails, AtFile
  <2>3. left \in {part[Target], <<>>} BY DEF Have
  <2>4. \A d \in Dests : part'[d] \in {part[d], <<>>} BY <1>1, <1>2, <2>1, <2>2, <2>3
  <2> QED BY <2>4, PartsStayTheirOwn
<1>6. CASE Rename
  <2>1. part' = [part EXCEPT ![Target] = <<>>] /\ AtFile BY <1>6 DEF Rename, AtFile
  <2>2. \A d \in Dests : part'[d] \in {part[d], <<>>} BY <1>1, <1>2, <2>1
  <2> QED BY <2>2, PartsStayTheirOwn
<1>7. CASE PowerLoss BY <1>7 DEF PowerLoss, DiskKeeps
<1>8. CASE \/ \E q \in Recordings : Record(q) \/ Erase(q) \/ CloudMirrors(q)
           \/ StartRun \/ Reap \/ PlanWired \/ OpenResumed \/ BodyFails \/ BodyEnds
           \/ RenameFails \/ VerifyDestHash \/ VerifyUnreadable \/ CommitImported
           \/ DeleteFromCamera \/ EnqueueCameraDelete \/ Crash \/ UNCHANGED vars
  <2>1. part' = part
    BY <1>8 DEF Record, Erase, CloudMirrors, StartRun, Reap, ReapStaleMarker, ReapDelete,
                ReapDeleteFails, MarkCameraDeleteDone, PlanWired, OpenResumed, BodyFails,
                BodyEnds, RenameFails, VerifyDestHash, VerifyUnreadable, CommitImported,
                DeleteFromCamera, EnqueueCameraDelete, Crash, vars, disk
  <2> QED BY <2>1, PartsStayTheirOwn
<1> QED BY <1>3, <1>4, <1>5, <1>6, <1>7, <1>8 DEF Next, RunWiredOffload, Download, Keep

LEMMA NextInHandIsWhole ==
  ASSUME RunInv, PartsAreTheirOwn, BodyIsAtPart, InHandIsWhole, [Next]_vars
  PROVE  BodyIsAtPart' /\ InHandIsWhole'
<1>1. run \in Run /\ part \in [Dests -> Seq(Chunks)] /\ local \in [Dests -> Seq(Chunks)]
  BY DEF RunInv, TypeOK
<1>2. AtFile => /\ run.cur \in Recordings /\ Target \in Dests /\ Target[1] = Name[run.cur]
                /\ part[Target] \in Seq(Chunks) /\ Len(part[Target]) \in Nat
                /\ Size[run.cur] \in Nat
  BY <1>1, AtFileHas, FilesAssumption
<1>3. CASE OpenResumed
  <2>1. AtFile /\ run.at = "open" /\ Have = part[Target] /\ UNCHANGED part
    BY <1>3 DEF OpenResumed, AtFile, Have, disk
  <2>2. run' = [run EXCEPT !.at = "body", !.pos = Len(Have) + 1, !.hashed = Have]
    BY <1>3 DEF OpenResumed, HashPartPrefix
  <2>3. /\ run'.at = "body" /\ Target' = Target /\ run'.pos = Len(Have) + 1
    BY <1>1, <2>2 DEF Run, Target
  <2>4. Len(part'[Target']) = run'.pos - 1 BY <1>2, <2>1, <2>3
  <2> QED BY <2>3, <2>4 DEF BodyIsAtPart, InHandIsWhole
<1>4. CASE OpenFresh
  <2>1. AtFile /\ run' = [run EXCEPT !.at = "body", !.pos = 1, !.hashed = <<>>]
        /\ part' = [part EXCEPT ![Target] = <<>>]
    BY <1>4 DEF OpenFresh, AtFile
  <2>2. run'.at = "body" /\ Target' = Target /\ run'.pos = 1 BY <1>1, <2>1 DEF Run, Target
  <2>3. Len(part'[Target']) = run'.pos - 1 BY <1>1, <1>2, <2>1, <2>2, EmptyIsSeq
  <2> QED BY <2>2, <2>3 DEF BodyIsAtPart, InHandIsWhole
<1>5. CASE ReceiveChunk
  <2>1. AtFile /\ run.at = "body" /\ run.pos \in Nat
    BY <1>1, <1>5 DEF ReceiveChunk, AtFile, Run
  <2>2. run' = [run EXCEPT !.pos = @ + 1, !.hashed = Append(@, <<run.cur, run.pos>>)]
    BY <1>5 DEF ReceiveChunk
  <2>3. run'.at = "body" /\ Target' = Target /\ run'.pos = run.pos + 1
    BY <1>1, <2>1, <2>2 DEF Run, Target
  <2>4. Len(part'[Target']) = run'.pos - 1
    <3>1. PICK c \in Written : part' = [part EXCEPT ![Target] = Append(@, c)]
      BY <1>5 DEF ReceiveChunk
    <3>2. part'[Target] = Append(part[Target], c) BY <1>1, <1>2, <2>1, <3>1
    <3>3. Len(part'[Target]) = Len(part[Target]) + 1 BY <1>2, <2>1, <3>2
    <3>4. Len(part[Target]) = run.pos - 1 BY <2>1 DEF BodyIsAtPart
    <3> QED BY <2>1, <2>3, <3>3, <3>4
  <2> QED BY <2>3, <2>4 DEF BodyIsAtPart, InHandIsWhole
<1>6. CASE BodyEnds
  <2>1. run'.at \in {"idle", "open", "rename"}
    <3>1. CASE Len(part[Target]) = Size[run.cur]
      BY <1>1, <1>6, <3>1 DEF BodyEnds, Run
    <3>2. CASE Len(part[Target]) # Size[run.cur]
      BY <1>6, <3>2, LeavingIsOpen DEF BodyEnds, AtFile
    <3> QED BY <3>1, <3>2
  <2> QED BY <2>1 DEF BodyIsAtPart, InHandIsWhole
<1>7. CASE Rename
  <2>1. /\ AtFile /\ run' = [run EXCEPT !.at = "verify"] /\ run.at = "rename"
        /\ local' = [local EXCEPT ![Target] = part[Target]]
    BY <1>7 DEF Rename, AtFile
  <2>2. run'.at = "verify" /\ run'.cur = run.cur /\ Target' = Target
    BY <1>1, <2>1 DEF Run, Target
  <2>3. local'[Target] = Whole(run.cur)
    <3>1. Len(part[Target]) = Size[run.cur] BY <2>1 DEF RunInv, TransferIsBounded
    <3>2. part[Target] = Whole(run.cur)
      BY <1>2, <2>1, <3>1, PrefixOfAll DEF PartsAreTheirOwn
    <3> QED BY <1>1, <1>2, <2>1, <3>2
  <2> QED BY <2>2, <2>3 DEF BodyIsAtPart, InHandIsWhole, Whole
<1>8. CASE VerifyDestHash
  <2>1. AtFile /\ run.at = "verify" BY <1>8 DEF VerifyDestHash, AtFile
  <2>2. CASE run' = NextFile(0)
    <3>1. run'.at \in {"idle", "open"} BY <2>1, <2>2, LeavingIsOpen
    <3> QED BY <3>1 DEF BodyIsAtPart, InHandIsWhole
  <2>3. CASE run' # NextFile(0)
    <3>1. run' = [run EXCEPT !.at = "commit"] /\ local' = local
      BY <1>8, <2>3 DEF VerifyDestHash
    <3>2. run'.at = "commit" /\ run'.cur = run.cur /\ Target' = Target
      BY <1>1, <3>1 DEF Run, Target
    <3> QED BY <2>1, <3>1, <3>2 DEF BodyIsAtPart, InHandIsWhole, Whole
  <2> QED BY <2>2, <2>3
<1>9. CASE /\ ~OpenResumed /\ ~OpenFresh /\ ~ReceiveChunk /\ ~BodyEnds /\ ~Rename
           /\ ~VerifyDestHash
  <2>1. CASE run'.at \notin {"body", "rename", "verify", "commit"}
    BY <2>1 DEF BodyIsAtPart, InHandIsWhole
  <2>2. CASE UNCHANGED <<run, part, local>>
    BY <2>2 DEF BodyIsAtPart, InHandIsWhole, Target, Whole
  <2> QED BY <1>9, <2>1, <2>2, RunIsElsewhere
<1> QED BY <1>3, <1>4, <1>5, <1>6, <1>7, <1>8, <1>9

LEMMA NextKeptInv ==
  ASSUME RunInv, OwnNames, DiskKeeps, KeptInv, [Next]_vars
  PROVE  KeptInv'
<1>1. PartsAreTheirOwn' BY NextPartsAreTheirOwn DEF KeptInv
<1>2. BodyIsAtPart' /\ InHandIsWhole' BY NextInHandIsWhole DEF KeptInv
<1>3. run.at = "commit" => local[Target] = Whole(run.cur) BY DEF KeptInv, InHandIsWhole
<1>4. ImportedIsAuthentic' BY <1>3, ImportedStaysAuthentic DEF KeptInv
<1> QED BY <1>1, <1>2, <1>4 DEF KeptInv

LEMMA InitKeptInv == Init => KeptInv
<1> SUFFICES ASSUME Init PROVE KeptInv OBVIOUS
<1>1. PartsAreTheirOwn BY EmptyIsSeq, PrefixOfAll DEF Init, PartsAreTheirOwn
<1>2. BodyIsAtPart /\ InHandIsWhole /\ ImportedIsAuthentic
  BY DEF Init, Idle, BodyIsAtPart, InHandIsWhole, ImportedIsAuthentic
<1> QED BY <1>1, <1>2 DEF KeptInv

\* With names of their own, on a disk that keeps what it is given, a part is a beginning of
\* its own recording and a renamed file the whole of it, across crashes (download_attempt).
THEOREM KeptInvHolds == OwnNames /\ DiskKeeps => (Spec => []KeptInv)
<1> SUFFICES ASSUME OwnNames, DiskKeeps PROVE Spec => []KeptInv
  OBVIOUS
<1>1. RunInv /\ KeptInv /\ [Next]_vars => KeptInv' BY NextKeptInv
<1> QED BY <1>1, InitKeptInv, RunInvHolds, PTL DEF Spec

\* With names of their own, on a disk that keeps what it is given, a file that the ledger
\* calls imported is the recording chunk for chunk, verified or not: whatever was cut,
\* resumed, restarted or truncated on the way (download_attempt).
THEOREM ImportedAuthentic == OwnNames /\ DiskKeeps => (Spec => []ImportedIsAuthentic)
<1>1. KeptInv => ImportedIsAuthentic BY DEF KeptInv
<1> QED BY <1>1, KeptInvHolds, PTL

-----------------------------------------------------------------------------
(* The objects in the cloud.                                               *)

\* With names of their own, the worker finds no object at the path of a pending job.
LEMMA CloudMirrorsKeepsMirrors ==
  ASSUME RunInv, OwnNames, ImportedIsAuthentic, MirrorInv,
         NEW r \in Recordings, CloudMirrors(r)
  PROVE  MirrorInv'
<1>1. /\ job[r] = "pending" /\ job' = [job EXCEPT ![r] = "done"]
      /\ remote' = [remote EXCEPT ![Name[r]] =
                      IF Len(@) = Size[r] THEN @ ELSE local[imported[r]]]
  BY DEF CloudMirrors
<1>2. /\ job \in [Recordings -> {"none", "pending", "done"}]
      /\ remote \in [Names -> Seq(Chunks)] /\ Name \in [Recordings -> Names]
      /\ Size[r] \in 1..MaxSize
  BY FilesAssumption DEF RunInv, TypeOK
<1>3. imported[r] # NoDest BY <1>1 DEF RunInv, RowsAreMade
<1>4. local[imported[r]] = Whole(r) BY <1>3 DEF ImportedIsAuthentic, HeldWhole
<1>5. remote[Name[r]] = <<>>
  <2> SUFFICES ASSUME remote[Name[r]] # <<>> PROVE FALSE
    OBVIOUS
  <2>1. PICK q \in Recordings : Name[q] = Name[r] /\ MirroredWhole(q)
    BY <1>2 DEF MirrorInv, ObjectsAreMirrors
  <2> QED BY <1>1, <2>1 DEF OwnNames, MirroredWhole
<1>6. remote'[Name[r]] = Whole(r)
  BY <1>1, <1>2, <1>4, <1>5, EmptyIsSeq
<1>7. \A n \in Names : n # Name[r] => remote'[n] = remote[n] BY <1>1, <1>2
<1>8. \A q \in Recordings : job'[q] = IF q = r THEN "done" ELSE job[q] BY <1>1, <1>2
<1>9. MirrorsAreWhole'
  <2> SUFFICES ASSUME NEW q \in Recordings, job'[q] = "done"
               PROVE  remote'[Name[q]] = Whole(q)
    BY DEF MirrorsAreWhole, MirroredWhole, Whole
  <2>1. CASE q = r BY <1>6, <2>1
  <2>2. CASE q # r
    <3>1. Name[q] # Name[r] /\ Name[q] \in Names BY <1>2, <2>2 DEF OwnNames
    <3> QED BY <1>7, <1>8, <2>2, <3>1 DEF MirrorInv, MirrorsAreWhole, MirroredWhole
  <2> QED BY <2>1, <2>2
<1>10. ObjectsAreMirrors'
  <2> SUFFICES ASSUME NEW n \in Names, remote'[n] # <<>>
               PROVE  \E q \in Recordings : Name[q] = n /\ MirroredWhole(q)'
    BY DEF ObjectsAreMirrors
  <2>1. CASE n = Name[r]
    BY <1>6, <1>8, <2>1 DEF MirroredWhole, Whole
  <2>2. CASE n # Name[r]
    <3>1. PICK q \in Recordings : Name[q] = n /\ MirroredWhole(q)
      BY <1>7, <2>2 DEF MirrorInv, ObjectsAreMirrors
    <3>2. job'[q] = "done" /\ remote'[Name[q]] = Whole(q)
      BY <1>7, <1>8, <2>2, <3>1 DEF MirroredWhole
    <3> QED BY <3>1, <3>2 DEF MirroredWhole, Whole
  <2> QED BY <2>1, <2>2
<1> QED BY <1>9, <1>10 DEF MirrorInv

LEMMA NextMirrorInv ==
  ASSUME RunInv, OwnNames, ImportedIsAuthentic, MirrorInv, [Next]_vars
  PROVE  MirrorInv'
<1>1. ASSUME remote' = remote, \A r \in Recordings : job'[r] = "done" <=> job[r] = "done"
      PROVE  MirrorInv'
  <2>1. \A r \in Recordings : MirroredWhole(r)' <=> MirroredWhole(r)
    BY <1>1 DEF MirroredWhole, Whole
  <2> QED BY <1>1, <2>1 DEF MirrorInv, ObjectsAreMirrors, MirrorsAreWhole
<1>2. CASE \E r \in Recordings : CloudMirrors(r) BY <1>2, CloudMirrorsKeepsMirrors
<1>3. CASE CommitImported
  <2>1. /\ job' = [job EXCEPT ![run.cur] = IF run.mode \in {"Auto", "Manual"} THEN "pending" ELSE @]
        /\ remote' = remote /\ run.cur \in Recordings /\ job[run.cur] = "none"
    BY <1>3, InHandIsAlone DEF CommitImported
  <2>2. job \in [Recordings -> {"none", "pending", "done"}] BY DEF RunInv, TypeOK
  <2>3. \A r \in Recordings : job'[r] = "done" <=> job[r] = "done" BY <2>1, <2>2
  <2> QED BY <1>1, <2>1, <2>3
<1>4. CASE \/ \E r \in Recordings : Record(r) \/ Erase(r)
           \/ StartRun \/ Reap \/ PlanWired \/ Download \/ Rename \/ RenameFails
           \/ VerifyDestHash \/ VerifyUnreadable \/ DeleteFromCamera \/ EnqueueCameraDelete
           \/ Crash \/ PowerLoss \/ UNCHANGED vars
  <2>1. UNCHANGED <<remote, job>>
    BY <1>4 DEF Record, Erase, StartRun, Reap, ReapStaleMarker, ReapDelete, ReapDeleteFails,
                MarkCameraDeleteDone, PlanWired, Download, OpenResumed, OpenFresh, OpenFails,
                ReceiveChunk, BodyFails, BodyEnds, Rename, RenameFails, VerifyDestHash,
                VerifyUnreadable, DeleteFromCamera, EnqueueCameraDelete, Crash, PowerLoss,
                vars, ledger
  <2> QED BY <1>1, <2>1
<1> QED BY <1>2, <1>3, <1>4 DEF Next, RunWiredOffload, Keep

-----------------------------------------------------------------------------
(* The offload implements Custody.                                         *)

CopiesInv == RunInv /\ ImportedIsAuthentic /\ MirrorInv

LEMMA CopiesInvHolds == OwnNames => (Spec /\ []ImportedIsAuthentic => []CopiesInv)
<1> SUFFICES ASSUME OwnNames PROVE Spec /\ []ImportedIsAuthentic => []CopiesInv
  OBVIOUS
<1>1. Init => MirrorInv
  BY DEF Init, MirrorInv, ObjectsAreMirrors, MirrorsAreWhole
<1>2. RunInv /\ ImportedIsAuthentic /\ MirrorInv /\ [Next]_vars => MirrorInv'
  BY NextMirrorInv
<1> QED BY <1>1, <1>2, RunInvHolds, PTL DEF Spec, CopiesInv

Held == {r \in Recordings : HeldWhole(r)}
Mirrored == {r \in Recordings : MirroredWhole(r)}

\* The ledger alone says what is held and what is mirrored.
LEMMA LedgerTells ==
  ASSUME CopiesInv
  PROVE  /\ Held = {r \in Recordings : imported[r] # NoDest}
         /\ Mirrored = {r \in Recordings : job[r] = "done"}
BY DEF Held, Mirrored, HeldWhole, MirroredWhole, CopiesInv, ImportedIsAuthentic, MirrorInv,
       MirrorsAreWhole

LEMMA LedgerStillTells ==
  ASSUME CopiesInv'
  PROVE  /\ Held' = {r \in Recordings : imported'[r] # NoDest}
         /\ Mirrored' = {r \in Recordings : job'[r] = "done"}
BY DEF Held, Mirrored, HeldWhole, MirroredWhole, CopiesInv, ImportedIsAuthentic, MirrorInv,
       MirrorsAreWhole

LEMMA CustodyInit == Init => Contract!Init
<1> SUFFICES ASSUME Init PROVE Contract!Init
  OBVIOUS
<1>1. Held = {} /\ Mirrored = {} BY DEF Init, Held, Mirrored, HeldWhole, MirroredWhole
<1> QED BY <1>1 DEF Init, Contract!Init, Held, Mirrored

\* What is deleted on the camera is one recording, held whole, and in the cloud if it waits.
LEMMA DeleteFrees ==
  ASSUME CopiesInv, CopiesInv', NEW r \in Recordings, imported[r] # NoDest,
         r \in awaits => job[r] = "done",
         UNCHANGED <<imported, job, awaits>>,
         camera' \in {camera, camera \ {r}}, freed' = freed \cup (camera \ camera')
  PROVE  Contract!Free(r) \/ UNCHANGED Contract!vars
<1>1. Held' = Held /\ Mirrored' = Mirrored BY LedgerTells, LedgerStillTells
<1>2. r \in Held /\ (r \in awaits => r \in Mirrored) BY LedgerTells
<1>3. CASE camera' = camera
  <2>1. freed' = freed BY <1>3
  <2> QED BY <1>1, <1>3, <2>1 DEF Contract!vars, Held, Mirrored
<1>4. CASE camera' # camera
  <2>1. r \in camera /\ camera' = camera \ {r} /\ freed' = freed \cup {r} BY <1>4
  <2> QED BY <1>1, <1>2, <2>1 DEF Contract!Free, Held, Mirrored
<1> QED BY <1>3, <1>4

LEMMA ReapDeleteFrees ==
  ASSUME CopiesInv, CopiesInv', ReapDelete
  PROVE  \E r \in Recordings : Contract!Free(r) \/ UNCHANGED Contract!vars
<1> DEFINE r == First(run.due)
<1>1. /\ r \in run.listing /\ camera' = Deleted(r) /\ run.due # {}
      /\ freed' = freed \cup (camera \ camera')
      /\ UNCHANGED <<imported, job, awaits>>
  BY DEF ReapDelete, ledger
<1>2. r \in Recordings /\ imported[r] # NoDest /\ job[r] = "done"
  BY <1>1, FirstIsDue DEF CopiesInv
<1>3. camera' = camera \ {r}
  <2>1. camera \subseteq Recordings BY DEF CopiesInv, RunInv, TypeOK
  <2>2. \A q \in camera : CardPath[q] = CardPath[r] <=> q = r
    BY <1>1 DEF CopiesInv, RunInv, ListingIsThere
  <2> HIDE DEF r
  <2> QED BY <1>1, <1>2, <2>1, <2>2 DEF Deleted
<1> HIDE DEF r
<1> QED BY <1>1, <1>2, <1>3, DeleteFrees

LEMMA DeleteFromCameraFrees ==
  ASSUME CopiesInv, CopiesInv', DeleteFromCamera
  PROVE  \E r \in Recordings : Contract!Free(r) \/ UNCHANGED Contract!vars
<1>1. /\ run.at = "cleanup" /\ AtFile /\ ShouldDeleteCard(run.mode)
      /\ camera' \in {camera, Deleted(run.cur)}
      /\ freed' = freed \cup (camera \ camera')
      /\ UNCHANGED <<imported, job, awaits>>
  BY DEF DeleteFromCamera, AtFile, ledger
<1>2. /\ run.cur \in Recordings /\ imported[run.cur] # NoDest /\ run.cur \notin awaits
      /\ camera' \in {camera, camera \ {run.cur}}
  BY <1>1, AtFileHas, DeletedIsOne DEF CopiesInv, RunInv, CleanupFollowsImport
<1> QED BY <1>1, <1>2, DeleteFrees

LEMMA CommitImports ==
  ASSUME CopiesInv, CopiesInv', CommitImported
  PROVE  run.cur \in Recordings /\ Contract!Import(run.cur, run.mode = "Auto")
<1>1. /\ run.at = "commit" /\ AtFile
      /\ imported' = [imported EXCEPT ![run.cur] = Target]
      /\ job' = [job EXCEPT ![run.cur] = IF run.mode \in {"Auto", "Manual"} THEN "pending" ELSE @]
      /\ awaits' = IF run.mode = "Auto" THEN awaits \cup {run.cur} ELSE awaits
      /\ UNCHANGED <<camera, freed>>
  BY DEF CommitImported, AtFile
<1>2. /\ run.cur \in Recordings /\ run.cur \in camera /\ imported[run.cur] = NoDest
      /\ Target # NoDest /\ job[run.cur] = "none"
  BY <1>1, AtFileHas, InHandIsAlone DEF CopiesInv
<1>3. /\ imported \in [Recordings -> Dests \cup {NoDest}]
      /\ job \in [Recordings -> {"none", "pending", "done"}]
  BY DEF CopiesInv, RunInv, TypeOK
<1>4. \A q \in Recordings : imported'[q] = IF q = run.cur THEN Target ELSE imported[q]
  BY <1>1, <1>2, <1>3
<1>5. \A q \in Recordings : job'[q] = "done" <=> job[q] = "done" BY <1>1, <1>2, <1>3
<1>6. Held' = Held \cup {run.cur} /\ run.cur \notin Held
  BY <1>2, <1>4, LedgerTells, LedgerStillTells
<1>7. Mirrored' = Mirrored BY <1>5, LedgerTells, LedgerStillTells
<1> QED BY <1>1, <1>2, <1>6, <1>7 DEF Contract!Import, Held, Mirrored

LEMMA CustodyStep ==
  ASSUME CopiesInv, CopiesInv', [Next]_vars
  PROVE  [Contract!Next]_Contract!vars
<1> DEFINE Goal == [Contract!Next]_Contract!vars
<1> SUFFICES Goal OBVIOUS
<1>1. UNCHANGED <<imported, job>> => Held' = Held /\ Mirrored' = Mirrored
  BY LedgerTells, LedgerStillTells
<1>2. ASSUME UNCHANGED <<camera, imported, job, awaits, freed>> PROVE Goal
  BY <1>1, <1>2 DEF Contract!vars, Held, Mirrored
<1>3. ASSUME NEW r \in Recordings, Record(r) PROVE Goal
  <2>1. /\ r \notin camera /\ camera' = camera \cup {r}
        /\ UNCHANGED <<imported, job, awaits, freed>>
    BY <1>3 DEF Record, ledger, CopiesInv, RunInv, TypeOK
  <2>2. Contract!Appear(r) BY <1>1, <2>1 DEF Contract!Appear, Held, Mirrored
  <2> QED BY <2>2 DEF Contract!Next
<1>4. ASSUME NEW r \in Recordings, Erase(r) PROVE Goal
  <2>1. camera' = camera \ {r} /\ UNCHANGED <<imported, job, awaits, freed>>
    BY <1>4 DEF Erase, ledger
  <2>2. Contract!Erase(r) BY <1>1, <2>1 DEF Contract!Erase, Held, Mirrored
  <2> QED BY <2>2 DEF Contract!Next
<1>5. ASSUME NEW r \in Recordings, CloudMirrors(r) PROVE Goal
  <2>1. /\ UNCHANGED <<camera, imported, awaits, freed>>
        /\ job[r] = "pending" /\ job' = [job EXCEPT ![r] = "done"]
        /\ job \in [Recordings -> {"none", "pending", "done"}]
        /\ imported[r] # NoDest
    BY <1>5 DEF CloudMirrors, onCamera, CopiesInv, RunInv, TypeOK, RowsAreMade
  <2>2. \A q \in Recordings : job'[q] = "done" <=> job[q] = "done" \/ q = r BY <2>1
  <2>3. Held' = Held /\ Mirrored' = (Mirrored \ {}) \cup {r} /\ r \in Held
    BY <2>1, <2>2, LedgerTells, LedgerStillTells
  <2>4. Contract!Mirror(r, {}) BY <2>1, <2>3 DEF Contract!Mirror, Held, Mirrored
  <2>5. {} \in SUBSET Recordings OBVIOUS
  <2> QED BY <2>4, <2>5 DEF Contract!Next
<1>6. CASE ReapDelete BY <1>6, ReapDeleteFrees DEF Contract!Next
<1>7. CASE DeleteFromCamera BY <1>7, DeleteFromCameraFrees DEF Contract!Next
<1>8. CASE CommitImported
  <2>1. run.cur \in Recordings /\ Contract!Import(run.cur, run.mode = "Auto")
    BY <1>8, CommitImports
  <2>2. (run.mode = "Auto") \in BOOLEAN OBVIOUS
  <2> QED BY <2>1, <2>2 DEF Contract!Next
<1> HIDE DEF Goal
<1>9. CASE \/ StartRun \/ ReapStaleMarker \/ ReapDeleteFails \/ MarkCameraDeleteDone
           \/ PlanWired \/ Download \/ Rename \/ RenameFails \/ VerifyDestHash
           \/ VerifyUnreadable \/ EnqueueCameraDelete \/ Crash \/ PowerLoss
           \/ UNCHANGED vars
  BY <1>2, <1>9
  DEF StartRun, ReapStaleMarker, ReapDeleteFails, MarkCameraDeleteDone, PlanWired, Download,
      OpenResumed, OpenFresh, OpenFails, ReceiveChunk, BodyFails, BodyEnds, Rename,
      RenameFails, VerifyDestHash, VerifyUnreadable, EnqueueCameraDelete, Crash, PowerLoss,
      vars, onCamera, ledger
<1> QED
  BY <1>3, <1>4, <1>5, <1>6, <1>7, <1>8, <1>9 DEF Next, RunWiredOffload, Reap, Keep

\* With names of their own, a run, its crashes and resumes, the deferred deletes and the
\* worker between them implement the contract of Custody, whatever made the imported files
\* the recordings they should be: verification or a disk that keeps what it is given.
THEOREM AuthenticKeepsCustody ==
  OwnNames => (Spec /\ []ImportedIsAuthentic => KeepsCustody)
<1> SUFFICES ASSUME OwnNames PROVE Spec /\ []ImportedIsAuthentic => KeepsCustody
  OBVIOUS
<1>1. CopiesInv /\ CopiesInv' /\ [Next]_vars => [Contract!Next]_Contract!vars
  BY CustodyStep
<1> QED BY <1>1, CopiesInvHolds, CustodyInit, PTL DEF Spec, KeepsCustody, Contract!Spec

\* With names of their own, on a disk that keeps what it is given, no copy that was counted
\* on is given up and no original deleted before its copies are there.
THEOREM OffloadKeepsCustody == OwnNames /\ DiskKeeps => (Spec => KeepsCustody)
BY ImportedAuthentic, AuthenticKeepsCustody, PTL

\* An original the program removed from the camera is held whole locally, and in the cloud
\* too if it was imported under Auto. That two recordings of one name break it is a finding.
THEOREM FreedSafe == OwnNames /\ DiskKeeps => (Spec => []FreedIsSafe)
<1> SUFFICES ASSUME OwnNames, DiskKeeps PROVE Spec => []FreedIsSafe
  OBVIOUS
<1>1. CopiesInv => FreedIsSafe
  <2> SUFFICES ASSUME CopiesInv, NEW r \in freed
               PROVE  HeldWhole(r) /\ (r \in awaits => MirroredWhole(r))
    BY DEF FreedIsSafe
  <2>1. r \in Recordings /\ imported[r] # NoDest
    BY DEF CopiesInv, RunInv, TypeOK, RowsAreMade
  <2>2. r \in awaits => job[r] = "done" BY DEF CopiesInv, RunInv, FreedIsDone
  <2> QED BY <2>1, <2>2 DEF CopiesInv, ImportedIsAuthentic, MirrorInv, MirrorsAreWhole
<1> QED BY <1>1, CopiesInvHolds, ImportedAuthentic, PTL

-----------------------------------------------------------------------------
\* No run writes over a file the ledger calls imported, removes it or moves its row: whatever
\* names, faults and settings there are (resolve_collision, commit_imported).
THEOREM NothingIsOverwritten == Spec => ImportedStays
<1>1. RunInv /\ [Next]_vars =>
        [\A r \in Recordings : imported[r] # NoDest =>
           imported'[r] = imported[r] /\ local'[imported[r]] = local[imported[r]]]_vars
  BY RowsKeepTheirFiles
<1> QED BY <1>1, RunInvHolds, PTL DEF Spec, ImportedStays

=============================================================================
