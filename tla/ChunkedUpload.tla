---------------------------- MODULE ChunkedUpload ----------------------------
(***************************************************************************)
(* One upload as CloudQueue takes it in a single step: the check for an    *)
(* object already there, the plain PUT of a small file, and the chunked    *)
(* upload of a large one (cloud/nextcloud.rs), over the attempts the       *)
(* worker makes of it.                                                     *)
(*                                                                         *)
(* The jobs are of different ledgers (two machines, or a ledger made anew) *)
(* on one account: they want the same remote path, and may have the same   *)
(* row id.  A request the client has given up on may still take effect on  *)
(* the server, at once (a lost answer) or during a later attempt.  A crash *)
(* of the client is an attempt that failed.                                *)
(***************************************************************************)
EXTENDS Integers, FiniteSets, Functions

CONSTANTS
  Jobs,
  JobId,       \* the row id of each job in its ledger
  Total,       \* total_bytes of each job
  CHUNK_SIZE,
  MAX_CHUNKS,
  Threshold,   \* chunk_threshold
  Events,      \* what may go wrong, of the set below
  MaxFaults,   \* bound on requests that outlive their attempt or tear a chunk
  NoObject,
  NoChunk,
  NoDir,
  Mixed        \* the origin of an object made of chunks of several files

ASSUME FilesAssumption ==
  /\ IsFiniteSet(Jobs)
  /\ Total \in [Jobs -> Nat]
  /\ DOMAIN JobId = Jobs
  /\ Mixed \notin Jobs
ASSUME LimitsAssumption ==
  /\ CHUNK_SIZE \in Nat \ {0}
  /\ MAX_CHUNKS \in Nat \ {0}
  /\ Threshold \in Nat
  /\ MaxFaults \in Nat
ASSUME EventsAssumption ==
  Events \subseteq {"late",    \* a request may outlive its attempt
                    "torn",    \* a chunk may be stored in part
                    "expire",  \* the server may drop an upload directory
                    "unmount"} \* the local copies may be out of reach

VARIABLES
  folder,   \* whether the remote folder exists
  object,   \* the object at the remote path
  dir,      \* the chunks of each upload directory
  up,       \* where the attempt of each job stands
  readable, \* whether the local file can be read
  late,     \* the requests that may still take effect
  faults    \* so far

vars == <<folder, object, dir, up, readable, late, faults>>
server == <<folder, object, dir>>

-----------------------------------------------------------------------------
(* Chunk arithmetic.                                                       *)

DivCeil(a, b) == (a + b - 1) \div b

\* Mutant of PickChunkSize: the chunks do not grow with the file.
FixedChunkSize(total) == CHUNK_SIZE

\* The size after k turns of the loop.
Doubled[k \in Nat] == IF k = 0 THEN CHUNK_SIZE ELSE 2 * Doubled[k - 1]
FewEnough(total, k) == DivCeil(total, Doubled[k]) <= MAX_CHUNKS

\* The floor, doubled until the chunks of the file are few enough.
PickChunkSize(total) ==
  Doubled[CHOOSE k \in 0..total : /\ FewEnough(total, k)
                                  /\ \A l \in 0..(k - 1) : ~FewEnough(total, l)]

NumChunks(total) ==
  LET n == DivCeil(total, PickChunkSize(total)) IN IF n = 0 THEN 1 ELSE n

Offset(total, i) == (i - 1) * PickChunkSize(total)
ChunkLen(total, i) ==
  LET rest == total - Offset(total, i) IN
  IF rest < PickChunkSize(total) THEN rest ELSE PickChunkSize(total)

-----------------------------------------------------------------------------
(* The server.                                                             *)

Lengths == UNION {0..Total[j] : j \in Jobs}

\* chunk_name pads the numbers, so that the server's order of names is theirs.
Parts == 1..(MAX_CHUNKS + 1)

Object == [of : Jobs \cup {Mixed}, len : Nat]
Chunk == [of : Jobs, len : Lengths]
EmptyDir == [i \in Parts |-> NoChunk]

ASSUME NothingsAssumption ==
  /\ NoObject \notin Object
  /\ NoChunk \notin Chunk /\ NoChunk \notin Nat
  /\ NoDir \notin [Parts -> Chunk \cup {NoChunk}]

Whole(j) == [of |-> j, len |-> Total[j]]

\* Mutant of UploadId: the bare row id.
UploadIdOfRow(j) == <<JobId[j]>>

\* derive_upload_id: salted with the path, which is one here, and the size.
UploadId(j) == <<JobId[j], Total[j]>>

UploadIds == {UploadId(j) : j \in Jobs}

\* What uploads_url leads to.
Dir(j) == dir[UploadId(j)]

StoredParts(d) == {i \in Parts : d[i] # NoChunk}
FullChunk(j, i) == [of |-> j, len |-> ChunkLen(Total[j], i)]

\* What the chunks of a directory make, in the order of their names.
Assembled(d) ==
  LET stored == StoredParts(d)
      len == FoldFunction(+, 0, [i \in Parts |-> IF i \in stored THEN d[i].len ELSE 0])
      Makes(j) == /\ stored = 1..NumChunks(Total[j])
                  /\ \A i \in stored : d[i] = FullChunk(j, i) IN
  [of |-> IF \E j \in Jobs : Makes(j) THEN CHOOSE j \in Jobs : Makes(j) ELSE Mixed,
   len |-> len]

\* md5_hex_of: a file for its hash, and none of a file that cannot be read.
Checksum(j) == IF readable[j] THEN Whole(j) ELSE NoObject

\* The server moves the chunks into place if OC-Total-Length and, where one was
\* sent, OC-Checksum agree with what they make.
Accepts(j, checksum) ==
  /\ folder
  /\ Dir(j) # NoDir
  /\ Assembled(Dir(j)).len = Total[j]
  /\ checksum \in {NoObject, Assembled(Dir(j))}

Assemble(j) ==
  /\ object' = Assembled(Dir(j))
  /\ dir' = [dir EXCEPT ![UploadId(j)] = NoDir]

StoreChunk(j, i, chunk) == dir' = [dir EXCEPT ![UploadId(j)][i] = chunk]

-----------------------------------------------------------------------------
Step == {"idle", "check", "put", "mkcol", "probe", "mkdir", "chunk", "assemble",
         "skipped", "ok", "failed", "refused"}
Requests == {"check", "put", "mkcol", "probe", "mkdir", "chunk", "assemble"}

Upload == [at : Step, part : 1..(MAX_CHUNKS + 1),
           present : [Parts -> Lengths \cup {NoChunk}]]

Fresh == [at |-> "idle", part |-> 1, present |-> [i \in Parts |-> NoChunk]]

Late == [by : Jobs, kind : {"put", "chunk", "assemble"}, part : Parts,
         checksum : Object \cup {NoObject}]

Init ==
  /\ folder \in BOOLEAN
  /\ object = NoObject
  /\ dir = [id \in UploadIds |-> NoDir]
  /\ up = [j \in Jobs |-> Fresh]
  /\ readable = [j \in Jobs |-> TRUE]
  /\ late = {}
  /\ faults = 0

Goto(j, step) == up' = [up EXCEPT ![j] = [Fresh EXCEPT !.at = step]]
Refuse(j) == Goto(j, "refused") /\ UNCHANGED server

-----------------------------------------------------------------------------
(* An attempt.  A refusal is an answer, or a local error, that is not worth  *)
(* a retry; the user may still ask for one.                                *)

StartAttempt(j) ==
  /\ up[j].at \in {"idle", "failed", "refused"}
  /\ Goto(j, "check")
  /\ UNCHANGED <<server, readable, late, faults>>

\* Mutant of IsPresent: an object of any size counts.
SomethingIsPresent(j) == object # NoObject

\* propfind_present compares sizes and nothing else.
IsPresent(j) == object # NoObject /\ object.len = Total[j]

AlreadyPresent(j) ==
  /\ up[j].at = "check"
  /\ Goto(j, IF IsPresent(j) THEN "skipped"
             ELSE IF Total[j] < Threshold THEN "put" ELSE "probe")
  /\ UNCHANGED <<server, readable, late, faults>>

\* Without its folder a PUT is answered with 409, the folder made, and the PUT repeated.
PutSimple(j) ==
  /\ up[j].at = "put"
  /\ IF ~readable[j] THEN Refuse(j)
     ELSE IF ~folder THEN Goto(j, "mkcol") /\ UNCHANGED server
     ELSE /\ object' = Whole(j)
          /\ Goto(j, "ok")
          /\ UNCHANGED <<folder, dir>>
  /\ UNCHANGED <<readable, late, faults>>

MkcolParents(j) ==
  /\ up[j].at = "mkcol"
  /\ folder' = TRUE
  /\ Goto(j, "put")
  /\ UNCHANGED <<object, dir, readable, late, faults>>

\* A directory that does not exist lists no chunks, and neither does an empty one.
ResumePresentChunks(j) ==
  /\ up[j].at = "probe"
  /\ LET listed == IF Dir(j) = NoDir THEN {} ELSE StoredParts(Dir(j)) IN
       up' = [up EXCEPT ![j] =
         [at |-> IF listed = {} THEN "mkdir" ELSE "chunk",
          part |-> 1,
          present |-> [i \in Parts |-> IF i \in listed THEN Dir(j)[i].len ELSE NoChunk]]]
  /\ UNCHANGED <<server, readable, late, faults>>

\* 405 says that it exists, with what is in it.
MkcolUploadDir(j) ==
  /\ up[j].at = "mkdir"
  /\ dir' = [dir EXCEPT ![UploadId(j)] = IF @ = NoDir THEN EmptyDir ELSE @]
  /\ Goto(j, "chunk")
  /\ UNCHANGED <<folder, object, readable, late, faults>>

\* Mutant of IsStored: a chunk that is listed counts, whatever its length.
IsListed(j) == up[j].present[up[j].part] # NoChunk

IsStored(j) == up[j].present[up[j].part] = ChunkLen(Total[j], up[j].part)

NextPart(j) ==
  up' = [up EXCEPT ![j].part = @ + 1,
                   ![j].at = IF up[j].part = NumChunks(Total[j]) THEN "assemble" ELSE @]

SkipChunk(j) ==
  /\ up[j].at = "chunk"
  /\ IsStored(j)
  /\ NextPart(j)
  /\ UNCHANGED <<server, readable, late, faults>>

PutChunk(j) ==
  /\ up[j].at = "chunk"
  /\ ~IsStored(j)
  /\ IF readable[j] /\ Dir(j) # NoDir
       THEN /\ StoreChunk(j, up[j].part, FullChunk(j, up[j].part))
            /\ NextPart(j)
            /\ UNCHANGED <<folder, object>>
       ELSE Refuse(j)
  /\ UNCHANGED <<readable, late, faults>>

\* The checksum is left out if the local file cannot be read any more.
MoveAssemble(j) ==
  /\ up[j].at = "assemble"
  /\ IF Accepts(j, Checksum(j))
       THEN Assemble(j) /\ Goto(j, "ok") /\ UNCHANGED folder
       ELSE Refuse(j)
  /\ UNCHANGED <<readable, late, faults>>

\* The connection breaks, the server is busy, or the client crashes.
RequestFails(j) ==
  /\ up[j].at \in Requests
  /\ Goto(j, "failed")
  /\ UNCHANGED <<server, readable, late, faults>>

\* It breaks after the request was sent: the server may still carry it out.
RequestOutlives(j) ==
  /\ "late" \in Events
  /\ faults < MaxFaults
  /\ up[j].at \in {"put", "chunk", "assemble"}
  /\ up[j].at # "assemble" => readable[j]
  /\ up[j].at = "chunk" => ~IsStored(j)
  /\ late' = late \cup {[by |-> j, kind |-> up[j].at, part |-> up[j].part,
                         checksum |-> Checksum(j)]}
  /\ Goto(j, "failed")
  /\ faults' = faults + 1
  /\ UNCHANGED <<server, readable>>

\* The server keeps the part of a chunk that it received.
ChunkTorn(j) ==
  /\ "torn" \in Events
  /\ faults < MaxFaults
  /\ up[j].at = "chunk"
  /\ ~IsStored(j)
  /\ readable[j]
  /\ Dir(j) # NoDir
  /\ \E len \in 0..(ChunkLen(Total[j], up[j].part) - 1) :
       StoreChunk(j, up[j].part, [of |-> j, len |-> len])
  /\ Goto(j, "failed")
  /\ faults' = faults + 1
  /\ UNCHANGED <<folder, object, readable, late>>

-----------------------------------------------------------------------------
(* The environment.                                                        *)

LateRequestLands ==
  \E r \in late :
    /\ late' = late \ {r}
    /\ \/ /\ r.kind = "put"
          /\ folder
          /\ object' = Whole(r.by)
          /\ UNCHANGED dir
       \/ /\ r.kind = "chunk"
          /\ Dir(r.by) # NoDir
          /\ StoreChunk(r.by, r.part, FullChunk(r.by, r.part))
          /\ UNCHANGED object
       \/ /\ r.kind = "assemble"
          /\ Accepts(r.by, r.checksum)
          /\ Assemble(r.by)
    /\ UNCHANGED <<folder, up, readable, faults>>

Expire ==
  /\ "expire" \in Events
  /\ \E id \in UploadIds : dir[id] # NoDir /\ dir' = [dir EXCEPT ![id] = NoDir]
  /\ UNCHANGED <<folder, object, up, readable, late, faults>>

\* The volume with the local file of a job goes, or comes back.
Unmount(j) ==
  /\ "unmount" \in Events
  /\ readable' = [readable EXCEPT ![j] = ~@]
  /\ UNCHANGED <<server, up, late, faults>>

Attempt(j) ==
  \/ AlreadyPresent(j) \/ PutSimple(j) \/ MkcolParents(j) \/ ResumePresentChunks(j)
  \/ MkcolUploadDir(j) \/ SkipChunk(j) \/ PutChunk(j) \/ MoveAssemble(j)
  \/ RequestFails(j) \/ RequestOutlives(j) \/ ChunkTorn(j)

Next ==
  \/ \E j \in Jobs : StartAttempt(j) \/ Attempt(j) \/ Unmount(j)
  \/ LateRequestLands
  \/ Expire

Spec == Init /\ [][Next]_vars

-----------------------------------------------------------------------------
(* Correctness.                                                            *)

TypeOK ==
  /\ folder \in BOOLEAN
  /\ object \in Object \cup {NoObject}
  /\ dir \in [UploadIds -> [Parts -> Chunk \cup {NoChunk}] \cup {NoDir}]
  /\ up \in [Jobs -> Upload]
  /\ readable \in [Jobs -> BOOLEAN]
  /\ late \subseteq Late
  /\ faults \in 0..MaxFaults

\* What is at the remote path is the whole of one file, although ledgers share row
\* ids, attempts resume each other's chunks, and the assembly is not always sent with
\* a checksum (derive_upload_id, put_chunked, move_assemble).
ObjectIsWhole ==
  object # NoObject => \E j \in Jobs : object = Whole(j)

\* A job is called mirrored, by its own upload or because of an object found there,
\* only while its own whole file is at the path (propfind_present, upload).
MirroredIsStored ==
  [][\A j \in Jobs :
       up'[j].at \in {"ok", "skipped"} /\ up[j].at \notin {"ok", "skipped"}
         => object' = Whole(j)]_vars

\* An attempt is refused only for a cause outside of it: the local file out of reach,
\* the remote folder missing, or the upload directory gone.  What earlier attempts
\* left there, torn or late, never makes an assembly that the server turns down.
RefusalHasCause ==
  [][\A j \in Jobs :
       up'[j].at = "refused" /\ up[j].at # "refused"
         => ~readable[j] \/ ~folder \/ Dir(j) = NoDir]_vars
=============================================================================
