------------------------------ MODULE FileRoute ------------------------------
(***************************************************************************)
(* The way of a file of a card by its names: what the scan makes of it     *)
(* (gopro.rs, scanner.rs, capture.rs), the name it gets in the destination *)
(* (naming.rs), the remote path its job keeps (orchestrator.rs), and the   *)
(* object the uploader addresses when it gets to the job, perhaps under    *)
(* other settings (cloud/nextcloud.rs).  SdOffload and CloudQueue have the *)
(* copies, faults and retries that are one step here.                      *)
(*                                                                         *)
(* A text is a sequence of the pieces that the code tells apart: a dot, a  *)
(* separator, a template token, a run of plain characters.                 *)
(***************************************************************************)
EXTENDS Integers, FiniteSets, SequencesExt

CONSTANTS
  Files,      \* of all cards, in the order the scan meets them
  Cards,
  OnCard,     \* the card of each file
  Folder,     \* its folder below DCIM
  Name,       \* its name
  Taken,      \* what its EXIF block says: a text, None, or Malformed
  Modified,   \* its mtime, as a text
  Version,    \* the MISC/version.txt of each card
  Settings,   \* the configurations the user may choose
  Strangers,  \* names in the destination the program did not give
  MaxEdits,   \* bound on changes of the configuration
  None, Malformed

\* A vertical bar stands for the bounds between the components of an object's path.
IsText(text) == text \in Seq(STRING) /\ \A i \in DOMAIN text : text[i] # "|"
IsTime(text) == IsText(text) /\ Len(text) = 2

\* A file number is never 0, the mark of a stranger.
ASSUME CardsAssumption ==
  /\ Files \subseteq Nat \ {0}
  /\ IsFiniteSet(Files) /\ IsFiniteSet(Strangers)
  /\ OnCard \in [Files -> Cards]
  /\ MaxEdits \in Nat

ASSUME TextsAssumption ==
  /\ \A f \in Files : /\ IsText(Name[f]) /\ IsTime(Modified[f])
                      /\ Taken[f] \in {None, Malformed} \/ IsTime(Taken[f])
  /\ \A c \in Cards : Version[c] = None \/ IsText(Version[c].serial)
  /\ \A s \in Settings : IsText(s.template) /\ IsText(s.root) /\ IsText(s.user)

VARIABLES
  config,   \* the settings in force
  edits,    \* changes of it so far
  run,      \* the offload run: its card and settings, what it found, its plan
  disk,     \* the file at each name of the destination, 0 for a stranger's
  ledger,   \* the imported rows: a destination for each identity
  leftOut,  \* files a scan left out, under the settings it had (history)
  jobs,     \* cloud jobs: file, local name, remote path, whether it is done
  objects   \* the file at each path of the server

routeVars == <<config, edits, run, disk, ledger, leftOut, jobs, objects>>

-----------------------------------------------------------------------------
(* Texts.                                                                  *)

\* The text with every piece that is old put as the text new.
Put(text, old, new) ==
  FlattenSeq([i \in DOMAIN text |-> IF text[i] = old THEN new ELSE <<text[i]>>])

Or(text, default) == IF text = None THEN default ELSE text

Dot(text) == SelectLastInSeq(text, LAMBDA p : p = ".")
Stem(text) == IF Dot(text) = 0 THEN text ELSE SubSeq(text, 1, Dot(text) - 1)
Ext(text) == IF Dot(text) = 0 THEN <<>> ELSE SubSeq(text, Dot(text) + 1, Len(text))

-----------------------------------------------------------------------------
(* The card.                                                               *)

MediaFolders == {"100GOPRO", "101GOPRO"}
IsGoproMediaFolder(folder) == folder \in MediaFolders
IsGoproCard(c) == \E f \in Files : OnCard[f] = c /\ IsGoproMediaFolder(Folder[f])

\* Cameras write invalid JSON; the trailing comma is repaired.
SanitizeVersionTxt(raw) == IF raw = "trailing comma" THEN "valid" ELSE raw
ReadVersion(c) == IF Version[c] # None /\ SanitizeVersionTxt(Version[c].json) = "valid"
                    THEN Version[c] ELSE None

\* Of the firmware's first two parts; a model that is not known has no family.
ModelFamily(firmware) ==
  CASE firmware[1] = "H22" -> <<"HERO11">>
    [] firmware[1] = "H24" /\ firmware[2] = "01" -> <<"HERO13">>
    [] firmware[1] = "H24" /\ firmware[2] # "01" -> <<"HERO13", "/", "MAX2 family">>
    [] OTHER -> None

Serial(c) == IF ReadVersion(c) = None \/ ReadVersion(c).serial = <<>>
               THEN None ELSE ReadVersion(c).serial
Model(c) == IF ReadVersion(c) = None THEN None ELSE ModelFamily(ReadVersion(c).firmware)

-----------------------------------------------------------------------------
(* What a file is.                                                         *)

Upper(p) == IF p = "lrv" THEN "LRV" ELSE IF p = "jpg" THEN "JPG" ELSE p

\* A name that is not UTF-8 is kept, with its bad bytes replaced.
EntryName(f) == [i \in DOMAIN Name[f] |-> IF Name[f][i] = "bad byte" THEN "U+FFFD" ELSE Name[f][i]]

\* Known prefixes with their extensions first, then the extension alone.
Classify(name) ==
  LET ext == [i \in DOMAIN Ext(name) |-> Upper(Ext(name)[i])]
      starts(S) == Stem(name) # <<>> /\ Upper(name[1]) \in S IN
  CASE Dot(name) = 0 -> "Unknown"
    [] ext = <<"MP4">> -> "Video"
    [] ext \in {<<"JPG">>, <<"JPEG">>} -> IF starts({"G0"}) /\ ext = <<"JPG">> THEN "Burst" ELSE "Photo"
    [] ext = <<"360">> -> "Video360"
    [] ext = <<"LRV">> -> "LowResProxy"
    [] ext = <<"THM">> -> "Thumbnail"
    [] ext = <<"GPR">> -> "RawPhoto"
    [] ext = <<"WAV">> -> "Audio"
    [] OTHER -> "Unknown"

IsPhoto(kind) == kind \in {"Photo", "RawPhoto", "Burst"}

\* What the ledger knows a file by, with its size: all sizes are alike here, the hard
\* case.  A camera that does not tell its serial is "unknown" like any other such.
Key(f) == [camera |-> Or(Serial(OnCard[f]), <<"unknown">>),
           name |-> EntryName(f), mtime |-> Modified[f]]

\* No two of Files are one to the ledger, as a camera numbers its files on.
ASSUME DistinctAssumption == \A f, g \in Files : Key(f) = Key(g) => f = g

IsImported(f) == Key(f) \in DOMAIN ledger

\* record: an upsert by the identity.
Recorded(f, name) ==
  [k \in DOMAIN ledger \cup {Key(f)} |-> IF k = Key(f) THEN name ELSE ledger[k]]

\* The EXIF time "date time", if it is one.
FromExif(text) == IF text = Malformed THEN None ELSE text

\* EXIF for photos, mtime for everything else and for a photo without.
ResolveCapture(f, kind) ==
  IF IsPhoto(kind) /\ Taken[f] # None /\ FromExif(Taken[f]) # None THEN Taken[f] ELSE Modified[f]

-----------------------------------------------------------------------------
(* Its name in the destination.                                            *)

Separators == {"/", "\\", "NUL"}

SanitizeFileName(text) ==
  LET cleaned == [i \in DOMAIN text |-> IF text[i] \in Separators THEN "_" ELSE text[i]] IN
  IF cleaned \in {<<>>, <<".">>, <<".", ".">>} THEN <<"_">> ELSE cleaned

\* One token after the other, so a token that a name brings along is replaced too.
Rendered(template, name, capture, c) ==
  LET t1 == Put(Put(template, "{date}", <<capture[1]>>), "{time}", <<capture[2]>>)
      t2 == Put(Put(t1, "{original}", name), "{ext}", Ext(name)) IN
  Put(Put(t2, "{camera}", Or(Serial(c), <<"unknown">>)), "{model}", Or(Model(c), <<"GoPro">>))

\* Mutant of RenderName: only the name on the card is made safe, not the rest.
RenderNameOfSafeOriginal(template, name, capture, c) ==
  Rendered(template, SanitizeFileName(name), capture, c)

RenderName(template, name, capture, c) == SanitizeFileName(Rendered(template, name, capture, c))

\* The name itself, or with _1, _2, ... before its extension.
Suffixed(name, n) ==
  IF n = 0 THEN name
  ELSE Stem(name) \o <<"_", ToString(n)>> \o (IF Dot(name) = 0 THEN <<>> ELSE <<".">> \o Ext(name))

\* The numerals of as many numbers as there are names.
ASSUME NumeralsAssumption ==
  \A m, n \in 1..(Cardinality(Files) + Cardinality(Strangers)) :
    /\ ToString(m) \in STRING \ (Separators \cup {"|"})
    /\ ToString(m) = ToString(n) => m = n

Reserved == {p.name : p \in run.plan}

\* Mutant of ResolveCollision: the names given earlier in the plan are not looked at.
ResolveOnDiskOnly(name) ==
  Suffixed(name, CHOOSE n \in 0..Cardinality(DOMAIN disk) :
    /\ Suffixed(name, n) \notin DOMAIN disk
    /\ \A k \in 0..(n - 1) : Suffixed(name, k) \in DOMAIN disk)

ResolveCollision(name) ==
  LET used == DOMAIN disk \cup Reserved IN
  Suffixed(name, CHOOSE n \in 0..Cardinality(used) :
    /\ Suffixed(name, n) \notin used
    /\ \A k \in 0..(n - 1) : Suffixed(name, k) \in used)

-----------------------------------------------------------------------------
(* Its object on the server.                                               *)

TrimEnd(text) == IF text # <<>> /\ Last(text) = "/" THEN Front(text) ELSE text
TrimStart(text) == IF text # <<>> /\ Head(text) = "/" THEN Tail(text) ELSE text
Join(root, name) == IF root = <<>> THEN name ELSE root \o <<"/">> \o name

RemotePathFor(root, name) == Join(TrimEnd(root), TrimStart(name))
RemoteRel(root, remote) == Join(TrimStart(TrimEnd(root)), TrimStart(remote))

\* The pieces outside the unreserved set, and their code after a percent sign.
Codes == [p \in {" ", "#", "?", "%", "/", "U+FFFD"} |->
           CASE p = " " -> "20" [] p = "#" -> "23" [] p = "?" -> "3F"
             [] p = "%" -> "25" [] p = "/" -> "2F" [] OTHER -> "EFBFBD"]

\* Mutant of Encoded: what looks like a code already is left as it is.
EncodedOnce(p) == IF p \in DOMAIN Codes \ {"%"} THEN <<"%", Codes[p]>> ELSE <<p>>

Encoded(p) == IF p \in DOMAIN Codes THEN <<"%", Codes[p]>> ELSE <<p>>

EncodeSegment(text) == FlattenSeq([i \in DOMAIN text |-> Encoded(text[i])])

\* Segment by segment, so a slash stays one.
EncodePathSegments(text) ==
  FlattenSeq([i \in DOMAIN text |-> IF text[i] = "/" THEN <<"/">> ELSE Encoded(text[i])])

FilesUrl(user, rel) == EncodeSegment(user) \o <<"/">> \o EncodePathSegments(rel)

\* The path of a URL ends at its query or fragment; the server decodes every
\* segment, so a coded slash is a character of a name and a bare one is not.
PathOf(url) ==
  LET end == SelectInSeq(url, LAMBDA p : p \in {"?", "#"}) IN
  IF end = 0 THEN url ELSE SubSeq(url, 1, end - 1)

Meant(code) == CHOOSE p \in DOMAIN Codes : Codes[p] = code

Coded(path, i) ==
  /\ i \in DOMAIN path \ {1}
  /\ path[i - 1] = "%"
  /\ \E p \in DOMAIN Codes : Codes[p] = path[i]

Decoded(path, i) ==
  IF Coded(path, i) THEN <<Meant(path[i])>>
  ELSE IF Coded(path, i + 1) THEN <<>>
  ELSE IF path[i] = "/" THEN <<"|">> ELSE <<path[i]>>

ObjectAt(url) ==
  LET path == PathOf(url) IN FlattenSeq([i \in DOMAIN path |-> Decoded(path, i)])

-----------------------------------------------------------------------------
(* Where passwords and footage may be sent.                                *)

LoopbackHosts == {"localhost", "127.0.0.1", "::1"}

\* The host is what follows the last @; a port after it does not matter.
IsLoopbackHost(authority) ==
  LET at == SelectLastInSeq(authority, LAMBDA p : p = "@") IN
  LET host == SubSeq(authority, at + 1, Len(authority)) IN
  host # <<>> /\ Head(host) \in LoopbackHosts /\ Tail(host) \in {<<>>, <<":", "8080">>}

IsValidBaseUrl(url) ==
  /\ url.scheme \in {"https", "http"}
  /\ url.authority # <<>>
  /\ url.scheme = "http" => IsLoopbackHost(url.authority)

\* NextcloudUploader::new copies what it needs of the settings.  A certificate authority
\* that cannot be read is an error, never a connection without it.
CaIsReadable == config.ca \in {"none", "own"}
Uploader == [base |-> config.base, user |-> config.user, root |-> config.root]

\* build_uploader: the configured user is the fallback for a secret without one.
BuildsUploader ==
  /\ IsValidBaseUrl(config.base)
  /\ CaIsReadable

-----------------------------------------------------------------------------
NoRun == [at |-> "idle", card |-> None, with |-> None, todo |-> {}, plan |-> {}]

RouteInit ==
  /\ config \in Settings
  /\ edits = 0
  /\ run = NoRun
  /\ disk = [n \in Strangers |-> 0]
  /\ ledger = <<>>
  /\ leftOut = {}
  /\ jobs = {}
  /\ objects = <<>>

\* The user edits the configuration; a run keeps the one it started with.
Configure(c) ==
  /\ edits < MaxEdits
  /\ c # config
  /\ config' = c
  /\ edits' = edits + 1
  /\ UNCHANGED <<run, disk, ledger, leftOut, jobs, objects>>

StartRun(c) ==
  /\ run.at = "idle"
  /\ IsGoproCard(c)
  /\ run' = [at |-> "scan", card |-> c, with |-> config, plan |-> {},
             todo |-> {f \in Files : OnCard[f] = c /\ IsGoproMediaFolder(Folder[f])}]
  /\ UNCHANGED <<config, edits, disk, ledger, leftOut, jobs, objects>>

\* Mutant of Unwanted: what is not a known medium is left out as well.
UnwantedOrUnknown(kind) ==
  \/ kind \in {"LowResProxy", "Unknown"} /\ ~run.with.proxies
  \/ kind = "Thumbnail" /\ ~run.with.thumbnails

Unwanted(kind) ==
  \/ kind = "LowResProxy" /\ ~run.with.proxies
  \/ kind = "Thumbnail" /\ ~run.with.thumbnails

First(S) == CHOOSE f \in S : \A g \in S : f <= g

\* One file of the scan: left out, skipped as imported, or planned.
ScanFile ==
  /\ run.at = "scan"
  /\ run.todo # {}
  /\ LET f == First(run.todo)
         name == EntryName(f)
         kind == Classify(name)
         wants == ResolveCollision(RenderName(run.with.template, name,
                                              ResolveCapture(f, kind), run.card)) IN
       /\ run' = [run EXCEPT !.todo = @ \ {f},
                             !.plan = IF Unwanted(kind) \/ IsImported(f) THEN @
                                      ELSE @ \cup {[file |-> f, name |-> wants]}]
       /\ leftOut' = IF Unwanted(kind) THEN leftOut \cup {<<f, run.with>>} ELSE leftOut
  /\ UNCHANGED <<config, edits, disk, ledger, jobs, objects>>

ScanEnds ==
  /\ run.at = "scan"
  /\ run.todo = {}
  /\ run' = [run EXCEPT !.at = "copy"]
  /\ UNCHANGED <<config, edits, disk, ledger, leftOut, jobs, objects>>

\* A file is copied and recorded, with its cloud job.
CopyFile ==
  /\ run.at = "copy"
  /\ \E p \in run.plan :
       /\ \A q \in run.plan : p.file <= q.file
       /\ disk' = [n \in DOMAIN disk \cup {p.name} |-> IF n = p.name THEN p.file ELSE disk[n]]
       /\ ledger' = Recorded(p.file, p.name)
       /\ jobs' = jobs \cup {[file |-> p.file, name |-> p.name, done |-> FALSE,
                              remote |-> RemotePathFor(run.with.root, p.name), url |-> <<>>]}
       /\ run' = [run EXCEPT !.plan = @ \ {p}]
  /\ UNCHANGED <<config, edits, leftOut, objects>>

RunEnds ==
  /\ run.at = "copy"
  /\ run.plan = {}
  /\ run' = NoRun
  /\ UNCHANGED <<config, edits, disk, ledger, leftOut, jobs, objects>>

\* An object that is there with the right size is not uploaded again: files of
\* one size are the hard case.
Mirror(j) ==
  /\ ~j.done
  /\ BuildsUploader
  /\ LET url == FilesUrl(Uploader.user, RemoteRel(Uploader.root, j.remote))
         there == ObjectAt(url) IN
       /\ objects' = [p \in DOMAIN objects \cup {there} |->
                        IF p \in DOMAIN objects THEN objects[p] ELSE j.file]
       /\ jobs' = (jobs \ {j}) \cup {[j EXCEPT !.done = TRUE, !.url = <<Uploader.base, there>>]}
  /\ UNCHANGED <<config, edits, run, disk, ledger, leftOut>>

RouteNext ==
  \/ \E c \in Settings : Configure(c)
  \/ \E c \in Cards : StartRun(c)
  \/ ScanFile \/ ScanEnds \/ CopyFile \/ RunEnds
  \/ \E j \in jobs : Mirror(j)

RouteSpec == RouteInit /\ [][RouteNext]_routeVars

-----------------------------------------------------------------------------
(* Correctness.                                                            *)

RouteTypes ==
  /\ config \in Settings
  /\ edits \in 0..MaxEdits
  /\ run.at \in {"idle", "scan", "copy"}
  /\ run.todo \subseteq Files
  /\ \A p \in run.plan : p.file \in Files /\ ~IsImported(p.file)
  /\ \A n \in DOMAIN disk : disk[n] \in Files \cup {0}
  /\ DOMAIN ledger \subseteq {Key(f) : f \in Files}
  /\ \A j \in jobs : j.file \in Files /\ IsImported(j.file)
  /\ \A p \in DOMAIN objects : IsImported(objects[p])

\* One component that is neither empty nor a way to another directory.
Safe(name) ==
  /\ name \notin {<<>>, <<".">>, <<".", ".">>}
  /\ \A i \in DOMAIN name : name[i] \notin Separators

\* Every recorded file is where the ledger says it is, under a single safe
\* component whatever the template, the card's version.txt and the names on it
\* are, and no file that was there before is replaced, though names collide
\* with the disk and within a plan (render_name, resolve_collision, record).
NamesAreKept ==
  /\ \A n \in Strangers : disk[n] = 0
  /\ \A k \in DOMAIN ledger :
       LET n == ledger[k] IN n \in DOMAIN disk /\ Safe(n) /\ disk[n] # 0 /\ Key(disk[n]) = k

RouteInv == RouteTypes /\ NamesAreKept

\* A run that comes to its end has imported every file in the media folders of
\* its card but the proxies and thumbnails its settings leave out: no other
\* file is dropped for its name, known to a camera or not (classify,
\* scan_with_skips).
NothingIsForgotten ==
  run.at = "copy" /\ run.plan = {} =>
    \A f \in Files :
      OnCard[f] = run.card /\ IsGoproMediaFolder(Folder[f]) =>
        \/ IsImported(f)
        \/ /\ <<f, run.with>> \in leftOut
           /\ \/ Last(Name[f]) \in {"LRV", "lrv"} /\ ~run.with.proxies
              \/ Last(Name[f]) = "THM" /\ ~run.with.thumbnails

\* The object a done job points at is its own file, under its local name: no
\* two jobs meet at one path, although roots and users change while they wait,
\* names hold characters that mean something in a URL, and an object of the
\* right size is taken for done (remote_path_for, remote_rel, files_url).
ObjectIsItsFile ==
  \A j \in jobs : j.done =>
    /\ objects[j.url[2]] = j.file
    /\ IsSuffix(<<"|">> \o j.name, j.url[2])
=============================================================================
