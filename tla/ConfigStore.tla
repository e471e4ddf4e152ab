----------------------------- MODULE ConfigStore ----------------------------
(***************************************************************************)
(* The configuration file gpbeam.toml, the password that may be in it, the *)
(* keychain the password should be in, and what the running app keeps of   *)
(* the three: the credential store's fallback and the cloud runtime        *)
(* (config_io.rs, keyring_store.rs, credentials.rs, the commands of        *)
(* commands.rs that write them, and the tick of lib.rs that uses them).    *)
(*                                                                         *)
(* Every command runs on a thread of its own, one file operation after the *)
(* other; the text is written to <path>.part, one name for all writers, so *)
(* a file handle follows what becomes of that name.                        *)
(***************************************************************************)
EXTENDS Integers

CONSTANTS
  Callers,    \* the commands that may be in flight, one each
  Passwords,
  Env,        \* the password in the environment, or NoPw
  EnvDest,    \* whether GPBEAM_DEST names the destination
  Overlap,    \* whether a command that writes the file may start beside another
  Events,     \* what may go wrong, of the set below
  MaxFaults,  \* bound on crashes and on turns of the keychain
  NoPw,
  Missing,    \* no file
  Torn        \* a file that is empty, cut short or mixed

ASSUME PasswordsAssumption == NoPw \notin Passwords /\ Env \in Passwords \cup {NoPw}
ASSUME OptionsAssumption ==
  /\ Overlap \in BOOLEAN
  /\ EnvDest \in BOOLEAN
  /\ MaxFaults \in Nat
  /\ Events \subseteq {"diskError", \* a file operation may fail
                       "denied",    \* the keychain may refuse
                       "crash",     \* the app may be killed
                       "powerLoss"} \* and unsynced text lost

VARIABLES
  file,     \* what is at the path of gpbeam.toml
  part,     \* what is at <path>.part
  unsynced, \* which of the two holds text that is not on the disk yet
  handle,   \* where the text a caller writes ends up
  keychain, \* the stored app password
  denied,   \* whether the keychain refuses
  up,       \* whether the app runs
  fallback, \* what the credential store knows of the file
  runtime,  \* the configuration the app runs with
  cmd,      \* the command of each caller
  used,     \* the password of the last uploader built, or NoPw
  faults    \* so far

vars == <<file, part, unsynced, handle, keychain, denied, up, fallback, runtime, cmd, used, faults>>
disk == <<file, part, unsynced, handle>>
memory == <<up, fallback, runtime>>
outside == <<keychain, denied, faults>>

-----------------------------------------------------------------------------
\* dest_root: where the app keeps its file and ledger, and copies to without a setting.
Bootstrap == IF EnvDest THEN "GPBEAM_DEST" ELSE "~/GPBeam"

\* The settings: the destination (perhaps empty), a [cloud] table or none, the scheme of its
\* address, and whether it names a certificate authority.  An http address or an empty
\* destination can only have been written by hand.
Dests == {"", "chosen", Bootstrap}
Configs == [dest : Dests, cloud : {"none", "https", "http"}, ca : BOOLEAN]
Default == [dest |-> Bootstrap, cloud |-> "none", ca |-> FALSE]

\* What the app keeps of them: CloudRuntime::from_config.
Runtime(cfg) == [cloud |-> cfg.cloud, ca |-> cfg.ca]

\* What the settings window shows and sends back.
Views == [dest : Dests, cloud : {"none", "https", "http"}]
Valid(v) == v.dest # "" /\ v.cloud # "http"
FromView(v) == [dest |-> v.dest, cloud |-> v.cloud, ca |-> FALSE]

\* The text of a file: the settings and its one [credentials] entry, whose two fields
\* may each be there or not.
Text == [cfg : Configs, user : BOOLEAN, plain : Passwords \cup {NoPw}]
Content == Text \cup {Missing, Torn}
ASSUME FilesAssumption == Missing # Torn /\ Missing \notin Text /\ Torn \notin Text

PlainIn(f) == IF f \in Text THEN f.plain ELSE NoPw

\* load_or_default_config, which every offload calls for the destination.
Loaded(f) ==
  IF f \notin Text THEN Default
  ELSE IF EnvDest \/ f.cfg.dest = "" THEN [f.cfg EXCEPT !.dest = Bootstrap]
  ELSE f.cfg

\* EnvConfigStore::from_toml_str: an entry without a user name fails to parse, and a
\* password that is not there counts as absent.
Parsed(f) == IF f \in Text /\ f.user THEN f.plain ELSE NoPw

\* plaintext_credential_ids: a field that is there and not empty, with a user name or not.
PlaintextIds(f) == IF PlainIn(f) = NoPw THEN {} ELSE {"nextcloud"}

-----------------------------------------------------------------------------
(* The keychain (SystemKeyring) and the store over it.  No entry is no     *)
(* error, not even to delete.                                              *)

KeychainGet == [ok |-> ~denied, password |-> IF denied THEN NoPw ELSE keychain]
KeychainSet(password) == ~denied /\ keychain' = password
KeychainDelete == ~denied /\ keychain' = NoPw
KeychainRefuses == denied /\ UNCHANGED keychain

\* KeyringCredentialStore::get: environment, then keychain, then file.  A keychain that
\* refuses fails the lookup whatever the other two hold.
Resolves == KeychainGet.ok /\ {Env, keychain, fallback} # {NoPw}
Resolved ==
  IF Env # NoPw THEN Env ELSE IF KeychainGet.password # NoPw THEN keychain ELSE fallback

\* has_password: a keychain that refuses is as good as empty.
HasPassword == {Env, KeychainGet.password, fallback} # {NoPw}

\* resolve_dest_root: the folder the window shows and the popover opens.
ResolveDestRoot(dest) == IF EnvDest \/ dest = "" THEN Bootstrap ELSE dest
ConfiguredDestRoot == IF file \in Text THEN ResolveDestRoot(file.cfg.dest) ELSE Bootstrap

\* get_config: the file as it is now, but the store as it was last refreshed.
CloudShown == IF file \in Text THEN file.cfg.cloud ELSE "none"
Shown ==
  [dest        |-> ConfiguredDestRoot,
   cloud       |-> CloudShown,
   hasPassword |-> CloudShown # "none" /\ HasPassword,
   plaintext   |-> PlaintextIds(file)]

-----------------------------------------------------------------------------

Steps == {"idle", "read", "keychain", "strip", "create", "write", "sync", "rename",
          "refresh", "swap", "apply", "clear"}
Command == [at : Steps, op : {"save", "migrate"}, cfg : Configs, body : Content,
            plain : Passwords \cup {NoPw}, ret : {"none", "ok", "err"}]

Resting(w) == cmd[w].at = "idle"
Quiet == \A w \in Callers : Resting(w)

\* A command that does not run holds nothing but how it ended.
Idle(ret) == [at |-> "idle", op |-> "save", cfg |-> Default, body |-> Missing,
              plain |-> NoPw, ret |-> ret]

Init ==
  /\ file \in Content \* somebody may have broken it by hand
  /\ Loaded(file).ca => Loaded(file).cloud = "https"
  /\ part = Missing
  /\ unsynced = {}
  /\ handle = [w \in Callers |-> "none"]
  /\ keychain \in Passwords \cup {NoPw}
  /\ denied = FALSE
  /\ up = TRUE
  /\ fallback = Parsed(file)
  /\ runtime = Runtime(Loaded(file))
  /\ cmd = [w \in Callers |-> Idle("none")]
  /\ used = NoPw
  /\ faults = 0

TypeOK ==
  /\ file \in Content
  /\ part \in Content
  /\ unsynced \subseteq {"file", "part"}
  /\ handle \in [Callers -> {"none", "part", "file", "gone"}]
  /\ keychain \in Passwords \cup {NoPw}
  /\ denied \in BOOLEAN
  /\ up \in BOOLEAN
  /\ fallback \in Passwords \cup {NoPw}
  /\ runtime \in {Runtime(c) : c \in Configs}
  /\ cmd \in [Callers -> Command]
  /\ used \in Passwords \cup {NoPw}
  /\ faults \in 0..MaxFaults

-----------------------------------------------------------------------------
(* The commands.                                                           *)

MayStart(w) == up /\ Resting(w) /\ (Overlap \/ Quiet)

Goto(w, step) == cmd' = [cmd EXCEPT ![w].at = step]

Finish(w, ret) == cmd' = [cmd EXCEPT ![w] = Idle(ret)]

\* Save: a view that does not validate is refused before anything is touched.
StartSave(w, v) ==
  /\ MayStart(w)
  /\ \A u \in Callers : Resting(u) \/ cmd[u].op # "save" \* the button is off meanwhile
  /\ IF Valid(v)
     THEN cmd' = [cmd EXCEPT ![w] = [Idle("none") EXCEPT !.at = "read", !.cfg = FromView(v)]]
     ELSE Finish(w, "err")
  /\ UNCHANGED <<disk, memory, outside, used>>

\* write_config_atomic: the entry found in the old file goes along with the new settings.
KeepCredentials(w) ==
  LET c == cmd[w].cfg IN
  /\ cmd[w].at = "read" /\ cmd[w].op = "save"
  /\ cmd' = [cmd EXCEPT ![w].at = "create", ![w].body =
               IF file \in Text THEN [file EXCEPT !.cfg = c]
                                ELSE [cfg |-> c, user |-> FALSE, plain |-> NoPw]]
  /\ UNCHANGED <<disk, memory, outside, used>>

\* Migrate: no password in the file is an error.
StartMigrate(w) ==
  /\ MayStart(w)
  /\ cmd' = [cmd EXCEPT ![w] = [Idle("none") EXCEPT !.at = "read", !.op = "migrate"]]
  /\ UNCHANGED <<disk, memory, outside, used>>

ReadPlain(w) ==
  /\ cmd[w].at = "read" /\ cmd[w].op = "migrate"
  /\ IF PlainIn(file) = NoPw
     THEN Finish(w, "err")
     ELSE cmd' = [cmd EXCEPT ![w].at = "keychain", ![w].plain = PlainIn(file)]
  /\ UNCHANGED <<disk, memory, outside, used>>

\* A bug to catch: the keychain's refusal is ignored.
MoveAnyway(w) ==
  /\ cmd[w].at = "keychain"
  /\ Goto(w, "strip")
  /\ keychain' = IF denied THEN keychain ELSE cmd[w].plain
  /\ UNCHANGED <<disk, memory, denied, faults, used>>

\* The keychain gets the password before the file loses it.
MoveToKeychain(w) ==
  /\ cmd[w].at = "keychain"
  /\ \/ KeychainRefuses /\ Finish(w, "err")
     \/ KeychainSet(cmd[w].plain) /\ Goto(w, "strip")
  /\ UNCHANGED <<disk, memory, denied, faults, used>>

\* A bug to catch: the entry keeps a field that is no password.
StripToNothing(w) ==
  /\ cmd[w].at = "strip" /\ file \in Text
  /\ cmd' = [cmd EXCEPT ![w].at = "create", ![w].body = [file EXCEPT !.plain = Missing]]
  /\ UNCHANGED <<disk, memory, outside, used>>

\* strip_credential_password reads the file again; one that is gone is left alone, one
\* that does not parse is an error.
Strip(w) ==
  /\ cmd[w].at = "strip"
  /\ cmd' = [cmd EXCEPT ![w] =
       CASE file = Missing -> [@ EXCEPT !.at = "refresh"]
         [] file = Torn -> Idle("err")
         [] OTHER -> [@ EXCEPT !.at = "create", !.body = [file EXCEPT !.plain = NoPw]]]
  /\ UNCHANGED <<disk, memory, outside, used>>

-----------------------------------------------------------------------------
(* atomic_write_string.                                                    *)

\* File::create truncates a .part that is there, whoever is writing it.
CreatePart(w) ==
  /\ cmd[w].at = "create"
  /\ part' = Torn
  /\ unsynced' = unsynced \cup {"part"}
  /\ handle' = [handle EXCEPT ![w] = "part"]
  /\ Goto(w, "write")
  /\ UNCHANGED <<file, memory, outside, used>>

WriteBody(w) ==
  LET text == cmd[w].body IN
  /\ cmd[w].at = "write"
  /\ part' = IF handle[w] = "part" THEN text ELSE part
  /\ file' = IF handle[w] = "file" THEN text ELSE file
  /\ unsynced' = unsynced \cup ({handle[w]} \cap {"part", "file"})
  /\ Goto(w, "sync")
  /\ UNCHANGED <<handle, memory, outside, used>>

\* A bug to catch: no fsync before the rename.
CloseOnly(w) ==
  /\ cmd[w].at = "sync"
  /\ handle' = [handle EXCEPT ![w] = "none"]
  /\ Goto(w, "rename")
  /\ UNCHANGED <<file, part, unsynced, memory, outside, used>>

SyncPart(w) ==
  /\ cmd[w].at = "sync"
  /\ unsynced' = unsynced \ {handle[w]}
  /\ handle' = [handle EXCEPT ![w] = "none"]
  /\ Goto(w, "rename")
  /\ UNCHANGED <<file, part, memory, outside, used>>

\* The permissions and the rename both name the .part again: another writer may have
\* renamed it away, or be writing what is there now.
RenamePart(w) ==
  /\ cmd[w].at = "rename"
  /\ IF part = Missing
     THEN Finish(w, "err") /\ UNCHANGED disk
     ELSE /\ file' = part
          /\ part' = Missing
          /\ unsynced' = IF "part" \in unsynced THEN {"file"} ELSE {}
          /\ handle' = [u \in Callers |-> CASE handle[u] = "part" -> "file"
                                            [] handle[u] = "file" -> "gone"
                                            [] OTHER -> handle[u]]
          /\ Goto(w, "refresh")
  /\ UNCHANGED <<memory, outside, used>>

\* A bug to catch: the error is not passed on.
ErrorIgnored(w) ==
  /\ "diskError" \in Events
  /\ cmd[w].at \in {"create", "write", "sync", "rename"}
  /\ Goto(w, "refresh")
  /\ UNCHANGED <<disk, memory, outside, used>>

\* A file operation fails and the command ends with the error.  Only a failed rename
\* removes the .part, whose last writer may be another.
DiskError(w) ==
  /\ "diskError" \in Events
  /\ cmd[w].at \in {"create", "write", "sync", "rename"}
  /\ \/ /\ handle' = [handle EXCEPT ![w] = "none"]
        /\ UNCHANGED <<part, unsynced>>
     \/ /\ cmd[w].at = "rename"
        /\ part' = Missing
        /\ unsynced' = unsynced \ {"part"}
        /\ handle' = [u \in Callers |-> IF handle[u] = "part" THEN "gone" ELSE handle[u]]
  /\ Finish(w, "err")
  /\ UNCHANGED <<file, memory, outside, used>>

-----------------------------------------------------------------------------
(* What a command does once the file is in place.                          *)

\* refresh_fallback_from_file reads the file, then takes the lock.
ReadBack(w) ==
  /\ cmd[w].at = "refresh"
  /\ cmd' = [cmd EXCEPT ![w].at = "swap", ![w].plain = Parsed(file)]
  /\ UNCHANGED <<disk, memory, outside, used>>

\* A bug to catch: the fallback of the start is kept.
KeepFallback(w) ==
  /\ cmd[w].at = "swap"
  /\ IF cmd[w].op = "save" THEN Goto(w, "apply") ELSE Finish(w, "ok")
  /\ UNCHANGED <<disk, memory, outside, used>>

SwapFallback(w) ==
  /\ cmd[w].at = "swap"
  /\ fallback' = cmd[w].plain
  /\ IF cmd[w].op = "save" THEN Goto(w, "apply") ELSE Finish(w, "ok")
  /\ UNCHANGED <<disk, up, runtime, outside, used>>

\* apply_config_in_memory.  The settings window then drops the keychain entry of a
\* cloud section this save removed.
ApplyInMemory(w) ==
  /\ cmd[w].at = "apply"
  /\ runtime' = Runtime(cmd[w].cfg)
  /\ IF runtime.cloud # "none" /\ runtime'.cloud = "none"
     THEN Goto(w, "clear")
     ELSE Finish(w, "ok")
  /\ UNCHANGED <<disk, up, fallback, outside, used>>

ClearPassword(w) ==
  /\ cmd[w].at = "clear"
  /\ \/ KeychainRefuses /\ Finish(w, "err")
     \/ KeychainDelete /\ Finish(w, "ok")
  /\ UNCHANGED <<disk, memory, denied, faults, used>>

\* set_nextcloud_credentials: one call, beside anything else.
SetPassword(p) ==
  /\ up
  /\ KeychainSet(p)
  /\ UNCHANGED <<disk, memory, cmd, denied, faults, used>>

\* The cloud loop's tick builds an uploader with what resolves now.
BuildUploader ==
  /\ up
  /\ runtime.cloud = "https"
  /\ Resolves
  /\ used' = Resolved
  /\ UNCHANGED <<disk, memory, cmd, outside>>

-----------------------------------------------------------------------------
(* The environment.                                                        *)

TurnKeychain ==
  /\ "denied" \in Events
  /\ denied' = ~denied
  /\ faults < MaxFaults
  /\ faults' = faults + 1
  /\ UNCHANGED <<disk, memory, cmd, keychain, used>>

Die ==
  /\ up
  /\ faults < MaxFaults
  /\ faults' = faults + 1
  /\ up' = FALSE
  /\ handle' = [w \in Callers |-> "none"]
  /\ cmd' = [w \in Callers |-> Idle("none")]
  /\ used' = NoPw
  /\ UNCHANGED <<fallback, runtime, keychain, denied>>

Crash ==
  /\ "crash" \in Events
  /\ Die
  /\ UNCHANGED <<file, part, unsynced>>

PowerLoss ==
  /\ "powerLoss" \in Events
  /\ Die
  /\ file' \in {file} \cup (IF "file" \in unsynced THEN {Torn} ELSE {})
  /\ part' \in {part} \cup (IF "part" \in unsynced THEN {Torn} ELSE {})
  /\ unsynced' = {}

\* run: everything in memory comes from the file again.
Start ==
  /\ ~up
  /\ up' = TRUE
  /\ fallback' = Parsed(file)
  /\ runtime' = Runtime(Loaded(file))
  /\ UNCHANGED <<disk, cmd, outside, used>>

-----------------------------------------------------------------------------
Write(w) == CreatePart(w) \/ WriteBody(w) \/ SyncPart(w) \/ RenamePart(w) \/ DiskError(w)
Save(w) == \/ \E v \in Views : StartSave(w, v)
           \/ KeepCredentials(w) \/ ApplyInMemory(w) \/ ClearPassword(w)
Migrate(w) == StartMigrate(w) \/ ReadPlain(w) \/ MoveToKeychain(w) \/ Strip(w)

Next ==
  \/ \E w \in Callers : Save(w) \/ Migrate(w) \/ Write(w) \/ ReadBack(w) \/ SwapFallback(w)
  \/ \E p \in Passwords : SetPassword(p)
  \/ BuildUploader
  \/ TurnKeychain
  \/ Crash
  \/ PowerLoss
  \/ Start

Spec == Init /\ [][Next]_vars

-----------------------------------------------------------------------------
(* What the store promises.                                                *)

\* Nobody who opens gpbeam.toml finds half a file, whatever is killed or fails, unless it
\* was broken by hand before.
ReadersSeeWholeFiles == [][file' = Torn => file = Torn]_vars

\* A password the app holds is in the keychain or in the file at every moment of every
\* command, crash and failure: only removing the cloud section takes the last copy away.
PasswordKept ==
  [][/\ PlainIn(file) # NoPw \/ keychain # NoPw
     /\ PlainIn(file') = NoPw /\ keychain' = NoPw
     => \E w \in Callers : ClearPassword(w)]_vars

\* Between commands, what a lookup finds with the keychain open is what environment,
\* keychain and file say now, in this order, and the app runs with the file's settings.
MemoryFollowsFile ==
  up /\ Quiet =>
    /\ runtime = Runtime(Loaded(file))
    /\ ~denied => Resolved = IF Env # NoPw THEN Env
                             ELSE IF keychain # NoPw THEN keychain ELSE Parsed(file)

\* Then the settings window is right as well: it shows the folder that offloads write to
\* and the cloud the app mirrors to, a password exactly if a lookup finds one, and offers
\* to move every one it finds in the file.  Only a keychain that refuses fails the lookup
\* of a password that is shown.
WindowIsTrue ==
  up /\ Quiet =>
    /\ Shown.dest = Loaded(file).dest
    /\ Shown.cloud = runtime.cloud
    /\ runtime.cloud # "none" /\ ~denied => (Shown.hasPassword <=> Resolves)
    /\ Resolves /\ Resolved \notin {Env, keychain} => Shown.plaintext # {}

StoreInv == TypeOK /\ MemoryFollowsFile /\ WindowIsTrue

\* An uploader is never built with a password that is nowhere any more: one that was
\* replaced, migrated away and cleared, or lost its file entry.
OnlyHeldPasswordsUsed ==
  [][used' # used /\ used' # NoPw => used' \in {Env, keychain, PlainIn(file)}]_vars

\* A command that says it failed has changed no setting; after a save that says it is done
\* the next offload goes where the window said, unless the environment says otherwise; and
\* a migration that says so leaves no password in the file.
ResultsAreTrue ==
  [][\A w \in Callers : up' /\ ~Resting(w) /\ Resting(w)' =>
       CASE cmd[w]'.ret = "err" /\ cmd[w].at # "clear" -> Runtime(Loaded(file')) = runtime'
         [] cmd[w]'.ret = "ok" /\ cmd[w].op = "migrate" -> PlainIn(file') = NoPw
         [] cmd[w]'.ret = "ok" /\ cmd[w].op = "save" ->
              Loaded(file').dest = IF EnvDest THEN Bootstrap ELSE cmd[w].cfg.dest
         [] OTHER -> TRUE]_vars
=============================================================================
