---------------------------- MODULE SettingsProofs ----------------------------
(***************************************************************************)
(* The settings the app keeps, and the commands that read them.            *)
(*                                                                         *)
(* First ConfigStore, for any number of passwords, callers, crashes and    *)
(* failures, where one command that writes the file runs at a time.        *)
(*                                                                         *)
(* Then CommandLine, for any files, processes, argument vectors and texts  *)
(* and any number of commands, faults and mounts: where a command may be   *)
(* and what it holds there, what its exit code says, when the ledger       *)
(* opens, and which card it ejects.                                        *)
(***************************************************************************)
EXTENDS ConfigStore, CommandLine, TLAPS

Alone == ~Overlap

-----------------------------------------------------------------------------
(* The inductive invariant.                                                *)

Writing == {"create", "write", "sync", "rename"}
Landed == {"refresh", "swap"}

OneAtATime == \A u, w \in Callers : ~Resting(u) /\ ~Resting(w) => u = w

\* The text on its way is whole, and on the disk before it gets its name.
PartIsBody(w) ==
  /\ handle[w] = IF cmd[w].at \in {"write", "sync"} THEN "part" ELSE "none"
  /\ cmd[w].at \in Writing => cmd[w].body \in Text
  /\ cmd[w].at \in {"sync", "rename"} => part = cmd[w].body
  /\ cmd[w].at = "rename" => "part" \notin unsynced

\* A save carries the entry of the old file along.
SaveCarries(w) ==
  cmd[w].op = "save" =>
    /\ cmd[w].at \notin {"keychain", "strip"}
    /\ cmd[w].at # "idle" => cmd[w].cfg.dest # ""
    /\ cmd[w].at \in Writing =>
         /\ cmd[w].body.plain = PlainIn(file) /\ Parsed(cmd[w].body) = Parsed(file)
         /\ cmd[w].body.cfg = cmd[w].cfg
    /\ cmd[w].at \in Landed \cup {"apply", "clear"} => file \in Text /\ file.cfg = cmd[w].cfg

\* A migration has filled the keychain before it touches the file.
MigrationMoves(w) ==
  cmd[w].op = "migrate" =>
    /\ cmd[w].at \notin {"apply", "clear"}
    /\ cmd[w].at \in {"keychain", "strip"} => PlainIn(file) # NoPw
    /\ cmd[w].at = "keychain" => cmd[w].plain # NoPw
    /\ cmd[w].at \in {"strip"} \cup Writing \cup Landed => keychain # NoPw
    /\ cmd[w].at \in Writing => file \in Text /\ cmd[w].body = [file EXCEPT !.plain = NoPw]
    /\ cmd[w].at \in Landed => file \in Text /\ PlainIn(file) = NoPw

\* What the app holds in memory is of the file, but for what a command is about to bring.
MemoryIsOfFile ==
  up =>
    /\ (\A w \in Callers : cmd[w].op = "migrate" => cmd[w].at \notin Landed)
         => fallback = Parsed(file)
    /\ (\A w \in Callers : cmd[w].op = "save" => cmd[w].at \notin Landed \cup {"apply"})
         => runtime = Runtime(Loaded(file))
    /\ \A w \in Callers : cmd[w].at = "swap" => cmd[w].plain = Parsed(file)

StoreOrder ==
  /\ TypeOK
  /\ OneAtATime
  /\ "file" \notin unsynced
  /\ \A w \in Callers : PartIsBody(w) /\ SaveCarries(w) /\ MigrationMoves(w)
  /\ MemoryIsOfFile
  /\ ~up => Quiet

-----------------------------------------------------------------------------
(* The operators.                                                          *)

LEMMA TextsAreContent ==
  ASSUME NEW f \in Content
  PROVE  /\ PlainIn(f) \in Passwords \cup {NoPw}
         /\ Parsed(f) \in Passwords \cup {NoPw}
         /\ Loaded(f) \in Configs
         /\ Runtime(Loaded(f)) \in {Runtime(c) : c \in Configs}
<1>1. PlainIn(f) \in Passwords \cup {NoPw} /\ Parsed(f) \in Passwords \cup {NoPw}
  BY DEF PlainIn, Parsed, Text
<1>2. Default \in Configs
  BY DEF Default, Configs, Dests
<1>3. Loaded(f) \in Configs
  <2>1. CASE f \notin Text
    BY <1>2, <2>1 DEF Loaded
  <2>2. CASE f \in Text
    <3>1. f.cfg \in Configs
      BY <2>2 DEF Text
    <3>2. [f.cfg EXCEPT !.dest = Bootstrap] \in Configs
      BY <3>1 DEF Configs, Dests
    <3> QED
      BY <2>2, <3>1, <3>2 DEF Loaded
  <2> QED
    BY <2>1, <2>2
<1> QED
  BY <1>1, <1>3

\* Only cloud and ca are kept in memory, so the destination may be overridden.
LEMMA RuntimeOfText ==
  ASSUME NEW f \in Text
  PROVE  Runtime(Loaded(f)) = Runtime(f.cfg)
<1>1. f.cfg \in Configs
  BY DEF Text
<1>2. /\ [f.cfg EXCEPT !.dest = Bootstrap].cloud = f.cfg.cloud
      /\ [f.cfg EXCEPT !.dest = Bootstrap].ca = f.cfg.ca
  BY <1>1 DEF Configs
<1> QED
  BY <1>1, <1>2 DEF Loaded, Runtime

LEMMA IdleIsCommand ==
  ASSUME NEW ret \in {"none", "ok", "err"}
  PROVE  /\ Idle(ret) \in Command
         /\ Idle(ret).at = "idle" /\ Idle(ret).op = "save" /\ Idle(ret).ret = ret
<1>1. Default \in Configs
  BY DEF Default, Configs, Dests
<1> QED
  BY <1>1 DEF Idle, Command, Steps, Content

LEMMA ViewsAreConfigs ==
  ASSUME NEW v \in Views
  PROVE  FromView(v) \in Configs /\ FromView(v).dest = v.dest
BY DEF Views, FromView, Configs

\* A caller at rest has nothing to answer for.
LEMMA RestIsOrdered ==
  ASSUME NEW w \in Callers, cmd[w].at = "idle", handle[w] = "none"
  PROVE  PartIsBody(w) /\ SaveCarries(w) /\ MigrationMoves(w)
BY DEF PartIsBody, SaveCarries, MigrationMoves, Writing, Landed

\* A command's step is its own: the others rest before and after it.
LEMMA StepOfOne ==
  ASSUME StoreOrder, up, NEW w \in Callers,
         \A u \in Callers \ {w} : cmd[u].at = "idle" /\ cmd'[u] = cmd[u] /\ handle'[u] = "none",
         up' = up, "file" \notin unsynced', TypeOK',
         PartIsBody(w)', SaveCarries(w)', MigrationMoves(w)',
         (cmd'[w].op = "migrate" /\ cmd'[w].at \in Landed) \/ fallback' = Parsed(file'),
         (cmd'[w].op = "save" /\ cmd'[w].at \in Landed \cup {"apply"})
           \/ runtime' = Runtime(Loaded(file')),
         cmd'[w].at = "swap" => cmd'[w].plain = Parsed(file')
  PROVE  StoreOrder'
<1>1. \A u \in Callers \ {w} : PartIsBody(u)' /\ SaveCarries(u)' /\ MigrationMoves(u)'
  BY ZenonT(40) DEF PartIsBody, SaveCarries, MigrationMoves, Writing, Landed
<1>2. OneAtATime'
  BY DEF OneAtATime, Resting
<1>3. MemoryIsOfFile'
  BY DEF MemoryIsOfFile
<1> QED
  BY <1>1, <1>2, <1>3 DEF StoreOrder

LEMMA OthersRest ==
  ASSUME StoreOrder, NEW w \in Callers, ~Resting(w) \/ Quiet
  PROVE  \A u \in Callers \ {w} : cmd[u].at = "idle" /\ handle[u] = "none"
BY DEF StoreOrder, OneAtATime, Resting, Quiet, PartIsBody

LEMMA BusyIsUp ==
  ASSUME StoreOrder, NEW w \in Callers, ~Resting(w)
  PROVE  up
BY DEF StoreOrder, Quiet

LEMMA InitStored == Init => StoreOrder
<1> SUFFICES ASSUME Init PROVE StoreOrder
  OBVIOUS
<1>1. Idle("none") \in Command /\ Idle("none").at = "idle"
  BY IdleIsCommand
<1>2. cmd \in [Callers -> Command] /\ \A w \in Callers : cmd[w].at = "idle"
  BY <1>1 DEF Init
<1>3. \A w \in Callers : handle[w] = "none"
  BY DEF Init
<1>4. TypeOK
  <2>1. file \in Content /\ Missing \in Content
    BY DEF Init, Content
  <2>2. fallback \in Passwords \cup {NoPw} /\ runtime \in {Runtime(d) : d \in Configs}
    <3>1. fallback = Parsed(file) /\ runtime = Runtime(Loaded(file))
      BY DEF Init
    <3>2. Parsed(file) \in Passwords \cup {NoPw} /\ Loaded(file) \in Configs
      BY <2>1, TextsAreContent
    <3>3. Runtime(Loaded(file)) \in {Runtime(d) : d \in Configs}
      BY <3>2
    <3>4. fallback \in Passwords \cup {NoPw}
      BY <3>1, <3>2
    <3>5. runtime \in {Runtime(d) : d \in Configs}
      BY <3>1, <3>3, Zenon
    <3> QED
      BY <3>4, <3>5
  <2>3. part \in Content /\ unsynced \subseteq {"file", "part"}
    BY <2>1 DEF Init
  <2>4. handle \in [Callers -> {"none", "part", "file", "gone"}]
    BY DEF Init
  <2>5. keychain \in Passwords \cup {NoPw} /\ used \in Passwords \cup {NoPw}
    BY DEF Init
  <2>6. denied \in BOOLEAN /\ up \in BOOLEAN
    BY DEF Init
  <2>7. faults \in 0..MaxFaults
    <3>1. faults = 0
      BY DEF Init
    <3>2. 0 \in 0..MaxFaults
      BY OptionsAssumption
    <3> QED
      BY <3>1, <3>2
  <2>8. cmd \in [Callers -> Command]
    BY <1>2
  <2> QED
    BY <2>1, <2>2, <2>3, <2>4, <2>5, <2>6, <2>7, <2>8, Zenon DEF TypeOK
<1>5. OneAtATime /\ MemoryIsOfFile /\ "file" \notin unsynced /\ up
  BY <1>2 DEF Init, OneAtATime, Resting, MemoryIsOfFile
<1> QED
  BY <1>2, <1>3, <1>4, <1>5, RestIsOrdered DEF StoreOrder

-----------------------------------------------------------------------------
(* The steps of the commands.                                              *)

\* Memory is of the file, as far as one command has not brought it.
LEMMA MemoryOfOne ==
  ASSUME StoreOrder, up, NEW w \in Callers, ~Resting(w) \/ Quiet
  PROVE  /\ (cmd[w].op = "migrate" /\ cmd[w].at \in Landed) \/ fallback = Parsed(file)
         /\ \/ cmd[w].op = "save" /\ cmd[w].at \in Landed \cup {"apply"}
            \/ runtime = Runtime(Loaded(file))
         /\ cmd[w].at = "swap" => cmd[w].plain = Parsed(file)
<1>1. \A u \in Callers \ {w} : cmd[u].at = "idle"
  BY OthersRest
<1>2. MemoryIsOfFile
  BY DEF StoreOrder
<1> QED
  BY <1>1, <1>2 DEF MemoryIsOfFile, Landed

\* A step that moves no text, no password and no memory.
LEMMA StepOfCommand ==
  ASSUME StoreOrder, up, NEW w \in Callers, ~Resting(w) \/ Quiet, NEW c \in Command,
         cmd' = [cmd EXCEPT ![w] = c],
         UNCHANGED <<disk, memory, outside, used>>,
         PartIsBody(w)', SaveCarries(w)', MigrationMoves(w)',
         (c.op = "migrate" /\ c.at \in Landed) \/ fallback = Parsed(file),
         (c.op = "save" /\ c.at \in Landed \cup {"apply"}) \/ runtime = Runtime(Loaded(file)),
         c.at = "swap" => c.plain = Parsed(file)
  PROVE  StoreOrder'
<1>1. TypeOK /\ "file" \notin unsynced
  BY DEF StoreOrder
<1>2. cmd' \in [Callers -> Command] /\ cmd'[w] = c
  BY <1>1 DEF TypeOK
<1>3. TypeOK'
  BY <1>1, <1>2 DEF TypeOK, disk, memory, outside
<1>4. \A u \in Callers \ {w} : cmd[u].at = "idle" /\ handle[u] = "none" /\ cmd'[u] = cmd[u]
  BY <1>1, OthersRest DEF TypeOK
<1> QED
  BY <1>1, <1>2, <1>3, <1>4, StepOfOne DEF disk, memory

\* A command that ends leaves memory as the file has it.
LEMMA StepToRest ==
  ASSUME StoreOrder, up, NEW w \in Callers, ~Resting(w) \/ Quiet, NEW ret \in {"none", "ok", "err"},
         cmd' = [cmd EXCEPT ![w] = Idle(ret)], handle'[w] = "none",
         UNCHANGED <<disk, memory, outside, used>>,
         fallback = Parsed(file), runtime = Runtime(Loaded(file))
  PROVE  StoreOrder'
<1>1. Idle(ret) \in Command /\ Idle(ret).at = "idle" /\ cmd'[w] = Idle(ret)
  BY IdleIsCommand DEF StoreOrder, TypeOK
<1>2. PartIsBody(w)' /\ SaveCarries(w)' /\ MigrationMoves(w)'
  BY <1>1 DEF PartIsBody, SaveCarries, MigrationMoves, Writing, Landed
<1> QED
  BY <1>1, <1>2, StepOfCommand

\* What a step that is about to happen may rely on.
LEMMA CommandIsTyped ==
  ASSUME StoreOrder, NEW w \in Callers
  PROVE  /\ cmd[w] \in Command
         /\ file \in Content /\ part \in Content
         /\ PartIsBody(w) /\ SaveCarries(w) /\ MigrationMoves(w)
         /\ "file" \notin unsynced
BY DEF StoreOrder, TypeOK

LEMMA StartSaveStep ==
  ASSUME Alone, StoreOrder, NEW w \in Callers, NEW v \in Views, StartSave(w, v)
  PROVE  StoreOrder'
<1>1. up /\ Resting(w) /\ Quiet
  BY DEF StartSave, MayStart, Alone
<1>2. fallback = Parsed(file) /\ runtime = Runtime(Loaded(file)) /\ handle[w] = "none"
  BY <1>1, MemoryOfOne, CommandIsTyped DEF Resting, Landed, PartIsBody
<1>3. CASE Valid(v)
  <2> DEFINE c == [Idle("none") EXCEPT !.at = "read", !.cfg = FromView(v)]
  <2>1. c \in Command /\ c.at = "read" /\ c.op = "save" /\ c.cfg = FromView(v)
    BY IdleIsCommand, ViewsAreConfigs DEF Command, Steps
  <2>2. c.cfg.dest # ""
    BY <1>3, <2>1, ViewsAreConfigs DEF Valid
  <2>3. cmd' = [cmd EXCEPT ![w] = c] /\ UNCHANGED <<disk, memory, outside, used>>
    BY <1>3 DEF StartSave
  <2> HIDE DEF c
  <2>4. cmd'[w] = c /\ handle'[w] = "none"
    BY <1>2, <2>3 DEF StoreOrder, TypeOK, disk
  <2>5. PartIsBody(w)' /\ SaveCarries(w)' /\ MigrationMoves(w)'
    BY <2>1, <2>2, <2>4 DEF PartIsBody, SaveCarries, MigrationMoves, Writing, Landed
  <2> QED
    BY <1>1, <1>2, <2>1, <2>3, <2>5, StepOfCommand
<1>4. CASE ~Valid(v)
  BY <1>1, <1>2, <1>4, StepToRest DEF StartSave, Finish, disk
<1> QED
  BY <1>3, <1>4

LEMMA KeepCredentialsStep ==
  ASSUME StoreOrder, NEW w \in Callers, KeepCredentials(w)
  PROVE  StoreOrder'
<1> DEFINE text == IF file \in Text THEN [file EXCEPT !.cfg = cmd[w].cfg]
                   ELSE [cfg |-> cmd[w].cfg, user |-> FALSE, plain |-> NoPw]
           c == [cmd[w] EXCEPT !.at = "create", !.body = text]
<1>1. ~Resting(w) /\ cmd[w].at = "read" /\ cmd[w].op = "save" /\ cmd[w] \in Command
  BY CommandIsTyped DEF KeepCredentials, Resting
<1>2. text \in Text /\ text.cfg = cmd[w].cfg
  BY <1>1 DEF Text, Command
<1>3. text.plain = PlainIn(file) /\ Parsed(text) = Parsed(file)
  BY <1>1, <1>2 DEF Text, Command, PlainIn, Parsed
<1> HIDE DEF text
<1>4. cmd' = [cmd EXCEPT ![w] = c] /\ UNCHANGED <<disk, memory, outside, used>>
  BY DEF KeepCredentials, StoreOrder, TypeOK, text
<1>5. /\ c \in Command
      /\ c.at = "create" /\ c.op = "save" /\ c.cfg = cmd[w].cfg /\ c.body = text
  BY <1>1, <1>2 DEF Command, Steps, Content
<1> HIDE DEF c
<1>6. cmd'[w] = c /\ UNCHANGED <<file, part, unsynced, handle, keychain>>
  BY <1>4 DEF StoreOrder, TypeOK, disk, outside
<1>7. PartIsBody(w)' /\ SaveCarries(w)' /\ MigrationMoves(w)'
  BY ZenonT(40), <1>1, <1>2, <1>3, <1>5, <1>6, CommandIsTyped
     DEF PartIsBody, SaveCarries, MigrationMoves, Writing, Landed, PlainIn, Parsed
<1>8. up /\ fallback = Parsed(file) /\ runtime = Runtime(Loaded(file))
  BY <1>1, BusyIsUp, MemoryOfOne DEF Landed
<1> QED
  BY <1>1, <1>4, <1>5, <1>7, <1>8, StepOfCommand

LEMMA StartMigrateStep ==
  ASSUME Alone, StoreOrder, NEW w \in Callers, StartMigrate(w)
  PROVE  StoreOrder'
<1> DEFINE c == [Idle("none") EXCEPT !.at = "read", !.op = "migrate"]
<1>1. up /\ Resting(w) /\ Quiet
  BY DEF StartMigrate, MayStart, Alone
<1>2. fallback = Parsed(file) /\ runtime = Runtime(Loaded(file)) /\ handle[w] = "none"
  BY <1>1, MemoryOfOne, CommandIsTyped DEF Resting, Landed, PartIsBody
<1>3. c \in Command /\ c.at = "read" /\ c.op = "migrate"
  BY IdleIsCommand DEF Command, Steps
<1>4. cmd' = [cmd EXCEPT ![w] = c] /\ UNCHANGED <<disk, memory, outside, used>>
  BY DEF StartMigrate
<1> HIDE DEF c
<1>5. cmd'[w] = c /\ handle'[w] = "none"
  BY <1>2, <1>4 DEF StoreOrder, TypeOK, disk
<1>6. PartIsBody(w)' /\ SaveCarries(w)' /\ MigrationMoves(w)'
  BY <1>3, <1>5 DEF PartIsBody, SaveCarries, MigrationMoves, Writing, Landed
<1> QED
  BY <1>1, <1>2, <1>3, <1>4, <1>6, StepOfCommand

LEMMA ReadPlainStep ==
  ASSUME StoreOrder, NEW w \in Callers, ReadPlain(w)
  PROVE  StoreOrder'
<1> DEFINE c == [cmd[w] EXCEPT !.at = "keychain", !.plain = PlainIn(file)]
<1>1. ~Resting(w) /\ cmd[w].at = "read" /\ cmd[w].op = "migrate" /\ cmd[w] \in Command
  BY CommandIsTyped DEF ReadPlain, Resting
<1>2. up /\ fallback = Parsed(file) /\ runtime = Runtime(Loaded(file)) /\ handle[w] = "none"
  BY <1>1, BusyIsUp, MemoryOfOne, CommandIsTyped DEF Landed, PartIsBody
<1>3. CASE PlainIn(file) = NoPw
  BY <1>1, <1>2, <1>3, StepToRest DEF ReadPlain, Finish, disk
<1>4. CASE PlainIn(file) # NoPw
  <2>1. cmd' = [cmd EXCEPT ![w] = c] /\ UNCHANGED <<disk, memory, outside, used>>
    BY <1>4 DEF ReadPlain, StoreOrder, TypeOK
  <2>2. /\ c \in Command /\ c.at = "keychain" /\ c.op = "migrate" /\ c.plain = PlainIn(file)
    BY <1>1, CommandIsTyped, TextsAreContent DEF Command, Steps
  <2> HIDE DEF c
  <2>3. cmd'[w] = c /\ UNCHANGED <<file, part, unsynced, handle, keychain>>
    BY <2>1 DEF StoreOrder, TypeOK, disk, outside
  <2>4. PartIsBody(w)' /\ SaveCarries(w)' /\ MigrationMoves(w)'
    BY <1>2, <1>4, <2>2, <2>3 DEF PartIsBody, SaveCarries, MigrationMoves, Writing, Landed, PlainIn
  <2> QED
    BY <1>1, <1>2, <2>1, <2>2, <2>4, StepOfCommand
<1> QED
  BY <1>3, <1>4

LEMMA StripStep ==
  ASSUME StoreOrder, NEW w \in Callers, Strip(w)
  PROVE  StoreOrder'
<1> DEFINE c == [cmd[w] EXCEPT !.at = "create", !.body = [file EXCEPT !.plain = NoPw]]
<1>1. ~Resting(w) /\ cmd[w].at = "strip" /\ cmd[w] \in Command
  BY CommandIsTyped DEF Strip, Resting
<1>2. cmd[w].op = "migrate" /\ PlainIn(file) # NoPw /\ keychain # NoPw /\ handle[w] = "none"
  BY <1>1, CommandIsTyped DEF SaveCarries, MigrationMoves, PartIsBody, Command
<1>3. up /\ fallback = Parsed(file) /\ runtime = Runtime(Loaded(file))
  BY <1>1, BusyIsUp, MemoryOfOne DEF Landed
<1>4. file \in Text /\ file # Missing /\ file # Torn
  BY <1>2, FilesAssumption DEF PlainIn
<1>5. cmd' = [cmd EXCEPT ![w] = c] /\ UNCHANGED <<disk, memory, outside, used>>
  BY <1>4 DEF Strip, StoreOrder, TypeOK
<1>6. [file EXCEPT !.plain = NoPw] \in Text
  BY <1>4 DEF Text
<1>7. /\ c \in Command /\ c.at = "create" /\ c.op = "migrate"
      /\ c.body = [file EXCEPT !.plain = NoPw]
  BY <1>1, <1>2, <1>6 DEF Command, Steps, Content
<1> HIDE DEF c
<1>8. cmd'[w] = c /\ UNCHANGED <<file, part, unsynced, handle, keychain>>
  BY <1>5 DEF StoreOrder, TypeOK, disk, outside
<1>9. PartIsBody(w)' /\ SaveCarries(w)' /\ MigrationMoves(w)'
  BY <1>2, <1>4, <1>6, <1>7, <1>8 DEF PartIsBody, SaveCarries, MigrationMoves, Writing, Landed
<1> QED
  BY <1>1, <1>3, <1>5, <1>7, <1>9, StepOfCommand

LEMMA MoveToKeychainStep ==
  ASSUME StoreOrder, NEW w \in Callers, MoveToKeychain(w)
  PROVE  StoreOrder'
<1>1. ~Resting(w) /\ cmd[w].at = "keychain" /\ cmd[w] \in Command
  BY CommandIsTyped DEF MoveToKeychain, Resting
<1>2. /\ cmd[w].op = "migrate" /\ handle[w] = "none"
      /\ PlainIn(file) # NoPw /\ cmd[w].plain # NoPw
  BY <1>1, CommandIsTyped DEF SaveCarries, MigrationMoves, PartIsBody, Command
<1>3. up /\ fallback = Parsed(file) /\ runtime = Runtime(Loaded(file))
  BY <1>1, BusyIsUp, MemoryOfOne DEF Landed
<1>4. CASE KeychainRefuses /\ Finish(w, "err")
  BY <1>1, <1>2, <1>3, <1>4, StepToRest
     DEF MoveToKeychain, Finish, KeychainRefuses, disk, outside
<1>5. CASE KeychainSet(cmd[w].plain) /\ Goto(w, "strip")
  <2> DEFINE c == [cmd[w] EXCEPT !.at = "strip"]
  <2>1. /\ UNCHANGED <<disk, memory, denied, faults, used>>
        /\ keychain' = cmd[w].plain /\ cmd' = [cmd EXCEPT ![w] = c]
    BY <1>5 DEF MoveToKeychain, KeychainSet, Goto, StoreOrder, TypeOK
  <2>2. c \in Command /\ c.at = "strip" /\ c.op = "migrate"
    BY <1>1, <1>2 DEF Command, Steps
  <2> HIDE DEF c
  <2>3. /\ cmd' \in [Callers -> Command] /\ cmd'[w] = c
        /\ \A u \in Callers \ {w} : cmd'[u] = cmd[u]
    BY <2>1, <2>2 DEF StoreOrder, TypeOK
  <2>4. keychain' \in Passwords /\ UNCHANGED <<file, part, unsynced, handle>>
    BY <1>1, <1>2, <2>1 DEF disk, Command
  <2>5. TypeOK'
    BY <2>1, <2>3, <2>4 DEF StoreOrder, TypeOK, memory
  <2>6. PartIsBody(w)' /\ SaveCarries(w)' /\ MigrationMoves(w)'
    BY <1>2, <2>2, <2>3, <2>4, PasswordsAssumption
       DEF PartIsBody, SaveCarries, MigrationMoves, Writing, Landed, PlainIn
  <2>7. \A u \in Callers \ {w} : cmd[u].at = "idle" /\ handle'[u] = "none"
    BY <1>1, <2>4, OthersRest
  <2>8. /\ "file" \notin unsynced' /\ up' = up
        /\ fallback' = Parsed(file') /\ runtime' = Runtime(Loaded(file'))
    BY <1>3, <2>1, <2>4 DEF StoreOrder, memory
  <2> QED
    BY <1>3, <2>2, <2>3, <2>5, <2>6, <2>7, <2>8, StepOfOne
<1> QED
  BY <1>4, <1>5 DEF MoveToKeychain

\* A step of writing: the command goes on with the text it has.
LEMMA StepOfWriter ==
  ASSUME StoreOrder, NEW w \in Callers, cmd[w].at \in Writing,
         NEW at \in Writing, Goto(w, at), UNCHANGED <<file, memory, outside, used>>,
         part' \in Content, unsynced' \subseteq {"file", "part"}, "file" \notin unsynced',
         NEW h \in {"none", "part"}, handle' = [handle EXCEPT ![w] = h],
         h = IF at \in {"write", "sync"} THEN "part" ELSE "none",
         at \in {"sync", "rename"} => part' = cmd[w].body,
         at = "rename" => "part" \notin unsynced'
  PROVE  StoreOrder'
<1> DEFINE c == [cmd[w] EXCEPT !.at = at]
<1>1. ~Resting(w) /\ cmd[w] \in Command /\ cmd[w].at \notin Landed /\ cmd[w].at # "apply"
  BY CommandIsTyped DEF Writing, Landed, Resting
<1>2. up /\ fallback = Parsed(file) /\ runtime = Runtime(Loaded(file))
  BY <1>1, BusyIsUp, MemoryOfOne
<1>3. /\ c \in Command /\ c.at = at
      /\ c.op = cmd[w].op /\ c.cfg = cmd[w].cfg /\ c.body = cmd[w].body
  BY <1>1 DEF Command, Steps, Writing
<1>4. cmd' = [cmd EXCEPT ![w] = c]
  BY DEF Goto, StoreOrder, TypeOK
<1> HIDE DEF c
<1>5. /\ cmd' \in [Callers -> Command] /\ cmd'[w] = c
      /\ \A u \in Callers \ {w} : cmd'[u] = cmd[u]
  BY <1>3, <1>4 DEF StoreOrder, TypeOK
<1>6. /\ handle' \in [Callers -> {"none", "part", "file", "gone"}] /\ handle'[w] = h
      /\ \A u \in Callers \ {w} : handle'[u] = handle[u]
  BY DEF StoreOrder, TypeOK
<1>7. UNCHANGED <<file, up, fallback, runtime, keychain, denied, faults, used>>
  BY DEF memory, outside
<1>8. TypeOK'
  BY <1>5, <1>6, <1>7 DEF StoreOrder, TypeOK
<1>9. PartIsBody(w) /\ SaveCarries(w) /\ MigrationMoves(w)
  BY DEF StoreOrder
<1>10. PartIsBody(w)'
  BY <1>3, <1>5, <1>6, <1>9 DEF PartIsBody, Writing
<1>11. SaveCarries(w)'
  BY <1>3, <1>5, <1>7, <1>9 DEF SaveCarries, Writing, Landed, PlainIn, Parsed
<1>12. MigrationMoves(w)'
  BY <1>3, <1>5, <1>7, <1>9 DEF MigrationMoves, Writing, Landed
<1>13. \A u \in Callers \ {w} : cmd[u].at = "idle" /\ handle'[u] = "none"
  BY <1>1, <1>6, OthersRest
<1>14. fallback' = Parsed(file') /\ runtime' = Runtime(Loaded(file')) /\ cmd'[w].at # "swap"
  BY <1>2, <1>3, <1>5, <1>7 DEF Writing
<1> QED
  BY <1>2, <1>5, <1>7, <1>8, <1>10, <1>11, <1>12, <1>13, <1>14, StepOfOne

LEMMA CreatePartStep ==
  ASSUME StoreOrder, NEW w \in Callers, CreatePart(w)
  PROVE  StoreOrder'
<1>1. cmd[w].at \in Writing /\ "write" \in Writing
  BY DEF CreatePart, Writing
<1>2. part' \in Content /\ unsynced' \subseteq {"file", "part"} /\ "file" \notin unsynced'
  BY DEF CreatePart, Content, StoreOrder, TypeOK
<1> QED
  BY <1>1, <1>2, StepOfWriter DEF CreatePart

LEMMA WriteBodyStep ==
  ASSUME StoreOrder, NEW w \in Callers, WriteBody(w)
  PROVE  StoreOrder'
<1>1. cmd[w].at \in Writing /\ "sync" \in Writing /\ cmd[w].at = "write"
  BY DEF WriteBody, Writing
<1>2. handle[w] = "part" /\ cmd[w] \in Command
  BY <1>1, CommandIsTyped DEF PartIsBody
<1>3. part' = cmd[w].body /\ file' = file /\ part' \in Content
  BY <1>2 DEF WriteBody, Command
<1>4. unsynced' \subseteq {"file", "part"} /\ "file" \notin unsynced'
  BY <1>2 DEF WriteBody, StoreOrder, TypeOK
<1>5. handle' = [handle EXCEPT ![w] = "part"]
  BY <1>2 DEF WriteBody, StoreOrder, TypeOK
<1> QED
  BY <1>1, <1>3, <1>4, <1>5, StepOfWriter DEF WriteBody

LEMMA SyncPartStep ==
  ASSUME StoreOrder, NEW w \in Callers, SyncPart(w)
  PROVE  StoreOrder'
<1>1. cmd[w].at \in Writing /\ "rename" \in Writing /\ cmd[w].at = "sync"
  BY DEF SyncPart, Writing
<1>2. handle[w] = "part" /\ part = cmd[w].body /\ part \in Content
  BY <1>1, CommandIsTyped DEF PartIsBody
<1>3. unsynced' \subseteq {"file", "part"} /\ "file" \notin unsynced' /\ "part" \notin unsynced'
  BY <1>2 DEF SyncPart, StoreOrder, TypeOK
<1> QED
  BY <1>1, <1>2, <1>3, StepOfWriter DEF SyncPart

LEMMA RenamePartStep ==
  ASSUME StoreOrder, NEW w \in Callers, RenamePart(w)
  PROVE  StoreOrder'
<1> DEFINE c == [cmd[w] EXCEPT !.at = "refresh"]
           body == cmd[w].body
<1>1. ~Resting(w) /\ cmd[w].at = "rename" /\ cmd[w] \in Command
  BY CommandIsTyped DEF RenamePart, Resting
<1>2. /\ body \in Text /\ part = body /\ part # Missing
      /\ "part" \notin unsynced /\ handle[w] = "none"
  BY <1>1, CommandIsTyped, FilesAssumption DEF PartIsBody, Writing
<1>3. up /\ fallback = Parsed(file) /\ runtime = Runtime(Loaded(file))
  BY <1>1, BusyIsUp, MemoryOfOne DEF Landed
<1>4. /\ file' = body /\ part' = Missing /\ unsynced' = {}
      /\ UNCHANGED <<memory, outside, used>> /\ Goto(w, "refresh")
  BY <1>2 DEF RenamePart
<1>5. \A u \in Callers \ {w} : cmd[u].at = "idle" /\ handle[u] = "none"
  BY <1>1, OthersRest
<1>6. /\ handle' \in [Callers -> {"none", "part", "file", "gone"}]
      /\ \A u \in Callers : handle'[u] = "none"
  <2>1. handle' = [u \in Callers |-> CASE handle[u] = "part" -> "file"
                                       [] handle[u] = "file" -> "gone"
                                       [] OTHER -> handle[u]]
    BY <1>2 DEF RenamePart
  <2>2. \A u \in Callers : handle[u] = "none"
    BY <1>2, <1>5
  <2> QED
    BY <2>1, <2>2
<1>7. /\ c \in Command /\ c.at = "refresh" /\ c.op = cmd[w].op /\ c.cfg = cmd[w].cfg
      /\ c.plain = cmd[w].plain
  BY <1>1 DEF Command, Steps
<1>8. cmd' = [cmd EXCEPT ![w] = c]
  BY <1>4 DEF Goto, StoreOrder, TypeOK
<1> HIDE DEF c, body
<1>9. /\ cmd' \in [Callers -> Command] /\ cmd'[w] = c
      /\ \A u \in Callers \ {w} : cmd'[u] = cmd[u]
  BY <1>7, <1>8 DEF StoreOrder, TypeOK
<1>10. UNCHANGED <<up, fallback, runtime, keychain, denied, faults, used>>
  BY <1>4 DEF memory, outside
<1>11. TypeOK'
  <2>1. file' \in Content /\ part' \in Content
    BY <1>2, <1>4 DEF Content
  <2> QED
    BY <1>4, <1>6, <1>9, <1>10, <2>1 DEF StoreOrder, TypeOK
<1>12. PartIsBody(w)'
  BY <1>6, <1>7, <1>9 DEF PartIsBody, Writing
<1>13. CASE cmd[w].op = "save"
  <2>1. /\ body.plain = PlainIn(file) /\ Parsed(body) = Parsed(file)
        /\ body.cfg = cmd[w].cfg /\ cmd[w].cfg.dest # ""
    BY <1>1, <1>13, CommandIsTyped DEF SaveCarries, Writing, body
  <2>2. SaveCarries(w)' /\ MigrationMoves(w)'
    BY <1>2, <1>4, <1>7, <1>9, <1>13, <2>1 DEF SaveCarries, MigrationMoves, Writing, Landed
  <2>3. cmd'[w].op = "save" /\ cmd'[w].at = "refresh" /\ fallback' = Parsed(file')
    BY <1>3, <1>4, <1>7, <1>9, <1>10, <1>13, <2>1
  <2> QED
    BY <1>3, <1>4, <1>5, <1>6, <1>9, <1>10, <1>11, <1>12, <2>2, <2>3, StepOfOne DEF Landed
<1>14. CASE cmd[w].op = "migrate"
  <2>1. file \in Text /\ body = [file EXCEPT !.plain = NoPw] /\ keychain # NoPw
    BY <1>1, <1>14, CommandIsTyped DEF MigrationMoves, Writing, body
  <2>2. body.plain = NoPw /\ body.cfg = file.cfg
    BY <2>1 DEF Text
  <2>3. SaveCarries(w)' /\ MigrationMoves(w)'
    BY <1>2, <1>4, <1>7, <1>9, <1>10, <1>14, <2>1, <2>2
       DEF SaveCarries, MigrationMoves, Writing, Landed, PlainIn
  <2>4. runtime' = Runtime(Loaded(file'))
    BY <1>2, <1>3, <1>4, <1>10, <2>1, <2>2, RuntimeOfText
  <2>5. cmd'[w].op = "migrate" /\ cmd'[w].at = "refresh"
    BY <1>7, <1>9, <1>14
  <2> QED
    BY <1>3, <1>4, <1>5, <1>6, <1>9, <1>10, <1>11, <1>12, <2>3, <2>4, <2>5, StepOfOne DEF Landed
<1> QED
  BY <1>1, <1>13, <1>14 DEF Command

LEMMA DiskErrorStep ==
  ASSUME StoreOrder, NEW w \in Callers, DiskError(w)
  PROVE  StoreOrder'
<1>1. ~Resting(w) /\ cmd[w].at \in Writing
  BY DEF DiskError, Resting, Writing
<1>2. up /\ fallback = Parsed(file) /\ runtime = Runtime(Loaded(file))
  BY <1>1, BusyIsUp, MemoryOfOne DEF Landed, Writing
<1>3. \A u \in Callers \ {w} : cmd[u].at = "idle" /\ handle[u] = "none"
  BY <1>1, OthersRest
<1>4. Idle("err") \in Command /\ Idle("err").at = "idle"
  BY IdleIsCommand
<1>5. /\ cmd' \in [Callers -> Command] /\ cmd'[w] = Idle("err")
      /\ \A u \in Callers \ {w} : cmd'[u] = cmd[u]
  BY <1>4 DEF DiskError, Finish, StoreOrder, TypeOK
<1>6. UNCHANGED <<file, up, fallback, runtime, keychain, denied, faults, used>>
  BY DEF DiskError, memory, outside
<1>7. part' \in Content /\ unsynced' \subseteq {"file", "part"} /\ "file" \notin unsynced'
  BY DEF DiskError, Content, StoreOrder, TypeOK
<1>8. /\ handle' \in [Callers -> {"none", "part", "file", "gone"}]
      /\ \A u \in Callers : handle'[u] = "none"
  <2>1. CASE handle' = [handle EXCEPT ![w] = "none"]
    BY <1>3, <2>1 DEF StoreOrder, TypeOK
  <2>2. CASE /\ cmd[w].at = "rename"
             /\ handle' = [u \in Callers |-> IF handle[u] = "part" THEN "gone" ELSE handle[u]]
    <3>1. handle[w] = "none"
      BY <2>2, CommandIsTyped DEF PartIsBody
    <3> QED
      BY <1>3, <2>2, <3>1
  <2> QED
    BY <2>1, <2>2 DEF DiskError
<1>9. TypeOK'
  BY <1>5, <1>6, <1>7, <1>8 DEF StoreOrder, TypeOK
<1>10. PartIsBody(w)' /\ SaveCarries(w)' /\ MigrationMoves(w)'
  BY <1>4, <1>5, <1>8 DEF PartIsBody, SaveCarries, MigrationMoves, Writing, Landed
<1> QED
  BY <1>2, <1>3, <1>4, <1>5, <1>6, <1>7, <1>8, <1>9, <1>10, StepOfOne

LEMMA ReadBackStep ==
  ASSUME StoreOrder, NEW w \in Callers, ReadBack(w)
  PROVE  StoreOrder'
<1> DEFINE c == [cmd[w] EXCEPT !.at = "swap", !.plain = Parsed(file)]
<1>1. ~Resting(w) /\ cmd[w].at = "refresh" /\ cmd[w] \in Command
  BY CommandIsTyped DEF ReadBack, Resting
<1>2. /\ up
      /\ cmd[w].op = "migrate" \/ fallback = Parsed(file)
      /\ cmd[w].op = "save" \/ runtime = Runtime(Loaded(file))
  BY <1>1, BusyIsUp, MemoryOfOne
<1>3. cmd' = [cmd EXCEPT ![w] = c] /\ UNCHANGED <<disk, memory, outside, used>>
  BY DEF ReadBack, StoreOrder, TypeOK
<1>4. /\ c \in Command /\ c.at = "swap" /\ c.plain = Parsed(file)
      /\ c.op = cmd[w].op /\ c.cfg = cmd[w].cfg
  BY <1>1, CommandIsTyped, TextsAreContent DEF Command, Steps
<1> HIDE DEF c
<1>5. cmd'[w] = c /\ UNCHANGED <<file, part, unsynced, handle, keychain>>
  BY <1>3 DEF StoreOrder, TypeOK, disk, outside
<1>6. PartIsBody(w)' /\ SaveCarries(w)' /\ MigrationMoves(w)'
  BY ZenonT(40), <1>1, <1>4, <1>5, CommandIsTyped
     DEF PartIsBody, SaveCarries, MigrationMoves, Writing, Landed, PlainIn
<1> QED
  BY <1>1, <1>2, <1>3, <1>4, <1>6, StepOfCommand DEF Landed, Command

\* Where a command goes when the fallback is up to date again.
LEMMA SwapFallbackStep ==
  ASSUME StoreOrder, NEW w \in Callers, SwapFallback(w)
  PROVE  StoreOrder'
<1> DEFINE c == IF cmd[w].op = "save" THEN [cmd[w] EXCEPT !.at = "apply"] ELSE Idle("ok")
<1>1. ~Resting(w) /\ cmd[w].at = "swap" /\ cmd[w] \in Command
  BY CommandIsTyped DEF SwapFallback, Resting
<1>2. /\ up /\ cmd[w].plain = Parsed(file) /\ handle[w] = "none"
      /\ cmd[w].op = "save" \/ runtime = Runtime(Loaded(file))
  BY <1>1, BusyIsUp, MemoryOfOne, CommandIsTyped DEF PartIsBody
<1>3. \A u \in Callers \ {w} : cmd[u].at = "idle" /\ handle[u] = "none"
  BY <1>1, OthersRest
<1>4. cmd' = [cmd EXCEPT ![w] = c]
  BY DEF SwapFallback, Goto, Finish, StoreOrder, TypeOK
<1>5. /\ c \in Command
      /\ cmd[w].op = "save" => c.at = "apply" /\ c.op = "save" /\ c.cfg = cmd[w].cfg
      /\ cmd[w].op # "save" => c.at = "idle"
  BY <1>1, IdleIsCommand DEF Command, Steps
<1> HIDE DEF c
<1>6. /\ cmd' \in [Callers -> Command] /\ cmd'[w] = c
      /\ \A u \in Callers \ {w} : cmd'[u] = cmd[u]
  BY <1>4, <1>5 DEF StoreOrder, TypeOK
<1>7. /\ UNCHANGED <<file, part, unsynced, handle, keychain, denied, up, runtime, used, faults>>
      /\ fallback' = Parsed(file')
  BY <1>2 DEF SwapFallback, disk, outside
<1>8. TypeOK'
  <2>1. fallback' \in Passwords \cup {NoPw}
    BY <1>1, <1>2, <1>7 DEF Command
  <2> QED
    BY <1>6, <1>7, <2>1 DEF StoreOrder, TypeOK
<1>9. PartIsBody(w)' /\ SaveCarries(w)' /\ MigrationMoves(w)'
  BY ZenonT(40), <1>1, <1>2, <1>5, <1>6, <1>7, CommandIsTyped
     DEF PartIsBody, SaveCarries, MigrationMoves, Writing, Landed
<1>10. /\ cmd'[w].at # "swap" /\ "file" \notin unsynced'
       /\ (cmd'[w].op = "save" /\ cmd'[w].at = "apply") \/ runtime' = Runtime(Loaded(file'))
  BY <1>2, <1>5, <1>6, <1>7, CommandIsTyped
<1> QED
  BY <1>2, <1>3, <1>6, <1>7, <1>8, <1>9, <1>10, StepOfOne

LEMMA ApplyInMemoryStep ==
  ASSUME StoreOrder, NEW w \in Callers, ApplyInMemory(w)
  PROVE  StoreOrder'
<1> DEFINE c == IF runtime.cloud # "none" /\ runtime'.cloud = "none"
                THEN [cmd[w] EXCEPT !.at = "clear"] ELSE Idle("ok")
<1>1. ~Resting(w) /\ cmd[w].at = "apply" /\ cmd[w] \in Command
  BY CommandIsTyped DEF ApplyInMemory, Resting
<1>2. /\ up /\ fallback = Parsed(file) /\ handle[w] = "none" /\ cmd[w].op = "save"
      /\ file \in Text /\ file.cfg = cmd[w].cfg
  BY <1>1, BusyIsUp, MemoryOfOne, CommandIsTyped
     DEF PartIsBody, SaveCarries, MigrationMoves, Landed, Command
<1>3. \A u \in Callers \ {w} : cmd[u].at = "idle" /\ handle[u] = "none"
  BY <1>1, OthersRest
<1>4. cmd' = [cmd EXCEPT ![w] = c]
  BY DEF ApplyInMemory, Goto, Finish, StoreOrder, TypeOK
<1>5. /\ c \in Command
      /\ (c.at = "clear" /\ c.op = "save" /\ c.cfg = cmd[w].cfg) \/ c.at = "idle"
  BY <1>1, <1>2, IdleIsCommand DEF Command, Steps
<1> HIDE DEF c
<1>6. /\ cmd' \in [Callers -> Command] /\ cmd'[w] = c
      /\ \A u \in Callers \ {w} : cmd'[u] = cmd[u]
  BY <1>4, <1>5 DEF StoreOrder, TypeOK
<1>7. UNCHANGED <<file, part, unsynced, handle, keychain, denied, up, fallback, used, faults>>
  BY DEF ApplyInMemory, disk, outside
<1>8. runtime' = Runtime(cmd[w].cfg) /\ runtime' = Runtime(Loaded(file'))
  BY <1>2, <1>7, RuntimeOfText DEF ApplyInMemory
<1>9. TypeOK'
  <2>1. cmd[w].cfg \in Configs
    BY <1>1 DEF Command
  <2>2. Runtime(cmd[w].cfg) \in {Runtime(d) : d \in Configs}
    BY <2>1
  <2>3. runtime' \in {Runtime(d) : d \in Configs}
    BY <1>8, <2>2, Zenon
  <2> QED
    BY <1>6, <1>7, <2>3 DEF StoreOrder, TypeOK
<1>10. PartIsBody(w)' /\ SaveCarries(w)' /\ MigrationMoves(w)'
  BY <1>1, <1>2, <1>5, <1>6, <1>7, CommandIsTyped
     DEF PartIsBody, SaveCarries, MigrationMoves, Writing, Landed
<1>11. cmd'[w].at # "swap" /\ "file" \notin unsynced' /\ fallback' = Parsed(file')
  BY <1>2, <1>5, <1>6, <1>7, CommandIsTyped
<1> QED
  BY <1>2, <1>3, <1>6, <1>7, <1>8, <1>9, <1>10, <1>11, StepOfOne

LEMMA ClearPasswordStep ==
  ASSUME StoreOrder, NEW w \in Callers, ClearPassword(w)
  PROVE  StoreOrder'
<1>1. ~Resting(w) /\ cmd[w].at = "clear" /\ cmd[w] \in Command
  BY CommandIsTyped DEF ClearPassword, Resting
<1>2. up /\ fallback = Parsed(file) /\ runtime = Runtime(Loaded(file)) /\ handle[w] = "none"
  BY <1>1, BusyIsUp, MemoryOfOne, CommandIsTyped DEF Landed, PartIsBody
<1>3. \A u \in Callers \ {w} : cmd[u].at = "idle" /\ handle[u] = "none"
  BY <1>1, OthersRest
<1>4. PICK ret \in {"none", "ok", "err"} : cmd' = [cmd EXCEPT ![w] = Idle(ret)]
  BY DEF ClearPassword, Finish
<1>5. Idle(ret) \in Command /\ Idle(ret).at = "idle"
  BY IdleIsCommand
<1>6. /\ cmd' \in [Callers -> Command] /\ cmd'[w].at = "idle"
      /\ \A u \in Callers \ {w} : cmd'[u] = cmd[u]
  BY <1>4, <1>5 DEF StoreOrder, TypeOK
<1>7. /\ UNCHANGED <<file, part, unsynced, handle, up, fallback, runtime, denied, faults, used>>
      /\ keychain' \in {keychain, NoPw}
  BY DEF ClearPassword, KeychainRefuses, KeychainDelete, disk, memory
<1>8. TypeOK'
  BY <1>6, <1>7 DEF StoreOrder, TypeOK
<1>9. PartIsBody(w)' /\ SaveCarries(w)' /\ MigrationMoves(w)'
  BY <1>2, <1>6, <1>7 DEF PartIsBody, SaveCarries, MigrationMoves, Writing, Landed
<1>10. /\ "file" \notin unsynced' /\ fallback' = Parsed(file') /\ runtime' = Runtime(Loaded(file'))
  BY <1>2, <1>7, CommandIsTyped
<1> QED
  BY <1>2, <1>3, <1>6, <1>7, <1>8, <1>9, <1>10, StepOfOne

-----------------------------------------------------------------------------
(* The other steps.                                                        *)

\* A step beside the commands: only what is outside the app changes.
LEMMA StepBeside ==
  ASSUME StoreOrder, UNCHANGED <<disk, memory, cmd>>, TypeOK',
         keychain' # NoPw \/ keychain' = keychain
  PROVE  StoreOrder'
<1>1. UNCHANGED <<file, part, unsynced, handle, up, fallback, runtime, cmd>>
  BY DEF disk, memory
<1>2. ASSUME NEW w \in Callers
      PROVE  PartIsBody(w)' /\ SaveCarries(w)' /\ MigrationMoves(w)'
  <2>1. PartIsBody(w) /\ SaveCarries(w) /\ MigrationMoves(w)
    BY DEF StoreOrder
  <2>2. PartIsBody(w)' /\ SaveCarries(w)'
    BY <1>1, <2>1 DEF PartIsBody, SaveCarries
  <2>3. MigrationMoves(w)'
    BY <1>1, <2>1 DEF MigrationMoves
  <2> QED
    BY <2>2, <2>3
<1>3. OneAtATime' /\ MemoryIsOfFile' /\ "file" \notin unsynced' /\ (~up => Quiet)'
  BY <1>1 DEF StoreOrder, OneAtATime, MemoryIsOfFile, Quiet, Resting
<1> QED
  BY <1>2, <1>3 DEF StoreOrder

LEMMA SetPasswordStep ==
  ASSUME StoreOrder, NEW p \in Passwords, SetPassword(p)
  PROVE  StoreOrder'
<1>1. keychain' = p /\ p # NoPw
  BY PasswordsAssumption DEF SetPassword, KeychainSet
<1>2. TypeOK'
  BY <1>1 DEF SetPassword, StoreOrder, TypeOK, disk, memory
<1> QED
  BY <1>1, <1>2, StepBeside DEF SetPassword

LEMMA BuildUploaderStep ==
  ASSUME StoreOrder, BuildUploader
  PROVE  StoreOrder'
<1>1. used' \in Passwords \cup {NoPw}
  BY PasswordsAssumption DEF BuildUploader, Resolved, StoreOrder, TypeOK
<1>2. TypeOK'
  BY <1>1 DEF BuildUploader, StoreOrder, TypeOK, disk, memory, outside
<1> QED
  BY <1>2, StepBeside DEF BuildUploader, outside

LEMMA TurnKeychainStep ==
  ASSUME StoreOrder, TurnKeychain
  PROVE  StoreOrder'
<1>1. TypeOK'
  BY OptionsAssumption DEF TurnKeychain, StoreOrder, TypeOK, disk, memory
<1> QED
  BY <1>1, StepBeside DEF TurnKeychain

\* Nothing is lost with the power: what has its name is on the disk.
LEMMA DieStep ==
  ASSUME StoreOrder, Crash \/ PowerLoss
  PROVE  StoreOrder' /\ file' = file /\ UNCHANGED <<keychain, runtime>> /\ ~up'
<1>1. /\ Die /\ file' = file /\ part' \in Content
      /\ unsynced' \subseteq {"file", "part"} /\ "file" \notin unsynced'
  BY DEF Crash, PowerLoss, StoreOrder, TypeOK, Content
<1>2. Idle("none") \in Command /\ Idle("none").at = "idle"
  BY IdleIsCommand
<1>3. cmd' \in [Callers -> Command] /\ \A w \in Callers : cmd'[w].at = "idle"
  BY <1>1, <1>2 DEF Die
<1>4. /\ handle' \in [Callers -> {"none", "part", "file", "gone"}]
      /\ \A w \in Callers : handle'[w] = "none"
  BY <1>1 DEF Die
<1>5. up' = FALSE /\ UNCHANGED <<fallback, runtime, keychain, denied>> /\ used' = NoPw
  BY <1>1 DEF Die
<1>6. faults' \in 0..MaxFaults
  BY <1>1, OptionsAssumption DEF Die, StoreOrder, TypeOK
<1>7. TypeOK'
  BY <1>1, <1>3, <1>4, <1>5, <1>6 DEF StoreOrder, TypeOK
<1>8. \A w \in Callers : PartIsBody(w)' /\ SaveCarries(w)' /\ MigrationMoves(w)'
  BY <1>3, <1>4 DEF PartIsBody, SaveCarries, MigrationMoves, Writing, Landed
<1>9. OneAtATime' /\ MemoryIsOfFile' /\ Quiet'
  BY <1>3, <1>5 DEF OneAtATime, MemoryIsOfFile, Quiet, Resting
<1> QED
  BY <1>1, <1>5, <1>7, <1>8, <1>9 DEF StoreOrder

LEMMA StartStep ==
  ASSUME StoreOrder, Start
  PROVE  StoreOrder'
<1>1. /\ Quiet /\ TypeOK
      /\ UNCHANGED <<file, part, unsynced, handle, keychain, denied, faults, cmd, used>>
  BY DEF Start, StoreOrder, disk, outside
<1>2. \A w \in Callers : cmd[w].at = "idle" /\ handle[w] = "none" /\ cmd'[w] = cmd[w]
  BY <1>1 DEF StoreOrder, Quiet, Resting, PartIsBody
<1>3. up' /\ fallback' = Parsed(file') /\ runtime' = Runtime(Loaded(file'))
  BY <1>1 DEF Start
<1>4. TypeOK'
  <2>1. file \in Content
    BY <1>1 DEF TypeOK
  <2>2. /\ Parsed(file) \in Passwords \cup {NoPw}
        /\ Runtime(Loaded(file)) \in {Runtime(d) : d \in Configs}
    BY <2>1, TextsAreContent
  <2>3. fallback' \in Passwords \cup {NoPw} /\ up' \in BOOLEAN
    BY <1>1, <1>3, <2>2
  <2>4. runtime' \in {Runtime(d) : d \in Configs}
    BY <1>1, <1>3, <2>2, Zenon
  <2> QED
    BY <1>1, <2>3, <2>4 DEF TypeOK
<1>5. \A w \in Callers : PartIsBody(w)' /\ SaveCarries(w)' /\ MigrationMoves(w)'
  BY <1>1, <1>2 DEF PartIsBody, SaveCarries, MigrationMoves, Writing, Landed
<1>6. OneAtATime' /\ MemoryIsOfFile' /\ "file" \notin unsynced'
  BY <1>1, <1>2, <1>3 DEF OneAtATime, MemoryIsOfFile, Resting, StoreOrder
<1> QED
  BY <1>3, <1>4, <1>5, <1>6 DEF StoreOrder

LEMMA NextStored ==
  ASSUME Alone, StoreOrder, [Next]_vars
  PROVE  StoreOrder'
<1>1. CASE UNCHANGED vars
  <2>1. UNCHANGED <<disk, memory, cmd, keychain>> /\ TypeOK'
    BY <1>1 DEF vars, disk, memory, StoreOrder, TypeOK
  <2> QED
    BY <2>1, StepBeside
<1>2. ASSUME NEW w \in Callers, Save(w) PROVE StoreOrder'
  BY <1>2, StartSaveStep, KeepCredentialsStep, ApplyInMemoryStep, ClearPasswordStep DEF Save
<1>3. ASSUME NEW w \in Callers, Migrate(w) PROVE StoreOrder'
  BY <1>3, StartMigrateStep, ReadPlainStep, MoveToKeychainStep, StripStep DEF Migrate
<1>4. ASSUME NEW w \in Callers, Write(w) PROVE StoreOrder'
  BY <1>4, CreatePartStep, WriteBodyStep, SyncPartStep, RenamePartStep, DiskErrorStep DEF Write
<1> QED
  BY <1>1, <1>2, <1>3, <1>4, ReadBackStep, SwapFallbackStep, SetPasswordStep,
     BuildUploaderStep, TurnKeychainStep, DieStep, StartStep DEF Next

-----------------------------------------------------------------------------
(* What the store promises, where one command writes the file at a time.   *)

\* The order of a save and of a migration is kept in every reachable state.
THEOREM StoreIsOrdered ==
  ASSUME Alone
  PROVE  Spec => []StoreOrder
<1>1. Init => StoreOrder
  BY InitStored
<1>2. StoreOrder /\ [Next]_vars => StoreOrder'
  BY NextStored
<1> QED
  BY <1>1, <1>2, PTL DEF Spec

LEMMA WindowFromOrder == StoreOrder => MemoryFollowsFile /\ WindowIsTrue
<1> SUFFICES ASSUME StoreOrder, up, Quiet PROVE MemoryFollowsFile /\ WindowIsTrue
  BY DEF MemoryFollowsFile, WindowIsTrue
<1>1. file \in Content /\ fallback = Parsed(file) /\ runtime = Runtime(Loaded(file))
  BY DEF StoreOrder, TypeOK, MemoryIsOfFile, Quiet, Resting, Landed
<1>2. MemoryFollowsFile
  <2>1. ~denied => Resolved = IF Env # NoPw THEN Env
                              ELSE IF keychain # NoPw THEN keychain ELSE fallback
    BY DEF Resolved, KeychainGet
  <2> QED
    BY <1>1, <2>1 DEF MemoryFollowsFile
<1>3. Shown.dest = Loaded(file).dest /\ Shown.cloud = runtime.cloud
  <2>1. CASE file \in Text
    <3>1. file.cfg \in Configs
      BY <2>1 DEF Text
    <3>2. /\ [file.cfg EXCEPT !.dest = Bootstrap].dest = Bootstrap
          /\ runtime.cloud = file.cfg.cloud
      BY <1>1, <2>1, <3>1, RuntimeOfText DEF Configs, Runtime
    <3> QED
      BY <2>1, <3>2 DEF Shown, ConfiguredDestRoot, ResolveDestRoot, CloudShown, Loaded
  <2>2. CASE file \notin Text
    BY <1>1, <2>2 DEF Shown, ConfiguredDestRoot, CloudShown, Loaded, Runtime, Default
  <2> QED
    BY <2>1, <2>2
<1>4. runtime.cloud # "none" /\ ~denied => (Shown.hasPassword <=> Resolves)
  <2>1. ~denied => (HasPassword <=> Resolves)
    BY DEF HasPassword, Resolves, KeychainGet
  <2>2. Shown.hasPassword <=> CloudShown # "none" /\ HasPassword
    BY DEF Shown
  <2>3. Shown.cloud = CloudShown
    BY DEF Shown
  <2> QED
    BY <1>3, <2>1, <2>2, <2>3
<1>5. Resolves /\ Resolved \notin {Env, keychain} => Shown.plaintext # {}
  <2> SUFFICES ASSUME Resolves, Resolved \notin {Env, keychain} PROVE PlaintextIds(file) # {}
    BY DEF Shown
  <2>1. ~denied /\ Env = NoPw /\ keychain = NoPw /\ fallback # NoPw
    BY DEF Resolves, Resolved, KeychainGet
  <2> QED
    BY <1>1, <2>1 DEF Parsed, PlainIn, PlaintextIds
<1> QED
  BY <1>2, <1>3, <1>4, <1>5 DEF WindowIsTrue

\* Between commands, memory and the settings window say what is in the file, the
\* environment and the keychain (get_config, refresh_fallback_from_file).
THEOREM StoreIsTrue ==
  ASSUME Alone
  PROVE  Spec => []StoreInv
<1>1. StoreOrder => StoreInv
  BY WindowFromOrder DEF StoreInv, StoreOrder
<1> QED
  BY <1>1, StoreIsOrdered, PTL

\* What becomes of the file: it stays, or a whole text takes its name.
LEMMA FileStep ==
  ASSUME StoreOrder, Next
  PROVE  file' = file \/ \E w \in Callers : RenamePart(w) /\ file' = cmd[w].body /\ file' \in Text
<1>1. ASSUME NEW w \in Callers, WriteBody(w) PROVE file' = file
  BY <1>1, CommandIsTyped DEF WriteBody, PartIsBody
<1>2. ASSUME NEW w \in Callers, RenamePart(w)
      PROVE  file' = cmd[w].body /\ file' \in Text
  <2>1. cmd[w].body \in Text /\ part = cmd[w].body /\ part # Missing
    BY <1>2, CommandIsTyped, FilesAssumption DEF RenamePart, PartIsBody, Writing
  <2> QED
    BY <1>2, <2>1 DEF RenamePart
<1>3. ASSUME NEW w \in Callers, Save(w) \/ Migrate(w) PROVE file' = file
  BY <1>3 DEF Save, Migrate, StartSave, KeepCredentials, ApplyInMemory, ClearPassword,
     StartMigrate, ReadPlain, MoveToKeychain, Strip, disk
<1>4. ASSUME NEW w \in Callers,
             CreatePart(w) \/ SyncPart(w) \/ DiskError(w) \/ ReadBack(w) \/ SwapFallback(w)
      PROVE  file' = file
  BY <1>4 DEF CreatePart, SyncPart, DiskError, ReadBack, SwapFallback, disk
<1>5. ASSUME (\E p \in Passwords : SetPassword(p)) \/ BuildUploader \/ TurnKeychain \/ Start
      PROVE  file' = file
  BY <1>5 DEF SetPassword, BuildUploader, TurnKeychain, Start, disk
<1> QED
  BY <1>1, <1>2, <1>3, <1>4, <1>5, DieStep DEF Next, Write

\* Nobody finds half a file at the path of gpbeam.toml (atomic_write_string).
THEOREM FileStaysWhole ==
  ASSUME Alone
  PROVE  Spec => ReadersSeeWholeFiles
<1>1. StoreOrder /\ [Next]_vars => (file' = Torn => file = Torn)
  BY FileStep, FilesAssumption DEF vars
<1>2. StoreOrder /\ [Next]_vars => [file' = Torn => file = Torn]_vars
  BY <1>1
<1> QED
  BY <1>2, StoreIsOrdered, PTL DEF Spec, ReadersSeeWholeFiles

\* Only clearing takes the last copy of a password (migrate_plaintext_credentials_impl,
\* write_config_atomic).
THEOREM PasswordsAreKept ==
  ASSUME Alone
  PROVE  Spec => PasswordKept
<1> DEFINE Held == PlainIn(file) # NoPw \/ keychain # NoPw
           Kept == Held /\ PlainIn(file') = NoPw /\ keychain' = NoPw
                     => \E w \in Callers : ClearPassword(w)
<1>1. ASSUME StoreOrder, Next PROVE Kept
  <2> SUFFICES ASSUME Held, \A w \in Callers : ~ClearPassword(w)
               PROVE  PlainIn(file') # NoPw \/ keychain' # NoPw
    OBVIOUS
  <2>1. ASSUME NEW w \in Callers, RenamePart(w), file' = cmd[w].body
        PROVE  PlainIn(file') # NoPw \/ keychain' # NoPw
    <3>1. /\ PartIsBody(w) /\ SaveCarries(w) /\ MigrationMoves(w)
          /\ cmd[w].at = "rename" /\ cmd[w] \in Command /\ keychain' = keychain
      BY <1>1, <2>1, CommandIsTyped DEF RenamePart, outside
    <3>2. CASE cmd[w].op = "save"
      BY <2>1, <3>1, <3>2 DEF PartIsBody, SaveCarries, Writing, PlainIn
    <3>3. CASE cmd[w].op = "migrate"
      BY <3>1, <3>3 DEF MigrationMoves, Writing
    <3> QED
      BY <3>1, <3>2, <3>3 DEF Command
  <2>2. keychain' = keychain \/ keychain' # NoPw
    <3>1. ASSUME NEW w \in Callers, MoveToKeychain(w) PROVE keychain' = keychain \/ keychain' # NoPw
      BY <1>1, <3>1, CommandIsTyped
         DEF MoveToKeychain, KeychainRefuses, KeychainSet, MigrationMoves, SaveCarries, Command
    <3>2. ASSUME NEW p \in Passwords, SetPassword(p) PROVE keychain' # NoPw
      BY <3>2, PasswordsAssumption DEF SetPassword, KeychainSet
    <3>3. ASSUME NEW w \in Callers,
                 Save(w) \/ StartMigrate(w) \/ ReadPlain(w) \/ Strip(w)
          PROVE  keychain' = keychain
      BY <3>3 DEF Save, StartSave, KeepCredentials, ApplyInMemory, StartMigrate, ReadPlain,
         Strip, outside
    <3>4. ASSUME NEW w \in Callers, Write(w) \/ ReadBack(w) \/ SwapFallback(w)
          PROVE  keychain' = keychain
      BY <3>4 DEF Write, CreatePart, WriteBody, SyncPart, RenamePart, DiskError, ReadBack,
         SwapFallback, outside
    <3>5. ASSUME BuildUploader \/ TurnKeychain \/ Start PROVE keychain' = keychain
      BY <3>5 DEF BuildUploader, TurnKeychain, Start, outside
    <3> QED
      BY <1>1, <3>1, <3>2, <3>3, <3>4, <3>5, DieStep DEF Next, Migrate
  <2> QED
    BY <1>1, <2>1, <2>2, FileStep
<1>2. StoreOrder /\ [Next]_vars => [Kept]_vars
  BY <1>1
<1> QED
  BY <1>2, StoreIsOrdered, PTL DEF Spec, PasswordKept

\* An uploader is built with a password that environment, keychain or file hold at that
\* moment (build_uploader over KeyringCredentialStore::get).
THEOREM UploadersUseHeldPasswords ==
  ASSUME Alone
  PROVE  Spec => OnlyHeldPasswordsUsed
<1> DEFINE HeldOnly == used' # used /\ used' # NoPw => used' \in {Env, keychain, PlainIn(file)}
<1>1. ASSUME StoreOrder, Next PROVE HeldOnly
  <2>1. ASSUME BuildUploader PROVE HeldOnly
    <3>1. used' = Resolved /\ up /\ ~denied
      BY <2>1 DEF BuildUploader, Resolves, KeychainGet
    <3>2. CASE Env # NoPw \/ keychain # NoPw
      BY <3>1, <3>2 DEF Resolved, KeychainGet
    <3>3. CASE Env = NoPw /\ keychain = NoPw
      <4>1. \A w \in Callers : cmd[w].op = "migrate" => cmd[w].at \notin Landed
        BY <1>1, <3>3 DEF StoreOrder, MigrationMoves
      <4>2. used' = Parsed(file)
        BY <1>1, <3>1, <3>3, <4>1 DEF StoreOrder, MemoryIsOfFile, Resolved, KeychainGet
      <4> QED
        BY <4>2 DEF Parsed, PlainIn
    <3> QED
      BY <3>2, <3>3
  <2>2. ASSUME NEW w \in Callers, Save(w) \/ Migrate(w) PROVE used' = used
    BY <2>2 DEF Save, StartSave, KeepCredentials, ApplyInMemory, ClearPassword, Migrate,
       StartMigrate, ReadPlain, MoveToKeychain, Strip
  <2>3. ASSUME NEW w \in Callers, Write(w) \/ ReadBack(w) \/ SwapFallback(w) PROVE used' = used
    BY <2>3 DEF Write, CreatePart, WriteBody, SyncPart, RenamePart, DiskError, ReadBack,
       SwapFallback
  <2>4. ASSUME (\E p \in Passwords : SetPassword(p)) \/ TurnKeychain \/ Start PROVE used' = used
    BY <2>4 DEF SetPassword, TurnKeychain, Start
  <2>5. ASSUME Crash \/ PowerLoss PROVE used' = NoPw
    BY <2>5 DEF Crash, PowerLoss, Die
  <2> QED
    BY <1>1, <2>1, <2>2, <2>3, <2>4, <2>5 DEF Next
<1>2. StoreOrder /\ [Next]_vars => [HeldOnly]_vars
  BY <1>1
<1> QED
  BY <1>2, StoreIsOrdered, PTL DEF Spec, OnlyHeldPasswordsUsed

\* Only its own steps end a command, unless the app dies.
LEMMA OwnStepEnds ==
  ASSUME Alone, StoreOrder, Next, NEW w \in Callers, ~Resting(w), Resting(w)', up'
  PROVE  \/ ReadPlain(w) \/ MoveToKeychain(w) \/ Strip(w) \/ RenamePart(w) \/ DiskError(w)
         \/ SwapFallback(w) \/ ApplyInMemory(w) \/ ClearPassword(w)
<1> DEFINE Own(u) ==
      \/ KeepCredentials(u) \/ ReadPlain(u) \/ MoveToKeychain(u) \/ Strip(u) \/ Write(u)
      \/ ReadBack(u) \/ SwapFallback(u) \/ ApplyInMemory(u) \/ ClearPassword(u)
<1>1. ~Quiet /\ cmd \in [Callers -> Command]
  BY DEF Quiet, StoreOrder, TypeOK
<1>2. PICK u \in Callers : Own(u)
  <2>1. ASSUME NEW u \in Callers PROVE (\A v \in Views : ~StartSave(u, v)) /\ ~StartMigrate(u)
    BY <1>1 DEF StartSave, StartMigrate, MayStart, Alone
  <2>2. cmd' # cmd
    BY DEF Resting
  <2>3. ~BuildUploader /\ ~TurnKeychain /\ ~Start /\ \A p \in Passwords : ~SetPassword(p)
    BY <2>2 DEF BuildUploader, TurnKeychain, Start, SetPassword
  <2>4. ~Crash /\ ~PowerLoss
    BY DieStep
  <2> QED
    BY <2>1, <2>3, <2>4 DEF Next, Save, Migrate
<1>3. ~Resting(u)
  BY <1>2 DEF Resting, KeepCredentials, ReadPlain, MoveToKeychain, Strip, Write, CreatePart,
     WriteBody, SyncPart, RenamePart, DiskError, ReadBack, SwapFallback, ApplyInMemory,
     ClearPassword
<1>4. u = w
  BY <1>3 DEF StoreOrder, OneAtATime
<1>5. ~KeepCredentials(w) /\ ~CreatePart(w) /\ ~WriteBody(w) /\ ~SyncPart(w) /\ ~ReadBack(w)
  <2>1. cmd[w] \in Command
    BY <1>1
  <2> QED
    BY <1>1, <2>1 DEF Resting, KeepCredentials, CreatePart, WriteBody, SyncPart, ReadBack,
       Goto, Command
<1> QED
  BY <1>2, <1>4, <1>5 DEF Write

\* What a command says of itself is so (save_config, migrate_plaintext_credentials).
THEOREM ResultsHold ==
  ASSUME Alone
  PROVE  Spec => ResultsAreTrue
<1> DEFINE Told(w) ==
      up' /\ ~Resting(w) /\ Resting(w)' =>
        CASE cmd[w]'.ret = "err" /\ cmd[w].at # "clear" -> Runtime(Loaded(file')) = runtime'
          [] cmd[w]'.ret = "ok" /\ cmd[w].op = "migrate" -> PlainIn(file') = NoPw
          [] cmd[w]'.ret = "ok" /\ cmd[w].op = "save" ->
               Loaded(file').dest = IF EnvDest THEN Bootstrap ELSE cmd[w].cfg.dest
          [] OTHER -> TRUE
<1>1. ASSUME StoreOrder, Next, NEW w \in Callers, up', ~Resting(w), Resting(w)'
      PROVE  Told(w)
  <2>1. \/ ReadPlain(w) \/ MoveToKeychain(w) \/ Strip(w) \/ RenamePart(w) \/ DiskError(w)
        \/ SwapFallback(w) \/ ApplyInMemory(w) \/ ClearPassword(w)
    BY <1>1, OwnStepEnds
  <2>2. /\ cmd[w] \in Command /\ cmd \in [Callers -> Command]
        /\ SaveCarries(w) /\ MigrationMoves(w)
    BY <1>1 DEF StoreOrder, TypeOK
  <2>3. /\ Idle("err").ret = "err" /\ Idle("ok").ret = "ok"
        /\ Idle("err").at = "idle" /\ Idle("ok").at = "idle"
    BY IdleIsCommand
  <2>4. Runtime(Loaded(file')) = runtime'
    <3>1. \A u \in Callers \ {w} : cmd[u].at = "idle" /\ cmd'[u] = cmd[u]
      BY <1>1, <2>1, <2>2, OthersRest
         DEF ReadPlain, MoveToKeychain, Strip, RenamePart, DiskError, SwapFallback,
             ApplyInMemory, ClearPassword, Goto, Finish
    <3>2. \A u \in Callers : cmd'[u].at = "idle"
      BY <1>1, <3>1 DEF Resting
    <3>3. MemoryIsOfFile'
      BY <1>1, NextStored DEF StoreOrder
    <3> QED
      BY <1>1, <3>2, <3>3 DEF MemoryIsOfFile, Landed
  <2>5. cmd'[w].ret = "ok" => SwapFallback(w) \/ ApplyInMemory(w) \/ ClearPassword(w)
    <3>1. ~(cmd'[w].at = "idle" /\ cmd'[w].ret = "ok") \/ ~ReadPlain(w)
      BY <2>2, <2>3 DEF ReadPlain, Finish, Command
    <3>2. ~(cmd'[w].at = "idle" /\ cmd'[w].ret = "ok") \/ ~MoveToKeychain(w)
      BY <2>2, <2>3 DEF MoveToKeychain, Finish, Goto, Command
    <3>3. ~(cmd'[w].at = "idle" /\ cmd'[w].ret = "ok") \/ ~Strip(w)
      <4> SUFFICES ASSUME Strip(w) PROVE cmd'[w].at # "idle" \/ cmd'[w].ret = "err"
        BY <2>3
      <4>1. CASE file = Missing
        BY <2>2, <4>1, FilesAssumption DEF Strip, Command
      <4>2. CASE file = Torn
        BY <2>2, <2>3, <4>2, FilesAssumption DEF Strip
      <4>3. CASE file # Missing /\ file # Torn
        BY <2>2, <4>3 DEF Strip, Command
      <4> QED
        BY <4>1, <4>2, <4>3
    <3>4. ~(cmd'[w].at = "idle" /\ cmd'[w].ret = "ok") \/ ~RenamePart(w)
      BY <2>2, <2>3 DEF RenamePart, Finish, Goto, Command
    <3>5. ~(cmd'[w].at = "idle" /\ cmd'[w].ret = "ok") \/ ~DiskError(w)
      BY <2>2, <2>3 DEF DiskError, Finish
    <3> QED
      BY <1>1, <2>1, <3>1, <3>2, <3>3, <3>4, <3>5 DEF Resting
  <2>6. ASSUME cmd'[w].ret = "ok", cmd[w].op = "migrate" PROVE PlainIn(file') = NoPw
    <3>1. SwapFallback(w)
      BY <2>2, <2>6, <2>5 DEF ApplyInMemory, ClearPassword, MigrationMoves
    <3> QED
      BY <2>2, <2>6, <3>1 DEF SwapFallback, MigrationMoves, Landed, disk
  <2>7. ASSUME cmd'[w].ret = "ok", cmd[w].op = "save"
        PROVE  Loaded(file').dest = IF EnvDest THEN Bootstrap ELSE cmd[w].cfg.dest
    <3>1. ApplyInMemory(w) \/ ClearPassword(w)
      <4>1. ~SwapFallback(w)
        BY <1>1, <2>2, <2>7 DEF SwapFallback, Goto, Resting, Command
      <4> QED
        BY <2>7, <2>5, <4>1
    <3>2. file' = file /\ file \in Text /\ file.cfg = cmd[w].cfg /\ cmd[w].cfg.dest # ""
      BY <2>2, <2>7, <3>1 DEF ApplyInMemory, ClearPassword, SaveCarries, Landed, disk
    <3>3. [file.cfg EXCEPT !.dest = Bootstrap].dest = Bootstrap
      BY <2>2, <3>2 DEF Command, Configs
    <3> QED
      BY <3>2, <3>3 DEF Loaded
  <2> QED
    BY <2>4, <2>6, <2>7
<1>2. StoreOrder /\ [Next]_vars => [\A w \in Callers : Told(w)]_vars
  BY <1>1
<1> QED
  BY <1>2, StoreIsOrdered, PTL DEF Spec, ResultsAreTrue

-----------------------------------------------------------------------------
(* The command line: the inductive invariant.  It is stated of a process   *)
(* and what the process shares, so that a step shows it of who moves.      *)

Runs == {"offload", "watch"}
Drains == Runs \cup {"mirror"}

\* Where each kind of command can be.
OnItsWay(q) ==
  /\ q.at \in {"scan", "copy", "eject"} => q.cmd \in Runs
  /\ q.at \in {"build", "lock", "drain", "unlock"} => q.cmd \in Drains
  /\ q.at \in {"requeue", "list"} => q.cmd \notin Drains

\* A drain has the lock, and so has a command that opens the ledger for its drain.
HasLock(p, q, holder) ==
  /\ q.at \in {"drain", "unlock"} => holder = p
  /\ q.at \in {"open", "migrate"} /\ (q.cmd = "mirror" \/ q.ejected) => holder = p

\* Who has ejected the card has only the drain before it, and nothing to delete after it.
EjectsLast(q) ==
  q.ejected =>
    /\ q.cmd \in Runs
    /\ q.at \in {"build", "lock", "open", "migrate", "drain", "unlock"}
    /\ q.at # "build" => q.conf.mode = "Auto"
    /\ ~(q.conf.delete /\ q.conf.mode = "Auto")

\* What the scan found is imported, in the plan or counted as failed.
Accounts(q, done) ==
  /\ q.owed \subseteq done \cup q.plan \cup q.lost
  /\ q.plan # {} => q.at = "copy"
  /\ q.lost # {} => q.failed + q.gaveUp # 0
  /\ q.cmd \notin Drains => q.owed = {} /\ q.lost = {}

\* A migration that is under way is not ahead of the ledger.
NotAhead(q, version) == q.at = "migrate" => q.seen <= version

InOrder(p, q, holder, done, version) ==
  /\ OnItsWay(q)
  /\ HasLock(p, q, holder)
  /\ EjectsLast(q)
  /\ Accounts(q, done)
  /\ NotAhead(q, version)

\* The ledger has what the migrations up to its version create, and nothing else.
SchemaIsMade == schema.tables = UNION {Creates[i] : i \in 1..schema.version}

CommandOrder ==
  /\ CommandTypes
  /\ SchemaIsMade
  /\ \A p \in Procs : InOrder(p, proc[p], lock, imported, schema.version)

-----------------------------------------------------------------------------
(* One process moves.                                                      *)

LEMMA MoveOne ==
  ASSUME CommandOrder, NEW p \in Procs, NEW q \in Proc, proc' = [proc EXCEPT ![p] = q],
         InOrder(p, q, lock', imported', schema'.version),
         dest' \in BOOLEAN, mounted' \in BOOLEAN, card' \subseteq Files, jobs' \in Seq(Job),
         count' \in [commands : 0..MaxCommands, faults : 0..MaxMishaps, mounts : 0..MaxMounts],
         schema' \in [version : 0..3, tables : SUBSET UNION Range(Creates)],
         schema.version <= schema'.version, SchemaIsMade',
         imported \subseteq imported', imported' \subseteq Files,
         lock' \in Procs \cup {"app", None},
         \A r \in Procs \ {p} : lock = r => lock' = r
  PROVE  CommandOrder'
<1>1. proc' \in [Procs -> Proc] BY DEF CommandOrder, CommandTypes
<1>2. CommandTypes' BY <1>1 DEF CommandTypes
<1>3. ASSUME NEW r \in Procs PROVE InOrder(r, proc'[r], lock', imported', schema'.version)
  <2>1. CASE r = p
    <3>1. proc'[p] = q BY DEF CommandOrder, CommandTypes
    <3> QED BY <2>1, <3>1
  <2>2. CASE r # p
    <3>1. proc'[r] = proc[r] /\ proc[r] \in Proc BY <2>2 DEF CommandOrder, CommandTypes
    <3>2. InOrder(r, proc[r], lock, imported, schema.version) BY DEF CommandOrder
    <3>3. lock = r => lock' = r BY <2>2
    <3>4. OnItsWay(proc[r]) /\ EjectsLast(proc[r]) BY <3>2 DEF InOrder
    <3>5. HasLock(r, proc[r], lock') BY <3>2, <3>3 DEF InOrder, HasLock
    <3>6. Accounts(proc[r], imported') BY <3>2 DEF InOrder, Accounts
    <3>7. NotAhead(proc[r], schema'.version)
      <4>1. proc[r].seen \in 0..3 BY <3>1 DEF Proc
      <4>2. schema.version \in 0..3 /\ schema'.version \in 0..3 BY DEF CommandOrder, CommandTypes
      <4> QED BY <3>2, <4>1, <4>2 DEF InOrder, NotAhead
    <3> QED BY <3>1, <3>4, <3>5, <3>6, <3>7 DEF InOrder
  <2> QED BY <2>1, <2>2
<1> QED BY <1>2, <1>3 DEF CommandOrder

\* A step that leaves the ledger's rows alone, and the lock to the others.
LEMMA MoveAlone ==
  ASSUME CommandOrder, NEW p \in Procs, NEW q \in Proc, proc' = [proc EXCEPT ![p] = q],
         InOrder(p, q, lock', imported, schema.version), UNCHANGED <<ledger, card>>,
         dest' \in BOOLEAN, mounted' \in BOOLEAN,
         count' \in [commands : 0..MaxCommands, faults : 0..MaxMishaps, mounts : 0..MaxMounts],
         lock' \in Procs \cup {"app", None},
         \A r \in Procs \ {p} : lock = r => lock' = r
  PROVE  CommandOrder'
<1>1. UNCHANGED <<schema, imported, jobs>> BY DEF ledger
<1>2. CommandTypes /\ SchemaIsMade BY DEF CommandOrder
<1>3. SchemaIsMade' BY <1>1, <1>2 DEF SchemaIsMade
<1>4. /\ card' \subseteq Files /\ jobs' \in Seq(Job)
      /\ schema' \in [version : 0..3, tables : SUBSET UNION Range(Creates)]
      /\ schema.version <= schema'.version
      /\ imported \subseteq imported' /\ imported' \subseteq Files
  BY <1>1, <1>2 DEF CommandTypes
<1> QED BY <1>1, <1>3, <1>4, MoveOne

LEMMA FaultIsCounted ==
  ASSUME CommandTypes, Fault
  PROVE  count' \in [commands : 0..MaxCommands, faults : 0..MaxMishaps, mounts : 0..MaxMounts]
BY CommandAssumption DEF CommandTypes, Fault

LEMMA Relocated ==
  ASSUME NEW q \in Proc, NEW s \in Step
  PROVE  LET m == [q EXCEPT !.at = s] IN
         /\ m \in Proc /\ m.at = s /\ m.cmd = q.cmd /\ m.conf = q.conf /\ m.plan = q.plan
         /\ m.failed = q.failed /\ m.gaveUp = q.gaveUp /\ m.owed = q.owed /\ m.lost = q.lost
         /\ m.ejected = q.ejected /\ m.seen = q.seen
BY DEF Proc

LEMMA OffIsProc == Off \in Proc
BY DEF Off, Proc, Step, NoConf, Conf, Arity, SafetyFlags

\* Who has ended is in order, whoever holds the lock and whatever is imported.
LEMMA EndedInOrder ==
  ASSUME NEW p, NEW q \in Proc, NEW code \in 0..2, NEW holder, NEW done, NEW version
  PROVE  /\ Ended(q, code) \in Proc
         /\ InOrder(p, Ended(q, code), holder, done, version)
         /\ Ended(q, code).at = "off" => Ended(q, code).code = code
<1>1. /\ q.cmd \in DOMAIN Arity \cup {"version", "usage"} /\ q.flags \in SUBSET SafetyFlags
      /\ q.named \in BOOLEAN
  BY DEF Proc
<1>2. CASE q.cmd = "watch"
  <2>1. Ended(q, code) = [Off EXCEPT !.at = "wait", !.cmd = q.cmd, !.flags = q.flags, !.named = q.named]
    BY <1>2 DEF Ended
  <2> DEFINE e == [Off EXCEPT !.at = "wait", !.cmd = q.cmd, !.flags = q.flags, !.named = q.named]
  <2>2. e \in Proc BY <1>1, OffIsProc DEF Proc, Step
  <2>3. e.at = "wait" /\ e.plan = {} /\ e.owed = {} /\ e.lost = {} /\ e.ejected = FALSE
    BY DEF Off
  <2> HIDE DEF e
  <2>4. InOrder(p, e, holder, done, version)
    BY <2>3 DEF InOrder, OnItsWay, HasLock, EjectsLast, Accounts, NotAhead
  <2> QED BY <2>1, <2>2, <2>3, <2>4 DEF e
<1>3. CASE q.cmd # "watch"
  <2>1. Ended(q, code) = [Off EXCEPT !.code = code] BY <1>3 DEF Ended
  <2> DEFINE e == [Off EXCEPT !.code = code]
  <2>2. e \in Proc BY <1>1, OffIsProc DEF Proc
  <2>3. e.at = "off" /\ e.plan = {} /\ e.owed = {} /\ e.lost = {} /\ e.ejected = FALSE /\ e.code = code
    BY DEF Off
  <2> HIDE DEF e
  <2>4. InOrder(p, e, holder, done, version)
    BY <2>3 DEF InOrder, OnItsWay, HasLock, EjectsLast, Accounts, NotAhead
  <2> QED BY <2>1, <2>2, <2>3, <2>4 DEF e
<1> QED BY <1>2, <1>3

\* A command may end at any point, whether it lets go of the lock or not.
LEMMA EndStep ==
  ASSUME CommandOrder, NEW p \in Procs, NEW code \in 0..2, End(p, code),
         UNCHANGED <<ledger, card>>, dest' \in BOOLEAN, mounted' \in BOOLEAN,
         count' \in [commands : 0..MaxCommands, faults : 0..MaxMishaps, mounts : 0..MaxMounts],
         lock' = lock \/ (lock = p /\ lock' = None)
  PROVE  CommandOrder'
<1> DEFINE e == Ended(proc[p], code)
<1>1. proc[p] \in Proc /\ lock \in Procs \cup {"app", None} BY DEF CommandOrder, CommandTypes
<1>2. e \in Proc /\ InOrder(p, e, lock', imported, schema.version) BY <1>1, EndedInOrder
<1>3. proc' = [proc EXCEPT ![p] = e] BY DEF End
<1>4. lock' \in Procs \cup {"app", None} /\ \A r \in Procs \ {p} : lock = r => lock' = r BY <1>1
<1> HIDE DEF e
<1> QED BY <1>2, <1>3, <1>4, MoveAlone

\* A process that only goes on to its next step.
LEMMA MoveToStep ==
  ASSUME CommandOrder, NEW p \in Procs, NEW s \in Step, MoveTo(p, s),
         InOrder(p, [proc[p] EXCEPT !.at = s], lock', imported, schema.version),
         UNCHANGED <<ledger, card>>, dest' \in BOOLEAN, mounted' \in BOOLEAN,
         count' \in [commands : 0..MaxCommands, faults : 0..MaxMishaps, mounts : 0..MaxMounts],
         lock' = lock \/ (lock = None /\ lock' = p)
  PROVE  CommandOrder'
<1> DEFINE m == [proc[p] EXCEPT !.at = s]
<1>1. proc[p] \in Proc /\ lock \in Procs \cup {"app", None} BY DEF CommandOrder, CommandTypes
<1>2. m \in Proc BY <1>1, Relocated
<1>3. proc' = [proc EXCEPT ![p] = m] BY DEF MoveTo
<1>4. lock' \in Procs \cup {"app", None} /\ \A r \in Procs \ {p} : lock = r => lock' = r
  BY <1>1, CommandAssumption
<1> HIDE DEF m
<1>5. InOrder(p, m, lock', imported, schema.version) BY DEF m
<1> QED BY <1>2, <1>3, <1>4, <1>5, MoveAlone

LEMMA ProcessIs ==
  ASSUME CommandOrder, NEW p \in Procs
  PROVE  /\ proc[p] \in Proc /\ InOrder(p, proc[p], lock, imported, schema.version)
         /\ dest \in BOOLEAN /\ mounted \in BOOLEAN
         /\ count \in [commands : 0..MaxCommands, faults : 0..MaxMishaps, mounts : 0..MaxMounts]
BY DEF CommandOrder, CommandTypes

-----------------------------------------------------------------------------
(* Each step keeps it.                                                     *)

LEMMA CommandInitOrdered == CommandInit => CommandOrder
<1> SUFFICES ASSUME CommandInit PROVE CommandOrder
  OBVIOUS
<1>1. proc \in [Procs -> Proc] BY OffIsProc DEF CommandInit
<1>2. <<>> \in Seq(Job) OBVIOUS
<1>3. CommandTypes
  BY <1>1, <1>2, CommandAssumption DEF CommandTypes, CommandInit
<1>4. SchemaIsMade
  <2>1. 1..0 = {} OBVIOUS
  <2>2. schema.version = 0 /\ schema.tables = {} BY DEF CommandInit
  <2> QED BY <2>1, <2>2 DEF SchemaIsMade
<1>5. ASSUME NEW p \in Procs PROVE InOrder(p, proc[p], lock, imported, schema.version)
  <2>1. proc[p] = Off BY DEF CommandInit
  <2>2. Off.at = "off" /\ Off.plan = {} /\ Off.owed = {} /\ Off.lost = {} /\ Off.ejected = FALSE
    BY DEF Off
  <2> QED BY <2>1, <2>2 DEF InOrder, OnItsWay, HasLock, EjectsLast, Accounts, NotAhead
<1> QED BY <1>3, <1>4, <1>5 DEF CommandOrder

LEMMA StartCommandStep ==
  ASSUME CommandOrder, NEW p \in Procs, NEW argv, StartCommand(p, argv)
  PROVE  CommandOrder'
<1> DEFINE name == CommandOf(argv)
           split == SplitConfig(argv)
           first == CASE name = "offload" -> "dest"
                      [] name = "watch" -> "wait"
                      [] name = "mirror" -> "config"
                      [] name \in {"mirror-status", "retry-cloud"} -> "open"
                      [] OTHER -> "off"
           flags == Flags(split.rest)
           named == split.config # None
           code == IF name = "usage" THEN 2 ELSE 0
           q == [Off EXCEPT !.at = first, !.cmd = IF first = "off" THEN @ ELSE name,
                            !.flags = flags, !.named = named, !.code = code]
<1>1. proc' = [proc EXCEPT ![p] = q] BY DEF StartCommand
<1>2. name \in DOMAIN Arity \cup {"version", "usage"}
  BY DEF CommandOf
<1>3. flags \in SUBSET SafetyFlags /\ named \in BOOLEAN BY DEF Flags
<1>4. code \in 0..2 OBVIOUS
<1>5. first \in {"dest", "wait", "config", "open", "off"} /\ (first = "open" => name \notin Drains)
  BY DEF Drains, Runs
<1> HIDE DEF name, split, flags, named, code
<1>6. q \in Proc BY <1>2, <1>3, <1>4, <1>5, OffIsProc DEF Proc, Step
<1>7. /\ q.at = first /\ q.plan = {} /\ q.owed = {} /\ q.lost = {} /\ q.ejected = FALSE
      /\ q.at = "open" => q.cmd \notin Drains
  BY <1>5 DEF Off
<1> HIDE DEF q, first
<1>8. InOrder(p, q, lock', imported, schema.version)
  BY <1>5, <1>7 DEF InOrder, OnItsWay, HasLock, EjectsLast, Accounts, NotAhead, Drains
<1>9. count' \in [commands : 0..MaxCommands, faults : 0..MaxMishaps, mounts : 0..MaxMounts]
  BY CommandAssumption DEF StartCommand, CommandOrder, CommandTypes
<1>10. UNCHANGED <<ledger, card, dest, mounted, lock>> BY DEF StartCommand, media
<1>11. dest' \in BOOLEAN /\ mounted' \in BOOLEAN /\ lock' \in Procs \cup {"app", None}
  BY <1>10 DEF CommandOrder, CommandTypes
<1> QED BY <1>1, <1>6, <1>8, <1>9, <1>10, <1>11, MoveAlone

LEMMA WatchStep ==
  ASSUME CommandOrder, NEW p \in Procs, Watch(p)
  PROVE  CommandOrder'
<1> DEFINE m == [proc[p] EXCEPT !.at = "dest"]
<1>1. "dest" \in Step BY DEF Step
<1>2. InOrder(p, m, lock, imported, schema.version)
  <2>1. proc[p] \in Proc BY ProcessIs
  <2>2. /\ m.at = "dest" /\ m.cmd = proc[p].cmd /\ m.plan = proc[p].plan /\ m.owed = proc[p].owed
        /\ m.lost = proc[p].lost /\ m.ejected = proc[p].ejected /\ m.failed = proc[p].failed
        /\ m.gaveUp = proc[p].gaveUp
    BY <1>1, <2>1, Relocated
  <2>3. proc[p].at = "wait" BY DEF Watch
  <2> HIDE DEF m
  <2> QED BY <2>2, <2>3, ProcessIs DEF InOrder, OnItsWay, HasLock, EjectsLast, Accounts, NotAhead
<1>3. count' \in [commands : 0..MaxCommands, faults : 0..MaxMishaps, mounts : 0..MaxMounts]
  BY CommandAssumption, ProcessIs DEF Watch
<1>4. UNCHANGED <<ledger, card, dest, lock>> /\ mounted' \in BOOLEAN /\ MoveTo(p, "dest")
  BY DEF Watch
<1>5. dest' \in BOOLEAN /\ lock' = lock BY <1>4, ProcessIs
<1> HIDE DEF m
<1>6. InOrder(p, [proc[p] EXCEPT !.at = "dest"], lock', imported, schema.version)
  BY <1>2, <1>5 DEF m
<1> QED BY <1>1, <1>3, <1>4, <1>5, <1>6, MoveToStep

\* A step from one place to another with nothing else about the process changed.
LEMMA MovesOn ==
  ASSUME CommandOrder, NEW p \in Procs, NEW s \in Step, MoveTo(p, s),
         proc[p].plan = {},
         proc[p].ejected => s \in {"open", "migrate", "drain", "unlock", "lock"},
         proc[p].ejected /\ proc[p].at \in {"build", "eject"} => proc[p].conf.mode = "Auto",
         s \in {"scan", "copy", "eject"} => proc[p].cmd \in Runs,
         s \in {"build", "lock", "drain", "unlock"} => proc[p].cmd \in Drains,
         s \in {"requeue", "list"} => proc[p].cmd \notin Drains,
         s \in {"drain", "unlock"} => lock' = p,
         s \in {"open", "migrate"} /\ (proc[p].cmd = "mirror" \/ proc[p].ejected) => lock' = p,
         s # "migrate",
         UNCHANGED <<ledger, card>>, dest' \in BOOLEAN, mounted' \in BOOLEAN,
         count' \in [commands : 0..MaxCommands, faults : 0..MaxMishaps, mounts : 0..MaxMounts],
         lock' = lock \/ (lock = None /\ lock' = p)
  PROVE  CommandOrder'
<1> DEFINE m == [proc[p] EXCEPT !.at = s]
<1>1. proc[p] \in Proc /\ InOrder(p, proc[p], lock, imported, schema.version) BY ProcessIs
<1>2. /\ m.at = s /\ m.cmd = proc[p].cmd /\ m.conf = proc[p].conf /\ m.plan = proc[p].plan
      /\ m.failed = proc[p].failed /\ m.gaveUp = proc[p].gaveUp /\ m.owed = proc[p].owed
      /\ m.lost = proc[p].lost /\ m.ejected = proc[p].ejected
  BY <1>1, Relocated
<1> HIDE DEF m
<1>3. OnItsWay(m) BY <1>2 DEF OnItsWay
<1>4. HasLock(p, m, lock') BY <1>2 DEF HasLock
<1>5. EjectsLast(m) BY <1>1, <1>2 DEF InOrder, EjectsLast
<1>6. Accounts(m, imported) BY <1>1, <1>2 DEF InOrder, Accounts
<1>7. NotAhead(m, schema.version) BY <1>2 DEF NotAhead
<1>8. InOrder(p, m, lock', imported, schema.version) BY <1>3, <1>4, <1>5, <1>6, <1>7 DEF InOrder
<1>9. InOrder(p, [proc[p] EXCEPT !.at = s], lock', imported, schema.version) BY <1>8 DEF m
<1> QED BY <1>9, MoveToStep

\* What is not copying has no plan, and what is before its drain has ejected nothing.
LEMMA NothingYet ==
  ASSUME CommandOrder, NEW p \in Procs
  PROVE  /\ proc[p].at # "copy" => proc[p].plan = {}
         /\ proc[p].ejected => proc[p].at \in {"build", "lock", "open", "migrate", "drain", "unlock"}
BY ProcessIs DEF InOrder, Accounts, EjectsLast

LEMMA MakeDestStep ==
  ASSUME CommandOrder, NEW p \in Procs, MakeDest(p)
  PROVE  CommandOrder'
<1>1. UNCHANGED <<ledger, card, mounted, lock>> /\ proc[p].at = "dest" BY DEF MakeDest, media
<1>2. mounted' \in BOOLEAN /\ dest' \in BOOLEAN BY <1>1, ProcessIs DEF MakeDest
<1>3. CASE MoveTo(p, "config") /\ UNCHANGED count
  <2>1. "config" \in Step BY DEF Step
  <2>2. count' \in [commands : 0..MaxCommands, faults : 0..MaxMishaps, mounts : 0..MaxMounts]
    BY <1>3, ProcessIs
  <2> QED BY <1>1, <1>2, <1>3, <2>1, <2>2, NothingYet, MovesOn
<1>4. CASE Fault /\ End(p, 1)
  <2>1. count' \in [commands : 0..MaxCommands, faults : 0..MaxMishaps, mounts : 0..MaxMounts]
    BY <1>4, FaultIsCounted DEF CommandOrder
  <2> QED BY <1>1, <1>2, <1>4, <2>1, EndStep
<1> QED BY <1>3, <1>4 DEF MakeDest

LEMMA LoadConfigStep ==
  ASSUME CommandOrder, NEW p \in Procs, LoadConfig(p)
  PROVE  CommandOrder'
<1>1. UNCHANGED <<ledger, card, dest, mounted, lock, count>> /\ proc[p].at = "config"
  BY DEF LoadConfig, media
<1>2. /\ dest' \in BOOLEAN /\ mounted' \in BOOLEAN /\ lock' \in Procs \cup {"app", None}
      /\ count' \in [commands : 0..MaxCommands, faults : 0..MaxMishaps, mounts : 0..MaxMounts]
  BY <1>1, ProcessIs DEF CommandOrder, CommandTypes
<1>3. PICK text \in IF proc[p].named THEN Texts ELSE {NoConf} :
        LET conf == Overridden(text, proc[p].flags)
            mirror == proc[p].cmd = "mirror" IN
        IF ~text.valid \/ (mirror /\ text.mode = "none") THEN End(p, 1)
        ELSE proc' = [proc EXCEPT ![p].at = IF mirror THEN "build" ELSE "open",
                                  ![p].conf = conf]
  BY DEF LoadConfig
<1>4. CASE End(p, 1)
  BY <1>1, <1>2, <1>4, EndStep
<1>5. CASE ~End(p, 1)
  <2> DEFINE conf == Overridden(text, proc[p].flags)
             s == IF proc[p].cmd = "mirror" THEN "build" ELSE "open"
             q == [proc[p] EXCEPT !.at = s, !.conf = conf]
  <2>1. text \in Conf
    <3>1. NoConf \in Conf BY DEF NoConf, Conf
    <3> QED BY <3>1, CommandAssumption
  <2>2. conf \in Conf BY <2>1 DEF Overridden, Conf
  <2>3. proc' = [proc EXCEPT ![p] = q] BY <1>3, <1>5
  <2>4. proc[p] \in Proc /\ InOrder(p, proc[p], lock, imported, schema.version) BY ProcessIs
  <2> HIDE DEF conf
  <2>5. q \in Proc BY <2>2, <2>4 DEF Proc, Step
  <2>6. /\ q.at = s /\ q.cmd = proc[p].cmd /\ q.plan = proc[p].plan
        /\ q.failed = proc[p].failed /\ q.gaveUp = proc[p].gaveUp /\ q.owed = proc[p].owed
        /\ q.lost = proc[p].lost /\ q.ejected = proc[p].ejected
    BY <2>4 DEF Proc
  <2> HIDE DEF q
  <2>7. proc[p].plan = {} /\ ~proc[p].ejected BY <1>1, NothingYet, <2>4 DEF Proc
  <2>8. InOrder(p, q, lock', imported, schema.version)
    <3>1. Accounts(q, imported) BY <2>4, <2>6, <2>7 DEF InOrder, Accounts
    <3>2. OnItsWay(q) /\ HasLock(p, q, lock') /\ EjectsLast(q) /\ NotAhead(q, schema.version)
      BY <2>6, <2>7 DEF OnItsWay, HasLock, EjectsLast, NotAhead, Drains
    <3> QED BY <3>1, <3>2 DEF InOrder
  <2> HIDE DEF s
  <2> QED BY <1>1, <1>2, <2>3, <2>5, <2>8, MoveAlone
<1> QED BY <1>4, <1>5

LEMMA ReadVersionStep ==
  ASSUME CommandOrder, NEW p \in Procs, ReadVersion(p)
  PROVE  CommandOrder'
<1>1. UNCHANGED <<ledger, card, dest, mounted, lock, count>> /\ proc[p].at = "open"
  BY DEF ReadVersion, media
<1>2. /\ dest' \in BOOLEAN /\ mounted' \in BOOLEAN /\ lock' \in Procs \cup {"app", None}
      /\ count' \in [commands : 0..MaxCommands, faults : 0..MaxMishaps, mounts : 0..MaxMounts]
  BY <1>1, ProcessIs DEF CommandOrder, CommandTypes
<1>3. CASE ~dest
  BY <1>1, <1>2, <1>3, EndStep DEF ReadVersion
<1>4. CASE dest
  <2> DEFINE q == [proc[p] EXCEPT !.at = "migrate", !.seen = schema.version]
  <2>1. proc' = [proc EXCEPT ![p] = q] BY <1>4 DEF ReadVersion
  <2>2. proc[p] \in Proc /\ InOrder(p, proc[p], lock, imported, schema.version) BY ProcessIs
  <2>3. schema.version \in 0..3 BY DEF CommandOrder, CommandTypes
  <2>4. q \in Proc BY <2>2, <2>3 DEF Proc, Step
  <2>5. /\ q.at = "migrate" /\ q.cmd = proc[p].cmd /\ q.plan = proc[p].plan /\ q.conf = proc[p].conf
        /\ q.failed = proc[p].failed /\ q.gaveUp = proc[p].gaveUp /\ q.owed = proc[p].owed
        /\ q.lost = proc[p].lost /\ q.ejected = proc[p].ejected /\ q.seen = schema.version
    BY <2>2 DEF Proc
  <2> HIDE DEF q
  <2>6. InOrder(p, q, lock', imported, schema.version)
    <3>1. Accounts(q, imported) BY <1>1, <2>2, <2>5 DEF InOrder, Accounts
    <3>2. EjectsLast(q) /\ HasLock(p, q, lock') BY <1>1, <2>2, <2>5 DEF InOrder, EjectsLast, HasLock
    <3>3. NotAhead(q, schema.version) BY <2>3, <2>5 DEF NotAhead
    <3>4. OnItsWay(q) BY <2>5 DEF OnItsWay
    <3> QED BY <3>1, <3>2, <3>3, <3>4 DEF InOrder
  <2> QED BY <1>1, <1>2, <2>1, <2>4, <2>6, MoveAlone
<1> QED BY <1>3, <1>4

\* What the migrations create does not overlap.
LEMMA MigrationsAreApart ==
  ASSUME SchemaIsMade, schema.version \in 0..3, NEW n \in 1..3
  PROVE  /\ Creates[n] \cap schema.tables # {} <=> n <= schema.version
         /\ Creates[n] \in SUBSET UNION Range(Creates)
         /\ UNION {Creates[i] : i \in 1..n} = (UNION {Creates[i] : i \in 1..(n - 1)}) \cup Creates[n]
<1>1. /\ Creates[1] = {"imported"} /\ Creates[2] = {"cloud_status", "cloud_jobs"}
      /\ Creates[3] = {"camera_delete_pending"} /\ DOMAIN Creates = 1..3
  BY DEF Creates
<1>2. \A i, j \in 1..3 : i # j => Creates[i] \cap Creates[j] = {}
  <2>1. \A i \in 1..3 : i = 1 \/ i = 2 \/ i = 3 OBVIOUS
  <2> QED BY <1>1, <2>1
<1>3. Creates[n] # {}
  <2>1. n = 1 \/ n = 2 \/ n = 3 OBVIOUS
  <2> QED BY <1>1, <2>1
<1>4. ASSUME n <= schema.version PROVE Creates[n] \cap schema.tables # {}
  <2>1. n \in 1..schema.version BY <1>4
  <2> QED BY <1>3, <2>1 DEF SchemaIsMade
<1>5. ASSUME ~(n <= schema.version) PROVE Creates[n] \cap schema.tables = {}
  <2>1. \A i \in 1..schema.version : i \in 1..3 /\ i # n BY <1>5
  <2> QED BY <1>2, <2>1 DEF SchemaIsMade
<1>6. Creates[n] \in SUBSET UNION Range(Creates) BY <1>1 DEF Range
<1>7. UNION {Creates[i] : i \in 1..n} = (UNION {Creates[i] : i \in 1..(n - 1)}) \cup Creates[n]
  <2>1. 1..n = 1..(n - 1) \cup {n} OBVIOUS
  <2> QED BY <2>1
<1>8. Creates[n] \cap schema.tables # {} <=> n <= schema.version BY <1>4, <1>5
<1> QED BY <1>6, <1>7, <1>8

LEMMA ApplyMigrationStep ==
  ASSUME CommandOrder, NEW p \in Procs, ApplyMigration(p)
  PROVE  CommandOrder'
<1> DEFINE n == proc[p].seen + 1
<1>1. UNCHANGED <<dest, imported, jobs, card, mounted, count>> /\ proc[p].at = "migrate" /\ proc[p].seen < 3
  BY DEF ApplyMigration, media
<1>2. /\ dest' \in BOOLEAN /\ mounted' \in BOOLEAN
      /\ count' \in [commands : 0..MaxCommands, faults : 0..MaxMishaps, mounts : 0..MaxMounts]
  BY <1>1, ProcessIs
<1>3. proc[p] \in Proc /\ InOrder(p, proc[p], lock, imported, schema.version) BY ProcessIs
<1>4. proc[p].seen \in 0..3 BY <1>3 DEF Proc
<1>5. n \in 1..3 /\ n - 1 = proc[p].seen BY <1>1, <1>4
<1>6. CommandTypes /\ SchemaIsMade /\ schema.version \in 0..3 BY DEF CommandOrder, CommandTypes
<1>7. CASE Creates[n] \cap schema.tables # {}
  <2>1. End(p, 1) /\ UNCHANGED <<ledger, card>> /\ (lock' = lock \/ (lock = p /\ lock' = None))
    BY <1>1, <1>7 DEF ApplyMigration, ledger
  <2> QED BY <1>1, <1>2, <2>1, EndStep
<1>8. CASE Creates[n] \cap schema.tables = {}
  <2> DEFINE q == [proc[p] EXCEPT !.seen = n]
  <2>1. /\ schema' = [version |-> n, tables |-> schema.tables \cup Creates[n]]
        /\ proc' = [proc EXCEPT ![p] = q] /\ UNCHANGED lock
    BY <1>8 DEF ApplyMigration
  <2>2. ~(n <= schema.version) BY <1>5, <1>6, <1>8, MigrationsAreApart
  <2>3. proc[p].seen <= schema.version BY <1>1, <1>3 DEF InOrder, NotAhead
  <2>4. n = schema.version + 1 BY <1>4, <1>6, <2>2, <2>3
  <2>5. schema'.version = n /\ schema'.tables = schema.tables \cup Creates[n] BY <2>1
  <2>6. SchemaIsMade'
    <3>1. schema.tables = UNION {Creates[i] : i \in 1..(n - 1)}
      BY <1>6, <2>4 DEF SchemaIsMade
    <3>2. UNION {Creates[i] : i \in 1..n} = (UNION {Creates[i] : i \in 1..(n - 1)}) \cup Creates[n]
      BY <1>5, <1>6, MigrationsAreApart
    <3> HIDE DEF n
    <3>3. schema'.tables = UNION {Creates[i] : i \in 1..n} BY <2>5, <3>1, <3>2
    <3>4. UNION {Creates[i] : i \in 1..schema'.version} = UNION {Creates[i] : i \in 1..n}
      BY <2>5
    <3> QED BY <3>3, <3>4 DEF SchemaIsMade
  <2>7. schema' \in [version : 0..3, tables : SUBSET UNION Range(Creates)]
    <3>1. Creates[n] \in SUBSET UNION Range(Creates) BY <1>5, <1>6, MigrationsAreApart
    <3>2. schema.tables \in SUBSET UNION Range(Creates) BY <1>6 DEF CommandTypes
    <3>3. n \in 0..3 BY <1>5
    <3> HIDE DEF n
    <3> QED BY <2>1, <3>1, <3>2, <3>3
  <2>8. q \in Proc
    <3>1. n \in 0..3 BY <1>5
    <3> HIDE DEF n
    <3> QED BY <1>3, <3>1 DEF Proc
  <2>9. /\ q.at = "migrate" /\ q.cmd = proc[p].cmd /\ q.plan = proc[p].plan /\ q.conf = proc[p].conf
        /\ q.failed = proc[p].failed /\ q.gaveUp = proc[p].gaveUp /\ q.owed = proc[p].owed
        /\ q.lost = proc[p].lost /\ q.ejected = proc[p].ejected /\ q.seen = n
    BY <1>1, <1>3 DEF Proc
  <2> HIDE DEF q
  <2>10. InOrder(p, q, lock', imported', schema'.version)
    <3>1. Accounts(q, imported') BY <1>1, <1>3, <2>9 DEF InOrder, Accounts
    <3>2. EjectsLast(q) /\ HasLock(p, q, lock')
      BY <1>1, <1>3, <2>1, <2>9 DEF InOrder, EjectsLast, HasLock
    <3>3. NotAhead(q, schema'.version) BY <1>5, <2>5, <2>9 DEF NotAhead
    <3>4. OnItsWay(q) BY <2>9 DEF OnItsWay
    <3> QED BY <3>1, <3>2, <3>3, <3>4 DEF InOrder
  <2>11. schema.version <= schema'.version BY <1>6, <2>4, <2>5
  <2>12. /\ card' \subseteq Files /\ jobs' \in Seq(Job) /\ imported \subseteq imported'
         /\ imported' \subseteq Files /\ lock' \in Procs \cup {"app", None}
         /\ \A r \in Procs \ {p} : lock = r => lock' = r
    BY <1>1, <1>6, <2>1 DEF CommandTypes
  <2> HIDE DEF n
  <2> QED BY <1>2, <2>1, <2>6, <2>7, <2>8, <2>10, <2>11, <2>12, MoveOne
<1> QED BY <1>7, <1>8

LEMMA OpenDoneStep ==
  ASSUME CommandOrder, NEW p \in Procs, OpenDone(p)
  PROVE  CommandOrder'
<1> DEFINE s == Opened(p)
<1>1. UNCHANGED <<ledger, card, dest, mounted, lock, count>> /\ proc[p].at = "migrate" /\ MoveTo(p, s)
  BY DEF OpenDone, media
<1>2. /\ dest' \in BOOLEAN /\ mounted' \in BOOLEAN
      /\ count' \in [commands : 0..MaxCommands, faults : 0..MaxMishaps, mounts : 0..MaxMounts]
  BY <1>1, ProcessIs
<1>3. /\ proc[p].cmd = "mirror" \/ proc[p].ejected => lock = p
      /\ proc[p].ejected => proc[p].cmd \in Runs
      /\ proc[p].plan = {}
  BY <1>1, ProcessIs, NothingYet DEF InOrder, HasLock, EjectsLast
<1>4. \/ s = "drain" /\ lock = p /\ proc[p].cmd \in Drains
      \/ s = "scan" /\ proc[p].cmd \in Runs /\ ~proc[p].ejected
      \/ s \in {"list", "requeue"} /\ proc[p].cmd \notin Drains /\ ~proc[p].ejected
  <2>1. CASE proc[p].cmd \in Runs
    <3>1. s = IF lock = p THEN "drain" ELSE "scan" BY <2>1 DEF Opened, Runs
    <3> QED BY <1>3, <2>1, <3>1, ProcessIs DEF Drains, Proc
  <2>2. CASE proc[p].cmd = "mirror"
    <3>1. s = "drain" BY <2>2 DEF Opened
    <3> QED BY <1>3, <2>2, <3>1 DEF Drains
  <2>3. CASE proc[p].cmd \notin Drains
    <3>1. s \in {"list", "requeue"} BY <2>3 DEF Opened, Drains, Runs
    <3> QED BY <1>3, <2>3, <3>1, ProcessIs DEF Drains, Proc
  <2> QED BY <2>1, <2>2, <2>3 DEF Drains
<1>5. s \in Step BY <1>4 DEF Step
<1> HIDE DEF s
<1> QED BY <1>1, <1>2, <1>3, <1>4, <1>5, MovesOn

LEMMA ScanStep ==
  ASSUME CommandOrder, NEW p \in Procs, Scan(p)
  PROVE  CommandOrder'
<1>1. UNCHANGED <<ledger, card, dest, mounted, lock, count>> /\ proc[p].at = "scan"
  BY DEF Scan, media
<1>2. /\ dest' \in BOOLEAN /\ mounted' \in BOOLEAN /\ lock' \in Procs \cup {"app", None}
      /\ count' \in [commands : 0..MaxCommands, faults : 0..MaxMishaps, mounts : 0..MaxMounts]
  BY <1>1, ProcessIs DEF CommandOrder, CommandTypes
<1>3. proc[p].cmd \in Runs /\ ~proc[p].ejected /\ proc[p].plan = {}
  BY <1>1, ProcessIs, NothingYet DEF InOrder, OnItsWay, Proc
<1>4. CASE ~mounted /\ MoveTo(p, "build")
  <2>1. "build" \in Step BY DEF Step
  <2> QED BY <1>1, <1>2, <1>3, <1>4, <2>1, MovesOn DEF Drains
<1>5. CASE mounted
  <2> DEFINE q == [proc[p] EXCEPT !.at = "copy", !.plan = card \ imported, !.owed = card]
  <2>1. proc' = [proc EXCEPT ![p] = q] BY <1>5 DEF Scan
  <2>2. proc[p] \in Proc /\ InOrder(p, proc[p], lock, imported, schema.version) BY ProcessIs
  <2>3. card \subseteq Files BY DEF CommandOrder, CommandTypes
  <2>4. q \in Proc BY <2>2, <2>3 DEF Proc, Step
  <2>5. /\ q.at = "copy" /\ q.cmd = proc[p].cmd /\ q.plan = card \ imported /\ q.owed = card
        /\ q.failed = proc[p].failed /\ q.gaveUp = proc[p].gaveUp
        /\ q.lost = proc[p].lost /\ q.ejected = proc[p].ejected
    BY <2>2 DEF Proc
  <2> HIDE DEF q
  <2>6. InOrder(p, q, lock', imported, schema.version)
    <3>1. Accounts(q, imported) BY <1>3, <2>2, <2>5 DEF InOrder, Accounts, Drains
    <3>2. OnItsWay(q) /\ HasLock(p, q, lock') /\ EjectsLast(q) /\ NotAhead(q, schema.version)
      BY <1>3, <2>5 DEF OnItsWay, HasLock, EjectsLast, NotAhead
    <3> QED BY <3>1, <3>2 DEF InOrder
  <2> QED BY <1>1, <1>2, <2>1, <2>4, <2>6, MoveAlone
<1> QED BY <1>4, <1>5 DEF Scan

\* A command that a fault ends, with the lock as it was.
LEMMA FaultEnds ==
  ASSUME CommandOrder, NEW p \in Procs, Fault, End(p, 1), UNCHANGED <<dest, ledger, media, lock>>
  PROVE  CommandOrder'
<1>1. UNCHANGED <<ledger, card, dest, mounted, lock>> BY DEF media
<1>2. count' \in [commands : 0..MaxCommands, faults : 0..MaxMishaps, mounts : 0..MaxMounts]
  BY FaultIsCounted DEF CommandOrder
<1>3. dest' \in BOOLEAN /\ mounted' \in BOOLEAN BY <1>1, ProcessIs
<1> QED BY <1>1, <1>2, <1>3, EndStep

LEMMA CopyFileStep ==
  ASSUME CommandOrder, NEW p \in Procs, NEW f \in Files, CopyFile(p, f)
  PROVE  CommandOrder'
<1> DEFINE q == [proc[p] EXCEPT !.plan = @ \ {f}]
<1>1. /\ UNCHANGED <<dest, schema, mounted, lock>> /\ proc[p].at = "copy"
      /\ imported' = imported \cup {f} /\ proc' = [proc EXCEPT ![p] = q]
  BY DEF CopyFile
<1>2. CommandTypes /\ SchemaIsMade BY DEF CommandOrder
<1>3. jobs' \in Seq(Job)
  <2>1. [file |-> f, state |-> "queued"] \in Job BY DEF Job
  <2>2. jobs \in Seq(Job) BY <1>2 DEF CommandTypes
  <2>3. Append(jobs, [file |-> f, state |-> "queued"]) \in Seq(Job) BY <2>1, <2>2
  <2> QED BY <2>2, <2>3 DEF CopyFile
<1>4. card' \subseteq Files BY <1>2 DEF CopyFile, CommandTypes
<1>5. count' \in [commands : 0..MaxCommands, faults : 0..MaxMishaps, mounts : 0..MaxMounts]
  BY <1>2, FaultIsCounted DEF CopyFile, CommandTypes
<1>6. proc[p] \in Proc /\ InOrder(p, proc[p], lock, imported, schema.version) BY ProcessIs
<1>7. q \in Proc BY <1>6 DEF Proc
<1>8. /\ q.at = "copy" /\ q.cmd = proc[p].cmd /\ q.plan = proc[p].plan \ {f} /\ q.owed = proc[p].owed
      /\ q.failed = proc[p].failed /\ q.gaveUp = proc[p].gaveUp
      /\ q.lost = proc[p].lost /\ q.ejected = proc[p].ejected
  BY <1>1, <1>6 DEF Proc
<1> HIDE DEF q
<1>9. InOrder(p, q, lock', imported', schema'.version)
  <2>1. Accounts(q, imported')
    <3>1. q.owed \subseteq imported' \cup q.plan \cup q.lost
      BY <1>1, <1>6, <1>8 DEF InOrder, Accounts
    <3> QED BY <1>6, <1>8, <3>1 DEF InOrder, Accounts
  <2>2. OnItsWay(q) /\ EjectsLast(q) BY <1>1, <1>6, <1>8 DEF InOrder, OnItsWay, EjectsLast
  <2>3. HasLock(p, q, lock') /\ NotAhead(q, schema'.version) BY <1>8 DEF HasLock, NotAhead
  <2> QED BY <2>1, <2>2, <2>3 DEF InOrder
<1>10. SchemaIsMade' BY <1>1, <1>2 DEF SchemaIsMade
<1>11. /\ dest' \in BOOLEAN /\ mounted' \in BOOLEAN
       /\ schema' \in [version : 0..3, tables : SUBSET UNION Range(Creates)]
       /\ schema.version <= schema'.version
       /\ imported \subseteq imported' /\ imported' \subseteq Files
       /\ lock' \in Procs \cup {"app", None} /\ \A r \in Procs \ {p} : lock = r => lock' = r
  BY <1>1, <1>2 DEF CommandTypes
<1> QED BY <1>1, <1>3, <1>4, <1>5, <1>7, <1>9, <1>10, <1>11, MoveOne

LEMMA CopyFailsStep ==
  ASSUME CommandOrder, NEW p \in Procs, NEW f \in Files, CopyFails(p, f)
  PROVE  CommandOrder'
<1> DEFINE q == [proc[p] EXCEPT !.plan = @ \ {f}, !.failed = @ + 1, !.lost = @ \cup {f}]
<1>1. UNCHANGED <<dest, ledger, card, mounted, lock>> /\ proc[p].at = "copy" /\ proc' = [proc EXCEPT ![p] = q]
  BY DEF CopyFails, media
<1>2. /\ dest' \in BOOLEAN /\ mounted' \in BOOLEAN /\ lock' \in Procs \cup {"app", None}
  BY <1>1 DEF CommandOrder, CommandTypes
<1>3. count' \in [commands : 0..MaxCommands, faults : 0..MaxMishaps, mounts : 0..MaxMounts]
  BY FaultIsCounted DEF CopyFails, CommandOrder, CommandTypes
<1>4. proc[p] \in Proc /\ InOrder(p, proc[p], lock, imported, schema.version) BY ProcessIs
<1>5. q \in Proc
  <2> DEFINE plan == proc[p].plan \ {f}
             failed == proc[p].failed + 1
             lost == proc[p].lost \cup {f}
  <2>1. plan \in SUBSET Files /\ failed \in Nat /\ lost \in SUBSET Files BY <1>4 DEF Proc
  <2>2. q = [proc[p] EXCEPT !.plan = plan, !.failed = failed, !.lost = lost] BY <1>4 DEF Proc
  <2> HIDE DEF plan, failed, lost, q
  <2> QED BY <1>4, <2>1, <2>2 DEF Proc
<1>6. /\ q.at = "copy" /\ q.cmd = proc[p].cmd /\ q.plan = proc[p].plan \ {f} /\ q.owed = proc[p].owed
      /\ q.failed = proc[p].failed + 1 /\ q.gaveUp = proc[p].gaveUp
      /\ q.lost = proc[p].lost \cup {f} /\ q.ejected = proc[p].ejected
      /\ proc[p].failed \in Nat /\ proc[p].gaveUp \in Nat
  BY <1>1, <1>4 DEF Proc
<1> HIDE DEF q
<1>7. InOrder(p, q, lock', imported, schema.version)
  <2>1. Accounts(q, imported)
    <3>1. q.owed \subseteq imported \cup q.plan \cup q.lost
      BY <1>4, <1>6 DEF InOrder, Accounts
    <3>2. q.failed + q.gaveUp # 0 BY <1>6
    <3>3. q.cmd \in Drains BY <1>1, <1>4, <1>6 DEF InOrder, OnItsWay, Drains
    <3> QED BY <1>6, <3>1, <3>2, <3>3 DEF Accounts
  <2>2. OnItsWay(q) /\ EjectsLast(q) BY <1>1, <1>4, <1>6 DEF InOrder, OnItsWay, EjectsLast
  <2>3. HasLock(p, q, lock') /\ NotAhead(q, schema.version) BY <1>6 DEF HasLock, NotAhead
  <2> QED BY <2>1, <2>2, <2>3 DEF InOrder
<1> QED BY <1>1, <1>2, <1>3, <1>5, <1>7, MoveAlone

LEMMA CopyDoneStep ==
  ASSUME CommandOrder, NEW p \in Procs, CopyDone(p)
  PROVE  CommandOrder'
<1>1. /\ UNCHANGED <<ledger, card, dest, mounted, lock, count>> /\ proc[p].at = "copy"
      /\ proc[p].plan = {} /\ MoveTo(p, "eject")
  BY DEF CopyDone, media
<1>2. /\ dest' \in BOOLEAN /\ mounted' \in BOOLEAN
      /\ count' \in [commands : 0..MaxCommands, faults : 0..MaxMishaps, mounts : 0..MaxMounts]
  BY <1>1, ProcessIs
<1>3. proc[p].cmd \in Runs /\ ~proc[p].ejected
  BY <1>1, ProcessIs, NothingYet DEF InOrder, OnItsWay
<1>4. "eject" \in Step BY DEF Step
<1> QED BY <1>1, <1>2, <1>3, <1>4, MovesOn

LEMMA EjectStep ==
  ASSUME CommandOrder, NEW p \in Procs, Eject(p)
  PROVE  CommandOrder'
<1>1. UNCHANGED <<dest, ledger, card, lock>> /\ proc[p].at = "eject" BY DEF Eject
<1>2. dest' \in BOOLEAN /\ mounted' \in BOOLEAN /\ lock' \in Procs \cup {"app", None}
  BY <1>1 DEF Eject, CommandOrder, CommandTypes
<1>3. count' \in [commands : 0..MaxCommands, faults : 0..MaxMishaps, mounts : 0..MaxMounts]
  BY FaultIsCounted DEF Eject, CommandOrder, CommandTypes
<1>4. proc[p] \in Proc /\ InOrder(p, proc[p], lock, imported, schema.version) BY ProcessIs
<1>5. proc[p].cmd \in Runs /\ ~proc[p].ejected /\ proc[p].plan = {}
  BY <1>1, <1>4, NothingYet DEF InOrder, OnItsWay
<1>6. CASE MoveTo(p, "build")
  <2>1. "build" \in Step BY DEF Step
  <2> QED BY <1>1, <1>2, <1>3, <1>5, <1>6, <2>1, MovesOn DEF Drains
<1>7. CASE ShouldEject(proc[p].conf) /\ proc' = [proc EXCEPT ![p].at = "build", ![p].ejected = TRUE]
  <2> DEFINE q == [proc[p] EXCEPT !.at = "build", !.ejected = TRUE]
  <2>1. proc' = [proc EXCEPT ![p] = q] BY <1>7
  <2>2. q \in Proc BY <1>4 DEF Proc, Step
  <2>3. /\ q.at = "build" /\ q.cmd = proc[p].cmd /\ q.plan = proc[p].plan /\ q.owed = proc[p].owed
        /\ q.failed = proc[p].failed /\ q.gaveUp = proc[p].gaveUp
        /\ q.lost = proc[p].lost /\ q.conf = proc[p].conf
    BY <1>4 DEF Proc
  <2> HIDE DEF q
  <2>4. InOrder(p, q, lock', imported, schema.version)
    <3>1. Accounts(q, imported) BY <1>4, <1>5, <2>3 DEF InOrder, Accounts
    <3>2. EjectsLast(q) BY <1>5, <1>7, <2>3 DEF EjectsLast, ShouldEject
    <3>3. OnItsWay(q) /\ HasLock(p, q, lock') /\ NotAhead(q, schema.version)
      BY <1>5, <2>3 DEF OnItsWay, HasLock, NotAhead, Drains
    <3> QED BY <3>1, <3>2, <3>3 DEF InOrder
  <2> QED BY <1>1, <1>2, <1>3, <2>1, <2>2, <2>4, MoveAlone
<1> QED BY <1>6, <1>7 DEF Eject

LEMMA ExitCodeIs ==
  ASSUME NEW p \in Procs, proc[p] \in Proc
  PROVE  ExitCode(p) \in 0..2 /\ (ExitCode(p) = 0 <=> proc[p].failed + proc[p].gaveUp = 0)
BY DEF ExitCode

\* From the plan of its uploader a command goes on to the lock, or ends.
LEMMA BuildWorkerStep ==
  ASSUME CommandOrder, NEW p \in Procs, BuildWorker(p), proc[p].at = "build",
         proc[p].ejected => proc[p].conf.mode = "Auto",
         UNCHANGED <<dest, ledger, media, lock, count>>
  PROVE  CommandOrder'
<1>1. UNCHANGED <<ledger, card, dest, mounted, lock, count>> BY DEF media
<1>2. /\ dest' \in BOOLEAN /\ mounted' \in BOOLEAN
      /\ count' \in [commands : 0..MaxCommands, faults : 0..MaxMishaps, mounts : 0..MaxMounts]
  BY <1>1, ProcessIs
<1>3. CASE End(p, 1) BY <1>1, <1>2, <1>3, EndStep
<1>4. CASE MoveTo(p, "lock")
  <2>1. "lock" \in Step BY DEF Step
  <2>2. proc[p].cmd \in Drains /\ proc[p].plan = {} BY ProcessIs, NothingYet DEF InOrder, OnItsWay
  <2> QED BY <1>1, <1>2, <1>4, <2>1, <2>2, MovesOn
<1> QED BY <1>3, <1>4 DEF BuildWorker

LEMMA OffloadGoesOnStep ==
  ASSUME CommandOrder, NEW p \in Procs, OffloadGoesOn(p)
  PROVE  CommandOrder'
<1>1. proc[p].at = "build" /\ UNCHANGED <<dest, ledger, media, lock, count>> BY DEF OffloadGoesOn
<1>2. UNCHANGED <<ledger, card, dest, mounted, lock, count>> BY <1>1 DEF media
<1>3. /\ dest' \in BOOLEAN /\ mounted' \in BOOLEAN
      /\ count' \in [commands : 0..MaxCommands, faults : 0..MaxMishaps, mounts : 0..MaxMounts]
  BY <1>2, ProcessIs
<1>4. CASE proc[p].conf.mode = "Auto" BY <1>1, <1>4, BuildWorkerStep DEF OffloadGoesOn
<1>5. CASE proc[p].conf.mode # "Auto"
  <2>1. End(p, ExitCode(p)) BY <1>5 DEF OffloadGoesOn
  <2>2. ExitCode(p) \in 0..2 BY ExitCodeIs, ProcessIs
  <2> QED BY <1>2, <1>3, <2>1, <2>2, EndStep
<1> QED BY <1>4, <1>5

LEMMA MirrorGoesOnStep ==
  ASSUME CommandOrder, NEW p \in Procs, MirrorGoesOn(p)
  PROVE  CommandOrder'
<1>1. proc[p].at = "build" /\ UNCHANGED <<dest, ledger, media, lock, count>> /\ BuildWorker(p)
  BY DEF MirrorGoesOn
<1>2. proc[p].cmd = "mirror" BY DEF MirrorGoesOn
<1>3. proc[p].ejected => proc[p].cmd \in Runs BY ProcessIs DEF InOrder, EjectsLast
<1>4. ~proc[p].ejected BY <1>2, <1>3, ProcessIs DEF Runs, Proc
<1> QED BY <1>1, <1>4, BuildWorkerStep

LEMMA SkipStep ==
  ASSUME CommandOrder, NEW p \in Procs, Skip(p), proc[p].at = "lock",
         UNCHANGED <<dest, ledger, media, lock, count>>
  PROVE  CommandOrder'
<1> DEFINE left == IF lock \in Procs THEN [proc EXCEPT ![lock].entrusted = @ \cup Queued] ELSE proc
           code == ExitCode(p)
<1>1. UNCHANGED <<schema, imported, jobs, card, mounted>> BY DEF ledger, media
<1>2. CommandTypes /\ SchemaIsMade BY DEF CommandOrder
<1>3. Queued \in SUBSET Nat
  <2>1. jobs \in Seq(Job) BY <1>2 DEF CommandTypes
  <2>2. DOMAIN jobs \in SUBSET Nat BY <2>1
  <2> QED BY <2>2 DEF Queued
<1>4. ASSUME NEW r \in Procs
      PROVE  left[r] \in Proc /\ InOrder(r, left[r], lock, imported, schema.version)
  <2>1. proc[r] \in Proc /\ InOrder(r, proc[r], lock, imported, schema.version) BY ProcessIs
  <2>2. CASE lock = r
    <3> DEFINE q == [proc[r] EXCEPT !.entrusted = @ \cup Queued]
    <3>1. left[r] = q BY <1>2, <2>2 DEF CommandTypes
    <3>2. q \in Proc BY <1>3, <2>1 DEF Proc
    <3>3. /\ q.at = proc[r].at /\ q.cmd = proc[r].cmd /\ q.conf = proc[r].conf /\ q.plan = proc[r].plan
          /\ q.failed = proc[r].failed /\ q.gaveUp = proc[r].gaveUp /\ q.owed = proc[r].owed
          /\ q.lost = proc[r].lost /\ q.ejected = proc[r].ejected /\ q.seen = proc[r].seen
      BY <2>1 DEF Proc
    <3> HIDE DEF q, left
    <3>4. OnItsWay(q) /\ EjectsLast(q) BY <2>1, <3>3 DEF InOrder, OnItsWay, EjectsLast
    <3>5. HasLock(r, q, lock) BY <2>1, <3>3 DEF InOrder, HasLock
    <3>6. Accounts(q, imported) BY <2>1, <3>3 DEF InOrder, Accounts
    <3>7. NotAhead(q, schema.version) BY <2>1, <3>3 DEF InOrder, NotAhead
    <3> QED BY <3>1, <3>2, <3>4, <3>5, <3>6, <3>7 DEF InOrder
  <2>3. CASE lock # r
    <3>1. left[r] = proc[r] BY <1>2, <2>3 DEF CommandTypes
    <3> QED BY <2>1, <3>1
  <2> QED BY <2>2, <2>3
<1>5. DOMAIN left = Procs BY <1>2 DEF CommandTypes
<1>6. proc' = [left EXCEPT ![p] = Ended(left[p], code)] BY DEF Skip
<1>7. code \in 0..2 BY ExitCodeIs, ProcessIs
<1>8. left = [r \in Procs |-> left[r]] BY <1>2 DEF CommandTypes
<1> HIDE DEF left, code
<1>9. /\ Ended(left[p], code) \in Proc
      /\ InOrder(p, Ended(left[p], code), lock, imported, schema.version)
  BY <1>4, <1>7, EndedInOrder
<1>10. ASSUME NEW r \in Procs
       PROVE  proc'[r] \in Proc /\ InOrder(r, proc'[r], lock, imported, schema.version)
  <2>1. CASE r = p
    <3>1. proc'[r] = Ended(left[p], code) BY <1>5, <1>6, <2>1
    <3> QED BY <1>9, <2>1, <3>1
  <2>2. CASE r # p
    <3>1. proc'[r] = left[r] BY <1>5, <1>6, <1>8, <2>2
    <3> QED BY <1>4, <3>1
  <2> QED BY <2>1, <2>2
<1>11. proc' \in [Procs -> Proc]
  <2>1. DOMAIN proc' = Procs /\ proc' = [r \in Procs |-> proc'[r]] BY <1>5, <1>6, <1>8
  <2> QED BY <1>10, <2>1
<1>12. CommandTypes' BY <1>1, <1>2, <1>11 DEF CommandTypes
<1>13. SchemaIsMade' BY <1>1, <1>2 DEF SchemaIsMade
<1>14. \A r \in Procs : InOrder(r, proc'[r], lock', imported', schema'.version) BY <1>1, <1>10
<1> QED BY <1>12, <1>13, <1>14 DEF CommandOrder

LEMMA TryLockStep ==
  ASSUME CommandOrder, NEW p \in Procs, TryLock(p)
  PROVE  CommandOrder'
<1>1. proc[p].at = "lock" /\ UNCHANGED <<dest, ledger, media, count>> BY DEF TryLock
<1>2. UNCHANGED <<ledger, card, dest, mounted, count>> BY <1>1 DEF media
<1>3. /\ dest' \in BOOLEAN /\ mounted' \in BOOLEAN
      /\ count' \in [commands : 0..MaxCommands, faults : 0..MaxMishaps, mounts : 0..MaxMounts]
  BY <1>2, ProcessIs
<1>4. CASE End(p, 1) /\ UNCHANGED lock BY <1>2, <1>3, <1>4, EndStep
<1>5. CASE Skip(p) /\ UNCHANGED lock BY <1>1, <1>5, SkipStep
<1>6. CASE lock = None /\ lock' = p /\ MoveTo(p, "open")
  <2>1. "open" \in Step BY DEF Step
  <2>2. proc[p].plan = {} BY <1>1, NothingYet
  <2> QED BY <1>1, <1>2, <1>3, <1>6, <2>1, <2>2, MovesOn
<1> QED BY <1>4, <1>5, <1>6 DEF TryLock

\* A row keeps its file when its state changes.
LEMMA RowsStay ==
  ASSUME NEW i \in DOMAIN jobs, NEW s \in {"queued", "done", "failed"}, jobs \in Seq(Job)
  PROVE  /\ [jobs EXCEPT ![i].state = s] \in Seq(Job)
         /\ jobs[i].file \in Files
<1>1. jobs[i] \in Job OBVIOUS
<1> DEFINE row == [jobs[i] EXCEPT !.state = s]
<1>2. row \in Job BY <1>1 DEF Job
<1>3. [jobs EXCEPT ![i].state = s] = [jobs EXCEPT ![i] = row] OBVIOUS
<1> HIDE DEF row
<1>4. [jobs EXCEPT ![i] = row] \in Seq(Job) BY <1>2
<1> QED BY <1>1, <1>3, <1>4 DEF Job

LEMMA MirrorsStep ==
  ASSUME CommandOrder, NEW p \in Procs, NEW i \in DOMAIN jobs, Mirrors(p, i)
  PROVE  CommandOrder'
<1>1. UNCHANGED <<proc, dest, schema, imported, mounted, lock, count>> BY DEF Mirrors
<1>2. CommandTypes /\ SchemaIsMade BY DEF CommandOrder
<1>3. jobs' \in Seq(Job) BY <1>2, RowsStay DEF Mirrors, CommandTypes
<1>4. card' \subseteq Files BY <1>2 DEF Mirrors, CommandTypes
<1>5. CommandTypes' BY <1>1, <1>2, <1>3, <1>4 DEF CommandTypes
<1>6. SchemaIsMade' BY <1>1, <1>2 DEF SchemaIsMade
<1>7. \A r \in Procs : InOrder(r, proc'[r], lock', imported', schema'.version)
  BY <1>1 DEF CommandOrder
<1> QED BY <1>5, <1>6, <1>7 DEF CommandOrder

LEMMA GivesUpStep ==
  ASSUME CommandOrder, NEW p \in Procs, NEW i \in DOMAIN jobs, GivesUp(p, i)
  PROVE  CommandOrder'
<1> DEFINE q == [proc[p] EXCEPT !.gaveUp = @ + 1, !.lost = @ \cup {jobs[i].file}]
<1>1. /\ UNCHANGED <<dest, schema, imported, card, mounted, lock>> /\ proc[p].at = "drain" /\ Fault
      /\ proc' = [proc EXCEPT ![p] = q]
  BY DEF GivesUp, media
<1>2. CommandTypes /\ SchemaIsMade BY DEF CommandOrder
<1>3. jobs \in Seq(Job) BY <1>2 DEF CommandTypes
<1>4. jobs' \in Seq(Job) /\ jobs[i].file \in Files BY <1>3, RowsStay DEF GivesUp
<1>5. proc[p] \in Proc /\ InOrder(p, proc[p], lock, imported, schema.version) BY ProcessIs
<1>6. q \in Proc
  <2> DEFINE gaveUp == proc[p].gaveUp + 1
             lost == proc[p].lost \cup {jobs[i].file}
  <2>1. gaveUp \in Nat /\ lost \in SUBSET Files BY <1>4, <1>5 DEF Proc
  <2>2. q = [proc[p] EXCEPT !.gaveUp = gaveUp, !.lost = lost] BY <1>5 DEF Proc
  <2> HIDE DEF gaveUp, lost, q
  <2> QED BY <1>5, <2>1, <2>2 DEF Proc
<1>7. /\ q.at = "drain" /\ q.cmd = proc[p].cmd /\ q.plan = proc[p].plan /\ q.owed = proc[p].owed
      /\ q.failed = proc[p].failed /\ q.gaveUp = proc[p].gaveUp + 1 /\ q.conf = proc[p].conf
      /\ q.lost = proc[p].lost \cup {jobs[i].file} /\ q.ejected = proc[p].ejected
      /\ proc[p].failed \in Nat /\ proc[p].gaveUp \in Nat
  BY <1>1, <1>5 DEF Proc
<1> HIDE DEF q
<1>8. InOrder(p, q, lock', imported', schema'.version)
  <2>1. Accounts(q, imported)
    <3>1. q.owed \subseteq imported \cup q.plan \cup q.lost
      BY <1>5, <1>7 DEF InOrder, Accounts
    <3>2. q.failed + q.gaveUp # 0 BY <1>7
    <3>3. q.cmd \in Drains BY <1>1, <1>5, <1>7 DEF InOrder, OnItsWay
    <3>4. q.plan = {} BY <1>1, <1>7, NothingYet
    <3> QED BY <3>1, <3>2, <3>3, <3>4 DEF Accounts
  <2>2. OnItsWay(q) /\ EjectsLast(q) BY <1>1, <1>5, <1>7 DEF InOrder, OnItsWay, EjectsLast
  <2>3. HasLock(p, q, lock) /\ NotAhead(q, schema.version)
    BY <1>1, <1>5, <1>7 DEF InOrder, HasLock, NotAhead
  <2> QED BY <1>1, <2>1, <2>2, <2>3 DEF InOrder
<1>9. count' \in [commands : 0..MaxCommands, faults : 0..MaxMishaps, mounts : 0..MaxMounts]
  BY <1>1, <1>2, FaultIsCounted
<1>10. SchemaIsMade' BY <1>1, <1>2 DEF SchemaIsMade
<1>11. /\ dest' \in BOOLEAN /\ mounted' \in BOOLEAN /\ card' \subseteq Files
       /\ schema' \in [version : 0..3, tables : SUBSET UNION Range(Creates)]
       /\ schema.version <= schema'.version
       /\ imported \subseteq imported' /\ imported' \subseteq Files
       /\ lock' \in Procs \cup {"app", None} /\ \A r \in Procs \ {p} : lock = r => lock' = r
  BY <1>1, <1>2 DEF CommandTypes
<1> QED BY <1>1, <1>4, <1>6, <1>8, <1>9, <1>10, <1>11, MoveOne

LEMMA DrainDoneStep ==
  ASSUME CommandOrder, NEW p \in Procs, DrainDone(p)
  PROVE  CommandOrder'
<1>1. UNCHANGED <<ledger, card, dest, mounted, lock, count>> /\ proc[p].at = "drain" /\ MoveTo(p, "unlock")
  BY DEF DrainDone, media
<1>2. /\ dest' \in BOOLEAN /\ mounted' \in BOOLEAN
      /\ count' \in [commands : 0..MaxCommands, faults : 0..MaxMishaps, mounts : 0..MaxMounts]
  BY <1>1, ProcessIs
<1>3. proc[p].cmd \in Drains /\ proc[p].plan = {} /\ lock = p
  BY <1>1, ProcessIs, NothingYet DEF InOrder, OnItsWay, HasLock
<1>4. "unlock" \in Step BY DEF Step
<1> QED BY <1>1, <1>2, <1>3, <1>4, MovesOn

LEMMA DrainFailsStep ==
  ASSUME CommandOrder, NEW p \in Procs, DrainFails(p)
  PROVE  CommandOrder'
<1>1. /\ UNCHANGED <<ledger, card, dest, mounted>> /\ proc[p].at = "drain" /\ Fault
      /\ End(p, 1) /\ lock' = None
  BY DEF DrainFails, media
<1>2. count' \in [commands : 0..MaxCommands, faults : 0..MaxMishaps, mounts : 0..MaxMounts]
  BY <1>1, FaultIsCounted DEF CommandOrder
<1>3. dest' \in BOOLEAN /\ mounted' \in BOOLEAN BY <1>1, ProcessIs
<1>4. lock = p BY <1>1, ProcessIs DEF InOrder, HasLock
<1> QED BY <1>1, <1>2, <1>3, <1>4, EndStep

LEMMA UnlockStep ==
  ASSUME CommandOrder, NEW p \in Procs, Unlock(p)
  PROVE  CommandOrder'
<1>1. /\ UNCHANGED <<ledger, card, dest, mounted, count>> /\ proc[p].at = "unlock"
      /\ End(p, ExitCode(p)) /\ lock' = None
  BY DEF Unlock, media
<1>2. /\ dest' \in BOOLEAN /\ mounted' \in BOOLEAN
      /\ count' \in [commands : 0..MaxCommands, faults : 0..MaxMishaps, mounts : 0..MaxMounts]
  BY <1>1, ProcessIs
<1>3. lock = p BY <1>1, ProcessIs DEF InOrder, HasLock
<1>4. ExitCode(p) \in 0..2 BY ExitCodeIs, ProcessIs
<1> QED BY <1>1, <1>2, <1>3, <1>4, EndStep

LEMMA RetryCloudStep ==
  ASSUME CommandOrder, NEW p \in Procs, RetryCloud(p)
  PROVE  CommandOrder'
<1> DEFINE e == Ended(proc[p], 0)
<1>1. /\ UNCHANGED <<dest, schema, imported, card, mounted, lock, count>>
      /\ proc' = [proc EXCEPT ![p] = e]
  BY DEF RetryCloud, media, End
<1>2. CommandTypes /\ SchemaIsMade BY DEF CommandOrder
<1>3. jobs' \in Seq(Job)
  <2> DEFINE row(i) == IF jobs[i].state = "failed" THEN [jobs[i] EXCEPT !.state = "queued"] ELSE jobs[i]
  <2>1. jobs \in Seq(Job) BY <1>2 DEF CommandTypes
  <2>2. \A i \in DOMAIN jobs : jobs[i] \in Job BY <2>1
  <2>3. \A i \in DOMAIN jobs : row(i) \in Job BY <2>2 DEF Job
  <2>4. jobs' = [i \in DOMAIN jobs |-> row(i)] BY DEF RetryCloud
  <2> HIDE DEF row
  <2>5. DOMAIN jobs = 1..Len(jobs) /\ Len(jobs) \in Nat BY <2>1
  <2>6. jobs' \in [1..Len(jobs) -> Job] BY <2>3, <2>4, <2>5
  <2> QED BY <2>5, <2>6
<1>4. e \in Proc /\ InOrder(p, e, lock', imported', schema'.version)
  <2>1. 0 \in 0..2 /\ proc[p] \in Proc BY ProcessIs
  <2> QED BY <2>1, EndedInOrder
<1>5. SchemaIsMade' BY <1>1, <1>2 DEF SchemaIsMade
<1>6. /\ dest' \in BOOLEAN /\ mounted' \in BOOLEAN /\ card' \subseteq Files
      /\ count' \in [commands : 0..MaxCommands, faults : 0..MaxMishaps, mounts : 0..MaxMounts]
      /\ schema' \in [version : 0..3, tables : SUBSET UNION Range(Creates)]
      /\ schema.version <= schema'.version
      /\ imported \subseteq imported' /\ imported' \subseteq Files
      /\ lock' \in Procs \cup {"app", None} /\ \A r \in Procs \ {p} : lock = r => lock' = r
  BY <1>1, <1>2 DEF CommandTypes
<1> HIDE DEF e
<1> QED BY <1>1, <1>3, <1>4, <1>5, <1>6, MoveOne

LEMMA MirrorStatusStep ==
  ASSUME CommandOrder, NEW p \in Procs, MirrorStatus(p)
  PROVE  CommandOrder'
<1>1. UNCHANGED <<ledger, card, dest, mounted, lock, count>> /\ End(p, 0)
  BY DEF MirrorStatus, media
<1>2. /\ dest' \in BOOLEAN /\ mounted' \in BOOLEAN
      /\ count' \in [commands : 0..MaxCommands, faults : 0..MaxMishaps, mounts : 0..MaxMounts]
  BY <1>1, ProcessIs
<1> QED BY <1>1, <1>2, EndStep

LEMMA KillStep ==
  ASSUME CommandOrder, NEW p \in Procs, Kill(p)
  PROVE  CommandOrder'
<1> DEFINE q == [Off EXCEPT !.code = 1]
<1>1. /\ UNCHANGED <<ledger, card, dest, mounted>> /\ Fault /\ proc' = [proc EXCEPT ![p] = q]
      /\ lock' = IF lock = p THEN None ELSE lock
  BY DEF Kill, media
<1>2. q \in Proc BY OffIsProc DEF Proc
<1>3. q.at = "off" /\ q.plan = {} /\ q.owed = {} /\ q.lost = {} /\ q.ejected = FALSE BY DEF Off
<1> HIDE DEF q
<1>4. InOrder(p, q, lock', imported, schema.version)
  BY <1>3 DEF InOrder, OnItsWay, HasLock, EjectsLast, Accounts, NotAhead
<1>5. count' \in [commands : 0..MaxCommands, faults : 0..MaxMishaps, mounts : 0..MaxMounts]
  BY <1>1, FaultIsCounted DEF CommandOrder
<1>6. /\ dest' \in BOOLEAN /\ mounted' \in BOOLEAN
      /\ lock' \in Procs \cup {"app", None} /\ \A r \in Procs \ {p} : lock = r => lock' = r
  BY <1>1 DEF CommandOrder, CommandTypes
<1> QED BY <1>1, <1>2, <1>4, <1>5, <1>6, MoveAlone

\* The card and the app's drain.
LEMMA AroundStep ==
  ASSUME CommandOrder, Remount \/ AppLocks \/ AppUnlocks
  PROVE  CommandOrder'
<1>1. UNCHANGED <<proc, dest, schema, imported, jobs, card>> BY DEF Remount, AppLocks, AppUnlocks, ledger, media
<1>2. CommandTypes /\ SchemaIsMade BY DEF CommandOrder
<1>3. count' \in [commands : 0..MaxCommands, faults : 0..MaxMishaps, mounts : 0..MaxMounts]
  BY <1>2, CommandAssumption DEF Remount, AppLocks, AppUnlocks, CommandTypes
<1>4. mounted' \in BOOLEAN BY <1>2 DEF Remount, AppLocks, AppUnlocks, CommandTypes, media
<1>5. /\ lock' \in Procs \cup {"app", None}
      /\ \A r \in Procs : lock = r => lock' = r
  BY <1>2, CommandAssumption DEF Remount, AppLocks, AppUnlocks, CommandTypes
<1>6. CommandTypes' BY <1>1, <1>2, <1>3, <1>4, <1>5 DEF CommandTypes
<1>7. SchemaIsMade' BY <1>1, <1>2 DEF SchemaIsMade
<1>8. ASSUME NEW r \in Procs PROVE InOrder(r, proc'[r], lock', imported', schema'.version)
  <2>1. InOrder(r, proc[r], lock, imported, schema.version) BY ProcessIs
  <2>2. HasLock(r, proc[r], lock') BY <1>5, <2>1 DEF InOrder, HasLock
  <2> QED BY <1>1, <2>1, <2>2 DEF InOrder
<1> QED BY <1>6, <1>7, <1>8 DEF CommandOrder

LEMMA CommandNextOrdered == CommandOrder /\ [CommandNext]_commandVars => CommandOrder'
<1> SUFFICES ASSUME CommandOrder, [CommandNext]_commandVars PROVE CommandOrder'
  OBVIOUS
<1>1. CASE UNCHANGED commandVars
  <2>1. UNCHANGED <<proc, dest, schema, imported, jobs, card, mounted, lock, count>>
    BY <1>1 DEF commandVars
  <2>2. CommandTypes' /\ SchemaIsMade'
    BY <2>1 DEF CommandOrder, CommandTypes, SchemaIsMade
  <2>3. \A p \in Procs : InOrder(p, proc'[p], lock', imported', schema'.version)
    BY <2>1 DEF CommandOrder
  <2> QED BY <2>2, <2>3 DEF CommandOrder
<1>2. ASSUME NEW p \in Procs, Advance(p) PROVE CommandOrder'
  <2>1. CASE MakeDest(p) \/ LoadConfig(p) \/ ReadVersion(p) \/ ApplyMigration(p) \/ OpenDone(p)
    BY <2>1, MakeDestStep, LoadConfigStep, ReadVersionStep, ApplyMigrationStep, OpenDoneStep
  <2>2. CASE Scan(p) \/ CopyDone(p) \/ Eject(p)
    BY <2>2, ScanStep, CopyDoneStep, EjectStep
  <2>3. CASE NoRoom(p) \/ CommitFails(p) BY <2>3, FaultEnds DEF NoRoom, CommitFails
  <2>4. CASE OffloadGoesOn(p) \/ MirrorGoesOn(p) \/ TryLock(p)
    BY <2>4, OffloadGoesOnStep, MirrorGoesOnStep, TryLockStep
  <2>5. CASE DrainDone(p) \/ DrainFails(p) \/ Unlock(p) \/ RetryCloud(p) \/ MirrorStatus(p)
    BY <2>5, DrainDoneStep, DrainFailsStep, UnlockStep, RetryCloudStep, MirrorStatusStep
  <2>6. CASE \E f \in Files : CopyFile(p, f) \/ CopyFails(p, f)
    BY <2>6, CopyFileStep, CopyFailsStep
  <2>7. CASE \E i \in DOMAIN jobs : Mirrors(p, i) \/ GivesUp(p, i)
    BY <2>7, MirrorsStep, GivesUpStep
  <2> QED BY <1>2, <2>1, <2>2, <2>3, <2>4, <2>5, <2>6, <2>7 DEF Advance
<1>3. CASE \E p \in Procs : Watch(p) \/ Kill(p) BY <1>3, WatchStep, KillStep
<1>4. CASE \E p \in Procs, argv \in Argvs : StartCommand(p, argv) BY <1>4, StartCommandStep
<1>5. CASE Remount \/ AppLocks \/ AppUnlocks BY <1>5, AroundStep
<1> QED BY <1>1, <1>2, <1>3, <1>4, <1>5 DEF CommandNext

\* Always: every process is where its command can be, a drain has the lock, what was
\* scanned is accounted for, and the ledger has what its version says.
THEOREM CommandsInOrder == CommandSpec => []CommandOrder
<1> QED BY CommandInitOrdered, CommandNextOrdered, PTL DEF CommandSpec

-----------------------------------------------------------------------------
(* What follows for the card, the exit code and the ledger.                *)

\* The types, and that a command that has yet to delete uploaded files from the card
\* has not ejected it (should_auto_eject).
THEOREM CommandsKeepCard == CommandSpec => []CommandInv
<1>1. CommandOrder => CommandInv
  <2> SUFFICES ASSUME CommandOrder, NEW p \in Procs, proc[p].at \in {"lock", "drain"},
                      proc[p].conf.delete
               PROVE  ~proc[p].ejected
    BY DEF CommandOrder, CommandInv, CardStaysForDeletes
  <2> QED BY ProcessIs DEF InOrder, EjectsLast
<1> QED BY <1>1, CommandsInOrder, PTL

\* No process is moved by another; a skipped drain only adds to what the lock's holder has.
LEMMA OthersStay ==
  ASSUME CommandOrder, NEW r \in Procs, NEW p \in Procs, p # r,
         \/ Advance(r) \/ Watch(r) \/ Kill(r)
         \/ \E argv \in Argvs : StartCommand(r, argv)
  PROVE  proc'[p].at = proc[p].at
<1>1. proc \in [Procs -> Proc] BY DEF CommandOrder, CommandTypes
<1>2. ASSUME NEW q, proc' = [proc EXCEPT ![r] = q] PROVE proc'[p].at = proc[p].at
  BY <1>1, <1>2
<1>3. ASSUME NEW code, End(r, code) PROVE proc'[p].at = proc[p].at BY <1>1, <1>3 DEF End
<1>4. ASSUME NEW s, MoveTo(r, s) PROVE proc'[p].at = proc[p].at BY <1>1, <1>4 DEF MoveTo
<1>5. CASE MakeDest(r) BY <1>3, <1>4, <1>5 DEF MakeDest
<1>6. CASE LoadConfig(r) BY <1>1, <1>3, <1>6 DEF LoadConfig
<1>7. CASE ReadVersion(r) BY <1>1, <1>3, <1>7 DEF ReadVersion
<1>8. CASE ApplyMigration(r) BY <1>1, <1>3, <1>8 DEF ApplyMigration
<1>9. CASE OpenDone(r) BY <1>4, <1>9 DEF OpenDone
<1>10. CASE Scan(r) BY <1>1, <1>4, <1>10 DEF Scan
<1>11. CASE NoRoom(r) BY <1>3, <1>11 DEF NoRoom
<1>12. CASE CommitFails(r) BY <1>3, <1>12 DEF CommitFails
<1>13. CASE CopyDone(r) BY <1>4, <1>13 DEF CopyDone
<1>14. CASE Eject(r) BY <1>1, <1>4, <1>14 DEF Eject
<1>15. CASE OffloadGoesOn(r) BY <1>3, <1>4, <1>15 DEF OffloadGoesOn, BuildWorker
<1>16. CASE MirrorGoesOn(r) BY <1>3, <1>4, <1>16 DEF MirrorGoesOn, BuildWorker
<1>17. CASE TryLock(r)
  <2>1. CASE Skip(r)
    <3> DEFINE left == IF lock \in Procs THEN [proc EXCEPT ![lock].entrusted = @ \cup Queued] ELSE proc
    <3>1. proc[p] \in Proc BY <1>1
    <3>2. DOMAIN left = Procs /\ left[p].at = proc[p].at
      <4>1. CASE lock = p
        <5>1. left[p] = [proc[p] EXCEPT !.entrusted = @ \cup Queued] BY <1>1, <4>1
        <5> QED BY <1>1, <3>1, <5>1 DEF Proc
      <4>2. CASE lock # p BY <1>1, <4>2
      <4> QED BY <4>1, <4>2
    <3>3. proc' = [left EXCEPT ![r] = Ended(left[r], ExitCode(r))] BY <2>1 DEF Skip
    <3> HIDE DEF left
    <3>4. proc'[p] = left[p] BY <3>2, <3>3
    <3> QED BY <3>2, <3>4
  <2> QED BY <1>3, <1>4, <1>17, <2>1 DEF TryLock
<1>18. CASE DrainDone(r) BY <1>4, <1>18 DEF DrainDone
<1>19. CASE DrainFails(r) BY <1>3, <1>19 DEF DrainFails
<1>20. CASE Unlock(r) BY <1>3, <1>20 DEF Unlock
<1>21. CASE RetryCloud(r) BY <1>3, <1>21 DEF RetryCloud
<1>22. CASE MirrorStatus(r) BY <1>3, <1>22 DEF MirrorStatus
<1>23. CASE \E f \in Files : CopyFile(r, f) \/ CopyFails(r, f)
  BY <1>1, <1>23 DEF CopyFile, CopyFails
<1>24. CASE \E i \in DOMAIN jobs : Mirrors(r, i) \/ GivesUp(r, i)
  BY <1>1, <1>24 DEF Mirrors, GivesUp
<1>25. CASE Watch(r) BY <1>4, <1>25 DEF Watch
<1>26. CASE Kill(r) BY <1>1, <1>26 DEF Kill
<1>27. CASE \E argv \in Argvs : StartCommand(r, argv) BY <1>1, <1>27 DEF StartCommand
<1> QED
  BY <1>5, <1>6, <1>7, <1>8, <1>9, <1>10, <1>11, <1>12, <1>13, <1>14, <1>15, <1>16, <1>17, <1>18,
     <1>19, <1>20, <1>21, <1>22, <1>23, <1>24, <1>25, <1>26, <1>27 DEF Advance

\* The ways a process may exit: after a fault, with code 1 before it did anything that
\* counts, at a migration that finds its tables there, with what its run counted, or
\* from a command that only uses the ledger.
Faulted(p) == count'.faults # count.faults /\ proc'[p].code = 1
FoundTables(p) ==
  /\ proc[p].seen < 3
  /\ Creates[proc[p].seen + 1] \cap schema.tables # {}
  /\ proc'[p].code = 1
Counted(p) ==
  /\ proc[p].at \in {"build", "lock", "unlock"}
  /\ proc'[p].code = ExitCode(p)
  /\ imported' = imported
UsedLedger(p) == proc[p].at \in {"requeue", "list"} /\ imported' = imported

WayOut(p) ==
  \/ Faulted(p)
  \/ proc[p].at # "migrate" /\ proc'[p].code = 1
  \/ proc[p].at = "migrate" /\ FoundTables(p)
  \/ Counted(p)
  \/ UsedLedger(p)

LEMMA OwnExit ==
  ASSUME CommandOrder, NEW p \in Procs, Exits(p),
         \/ Advance(p) \/ Watch(p) \/ Kill(p)
         \/ \E argv \in Argvs : StartCommand(p, argv)
  PROVE  WayOut(p)
<1>1. /\ proc \in [Procs -> Proc] /\ proc[p] \in Proc
      /\ count \in [commands : 0..MaxCommands, faults : 0..MaxMishaps, mounts : 0..MaxMounts]
  BY DEF CommandOrder, CommandTypes
<1>2. proc[p].at # "off" /\ proc'[p].at = "off" BY DEF Exits
<1>3. ASSUME NEW code \in 0..2, End(p, code) PROVE proc'[p].code = code
  <2>1. proc'[p] = Ended(proc[p], code) BY <1>1, <1>3 DEF End
  <2> QED BY <1>1, <1>2, <2>1, EndedInOrder
<1>4. ASSUME NEW s, MoveTo(p, s) PROVE s = "off"
  <2>1. proc'[p].at = s BY <1>1, <1>4 DEF MoveTo, Proc
  <2> QED BY <1>2, <2>1
<1>5. ASSUME Fault PROVE count'.faults # count.faults
  <2>1. count'.faults = count.faults + 1 BY <1>1, <1>5 DEF Fault
  <2>2. count.faults \in 0..MaxMishaps BY <1>1
  <2> QED BY <2>1, <2>2, CommandAssumption
<1>6. ASSUME NEW q \in Proc, q.at # "off", proc' = [proc EXCEPT ![p] = q] PROVE FALSE
  BY <1>1, <1>2, <1>6
<1>7. ExitCode(p) \in 0..2 BY <1>1, ExitCodeIs
<1>8. CASE MakeDest(p) BY <1>3, <1>4, <1>5, <1>8 DEF MakeDest, WayOut, Faulted
<1>9. CASE LoadConfig(p)
  <2>1. PICK text \in IF proc[p].named THEN Texts ELSE {NoConf} :
          LET conf == Overridden(text, proc[p].flags)
              mirror == proc[p].cmd = "mirror" IN
          IF ~text.valid \/ (mirror /\ text.mode = "none") THEN End(p, 1)
          ELSE proc' = [proc EXCEPT ![p].at = IF mirror THEN "build" ELSE "open",
                                    ![p].conf = conf]
    BY <1>9 DEF LoadConfig
  <2>2. CASE End(p, 1) BY <1>3, <1>9, <2>2 DEF LoadConfig, WayOut
  <2>3. CASE ~End(p, 1)
    <3> DEFINE conf == Overridden(text, proc[p].flags)
    <3>1. proc'[p] = [proc[p] EXCEPT !.at = IF proc[p].cmd = "mirror" THEN "build" ELSE "open", !.conf = conf]
      BY <1>1, <2>1, <2>3
    <3> HIDE DEF conf
    <3>2. proc'[p].at \in {"build", "open"} BY <1>1, <3>1 DEF Proc
    <3> QED BY <1>2, <3>2
  <2> QED BY <2>2, <2>3
<1>10. CASE ReadVersion(p)
  <2>1. CASE dest
    <3>1. proc'[p] = [proc[p] EXCEPT !.at = "migrate", !.seen = schema.version]
      BY <1>1, <1>10, <2>1 DEF ReadVersion
    <3>2. proc'[p].at = "migrate" BY <1>1, <3>1 DEF Proc
    <3> QED BY <1>2, <3>2
  <2>2. CASE ~dest BY <1>3, <1>10, <2>2 DEF ReadVersion, WayOut
  <2> QED BY <2>1, <2>2
<1>11. CASE ApplyMigration(p)
  <2>1. proc[p].at = "migrate" /\ proc[p].seen < 3 BY <1>11 DEF ApplyMigration
  <2>2. CASE Creates[proc[p].seen + 1] \cap schema.tables # {}
    BY <1>3, <1>11, <2>1, <2>2 DEF ApplyMigration, WayOut, FoundTables
  <2>3. CASE Creates[proc[p].seen + 1] \cap schema.tables = {}
    <3>1. proc'[p] = [proc[p] EXCEPT !.seen = proc[p].seen + 1]
      BY <1>1, <1>11, <2>3 DEF ApplyMigration
    <3>2. proc'[p].at = "migrate" BY <1>1, <2>1, <3>1 DEF Proc
    <3> QED BY <1>2, <3>2
  <2> QED BY <2>2, <2>3
<1>12. CASE OpenDone(p)
  <2>1. Opened(p) # "off" BY DEF Opened
  <2> QED BY <1>4, <1>12, <2>1 DEF OpenDone
<1>13. CASE Scan(p)
  <2>1. CASE mounted
    <3>1. proc'[p] = [proc[p] EXCEPT !.at = "copy", !.plan = card \ imported, !.owed = card]
      BY <1>1, <1>13, <2>1 DEF Scan
    <3>2. proc'[p].at = "copy" BY <1>1, <3>1 DEF Proc
    <3> QED BY <1>2, <3>2
  <2>2. CASE ~mounted BY <1>4, <1>13, <2>2 DEF Scan
  <2> QED BY <2>1, <2>2
<1>14. CASE NoRoom(p) BY <1>3, <1>5, <1>14 DEF NoRoom, WayOut, Faulted
<1>15. CASE CommitFails(p) BY <1>3, <1>5, <1>15 DEF CommitFails, WayOut, Faulted
<1>16. CASE CopyDone(p) BY <1>4, <1>16 DEF CopyDone
<1>17. CASE Eject(p)
  <2>1. CASE proc' = [proc EXCEPT ![p].at = "build", ![p].ejected = TRUE]
    <3>1. proc'[p] = [proc[p] EXCEPT !.at = "build", !.ejected = TRUE] BY <1>1, <2>1
    <3>2. proc'[p].at = "build" BY <1>1, <3>1 DEF Proc
    <3> QED BY <1>2, <3>2
  <2> QED BY <1>4, <1>17, <2>1 DEF Eject
<1>18. CASE OffloadGoesOn(p) \/ MirrorGoesOn(p)
  <2>1. proc[p].at = "build" /\ imported' = imported
    BY <1>18 DEF OffloadGoesOn, MirrorGoesOn, ledger
  <2>2. CASE BuildWorker(p) BY <1>3, <1>4, <2>1, <2>2 DEF BuildWorker, WayOut
  <2>3. CASE End(p, ExitCode(p))
    <3>1. proc'[p].code = ExitCode(p) BY <1>3, <1>7, <2>3
    <3> QED BY <2>1, <3>1 DEF WayOut, Counted
  <2> QED BY <1>18, <2>2, <2>3 DEF OffloadGoesOn, MirrorGoesOn
<1>19. CASE TryLock(p)
  <2>1. proc[p].at = "lock" /\ imported' = imported BY <1>19 DEF TryLock, ledger
  <2>2. CASE End(p, 1) BY <1>3, <2>1, <2>2 DEF WayOut
  <2>3. CASE MoveTo(p, "open") BY <1>4, <2>3
  <2>4. CASE Skip(p)
    <3> DEFINE left == IF lock \in Procs THEN [proc EXCEPT ![lock].entrusted = @ \cup Queued] ELSE proc
    <3>1. left[p] \in Proc
      <4>1. jobs \in Seq(Job) BY DEF CommandOrder, CommandTypes
      <4>2. DOMAIN jobs \in SUBSET Nat BY <4>1
      <4>3. Queued \in SUBSET Nat BY <4>2 DEF Queued
      <4>4. CASE lock = p
        <5>1. left[p] = [proc[p] EXCEPT !.entrusted = @ \cup Queued] BY <1>1, <4>4
        <5> HIDE DEF left
        <5> QED BY <1>1, <4>3, <5>1 DEF Proc
      <4>5. CASE lock # p BY <1>1, <4>5
      <4> QED BY <4>4, <4>5
    <3>2. DOMAIN left = Procs BY <1>1
    <3>3. proc' = [left EXCEPT ![p] = Ended(left[p], ExitCode(p))] BY <2>4 DEF Skip
    <3> HIDE DEF left
    <3>4. proc'[p] = Ended(left[p], ExitCode(p)) BY <3>2, <3>3
    <3>5. proc'[p].code = ExitCode(p) BY <1>2, <1>7, <3>1, <3>4, EndedInOrder
    <3> QED BY <2>1, <3>5 DEF WayOut, Counted
  <2> QED BY <1>19, <2>2, <2>3, <2>4 DEF TryLock
<1>20. CASE DrainDone(p) BY <1>4, <1>20 DEF DrainDone
<1>21. CASE DrainFails(p) BY <1>3, <1>5, <1>21 DEF DrainFails, WayOut, Faulted
<1>22. CASE Unlock(p)
  <2>1. proc'[p].code = ExitCode(p) BY <1>3, <1>7, <1>22 DEF Unlock
  <2> QED BY <1>22, <2>1 DEF Unlock, ledger, WayOut, Counted
<1>23. CASE RetryCloud(p) BY <1>23 DEF RetryCloud, WayOut, UsedLedger
<1>24. CASE MirrorStatus(p) BY <1>24 DEF MirrorStatus, ledger, WayOut, UsedLedger
<1>25. CASE \E f \in Files : CopyFile(p, f) \/ CopyFails(p, f)
  <2>1. proc[p].at = "copy" BY <1>25 DEF CopyFile, CopyFails
  <2>2. PICK f \in Files : CopyFile(p, f) \/ CopyFails(p, f) BY <1>25
  <2>3. \/ proc'[p] = [proc[p] EXCEPT !.plan = @ \ {f}]
        \/ proc'[p] = [proc[p] EXCEPT !.plan = @ \ {f}, !.failed = @ + 1, !.lost = @ \cup {f}]
    BY <1>1, <2>2 DEF CopyFile, CopyFails
  <2>4. proc'[p].at = "copy" BY <1>1, <2>1, <2>3 DEF Proc
  <2> QED BY <1>2, <2>4
<1>26. CASE \E i \in DOMAIN jobs : Mirrors(p, i) \/ GivesUp(p, i)
  <2>1. proc[p].at = "drain" BY <1>26 DEF Mirrors, GivesUp
  <2>2. PICK i \in DOMAIN jobs : Mirrors(p, i) \/ GivesUp(p, i) BY <1>26
  <2>3. \/ proc'[p] = proc[p]
        \/ proc'[p] = [proc[p] EXCEPT !.gaveUp = @ + 1, !.lost = @ \cup {jobs[i].file}]
    BY <1>1, <2>2 DEF Mirrors, GivesUp
  <2>4. proc'[p].at = "drain" BY <1>1, <2>1, <2>3 DEF Proc
  <2> QED BY <1>2, <2>4
<1>27. CASE Watch(p) BY <1>4, <1>27 DEF Watch
<1>28. CASE Kill(p)
  <2>1. proc'[p] = [Off EXCEPT !.code = 1] BY <1>1, <1>28 DEF Kill
  <2>2. proc'[p].code = 1 BY <2>1 DEF Off
  <2> QED BY <1>5, <1>28, <2>2 DEF Kill, WayOut, Faulted
<1>29. CASE \E argv \in Argvs : StartCommand(p, argv) BY <1>2, <1>29 DEF StartCommand
<1> QED
  BY <1>8, <1>9, <1>10, <1>11, <1>12, <1>13, <1>14, <1>15, <1>16, <1>17, <1>18, <1>19, <1>20,
     <1>21, <1>22, <1>23, <1>24, <1>25, <1>26, <1>27, <1>28, <1>29 DEF Advance

LEMMA ExitIsWayOut ==
  ASSUME CommandOrder, [CommandNext]_commandVars, NEW p \in Procs, Exits(p)
  PROVE  WayOut(p)
<1>1. proc[p].at # proc'[p].at BY DEF Exits
<1>2. ~UNCHANGED proc BY <1>1
<1>3. ~(Remount \/ AppLocks \/ AppUnlocks) BY <1>2 DEF Remount, AppLocks, AppUnlocks
<1>4. PICK r \in Procs : \/ Advance(r) \/ Watch(r) \/ Kill(r)
                         \/ \E argv \in Argvs : StartCommand(r, argv)
  BY <1>2, <1>3 DEF CommandNext, commandVars
<1>5. r = p BY <1>1, <1>4, OthersStay
<1> QED BY <1>4, <1>5, OwnExit

\* A script may trust exit code 0: what the scan found is imported, and no copy and no
\* upload of the command's own failed (run_offload_and_mirror, drain_counting_failures).
THEOREM CleanExitsAreClean == CommandSpec => CleanExitIsClean
<1>1. CommandOrder /\ [CommandNext]_commandVars =>
        [\A p \in Procs : Exits(p) /\ proc'[p].code = 0 =>
           /\ proc[p].owed \subseteq imported'
           /\ proc[p].lost = {}]_commandVars
  <2> SUFFICES ASSUME CommandOrder, [CommandNext]_commandVars,
                      NEW p \in Procs, Exits(p), proc'[p].code = 0
               PROVE  proc[p].owed \subseteq imported' /\ proc[p].lost = {}
    OBVIOUS
  <2>1. proc[p] \in Proc /\ Accounts(proc[p], imported) /\ OnItsWay(proc[p])
    BY ProcessIs DEF InOrder
  <2>2. Counted(p) \/ UsedLedger(p) BY ExitIsWayOut DEF WayOut, Faulted, FoundTables
  <2>3. CASE Counted(p)
    <3>1. proc[p].failed + proc[p].gaveUp = 0 BY <2>1, <2>3, ExitCodeIs DEF Counted
    <3>2. proc[p].lost = {} /\ proc[p].plan = {} BY <2>1, <2>3, <3>1 DEF Counted, Accounts
    <3> QED BY <2>1, <2>3, <3>2 DEF Counted, Accounts
  <2>4. CASE UsedLedger(p) BY <2>1, <2>4 DEF UsedLedger, Accounts, OnItsWay
  <2> QED BY <2>2, <2>3, <2>4
<1> QED BY <1>1, CommandsInOrder, PTL DEF CommandSpec, CleanExitIsClean

\* A migration fails only because another process has migrated since: whatever died in the
\* middle of an open before, the version tells what is there (from_conn).
THEOREM LedgersOpenUnlessRaced == CommandSpec => OpensUnlessRaced
<1>1. CommandOrder /\ [CommandNext]_commandVars =>
        [\A p \in Procs : proc[p].at = "migrate" /\ Exits(p) /\ count'.faults = count.faults =>
           schema.version # proc[p].seen]_commandVars
  <2> SUFFICES ASSUME CommandOrder, [CommandNext]_commandVars,
                      NEW p \in Procs, proc[p].at = "migrate", Exits(p),
                      count'.faults = count.faults
               PROVE  schema.version # proc[p].seen
    OBVIOUS
  <2>1. FoundTables(p) BY ExitIsWayOut DEF WayOut, Faulted, Counted, UsedLedger
  <2>2. proc[p].seen \in 0..3 BY ProcessIs DEF Proc
  <2>3. schema.version \in 0..3 /\ SchemaIsMade BY DEF CommandOrder, CommandTypes
  <2> DEFINE n == proc[p].seen + 1
  <2>4. n \in 1..3 /\ Creates[n] \cap schema.tables # {} BY <2>1, <2>2 DEF FoundTables
  <2>5. n <= schema.version
    <3> HIDE DEF n
    <3> QED BY <2>3, <2>4, MigrationsAreApart
  <2> QED BY <2>2, <2>3, <2>5
<1> QED BY <1>1, CommandsInOrder, PTL DEF CommandSpec, OpensUnlessRaced
==============================================================================
