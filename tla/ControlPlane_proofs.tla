--------------------------- MODULE ControlPlane_proofs ---------------------------
(***************************************************************************)
(* The control process keeps what it was told and tells what it has, for   *)
(* any handlers, Projects, legacies, connections and scripts.              *)
(***************************************************************************)
EXTENDS ControlPlane, Sequences, FiniteSets, FiniteSetTheorems, TLAPS


Scopes == Projects \cup {"global"}
Files == UNION {Config!FilesOver(S) : S \in SUBSET Projects}

Operations ==
    [pc : {"idle", "lock", "write", "answer"}, scope : Scopes \cup {Config!None}, value : Nat,
     read : Files, answer : {Config!None, "refused", "accepted"}, revision : Nat]

ConfigTypeOK ==
    /\ projects \in {Config!Absent} \cup Config!Registries
    /\ config \in {Config!Absent} \cup Files
    /\ legacy \in [projects : {Config!Absent} \cup Config!Registries, config : {Config!Absent} \cup Config!Lists \cup Files]
    /\ commands \in Nat
    /\ op \in [Threads -> Operations]

\* A command past its read is alone, and the file is what it read until it has written.
Holds(t) ==
    /\ op[t].pc \in {"write", "answer"} => lock = t /\ op[t].scope \in Scopes
    /\ op[t].pc = "write" => op[t].read = Config!Content(config, Config!Registered(projects))
    /\ op[t].pc # "idle" => process = "open" /\ op[t].scope \in Scopes

\* What a command has written is there, or something later is.
IsRecorded(t) ==
    /\ config # Config!Absent /\ config.revision >= op[t].revision
    /\ config.revision = op[t].revision => Config!Scope(config, op[t].scope) = op[t].value
Tells(t) == op[t].pc = "answer" \/ op[t].answer = "accepted" => IsRecorded(t)

\* Also while the process is down: a configuration is the legacy one or a later one.
LegacyIsKept ==
    legacy.config # Config!Absent =>
        /\ process = "open" => config # Config!Absent
        /\ config # Config!Absent =>
            /\ config.revision >= legacy.config.revision
            /\ config.revision = legacy.config.revision =>
                config = Config!Content(legacy.config, Config!Registered(legacy.projects))

ConfigInv ==
    /\ ConfigTypeOK /\ LegacyIsKept
    /\ \A t \in Threads : Holds(t) /\ Tells(t)

-----------------------------------------------------------------------------
(* What is read, and what a command makes of it. *)

\* A configuration has its fields.
LEMMA FileFields ==
    ASSUME NEW c, Config!IsFile(c)
    PROVE  /\ c # Config!Absent /\ c.kind = "file" /\ c.global \in Nat /\ c.revision \in Nat
           /\ \E S \in SUBSET Projects : c.defaults \in [S -> Nat]
           /\ c = [kind |-> "file", global |-> c.global, defaults |-> c.defaults, revision |-> c.revision]
<1>1. PICK S \in SUBSET Projects : c \in Config!FilesOver(S)
  BY DEF Config!IsFile
<1>2. c.kind = "file" /\ c.global \in Nat /\ c.revision \in Nat /\ c.defaults \in [S -> Nat]
  BY <1>1 DEF Config!FilesOver
<1>3. Config!Absent.kind = "absent"
  BY DEF Config!Absent
<1>4. c = [kind |-> c.kind, global |-> c.global, defaults |-> c.defaults, revision |-> c.revision]
  BY <1>1 DEF Config!FilesOver
<1> QED  BY <1>2, <1>3, <1>4

\* Any record with those fields is a configuration.
LEMMA FileMade ==
    ASSUME NEW g \in Nat, NEW r \in Nat, NEW S \in SUBSET Projects, NEW d \in [S -> Nat]
    PROVE  [kind |-> "file", global |-> g, defaults |-> d, revision |-> r] \in Files
BY DEF Files, Config!FilesOver

\* The configurations are what IsFile says of a legacy one.
LEMMA FilesAreFiles == \A c : c \in Files <=> Config!IsFile(c)
BY DEF Files, Config!IsFile

\* The default is a configuration.
LEMMA DefaultIsFile == Config!Default \in Files
<1>1. [p \in {} |-> 0] \in [{} -> Nat]
  OBVIOUS
<1>2. {} \in SUBSET Projects
  OBVIOUS
<1> QED  BY <1>1, <1>2, FileMade DEF Config!Default

\* The Projects of a registry.
LEMMA RegisteredType ==
    ASSUME NEW f \in {Config!Absent} \cup Config!Registries
    PROVE  Config!Registered(f) \in SUBSET Projects
BY DEF Config!Registered, Config!Registries

\* A file that is there is read as it is.
LEMMA ContentOfFile ==
    ASSUME NEW m
    PROVE  /\ Config!Content(Config!Absent, m) = Config!Default
           /\ \A c \in Files : Config!Content(c, m) = c
<1>1. Config!Content(Config!Absent, m) = Config!Default
  BY DEF Config!Content
<1>2. ASSUME NEW c \in Files PROVE Config!Content(c, m) = c
  <2>1. c # Config!Absent /\ c.kind = "file"
    BY FileFields, FilesAreFiles
  <2> QED  BY <2>1 DEF Config!Content
<1> QED  BY <1>1, <1>2

\* What an older version left is read as a configuration with its revision.
LEMMA ContentOfLegacy ==
    ASSUME NEW f \in Config!Lists \cup Files, NEW m \in SUBSET Projects
    PROVE  Config!Content(f, m) \in Files /\ Config!Content(f, m).revision = f.revision
<1>1. CASE f \in Files
  BY <1>1, ContentOfFile
<1>2. CASE f \in Config!Lists
  <2>1. f.kind = "list" /\ f.global \in Nat /\ f.entry \in Nat /\ f.revision \in Nat
    BY <1>2 DEF Config!Lists
  <2>2. f # Config!Absent
    BY <2>1 DEF Config!Absent
  <2>3. Config!Content(f, m) = [kind |-> "file", global |-> f.global, revision |-> f.revision,
                         defaults |-> [p \in m |-> f.entry]]
    BY <2>1, <2>2 DEF Config!Content
  <2>4. [p \in m |-> f.entry] \in [m -> Nat]
    BY <2>1
  <2> QED  BY <2>1, <2>3, <2>4, FileMade
<1> QED  BY <1>1, <1>2

\* A command raises the revision, sets its scope and leaves the others.
LEMMA ChangedIs ==
    ASSUME NEW c \in Files, NEW s \in Scopes, NEW v \in Nat
    PROVE  /\ Config!Changed(c, s, v) \in Files
           /\ Config!Changed(c, s, v).revision = c.revision + 1
           /\ Config!Scope(Config!Changed(c, s, v), s) = v
           /\ \A z \in Scopes \ {s} : Config!Scope(Config!Changed(c, s, v), z) = Config!Scope(c, z)
<1>1. c.global \in Nat /\ c.revision \in Nat /\ c.revision + 1 \in Nat
  BY FileFields, FilesAreFiles
<1>2. PICK S \in SUBSET Projects : c.defaults \in [S -> Nat]
  BY FileFields, FilesAreFiles
<1>3. CASE s = "global"
  <2>1. Config!Changed(c, s, v) =
            [kind |-> "file", global |-> v, defaults |-> c.defaults, revision |-> c.revision + 1]
    BY <1>3 DEF Config!Changed
  <2>2. Config!Changed(c, s, v) \in Files
    BY <2>1, <1>1, <1>2, FileMade
  <2> QED  BY <2>1, <2>2, <1>3 DEF Config!Scope, Scopes
<1>4. CASE s # "global"
  <2> DEFINE d == [p \in S \cup {s} |-> IF p = s THEN v ELSE c.defaults[p]]
  <2>1. s \in Projects /\ S \cup {s} \in SUBSET Projects
    BY <1>4 DEF Scopes
  <2>2. DOMAIN c.defaults = S
    BY <1>2
  <2>3. Config!Changed(c, s, v) =
            [kind |-> "file", global |-> c.global, defaults |-> d, revision |-> c.revision + 1]
    BY <1>4, <2>2 DEF Config!Changed
  <2>4. d \in [S \cup {s} -> Nat]
    BY <1>2
  <2>5. Config!Changed(c, s, v) \in Files
    BY <2>1, <2>3, <2>4, <1>1, FileMade
  <2>6. Config!Scope(Config!Changed(c, s, v), s) = v
    BY <2>3, <2>4, <1>4 DEF Config!Scope
  <2>7. ASSUME NEW z \in Scopes \ {s} PROVE Config!Scope(Config!Changed(c, s, v), z) = Config!Scope(c, z)
    BY <2>2, <2>3, <2>4, <2>7 DEF Config!Scope
  <2> QED  BY <2>3, <2>5, <2>6, <2>7
<1> QED  BY <1>3, <1>4

-----------------------------------------------------------------------------
(* Every step keeps the invariant. *)

\* What a thread is doing is one operation, and a step changes its own.
LEMMA StepIs ==
    ASSUME ConfigTypeOK, NEW t \in Threads, NEW x \in Operations, Config!Step(t, x)
    PROVE  /\ op' \in [Threads -> Operations] /\ op'[t] = x
           /\ \A u \in Threads \ {t} : op'[u] = op[u]
BY DEF Config!Step, ConfigTypeOK

\* A thread with nothing to do.
LEMMA QuietIs == Config!Quiet \in Operations /\ Config!Quiet.pc = "idle" /\ Config!Quiet.answer # "accepted"
BY DefaultIsFile DEF Config!Quiet, Operations, Config!None

\* The fields of an answer.
LEMMA AnswerIs ==
    ASSUME ConfigTypeOK, NEW t \in Threads, NEW a \in {"refused", "accepted"}, NEW r \in Nat,
           Config!Answer(t, a, r)
    PROVE  /\ op' \in [Threads -> Operations]
           /\ op'[t].pc = "idle" /\ op'[t].answer = a /\ op'[t].revision = r
           /\ op'[t].scope = op[t].scope /\ op'[t].value = op[t].value
           /\ \A u \in Threads \ {t} : op'[u] = op[u]
<1> DEFINE x == [Config!Quiet EXCEPT !.scope = op[t].scope, !.value = op[t].value, !.answer = a, !.revision = r]
<1>1. op[t].scope \in Scopes \cup {Config!None} /\ op[t].value \in Nat
  BY DEF ConfigTypeOK, Operations
<1>2. /\ x \in Operations /\ x.pc = "idle" /\ x.answer = a /\ x.revision = r
      /\ x.scope = op[t].scope /\ x.value = op[t].value
  <2>1. Config!Quiet \in Operations /\ Config!Quiet.pc = "idle"
    BY QuietIs
  <2> QED  BY <1>1, <2>1 DEF Operations
<1>3. Config!Step(t, x)
  BY DEF Config!Answer
<1>4. /\ op' \in [Threads -> Operations] /\ op'[t] = x
      /\ \A u \in Threads \ {t} : op'[u] = op[u]
  BY <1>2, <1>3, StepIs
<1> QED  BY <1>2, <1>4

\* A thread whose operation does not change tells what it told, and holds what it held.
LEMMA OthersKeep ==
    ASSUME NEW u, op'[u] = op[u], UNCHANGED config, Holds(u), Tells(u),
           op[u].pc # "idle" => process' = "open",
           op[u].pc \in {"write", "answer"} => lock' = lock,
           op[u].pc = "write" => Config!Content(config, Config!Registered(projects'))
                                    = Config!Content(config, Config!Registered(projects))
    PROVE  Holds(u)' /\ Tells(u)'
<1>1. Holds(u)'
  BY DEF Holds
<1>2. Tells(u)'
  BY DEF Tells, IsRecorded
<1> QED  BY <1>1, <1>2

\* What a configuration is read as does not depend on the Projects.
LEMMA ContentIs ==
    ASSUME ConfigTypeOK, NEW m
    PROVE  /\ Config!Content(config, m) = IF config = Config!Absent THEN Config!Default ELSE config
           /\ Config!Content(config, m) \in Files
<1>1. config = Config!Absent \/ config \in Files
  BY DEF ConfigTypeOK
<1>2. config \in Files => config # Config!Absent
  BY FileFields, FilesAreFiles
<1> QED  BY <1>1, <1>2, ContentOfFile, DefaultIsFile

\* The first start finds one of the legacies, and nobody at work.
LEMMA InitHolds == ASSUME Config!ConfigurationAssumption PROVE Config!Init => ConfigInv
<1> SUFFICES ASSUME Config!Init PROVE ConfigInv
  OBVIOUS
<1>1. Config!Quiet \in Operations
  BY QuietIs
<1>2. /\ legacy \in Legacies /\ legacy = [projects |-> legacy.projects, config |-> legacy.config]
      /\ legacy.projects \in {Config!Absent} \cup Config!Registries
      /\ legacy.config \in {Config!Absent} \cup Config!Lists \/ Config!IsFile(legacy.config)
  BY DEF Config!ConfigurationAssumption, Config!Init
<1>3. legacy.config \in {Config!Absent} \cup Config!Lists \cup Files
  BY <1>2, FilesAreFiles
<1>4. legacy \in [projects : {Config!Absent} \cup Config!Registries, config : {Config!Absent} \cup Config!Lists \cup Files]
  BY <1>2, <1>3
<1>5. ConfigTypeOK
  BY <1>1, <1>4 DEF ConfigTypeOK, Config!Init
<1>6. LegacyIsKept
  BY DEF LegacyIsKept, Config!Init
<1>7. \A t \in Threads : Holds(t) /\ Tells(t)
  BY DEF Holds, Tells, Config!Init, Config!Quiet, Config!None
<1> QED  BY <1>5, <1>6, <1>7 DEF ConfigInv

\* The legacy Projects are adopted while nobody is at work.
LEMMA AdoptProjectsKeeps == ConfigInv /\ Config!AdoptProjects => ConfigInv'
<1> SUFFICES ASSUME ConfigInv, Config!AdoptProjects PROVE ConfigInv'
  OBVIOUS
<1>1. ConfigTypeOK'
  BY DEF ConfigInv, ConfigTypeOK, Config!AdoptProjects
<1>2. LegacyIsKept'
  BY DEF ConfigInv, LegacyIsKept, Config!AdoptProjects
<1>3. ASSUME NEW t \in Threads PROVE Holds(t)' /\ Tells(t)'
  <2>1. op[t].pc = "idle"
    BY DEF ConfigInv, Holds, Config!AdoptProjects
  <2> QED  BY <2>1, OthersKeep DEF ConfigInv, Config!AdoptProjects
<1> QED  BY <1>1, <1>2, <1>3 DEF ConfigInv

\* The legacy configuration is adopted while nobody is at work and there is none.
LEMMA AdoptConfigurationKeeps == ConfigInv /\ Config!AdoptConfiguration => ConfigInv'
<1> SUFFICES ASSUME ConfigInv, Config!AdoptConfiguration PROVE ConfigInv'
  OBVIOUS
<1> DEFINE adopted == Config!Content(legacy.config, Config!Registered(legacy.projects))
<1>1. UNCHANGED <<projects, legacy, lock, op, commands>>
  BY DEF Config!AdoptConfiguration
<1>2. legacy.projects \in {Config!Absent} \cup Config!Registries /\ legacy.config \in {Config!Absent} \cup Config!Lists \cup Files
  BY DEF ConfigInv, ConfigTypeOK
<1>3. legacy.config # Config!Absent => adopted \in Files /\ adopted.revision = legacy.config.revision
  BY <1>2, RegisteredType, ContentOfLegacy
<1>4. \/ config' = config /\ (config # Config!Absent \/ legacy.config = Config!Absent \/ process' = "failed")
      \/ config = Config!Absent /\ legacy.config # Config!Absent /\ config' = adopted
  BY DEF Config!AdoptConfiguration
<1>5. ConfigTypeOK'
  BY <1>1, <1>3, <1>4 DEF ConfigInv, ConfigTypeOK
<1>6. LegacyIsKept'
  <2>1. CASE config' = config /\ (config # Config!Absent \/ legacy.config = Config!Absent \/ process' = "failed")
    BY <2>1, <1>1 DEF ConfigInv, LegacyIsKept
  <2>2. CASE config = Config!Absent /\ legacy.config # Config!Absent /\ config' = adopted
    <3>1. config' # Config!Absent /\ config'.revision = legacy.config.revision /\ config'.revision \in Nat
      BY <2>2, <1>3, FileFields, FilesAreFiles
    <3> QED  BY <3>1, <2>2, <1>1 DEF LegacyIsKept
  <2> QED  BY <2>1, <2>2, <1>4
<1>7. ASSUME NEW t \in Threads PROVE Holds(t)' /\ Tells(t)'
  <2>1. op[t].pc = "idle" /\ op'[t] = op[t]
    BY <1>1 DEF ConfigInv, Holds, Config!AdoptConfiguration
  <2>2. Holds(t)'
    BY <2>1 DEF Holds
  <2>3. CASE config = Config!Absent
    <3>1. op[t].answer # "accepted"
      BY <2>3 DEF ConfigInv, Tells, IsRecorded
    <3> QED  BY <3>1, <2>1, <2>2 DEF Tells
  <2>4. CASE config # Config!Absent
    <3>1. config' = config
      BY <2>4, <1>4
    <3> QED  BY <3>1, <2>1, <2>2 DEF ConfigInv, Tells, IsRecorded
  <2> QED  BY <2>3, <2>4
<1> QED  BY <1>5, <1>6, <1>7 DEF ConfigInv

\* A registration changes no configuration, and not what one is read as.
LEMMA RegisterKeeps == ASSUME NEW p \in Projects PROVE ConfigInv /\ Config!Register(p) => ConfigInv'
<1> SUFFICES ASSUME ConfigInv, Config!Register(p) PROVE ConfigInv'
  OBVIOUS
<1>1. Config!Registered(projects) \in SUBSET Projects
  BY RegisteredType DEF ConfigInv, ConfigTypeOK
<1>2. projects' \in Config!Registries
  BY <1>1 DEF Config!Register, Config!Registries
<1>3. ConfigTypeOK'
  BY <1>2 DEF ConfigInv, ConfigTypeOK, Config!Register
<1>4. LegacyIsKept'
  BY DEF ConfigInv, LegacyIsKept, Config!Register
<1>5. ASSUME NEW t \in Threads PROVE Holds(t)' /\ Tells(t)'
  <2>1. Config!Content(config, Config!Registered(projects')) = Config!Content(config, Config!Registered(projects))
    BY ContentIs DEF ConfigInv
  <2> QED  BY <2>1, OthersKeep DEF ConfigInv, Config!Register
<1> QED  BY <1>3, <1>4, <1>5 DEF ConfigInv

\* A command that begins waits for the lock.
LEMMA BeginKeeps ==
    ASSUME NEW t \in Threads, NEW s \in Scopes
    PROVE  ConfigInv /\ Config!Begin(t, s) => ConfigInv'
<1> SUFFICES ASSUME ConfigInv, Config!Begin(t, s) PROVE ConfigInv'
  OBVIOUS
<1> DEFINE x == [Config!Quiet EXCEPT !.pc = "lock", !.scope = s, !.value = commands + 1]
<1>1. x \in Operations /\ x.pc = "lock" /\ x.scope = s /\ x.answer # "accepted"
  <2>1. commands + 1 \in Nat
    BY DEF ConfigInv, ConfigTypeOK
  <2>2. ASSUME NEW q \in Operations, NEW v \in Nat, NEW y, y = [q EXCEPT !.pc = "lock", !.scope = s, !.value = v]
        PROVE  y \in Operations /\ y.pc = "lock" /\ y.scope = s /\ y.answer = q.answer
    BY <2>2 DEF Operations
  <2> QED  BY <2>1, <2>2, QuietIs
<1>2. Config!Step(t, x)
  BY DEF Config!Begin
<1>3. /\ op' \in [Threads -> Operations] /\ op'[t] = x
      /\ \A u \in Threads \ {t} : op'[u] = op[u]
  BY <1>1, <1>2, StepIs DEF ConfigInv
<1>4. UNCHANGED <<projects, config, legacy, process, lock>> /\ process = "open" /\ commands' = commands + 1
  BY DEF Config!Begin
<1>5. ConfigTypeOK' /\ LegacyIsKept'
  BY <1>3, <1>4 DEF ConfigInv, ConfigTypeOK, LegacyIsKept
<1>6. ASSUME NEW u \in Threads PROVE Holds(u)' /\ Tells(u)'
  <2>1. CASE u = t
    BY <2>1, <1>1, <1>3, <1>4 DEF Holds, Tells
  <2>2. CASE u # t
    BY <2>2, <1>3, <1>4, OthersKeep DEF ConfigInv
  <2> QED  BY <2>1, <2>2
<1> QED  BY <1>5, <1>6 DEF ConfigInv

\* A command reads with the lock nobody had, or is refused.
LEMMA ReadKeeps ==
    ASSUME Config!ConfigurationAssumption, NEW t \in Threads
    PROVE  ConfigInv /\ Config!Read(t) => ConfigInv'
<1> SUFFICES ASSUME ConfigInv, Config!Read(t) PROVE ConfigInv'
  OBVIOUS
<1>1. UNCHANGED <<projects, config, legacy, process, commands>> /\ process = "open"
  BY DEF Config!Read
<1>2. \A u \in Threads : op[u].pc \notin {"write", "answer"}
  BY DEF ConfigInv, Holds, Config!Read, Config!ConfigurationAssumption
<1>3. op[t].pc = "lock" /\ op[t].scope \in Scopes
  BY DEF ConfigInv, Holds, Config!Read
<1>4. LegacyIsKept'
  BY <1>1 DEF ConfigInv, LegacyIsKept
<1>5. CASE Config!Readable(config, Config!Registered(projects))
  <2> DEFINE x == [op[t] EXCEPT !.pc = "write", !.read = Config!Content(config, Config!Registered(projects))]
  <2>1. Config!Content(config, Config!Registered(projects)) \in Files
    BY ContentIs DEF ConfigInv
  <2>2. /\ x \in Operations /\ x.pc = "write" /\ x.scope = op[t].scope
        /\ x.read = Config!Content(config, Config!Registered(projects))
        /\ x.answer = op[t].answer /\ x.revision = op[t].revision /\ x.value = op[t].value
    <3>1. op[t] \in Operations
      BY DEF ConfigInv, ConfigTypeOK
    <3> QED  BY <2>1, <3>1 DEF Operations
  <2>3. lock' = t /\ Config!Step(t, x)
    BY <1>5 DEF Config!Read
  <2>4. /\ op' \in [Threads -> Operations] /\ op'[t] = x
        /\ \A u \in Threads \ {t} : op'[u] = op[u]
    BY <2>2, <2>3, StepIs DEF ConfigInv
  <2>5. ConfigTypeOK'
    BY <1>1, <2>4 DEF ConfigInv, ConfigTypeOK
  <2>6. Holds(t)' /\ Tells(t)'
    <3>1. Holds(t)'
      BY <1>1, <1>3, <2>2, <2>3, <2>4 DEF Holds
    <3>2. Tells(t)'
      BY <1>1, <2>2, <2>4 DEF ConfigInv, Tells, IsRecorded
    <3> QED  BY <3>1, <3>2
  <2>7. \A u \in Threads \ {t} : Holds(u)' /\ Tells(u)'
    BY <1>1, <1>2, <2>4, OthersKeep DEF ConfigInv
  <2> QED  BY <1>4, <2>5, <2>6, <2>7 DEF ConfigInv
<1>6. CASE ~Config!Readable(config, Config!Registered(projects))
  <2>1. Config!Answer(t, "refused", 0) /\ lock' = lock
    BY <1>6 DEF Config!Read
  <2>2. /\ op' \in [Threads -> Operations]
        /\ op'[t].pc = "idle" /\ op'[t].answer = "refused"
        /\ \A u \in Threads \ {t} : op'[u] = op[u]
    BY <2>1, AnswerIs DEF ConfigInv
  <2>3. ConfigTypeOK'
    BY <1>1, <2>2 DEF ConfigInv, ConfigTypeOK
  <2>4. Holds(t)' /\ Tells(t)'
    BY <2>2 DEF Holds, Tells
  <2>5. \A u \in Threads \ {t} : Holds(u)' /\ Tells(u)'
    BY <1>1, <2>1, <2>2, OthersKeep DEF ConfigInv
  <2> QED  BY <1>4, <2>3, <2>4, <2>5 DEF ConfigInv
<1> QED  BY <1>5, <1>6

\* What a command writes is the file it read with its own scope changed.
LEMMA WriteIs ==
    ASSUME NEW t \in Threads, ConfigInv, Config!Write(t)
    PROVE  LET before == Config!Content(config, Config!Registered(projects)) IN
           /\ before \in Files /\ before = IF config = Config!Absent THEN Config!Default ELSE config
           /\ op[t].scope \in Scopes /\ op[t].value \in Nat /\ process = "open" /\ lock = t
           /\ config' = Config!Changed(before, op[t].scope, op[t].value)
           /\ config' \in Files /\ config' # Config!Absent /\ config'.revision = before.revision + 1
           /\ Config!Scope(config', op[t].scope) = op[t].value
           /\ \A z \in Scopes \ {op[t].scope} : Config!Scope(config', z) = Config!Scope(before, z)
<1> DEFINE before == Config!Content(config, Config!Registered(projects))
<1>1. before \in Files /\ before = IF config = Config!Absent THEN Config!Default ELSE config
  BY ContentIs DEF ConfigInv
<1>2. op[t].scope \in Scopes /\ process = "open" /\ lock = t /\ op[t].read = before
  BY DEF ConfigInv, Holds, Config!Write
<1>3. op[t].value \in Nat
  BY DEF ConfigInv, ConfigTypeOK, Operations
<1>4. config' = Config!Changed(before, op[t].scope, op[t].value)
  BY <1>2 DEF Config!Write
<1>5. /\ config' \in Files /\ config'.revision = before.revision + 1
      /\ Config!Scope(config', op[t].scope) = op[t].value
      /\ \A z \in Scopes \ {op[t].scope} : Config!Scope(config', z) = Config!Scope(before, z)
  BY <1>1, <1>2, <1>3, <1>4, ChangedIs
<1>6. config' # Config!Absent
  BY <1>5, FileFields, FilesAreFiles
<1> QED  BY <1>1, <1>2, <1>3, <1>4, <1>5, <1>6

\* A write has a revision nobody was answered with.
LEMMA WriteKeeps == ASSUME NEW t \in Threads PROVE ConfigInv /\ Config!Write(t) => ConfigInv'
<1> SUFFICES ASSUME ConfigInv, Config!Write(t) PROVE ConfigInv'
  OBVIOUS
<1> DEFINE before == Config!Content(config, Config!Registered(projects))
           x == [op[t] EXCEPT !.pc = "answer", !.revision = config'.revision]
<1>1. UNCHANGED <<projects, legacy, process, lock, commands>>
  BY DEF Config!Write
<1>2. /\ before \in Files /\ before = IF config = Config!Absent THEN Config!Default ELSE config
      /\ op[t].scope \in Scopes /\ process = "open" /\ lock = t
      /\ config' \in Files /\ config' # Config!Absent /\ config'.revision = before.revision + 1
      /\ Config!Scope(config', op[t].scope) = op[t].value
  BY WriteIs
<1>3. before.revision \in Nat /\ config'.revision \in Nat
  BY <1>2, FileFields, FilesAreFiles
<1>4. /\ x \in Operations /\ x.pc = "answer" /\ x.scope = op[t].scope /\ x.value = op[t].value
      /\ x.revision = config'.revision
  <2>1. op[t] \in Operations
    BY DEF ConfigInv, ConfigTypeOK
  <2> QED  BY <2>1, <1>3 DEF Operations
<1>5. /\ op' \in [Threads -> Operations] /\ op'[t] = x
      /\ \A u \in Threads \ {t} : op'[u] = op[u]
  <2>1. Config!Step(t, x)
    BY DEF Config!Write
  <2> QED  BY <2>1, <1>4, StepIs DEF ConfigInv
<1>6. ConfigTypeOK'
  BY <1>1, <1>2, <1>5 DEF ConfigInv, ConfigTypeOK
<1>7. LegacyIsKept'
  <2>1. legacy.config # Config!Absent => config # Config!Absent /\ config.revision >= legacy.config.revision
    BY <1>2 DEF ConfigInv, LegacyIsKept
  <2>2. legacy.config # Config!Absent => legacy.config.revision \in Nat
    BY FileFields, FilesAreFiles DEF ConfigInv, ConfigTypeOK, Config!Lists
  <2>3. legacy.config # Config!Absent => config'.revision > legacy.config.revision
    BY <2>1, <2>2, <1>2, <1>3
  <2> QED  BY <2>2, <2>3, <1>1, <1>2, <1>3 DEF LegacyIsKept
<1>8. Holds(t)' /\ Tells(t)'
  <2>1. Holds(t)'
    BY <1>1, <1>2, <1>4, <1>5 DEF Holds
  <2>2. Tells(t)'
    BY <1>2, <1>3, <1>4, <1>5 DEF Tells, IsRecorded
  <2> QED  BY <2>1, <2>2
<1>9. ASSUME NEW u \in Threads \ {t} PROVE Holds(u)' /\ Tells(u)'
  <2>1. op'[u] = op[u] /\ op[u].pc \notin {"write", "answer"}
    BY <1>2, <1>5 DEF ConfigInv, Holds
  <2>2. Holds(u)'
    BY <2>1, <1>1, <1>2 DEF ConfigInv, Holds
  <2>3. op[u].revision \in Nat
    BY DEF ConfigInv, ConfigTypeOK, Operations
  <2>4. op[u].answer = "accepted" =>
            config # Config!Absent /\ config.revision >= op[u].revision
    BY DEF ConfigInv, Tells, IsRecorded
  <2>5. op[u].answer = "accepted" => config'.revision > op[u].revision
    BY <2>3, <2>4, <1>2, <1>3
  <2>6. Tells(u)'
    BY <2>1, <2>3, <2>5, <1>2, <1>3 DEF Tells, IsRecorded
  <2> QED  BY <2>2, <2>6
<1> QED  BY <1>6, <1>7, <1>8, <1>9 DEF ConfigInv

\* A command is answered with what it has written.
LEMMA RespondKeeps == ASSUME NEW t \in Threads PROVE ConfigInv /\ Config!Respond(t) => ConfigInv'
<1> SUFFICES ASSUME ConfigInv, Config!Respond(t) PROVE ConfigInv'
  OBVIOUS
<1>1. UNCHANGED <<projects, config, legacy, process, commands>> /\ process = "open"
  BY DEF Config!Respond
<1>2. op[t].pc = "answer" /\ lock = t /\ lock' = Config!None /\ IsRecorded(t)
  BY DEF ConfigInv, Holds, Tells, Config!Respond
<1>3. op[t].revision \in Nat
  BY DEF ConfigInv, ConfigTypeOK, Operations
<1>4. PICK a \in {"refused", "accepted"}, r \in Nat :
        Config!Answer(t, a, r) /\ (a = "accepted" => r = op[t].revision)
  BY <1>3 DEF Config!Respond
<1>5. /\ op' \in [Threads -> Operations]
      /\ op'[t].pc = "idle" /\ op'[t].answer = a /\ op'[t].revision = r
      /\ op'[t].scope = op[t].scope /\ op'[t].value = op[t].value
      /\ \A u \in Threads \ {t} : op'[u] = op[u]
  BY <1>4, AnswerIs DEF ConfigInv
<1>6. ConfigTypeOK' /\ LegacyIsKept'
  BY <1>1, <1>5 DEF ConfigInv, ConfigTypeOK, LegacyIsKept
<1>7. Holds(t)' /\ Tells(t)'
  BY <1>1, <1>2, <1>4, <1>5 DEF Holds, Tells, IsRecorded
<1>8. ASSUME NEW u \in Threads \ {t} PROVE Holds(u)' /\ Tells(u)'
  <2>1. op'[u] = op[u] /\ op[u].pc \notin {"write", "answer"}
    BY <1>2, <1>5 DEF ConfigInv, Holds
  <2> QED  BY <2>1, <1>1, OthersKeep DEF ConfigInv
<1> QED  BY <1>6, <1>7, <1>8 DEF ConfigInv

\* A crash forgets who was at work; the answers given stay given.
LEMMA CrashKeeps == ConfigInv /\ Config!Crash => ConfigInv'
<1> SUFFICES ASSUME ConfigInv, Config!Crash PROVE ConfigInv'
  OBVIOUS
<1>1. UNCHANGED <<projects, config, legacy, commands>> /\ process' = "closed"
  BY DEF Config!Crash
<1>2. \A t \in Threads : op'[t] = IF op[t].pc = "idle" THEN op[t] ELSE Config!Quiet
  BY DEF Config!Crash
<1>3. op' \in [Threads -> Operations]
  BY QuietIs DEF Config!Crash, ConfigInv, ConfigTypeOK
<1>4. ConfigTypeOK' /\ LegacyIsKept'
  BY <1>1, <1>3 DEF ConfigInv, ConfigTypeOK, LegacyIsKept
<1>5. ASSUME NEW t \in Threads PROVE Holds(t)' /\ Tells(t)'
  <2>1. op'[t].pc = "idle"
    BY <1>2, QuietIs
  <2>2. op'[t] = op[t] \/ op'[t].answer # "accepted"
    BY <1>2, QuietIs
  <2>3. Holds(t)'
    BY <2>1 DEF Holds
  <2>4. Tells(t)'
    BY <2>1, <2>2, <1>1 DEF ConfigInv, Tells, IsRecorded
  <2> QED  BY <2>3, <2>4
<1> QED  BY <1>4, <1>5 DEF ConfigInv

\* Every step keeps it.
LEMMA StepHolds == ASSUME Config!ConfigurationAssumption PROVE ConfigInv /\ [Config!Next]_Config!vars => ConfigInv'
<1> SUFFICES ASSUME ConfigInv, [Config!Next]_Config!vars PROVE ConfigInv'
  OBVIOUS
<1>1. CASE UNCHANGED Config!vars
  <2>1. ConfigTypeOK' /\ LegacyIsKept'
    BY <1>1 DEF ConfigInv, ConfigTypeOK, LegacyIsKept, Config!vars
  <2>2. \A t \in Threads : Holds(t)' /\ Tells(t)'
    BY <1>1, OthersKeep DEF ConfigInv, Holds, Config!vars
  <2> QED  BY <2>1, <2>2 DEF ConfigInv
<1>2. CASE Config!AdoptProjects \/ Config!AdoptConfiguration \/ Config!Crash
  BY <1>2, AdoptProjectsKeeps, AdoptConfigurationKeeps, CrashKeeps
<1>3. ASSUME NEW p \in Projects, Config!Register(p) PROVE ConfigInv'
  BY <1>3, RegisterKeeps
<1>4. ASSUME NEW t \in Threads, NEW s \in Scopes, Config!Begin(t, s) PROVE ConfigInv'
  BY <1>4, BeginKeeps
<1>5. ASSUME NEW t \in Threads, Config!Read(t) \/ Config!Write(t) \/ Config!Respond(t) PROVE ConfigInv'
  BY <1>5, ReadKeeps, WriteKeeps, RespondKeeps
<1> QED  BY <1>1, <1>2, <1>3, <1>4, <1>5 DEF Config!Next, Scopes

-----------------------------------------------------------------------------
(* The theorems. *)

\* At any moment a command past its read is alone with the file it read, and the file has
\* what every accepted command wrote, or something of a later revision (canonical_control.rs).
THEOREM ConfigurationHolds == ASSUME Config!ConfigurationAssumption PROVE Config!Spec => []ConfigInv
<1>1. Config!Init => ConfigInv
  BY InitHolds
<1>2. ConfigInv /\ [Config!Next]_Config!vars => ConfigInv'
  BY StepHolds
<1> QED  BY <1>1, <1>2, PTL DEF Config!Spec

\* The older version's configuration and every accepted command survive starts that are
\* cut off, handlers at the same time, and crashes (open_process, write_configuration).
THEOREM ConfigurationStaysDurable ==
    ASSUME Config!ConfigurationAssumption PROVE Config!Spec => []ConfigurationIsDurable
<1>1. ConfigInv => ConfigurationIsDurable
  BY DEF ConfigInv, LegacyIsKept, Tells, IsRecorded, ConfigurationIsDurable, Config!ConfigurationIsDurable, Config!LegacyIsAdopted,
         Config!AcceptedIsDurable
<1> QED  BY <1>1, ConfigurationHolds, PTL

\* One command changes one scope of the file as it stands and takes the next revision: no
\* command undoes another one or gets its revision (set_project_defaults).
THEOREM CommandsChangeOneScope ==
    ASSUME Config!ConfigurationAssumption PROVE Config!Spec => Config!OneScopeAtATime
<1> DEFINE A == config # Config!Absent /\ config.kind = "file" /\ config' # config =>
                    /\ config'.revision = config.revision + 1
                    /\ \E changed \in Projects \cup {"global"} :
                        \A s \in Projects \cup {"global"} :
                            s # changed => Config!Scope(config', s) = Config!Scope(config, s)
<1>1. ConfigInv /\ [Config!Next]_Config!vars => A
  <2> SUFFICES ASSUME ConfigInv, [Config!Next]_Config!vars, config # Config!Absent,
                      config.kind = "file", config' # config
               PROVE  A
    OBVIOUS
  <2>1. PICK t \in Threads : Config!Write(t)
    BY DEF Config!Next, Config!vars, Config!AdoptProjects, Config!AdoptConfiguration, Config!Register, Config!Begin, Config!Read, Config!Answer, Config!Step,
           Config!Respond, Config!Crash
  <2>2. /\ config'.revision = config.revision + 1 /\ op[t].scope \in Scopes
        /\ \A z \in Scopes \ {op[t].scope} : Config!Scope(config', z) = Config!Scope(config, z)
    BY <2>1, WriteIs
  <2> QED  BY <2>2 DEF Scopes
<1> QED  BY <1>1, ConfigurationHolds, PTL DEF Config!Spec, Config!OneScopeAtATime

-----------------------------------------------------------------------------
(* The live tail of a turn. *)

Items == [id : Nat, kind : Stream!Kinds]
Sent == Stream!Kinds \ {"timeout"}
Statuses == {"new", "attach", "tail", "write", "finish", "closed"}

StreamTypeOK ==
    /\ produced \in 0..Len(Script)
    /\ attempt \in {"running", "finishing", "done", "cancelled"}
    /\ channel \in Seq(Sent) /\ events \in Seq(Sent)
    /\ entry \in BOOLEAN
    /\ pc \in [Conns -> Statuses] /\ index \in [Conns -> Nat]
    /\ pending \in [Conns -> Seq(Items)] /\ wire \in [Conns -> Seq(Items)]
    /\ broken \subseteq Conns
    /\ lastId \in Nat /\ received \in Seq(Items)

\* What is on its way: written events after the last one read, in order and without a gap.
OnWire(w, evs, from) ==
    /\ \A k \in DOMAIN w : w[k].id # 0 =>
        /\ from < w[k].id /\ w[k].id \in DOMAIN evs
        /\ evs[w[k].id] \notin Stream!Quiet /\ w[k].kind = evs[w[k].id]
        /\ \A n \in DOMAIN evs : from < n /\ n < w[k].id /\ evs[n] \notin Stream!Quiet =>
            \E j \in DOMAIN w : w[j].id = n
    /\ \A j, k \in DOMAIN w : j < k /\ w[j].id # 0 /\ w[k].id # 0 => w[j].id < w[k].id

\* Everything up to an event is on its way, and nothing after it.
OnWireTo(w, evs, from, to) ==
    /\ from <= to
    /\ \A k \in DOMAIN w : w[k].id <= to
    /\ \A n \in DOMAIN evs : from < n /\ n <= to /\ evs[n] \notin Stream!Quiet =>
        \E j \in DOMAIN w : w[j].id = n

\* What was read is the written events up to the last one read.
HasRead(r, evs, last) ==
    /\ \A n \in DOMAIN evs : n <= last /\ evs[n] \notin Stream!Quiet => \E i \in DOMAIN r : r[i].id = n
    /\ \A i \in DOMAIN r : r[i].id # 0 =>
        /\ r[i].id \in DOMAIN evs /\ r[i].id <= last
        /\ evs[r[i].id] \notin Stream!Quiet /\ r[i].kind = evs[r[i].id]
    /\ \A i, j \in DOMAIN r : i < j /\ r[i].id # 0 /\ r[j].id # 0 => r[i].id < r[j].id

\* The tail has written everything up to here.
Position(c) == index[c] - Len(pending[c])

\* What a tail has taken and not yet written are the events after its position.
TailHolds(c) ==
    /\ pc[c] \in {"tail", "write"} => index[c] <= Len(events)
    /\ pc[c] # "write" => pending[c] = << >>
    /\ Len(pending[c]) <= index[c]
    /\ \A i \in DOMAIN pending[c] :
        /\ pending[c][i].id = Position(c) + i
        /\ pending[c][i].kind = events[Position(c) + i]

\* A connection that can still deliver continues what was read.
Continues(c) ==
    /\ pc[c] = "new" \/ c \in broken => wire[c] = << >>
    /\ c \notin broken =>
        /\ pc[c] = "attach" => index[c] = lastId /\ wire[c] = << >>
        /\ OnWire(wire[c], events, lastId)
        /\ pc[c] \in {"tail", "write"} => OnWireTo(wire[c], events, lastId, Position(c))

Alone == \A c, d \in Conns : Stream!Over(c) \/ Stream!Over(d) \/ c = d

\* The terminal event is sent after the Attempt was settled or revoked.
EndsAreSettled ==
    (\E i \in DOMAIN channel : channel[i] \in Stream!Terminal) \/ Stream!Finished => attempt # "running"

Failing == \E i \in DOMAIN events : events[i] \in {"error", "word"}
FinishedTails == \A c \in Conns : pc[c] = "finish" => attempt # "running" \/ Failing

DeliveryInv ==
    /\ lastId <= Len(events) /\ HasRead(received, events, lastId)
    /\ Alone /\ \A c \in Conns : TailHolds(c) /\ Continues(c)

TurnInv == Stream!OneEnd /\ EndsAreSettled /\ FinishedTails /\ Stream!RunningTurnsAreFound

StreamInv == StreamTypeOK /\ DeliveryInv /\ TurnInv

-----------------------------------------------------------------------------
(* What is on its way, and what was read. *)

\* The messages of a sequence.
LEMMA ItemsAt ==
    ASSUME NEW w \in Seq(Items)
    PROVE  \A k \in DOMAIN w : w[k] \in Items /\ w[k].id \in Nat
<1> TAKE k \in DOMAIN w
<1>1. w[k] \in Items
  OBVIOUS
<1> QED  BY <1>1 DEF Items

\* Writing the next event.
LEMMA WireGrows ==
    ASSUME NEW w \in Seq(Items), NEW evs \in Seq(Sent), NEW from \in Nat, NEW p \in Nat,
           OnWire(w, evs, from), OnWireTo(w, evs, from, p),
           p + 1 \in DOMAIN evs, evs[p + 1] \notin Stream!Quiet,
           NEW e \in Items, e.id = p + 1, e.kind = evs[p + 1]
    PROVE  OnWire(Append(w, e), evs, from) /\ OnWireTo(Append(w, e), evs, from, p + 1)
<1> DEFINE v == Append(w, e)
<1>1. /\ DOMAIN w = 1..Len(w) /\ DOMAIN v = 1..(Len(w) + 1) /\ Len(w) \in Nat
      /\ v[Len(w) + 1] = e /\ \A k \in DOMAIN w : v[k] = w[k]
  OBVIOUS
<1>2. \A k \in DOMAIN w : w[k].id \in Nat
  BY ItemsAt
<1>3. DOMAIN evs = 1..Len(evs) /\ Len(evs) \in Nat
  OBVIOUS
<1> HIDE DEF v
<1>4. \A n \in DOMAIN evs : from < n /\ n <= p + 1 /\ evs[n] \notin Stream!Quiet =>
            \E j \in DOMAIN v : v[j].id = n
  <2> TAKE n \in DOMAIN evs
  <2> HAVE from < n /\ n <= p + 1 /\ evs[n] \notin Stream!Quiet
  <2>1. CASE n = p + 1
    BY <2>1, <1>1
  <2>2. CASE n # p + 1
    <3>1. n <= p
      BY <2>2, <1>3
    <3>2. PICK j \in DOMAIN w : w[j].id = n
      BY <3>1 DEF OnWireTo
    <3> QED  BY <3>2, <1>1
  <2> QED  BY <2>1, <2>2
<1>5. OnWireTo(v, evs, from, p + 1)
  <2>1. from <= p + 1
    BY DEF OnWireTo
  <2>2. \A k \in DOMAIN v : v[k].id <= p + 1
    BY <1>1, <1>2 DEF OnWireTo
  <2> QED  BY <2>1, <2>2, <1>4 DEF OnWireTo
<1>6. OnWire(v, evs, from)
  <2>1. ASSUME NEW k \in DOMAIN v, v[k].id # 0
        PROVE  /\ from < v[k].id /\ v[k].id \in DOMAIN evs
               /\ evs[v[k].id] \notin Stream!Quiet /\ v[k].kind = evs[v[k].id]
               /\ \A n \in DOMAIN evs : from < n /\ n < v[k].id /\ evs[n] \notin Stream!Quiet =>
                    \E j \in DOMAIN v : v[j].id = n
    <3>1. CASE k = Len(w) + 1
      <4>1. v[k].id = p + 1 /\ v[k].kind = evs[p + 1] /\ from < p + 1
        BY <3>1, <1>1 DEF OnWireTo
      <4> QED  BY <4>1, <1>3, <1>4
    <3>2. CASE k # Len(w) + 1
      <4>1. k \in DOMAIN w /\ v[k] = w[k]
        BY <3>2, <1>1
      <4>2. v[k].id <= p /\ v[k].id \in Nat
        BY <4>1, <1>2 DEF OnWireTo
      <4> QED  BY <4>1, <4>2, <2>1, <1>3, <1>4 DEF OnWire
    <3> QED  BY <3>1, <3>2
  <2>2. ASSUME NEW j \in DOMAIN v, NEW k \in DOMAIN v, j < k, v[j].id # 0, v[k].id # 0
        PROVE  v[j].id < v[k].id
    <3>1. j \in DOMAIN w /\ v[j] = w[j] /\ w[j].id <= p /\ w[j].id \in Nat
      BY <2>2, <1>1, <1>2 DEF OnWireTo
    <3>2. CASE k = Len(w) + 1
      BY <3>1, <3>2, <1>1
    <3>3. CASE k # Len(w) + 1
      BY <3>1, <3>3, <1>1, <2>2 DEF OnWire
    <3> QED  BY <3>2, <3>3
  <2> QED  BY <2>1, <2>2 DEF OnWire
<1> QED  BY <1>5, <1>6 DEF v

\* Passing an event that is not written.
LEMMA WirePasses ==
    ASSUME NEW w \in Seq(Items), NEW evs \in Seq(Sent), NEW from \in Nat, NEW p \in Nat,
           OnWireTo(w, evs, from, p), evs[p + 1] \in Stream!Quiet
    PROVE  OnWireTo(w, evs, from, p + 1)
<1>1. \A k \in DOMAIN w : w[k].id \in Nat
  BY ItemsAt
<1>2. DOMAIN evs = 1..Len(evs)
  OBVIOUS
<1> QED  BY <1>1, <1>2 DEF OnWireTo

\* A message without an id.
LEMMA WireTold ==
    ASSUME NEW w \in Seq(Items), NEW evs, NEW from, OnWire(w, evs, from), NEW e \in Items, e.id = 0
    PROVE  OnWire(Append(w, e), evs, from)
<1> DEFINE v == Append(w, e)
<1>1. /\ DOMAIN w = 1..Len(w) /\ DOMAIN v = 1..(Len(w) + 1) /\ Len(w) \in Nat
      /\ v[Len(w) + 1] = e /\ \A k \in DOMAIN w : v[k] = w[k]
  OBVIOUS
<1> HIDE DEF v
<1>2. \A k \in DOMAIN v : v[k].id # 0 => k \in DOMAIN w /\ v[k] = w[k]
  BY <1>1
<1>3. \A k \in DOMAIN w : k \in DOMAIN v /\ v[k] = w[k]
  BY <1>1
<1>4. OnWire(v, evs, from)
  BY <1>2, <1>3 DEF OnWire
<1> QED  BY <1>4 DEF v

\* Another event changes nothing for those before it.
LEMMA EventsGrow ==
    ASSUME NEW evs \in Seq(Sent), NEW x \in Sent, NEW w \in Seq(Items), NEW from \in Nat
    PROVE  /\ OnWire(w, evs, from) => OnWire(w, Append(evs, x), from)
           /\ \A p \in 0..Len(evs) :
                OnWireTo(w, evs, from, p) => OnWireTo(w, Append(evs, x), from, p)
           /\ from <= Len(evs) /\ HasRead(w, evs, from) => HasRead(w, Append(evs, x), from)
<1> DEFINE more == Append(evs, x)
<1>1. /\ DOMAIN evs = 1..Len(evs) /\ DOMAIN more = 1..(Len(evs) + 1) /\ Len(evs) \in Nat
      /\ \A k \in DOMAIN evs : more[k] = evs[k]
  OBVIOUS
<1> HIDE DEF more
<1>2. \A n \in DOMAIN evs : n \in DOMAIN more /\ more[n] = evs[n]
  BY <1>1
<1>3. \A n \in DOMAIN more, m \in 0..Len(evs) : n <= m => n \in DOMAIN evs /\ more[n] = evs[n]
  BY <1>1
<1>4. ASSUME OnWire(w, evs, from) PROVE OnWire(w, more, from)
  <2>1. ASSUME NEW k \in DOMAIN w, w[k].id # 0
        PROVE  /\ from < w[k].id /\ w[k].id \in DOMAIN more
               /\ more[w[k].id] \notin Stream!Quiet /\ w[k].kind = more[w[k].id]
               /\ \A n \in DOMAIN more : from < n /\ n < w[k].id /\ more[n] \notin Stream!Quiet =>
                    \E j \in DOMAIN w : w[j].id = n
    <3>1. w[k].id \in DOMAIN evs /\ w[k].id \in 0..Len(evs)
      BY <1>1, <1>4, <2>1 DEF OnWire
    <3>2. \A n \in DOMAIN more : n < w[k].id => n \in DOMAIN evs /\ more[n] = evs[n]
      BY <3>1, <1>1
    <3> QED  BY <3>1, <3>2, <1>2, <1>4, <2>1 DEF OnWire
  <2> QED  BY <2>1, <1>4 DEF OnWire
<1>5. ASSUME NEW p \in 0..Len(evs), OnWireTo(w, evs, from, p) PROVE OnWireTo(w, more, from, p)
  BY <1>3, <1>5 DEF OnWireTo
<1>6. ASSUME from <= Len(evs), HasRead(w, evs, from) PROVE HasRead(w, more, from)
  <2>1. from \in 0..Len(evs)
    BY <1>1, <1>6
  <2>2. \A n \in DOMAIN more : n <= from /\ more[n] \notin Stream!Quiet => \E i \in DOMAIN w : w[i].id = n
    BY <2>1, <1>3, <1>6 DEF HasRead
  <2>3. \A i \in DOMAIN w : w[i].id # 0 =>
            /\ w[i].id \in DOMAIN more /\ w[i].id <= from
            /\ more[w[i].id] \notin Stream!Quiet /\ w[i].kind = more[w[i].id]
    BY <1>2, <1>6 DEF HasRead
  <2> QED  BY <2>2, <2>3, <1>6 DEF HasRead
<1> QED  BY <1>4, <1>5, <1>6 DEF more

\* Reading the first message on its way.
LEMMA WireIsRead ==
    ASSUME NEW w \in Seq(Items), w # << >>, NEW evs \in Seq(Sent), NEW from \in Nat,
           OnWire(w, evs, from), NEW r \in Seq(Items), HasRead(r, evs, from), from <= Len(evs),
           NEW last, last = IF Head(w).id = 0 THEN from ELSE Head(w).id
    PROVE  /\ last \in Nat /\ last <= Len(evs)
           /\ OnWire(Tail(w), evs, last) /\ HasRead(Append(r, Head(w)), evs, last)
           /\ \A p \in Nat : OnWireTo(w, evs, from, p) => OnWireTo(Tail(w), evs, last, p)
<1> DEFINE h == Head(w)  v == Tail(w)  s == Append(r, h)
<1>1. /\ DOMAIN w = 1..Len(w) /\ DOMAIN v = 1..(Len(w) - 1) /\ Len(w) \in Nat \ {0}
      /\ h = w[1] /\ h \in Items /\ \A k \in DOMAIN v : v[k] = w[k + 1]
  OBVIOUS
<1>2. /\ DOMAIN r = 1..Len(r) /\ DOMAIN s = 1..(Len(r) + 1) /\ Len(r) \in Nat
      /\ s[Len(r) + 1] = h /\ \A k \in DOMAIN r : s[k] = r[k]
  OBVIOUS
<1>3. DOMAIN evs = 1..Len(evs) /\ Len(evs) \in Nat
  OBVIOUS
<1>4. \A k \in DOMAIN w : w[k].id \in Nat
  BY ItemsAt
<1>5. \A k \in DOMAIN r : r[k].id \in Nat
  BY ItemsAt
<1> HIDE DEF h, v, s
<1>6. h.id \in Nat /\ last = IF h.id = 0 THEN from ELSE h.id
  BY <1>1, <1>4 DEF h
<1>7. h.id # 0 => /\ from < h.id /\ h.id \in DOMAIN evs /\ evs[h.id] \notin Stream!Quiet /\ h.kind = evs[h.id]
                  /\ \A k \in DOMAIN v : v[k].id # 0 => h.id < v[k].id
  <2>1. 1 \in DOMAIN w /\ h = w[1]
    BY <1>1
  <2>2. \A k \in DOMAIN v : k + 1 \in DOMAIN w /\ 1 < k + 1 /\ v[k] = w[k + 1]
    BY <1>1
  <2> QED  BY <2>1, <2>2 DEF OnWire
<1>8. \A n \in DOMAIN evs : (\E j \in DOMAIN w : w[j].id = n) =>
            n = h.id \/ \E j \in DOMAIN v : v[j].id = n
  <2> TAKE n \in DOMAIN evs
  <2> HAVE \E j \in DOMAIN w : w[j].id = n
  <2>1. PICK j \in DOMAIN w : w[j].id = n
    OBVIOUS
  <2>2. CASE j = 1
    BY <2>1, <2>2, <1>1
  <2>3. CASE j # 1
    <3>1. j - 1 \in DOMAIN v /\ v[j - 1] = w[j]
      BY <2>3, <1>1
    <3> QED  BY <3>1, <2>1
  <2> QED  BY <2>2, <2>3
\* Nothing to be written lies between the last one read and this one.
<1>9. h.id # 0 => \A n \in DOMAIN evs : from < n /\ n < h.id => evs[n] \in Stream!Quiet
  <2> SUFFICES ASSUME h.id # 0, NEW n \in DOMAIN evs, from < n, n < h.id, evs[n] \notin Stream!Quiet
               PROVE  FALSE
    OBVIOUS
  <2>1. \E j \in DOMAIN w : w[j].id = n
    <3>1. 1 \in DOMAIN w /\ w[1].id = h.id
      BY <1>1
    <3>2. \A m \in DOMAIN evs : from < m /\ m < w[1].id /\ evs[m] \notin Stream!Quiet =>
              \E j \in DOMAIN w : w[j].id = m
      BY <3>1, Zenon DEF OnWire
    <3> QED  BY <3>1, <3>2
  <2>2. PICK j \in DOMAIN v : v[j].id = n
    BY <2>1, <1>3, <1>8
  <2>3. n # 0
    BY <1>3
  <2> QED  BY <2>2, <2>3, <1>3, <1>6, <1>7
<1>10. last \in Nat /\ last <= Len(evs) /\ from <= last
  BY <1>3, <1>6, <1>7
<1>11. OnWire(v, evs, last)
  <2>1. ASSUME NEW k \in DOMAIN v, v[k].id # 0
        PROVE  /\ last < v[k].id /\ v[k].id \in DOMAIN evs
               /\ evs[v[k].id] \notin Stream!Quiet /\ v[k].kind = evs[v[k].id]
               /\ \A n \in DOMAIN evs : last < n /\ n < v[k].id /\ evs[n] \notin Stream!Quiet =>
                    \E j \in DOMAIN v : v[j].id = n
    <3>1. k + 1 \in DOMAIN w /\ v[k] = w[k + 1]
      BY <1>1
    <3>2. /\ from < v[k].id /\ v[k].id \in DOMAIN evs
          /\ evs[v[k].id] \notin Stream!Quiet /\ v[k].kind = evs[v[k].id]
          /\ \A n \in DOMAIN evs : from < n /\ n < v[k].id /\ evs[n] \notin Stream!Quiet =>
                \E j \in DOMAIN w : w[j].id = n
      BY <3>1, <2>1 DEF OnWire
    <3>3. last < v[k].id
      BY <3>2, <1>6, <1>7, <2>1
    <3>4. ASSUME NEW n \in DOMAIN evs, last < n, n < v[k].id, evs[n] \notin Stream!Quiet
          PROVE  \E j \in DOMAIN v : v[j].id = n
      <4>1. from < n /\ n # h.id
        BY <3>4, <1>3, <1>6, <1>10
      <4> QED  BY <4>1, <3>2, <3>4, <1>8
    <3> QED  BY <3>2, <3>3, <3>4
  <2>2. ASSUME NEW j \in DOMAIN v, NEW k \in DOMAIN v, j < k, v[j].id # 0, v[k].id # 0
        PROVE  v[j].id < v[k].id
    <3>1. j + 1 \in DOMAIN w /\ k + 1 \in DOMAIN w /\ j + 1 < k + 1 /\ v[j] = w[j + 1] /\ v[k] = w[k + 1]
      BY <2>2, <1>1
    <3> QED  BY <3>1, <2>2 DEF OnWire
  <2> QED  BY <2>1, <2>2 DEF OnWire
<1>12. ASSUME NEW p \in Nat, OnWireTo(w, evs, from, p) PROVE OnWireTo(v, evs, last, p)
  <2>1. \A k \in DOMAIN v : v[k].id <= p
    BY <1>1, <1>12 DEF OnWireTo
  <2>2. last <= p
    BY <1>1, <1>6, <1>12 DEF OnWireTo
  <2>3. ASSUME NEW n \in DOMAIN evs, last < n, n <= p, evs[n] \notin Stream!Quiet
        PROVE  \E j \in DOMAIN v : v[j].id = n
    <3>1. from < n /\ n # h.id
      BY <2>3, <1>3, <1>6, <1>10
    <3> QED  BY <3>1, <2>3, <1>8, <1>12 DEF OnWireTo
  <2> QED  BY <2>1, <2>2, <2>3 DEF OnWireTo
<1>13. HasRead(s, evs, last)
  <2>1. ASSUME NEW n \in DOMAIN evs, n <= last, evs[n] \notin Stream!Quiet PROVE \E i \in DOMAIN s : s[i].id = n
    <3>1. CASE n <= from
      <4>1. PICK i \in DOMAIN r : r[i].id = n
        BY <3>1, <2>1 DEF HasRead
      <4> QED  BY <4>1, <1>2
    <3>2. CASE from < n
      <4>1. n = h.id
        BY <3>2, <2>1, <1>3, <1>6, <1>9
      <4>2. Len(r) + 1 \in DOMAIN s /\ s[Len(r) + 1] = h
        BY <1>2
      <4> QED  BY <4>1, <4>2
    <3> QED  BY <3>1, <3>2, <1>3
  <2>2. ASSUME NEW i \in DOMAIN s, s[i].id # 0
        PROVE  /\ s[i].id \in DOMAIN evs /\ s[i].id <= last
               /\ evs[s[i].id] \notin Stream!Quiet /\ s[i].kind = evs[s[i].id]
    <3>1. CASE i = Len(r) + 1
      BY <3>1, <2>2, <1>2, <1>6, <1>7
    <3>2. CASE i # Len(r) + 1
      <4>1. i \in DOMAIN r /\ s[i] = r[i]
        BY <3>2, <1>2
      <4>2. s[i].id <= from /\ s[i].id \in Nat
        BY <4>1, <2>2, <1>5 DEF HasRead
      <4> QED  BY <4>1, <4>2, <2>2, <1>10 DEF HasRead
    <3> QED  BY <3>1, <3>2
  <2>3. ASSUME NEW i \in DOMAIN s, NEW j \in DOMAIN s, i < j, s[i].id # 0, s[j].id # 0
        PROVE  s[i].id < s[j].id
    <3>1. i \in DOMAIN r /\ s[i] = r[i] /\ s[i].id <= from /\ s[i].id \in Nat
      BY <2>3, <1>2, <1>5 DEF HasRead
    <3>2. CASE j = Len(r) + 1
      BY <3>1, <3>2, <2>3, <1>2, <1>6, <1>7
    <3>3. CASE j # Len(r) + 1
      BY <3>1, <3>3, <2>3, <1>2 DEF HasRead
    <3> QED  BY <3>2, <3>3
  <2> QED  BY <2>1, <2>2, <2>3 DEF HasRead
<1> QED  BY <1>10, <1>11, <1>12, <1>13 DEF h, v, s

-----------------------------------------------------------------------------
(* The turn: what is sent, retained and found. *)

\* Where no connection moves and nothing is retained, delivery stands.
LEMMA DeliveryStays ==
    DeliveryInv /\ UNCHANGED <<events, pc, index, pending, wire, broken, lastId, received>> => DeliveryInv'
BY DEF DeliveryInv, Alone, Stream!Over, TailHolds, Continues, Position

\* The provider's events say nothing of the end.
LEMMA ProduceKeeps == ASSUME Stream!StreamAssumption PROVE StreamInv /\ Stream!Produce => StreamInv'
<1> SUFFICES ASSUME StreamInv, Stream!Produce PROVE StreamInv'
  OBVIOUS
<1> DEFINE x == Script[produced + 1]
<1>1. produced \in Nat /\ produced + 1 \in 1..Len(Script) /\ channel \in Seq(Sent)
  BY DEF Stream!StreamAssumption, StreamInv, StreamTypeOK, Stream!Produce
<1>2. x \in Stream!Kinds \ (Stream!Terminal \cup {"timeout"})
  BY <1>1 DEF Stream!StreamAssumption
<1>3. x \in Sent /\ x \notin Stream!Terminal
  BY <1>2 DEF Sent
<1>4. /\ channel' = Append(channel, x) /\ produced' = produced + 1
      /\ UNCHANGED <<attempt, events, entry, pc, index, pending, wire, broken, lastId, received>>
  BY DEF Stream!Produce, Stream!tailVars, Stream!browserVars
<1> HIDE DEF x
<1>5. StreamTypeOK'
  BY <1>1, <1>3, <1>4 DEF StreamInv, StreamTypeOK
<1>6. DeliveryInv'
  BY <1>4, DeliveryStays DEF StreamInv
<1>7. EndsAreSettled'
  <2>1. \A i \in DOMAIN channel' : channel'[i] \in Stream!Terminal => \E j \in DOMAIN channel : channel[j] \in Stream!Terminal
    BY <1>1, <1>3, <1>4
  <2> QED  BY <2>1, <1>4 DEF StreamInv, TurnInv, EndsAreSettled, Stream!Finished
<1>8. Stream!OneEnd' /\ FinishedTails' /\ Stream!RunningTurnsAreFound'
  BY <1>4 DEF StreamInv, TurnInv, Stream!OneEnd, FinishedTails, Failing, Stream!RunningTurnsAreFound
<1> QED  BY <1>5, <1>6, <1>7, <1>8 DEF StreamInv, TurnInv

\* The Attempt is settled, and its end is sent.
LEMMA SettleKeeps ==
    ASSUME NEW kind \in {"finished", "failed"}
    PROVE  StreamInv /\ (Stream!Settle \/ Stream!Announce(kind)) => StreamInv'
<1> SUFFICES ASSUME StreamInv, Stream!Settle \/ Stream!Announce(kind) PROVE StreamInv'
  OBVIOUS
<1>1. /\ UNCHANGED <<produced, events, entry, pc, index, pending, wire, broken, lastId, received>>
      /\ attempt' \in {"finishing", "done"} /\ channel' \in {channel, Append(channel, kind)}
  BY DEF Stream!Settle, Stream!Announce, Stream!tailVars, Stream!browserVars
<1>2. kind \in Sent
  BY DEF Sent, Stream!Kinds, Stream!Terminal
<1>3. StreamTypeOK'
  <2>1. channel \in Seq(Sent)
    BY DEF StreamInv, StreamTypeOK
  <2>2. channel' \in Seq(Sent)
    BY <1>1, <1>2, <2>1
  <2> QED  BY <1>1, <2>2 DEF StreamInv, StreamTypeOK
<1>4. DeliveryInv'
  BY <1>1, DeliveryStays DEF StreamInv
<1>5. TurnInv'
  BY <1>1 DEF StreamInv, TurnInv, Stream!OneEnd, EndsAreSettled, FinishedTails, Failing, Stream!RunningTurnsAreFound
<1> QED  BY <1>3, <1>4, <1>5 DEF StreamInv

\* A cancelled turn does not run, and the tail is told of one end more.
LEMMA EndActiveChatIs ==
    ASSUME StreamTypeOK, Stream!EndActiveChat
    PROVE  /\ attempt' \in {"finishing", "done", "cancelled"}
           /\ channel' \in Seq(Sent)
<1>1. "failed" \in Sent
  BY DEF Sent, Stream!Kinds, Stream!Terminal
<1> QED  BY <1>1 DEF Stream!EndActiveChat, StreamTypeOK

\* The turn is cancelled, or its tail's lifetime ends, or its deadline passes.
LEMMA TurnEndKeeps == StreamInv /\ (Stream!CancelChat \/ Stream!ReapExpired \/ Stream!PassDeadline) => StreamInv'
<1> SUFFICES ASSUME StreamInv, Stream!CancelChat \/ Stream!ReapExpired \/ Stream!PassDeadline PROVE StreamInv'
  OBVIOUS
<1>1. UNCHANGED <<produced, events, pc, index, pending, wire, broken, lastId, received>>
  BY DEF Stream!CancelChat, Stream!ReapExpired, Stream!PassDeadline, Stream!tailVars, Stream!browserVars
<1>2. DeliveryInv'
  BY <1>1, DeliveryStays DEF StreamInv
<1>3. CASE Stream!CancelChat
  <2>1. /\ attempt' \in {"finishing", "done", "cancelled"} /\ channel' \in Seq(Sent) /\ entry' = FALSE
    BY <1>3, EndActiveChatIs DEF Stream!CancelChat, StreamInv
  <2>2. StreamTypeOK'
    BY <1>1, <2>1 DEF StreamInv, StreamTypeOK
  <2>3. TurnInv'
    BY <1>1, <2>1 DEF StreamInv, TurnInv, Stream!OneEnd, EndsAreSettled, FinishedTails, Stream!RunningTurnsAreFound
  <2> QED  BY <2>2, <2>3, <1>2 DEF StreamInv
<1>4. CASE Stream!ReapExpired
  <2>1. UNCHANGED <<attempt, channel>> /\ entry' = FALSE /\ attempt # "running"
    BY <1>4 DEF Stream!ReapExpired, StreamInv, TurnInv, EndsAreSettled
  <2>2. StreamTypeOK'
    BY <1>1, <2>1 DEF StreamInv, StreamTypeOK
  <2>3. TurnInv'
    BY <1>1, <2>1 DEF StreamInv, TurnInv, Stream!OneEnd, EndsAreSettled, FinishedTails, Stream!RunningTurnsAreFound
  <2> QED  BY <2>2, <2>3, <1>2 DEF StreamInv
<1>5. CASE Stream!PassDeadline
  <2>1. UNCHANGED <<attempt, channel, entry>>
    BY <1>5 DEF Stream!PassDeadline
  <2>2. StreamTypeOK'
    BY <1>1, <2>1 DEF StreamInv, StreamTypeOK
  <2>3. TurnInv'
    BY <1>1, <2>1 DEF StreamInv, TurnInv, Stream!OneEnd, EndsAreSettled, Stream!Finished, FinishedTails, Failing,
                      Stream!RunningTurnsAreFound
  <2> QED  BY <2>2, <2>3, <1>2 DEF StreamInv
<1> QED  BY <1>3, <1>4, <1>5

\* An event is retained: after the terminal one there is none.
LEMMA ForwardKeeps == StreamInv /\ Stream!Forward => StreamInv'
<1> SUFFICES ASSUME StreamInv, Stream!Forward PROVE StreamInv'
  OBVIOUS
<1> DEFINE x == Head(channel)
<1>1. /\ events' = Append(events, x) /\ channel' = Tail(channel) /\ channel # << >> /\ ~Stream!Finished
      /\ UNCHANGED <<produced, attempt, entry, pc, index, pending, wire, broken, lastId, received>>
  BY DEF Stream!Forward, Stream!tailVars, Stream!browserVars
<1>2. /\ channel \in Seq(Sent) /\ events \in Seq(Sent) /\ lastId \in Nat /\ received \in Seq(Items)
      /\ index \in [Conns -> Nat] /\ pending \in [Conns -> Seq(Items)] /\ wire \in [Conns -> Seq(Items)]
  BY DEF StreamInv, StreamTypeOK
<1>3. /\ x \in Sent /\ channel' \in Seq(Sent) /\ x = channel[1] /\ 1 \in DOMAIN channel
      /\ \A i \in DOMAIN channel' : i + 1 \in DOMAIN channel /\ channel'[i] = channel[i + 1]
  BY <1>1, <1>2
<1> HIDE DEF x
<1>4. /\ DOMAIN events = 1..Len(events) /\ DOMAIN events' = 1..(Len(events) + 1) /\ Len(events) \in Nat
      /\ Len(events') = Len(events) + 1 /\ events'[Len(events) + 1] = x /\ events' \in Seq(Sent)
      /\ \A k \in DOMAIN events : events'[k] = events[k]
  BY <1>1, <1>2, <1>3
<1>5. StreamTypeOK'
  BY <1>1, <1>3, <1>4 DEF StreamInv, StreamTypeOK
<1>6. lastId' <= Len(events') /\ HasRead(received', events', lastId')
  BY <1>1, <1>2, <1>3, <1>4, EventsGrow DEF StreamInv, DeliveryInv
<1>7. Alone'
  BY <1>1 DEF StreamInv, DeliveryInv, Alone, Stream!Over
<1>8. ASSUME NEW c \in Conns PROVE TailHolds(c)' /\ Continues(c)'
  <2>1. /\ TailHolds(c) /\ Continues(c) /\ index[c] \in Nat /\ Len(pending[c]) \in Nat
        /\ DOMAIN pending[c] = 1..Len(pending[c])
    BY <1>2 DEF StreamInv, DeliveryInv
  <2>2. \A i \in DOMAIN pending[c] : Position(c) + i \in DOMAIN events
    <3> TAKE i \in DOMAIN pending[c]
    <3>1. pc[c] = "write"
      BY <2>1 DEF TailHolds
    <3>2. Position(c) + i \in 1..Len(events)
      BY <3>1, <2>1, <1>4 DEF TailHolds, Position
    <3> QED  BY <3>2, <1>4
  <2>3. TailHolds(c)'
    <3>1. Position(c)' = Position(c)
      BY <1>1 DEF Position
    <3> QED  BY <3>1, <2>1, <2>2, <1>1, <1>4 DEF TailHolds
  <2>4. Continues(c)'
    <3>1. Position(c)' = Position(c) /\ (pc[c] \in {"tail", "write"} => Position(c) \in 0..Len(events))
      BY <2>1, <1>1, <1>4 DEF TailHolds, Position
    <3>2. wire[c] \in Seq(Items)
      BY <1>2
    <3>3. /\ OnWire(wire[c], events, lastId) => OnWire(wire[c], events', lastId)
          /\ \A p \in 0..Len(events) :
                OnWireTo(wire[c], events, lastId, p) => OnWireTo(wire[c], events', lastId, p)
      BY <3>2, <1>1, <1>2, <1>3, EventsGrow
    <3> QED  BY <3>1, <3>3, <2>1, <1>1 DEF Continues
  <2> QED  BY <2>3, <2>4
<1>9. Stream!OneEnd'
  BY <1>1, <1>4 DEF Stream!OneEnd, Stream!Finished
<1>10. EndsAreSettled'
  BY <1>1, <1>3, <1>4 DEF StreamInv, TurnInv, EndsAreSettled, Stream!Finished
<1>11. FinishedTails' /\ Stream!RunningTurnsAreFound'
  <2>1. Failing => Failing'
    BY <1>4 DEF Failing
  <2> QED  BY <2>1, <1>1 DEF StreamInv, TurnInv, FinishedTails, Stream!RunningTurnsAreFound, Failing
<1> QED  BY <1>5, <1>6, <1>7, <1>8, <1>9, <1>10, <1>11 DEF StreamInv, DeliveryInv, TurnInv

-----------------------------------------------------------------------------
(* The connections. *)

\* A step of one connection, which reads nothing, leaves the others' delivery.
LEMMA OthersDeliver ==
    ASSUME NEW c \in Conns, DeliveryInv, UNCHANGED <<events, broken, lastId, received>>,
           Stream!Over(c) => Stream!Over(c)', TailHolds(c)', Continues(c)',
           \A d \in Conns \ {c} :
                pc'[d] = pc[d] /\ index'[d] = index[d] /\ pending'[d] = pending[d] /\ wire'[d] = wire[d]
    PROVE  DeliveryInv'
<1>1. \A d \in Conns \ {c} : (Stream!Over(d) <=> Stream!Over(d)') /\ Position(d)' = Position(d)
  BY DEF Stream!Over, Position
<1>2. Alone'
  BY <1>1 DEF DeliveryInv, Alone
<1>3. ASSUME NEW d \in Conns \ {c} PROVE TailHolds(d)' /\ Continues(d)'
  <2>1. TailHolds(d) /\ Continues(d) /\ Position(d)' = Position(d)
    BY <1>1 DEF DeliveryInv
  <2>2. TailHolds(d)'
    BY <2>1 DEF TailHolds
  <2>3. Continues(d)'
    BY <2>1 DEF Continues
  <2> QED  BY <2>2, <2>3
<1> QED  BY <1>2, <1>3 DEF DeliveryInv

\* The turn stands when a connection moves and finishes only for a reason.
LEMMA TurnStays ==
    ASSUME NEW c \in Conns, StreamInv, UNCHANGED <<attempt, channel, events, entry>>,
           \A d \in Conns \ {c} : pc'[d] = pc[d],
           pc'[c] = "finish" => attempt # "running" \/ Failing
    PROVE  TurnInv'
<1>1. Failing' = Failing /\ Stream!Finished' = Stream!Finished
  BY DEF Failing, Stream!Finished
<1>2. FinishedTails'
  BY <1>1 DEF StreamInv, TurnInv, FinishedTails
<1>3. Stream!OneEnd' /\ EndsAreSettled' /\ Stream!RunningTurnsAreFound'
  BY <1>1 DEF StreamInv, TurnInv, Stream!OneEnd, EndsAreSettled, Stream!RunningTurnsAreFound
<1> QED  BY <1>2, <1>3 DEF TurnInv

\* A browser connects when nothing can be delivered any more.
LEMMA ConnectKeeps == ASSUME NEW c \in Conns PROVE StreamInv /\ Stream!Connect(c) => StreamInv'
<1> SUFFICES ASSUME StreamInv, Stream!Connect(c) PROVE StreamInv'
  OBVIOUS
<1>1. /\ UNCHANGED <<produced, attempt, channel, events, entry, pending, wire, broken, lastId, received>>
      /\ pc[c] = "new" /\ \A d \in Conns : Stream!Over(d)
      /\ pc' = [pc EXCEPT ![c] = "attach"] /\ index' = [index EXCEPT ![c] = lastId]
  BY DEF Stream!Connect, Stream!turnVars, Stream!browserVars
<1>2. StreamTypeOK'
  BY <1>1 DEF StreamInv, StreamTypeOK, Statuses
<1>3. /\ pc'[c] = "attach" /\ index'[c] = lastId
      /\ \A d \in Conns \ {c} : pc'[d] = pc[d] /\ index'[d] = index[d]
  BY <1>1 DEF StreamInv, StreamTypeOK
<1>4. Alone'
  BY <1>1, <1>3 DEF Alone, Stream!Over
<1>5. TailHolds(c)'
  BY <1>1, <1>3 DEF StreamInv, StreamTypeOK, DeliveryInv, TailHolds, Position
<1>6. Continues(c)'
  BY <1>1, <1>3 DEF StreamInv, DeliveryInv, Continues
<1>7. ASSUME NEW d \in Conns \ {c} PROVE TailHolds(d)' /\ Continues(d)'
  <2>1. TailHolds(d) /\ Continues(d) /\ Position(d)' = Position(d)
    BY <1>1, <1>3 DEF StreamInv, DeliveryInv, Position
  <2>2. TailHolds(d)'
    BY <2>1, <1>1, <1>3 DEF TailHolds
  <2>3. Continues(d)'
    BY <2>1, <1>1, <1>3 DEF Continues
  <2> QED  BY <2>2, <2>3
<1>8. DeliveryInv'
  BY <1>1, <1>4, <1>5, <1>6, <1>7 DEF StreamInv, DeliveryInv
<1>9. TurnInv'
  BY <1>1, <1>3, TurnStays
<1> QED  BY <1>2, <1>8, <1>9 DEF StreamInv

\* It reads: only this connection has something on its way.
LEMMA ReceiveKeeps == ASSUME NEW c \in Conns PROVE StreamInv /\ Stream!Receive(c) => StreamInv'
<1> SUFFICES ASSUME StreamInv, Stream!Receive(c) PROVE StreamInv'
  OBVIOUS
<1>1. /\ UNCHANGED <<produced, attempt, channel, events, entry, pc, index, pending, broken>>
      /\ wire[c] # << >> /\ c \notin broken
      /\ received' = Append(received, Head(wire[c]))
      /\ lastId' = IF Head(wire[c]).id = 0 THEN lastId ELSE Head(wire[c]).id
      /\ wire' = [wire EXCEPT ![c] = Tail(wire[c])]
  BY DEF Stream!Receive, Stream!turnVars
<1>2. /\ wire \in [Conns -> Seq(Items)] /\ wire[c] \in Seq(Items) /\ events \in Seq(Sent)
      /\ lastId \in Nat /\ received \in Seq(Items) /\ index[c] \in Nat /\ Len(pending[c]) \in Nat
  BY DEF StreamInv, StreamTypeOK
<1>3. /\ Continues(c) /\ TailHolds(c) /\ HasRead(received, events, lastId) /\ lastId <= Len(events)
      /\ OnWire(wire[c], events, lastId)
  BY <1>1 DEF StreamInv, DeliveryInv, Continues
<1>4. /\ lastId' \in Nat /\ lastId' <= Len(events)
      /\ OnWire(Tail(wire[c]), events, lastId') /\ HasRead(received', events, lastId')
      /\ \A p \in Nat : OnWireTo(wire[c], events, lastId, p) => OnWireTo(Tail(wire[c]), events, lastId', p)
  <2>1. \A last : last = (IF Head(wire[c]).id = 0 THEN lastId ELSE Head(wire[c]).id) =>
            /\ last \in Nat /\ last <= Len(events)
            /\ OnWire(Tail(wire[c]), events, last)
            /\ HasRead(Append(received, Head(wire[c])), events, last)
            /\ \A p \in Nat : OnWireTo(wire[c], events, lastId, p) => OnWireTo(Tail(wire[c]), events, last, p)
    BY <1>1, <1>2, <1>3, WireIsRead
  <2> QED  BY <2>1, <1>1
<1>5. wire'[c] = Tail(wire[c]) /\ \A d \in Conns \ {c} : wire'[d] = wire[d]
  BY <1>1, <1>2
<1>6. Head(wire[c]) \in Items /\ Tail(wire[c]) \in Seq(Items)
  BY <1>1, <1>2
<1>7. StreamTypeOK'
  BY <1>1, <1>2, <1>4, <1>6 DEF StreamInv, StreamTypeOK
<1>8. ~Stream!Over(c)
  BY <1>1, <1>3 DEF Stream!Over, Continues
<1>9. \A d \in Conns \ {c} : Stream!Over(d) /\ Stream!Over(d)'
  BY <1>1, <1>5, <1>8 DEF StreamInv, DeliveryInv, Alone, Stream!Over
<1>10. Alone'
  BY <1>9 DEF Alone
<1>11. \A d \in Conns : Position(d)' = Position(d)
  BY <1>1 DEF Position
<1>12. \A d \in Conns : TailHolds(d)'
  BY <1>1, <1>11 DEF StreamInv, DeliveryInv, TailHolds
<1>13. Continues(c)'
  <2>1. pc[c] \in {"tail", "write"} => Position(c) \in Nat
    BY <1>2, <1>3 DEF TailHolds, Position
  <2>2. pc[c] # "attach" /\ pc[c] # "new"
    BY <1>1, <1>3 DEF Continues
  <2> QED  BY <2>1, <2>2, <1>1, <1>3, <1>4, <1>5, <1>11 DEF Continues
<1>14. ASSUME NEW d \in Conns \ {c} PROVE Continues(d)'
  <2>1. Stream!Over(d) /\ Continues(d) /\ wire'[d] = wire[d]
    BY <1>5, <1>9 DEF StreamInv, DeliveryInv
  <2>2. pc[d] = "new" \/ d \in broken \/ (pc[d] = "closed" /\ wire[d] = << >>)
    BY <2>1 DEF Stream!Over
  <2>3. wire'[d] = << >>
    BY <2>1, <2>2 DEF Continues
  <2>4. OnWire(<< >>, events, lastId')
    BY DEF OnWire
  <2> QED  BY <2>2, <2>3, <2>4, <1>1 DEF Continues
<1>15. DeliveryInv'
  BY <1>1, <1>4, <1>10, <1>12, <1>13, <1>14 DEF DeliveryInv
<1>16. TurnInv'
  BY <1>1 DEF StreamInv, TurnInv, Stream!OneEnd, EndsAreSettled, Stream!Finished, FinishedTails, Failing,
              Stream!RunningTurnsAreFound
<1> QED  BY <1>7, <1>15, <1>16 DEF StreamInv

\* A connection breaks with what was on its way.
LEMMA BreakKeeps == ASSUME NEW c \in Conns PROVE StreamInv /\ Stream!Break(c) => StreamInv'
<1> SUFFICES ASSUME StreamInv, Stream!Break(c) PROVE StreamInv'
  OBVIOUS
<1>1. /\ UNCHANGED <<produced, attempt, channel, events, entry, pc, index, pending, lastId, received>>
      /\ broken' = broken \cup {c} /\ wire' = [wire EXCEPT ![c] = << >>]
  BY DEF Stream!Break, Stream!turnVars
<1>2. StreamTypeOK'
  BY <1>1 DEF StreamInv, StreamTypeOK
<1>3. wire'[c] = << >> /\ \A d \in Conns \ {c} : wire'[d] = wire[d]
  BY <1>1 DEF StreamInv, StreamTypeOK
<1>4. \A d \in Conns : Position(d)' = Position(d) /\ (Stream!Over(d) => Stream!Over(d)')
  BY <1>1, <1>3 DEF Position, Stream!Over
<1>5. Alone'
  BY <1>4 DEF StreamInv, DeliveryInv, Alone
<1>6. \A d \in Conns : TailHolds(d)'
  BY <1>1, <1>4 DEF StreamInv, DeliveryInv, TailHolds
<1>7. Continues(c)'
  BY <1>1, <1>3 DEF Continues
<1>8. \A d \in Conns \ {c} : Continues(d)'
  BY <1>1, <1>3, <1>4 DEF StreamInv, DeliveryInv, Continues
<1>9. DeliveryInv'
  BY <1>1, <1>5, <1>6, <1>7, <1>8 DEF StreamInv, DeliveryInv
<1>10. TurnInv'
  BY <1>1 DEF StreamInv, TurnInv, Stream!OneEnd, EndsAreSettled, Stream!Finished, FinishedTails, Failing,
              Stream!RunningTurnsAreFound
<1> QED  BY <1>2, <1>9, <1>10 DEF StreamInv

-----------------------------------------------------------------------------
(* The handler of a stream. *)

\* A tail is attached where the browser stopped reading, or closed at once.
LEMMA AttachKeeps == ASSUME NEW c \in Conns PROVE StreamInv /\ Stream!Attach(c) => StreamInv'
<1> SUFFICES ASSUME StreamInv, Stream!Attach(c) PROVE StreamInv'
  OBVIOUS
<1>1. /\ UNCHANGED <<produced, attempt, channel, events, entry, pending, wire, broken, lastId, received>>
      /\ pc[c] = "attach"
      /\ \/ pc' = [pc EXCEPT ![c] = "tail"] /\ index' = [index EXCEPT ![c] = Stream!ResumeIndex(index[c])]
         \/ pc' = [pc EXCEPT ![c] = "closed"] /\ index' = index
  BY DEF Stream!Attach, Stream!Close, Stream!turnVars, Stream!browserVars
<1>2. /\ index[c] \in Nat /\ Len(events) \in Nat /\ lastId \in Nat /\ lastId <= Len(events)
      /\ DOMAIN events = 1..Len(events)
  BY DEF StreamInv, StreamTypeOK, DeliveryInv
<1>3. Stream!ResumeIndex(index[c]) \in Nat /\ Stream!ResumeIndex(index[c]) <= Len(events)
      /\ (c \notin broken => Stream!ResumeIndex(index[c]) = lastId)
  <2>1. c \notin broken => index[c] = lastId
    BY <1>1 DEF StreamInv, DeliveryInv, Continues
  <2>2. Stream!ResumeIndex(index[c]) = IF index[c] > Len(events) THEN Len(events) ELSE index[c]
    BY DEF Stream!ResumeIndex
  <2>3. \A i, n, r : i \in Nat /\ n \in Nat /\ r = (IF i > n THEN n ELSE i) =>
            r \in Nat /\ r <= n /\ (i <= n => r = i)
    OBVIOUS
  <2>4. /\ Stream!ResumeIndex(index[c]) \in Nat /\ Stream!ResumeIndex(index[c]) <= Len(events)
        /\ index[c] <= Len(events) => Stream!ResumeIndex(index[c]) = index[c]
    BY <2>2, <2>3, <1>2
  <2> QED  BY <2>1, <2>4, <1>2
<1>4. StreamTypeOK'
  BY <1>1, <1>3 DEF StreamInv, StreamTypeOK, Statuses
<1>5. \A d \in Conns \ {c} : pc'[d] = pc[d] /\ index'[d] = index[d]
  BY <1>1 DEF StreamInv, StreamTypeOK
<1>6. \/ pc'[c] = "tail" /\ index'[c] = Stream!ResumeIndex(index[c])
      \/ pc'[c] = "closed" /\ index'[c] = index[c]
  BY <1>1 DEF StreamInv, StreamTypeOK
<1>7. pending[c] = << >> /\ Len(pending[c]) = 0 /\ DOMAIN pending[c] = {}
  BY <1>1 DEF StreamInv, DeliveryInv, TailHolds
<1>8. Stream!Over(c) => Stream!Over(c)'
  BY <1>1 DEF Stream!Over
<1>9. TailHolds(c)'
  BY <1>1, <1>2, <1>3, <1>6, <1>7 DEF TailHolds
<1>10. Continues(c)'
  <2>1. Position(c)' = index'[c]
    BY <1>1, <1>2, <1>3, <1>6, <1>7 DEF Position
  <2>2. c \notin broken => wire[c] = << >> /\ OnWire(wire[c], events, lastId)
    BY <1>1 DEF StreamInv, DeliveryInv, Continues
  <2>3. OnWireTo(<< >>, events, lastId, lastId)
    BY <1>2 DEF OnWireTo
  <2> QED  BY <2>1, <2>2, <2>3, <1>1, <1>3, <1>6 DEF StreamInv, DeliveryInv, Continues
<1>11. DeliveryInv'
  BY <1>1, <1>5, <1>8, <1>9, <1>10, OthersDeliver DEF StreamInv
<1>12. TurnInv'
  BY <1>1, <1>5, <1>6, TurnStays
<1> QED  BY <1>4, <1>11, <1>12 DEF StreamInv

\* The new events are taken: the position stays where it was.
LEMMA TakeKeeps == ASSUME NEW c \in Conns PROVE StreamInv /\ Stream!Take(c) => StreamInv'
<1> SUFFICES ASSUME StreamInv, Stream!Take(c) PROVE StreamInv'
  OBVIOUS
<1> DEFINE taken == [i \in 1..(Len(events) - index[c]) |-> Stream!Item(index[c] + i, events[index[c] + i])]
<1>1. /\ UNCHANGED <<produced, attempt, channel, events, entry, wire, broken, lastId, received>>
      /\ pc[c] = "tail" /\ index[c] < Len(events)
      /\ pending' = [pending EXCEPT ![c] = taken] /\ index' = [index EXCEPT ![c] = Len(events)]
      /\ pc' = [pc EXCEPT ![c] = "write"]
  BY DEF Stream!Take, Stream!turnVars, Stream!browserVars
<1>2. index[c] \in Nat /\ Len(events) \in Nat /\ events \in Seq(Sent) /\ DOMAIN events = 1..Len(events)
  BY DEF StreamInv, StreamTypeOK
<1>3. \A i \in 1..(Len(events) - index[c]) :
            Stream!Item(index[c] + i, events[index[c] + i]) \in Items
  BY <1>1, <1>2 DEF Stream!Item, Items, Sent
<1>4. /\ taken \in Seq(Items) /\ Len(taken) = Len(events) - index[c]
      /\ DOMAIN taken = 1..(Len(events) - index[c])
  <2> DEFINE n == Len(events) - index[c]
  <2>1. n \in Nat
    BY <1>1, <1>2
  <2>2. taken \in [1..n -> Items]
    BY <1>3
  <2> HIDE DEF taken, n
  <2>3. taken \in Seq(Items) /\ Len(taken) = n /\ DOMAIN taken = 1..n
    BY <2>1, <2>2
  <2> QED  BY <2>3 DEF n
<1>5. \A i \in DOMAIN taken : taken[i].id = index[c] + i /\ taken[i].kind = events[index[c] + i]
  BY <1>4 DEF Stream!Item
<1> HIDE DEF taken
<1>6. StreamTypeOK'
  BY <1>1, <1>2, <1>4 DEF StreamInv, StreamTypeOK, Statuses
<1>7. /\ pc'[c] = "write" /\ index'[c] = Len(events) /\ pending'[c] = taken
      /\ \A d \in Conns \ {c} : pc'[d] = pc[d] /\ index'[d] = index[d] /\ pending'[d] = pending[d]
  BY <1>1 DEF StreamInv, StreamTypeOK
<1>8. Position(c) = index[c] /\ Position(c)' = index[c]
  BY <1>1, <1>2, <1>4, <1>7 DEF StreamInv, DeliveryInv, TailHolds, Position
<1>9. Stream!Over(c) => Stream!Over(c)'
  BY <1>1 DEF Stream!Over
<1>10. TailHolds(c)'
  <2>1. Len(taken) <= Len(events)
    BY <1>1, <1>2, <1>4
  <2>2. \A i \in DOMAIN taken :
            taken[i].id = Position(c)' + i /\ taken[i].kind = events'[Position(c)' + i]
    BY <1>1, <1>5, <1>8
  <2> QED  BY <2>1, <2>2, <1>1, <1>2, <1>7 DEF TailHolds
<1>11. Continues(c)'
  BY <1>1, <1>7, <1>8 DEF StreamInv, DeliveryInv, Continues
<1>12. DeliveryInv'
  BY <1>1, <1>7, <1>9, <1>10, <1>11, OthersDeliver DEF StreamInv
<1>13. TurnInv'
  BY <1>1, <1>7, TurnStays
<1> QED  BY <1>6, <1>12, <1>13 DEF StreamInv

\* The first event taken is the one after the position.
LEMMA NextToWrite ==
    ASSUME NEW c \in Conns, StreamInv, pc[c] = "write", pending[c] # << >>
    PROVE  /\ Head(pending[c]) \in Items /\ Head(pending[c]).id = Position(c) + 1
           /\ Position(c) \in Nat /\ Position(c) + 1 \in DOMAIN events
           /\ Head(pending[c]).kind = events[Position(c) + 1]
           /\ pending[c] \in Seq(Items) /\ Len(pending[c]) \in Nat \ {0} /\ index[c] \in Nat
           /\ index[c] <= Len(events) /\ Len(pending[c]) <= index[c]
           /\ \A i \in 1..(Len(pending[c]) - 1) :
                /\ pending[c][i + 1].id = Position(c) + 1 + i
                /\ pending[c][i + 1].kind = events[Position(c) + 1 + i]
<1>1. /\ pending[c] \in Seq(Items) /\ index[c] \in Nat /\ Len(events) \in Nat
      /\ DOMAIN events = 1..Len(events)
  BY DEF StreamInv, StreamTypeOK
<1>2. /\ Len(pending[c]) \in Nat \ {0} /\ DOMAIN pending[c] = 1..Len(pending[c])
      /\ Head(pending[c]) = pending[c][1] /\ Head(pending[c]) \in Items
  BY <1>1
<1>3. /\ index[c] <= Len(events) /\ Len(pending[c]) <= index[c]
      /\ \A i \in DOMAIN pending[c] :
            /\ pending[c][i].id = Position(c) + i
            /\ pending[c][i].kind = events[Position(c) + i]
  BY DEF StreamInv, DeliveryInv, TailHolds
<1>4. Position(c) \in Nat /\ Position(c) + 1 \in 1..Len(events)
  BY <1>1, <1>2, <1>3 DEF Position
<1>5. \A i \in 1..(Len(pending[c]) - 1) :
                /\ pending[c][i + 1].id = Position(c) + 1 + i
                /\ pending[c][i + 1].kind = events[Position(c) + 1 + i]
  <2> TAKE i \in 1..(Len(pending[c]) - 1)
  <2>1. i + 1 \in DOMAIN pending[c]
    BY <1>2
  <2>2. Position(c) + (i + 1) = Position(c) + 1 + i
    BY <1>4
  <2> QED  BY <2>1, <2>2, <1>3
<1> QED  BY <1>1, <1>2, <1>3, <1>4, <1>5

\* One event is written, or passed, and some end the tail.
LEMMA StreamWriteKeeps == ASSUME NEW c \in Conns PROVE StreamInv /\ Stream!Write(c) => StreamInv'
<1> SUFFICES ASSUME StreamInv, Stream!Write(c) PROVE StreamInv'
  OBVIOUS
<1> DEFINE e == Head(pending[c])
           w == IF e.kind \in Stream!Quiet \/ c \in broken THEN wire[c] ELSE Append(wire[c], e)
           p == IF Stream!EndsTail(e.kind) THEN << >> ELSE Tail(pending[c])
           next == IF Stream!EndsTail(e.kind) THEN "finish" ELSE IF Len(pending[c]) = 1 THEN "tail" ELSE "write"
<1>1. /\ UNCHANGED <<produced, attempt, channel, events, entry, index, broken, lastId, received>>
      /\ pc[c] = "write" /\ pending[c] # << >>
      /\ pending' = [pending EXCEPT ![c] = p] /\ wire' = [wire EXCEPT ![c] = w]
      /\ pc' = [pc EXCEPT ![c] = next]
  <2>1. \A f : f = wire => (f \in [Conns -> Seq(Items)] => [f EXCEPT ![c] = f[c]] = f)
    OBVIOUS
  <2>2. wire \in [Conns -> Seq(Items)]
    BY DEF StreamInv, StreamTypeOK
  <2> QED  BY <2>1, <2>2 DEF Stream!Write, Stream!turnVars, Stream!browserVars
<1>2. /\ e \in Items /\ e.id = Position(c) + 1
      /\ Position(c) \in Nat /\ Position(c) + 1 \in DOMAIN events /\ e.kind = events[Position(c) + 1]
      /\ pending[c] \in Seq(Items) /\ Len(pending[c]) \in Nat \ {0} /\ index[c] \in Nat
      /\ index[c] <= Len(events) /\ Len(pending[c]) <= index[c]
      /\ \A i \in 1..(Len(pending[c]) - 1) :
            /\ pending[c][i + 1].id = Position(c) + 1 + i
            /\ pending[c][i + 1].kind = events[Position(c) + 1 + i]
  BY <1>1, NextToWrite
<1>3. wire[c] \in Seq(Items) /\ events \in Seq(Sent) /\ lastId \in Nat
  BY DEF StreamInv, StreamTypeOK
<1>4. w \in Seq(Items) /\ p \in Seq(Items) /\ next \in Statuses
  BY <1>1, <1>2, <1>3 DEF Statuses
<1>5. /\ ~Stream!EndsTail(e.kind) => p = Tail(pending[c]) /\ next = IF Len(pending[c]) = 1 THEN "tail" ELSE "write"
      /\ Stream!EndsTail(e.kind) => p = << >> /\ next = "finish"
      /\ Tail(pending[c]) \in Seq(Items) /\ Len(Tail(pending[c])) = Len(pending[c]) - 1
      /\ DOMAIN Tail(pending[c]) = 1..(Len(pending[c]) - 1)
      /\ \A i \in 1..(Len(pending[c]) - 1) : Tail(pending[c])[i] = pending[c][i + 1]
  BY <1>1, <1>2
<1>6. /\ c \notin broken /\ e.kind \notin Stream!Quiet => w = Append(wire[c], e)
      /\ c \in broken \/ e.kind \in Stream!Quiet => w = wire[c]
      /\ e.kind \in Stream!Quiet => ~Stream!EndsTail(e.kind)
  BY DEF Stream!EndsTail, Stream!Quiet, Stream!Errors, Stream!Terminal
<1> HIDE DEF e, w, p, next
<1>7. StreamTypeOK'
  BY <1>1, <1>4 DEF StreamInv, StreamTypeOK
<1>8. /\ pc'[c] = next /\ wire'[c] = w /\ pending'[c] = p
      /\ \A d \in Conns \ {c} : pc'[d] = pc[d] /\ wire'[d] = wire[d] /\ pending'[d] = pending[d]
  BY <1>1 DEF StreamInv, StreamTypeOK
<1>9. ~Stream!EndsTail(e.kind) => Position(c)' = Position(c) + 1
  BY <1>1, <1>2, <1>5, <1>8 DEF Position
<1>10. Stream!Over(c) => Stream!Over(c)'
  BY <1>1 DEF Stream!Over
<1>11. TailHolds(c)'
  <2>1. CASE Stream!EndsTail(e.kind)
    BY <2>1, <1>1, <1>2, <1>5, <1>8 DEF TailHolds
  <2>2. CASE ~Stream!EndsTail(e.kind)
    <3>1. /\ pending'[c] = Tail(pending[c]) /\ index'[c] = index[c]
          /\ Position(c)' = Position(c) + 1
      BY <2>2, <1>1, <1>5, <1>8, <1>9
    <3>2. pc'[c] # "write" => pending'[c] = << >>
      <4>1. CASE Len(pending[c]) = 1
        <5>1. Len(Tail(pending[c])) = 0
          BY <4>1, <1>5
        <5>2. \A q \in Seq(Items) : Len(q) = 0 => q = << >>
          OBVIOUS
        <5> QED  BY <5>1, <5>2, <3>1, <1>5
      <4>2. CASE Len(pending[c]) # 1
        BY <4>2, <2>2, <1>5, <1>8
      <4> QED  BY <4>1, <4>2
    <3>3. \A i \in DOMAIN pending'[c] :
            /\ pending'[c][i].id = Position(c)' + i
            /\ pending'[c][i].kind = events'[Position(c)' + i]
      <4> TAKE i \in DOMAIN pending'[c]
      <4>1. i \in 1..(Len(pending[c]) - 1) /\ pending'[c][i] = pending[c][i + 1]
        BY <3>1, <1>5
      <4> QED  BY <4>1, <3>1, <1>1, <1>2
    <3> QED  BY <3>1, <3>2, <3>3, <1>1, <1>2, <1>5 DEF TailHolds
  <2> QED  BY <2>1, <2>2
<1>12. Continues(c)'
  <2>1. /\ c \in broken => wire[c] = << >>
        /\ c \notin broken => OnWire(wire[c], events, lastId) /\ OnWireTo(wire[c], events, lastId, Position(c))
    BY <1>1 DEF StreamInv, DeliveryInv, Continues
  <2>2. pc'[c] \notin {"new", "attach"}
    BY <1>5, <1>8
  <2>3. CASE c \in broken
    BY <2>1, <2>2, <2>3, <1>1, <1>6, <1>8 DEF Continues
  <2>4. CASE c \notin broken /\ e.kind \in Stream!Quiet
    <3>1. OnWireTo(wire[c], events, lastId, Position(c) + 1)
      BY <2>1, <2>4, <1>2, <1>3, WirePasses
    <3> QED  BY <3>1, <2>1, <2>2, <2>4, <1>1, <1>6, <1>8, <1>9 DEF Continues
  <2>5. CASE c \notin broken /\ e.kind \notin Stream!Quiet
    <3>1. /\ OnWire(Append(wire[c], e), events, lastId)
          /\ OnWireTo(Append(wire[c], e), events, lastId, Position(c) + 1)
      BY <2>1, <2>5, <1>2, <1>3, WireGrows
    <3>2. Stream!EndsTail(e.kind) => pc'[c] = "finish"
      BY <1>5, <1>8
    <3> QED  BY <3>1, <3>2, <2>2, <2>5, <1>1, <1>6, <1>8, <1>9 DEF Continues
  <2> QED  BY <2>3, <2>4, <2>5
<1>13. DeliveryInv'
  BY <1>1, <1>8, <1>10, <1>11, <1>12, OthersDeliver DEF StreamInv
<1>14. pc'[c] = "finish" => attempt # "running" \/ Failing
  <2> SUFFICES ASSUME pc'[c] = "finish" PROVE attempt # "running" \/ Failing
    OBVIOUS
  <2>1. Stream!EndsTail(e.kind)
    BY <1>5, <1>8
  <2>2. e.kind \in Stream!Terminal \cup {"error", "word"}
    <3>1. e.kind \in Sent
      BY <1>2, <1>3
    <3> QED  BY <2>1, <3>1 DEF Stream!EndsTail, Stream!Errors, Sent, Stream!Terminal
  <2> QED  BY <2>2, <1>2 DEF StreamInv, TurnInv, EndsAreSettled, Stream!Finished, Failing
<1>15. TurnInv'
  BY <1>1, <1>8, <1>14, TurnStays
<1> QED  BY <1>7, <1>13, <1>15 DEF StreamInv

\* A broken socket is noticed; the turn stays for a retry.
LEMMA LoseSocketKeeps == ASSUME NEW c \in Conns PROVE StreamInv /\ Stream!LoseSocket(c) => StreamInv'
<1> SUFFICES ASSUME StreamInv, Stream!LoseSocket(c) PROVE StreamInv'
  OBVIOUS
<1>1. /\ UNCHANGED <<produced, attempt, channel, events, entry, index, wire, broken, lastId, received>>
      /\ c \in broken
      /\ pending' = [pending EXCEPT ![c] = << >>] /\ pc' = [pc EXCEPT ![c] = "closed"]
  BY DEF Stream!LoseSocket, Stream!Close, Stream!turnVars, Stream!browserVars
<1>2. StreamTypeOK'
  BY <1>1 DEF StreamInv, StreamTypeOK, Statuses
<1>3. /\ pc'[c] = "closed" /\ pending'[c] = << >>
      /\ \A d \in Conns \ {c} : pc'[d] = pc[d] /\ pending'[d] = pending[d]
  BY <1>1 DEF StreamInv, StreamTypeOK
<1>4. Stream!Over(c) => Stream!Over(c)'
  BY <1>1 DEF Stream!Over
<1>5. TailHolds(c)'
  BY <1>1, <1>3 DEF StreamInv, StreamTypeOK, TailHolds
<1>6. Continues(c)'
  BY <1>1, <1>3 DEF StreamInv, DeliveryInv, Continues
<1>7. DeliveryInv'
  BY <1>1, <1>3, <1>4, <1>5, <1>6, OthersDeliver DEF StreamInv
<1>8. TurnInv'
  BY <1>1, <1>3, TurnStays
<1> QED  BY <1>2, <1>7, <1>8 DEF StreamInv

\* The tail ends after the terminal event, and then its entry goes.
LEMMA EndKeeps ==
    ASSUME NEW c \in Conns
    PROVE  StreamInv /\ (Stream!EndOfTail(c) \/ Stream!Finish(c)) => StreamInv'
<1> SUFFICES ASSUME StreamInv, Stream!EndOfTail(c) \/ Stream!Finish(c) PROVE StreamInv'
  OBVIOUS
<1>1. /\ UNCHANGED <<produced, attempt, channel, events, index, pending, wire, broken, lastId, received>>
      /\ \/ /\ pc[c] = "tail" /\ Stream!Finished /\ UNCHANGED entry
            /\ pc' = [pc EXCEPT ![c] = "finish"]
         \/ /\ pc[c] = "finish" /\ entry' = FALSE
            /\ pc' = [pc EXCEPT ![c] = "closed"]
  BY DEF Stream!EndOfTail, Stream!Finish, Stream!Close, Stream!turnVars, Stream!tailVars, Stream!browserVars
<1>2. StreamTypeOK'
  BY <1>1 DEF StreamInv, StreamTypeOK, Statuses
<1>3. /\ pc'[c] \in {"finish", "closed"} /\ pc[c] \in {"tail", "finish"}
      /\ \A d \in Conns \ {c} : pc'[d] = pc[d]
  BY <1>1 DEF StreamInv, StreamTypeOK
<1>4. Stream!Over(c) => Stream!Over(c)'
  BY <1>1, <1>3 DEF Stream!Over
<1>5. Position(c)' = Position(c) /\ TailHolds(c) /\ Continues(c)
  BY <1>1 DEF StreamInv, DeliveryInv, Position
<1>6. pending[c] = << >>
  BY <1>3, <1>5 DEF TailHolds
<1>7. TailHolds(c)'
  BY <1>1, <1>3, <1>5, <1>6 DEF TailHolds
<1>8. Continues(c)'
  BY <1>1, <1>3, <1>5 DEF Continues
<1>9. DeliveryInv'
  BY <1>1, <1>3, <1>4, <1>7, <1>8, OthersDeliver DEF StreamInv
<1>10. TurnInv'
  <2>1. CASE pc[c] = "tail"
    <3>1. attempt # "running" /\ UNCHANGED entry
      BY <2>1, <1>1 DEF StreamInv, TurnInv, EndsAreSettled
    <3> QED  BY <3>1, <1>1, <1>3, TurnStays
  <2>2. CASE pc[c] = "finish"
    <3>1. entry' = FALSE /\ pc'[c] = "closed" /\ (attempt # "running" \/ Failing)
      BY <2>2, <1>1 DEF StreamInv, StreamTypeOK, TurnInv, FinishedTails
    <3>2. Failing' = Failing /\ Stream!Finished' = Stream!Finished
      BY <1>1 DEF Failing, Stream!Finished
    <3>3. FinishedTails'
      BY <3>1, <3>2, <1>1, <1>3 DEF StreamInv, TurnInv, FinishedTails
    <3>4. Stream!RunningTurnsAreFound'
      BY <3>1, <1>1 DEF Stream!RunningTurnsAreFound, Failing
    <3> QED  BY <3>2, <3>3, <3>4, <1>1 DEF StreamInv, TurnInv, Stream!OneEnd, EndsAreSettled
  <2> QED  BY <2>1, <2>2, <1>3
<1> QED  BY <1>2, <1>9, <1>10 DEF StreamInv

\* Past the deadline the browser is told, and a turn that still runs is cancelled.
LEMMA TimeOutKeeps == ASSUME NEW c \in Conns PROVE StreamInv /\ Stream!TimeOut(c) => StreamInv'
<1> SUFFICES ASSUME StreamInv, Stream!TimeOut(c) PROVE StreamInv'
  OBVIOUS
<1> DEFINE told == Stream!Item(0, "timeout")
           w == IF c \in broken THEN wire[c] ELSE Append(wire[c], told)
<1>1. /\ UNCHANGED <<produced, events, index, pending, broken, lastId, received>>
      /\ pc[c] = "tail" /\ wire' = [wire EXCEPT ![c] = w] /\ pc' = [pc EXCEPT ![c] = "finish"]
  <2>1. \A f : f = wire => (f \in [Conns -> Seq(Items)] => [f EXCEPT ![c] = f[c]] = f)
    OBVIOUS
  <2>2. wire \in [Conns -> Seq(Items)]
    BY DEF StreamInv, StreamTypeOK
  <2> QED  BY <2>1, <2>2 DEF Stream!TimeOut, Stream!browserVars
<1>2. told \in Items /\ told.id = 0
  BY DEF Stream!Item, Items, Stream!Kinds, Stream!Errors
<1>3. wire[c] \in Seq(Items)
  BY DEF StreamInv, StreamTypeOK
<1> HIDE DEF told
<1>4. w \in Seq(Items)
  BY <1>2, <1>3
<1>5. /\ c \in broken => w = wire[c]
      /\ c \notin broken => w = Append(wire[c], told)
  OBVIOUS
<1> HIDE DEF w
<1>6. /\ attempt' \in {"running", "finishing", "done", "cancelled"} /\ channel' \in Seq(Sent)
      /\ entry' \in BOOLEAN
      /\ \/ attempt' # "running" /\ entry' = FALSE
         \/ UNCHANGED <<attempt, channel, entry>> /\ ~entry
  BY EndActiveChatIs DEF Stream!TimeOut, StreamInv, StreamTypeOK
<1>7. StreamTypeOK'
  BY <1>1, <1>4, <1>6 DEF StreamInv, StreamTypeOK, Statuses
<1>8. /\ pc'[c] = "finish" /\ wire'[c] = w
      /\ \A d \in Conns \ {c} : pc'[d] = pc[d] /\ wire'[d] = wire[d]
  BY <1>1 DEF StreamInv, StreamTypeOK
<1>9. Stream!Over(c) => Stream!Over(c)'
  BY <1>1 DEF Stream!Over
<1>10. TailHolds(c)'
  BY <1>1, <1>8 DEF StreamInv, DeliveryInv, TailHolds, Position
<1>11. Continues(c)'
  <2>1. /\ c \in broken => wire[c] = << >>
        /\ c \notin broken => OnWire(wire[c], events, lastId)
    BY DEF StreamInv, DeliveryInv, Continues
  <2>2. OnWire(wire[c], events, lastId) => OnWire(Append(wire[c], told), events, lastId)
    BY <1>2, <1>3, WireTold
  <2> QED  BY <2>1, <2>2, <1>1, <1>5, <1>8 DEF Continues
<1>12. DeliveryInv'
  BY <1>1, <1>8, <1>9, <1>10, <1>11, OthersDeliver DEF StreamInv
<1>13. TurnInv'
  <2>1. CASE attempt' # "running" /\ entry' = FALSE
    <3>1. Stream!OneEnd'
      BY <1>1 DEF StreamInv, TurnInv, Stream!OneEnd
    <3> QED  BY <2>1, <3>1 DEF TurnInv, EndsAreSettled, FinishedTails, Stream!RunningTurnsAreFound
  <2>2. CASE UNCHANGED <<attempt, channel, entry>> /\ ~entry
    <3>1. attempt # "running" \/ Failing
      BY <2>2 DEF StreamInv, TurnInv, Stream!RunningTurnsAreFound, Failing
    <3> QED  BY <3>1, <2>2, <1>1, <1>8, TurnStays
  <2> QED  BY <2>1, <2>2, <1>6
<1> QED  BY <1>7, <1>12, <1>13 DEF StreamInv

-----------------------------------------------------------------------------
(* The theorems. *)

\* A turn begins with nothing sent and nobody connected.
LEMMA StreamInit == Stream!Init => StreamInv
<1> SUFFICES ASSUME Stream!Init PROVE StreamInv
  OBVIOUS
<1>1. StreamTypeOK
  BY DEF Stream!Init, StreamTypeOK, Statuses
<1>2. HasRead(received, events, lastId)
  BY DEF Stream!Init, HasRead
<1>3. \A c \in Conns : /\ pc[c] = "new" /\ index[c] = 0
                        /\ pending[c] = << >> /\ wire[c] = << >>
  BY DEF Stream!Init
<1>4. \A c \in Conns : TailHolds(c) /\ Continues(c)
  <2> TAKE c \in Conns
  <2>1. Len(pending[c]) = 0 /\ DOMAIN pending[c] = {}
    BY <1>3
  <2>2. OnWire(wire[c], events, lastId)
    BY <1>3 DEF OnWire
  <2>3. TailHolds(c)
    BY <1>3, <2>1 DEF TailHolds
  <2>4. Continues(c)
    BY <1>3, <2>2 DEF Continues
  <2> QED  BY <2>3, <2>4
<1>5. Alone /\ lastId <= Len(events)
  BY DEF Stream!Init, Alone, Stream!Over
<1>6. TurnInv
  BY DEF Stream!Init, TurnInv, Stream!OneEnd, EndsAreSettled, Stream!Finished, FinishedTails, Stream!RunningTurnsAreFound
<1> QED  BY <1>1, <1>2, <1>4, <1>5, <1>6 DEF StreamInv, DeliveryInv

\* Every step keeps the invariant.
LEMMA StreamNext == ASSUME Stream!StreamAssumption PROVE StreamInv /\ [Stream!Next]_Stream!vars => StreamInv'
<1> SUFFICES ASSUME StreamInv, [Stream!Next]_Stream!vars PROVE StreamInv'
  OBVIOUS
<1>1. CASE UNCHANGED Stream!vars
  <2>1. UNCHANGED <<produced, attempt, channel, events, entry, pc, index, pending, wire, broken,
                    lastId, received>>
    BY <1>1 DEF Stream!vars, Stream!turnVars, Stream!tailVars, Stream!browserVars
  <2>2. StreamTypeOK'
    BY <2>1 DEF StreamInv, StreamTypeOK
  <2>3. TurnInv'
    BY <2>1 DEF StreamInv, TurnInv, Stream!OneEnd, EndsAreSettled, Stream!Finished, FinishedTails, Failing,
                Stream!RunningTurnsAreFound
  <2> QED  BY <2>1, <2>2, <2>3, DeliveryStays DEF StreamInv
<1>2. CASE Stream!Produce \/ Stream!Settle \/ Stream!Announce("finished") \/ Stream!Announce("failed") \/ Stream!Forward
  BY <1>2, ProduceKeeps, SettleKeeps, ForwardKeeps
<1>3. CASE Stream!CancelChat \/ Stream!ReapExpired \/ Stream!PassDeadline
  BY <1>3, TurnEndKeeps
<1>4. ASSUME NEW c \in Conns, Stream!Connect(c) \/ Stream!Receive(c) \/ Stream!Break(c) PROVE StreamInv'
  BY <1>4, ConnectKeeps, ReceiveKeeps, BreakKeeps
<1>5. ASSUME NEW c \in Conns, Stream!TailStep(c) PROVE StreamInv'
  BY <1>5, AttachKeeps, TakeKeeps, StreamWriteKeeps, LoseSocketKeeps, EndKeeps, TimeOutKeeps DEF Stream!TailStep
<1> QED  BY <1>1, <1>2, <1>3, <1>4, <1>5 DEF Stream!Next

\* What was read and the one connection that can still deliver make, without a gap, the
\* events up to the tail's position; the end of a turn is sent after it is settled.
THEOREM StreamHolds == ASSUME Stream!StreamAssumption PROVE Stream!Spec => []StreamInv
<1>1. Stream!Init => StreamInv
  BY StreamInit
<1>2. StreamInv /\ [Stream!Next]_Stream!vars => StreamInv'
  BY StreamNext
<1> QED  BY <1>1, <1>2, PTL DEF Stream!Spec

\* Over any number of connections and breaks the browser reads each written event once and
\* in order; there is one end; no running turn is lost (handle_chat_stream, finish_chat).
THEOREM StreamsStayWhole == ASSUME Stream!StreamAssumption PROVE Stream!Spec => []StreamsAreWhole
<1>1. StreamInv => StreamsAreWhole
  <2> SUFFICES ASSUME StreamInv PROVE Stream!DeliveryIsExact
    BY DEF StreamInv, TurnInv, StreamsAreWhole, Stream!StreamsAreWhole
  <2> DEFINE Heard == {i \in DOMAIN received : received[i].id # 0}
             Written == {n \in DOMAIN events : events[n] \notin Stream!Quiet}
  <2>1. HasRead(received, events, lastId) /\ DOMAIN events = 1..Len(events)
    BY DEF StreamInv, DeliveryInv, StreamTypeOK
  <2>2. {n \in Written : n <= lastId} \subseteq {received[i].id : i \in Heard}
    BY <2>1 DEF HasRead
  <2>3. {received[i].id : i \in Heard} \subseteq {n \in Written : n <= lastId}
    BY <2>1 DEF HasRead
  <2>4. /\ \A i \in Heard : received[i].kind = events[received[i].id]
        /\ \A i, j \in Heard : i < j => received[i].id < received[j].id
    BY <2>1 DEF HasRead
  <2> QED  BY <2>2, <2>3, <2>4 DEF Stream!DeliveryIsExact
<1> QED  BY <1>1, StreamHolds, PTL

=============================================================================
