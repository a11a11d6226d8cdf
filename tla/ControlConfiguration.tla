------------------------- MODULE ControlConfiguration -------------------------
(***************************************************************************)
(* The control process's configuration (canonical_control.rs): the global  *)
(* scope, the defaults of each Project and the revision, in one file that  *)
(* every command reads, changes and replaces as a whole; the adoption of   *)
(* the metadata an older version kept beside one Project; and the          *)
(* configuration of a Job, found by asking every registered Project.       *)
(* A command's payload is the number of the command; 0 is the default.     *)
(***************************************************************************)
EXTENDS Integers, FiniteSets

CONSTANTS
    Threads,     \* request handlers of the control process
    Projects,
    Legacies,    \* what an older version may have left beside its Project
    MaxCommands  \* bound on commands

None == "none"
Absent == [kind |-> "absent"]

\* What the files may hold: the registry, the first draft's list, or the scoped
\* form with the defaults of some Projects.
Registries == [kind : {"registry"}, members : SUBSET Projects]
Lists == [kind : {"list"}, global : Nat, entry : Nat, revision : Nat]
FilesOver(S) == [kind : {"file"}, global : Nat, defaults : [S -> Nat], revision : Nat]
IsFile(f) == \E S \in SUBSET Projects : f \in FilesOver(S)

ConfigurationAssumption ==
    /\ \A old \in Legacies :
        /\ old = [projects |-> old.projects, config |-> old.config]
        /\ old.projects \in {Absent} \cup Registries
        /\ old.config \in {Absent} \cup Lists \/ IsFile(old.config)
    /\ None \notin Threads

Default == [kind |-> "file", global |-> 0, defaults |-> [p \in {} |-> 0], revision |-> 0]

VARIABLES
    projects,      \* projects.json: Absent or the registered Projects, oldest first
    config,        \* config.json: Absent or its content
    legacy,        \* the older version's two files
    process,       \* "closed", "adopting", "open" or "failed"
    lock,          \* configuration_lock
    op,            \* the command each thread is executing, and what it read
    commands

vars == <<projects, config, legacy, process, lock, op, commands>>

Quiet == [pc |-> "idle", scope |-> None, value |-> 0, read |-> Default, answer |-> None, revision |-> 0]

Init ==
    /\ projects = Absent /\ config = Absent /\ legacy \in Legacies
    /\ process = "closed" /\ lock = None /\ commands = 0
    /\ op = [t \in Threads |-> Quiet]

Registered(f) == IF f = Absent THEN {} ELSE f.members

\* read_configuration: the defaults of the first draft's list belong to the
\* sole registered Project, and to none if there is no such Project.
Readable(f, members) ==
    f = Absent \/ f.kind # "list" \/ Cardinality(members) = 1
Content(f, members) ==
    CASE f = Absent -> Default
      [] f # Absent /\ f.kind = "list" ->
            [kind |-> "file", global |-> f.global, revision |-> f.revision,
             defaults |-> [p \in members |-> f.entry]]
      [] OTHER -> f

-----------------------------------------------------------------------------
\* Mutant: the configuration is adopted only together with the registry.
AdoptWithProjects ==
    /\ process = "closed"
    /\ IF projects = Absent /\ legacy.projects # Absent
       THEN projects' = legacy.projects /\ process' = "adopting"
       ELSE process' = "open" /\ UNCHANGED projects
    /\ UNCHANGED <<config, legacy, lock, op, commands>>

\* CanonicalControlService::open_process: what an older version left is
\* adopted once, the registry and the configuration each by a write of its own.
AdoptProjects ==
    /\ process = "closed"
    /\ projects' = IF projects = Absent THEN legacy.projects ELSE projects
    /\ process' = "adopting"
    /\ UNCHANGED <<config, legacy, lock, op, commands>>

AdoptConfiguration ==
    /\ process = "adopting"
    /\ IF config = Absent /\ legacy.config # Absent
       THEN IF Readable(legacy.config, Registered(legacy.projects))
            THEN /\ config' = Content(legacy.config, Registered(legacy.projects))
                 /\ process' = "open"
            ELSE process' = "failed" /\ UNCHANGED config
       ELSE process' = "open" /\ UNCHANGED config
    /\ UNCHANGED <<projects, legacy, lock, op, commands>>

\* register_project, as far as the configuration sees it (see ProjectRegistry).
Register(p) ==
    /\ process = "open" /\ p \notin Registered(projects)
    /\ projects' = [kind |-> "registry", members |-> Registered(projects) \cup {p}]
    /\ UNCHANGED <<config, legacy, process, lock, op, commands>>

Step(t, changes) == op' = [op EXCEPT ![t] = changes]
Answer(t, answer, revision) ==
    Step(t, [Quiet EXCEPT !.scope = op[t].scope, !.value = op[t].value, !.answer = answer, !.revision = revision])

\* set_project_defaults finds its Project before it takes the lock;
\* set_global_configuration looks for one after it has committed.
Begin(t, scope) ==
    /\ process = "open" /\ op[t].pc = "idle" /\ commands < MaxCommands
    /\ scope = "global" \/ scope \in Registered(projects)
    /\ commands' = commands + 1
    /\ Step(t, [Quiet EXCEPT !.pc = "lock", !.scope = scope, !.value = commands + 1])
    /\ UNCHANGED <<projects, config, legacy, process, lock>>

\* Mutant: the file is read before the lock is held.
ReadUnlocked(t) ==
    /\ op[t].pc = "lock" /\ process = "open"
    /\ Step(t, [op[t] EXCEPT !.pc = "write", !.read = Content(config, Registered(projects))])
    /\ UNCHANGED <<projects, config, legacy, process, lock, commands>>

Read(t) ==
    /\ op[t].pc = "lock" /\ lock = None /\ process = "open"
    /\ IF Readable(config, Registered(projects))
       THEN /\ lock' = t
            /\ Step(t, [op[t] EXCEPT !.pc = "write", !.read = Content(config, Registered(projects))])
       ELSE Answer(t, "refused", 0) /\ UNCHANGED lock
    /\ UNCHANGED <<projects, config, legacy, process, commands>>

\* Mutant: setting the global scope resets the Projects' defaults.
ChangedWhole(c, scope, value) ==
    [c EXCEPT !.revision = c.revision + 1,
              !.global = IF scope = "global" THEN value ELSE c.global,
              !.defaults = IF scope = "global" THEN [p \in {} |-> 0]
                           ELSE [p \in DOMAIN c.defaults \cup {scope} |->
                                    IF p = scope THEN value ELSE c.defaults[p]]]

\* What a command makes of the configuration it read: its own scope and the revision.
Changed(c, scope, value) ==
    [kind |-> "file", revision |-> c.revision + 1,
     global |-> IF scope = "global" THEN value ELSE c.global,
     defaults |-> IF scope = "global" THEN c.defaults
                  ELSE [p \in DOMAIN c.defaults \cup {scope} |->
                            IF p = scope THEN value ELSE c.defaults[p]]]

\* write_configuration is atomic_write: a temporary file renamed over the target.
Write(t) ==
    /\ op[t].pc = "write" /\ process = "open"
    /\ config' = Changed(op[t].read, op[t].scope, op[t].value)
    /\ Step(t, [op[t] EXCEPT !.pc = "answer", !.revision = config'.revision])
    /\ UNCHANGED <<projects, legacy, process, lock, commands>>

\* set_global_configuration answers with the first registered Project, and
\* refuses when there is none.
Respond(t) ==
    /\ op[t].pc = "answer" /\ process = "open"
    /\ IF op[t].scope = "global" /\ Registered(projects) = {}
       THEN Answer(t, "refused", 0) ELSE Answer(t, "accepted", op[t].revision)
    /\ lock' = IF lock = t THEN None ELSE lock
    /\ UNCHANGED <<projects, config, legacy, process, commands>>

\* The control process dies at any step and is started again.
Crash ==
    /\ process # "closed"
    /\ process' = "closed" /\ lock' = None
    /\ op' = [t \in Threads |-> IF op[t].pc = "idle" THEN op[t] ELSE Quiet]
    /\ UNCHANGED <<projects, config, legacy, commands>>

Next ==
    \/ AdoptProjects \/ AdoptConfiguration \/ Crash
    \/ \E p \in Projects : Register(p)
    \/ \E t \in Threads :
        \/ \E scope \in Projects \cup {"global"} : Begin(t, scope)
        \/ Read(t) \/ Write(t) \/ Respond(t)

Spec == Init /\ [][Next]_vars

-----------------------------------------------------------------------------
Scope(c, s) == IF s = "global" THEN c.global ELSE IF s \in DOMAIN c.defaults THEN c.defaults[s] ELSE 0

\* One command changes one scope of the configuration as it stands, and raises
\* its revision by one: no command undoes another, edits another Project's
\* defaults or gets the revision of another.
OneScopeAtATime ==
    [][config # Absent /\ config.kind = "file" /\ config' # config =>
        /\ config'.revision = config.revision + 1
        /\ \E changed \in Projects \cup {"global"} :
            \A s \in Projects \cup {"global"} : s # changed => Scope(config', s) = Scope(config, s)]_vars

\* What an older version had configured is in effect once the process is open,
\* until a command changes it, wherever an earlier start was cut off.
LegacyIsAdopted ==
    process = "open" /\ legacy.config # Absent =>
        /\ config # Absent
        /\ config.revision >= legacy.config.revision
        /\ config.revision = legacy.config.revision =>
            config = Content(legacy.config, Registered(legacy.projects))

\* An accepted command is in the file, or a command with a later revision is:
\* no answer is given for a change that a crash can take back.
AcceptedIsDurable ==
    \A t \in Threads : op[t].answer = "accepted" =>
        /\ config # Absent /\ config.revision >= op[t].revision
        /\ config.revision = op[t].revision => Scope(config, op[t].scope) = op[t].value

\* What is configured stays: what an older version left and what a command was told is kept.
ConfigurationIsDurable == LegacyIsAdopted /\ AcceptedIsDurable

\* A command that is refused has changed nothing ("register a Project before
\* configuring OCG" says that the configuration was not written).
RefusedChangesNothing ==
    \A t \in Threads : op[t].answer = "refused" =>
        config = Absent \/ config.kind # "file" \/ Scope(config, op[t].scope) # op[t].value
=============================================================================
