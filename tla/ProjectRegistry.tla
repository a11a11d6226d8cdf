---------------------------- MODULE ProjectRegistry ----------------------------
(***************************************************************************)
(* Projects, where their durable stores are, and the runtimes that serve   *)
(* them: register_project and the candidate lookup of canonical_control.rs,*)
(* the identity rows of domain.rs, ProjectRuntimeRegistry of               *)
(* execution_runtime.rs. A store is a substrate.sqlite3 with its Project   *)
(* rows; it lies at a root and moves with its directory. A launch, a       *)
(* registration and the registry's shutdown run concurrently, each under a *)
(* lock of its own, while directories move.                                *)
(***************************************************************************)
EXTENDS Integers, FiniteSets

CONSTANTS
    Roots,       \* directories
    Stores,      \* durable stores, in use or not yet created
    Home,        \* the store and the root the system starts from
    MaxIds,      \* bound: Project identities ever minted
    MaxMoves,    \* bound: directory moves
    Nowhere, NoRoot, Idle

ASSUME RegistryAssumption ==
    /\ Home.store \in Stores /\ Home.root \in Roots /\ NoRoot \notin Roots
    /\ MaxIds \in Nat \ {0} /\ MaxMoves \in Nat

Ids == 1..MaxIds

\* What a registration under registry_lock holds, step by step.
Registrations ==
    [step : {"read", "write"}, id : Ids, root : Roots]
      \cup [step : {"join"}, id : Ids, root : Roots, old : Roots \cup {NoRoot}]

ASSUME IdleAssumption == Idle \notin Registrations

VARIABLES
    at,         \* where each store lies
    rows,       \* domain_projects of each store: identity and recorded root
    minted,     \* identities made so far
    registry,   \* the registered root of each Project
    runtimes,   \* ProjectRuntimeRegistry: the root of each Project's runtime
    live,       \* runtimes whose workers run
    closing,    \* ProjectRuntimeState.shutdown
    register,   \* the registration that holds registry_lock
    launch,     \* the launch that holds launch_lock
    jobs,       \* history: Jobs launched, by Project and store
    moves

vars == <<at, rows, minted, registry, runtimes, live, closing, register, launch, jobs, moves>>

Row(id, root) == [id |-> id, root |-> root]
Runtime(id, root) == [id |-> id, root |-> root]

StoreAt(root) == {s \in Stores : at[s] = root}
IdsAt(s, root) == {r.id : r \in {r \in rows[s] : r.root = root}}

\* ensure_project: the row of this root, or a new identity.
EnsureProject(s, root) ==
    IF IdsAt(s, root) # {} THEN UNCHANGED <<rows, minted>>
    ELSE /\ minted < MaxIds
         /\ minted' = minted + 1
         /\ rows' = [rows EXCEPT ![s] = @ \cup {Row(minted + 1, root)}]

\* Mutation: any store with no row for this root is given a new identity.
ReconcileByRoot(s, root) == EnsureProject(s, root)

\* reconcile_project: a store that moved keeps its one identity, at its new root.
ReconcileProject(s, root) ==
    IF IdsAt(s, root) = {} /\ Cardinality(rows[s]) = 1
    THEN /\ rows' = [rows EXCEPT ![s] = {Row(r.id, root) : r \in @}]
         /\ UNCHANGED minted
    ELSE /\ IdsAt(s, root) # {} \/ rows[s] = {}
         /\ EnsureProject(s, root)

\* Mutation: a store that exists at the registered root is taken for the Project's.
CandidateByRoot(id) == StoreAt(registry[id])

\* candidate_repository: the store at the registered root, if its row says so.
Candidate(id) == {s \in StoreAt(registry[id]) : id \in IdsAt(s, registry[id])}

Init ==
    /\ at = [s \in Stores |-> IF s = Home.store THEN Home.root ELSE Nowhere]
    /\ rows = [s \in Stores |-> IF s = Home.store THEN {Row(1, Home.root)} ELSE {}]
    /\ minted = 1
    /\ registry = [id \in Ids |-> NoRoot]
    /\ runtimes = [id \in Ids |-> NoRoot]
    /\ live = {} /\ closing = FALSE
    /\ register = Idle /\ launch = Idle
    /\ jobs = {} /\ moves = 0

-----------------------------------------------------------------------------
\* register_project

\* The root's own store proves the identity: opened without creating one, then reconciled.
Reconcile(root) ==
    /\ register = Idle
    /\ \E s \in StoreAt(root) :
        /\ ReconcileProject(s, root)
        /\ \E id \in {r.id : r \in {r \in rows'[s] : r.root = root}} :
            register' = [step |-> "read", id |-> id, root |-> root]
    /\ UNCHANGED <<at, registry, runtimes, live, closing, launch, jobs, moves>>

\* A record of this identity at another root: its runtime is taken out of the
\* map before the record may change.
Invalidate ==
    /\ register # Idle /\ register.step = "read"
    /\ IF registry[register.id] \in {NoRoot, register.root}
       THEN register' = [register EXCEPT !.step = "write"] /\ UNCHANGED runtimes
       ELSE /\ register' = [step |-> "join", id |-> register.id, root |-> register.root,
                            old |-> runtimes[register.id]]
            /\ runtimes' = [runtimes EXCEPT ![register.id] = NoRoot]
    /\ UNCHANGED <<at, rows, minted, registry, live, closing, launch, jobs, moves>>

\* ExecutionRuntime::shutdown joins the workers outside the map's lock; a worker
\* that reports a failure aborts the registration.
JoinInvalidated(failed) ==
    /\ register # Idle /\ register.step = "join"
    /\ failed => register.old # NoRoot
    /\ live' = live \ {Runtime(register.id, register.old)}
    /\ register' = IF failed THEN Idle ELSE [step |-> "write", id |-> register.id, root |-> register.root]
    /\ UNCHANGED <<at, rows, minted, registry, runtimes, closing, launch, jobs, moves>>

WriteProjects ==
    /\ register # Idle /\ register.step = "write"
    /\ registry' = [registry EXCEPT ![register.id] = register.root]
    /\ register' = Idle
    /\ UNCHANGED <<at, rows, minted, runtimes, live, closing, launch, jobs, moves>>

-----------------------------------------------------------------------------
\* launch_job, as far as the Project and its runtime go

\* project_repository: the record and its candidate store; the handle stays on
\* that store wherever its directory moves.
OpenProject(id) ==
    /\ launch = Idle
    /\ registry[id] # NoRoot
    /\ \E s \in Candidate(id) :
        launch' = [step |-> "runtime", id |-> id, root |-> registry[id], store |-> s]
    /\ UNCHANGED <<at, rows, minted, registry, runtimes, live, closing, register, jobs, moves>>

\* Mutation: a runtime is started although the registry is shutting down.
GetOrStartAnyway ==
    /\ launch # Idle /\ launch.step = "runtime"
    /\ runtimes' = [runtimes EXCEPT ![launch.id] = launch.root]
    /\ live' = live \cup {Runtime(launch.id, launch.root)}
    /\ launch' = [launch EXCEPT !.step = "create"]
    /\ UNCHANGED <<at, rows, minted, registry, closing, register, jobs, moves>>

\* get_or_start: the cached runtime if it is of this root, else a new one, whose
\* own open requires (and so mints) an identity in the store found at the root.
GetOrStart ==
    /\ launch # Idle /\ launch.step = "runtime"
    /\ \/ /\ \/ closing
             \/ runtimes[launch.id] \notin {NoRoot, launch.root}
             \/ StoreAt(launch.root) = {}
          /\ launch' = Idle
          /\ UNCHANGED <<at, rows, minted, runtimes, live>>
       \/ /\ ~closing /\ runtimes[launch.id] = launch.root
          /\ launch' = [launch EXCEPT !.step = "create"]
          /\ UNCHANGED <<at, rows, minted, runtimes, live>>
       \/ /\ ~closing /\ runtimes[launch.id] = NoRoot
          /\ \E s \in StoreAt(launch.root) : EnsureProject(s, launch.root)
          /\ UNCHANGED at
          /\ runtimes' = [runtimes EXCEPT ![launch.id] = launch.root]
          /\ live' = live \cup {Runtime(launch.id, launch.root)}
          /\ launch' = [launch EXCEPT !.step = "create"]
    /\ UNCHANGED <<registry, closing, register, jobs, moves>>

\* The identity is read back before the Job is created, for that identity:
\* launching mints none.
CreateJob ==
    /\ launch # Idle /\ launch.step = "create"
    /\ jobs' = jobs \cup {[id |-> id, asked |-> launch.id, store |-> launch.store] :
                            id \in IdsAt(launch.store, launch.root)}
    /\ launch' = Idle
    /\ UNCHANGED <<at, rows, minted, registry, runtimes, live, closing, register, moves>>

-----------------------------------------------------------------------------
\* The map is taken and closed in one locked step; the joins follow.
Shutdown ==
    /\ ~closing
    /\ closing' = TRUE
    /\ runtimes' = [id \in Ids |-> NoRoot]
    /\ UNCHANGED <<at, rows, minted, registry, live, register, launch, jobs, moves>>

JoinAll ==
    /\ closing
    /\ live' = {r \in live : register # Idle /\ register.step = "join"
                                /\ r = Runtime(register.id, register.old)}
    /\ live' # live
    /\ UNCHANGED <<at, rows, minted, registry, runtimes, closing, register, launch, jobs, moves>>

\* A directory is moved, with the store it holds.
MoveDirectory(s, root) ==
    /\ moves < MaxMoves
    /\ at[s] \in Roots /\ StoreAt(root) = {}
    /\ at' = [at EXCEPT ![s] = root]
    /\ moves' = moves + 1
    /\ UNCHANGED <<rows, minted, registry, runtimes, live, closing, register, launch, jobs>>

\* A command line run in a root opens its store, which requires an identity there.
OpenStore(root) ==
    /\ \E s \in IF StoreAt(root) # {} THEN StoreAt(root) ELSE {t \in Stores : at[t] = Nowhere} :
        /\ at' = [at EXCEPT ![s] = root]
        /\ EnsureProject(s, root)
    /\ UNCHANGED <<registry, runtimes, live, closing, register, launch, jobs, moves>>

Next ==
    \/ \E root \in Roots : Reconcile(root) \/ OpenStore(root)
    \/ Invalidate \/ \E failed \in BOOLEAN : JoinInvalidated(failed)
    \/ WriteProjects
    \/ \E id \in Ids : OpenProject(id)
    \/ GetOrStart \/ CreateJob \/ Shutdown \/ JoinAll
    \/ \E s \in Stores, root \in Roots : MoveDirectory(s, root)

Spec == Init /\ [][Next]_vars

-----------------------------------------------------------------------------
\* Properties.

\* A Job is launched only into a store that holds the identity it was launched
\* for, whatever moved between the lookup, the runtime's start and the creation.
LaunchesStayInTheirStore ==
    \A j \in jobs : {j.id, j.asked} \subseteq {r.id : r \in rows[j.store]}

\* A registration never gives a second identity to a store that holds one: a
\* moved Project keeps its own.
RegistrationKeepsIdentity ==
    [][register = Idle /\ register' # Idle =>
        \A s \in Stores : rows[s] # {} => {r.id : r \in rows'[s]} = {r.id : r \in rows[s]}]_vars

\* Every runtime whose workers run is in the map, or in the hands of the
\* registration or the shutdown that will join it: none is live and forgotten,
\* and none is added to the map of a registry that is closing.
NoRuntimeIsForgotten ==
    /\ closing => \A id \in Ids : runtimes[id] = NoRoot
    /\ \A r \in live : \/ runtimes[r.id] = r.root
                       \/ closing
                       \/ register # Idle /\ register.step = "join" /\ register.id = r.id

\* While directories move under registrations and launches, Jobs are created in the store
\* of their identity, and a runtime that runs is never forgotten (execution_runtime.rs).
MovedProjectsKeepTheirWork == LaunchesStayInTheirStore /\ NoRuntimeIsForgotten

\* register_project's comment: one project_id can never hold two authoritative roots.
OneRootPerProject ==
    register = Idle => \A id \in Ids : runtimes[id] \in {NoRoot, registry[id]}

\* launch_job's comment: a launch can never mint identity for a boundary whose
\* durable row is missing.
LaunchesMintNothing == [][launch # Idle /\ launch' # launch => minted' = minted]_vars
-----------------------------------------------------------------------------
(* The inductive invariant these properties rest on. *)

IdsOf(s) == {r.id : r \in rows[s]}

\* Identities are minted in order, and rows name those minted.
RowsAreMinted ==
    /\ DOMAIN rows = Stores /\ minted \in Ids
    /\ \A s \in Stores : IdsOf(s) \subseteq 1..minted

RegistryTypeOK ==
    /\ registry \in [Ids -> Roots \cup {NoRoot}] /\ runtimes \in [Ids -> Roots \cup {NoRoot}]
    /\ live \subseteq [id : Ids, root : Roots] /\ closing \in BOOLEAN
    /\ register # Idle => register \in Registrations
    /\ launch # Idle => launch \in
          [step : {"runtime", "create"}, id : Ids, root : Roots, store : Stores]

\* The store a launch has opened holds the identity it launches, and goes on doing so.
LaunchHoldsIdentity == launch # Idle => launch.id \in IdsOf(launch.store)

JobsHoldIdentity ==
    \A j \in jobs : j.store \in Stores /\ {j.id, j.asked} \subseteq IdsOf(j.store)

\* A registration joins every runtime of its Project that is not in the map.
JoinTakesAll ==
    register # Idle /\ register.step = "join" /\ ~closing =>
       \A r \in live : r.id = register.id => r.root = register.old \/ runtimes[r.id] = r.root

RegistryInv ==
    /\ RowsAreMinted /\ RegistryTypeOK /\ LaunchHoldsIdentity /\ JobsHoldIdentity
    /\ NoRuntimeIsForgotten /\ JoinTakesAll
=============================================================================
