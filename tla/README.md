# OCG verification project

TLA+ models of OCG (`opencode-gear`): a Rust core that owns durable Jobs, their
execution by provider and tool workers, money, and the control API a web
interface talks to. Everything here is translated from `src/src/**.rs`.

## 1. The system

| Part | State it keeps | Operations | Talks to |
|---|---|---|---|
| Canonical execution authority (`orchestration/domain.rs`) | SQLite tables of Jobs, Attempts, Executors, Calls, dispatch intents, dependencies, bindings, late-result evidence | create/admit/dispatch/replace/cancel/finish, create/claim/finish/fail/fence a Call, deliver a result | journal, ledger, chat columns inside the same transaction |
| Execution journal (`orchestration/journal.rs`) | events with sequence numbers, durable head, retention floor with anchor and boundary digest | append, prune, read a delta, replay into a projection | written by every canonical transaction, read by the control server |
| Budget (`orchestration/budget.rs` and the accounting half of `domain.rs`) | per Project: hard limit, settled and reserved money, reservations, settlements | admit, reserve, settle, release, mark unresolved, prune | admission and settlement of provider dispatches |
| Canonical control (`orchestration/canonical_control.rs`) | Project registry files, launch command records, active chats, event buffers | launch a Job, launch/cancel/finish a chat turn | authority, provider worker |
| Bounded dispatch (`orchestration/execution_dispatch.rs`) | a bounded queue of envelopes, a cancellation token per Call | send (blocks when full), receive, close, cancel | producers: control, provider worker; consumer: one worker thread |
| Execution runtime (`orchestration/execution_runtime.rs`) | two dispatchers, two worker threads, the registry of runtimes | start with a recovery scan, stop, invalidate, shut down | recovery scan of the authority |
| Provider worker (`provider_loop.rs`), native tools (`native_tools.rs`) | a Call in flight | revalidate, claim, execute, settle, fail, cancel | authority, HTTP, processes |
| Call recovery (`call_recovery.rs`) | the Attempt's admitted Calls | resolve a name, validate, repair from completed Calls | provider worker |
| Context governor, compaction, budget (`context_governor.rs`, `compaction/`, `provider_context.rs`) | files of observations, compaction points of an Attempt | judge, store and prune; reduce, summarize, project | provider worker, state file |
| Repository context (`context/`) | an index and a cache of plans | snapshot, walk, index, plan, look up | git, the working tree |
| Verification and Job state files (`verification/`, `state.rs`) | `state.json`: baselines, compaction points | run commands, take deltas, load, save | CLI, provider requests |
| Native tools, resources, processes (`edit.rs`, `native_tools.rs`, `resources.rs`, `process.rs`) | files, the resource document, child processes | edit, read, search, run; merge, evict, load | tool worker |
| Control server (`control_server.rs`) | connections, live tails, retained events | route, stream, replay, time out | browsers, canonical control |
| Profile and Vault (`profile.rs`, `vault.rs`) | two user-global files and their locks | bootstrap, edit, connect, refresh | control server, CLI |
| Skills, instructions, telemetry, release, CLI | configuration files | read, resolve, write | everything else |
| Frontend (`frontend/components/ocg/runtime`) | a client-side view of snapshots and tails | reconcile, launch | control server |

Threads and processes share nothing but the SQLite file, the bounded queues and
the cancellation tokens. Every operation of the authority is one `IMMEDIATE`
transaction, so operations interleave as wholes; what is *not* atomic is a
caller that needs two of them (claim then finish, finish the Call then the
Attempt, request a cancellation then confirm it), and a process may die between
any two.

### What is hard here, and what makes each part correct

* **Authority.** A worker reads its authority and acts on it later. Correct
  means: one Attempt of a Job may act, exactly when the Job names it; revoked
  authority never returns; a Job tells the story of its latest Attempt; settled
  Calls and finished Jobs are final.
* **Effects.** A provider request or a tool run happens outside the database.
  Correct means: the intent row always knows whether the effect may have begun,
  so that a restart neither runs it twice nor forgets it.
* **Dependencies.** Edges may be added while Jobs start. Correct means: the
  graph stays acyclic and a started Job keeps its prerequisites completed.
* **Money.** Reservations are taken before and settled after the effect, by
  parties that may have lost authority. Correct means: committed money is
  exactly what the entries say, admission never passes the hard limit, each
  reservation is discharged once, and an unknown effect is never refunded.
* **Journal.** Readers are behind, pruned away or restored. Correct means: no
  reader skips an event without being told to resynchronise, and replaying the
  journal gives the canonical tables.
* **Dispatch and recovery.** Queue limits, blocked producers, cancellation,
  crash between two transactions. Correct means: every admitted Call reaches an
  outcome, or is found by recovery.
* **Control.** Duplicate launch commands, a chat turn cancelled while it
  launches, directories that move under launches, browsers that lose their
  connection. Correct means: one Job of a chat command is called, no live turn
  that nobody can cancel, work in the store of its Project, and tails without gaps.
* **Requests and answers.** A conversation is reduced, summarized and budgeted
  by passes that see each other's output; an answer arrives in fragments that
  may stop anywhere. Correct means: nothing the model is told is invented,
  nothing is lost silently, and a round is what the provider sent.
* **Files.** State, index, cache, Profile and Vault are read, worked on and
  replaced as wholes by several writers. Correct means: no writer undoes what it
  has read, and nothing is served from a file it no longer describes.

`PROJECT.json` lists each hazard at its line, with the properties that cover it, or a
note saying why none does: four hazards (a second reservation, the crash inside the
recovery scan, the crash inside a cancellation, the second root) are behaviours of the
code, and the properties except them.

## 2. Modules

| Module | Stands for | Kind |
|---|---|---|
| `ExecutionAuthority` | the tables and transactions of `orchestration/domain.rs` that decide who may act | detailed; abstract for `ProviderDispatch` |
| `ExecutionAuthority_proofs` | its theorems: who may act; what is open, final, required | proof |
| `ProviderDispatch` | launching thread, lanes, workers, chat cancellation, recovery scan and process exits | detailed, implements `ExecutionAuthority` |
| `ProviderDispatch_proofs` | its invariant, the refinement of `ExecutionAuthority`, and that no turn is forgotten | proof |
| `SpendingCap` | what a Project's budget promises | abstract |
| `DispatchAccounting` | the ledger of `orchestration/budget.rs` and the admission and settlement transactions of `domain.rs` | detailed, implements `SpendingCap` |
| `DispatchAccounting_proofs` | sums over finite sets; the ledger's theorems and its refinement of `SpendingCap` | proof |
| `ExecutionJournal` | events, retention, reopening, deltas and projections (`journal.rs`) | detailed |
| `ChatLaunch` | launch commands and chat turns (`canonical_control.rs`, `domain.rs`) | detailed |
| `ChatLaunch_proofs` | what a command that is sent again may do, and the coherence of a session | proof |
| `ProjectRegistry` | registration, identity of stores, the runtime map | detailed |
| `ControlConfiguration` | the configuration file and its adoption from older versions | detailed |
| `ProviderProfile` | Profile and Vault under concurrent editors | detailed |
| `ChatStream` | the live tail of a turn and its browser | detailed |
| `ControlPlane` | `ChatLaunch` beside the configuration and the live tail | interface |
| `ControlPlane_proofs` | the theorems of `ControlConfiguration` and `ChatStream` | proof |
| `RepositoryContext` | snapshot, index, plan and cache of the context engine | detailed |
| `ProjectStores` | `ProjectRegistry` beside the context of a repository | interface |
| `ProjectStores_proofs` | the theorems of both | proof |
| `OrchestrationState` | `state.json` and its two writers | detailed |
| `ResourceRegistry` | merges, bound, save and load of resource evidence | detailed |
| `ContextBudget`, `ContextReduction`, `Compaction`, `ContextGovernor` | what a request carries and when it must carry less | detailed, algorithms as operators |
| `ProviderRound` | the decoders of both wire protocols up to a finished round | detailed |
| `CallRecovery`, `ToolAnswers` | from a requested tool to its settled answer | detailed, algorithms as operators |
| `ProviderCalls` | `ContextBudget` beside compaction, decoder, recovery and answers | interface |
| `ProviderCalls_proofs` | the theorems of these five | proof |
| `RobustEdit`, `ChildProcess` | the two tools that act: editing a file, running a child | detailed |
| `RobustEdit_proofs` | the theorems of editing | proof |
| `MCExecutionAuthority`, `MCProviderDispatch`, `MCDispatchAccounting` | values and bounds of one module | model checking |
| `MCControlPlane`, `MCStores`, `MCProviderCalls`, `MCThreads` | components side by side, each on its own instance | model checking |

`ProviderDispatch` extends `ExecutionAuthority`: a step of a thread that writes the
database *is* the authority's action conjoined with the thread's own change, so
the same transaction is never modelled twice. `ChatLaunch` and `ChatStream` take
the cancellation of an Attempt as one step because `ProviderDispatch` has its two.
The other components share no variable with these and none with each other;
what passes between them is a value that each takes from a small set (a result,
a conversation, a document).

An interface module puts such components side by side: it declares their constants
and variables, instantiates each over its own, and gives what is promised of each
its name (`StreamsAreWhole == Stream!StreamsAreWhole`). It fixes no value and has no
step of its own. Its model-checking module and its proof module both extend it, so a
run checks, and a theorem proves, the very same definition.

### ExecutionAuthority

Each variable is a table. `job` is `domain_jobs` (state, generation and the
generation of the Attempt that `authoritative_attempt_id` names, 0 for NULL),
`attempt` is `domain_attempts` keyed by Job and generation (the table has
`UNIQUE(job_id, generation)`), `executor` is `domain_executors`, `call` is
`domain_calls`, `intent` is `domain_dispatch_intents` (one per Call), `deps`,
`binding` and `evidence` are the dependency, binding and result evidence tables.

An action is one `IMMEDIATE` transaction of `DomainRepository`, with every row it
writes. A call that returns `Err` rolls back and is an action that is not
enabled; a call that writes nothing (an idempotent repetition) is a stuttering
step and is not an action. The SQL predicates the source repeats are operators:
`HoldsAuthority` is `authoritative=1 AND authoritative_attempt_id=a.id`,
`MayExecute` adds `state IN ('queued','running')`, `ReachableFrom` is the
`WITH RECURSIVE` query of the cycle check, `EndAttempt` is the terminal half of
`finish_attempt_in`, shared by completion, failure, cancellation and recovery.

A Call's effect kind is reduced to a provider Call, a writing tool, a read-only tool and
`"unattended"`, a read-only tool that names no Executor. The source checks the Executor only
if one is named (`domain.rs:3089`) and authority only for side effects, so an unattended Call
may be created for an Attempt that has ended; every caller in `src/` names an Executor, and
the kind is reached through the public function only. `EndedAttemptsHoldNoWork` and
`CompletedWorkIsSettled` except such a Call while nobody has claimed it, which nobody can
then do. Without an Executor no witness matches (`Witnessed`), so no result is delivered
for it. Responses are values that can only be compared. Processes and
threads do not appear: any of them may call any operation whenever the tables
allow it, which includes every stale caller.

### ProviderDispatch

The program counter of each thread is a variable: `launcher` (per Job, the thread
in `launch_chat_selected`), `canceller` (per Job, `end_active_chat`), `provider`
and `tool` (the workers of the two lanes), `scan` and `ready` (the recovery scan
and its requeueing producer). `lane` is `BoundedDispatcher`, a sender that may be
taken and a channel of `Capacity`; `blocked` are envelopes inside a blocking
`send`, each of which keeps a clone of the sender alive, which is why closing is
not the same as having no sender. `token` is the `CallCancellation` of an
Attempt. `Exit` is a stop of the process or a crash: memory is lost, the tables
stay, and recovery starts from what they say.

`begun` and `stranded` are history: effects that were started, and Attempts a
crash or a failed recovery left without an owner, so that the invariants can
speak of what the tables no longer show. One tool Call stands for the rounds of
a turn; MaxRounds bounds them. A database error is not modelled inside
`ProviderDispatch` (a transaction the tables allow succeeds), which is why
`ToolLaneSurvives` says "with a working database".

### DispatchAccounting and SpendingCap

`budget`, `entry` and `order` are the JSON ledger of one Project (currency, limit
and accumulators; the reservation of each Call; the order of the reservation
list, which decides what is pruned). `rows` is `domain_settlements`. `intent`
keeps the state, whether `reservation_id` is set and the frozen pricing basis;
`attempt` keeps what `attempt_holds_authority` reads.

A reservation id is a function of Project, generation and Call, so it is the
Call. A settlement id is a function of the reservation, the disposition and the
reason, so a row is identified by those three; a conflicting payload keeps them
and is marked, for the source derives its own id from them and its content. A
frozen price is worth one micro per reported unit. `Pruned`, `Materialized`,
`Denied`, `Disposition`, `Reason`, `Conflicts` and `Booked` follow the functions
of the same role; `Account` is `apply_accounting_in`, and every path that
reaches it in the source uses it here, with the intent change of the same
transaction.

`SpendingCap` knows only a cap, money spent and money held per Call: money is
held only while everything committed stays under the cap, and what is held is
charged once or freed once. `KeepsSpendingCap` instantiates it with the money of
a Call held by its live ledger entry.

### The control process

* `ChatLaunch`: a Job is a number in order of creation; `command`, `turn`, `user`
  and `assistant` are the rows of `domain.rs`, `launch` the thread that holds
  `launch_lock` with the transaction it is at, `active` the registration in
  `active_chats`. Every transaction of a launch is an action; `Crash` may fall
  between any two, and a repeat of the command finds what the rows say. `PrepareTurn` may
  fail whatever the tables say: the session's name is checked there, after the Job was made. `context` is
  the set of Messages a turn's request was made of, `answers` what each command was told.
* `ProjectRegistry`: a store is a `substrate.sqlite3` that moves with its
  directory (`at`); `rows` are its Project rows, `registry` the control process's
  file, `runtimes` the map, `live` the runtimes whose workers run. Registration,
  launch and shutdown hold a lock each and interleave.
* `ControlConfiguration`: `config.json` as one value, read and replaced under
  `configuration_lock`; the adoption of older files is two writes with a crash
  possible between them.
* `ProviderProfile`: a revision is the hash of the file, so the model uses the
  content itself; `connect` writes the Vault and then the Profile under both
  locks; either write may fail, and so may the rollback of the first, which ends the
  connect as `"left"`: the answer says so and the secret stays. A later provider never
  takes it for its own; one whose own credential the user has just removed, under the same
  name, gets it.
* `ChatStream`: `channel` and `events` are the forwarder's queue and the retained
  buffer, `pc`, `index`, `pending` and `wire` a connection's thread and its socket,
  `lastId` and `received` the browser. Quiet events are retained and never written.

### The stores

* `ExecutionJournal`: an event is its cursor and what the projection does with
  it; `meta` is the boundary row (head, floor, anchor, digest). The environment
  may remove a prefix or a suffix of the rows, which is what `ensure_schema`
  reconciles; consumers hold deltas, apply them late, twice or not at all.
* `ResourceRegistry`: one fact stands for the six that merge alike; `document` is
  the saved file, of which records may be damaged.
* `OrchestrationState`: each writer loads the document, works on its copy and
  saves all of it, whatever was saved in between; `read` (of a run), `last`, `result`, `recorded` and `compiled` are history.
* `RepositoryContext`: a call is a sequence of reads (git snapshot, walk, index,
  slices, hunks, cache) between which files are edited, committed and reset.
  One project, one task, one planner: the ranking is any choice of files, a slice
  is the first part of a file, and the walk is one step.

### Requests and answers

* `ContextBudget`: `Ceiling`, the reserves and `Decide` are the functions of
  `compaction/accounting.rs` on numbers; requests of one conversation are measured
  one after another.
* `ContextReduction`: the passes are operators in the order of `reduce`; a message
  is its role, its size and what the passes look at. Each request reduces the
  whole conversation again.
* `Compaction`: a summary is the set of messages it was written from, which is
  what "covers" means; policies, block and summaries change between requests. The
  recorded points are a set, ordered by the position each stands for. A conversation
  begins with a question, as every Call's does.
* `ContextGovernor`: one observation is judged (`Decide`), and the bounded store is
  `files` with modification times of a clock that may step back.
* `ProviderRound`: events in any order a provider may send them, up to a cut;
  arguments are sequences of fragments, an object when complete.
* `CallRecovery`: a name is known by what resolves it (exactly, as an alias, by
  spelling), arguments are partial functions; the schema validator is external. On a strict
  wire only a name other than the tool's wire name is validated (`WireIsAccepted`). A
  name that two tools share as an alias resolves to none, though it be the exact name of one.
* `ToolAnswers`: a text is a sequence of characters, each known by its bytes once
  JSON has escaped it, and its size is their sum; a Call goes from
  admitted to settled and may be cancelled at each step.
* `RobustEdit`: a text is a short sequence of characters with CR and LF, a
  revision is the text. Editors hold a cooperative lock; other writers do not.
* `ChildProcess`: bytes are counted; two pipes of bounded capacity, a reader
  each, the child as environment.

## 3. Runs

| Run | Instance | Shows |
|---|---|---|
| `authority` | 1 Job with 2 Calls over 2 generations, or 1 Call over 3 with 2 results | authority is sole, the Job follows its latest Attempt, ended Attempts hold no work that can begin, the intent never lies about the effect, completed work is settled, recorded outcomes are final |
| `authority_graph` | 3 Jobs, 1 key, 2 generations, no Calls | the dependency graph stays acyclic and a started Job's prerequisites stay completed |
| `accounting_cap` | 2 Calls of 2 Attempts, 1 ledger entry kept, a configured cap of 3, operator limits 2 and 4 | the ledger implements `SpendingCap`; only the authority takes money off the books |
| `accounting_rows` | 2 Calls of 1 Attempt, 2 amounts, configured in either of 2 currencies, 1 ledger entry kept, money saturates at 4 | accumulators equal the canonical rows, a Call is charged once, money keeps its currency and price |
| `dispatch_turn` | 1 chat turn of 2 rounds with 1 tool Call, 2 generations, capacity 1, 1 process exit | the threads implement `ExecutionAuthority` (`Spec`); an unfinished turn is in somebody's hand; one canceller at a time; every effect that began is on record |
| `dispatch_liveness` | 2 turns on lanes of capacity 1, or 1 chat turn with a tool Call, 2 generations and 1 exit | every turn ends, a stopped runtime is joined |
| `control_plane` | per component: 2 commands with 1 or 2 crashes; 2 connections and 2 breaks; 2 handlers and 3 commands; 2 editors and 4 runs | what was accepted is not redone and one Job of a chat command is called, sessions stay coherent, tails are whole, configuration is durable, secrets stay with their Profile |
| `stores` | per component: 2 directories, 2 stores and 2 moves; 4 events and 1 loss; 3 resources where 2 are kept; 2 baselines; 2 overlapping verification runs, and 1 with 2 Attempts; 2 edits, 2 commits and 2 calls on 1 or 2 files | moved Projects keep their work, readers see the history, evidence is kept, the state file keeps what its writers read, served context is the repository's |
| `provider_calls` | per component: windows of 6 to 10 and requests to 7 tokens; conversations to 7 turns and 8 messages; 4 events of a round; 2 recovered Calls; texts around the cap | the window is respected, compaction and reduction lose nothing silently, bands rest on evidence, rounds are what was sent, repairs invent nothing, answers tell the truth |
| `threads` | 2 editors and 2 outside writes, 3 cooperating editors; children of up to 5 writes; 2 connections of a failing or silent turn | editors, captures and tails end, and what they commit or report is what happened |
| `unaccounted_completion` | 1 Call | a disagreement, below |
| `dropped_recovery` | 2 Jobs, 1 exit | a disagreement, below |

Every run sets `CHECK_DEADLOCK FALSE`: Jobs finish, turns end and editors are
done, and the program then has nothing to do.

### Components side by side

`MCControlPlane`, `MCStores`, `MCProviderCalls` and `MCThreads` instantiate several
components and add one variable, `part`, which a behaviour fixes in its first
state. Only the component it names takes steps; the others stay in one initial
state. The states checked are the union of the components' own, not their
product: the components of one such module share no variable, so interleaving
them would show nothing more. Components that do interact are composed for real:
`ProviderDispatch` with `ExecutionAuthority`, `DispatchAccounting` with
`SpendingCap`. A component may be asked two questions on different bounds: under two
instances where the interface has none (`Evidence` and `Bound`, `Losses` and `Deltas`),
and as two parts that `ACTION_CONSTRAINT FollowedNext` keeps to their bounds where
it has one (`session`: two chat commands, one with changed contents, under one crash;
`retries`: a chat and a plain command under two;
`context`: one file of three contents, `status`: two files edited once, of which one may
be unreadable). The constraint cuts only commands, crashes and edits, and the properties
of those parts are safety.

### Why the bounds are enough

Three generations allow a replacement of a replaced Attempt while the first is
still cancelling. Two Calls are what `MayComplete` relates (a failed tool beside a
completed provider Call); two results differ or are the same one again. Three
Jobs are the shortest cycle that no check of a single pair of edges sees.
`authority` and `dispatch_liveness` have an action constraint that keeps two such
directions apart, because their product is not finished in minutes: a behaviour of
`authority` has a second Call or a third generation and second result, and one of
`dispatch_liveness` a second turn (without tools, replacement or exit), or a chat turn with
a writing tool Call, a replacement and a process exit. In the latter the constraint
cuts launches, replacements and exits, which no fairness condition obliges anybody to
make, and of the provider's replies the one that asks for a tool, beside which its thread has
others to choose from: no behaviour is cut at a step that fairness would force, so liveness
is not weakened.

`MaxReservations = 1` (32 in the code) lets the second reservation prune the first;
`MaxRows` bounds the settlements that are *reported*, fences still add theirs.
`MaxMoney` stands for `i64::MAX` and is small enough that the sums saturate.
Capacity 1 makes a second turn wait for the lane, and a tool Call for its own.
Four events let the floor pass a reader that still holds a delta from before it,
with reads of two at a time. Two stores and two directories are a move and a
copy back; two moves are needed for a directory to return. Two breaks put a
reconnect inside a replay. Two runs of one command each fill a document of one baseline,
and two Attempts one of one point, so that caps and stale copies meet. Eight messages fill the tracker of two targets and go
on beyond it. Four events of a round are two starts and a fragment each, in every
interleaving. Five writes fill a pipe of two and pass a cap of two on both streams.

Symmetry is used over Jobs, Calls, results or currencies where a configuration treats them
alike; runs with symmetry check no liveness.

### Fairness

`ProviderDispatch`: a launcher or canceller that has begun goes on, a blocked
`send` returns when there is room, workers take what is queued and a started
runtime finishes its scan (weak fairness of each): they are operating-system threads
that block only where the model blocks. Transport rounds end, because the HTTP
client has timeouts for head and body. Tools are assumed to end: `process.rs:467`
runs a child without a timeout, and `ChildProcess` has what holds when one does not.
After an exit the runtime is started again. Nobody is obliged to launch, cancel, stop or crash.

`ChatStream`: a handler's thread runs, each wait in its loop is bounded, and the
deadline of the turn passes. Browsers are not obliged to reconnect or to read.

`ChildProcess`: the child, its readers and the waiting thread run, and a kill that
is tried again and again succeeds (strong fairness). The child is not obliged to
end, and a descendant may hold the pipes for ever: `CancelledRunsReturn` excepts it.

`RobustEdit`: an editor's thread runs, and the lock is granted to each that keeps
asking (strong fairness, as `flock` wakes its waiters). The properties under it are
of editors that share the lock; outside writers are only in the safety part.

### Runs that find a disagreement

| Run | Sentence | What the code does |
|---|---|---|
| `unaccounted_completion` | every path that ends a provider-costly dispatch reaches the ledger (`domain.rs:1562`) | the worker uses `finish_call` and `finish_attempt` (`provider_loop.rs:807`), which do not; `complete_provider_dispatch` has no caller, and the money of a completed Call stays reserved |
| `dropped_recovery` | recovery requeues safe recovered intents after the consumer starts (`provider_loop.rs:1059`) | the producer returns at the first intent whose Attempt is no longer current (`provider_loop.rs:1116`); the ones after it stay queued with an authoritative Attempt and no worker |

Modelling met others. Each line names a definition of a module that states the
sentence, and that no run lists because TLC refutes it: put in the place of the
properties of a configuration of that module, it gives the trace.

| Definition | Sentence | What the code does |
|---|---|---|
| `DispatchAccounting` `FencedDispatchIsRetained` | every fencing path converges on the fenced accounting (`domain.rs:5036`) | `replace_attempt_checked` (`domain.rs:2825`) fences without it |
| `DispatchAccounting` `HeldMoneyHasAnOwner` | a replayed admission carries the very same reservation (`domain.rs:1352`) | the replay writes `reservation_id` NULL while the money stays held; production launches admit each Call once |
| `DispatchAccounting` `NoMoneyForEndedDispatch` | past admission, the reservation must not be left dangling (`domain.rs:1352`) | after a release the replay takes the money again for a dispatch that has failed |
| `ExecutionJournal` `ServedDeltasHaveNoHole` | never served a truncated suffix (`journal.rs:861`) | `delta_after` compares only the first event with the cursor (`journal.rs:900`): a hole further on is served; the projection's own rule stops the consumer |
| `ChatLaunch` `OneJobPerCommand` | exactly one Job per command and Project (`domain.rs:3755`) | the function that says so, `try_claim_command_and_create_job`, has no caller: a launch creates its Job before anything is recorded (`canonical_control.rs:1515`), so a crash or a refused staging in between makes another on retry; the first never gets a Call if it is a chat's |
| `ChatLaunch` `CommandsAreCalledOnce` | as above | a plain command interrupted between its queued Call and its record is run by recovery and launched again by the retry |
| `ChatLaunch` `InterruptedTurnsStayOut` | staged messages remain non-complete and cannot enter context (`domain.rs:3718`) | a turn interrupted after its Call was queued is accepted by the next start (`provider_loop.rs:1038`) |
| `ProjectRegistry` `OneRootPerProject` | one project_id can never hold two authoritative roots (`canonical_control.rs:578`) | a launch that read the old record starts the old root after the registration has invalidated it |
| `ProjectRegistry` `LaunchesMintNothing` | a launch can never mint identity (`canonical_control.rs:1519`) | the runtime is started, and the store opened with `ensure_project`, before the identity is read back |
| `ChatStream` `OnlyEndsRemoveTheEntry` | only a consumed terminal, timeout or error removes the entry (`control_server.rs:1508`) | a delta that is the single word error contains the text the tail looks for (`control_server.rs:1461`) |
| `ControlConfiguration` `RefusedChangesNothing` | register a Project before configuring OCG (`canonical_control.rs:660`) | the global configuration has been written by then (line 655) |
| `ProviderProfile` `SavedEditsSurvive` | reject edits based on a stale backend projection (`profile.rs:464`) | revision and Profile come from two reads (`profile.rs:428`): a file that changes between them and changes back lets the stale edit through |
| `CallRecovery` `StrictValidationRunsFirst` | strict validation still runs first (`provider_loop.rs:1488`) | under the tool's own wire name arguments are only made canonical (line 1627); only other spellings are validated (line 1636), so a strict call without its target is repaired like any other |
| `CallRecovery` `NamedTargetsAreKept` | the canonical field must not already be set (`call_recovery.rs:781`) | a target that a rename has just set is overwritten by one of an earlier Call (line 808) |
| `CallRecovery` `RepairsNameAField` | ask the model for only these fields (`call_recovery.rs:347`) | of several undeclared fields one is dropped (line 774), and the repair names none |
| `CallRecovery` `OptionalTargetsStayAbsent` | a *required* field sent as null is absent (`call_recovery.rs:599`) | optional ones are moved too, and filled from an earlier Call |
| `ToolAnswers` `ResultsFitTheBudget` | a single result budget sent back to an LLM (`native_tools.rs:223`) | a preview that is escaped twice exceeds it (line 232), and the Call of a program that ran is fenced |
| `ToolAnswers` `ListingsAreStructured` | bounded structured entries (`native_tools.rs:299`) | a listing that fills the cap is replaced by a preview of its text |
| `Compaction` `KeptIsWhole` | the history is kept whole (`provider_context.rs:460`) | with a point already active, a rejected second summary leaves what the first stood for out (line 505) |
| `OrchestrationState` `RecordedPointsStay` | durable compaction points, per Attempt (`state.rs:247`) | a verification run saves the copy it loaded before its first command (`runner.rs:214`), and a request that of another (`provider_context.rs:180`) |
| `OrchestrationState` `RewordedIsNotNew` | text is deliberately excluded (`compiler_feedback.rs:92`) | `identity` joins the message (line 110) |
| `OrchestrationState` `ResolvedAreGone` | resolved: diagnostics this compile does not report (`compiler_feedback.rs:140`) | what the capture cut off counts as resolved (`runner.rs:164`) |
| `OrchestrationState` `DeltasFollowCompiles`, with a save that fails | losing the baseline only costs the next compile its delta (`runner.rs:211`) | the older baseline stays and yields a wrong delta |
| `ContextReduction` `FailuresStay` | failures are never collapsed away (`reduction.rs:25`) | a large failure no longer parses as JSON once bounded and is collapsed like a success (line 566) |
| `ContextReduction` `RepeatsAreCollapsed` | the second result of an identical call is pure waste (`reduction.rs:22`) | every JSON content counts as failed (line 410), so no result within its bound is collapsed |
| `ContextReduction` `RepeatsAreIdentical` | an identical read-only call produced the same result (`reduction.rs:582`) | an edit between the two calls is not looked at |
| `ContextReduction` `EditsSupersede` | a stale read is collapsed (`reduction.rs:29`) | paths are prefixed with the tool's name (line 276): an edit's never equals a read's |
| `ContextReduction` `ReplacedAreRestatements` | a message that merely restates a canonical fact (`reduction.rs:35`) | any long text that mentions an id is replaced, a user's included (line 698) |
| `ContextReduction` `DisabledIsVerbatim` | when false the history is projected verbatim (`compaction/config.rs:113`) | `project` reduces whatever the switch says (`projection.rs:253`) |
| `ContextBudget` `AssumedIsCapped` | ceiling on an assumed reserve (`compaction/config.rs:133`) | `budget_for` never reads it (`accounting.rs:305`) |
| `RepositoryContext` `BlobsHaveTheirSymbols` | every artifact carries the fingerprints it was built from (`freshness.rs:3`) | a file called clean by the snapshot is read later (`index.rs:300`) |
| `RepositoryContext` `ServedHunksWereSeen` | a stale artifact is never trusted (`freshness.rs:4`) | the hunks of changed files without slices are no dependency (`cache.rs:255`) |
| `RepositoryContext` `GenerationIsOfContents` | changes only when indexed contents change (`index.rs:402`) | a commit alone changes it (line 428) |

Every property of a passing run can be broken by a plausible bug: beside the
definition it changes, marked "Mutant", "Mutation" or "Plausible bug", each module keeps variants
(a dropped guard, a swapped order, a missing reset) under which TLC finds a
property violated. `PROJECT.json` lists one per property.

## 4. Proofs

Proved for every value of the constants: any sets of Jobs, Calls, stores, models,
currencies, and any bounds. The assumptions on constants stand in the modules
that declare them, and TLC evaluates them in the runs.

| Theorem | States | In module |
|---|---|---|
| `TypeCorrect` | `Spec => []TypeOK` | `ExecutionAuthority_proofs` |
| `SlotsHold` | `Spec => []JobSlots` | |
| `AuthorityIsSole` | `Spec => []SoleAuthority` | |
| `JobFollowsLatest` | `Spec => []JobFollowsLatestAttempt` | |
| `WorkHolds` | `Spec => []WorkSlots` | |
| `IntentsMatchCalls` | `Spec => []OpenIntentMatchesCall` | |
| `EndedAttemptsAreIdle` | `Spec => []EndedAttemptsHoldNoWork` | |
| `OutcomesStay` | `Spec => OutcomesAreFinal` | |
| `CompletedWorkStaysSettled` | `Spec => []CompletedWorkIsSettled` | |
| `PrerequisitesStayHeld` | `Spec => []PrerequisitesHeld` | |
| `DependenciesStayAcyclic` | `Spec => []AcyclicDependencies` | |
| `DispatchInvariant` | `DispatchSpec => []DispatchInv` | `ProviderDispatch_proofs` |
| `DispatchImplementsAuthority` | `DispatchSpec => Spec` | |
| `DispatchTypes` | `DispatchSpec => []DispatchTypeOK` | |
| `BegunIsRecorded` | `DispatchSpec => []BegunEffectsAreRecorded` | |
| `OneOwnerHolds` | `DispatchSpec => []OneOwner` | |
| `OwnershipInvariant` | `DispatchSpec => []OwnershipInv` | |
| `TurnsAreKept` | `DispatchSpec => []NoTurnForgotten` | |
| `LedgerInvariant` | `Spec => []LedgerInv` | `DispatchAccounting_proofs` |
| `AccumulatorsStaySums` | `Spec => []AccumulatorsMatchRows` | |
| `CallsAreChargedOnce` | `Spec => []ChargedOnce` | |
| `MoneyKeepsItsMeaning` | `Spec => []MoneyIsNeverReinterpreted` | |
| `AuthorityDischarges` | `Spec => OnlyAuthorityDischarges` | |
| `LedgerKeepsCap` | `Spec => KeepsSpendingCap` | |
| `SessionHolds` | `Spec => []SessionInv` | `ChatLaunch_proofs` |
| `CommandsAreRunOnce` | `Spec => []CommandsRunOnce` | |
| `SessionsAreCoherent` | `Spec => []SessionsStayCoherent` | |
| `ConfigurationHolds` | `Config!Spec => []ConfigInv` | `ControlPlane_proofs` |
| `ConfigurationStaysDurable` | `Config!Spec => []ConfigurationIsDurable` | |
| `CommandsChangeOneScope` | `Config!Spec => Config!OneScopeAtATime` | |
| `StreamHolds` | `Stream!Spec => []StreamInv` | |
| `StreamsStayWhole` | `Stream!Spec => []StreamsAreWhole` | |
| `MovedProjectsKeep` | `Spec => []MovedProjectsKeepTheirWork` | `ProjectStores_proofs` |
| `RegistrationsKeepIdentity` | `Spec => RegistrationKeepsIdentity` | |
| `ServedContextStaysTheRepositorys` | `Context!Spec => []ServedContextIsTheRepositorys` | |
| `WindowStaysRespected` | `Spec => []WindowIsRespected` | `ProviderCalls_proofs` |
| `BandsStayMonotone` | `Spec => BandsAreMonotone` | |
| `CompactionLosesNothingEver` | `Compact!Spec => []CompactionLosesNothing` | |
| `RoundsStayWhatWasSent` | `Round!Spec => []RoundsAreWhatWasSent` | |
| `RecoveryInventsNothing` | `Recovery!Spec => []RepairsInventNothing` | |
| `AdmittedCallsStayValid` | `Recovery!Spec => []AdmittedAreValid` | |
| `AnswersAreTrue` | `Answers!Spec => []AnswersTellTheTruth` | |
| `EditInvariant` | `Spec => []EditInv` | `RobustEdit_proofs` |
| `CommitsFitTheirText` | `Spec => []EditsFitTheirText` | |
| `StaleCommitsAreExact` | `Spec => []StaleEditsAreExact` | |
| `NoEditorLosesAnothersEdit` | `Spec => [][writes = 0 => ReplacesItsSnapshot]_vars` | |

### Who may act

`SoleAuthority` relates the Attempts that hold the flag to the Jobs that name
them and happens to be preserved by every step on its own; `JobFollowsLatestAttempt`
is not inductive, alone or together with it. Neither says that the Attempt a Job
names is its latest: in a state whose Job is at generation 1 and names a running
Attempt of generation 2, both hold, and `request_cancel` of that Attempt moves the
Job to `cancelling` while generation 1 goes on telling another story. Excluding
that state needs the history of the generations: that later ones do not exist yet
and that earlier ones can no longer act.

`JobSlots` says all there is to know of one Job at a time: generations above the
Job's are absent, generations below it have lost their authority and are ended
or cancelling, and the Job's state and link are a function of the latest
Attempt's state. The proof follows that shape: lemmas
about one slot (`SlotAfter`, `SlotFrame`, `OtherSlots`) reduce an action to the
Job it touches, lemmas per kind of change (`ReplaceAttemptSlots`,
`EndAttemptSlots`, `NoGenerationYet`) close it, and the two safety theorems read
their property off `JobSlots`.

### What is open, and what is final

`OpenIntentMatchesCall` and `EndedAttemptsHoldNoWork` need each other: a fence keeps
intents true only if it reaches every open Call, and a Call can only be left
open by an Attempt that has not ended. `WorkSlots` says it of one Call at a time
(`CallSlot`: without a row no intent; an open intent fixes the state of its Call;
an open Call belongs to an unfinished Attempt, or is an unattended one that has not begun)
and of the Executors. The exception costs the proof one case: such a Call can only move
by a fence, since a claim needs authority and its result needs an Executor.
`OutcomesAreFinal`, the conjunction of four action properties, follows from the
invariants before the step: `RowStep` says what any step may do to one Call's row.

`AcyclicDependencies` speaks of chains of any length, defined as membership in every
closed set. A new edge (j, p) is accepted when j is not reachable from p; then
the Jobs reachable from p are closed under the new graph too and do not hold j,
so nothing new is reachable from a prerequisite (`ReachIsClosed`). The proof has
no induction on the length of a chain.

### Threads implement the authority

`DispatchInv` conjoins the authority's slots with what the threads know between two
transactions: each holds only Calls whose row is committed (`Hands`), a tool Call
whose handoff may still fail is nowhere else (`UnsentTool`), a Call past a gate is
claimable unless somebody closed it (`GatesHold`), what the tool worker verifies is
closed, an effect that began is on record, and a cancellation has one owner.
Without them a step maps to no transaction: a worker that holds a Call without
a row could claim what `ClaimCall` does not allow. `Operation` lists the
transactions threads run, `StepOperates` shows each step is one of them or leaves
the tables alone, and `DispatchImplementsAuthority` follows. All theorems on
`ExecutionAuthority` therefore hold of the running system. For `OneOwner` the
argument is that the first phase of a cancellation succeeds only on an Executable
Attempt and leaves it cancelling: whoever is between the phases excludes the next.

`DispatchAssumption` has at least one generation, since a turn is the first of its
Job; `domain.rs` has no bound at all.

### Nobody's turn is forgotten

`NoTurnForgotten` names a holder for every turn while the runtime is up, and says
nothing of how a turn comes to have one. `OwnershipInv` follows a turn through its
life instead:

* while the process is down, what its memory held is gone (`DownIsQuiet`), and every live
  turn no exit stranded has an open admitted intent; during the scan such an intent
  is still to visit, requeued, or its Attempt is about to be abandoned (`LiveTurnIsKept`);
* while the process is up, a turn whose launch is over is held by a queue, the worker
  or a canceller. The hand that needs the others is the worker's: it drops an envelope as
  redelivered when its Call is running, which is right only because a begun Call is
  in the hands of who claimed it (`BegunIsInHand`); it leaves a failed round to
  whoever signalled the turn, which is right only because a live turn is signalled
  without being revoked only while its launch will see it (`SignalsAreSeen`); and it gives
  up a Call it cannot fail only if a launch that gives up failed it (`FailedByWorker`);
* a turn that is cancelling has its confirmer (`CancellingIsConfirmed`);
* lanes carry the Calls of their worker, and a launch creates one (`LanesSort`,
  `OneCallPerTurn`).

The proof first lists what steps do to turns and provider Calls (`Acts`): of a turn
that stays live only the worker holding the Call, its launch and the scan touch the
Call's row (`RowStays`). `GiveUp` is the heart: the worker lets go of a live turn's
Call only if the turn is signalled or its launch is undoing it. `HeldStays` passes the
turn from hand to hand, and each conjunct has its own step lemma. The launch ends
last: what it publishes nobody cancelled before (`PublishSees`), and in every other
end it leaves no live turn (`LaunchLeaves`).

### The ledger

`AccumulatorsMatchRows` equates each accumulator with a sum over the canonical rows.
The library defines such sums recursively over a choice of elements, and
induction over data is out of the prover's reach, so its first part argues by a
smallest counterexample among the subsets of a finite set: the sum exists, is
unique, is a natural number, and changes by one element's weight when an element
is added, removed or weighs something else. No order of summation is assumed.
`LedgerInv` adds what makes those lemmas apply: the canonical rows are a finite
set of well-formed rows; a limit and what is held are in the ledger's currency;
a settled row is priced at its dispatch's frozen price; rows are identified by
Call, disposition and reason. `LedgerKeepsCap` maps the ledger to `SpendingCap`
(`spent` is the settled amount, `held` what live entries hold): admission is `Hold`,
settlement `Charge`, release `Free`, everything else a change of the cap or a
stutter.

### Reserves, bands, registry

`WindowIsRespected` is arithmetic on four reserves taken one after another, each
cut to the room the ones before leave (`Reserves`); `BandsAreMonotone` needs that a
share of the window never shrinks as the use grows.
`RegistryInv` says that rows name identities already minted, that a launch under way
and every Job name an identity their store holds, and, for the runtimes, that a
registration on its way to join takes every runtime of its Project that is not in
the map: without that last part `NoRuntimeIsForgotten` is not inductive.
`IdleAssumption` says that the value for "nobody registers" is not a registration.

### A session

`CommandsRunOnce` and `SessionsStayCoherent` speak of rows, threads and answers at any
moment of a launch that may crash at each of its transactions. `SessionInv` has four layers
over the types, each proved with the ones before it:

* `LaunchInv`: the launch lock makes the launch's Job the last one made, for as long as the
  launch has it in hand, and the registration in `active_chats` is that of the launch under
  way until a cancellation takes it;
* `CommandInv`: of a command's Jobs the last one is the one its row, its turn and its
  answers name. This is the reason a repeated command that finds no row may make a Job: the
  launch that looked found nothing, and the lock has let nobody in since;
* `MessageInv`: the Messages of a turn are staged together, a live turn's are still open, a
  live turn's withdrawn question is not queued, and a context has Messages of earlier turns and
  the turn's own question;
* `HoldInv`: a live turn of this process is the one registered, or the launch under way is
  making it or has detached it and will end it.

On top of them `CallsAreStaged`: a Call is made only for the Job that the staged turn of its
chat command names, and a staged turn names one Job for ever.

Each action has an `Effect` lemma that says what it does to the rows in terms of the Job it
touches; the layers are proved from these and never look at the action again. A turn that
a crash leaves behind (`survivors`) is excepted as the property excepts it.
`LaunchAssumption` says that chat commands are commands and that the values for "none" are
no rows.

### Configuration and tail

`ConfigInv`: a handler past its read holds `configuration_lock`, and what it read is still the
file, so its write changes one scope of the file as it stands; revisions put commands in
order, so an accepted command's value is in the file or a later revision is. Two parts are
needed only for the induction. The promise on the legacy speaks of an open process; the
invariant keeps it also while the process is down, because a start trusts a file it finds. And
what is recorded is already true before the answer is given. `ConfigurationAssumption` says
what older versions may leave.

`DeliveryIsExact` is what a browser sees, many steps after the decision that makes it so.
`StreamInv` says where every event is: what a browser has read, what is on the wire and what
the connection has still to write fit together without a gap (`HasRead`, `OnWire`,
`TailHolds`), at most one connection is not over (`Alone`: the browser opens the next when
the last is gone), and an end is written only when the turn is settled (`EndsAreSettled`). A
delta that is the word *error* is taken for an end by the code (section 3), so a
running turn need not be found once it was sent. `StreamAssumption` says that a script
has no end of its own.

### A request and its answer

`CompactInv`: a recorded point stands for everything before a question, and for nothing else;
the one that is pending lies beyond all recorded ones and is gone once the request is
settled. That makes the furthest point the active one, so a new point never stands for less
than an old one. The choice of a cut takes the least or the greatest position with a
property; that it exists follows from the well-foundedness of the naturals, without
induction over the conversation. `CompactionAssumption` says that a conversation
begins with a question.

`RoundInv` relates the decoder's state to everything that was sent. For Anthropic's stream
(`Blocks`) tool indices are dense, ids are distinct and a block that is open holds the
fragments of exactly its own call; for the chat-completions stream (`Chunks`) the call of an
index is the last one named there. Counters and reason are the last ones stated (`Counted`,
`Reasoned`). The decoders are per event, so no fold has to be evaluated: what a call spells is
stated by the positions of its fragments.

`RepairsInventNothing` is shown of one answer at a time: every value of a repaired call is one
the model sent under that field or an alias of it, or the one target that a completed Call of
the Attempt bound (`Sent`), and it passed the preflight it is run with. `AdmittedAreValid`
carries that over all Calls of an Attempt, which is what recovery takes its targets from.
`RecoveryAssumption` says that an exact name has one tool.

`AnswerInv` says what a tool has found (`Found`: an unmarked success is all of it, a page of a
file fits the cap) and what is told (`Told`). That a page shortened to the cap is never made a preview
by the bound that follows is a bound on sizes: a character is at most six bytes once
escaped. The size of a text is the cardinality of a set of pairs (position, byte), so the bound is a
fact about cardinalities and needs no induction. `AnswersAssumption` has the cap at least
four times the wrapping.

### A repository's context

A call reads HEAD, the status, blobs and files one after another while they change.
`ContextInv` keeps what each moment of the call has seen (`SeenInv`), that the symbols filed under a
content's hash are that content's (`IndexInv`; files the snapshot calls clean are filed
under their blob and excepted, see section 3), and that a plan under validation agrees with
the snapshot and, for each source and slice already validated, with something seen
(`PlanInv`). What is served is a plan for which nothing is left to validate (`ServedInv`).
`ContentsAssumption` says that contents, paths and limits are numbers.

### Editing

`EditsFitTheirText` is not inductive: a text verified is committed a step later, and
a refusal depends on fields set at the read. `EditInv` says that whoever reads,
verifies or renames holds the lock, and that from the read to the end an editor
carries the resolution of its snapshot, one that is not refused. It holds whatever
the text functions compute: no fact about `Resolve` is used. The last theorem needs
the lock too, and speaks of the time before anybody writes without it (`writes = 0`).
`EditorsAssumption` says that no editor is the lock's free state.

### Only model-checked

* `order \in Seq(Calls)` of the ledger, the order in which its bounded list forgets:
  it is computed with `SelectSeq`, whose definition is recursive. No proof uses it:
  `LedgerInv` holds whichever entry is forgotten.
* The properties over steps that the runs state of several components at once
  (`SecretsStayWithTheirProfile`, `ReadersSeeTheHistory`, `EvidenceIsKept`,
  `StateKeepsWhatWritersRead`, `BandsRestOnEvidence`, `ReductionsHaveASurvivor`) and the safety
  half of `EditsAreExactAndEnd` beyond the theorems on editing, and of
  `CapturesReturnTheTruth`. Every invariant of a passing run has a theorem.
* Out of this prover's reach, and therefore always TLC's: liveness under fairness
  (`TurnsEnd`, `StopJoins`, `TailsEnd` and the ends of editors and captures), `ENABLED`,
  and what a recursive definition or a fold computes for every input (`Replay` of
  the journal, the passes of `ContextReduction`).

## 5. What is not modelled

Within the modelled components:

* `ExecutionAuthority`: `create_attempt` and `create_executor` (tests only),
  `record_verification`, the dependency revision and the projection that reads it,
  Job configuration, the journal events each transaction appends.
  `ReplaceAttempt` has one caller, the command line (`cli.rs:408-413`).
* `ProviderDispatch`: `cancel_attempt`, `queue_call` and `execute_canonical_tool_call`,
  which have no production caller; errors of the database; retries inside the
  HTTP client.
* The ledger: the list of recent settlements, the reason of the last decision,
  `attach_dispatch_reservation` (no caller), the arithmetic of token prices.
  `price_usage` is modelled by which usage it refuses.
* `ContextGovernor`: `decide` and `save_observation` have no production caller, and
  neither have the mutators of `ResourceRegistry`; both are modelled from their
  public functions. The reductions of tool results act on messages of the provider
  loop's own form, which reach them through public functions.
* `RepositoryContext`: scores, symbol extraction, the capsule's layout, the
  repository-wide cap and sensitive files, schema changes and corrupt entries.
* `OrchestrationState`: parsing of compiler output and the selection of commands.
* `ProviderRound`: how bytes are framed into events.
* `ToolAnswers`: path resolution, the offsets of paged reads.
* `ChatStream`: routing, connection lanes and the request reader of the server.

Components without a module (listed in `PROJECT.json`): checkpoints and hand-offs
(texts made from the tables), telemetry (counters nobody decides on), skills and
instructions (one pass over files), HTTP and proxy (a request is begun, answered,
failed or unknown in `ProviderDispatch`), the raw log directory of Verification,
command line and release, generated contracts, and the frontend, which is a client
of the modelled API.

## 6. Plan

Modelled and checked: every component that decides something, as section 2 says.
Proved: every invariant the runs check, the refinements of `ExecutionAuthority` and
`SpendingCap`, and the action properties of section 4. What is left is to prove more of it:

1. `OrchestrationState` and `ProviderProfile`: whose copy a save replaces, from what each
   writer has read.
2. `ExecutionJournal`: cursors and boundary; its projection is recursive and stays with TLC.
3. `ResourceRegistry` and `ContextGovernor`: that merges and bands rest on the evidence there is.
4. `ContextReduction`: its passes one by one, where they are not folds.
