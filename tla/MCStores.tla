------------------------------- MODULE MCStores -------------------------------
(***************************************************************************)
(* Projects, where they are, and what is stored in one: the journal of the *)
(* canonical tables, the resource documents, the state file of             *)
(* Verification and the repository context's files. part says which of     *)
(* them a behaviour is about.                                              *)
(***************************************************************************)
EXTENDS ProjectStores, TLC

CONSTANTS Nil, a, b, s1, s2, j1, j2, k1, a1, a2

AtHome == [store |-> s1, root |-> a]

VARIABLES
    part,
    observations, configured, document, damaged, issues, evidence, steps,
    canon, events, meta, open, losses, past, view, fetched,
    file, run, request, last, result, recorded, compiled

\* One resource observed three times, and three where two are retained.
Evidence == INSTANCE ResourceRegistry WITH
    seen <- evidence, Resources <- 1..1, Times <- 1..3, Uses <- {"lead"}, MaxResources <- 1,
    MaxConfiguredUses <- 1, MaxSteps <- 3
Bound == INSTANCE ResourceRegistry WITH
    seen <- evidence, Resources <- 1..3, Times <- 1..2, Uses <- {"lead"}, MaxResources <- 2,
    MaxConfiguredUses <- 1, MaxSteps <- 3

\* One Job whose rows are lost under a reader that holds two deltas, and two Jobs.
Losses == INSTANCE ExecutionJournal WITH
    Jobs <- {j1}, Consumers <- {k1}, MaxHead <- 4, MaxRead <- 2, MaxLosses <- 1, MaxFetches <- 2,
    NoMeta <- Nil, NoAnchor <- Nil
Deltas == INSTANCE ExecutionJournal WITH
    Jobs <- {j1, j2}, Consumers <- {k1}, MaxHead <- 4, MaxRead <- 2, MaxLosses <- 0, MaxFetches <- 0,
    NoMeta <- Nil, NoAnchor <- Nil
ASSUME Losses!JournalAssumption /\ Deltas!JournalAssumption

\* Verification runs one after another, whose output may be cut; and writers that overlap,
\* each of which may read before and save after another: two runs, and a run with the
\* requests of two Attempts.
Baselines == INSTANCE OrchestrationState WITH
    Runs <- {"r1"}, Attempts <- {}, Stages <- {<<"check", "test">>, <<"test", "clippy">>, <<"check">>},
    Diagnostics <- {[site |-> "a", text |-> "one"], [site |-> "b", text |-> "one"]},
    MaxBaselines <- 2, MaxAttempts <- 2, MaxClock <- 2, Truncates <- TRUE, Faults <- {}
Overlaps == INSTANCE OrchestrationState WITH
    Runs <- {"r1", "r2"}, Attempts <- {}, Stages <- {<<"check">>, <<"test">>},
    Diagnostics <- {[site |-> "a", text |-> "one"]},
    MaxBaselines <- 1, MaxAttempts <- 1, MaxClock <- 1, Truncates <- FALSE, Faults <- {"save", "log"}
Points == INSTANCE OrchestrationState WITH
    Runs <- {"r1"}, Attempts <- {a1, a2}, Stages <- {<<"check">>}, Diagnostics <- {},
    MaxBaselines <- 1, MaxAttempts <- 1, MaxClock <- 2, Truncates <- FALSE, Faults <- {"save", "log"}

\* One file of three contents, two of which begin alike; and two files that are edited
\* once, one of them unreadable (3).
ASSUME Context!ContentsAssumption
Followed ==
    /\ part = "status" => limit = 2 /\ edits <= 1 /\ \A f \in Files : disk[f] \in {0, 3, Context!Absent}
    /\ part = "context" => disk[2] = Context!Absent /\ disk[1] # 3
FollowedNext == Followed'

resourceVars == <<observations, configured, document, damaged, issues, evidence, steps>>
journalVars == <<canon, events, meta, open, losses, past, view, fetched>>
stateVars   == <<file, run, request, last, result, recorded, compiled>>
contextVars == <<disk, commits, head, index, cache, pc, limit, snap, map, todo, draft, plan, served,
                 seen, idle, edits, calls>>
storedVars  == <<resourceVars, journalVars, stateVars>>
allVars == <<part, vars, storedVars, contextVars>>

Parts == {"registry", "evidence", "bound", "losses", "deltas", "baselines", "overlaps", "points", "context", "status"}

PartInit ==
    /\ part \in Parts
    /\ Init /\ Evidence!Init
    /\ IF part = "deltas" THEN Deltas!Init ELSE Losses!Init
    /\ part \in {"losses", "deltas"} \/ events = {}
    /\ CASE part = "points" -> Points!Init [] part = "overlaps" -> Overlaps!Init [] OTHER -> Baselines!Init
    /\ Context!Init
    /\ Followed /\ (part \in {"context", "status"} \/ (disk = [f \in Files |-> 0] /\ limit = 1))

PartNext ==
    \/ /\ part = "registry" /\ Next
       /\ UNCHANGED <<part, storedVars, contextVars>>
    \/ /\ \/ part = "evidence" /\ Evidence!Next
          \/ part = "bound" /\ Bound!Next
       /\ UNCHANGED <<part, vars, journalVars, stateVars, contextVars>>
    \/ /\ \/ part = "losses" /\ Losses!Next
          \/ part = "deltas" /\ Deltas!Next
       /\ UNCHANGED <<part, vars, resourceVars, stateVars, contextVars>>
    \/ /\ \/ part = "baselines" /\ Baselines!Next
          \/ part = "overlaps" /\ Overlaps!Next
          \/ part = "points" /\ Points!Next
       /\ UNCHANGED <<part, vars, resourceVars, journalVars, contextVars>>
    \/ /\ part \in {"context", "status"} /\ Context!Next
       /\ UNCHANGED <<part, vars, storedVars>>

PartSpec == PartInit /\ [][PartNext]_allVars
-----------------------------------------------------------------------------
\* Properties of the components that are only model-checked.

\* A reader of the journal sees the history of the canonical tables: whatever is pruned,
\* lost, delivered twice or late and reopened, nothing is skipped, applied twice or given
\* a second cursor, and what cannot be served is announced (journal.rs).
ReadersSeeTheHistory ==
    /\ [](part = "losses" => Losses!ProjectionIsHistory /\ Losses!LostPrefixIsAnnounced)
    /\ [](part = "deltas" => Deltas!JobDeltaIsComplete /\ Deltas!BoundaryStaysReadable)
    /\ Losses!CursorsAreNeverReissued

\* What is known of a resource is the newest of its strongest evidence; the bound costs
\* the least recent; a load hides and invents nothing (resource_registry.rs).
EvidenceIsKept ==
    /\ [](part = "evidence" => Evidence!StrongestEvidenceKept /\ Evidence!NewestHealthKept)
    /\ Evidence!LeastRecentIsEvicted /\ Evidence!LoadIsHonest

\* Verification runs that follow each other judge by the compile before; writers that
\* overlap save what they read and what they made, so that the only thing lost of another
\* is what it saved in between (orchestration/state.rs, verification/runner.rs).
StateKeepsWhatWritersRead ==
    /\ [](part = "baselines" => Baselines!DeltasFollowCompiles /\ Baselines!RunsLeaveTheirBaselines)
    /\ [][/\ part = "overlaps" => Overlaps!SavesKeepWhatWasRead
          /\ part = "points" => Points!SavesKeepWhatWasRead]_allVars
=============================================================================
