-------------------------- MODULE OrchestrationState --------------------------
(***************************************************************************)
(* `.ocg/orchestration/state.json` (orchestration/state.rs) and its two      *)
(* writers, each of which loads the document, works on its copy and saves    *)
(* all of it: verification runs, which keep the last diagnostics of each     *)
(* command (verification/runner.rs, compiler_feedback.rs), and provider      *)
(* requests, which keep their compaction points (provider_context.rs).       *)
(***************************************************************************)
EXTENDS Naturals, Sequences, FiniteSets

CONSTANTS
    Runs,          \* verification runs that may be active at once
    Stages,        \* the command lists of the configured stages
    Diagnostics,   \* diagnostics: a site (level, code, file, span) and a text
    Attempts,      \* Attempts whose requests record compaction points
    MaxBaselines,  \* MAX_COMPILER_BASELINES
    MaxAttempts,   \* MAX_COMPACTION_ATTEMPTS
    MaxClock,      \* bound on the clock that dates points
    Truncates,     \* captured output may be cut at its cap
    Faults         \* what may go wrong: "save" (the save fails), "log" (a raw log cannot be stored)

VARIABLES
    file,      \* the document: baselines of commands, points of Attempts
    run,       \* run -> the document it read, its copy, commands left, commands compiled
    request,   \* Attempt -> its copy and the time of its point
    last,      \* history: command -> what its last machine-readable compile printed
    result,    \* history: the last delta reported
    recorded,  \* history: Attempts whose point was saved
    compiled   \* history: the commands the last finished run compiled

vars == <<file, run, request, last, result, recorded, compiled>>

AtRest == [active |-> FALSE]
Empty == [x \in {} |-> {}]
NoDelta == [known |-> FALSE, previous |-> {}, new |-> {}, resolved |-> {}]

Init ==
    /\ file = [baselines |-> Empty, points |-> Empty]
    /\ run = [r \in Runs |-> AtRest] /\ request = [a \in Attempts |-> AtRest]
    /\ last = Empty /\ result = [delta |-> NoDelta, printed |-> {}, follows |-> {}] /\ recorded = {} /\ compiled = {}

Put(f, k, v) == [x \in DOMAIN f \cup {k} |-> IF x = k THEN v ELSE f[x]]
Keep(f, keys) == [x \in DOMAIN f \cap keys |-> f[x]]

-----------------------------------------------------------------------------
\* execute, up to its load of the document.
Start(r, stage) ==
    /\ ~run[r].active
    /\ run' = [run EXCEPT ![r] = [active |-> TRUE, read |-> file, copy |-> file, todo |-> stage, live |-> {}]]
    /\ UNCHANGED <<file, request, last, result, recorded, compiled>>

\* record_compiler_baseline: over the cap, what this run did not compile goes.
RecordBaseline(baselines, command, current, live) ==
    LET all == Put(baselines, command, current)
    IN  IF Cardinality(DOMAIN all) <= MaxBaselines THEN all ELSE Keep(all, live)

\* identity: level, code, file, span and the message.
Identity(d) == <<d.site, d.text>>

\* delta against the baseline the run's copy holds for the command.
Delta(known, previous, current) ==
    LET Ids(set) == {Identity(d) : d \in set}
    IN  [known |-> known, previous |-> previous,
         new |-> IF known THEN {d \in current : Identity(d) \notin Ids(previous)} ELSE {},
         resolved |-> IF known THEN {d \in previous : Identity(d) \notin Ids(current)} ELSE {}]

\* What remains of a compile's output: it ends early when the cap cuts it, and
\* without a message it no longer shows that it is machine readable.
Retained(printed) == IF Truncates THEN {printed} \cup (SUBSET printed \ {{}}) ELSE {printed}

\* Mutant: a compile without diagnostics leaves the baseline it found.
RecordingDirty(u, command, retained) ==
    LET live == u.live \cup {command}
    IN  [u EXCEPT !.live = live,
                  !.copy.baselines = IF retained = {} THEN @ ELSE RecordBaseline(@, command, retained, live)]

\* Mutant: the command joins those the run compiled after it is recorded.
RecordingLate(u, command, retained) ==
    [u EXCEPT !.live = @ \cup {command},
              !.copy.baselines = RecordBaseline(@, command, retained, u.live)]

\* The run's copy after a compile: a clean one records its baseline too.
Recording(u, command, retained) ==
    LET live == u.live \cup {command}
    IN  [u EXCEPT !.live = live, !.copy.baselines = RecordBaseline(@, command, retained, live)]

\* The next command printed a message stream; a failure may end the stage.
Compile(r, printed, retained, stops) ==
    /\ run[r].active /\ run[r].todo # <<>>
    /\ LET command == Head(run[r].todo)
           before == run[r].copy.baselines
           known == command \in DOMAIN before
       IN  /\ run' = [run EXCEPT ![r] = [Recording(run[r], command, retained) EXCEPT
                          !.todo = IF stops THEN <<>> ELSE Tail(@)]]
           /\ result' = [delta |-> Delta(known, IF known THEN before[command] ELSE {}, retained),
                         printed |-> printed,
                         follows |-> IF command \in DOMAIN last THEN last[command] ELSE {}]
           /\ last' = Put(last, command, retained)
    /\ UNCHANGED <<file, request, recorded, compiled>>

\* The next command could not be run or printed something else.
RunOther(r, stops) ==
    /\ run[r].active /\ run[r].todo # <<>>
    /\ run' = [run EXCEPT ![r].todo = IF stops THEN <<>> ELSE Tail(@)]
    /\ UNCHANGED <<file, request, last, result, recorded, compiled>>

\* Mutant: a run writes what it knows of, its baselines.
FinishAlone(r) ==
    /\ run[r].active /\ run[r].todo = <<>>
    /\ file' = IF run[r].live = {} THEN file ELSE [run[r].copy EXCEPT !.points = Empty]
    /\ run' = [run EXCEPT ![r] = AtRest]
    /\ compiled' = run[r].live
    /\ UNCHANGED <<request, last, result, recorded>>

\* The commands are done: the copy is saved when something was compiled. That
\* the save failed is a note of the report.
Finish(r) ==
    /\ run[r].active /\ run[r].todo = <<>>
    /\ \/ file' = IF run[r].live = {} THEN file ELSE run[r].copy
       \/ "save" \in Faults /\ UNCHANGED file
    /\ run' = [run EXCEPT ![r] = AtRest]
    /\ compiled' = run[r].live
    /\ UNCHANGED <<request, last, result, recorded>>

\* A raw log could not be stored: the run ends with that error.
Abort(r) ==
    /\ "log" \in Faults /\ run[r].active /\ run[r].live # {}
    /\ run' = [run EXCEPT ![r] = AtRest]
    /\ UNCHANGED <<file, request, last, result, recorded, compiled>>

-----------------------------------------------------------------------------
\* persist_compaction_point, up to its load and from there to its save.
LoadForPoint(a, at) ==
    /\ ~request[a].active
    /\ request' = [request EXCEPT ![a] = [active |-> TRUE, copy |-> file, at |-> at]]
    /\ UNCHANGED <<file, run, last, result, recorded, compiled>>

\* record_compaction_point and prune_compaction_attempts: the Attempts whose
\* last point is oldest go.
RecordPoint(points, a, at) ==
    LET all == Put(points, a, at)
        gone == CHOOSE old \in SUBSET DOMAIN all :
            /\ Cardinality(old) = (IF Cardinality(DOMAIN all) > MaxAttempts THEN Cardinality(DOMAIN all) - MaxAttempts ELSE 0)
            /\ \A x \in old, y \in DOMAIN all \ old : all[x] <= all[y]
    IN  Keep(all, DOMAIN all \ gone)

\* That the save failed is a warning of the log.
SavePoint(a) ==
    /\ request[a].active
    /\ \/ /\ file' = [request[a].copy EXCEPT !.points = RecordPoint(@, a, request[a].at)]
          /\ recorded' = recorded \cup {a}
       \/ "save" \in Faults /\ UNCHANGED <<file, recorded>>
    /\ request' = [request EXCEPT ![a] = AtRest]
    /\ UNCHANGED <<run, last, result, compiled>>

Next ==
    \/ \E r \in Runs :
        \/ \E stage \in Stages : Start(r, stage)
        \/ \E printed \in SUBSET Diagnostics, stops \in BOOLEAN :
               \E retained \in Retained(printed) : Compile(r, printed, retained, stops)
        \/ \E stops \in BOOLEAN : RunOther(r, stops)
        \/ Finish(r) \/ Abort(r)
    \/ \E a \in Attempts : SavePoint(a) \/ \E at \in 1..MaxClock : LoadForPoint(a, at)

Spec == Init /\ [][Next]_vars

-----------------------------------------------------------------------------
\* A delta is taken against the compile of the command before it, whichever
\* run that was, and not against an older one.
DeltasFollowCompiles == result.delta.known => result.delta.previous = result.follows

\* When no run is active, each command of the last run's compiles has what it
\* printed last as its baseline: the cap never costs a run its own.
RunsLeaveTheirBaselines ==
    (\A r \in Runs : ~run[r].active) =>
        \A command \in compiled : command \in DOMAIN file.baselines /\ file.baselines[command] = last[command]

Same(f, g, k) == k \in DOMAIN f /\ k \in DOMAIN g /\ f[k] = g[k]

\* A save by a writer that read this document and made these points and baselines itself.
SaveKeeps(read, points, commands) ==
    /\ \A a \in DOMAIN file'.points \ points : Same(file'.points, read.points, a)
    /\ \A c \in DOMAIN file'.baselines \ commands : Same(file'.baselines, read.baselines, c)
    /\ \A a \in DOMAIN file.points \ points : Same(file.points, read.points, a) =>
        \/ Same(file.points, file'.points, a)
        \/ /\ points # {} /\ Cardinality(DOMAIN file'.points) = MaxAttempts
           /\ \A b \in DOMAIN file'.points : file'.points[b] >= file.points[a]
    /\ \A c \in DOMAIN file.baselines \ commands : Same(file.baselines, read.baselines, c) =>
        \/ Same(file.baselines, file'.baselines, c)
        \/ Cardinality(DOMAIN read.baselines \cup commands) > MaxBaselines

\* Of several writers, each that saves puts down what it read and what it made, and nothing
\* else: what the document held when it was read is there afterwards, or gave way at a cap
\* to what is as new. What others saved in between is not kept: see RecordedPointsStay.
SavesKeepWhatWasRead ==
    file' # file =>
        \/ \E r \in Runs :
            run[r].active /\ ~run'[r].active /\ SaveKeeps(run[r].read, {}, run[r].live)
        \/ \E a \in Attempts :
            request[a].active /\ ~request'[a].active /\ SaveKeeps(request[a].copy, {a}, {})

\* Refuted: a saved point is there for the Attempt's next request. A verification run or
\* another request that read the document before it was saved removes it (runner.rs:214).
RecordedPointsStay == \A a \in recorded : a \in DOMAIN file.points

\* A diagnostic that is only worded differently is not a new one.
RewordedIsNotNew ==
    \A d \in result.delta.new : \A p \in result.delta.previous : p.site # d.site

\* What a delta calls resolved the compiler no longer reports.
ResolvedAreGone == result.delta.resolved \cap result.printed = {}
=============================================================================
