----------------------------- MODULE ChildProcess -----------------------------
(***************************************************************************)
(* One child process and the thread that captures its output (process.rs): *)
(* two pipes of bounded capacity, a reader for each, a wait, and in one of *)
(* the three ways of running a child a poll loop that kills it when the    *)
(* caller cancels. Bytes are counted, not named: a reader keeps the first  *)
(* of them. The child and the operating system are the environment.        *)
(***************************************************************************)
EXTENDS Naturals, Sequences

CONSTANTS
    Modes,      \* of "run", "cancellable", "git": the three ways to run a child
    Scripts,    \* what a child may do: <<"out" | "err" | "hang" | "spawn", ...>>, then exit
    Codes,      \* exit codes
    Capacity,   \* of a pipe
    MaxBytes    \* max_bytes: what is kept of a stream

CaptureAssumption == Capacity \in Nat \ {0} /\ MaxBytes \in Nat \ {0}

Streams == {"out", "err"}
Zero == [s \in Streams |-> 0]

VARIABLES
    mode, script,
    child,      \* at: steps of the script done; state; whether a descendant holds the pipes
    written,    \* bytes written to each stream
    pipe,       \* bytes in each pipe
    reader,     \* of each stream: "reading", "stopped" (before the end), "done"
    kept,       \* bytes kept
    truncated,  \* whether bytes were dropped
    parent,     \* "streams", "poll", "wait", "join", "done"
    cancelled,  \* the caller's fence
    killed,     \* cancelled_child: a kill succeeded in the poll loop
    success     \* what the run reports

vars == <<mode, script, child, written, pipe, reader, kept, truncated, parent, cancelled, killed, success>>
capture == <<reader, kept, truncated>>

Ended == child.state \in {"exited", "killed"}
AtEnd(s) == Ended /\ ~child.held /\ pipe[s] = 0

Init ==
    /\ mode \in Modes /\ script \in Scripts
    /\ child = [at |-> 0, state |-> "running", code |-> 0, held |-> FALSE]
    /\ written = Zero /\ pipe = Zero /\ kept = Zero
    /\ reader = [s \in Streams |-> "reading"] /\ truncated = [s \in Streams |-> FALSE]
    /\ parent = IF mode = "cancellable" THEN "poll" ELSE "streams"
    /\ cancelled = FALSE /\ killed = FALSE /\ success = FALSE

-----------------------------------------------------------------------------
\* The child: its next write blocks while the pipe is full, and ends it once
\* nobody reads the pipe.
ChildWrite(s) ==
    /\ child.state = "running" /\ child.at < Len(script) /\ script[child.at + 1] = s
    /\ IF reader[s] = "stopped"
       THEN child' = [child EXCEPT !.state = "killed"] /\ UNCHANGED <<written, pipe>>
       ELSE /\ pipe[s] < Capacity
            /\ child' = [child EXCEPT !.at = @ + 1]
            /\ written' = [written EXCEPT ![s] = @ + 1]
            /\ pipe' = [pipe EXCEPT ![s] = @ + 1]
    /\ UNCHANGED <<mode, script, capture, parent, cancelled, killed, success>>

\* A descendant keeps the write ends of the pipes.
ChildSpawn ==
    /\ child.state = "running" /\ child.at < Len(script) /\ script[child.at + 1] = "spawn"
    /\ child' = [child EXCEPT !.at = @ + 1, !.held = TRUE]
    /\ UNCHANGED <<mode, script, written, pipe, capture, parent, cancelled, killed, success>>

ChildExit(code) ==
    /\ child.state = "running" /\ child.at = Len(script)
    /\ child' = [child EXCEPT !.state = "exited", !.code = code]
    /\ UNCHANGED <<mode, script, written, pipe, capture, parent, cancelled, killed, success>>

Cancel ==
    /\ mode = "cancellable" /\ ~cancelled /\ parent # "done"
    /\ cancelled' = TRUE
    /\ UNCHANGED <<mode, script, child, written, pipe, capture, parent, killed, success>>

-----------------------------------------------------------------------------
Smaller(a, b) == IF a < b THEN a ELSE b

\* Mutant: a stream that ends within the byte that fills the cap is not truncated.
DropsAnyLate(s, n) == kept[s] < MaxBytes /\ Smaller(n, MaxBytes - kept[s]) < n

\* One read of n bytes keeps what there is room for.
DropsAny(s, n) == Smaller(n, MaxBytes - kept[s]) < n

\* read_drain_bounded reads to the end; read_bounded, which git's output goes
\* through, stops at the first byte it has no room for.
ReadOf(s) ==
    /\ reader[s] = "reading"
    /\ \/ /\ AtEnd(s) /\ reader' = [reader EXCEPT ![s] = "done"]
          /\ UNCHANGED <<kept, truncated, pipe>>
       \/ \E n \in 1..pipe[s] :
            /\ kept' = [kept EXCEPT ![s] = @ + Smaller(n, MaxBytes - @)]
            /\ truncated' = [truncated EXCEPT ![s] = @ \/ DropsAny(s, n)]
            /\ pipe' = [pipe EXCEPT ![s] = @ - n]
            /\ reader' = IF mode = "git" /\ s = "out" /\ DropsAny(s, n)
                         THEN [reader EXCEPT ![s] = "stopped"] ELSE reader
    /\ UNCHANGED <<mode, script, child, written, parent, cancelled, killed, success>>

\* Mutant: standard error is read after standard output, by one thread.
ReadInTurn(s) == (s = "err" => reader["out"] # "reading") /\ ReadOf(s)

\* Each stream is drained by a thread of its own while the child runs.
Read(s) == ReadOf(s)

\* run and run_bounded wait for the inline reader, and git's stdout reader has
\* the child killed if it stopped early.
StreamsRead ==
    /\ parent = "streams"
    /\ reader[IF mode = "git" THEN "out" ELSE "err"] # "reading"
    /\ parent' = "wait"
    /\ child' = IF mode = "git" /\ truncated["out"] /\ child.state = "running"
                THEN [child EXCEPT !.state = "killed"] ELSE child
    /\ UNCHANGED <<mode, script, written, pipe, capture, cancelled, killed, success>>

\* Mutant: a kill that failed is not tried again.
PollKillOnce(ok) ==
    /\ parent = "poll" /\ cancelled /\ ~killed /\ killed' = TRUE
    /\ child' = IF ok /\ child.state = "running" THEN [child EXCEPT !.state = "killed"] ELSE child
    /\ UNCHANGED <<mode, script, written, pipe, capture, parent, cancelled, success>>

\* The poll loop's kill, which may fail and is retried; it succeeds on a child
\* that has exited and was not waited for.
PollKill(ok) ==
    /\ parent = "poll" /\ cancelled /\ ~killed /\ killed' = ok
    /\ child' = IF ok /\ child.state = "running" THEN [child EXCEPT !.state = "killed"] ELSE child
    /\ UNCHANGED <<mode, script, written, pipe, capture, parent, cancelled, success>>

Waited ==
    /\ parent \in {"poll", "wait"} /\ Ended
    /\ parent' = "join"
    /\ UNCHANGED <<mode, script, child, written, pipe, capture, cancelled, killed, success>>

\* Mutant: the exit status alone decides.
ReportStatus(exitedWell) == exitedWell

\* A child that was killed is not a success, even if it had exited already.
Report(exitedWell) == exitedWell /\ ~killed

Join ==
    /\ parent = "join" /\ \A s \in Streams : reader[s] # "reading"
    /\ parent' = "done"
    /\ success' = Report(child.state = "exited" /\ child.code = 0)
    /\ UNCHANGED <<mode, script, child, written, pipe, capture, cancelled, killed>>

Parent == StreamsRead \/ Waited \/ Join
Next ==
    \/ \E s \in Streams : ChildWrite(s) \/ Read(s)
    \/ ChildSpawn \/ \E code \in Codes : ChildExit(code)
    \/ Cancel \/ Parent \/ \E ok \in BOOLEAN : PollKill(ok)

Spec == Init /\ [][Next]_vars
\* The child runs, threads run, and a kill that is retried succeeds.
FairSpec ==
    /\ Spec /\ WF_vars(Parent) /\ SF_vars(PollKill(TRUE))
    /\ \A s \in Streams : WF_vars(ChildWrite(s)) /\ WF_vars(Read(s))
    /\ WF_vars(ChildSpawn) /\ WF_vars(\E code \in Codes : ChildExit(code))

-----------------------------------------------------------------------------
\* What is kept of a stream is its beginning, as much as there is room for, and
\* it is called truncated exactly when there was more, of a killed child too.
CaptureIsHonest ==
    parent = "done" /\ ~child.held => \A s \in Streams :
        /\ reader[s] = "done" => kept[s] = Smaller(written[s], MaxBytes)
        /\ truncated[s] <=> written[s] > kept[s]

\* A run that its caller had killed does not report success ("a killed process is
\* never mistaken for an unknown success").
KilledIsNoSuccess == parent = "done" /\ killed => ~success

\* A child that ends by itself is waited for, however much it writes and to
\* whichever stream: nobody waits for a pipe that nobody reads.
RunsReturn ==
    (\A i \in DOMAIN script : script[i] \in Streams) => <>(parent = "done")

\* Once it is cancelled a run returns, though the child would never end, unless
\* a descendant still holds its output.
CancelledRunsReturn == cancelled ~> (parent = "done" \/ child.held)
=============================================================================
