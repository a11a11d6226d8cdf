------------------------------- MODULE MCThreads -------------------------------
(***************************************************************************)
(* The threads of the process that must end, each component on its own     *)
(* instance and under its own fairness: editors of one file, the capture   *)
(* of a child's output and the tails of a chat turn. part says which of    *)
(* them a behaviour is about.                                              *)
(***************************************************************************)
EXTENDS RobustEdit

CONSTANTS e1, e2, e3, c1, c2

VARIABLES
    part,
    mode, script, child, written, pipe, reader, kept, truncated, parent, cancelled, killed, success,
    produced, attempt, channel, events, entry, deadline, pc, index, pending, wire, broken, lastId,
    received, breaks

-----------------------------------------------------------------------------
\* Texts of a few characters with LF and CRLF line ends, and requests of every
\* kind: targets that span a line end, that are absent, and that occur twice.
R(kind, target, content, expected) == [kind |-> kind, target |-> target, content |-> content, expected |-> expected]
Lf == <<"a", "n", "b">>
CrLf == <<"a", "r", "n", "b">>
Twice == <<"a", "n", "a">>
SomeTexts == {Lf, CrLf, Twice}
SomeRequests ==
    {R("replace", t, <<"c">>, x) : t \in {<<"a">>, <<"a", "n">>, <<"a", "r", "n">>}, x \in {AnyRevision, Lf}}
        \cup {R("insertAfter", <<"b">>, <<"n", "a">>, AnyRevision), R("insertBefore", <<"b">>, <<"c">>, CrLf)}
        \cup {R("append", NoText, <<"n", "b">>, x) : x \in {AnyRevision, Lf}}
AllRequests == [e \in Editors |-> SomeRequests]
FewRequests == {R("replace", <<"a">>, <<"c">>, AnyRevision), R("append", NoText, <<"a">>, AnyRevision)}

\* The module itself has two editors of every kind of request and other writers; here three
\* share the lock and nobody else writes.
Together == INSTANCE RobustEdit WITH
    Editors <- {e1, e2, e3}, RequestsOf <- [e \in {e1, e2, e3} |-> FewRequests], MaxWrites <- 0

\* Every order of writes to the two streams, and children that hang or leave a descendant.
Writes == UNION {[1..n -> {"out", "err"}] : n \in {0, 2, 5}}
Endless == {<<"out", "hang">>, <<"err", "err", "err", "hang">>, <<"spawn", "out", "hang">>, <<"out", "spawn">>}
Child == INSTANCE ChildProcess WITH
    Modes <- {"run", "cancellable", "git"}, Scripts <- Writes \cup Endless, Codes <- {0, 1},
    Capacity <- 2, MaxBytes <- 2
ASSUME Child!CaptureAssumption

\* A turn whose transport fails, or that is silent, over a connection that breaks.
Stream == INSTANCE ChatStream WITH
    Conns <- {c1, c2}, Script <- <<"started", "text", "error">>, MaxBreaks <- 1
ASSUME Stream!StreamAssumption

-----------------------------------------------------------------------------
childVars  == <<mode, script, child, written, pipe, reader, kept, truncated, parent, cancelled, killed, success>>
streamVars == <<produced, attempt, channel, events, entry, deadline, pc, index, pending, wire,
                broken, lastId, received, breaks>>
allVars == <<part, vars, childVars, streamVars>>

Parts == {"race", "together", "child", "stream"}

PartInit ==
    /\ part \in Parts
    /\ IF part = "together" THEN Together!Init ELSE Init
    /\ part \in {"race", "together"} \/ (file = Lf /\ \A e \in Editors : editor[e].request = R("append", NoText, <<"n", "b">>, Lf))
    /\ Child!Init /\ (part = "child" \/ (mode = "run" /\ script = <<>>))
    /\ Stream!Init

\* A step of one component, and of no other.
OfRace(A) == part = "race" /\ A /\ UNCHANGED <<part, childVars, streamVars>>
OfEditors(A) == part = "together" /\ A /\ UNCHANGED <<part, childVars, streamVars>>
OfChild(A) == part = "child" /\ A /\ UNCHANGED <<part, vars, streamVars>>
OfStream(A) == part = "stream" /\ A /\ UNCHANGED <<part, vars, childVars>>

PartNext == OfRace(Next) \/ OfEditors(Together!Next) \/ OfChild(Child!Next) \/ OfStream(Stream!Next)

PartSpec ==
    /\ PartInit /\ [][PartNext]_allVars
    \* A thread that can run does; the lock is granted to each editor that waits for it.
    /\ \A e \in {e1, e2, e3} :
        /\ WF_allVars(OfEditors(Together!Read(e) \/ Together!Verify(e) \/ Together!Persist(e)))
        /\ SF_allVars(OfEditors(Together!Lock(e)))
    \* The child and the threads around it run, and a kill that is retried succeeds.
    /\ WF_allVars(OfChild(Child!Parent)) /\ SF_allVars(OfChild(Child!PollKill(TRUE)))
    /\ \A s \in {"out", "err"} : WF_allVars(OfChild(Child!ChildWrite(s))) /\ WF_allVars(OfChild(Child!Read(s)))
    /\ WF_allVars(OfChild(Child!ChildSpawn))
    /\ WF_allVars(OfChild(\E code \in {0, 1} : Child!ChildExit(code)))
    \* A tail's thread runs, every wait in its loop is bounded, and time passes.
    /\ WF_allVars(OfStream(Stream!PassDeadline))
    /\ \A c \in {c1, c2} : WF_allVars(OfStream(Stream!TailStep(c)))
-----------------------------------------------------------------------------
\* Properties.

\* What an editor commits is the edit asked for, of the text it last looked at; those that
\* share the lock replace exactly that text, and each of them ends (edit.rs).
EditsAreExactAndEnd ==
    /\ [](part = "race" => EditsFitTheirText /\ StaleEditsAreExact)
    /\ [][part = "together" => Together!ReplacesItsSnapshot]_allVars
    /\ part = "together" => Together!EditorsEnd

\* A child that ends by itself, or that its caller cancels, is waited for, however much it
\* writes and to whichever stream, and what is reported of it is true (process.rs).
CapturesReturnTheTruth ==
    /\ [](part = "child" => Child!CaptureIsHonest /\ Child!KilledIsNoSuccess)
    /\ part = "child" => Child!RunsReturn
    /\ part = "child" => Child!CancelledRunsReturn

\* A tail ends, with its client's slot, even when the browser has gone and the provider is
\* silent (handle_chat_stream in control_server.rs).
TailsEnd == part = "stream" => Stream!TailsEnd
=============================================================================
