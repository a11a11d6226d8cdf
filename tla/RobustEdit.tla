------------------------------ MODULE RobustEdit ------------------------------
(***************************************************************************)
(* Transactional edits of one file (edit.rs, apply_inner): editors take a   *)
(* cooperative lock, edit a snapshot, look at the file once more and rename *)
(* a temporary file onto it. A writer that does not know of the lock may    *)
(* change the file at any time, and an editor may be killed at any step.    *)
(* A text is a sequence of characters, "r" and "n" standing for CR and LF;  *)
(* a revision is the text itself (its SHA-256 in the code).                 *)
(***************************************************************************)
EXTENDS Naturals, Sequences, FiniteSets, SequencesExt

CONSTANTS
    Editors,     \* concurrent filesystem.edit executions
    RequestsOf,  \* editor -> its possible requests: kind, target, content, expected
    Texts,       \* the texts the file starts with, and an outside writer writes
    MaxWrites    \* bound on outside writes

MAX_RETRIES == 2
Nobody == "nobody"
AnyRevision == <<"any">>   \* no expectedRevision; not a text
NoText == <<"none">>

ASSUME EditorsAssumption == Nobody \notin Editors

VARIABLES
    file,     \* the file's text
    lock,     \* holder of the per-file lock
    editor,   \* editor -> pc, request, snapshot, next, recovered, retries, outcome
    writes    \* outside writes so far

vars == <<file, lock, editor, writes>>

\* construct_call and the head of apply_inner: an append names no target, and
\* every other operation a non-empty one.
WellFormed(r) ==
    /\ r.kind \in {"replace", "insertBefore", "insertAfter", "append"}
    /\ (r.kind = "append") <=> (r.target = NoText)
    /\ r.target # <<>>

Init ==
    /\ file \in Texts /\ lock = Nobody /\ writes = 0
    /\ \E req \in [Editors -> UNION {RequestsOf[e] : e \in Editors}] :
        /\ \A e \in Editors : req[e] \in RequestsOf[e] /\ WellFormed(req[e])
        /\ editor = [e \in Editors |-> [pc |-> "lock", request |-> req[e], snapshot |-> NoText,
                                        next |-> NoText, recovered |-> FALSE, retries |-> 0, outcome |-> "none"]]

-----------------------------------------------------------------------------
\* String functions: where a needle occurs, and the line-end conversions.
Occurs(text, needle) == {i \in 1..(Len(text) + 1 - Len(needle)) : SubSeq(text, i, i + Len(needle) - 1) = needle}
Has(text, needle) == Occurs(text, needle) # {}
CRLF == <<"r", "n">>
ToCRLF(text) == FlattenSeq([i \in DOMAIN text |-> IF text[i] = "n" THEN CRLF ELSE <<text[i]>>])
ToLF(text) ==
    FlattenSeq([i \in DOMAIN text |->
        IF text[i] = "r" /\ i < Len(text) /\ text[i + 1] = "n" THEN <<>> ELSE <<text[i]>>])

\* resolve: the text that is sought, in the file's line ends if in no other way.
Needle(text, target) ==
    IF Has(text, target) THEN target
    ELSE IF Has(target, <<"n">>) /\ Has(text, CRLF) /\ ~Has(target, CRLF) THEN ToCRLF(target)
    ELSE IF Has(target, CRLF) THEN ToLF(target)
    ELSE NoText

\* resolve: the edit is made at the only occurrence; overlapping ones count once.
Resolve(text, r) ==
    IF r.kind = "append" THEN [text |-> text \o r.content, recovered |-> FALSE, conflict |-> "none"]
    ELSE LET needle == Needle(text, r.target)
             failure(c) == [text |-> NoText, recovered |-> FALSE, conflict |-> c]
         IN  IF needle = NoText \/ ~Has(text, needle) THEN failure("missing")
             ELSE LET at == CHOOSE i \in Occurs(text, needle) : \A k \in Occurs(text, needle) : i <= k
                      after == at + Len(needle)
                      from == IF r.kind = "insertAfter" THEN after ELSE at
                      to == IF r.kind = "replace" THEN after ELSE from
                  IN  IF \E k \in Occurs(text, needle) : k >= after THEN failure("ambiguous")
                      ELSE [text |-> SubSeq(text, 1, from - 1) \o r.content \o SubSeq(text, to, Len(text)),
                            recovered |-> needle # r.target, conflict |-> "none"]

Stale(r, text) == r.expected # AnyRevision /\ r.expected # text

-----------------------------------------------------------------------------
\* Mutant: only a successful editor gives its lock back.
EndHolding(e, outcome) ==
    /\ editor' = [editor EXCEPT ![e].pc = "done", ![e].outcome = outcome]
    /\ lock' = IF lock = e /\ outcome = "applied" THEN Nobody ELSE lock

\* An editor ends, and its lock with the file it was taken on.
End(e, outcome) ==
    /\ editor' = [editor EXCEPT ![e].pc = "done", ![e].outcome = outcome]
    /\ lock' = IF lock = e THEN Nobody ELSE lock

\* Mutant: the lock is taken on a file of the editor's own.
LockOwn(e) ==
    /\ editor[e].pc = "lock"
    /\ lock' = e /\ editor' = [editor EXCEPT ![e].pc = "read"] /\ UNCHANGED <<file, writes>>

\* lock_exclusive blocks until the lock is free.
Lock(e) ==
    /\ editor[e].pc = "lock" /\ lock = Nobody
    /\ lock' = e /\ editor' = [editor EXCEPT ![e].pc = "read"] /\ UNCHANGED <<file, writes>>

\* Mutant: a stale snapshot may have its line ends repaired.
RefusedIfUnresolved(r, text, o) == o.conflict # "none" \/ (Stale(r, text) /\ r.kind = "append")

\* An append has no anchor to find again, and a stale snapshot is not repaired.
Refused(r, text, o) ==
    \/ o.conflict # "none"
    \/ Stale(r, text) /\ (r.kind = "append" \/ o.recovered)

\* The loop's first half: read the file, resolve the edit, write the temporary file.
Read(e) ==
    LET r == editor[e].request
        o == Resolve(file, r)
    IN  /\ editor[e].pc = "read"
        /\ IF Refused(r, file, o)
           THEN End(e, "refused")
           ELSE /\ editor' = [editor EXCEPT ![e].pc = "verify", ![e].snapshot = file,
                                            ![e].next = o.text, ![e].recovered = o.recovered]
                /\ UNCHANGED lock
        /\ UNCHANGED <<file, writes>>

\* Mutant: the temporary file is kept when the file has changed.
VerifyStale(e) ==
    /\ editor[e].pc = "verify"
    /\ IF file # editor[e].snapshot /\ editor[e].retries = MAX_RETRIES
       THEN End(e, "concurrent")
       ELSE /\ editor' = [editor EXCEPT ![e].pc = "persist", ![e].snapshot = file,
                                        ![e].retries = IF file # editor[e].snapshot THEN @ + 1 ELSE @]
            /\ UNCHANGED lock
    /\ UNCHANGED <<file, writes>>

\* The second look: a file that has changed is read again, twice at most.
Verify(e) ==
    /\ editor[e].pc = "verify"
    /\ IF file = editor[e].snapshot
       THEN editor' = [editor EXCEPT ![e].pc = "persist"] /\ UNCHANGED lock
       ELSE IF editor[e].retries = MAX_RETRIES
            THEN End(e, "concurrent")
            ELSE editor' = [editor EXCEPT ![e].pc = "read", ![e].retries = @ + 1] /\ UNCHANGED lock
    /\ UNCHANGED <<file, writes>>

\* The rename, which does not look again; the directory's sync may still fail after it.
Persist(e) ==
    /\ editor[e].pc = "persist"
    /\ file' = editor[e].next
    /\ End(e, "applied") \/ End(e, "failed")
    /\ UNCHANGED writes

\* An I/O error, or the process is killed: the temporary file is dropped.
Fail(e) == editor[e].pc \in {"read", "verify", "persist"} /\ End(e, "failed") /\ UNCHANGED <<file, writes>>

OutsideWrite(text) ==
    /\ writes < MaxWrites /\ text # file
    /\ file' = text /\ writes' = writes + 1
    /\ UNCHANGED <<lock, editor>>

Step(e) == Lock(e) \/ Read(e) \/ Verify(e) \/ Persist(e)
Next == \/ \E e \in Editors : Step(e) \/ Fail(e)
        \/ \E text \in Texts : OutsideWrite(text)

Spec == Init /\ [][Next]_vars
\* A thread that can run does; the lock is granted to each that waits for it.
FairSpec == Spec /\ \A e \in Editors : WF_vars(Read(e) \/ Verify(e) \/ Persist(e)) /\ SF_vars(Lock(e))

-----------------------------------------------------------------------------
\* The rename replaces the text the edit was resolved against, whatever the
\* other editors do: no cooperating editor loses another's edit.
ReplacesItsSnapshot ==
    \A e \in Editors :
        editor[e].pc = "persist" /\ editor'[e].pc = "done" /\ (file' # file \/ editor'[e].outcome = "applied") =>
            editor[e].snapshot = file
NoEditIsLost == [][ReplacesItsSnapshot]_vars

\* What is committed is the requested edit of the text that was last looked at,
\* through every retry.
EditsFitTheirText ==
    \A e \in Editors : editor[e].pc = "persist" =>
        editor[e].next = Resolve(editor[e].snapshot, editor[e].request).text

\* An edit of a text other than the expected one finds its target letter for
\* letter, and is not an append.
StaleEditsAreExact ==
    \A e \in Editors : LET r == editor[e].request IN
        editor[e].outcome = "applied" /\ Stale(r, editor[e].snapshot) =>
            r.kind # "append" /\ ~editor[e].recovered

\* Every editor ends, however often the file changes under it.
EditorsEnd == <>(\A e \in Range(editor) : e.pc = "done")
=============================================================================
