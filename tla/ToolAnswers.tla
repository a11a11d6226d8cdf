------------------------------ MODULE ToolAnswers ------------------------------
(***************************************************************************)
(* What the native tools answer and whether it can be settled              *)
(* (native_tools.rs: the executor, ToolResult::bounded and                 *)
(* validate_response). Text is plain "p", "q" that JSON escapes with one   *)
(* backslash, the backslash "b" itself, and "c", a control character that  *)
(* takes six bytes. The fixed fields of a result take Wrap bytes.          *)
(***************************************************************************)
EXTENDS Naturals, Sequences, SequencesExt, FiniteSets

CONSTANTS
    Cap,          \* TOOL_OUTPUT_CAP
    Wrap,         \* bytes of a result around its output
    Texts,        \* what a file holds or a child writes
    Directories,  \* directories, as sequences of encoded entry sizes
    Tools         \* of "read", "list", "search", "exec"

None == "none"

\* The result's own fields leave room for a page whose every character is escaped.
AnswersAssumption ==
    /\ Cap \in Nat /\ Wrap \in Nat /\ 4 * Wrap <= Cap
    /\ Texts \subseteq Seq({"p", "q", "b", "c"}) /\ Directories \subseteq Seq(Nat)

VARIABLES
    tool, given,        \* the tool and its text or directory
    granted,            \* PermissionPolicy: the permission and the capability
    cancelled,          \* cancellation was requested
    phase,              \* "admitted", "claimed", "ran", "answered", "settled"
    effect,             \* the tool did something in the Project
    result,             \* ToolResult
    settled             \* "finished", "failed", "fenced" or None

vars == <<tool, given, granted, cancelled, phase, effect, result, settled>>

Init ==
    /\ tool \in Tools
    /\ given \in (IF tool = "list" THEN Directories ELSE Texts)
    /\ granted \in [permission : BOOLEAN, capability : BOOLEAN]
    /\ cancelled = FALSE /\ phase = "admitted" /\ effect = FALSE
    /\ result = None /\ settled = None

-----------------------------------------------------------------------------
\* serde_json, of a string: every character as its bytes in the document.
Bytes(c) ==
    CASE c \in {"q", "b"} -> <<"b", c>>
      [] c = "c" -> <<"b", "p", "p", "p", "p", "p">>
      [] OTHER -> <<c>>
Escaped(text) == FlattenSeq([i \in DOMAIN text |-> Bytes(text[i])])

\* Its length: the first, second, ... byte of each character.
EscapedSize(text) == Cardinality({b \in (DOMAIN text) \X (1..6) : b[2] <= Len(Bytes(text[b[1]]))})
SumOfSizes(sizes) == SumFunctionOnSet(sizes, DOMAIN sizes)
SizeOf(r) == Wrap + (IF r.kind = "entries" THEN SumOfSizes(r.output) ELSE EscapedSize(r.output))

Success(kind, output, truncated) ==
    [success |-> TRUE, kind |-> kind, output |-> output, truncated |-> truncated, error |-> None]
Exited(code, accepted, r) ==
    IF code \in accepted THEN r ELSE [r EXCEPT !.success = FALSE, !.error = "execution_failure"]
Failure(error) == [success |-> FALSE, kind |-> "text", output |-> <<>>, truncated |-> FALSE, error |-> error]

Cut(text, n) == SubSeq(text, 1, IF n < Len(text) THEN n ELSE Len(text))

\* Mutant: a file page may fill the whole result.
ReadWhole(text) == Success("text", Cut(text, Cap), Len(text) > Cap)

\* read: an eighth of the cap, for escapes and the fields around the content.
ReadFile(text) == Success("text", Cut(text, Cap \div 8), Len(text) > Cap \div 8)

\* list: entries are taken while they fit the cap, without the fields around them.
ListDirectory(sizes) ==
    LET fits(n) == SumOfSizes(SubSeq(sizes, 1, n)) <= Cap
        taken == CHOOSE n \in 0..Len(sizes) : fits(n) /\ (n = Len(sizes) \/ ~fits(n + 1))
    IN  Success("entries", SubSeq(sizes, 1, taken), taken # Len(sizes))

\* exec: what the child wrote, up to the cap of its captured stream.
RunProgram(text, code) == Exited(code, {0}, Success("text", Cut(text, Cap), Len(text) > Cap))

\* search: rg says with 1 that nothing matched, which is an answer too.
Search(text, code) == Exited(code, {0, 1}, Success("text", Cut(text, Cap), Len(text) > Cap))

Encoded(r) == IF r.kind = "entries" THEN [i \in 1..SizeOf(r) |-> "p"] ELSE Escaped(r.output)

\* Mutant: the preview is not said to be one.
BoundedSilently(r) ==
    IF SizeOf(r) <= Cap THEN r
    ELSE [r EXCEPT !.kind = "preview", !.output = Cut(Encoded(r), Cap \div 2)]

\* ToolResult::bounded: a result that is too large becomes a preview of its own
\* encoding, which is then encoded again.
Bounded(r) ==
    IF SizeOf(r) <= Cap THEN r
    ELSE [r EXCEPT !.kind = "preview", !.output = Cut(Encoded(r), Cap \div 2), !.truncated = TRUE]

Executed(code) ==
    CASE tool = "read" -> ReadFile(given)
      [] tool = "list" -> ListDirectory(given)
      [] tool = "search" -> Search(given, code)
      [] OTHER -> RunProgram(given, code)

-----------------------------------------------------------------------------
Cancel == ~cancelled /\ phase # "settled" /\ cancelled' = TRUE
          /\ UNCHANGED <<tool, given, granted, phase, effect, result, settled>>

\* execute_envelope claims the Call; before that a cancelled Call is only failed.
Claim ==
    /\ phase = "admitted"
    /\ phase' = IF cancelled THEN "settled" ELSE "claimed"
    /\ settled' = IF cancelled THEN "failed" ELSE settled
    /\ UNCHANGED <<tool, given, granted, cancelled, effect, result>>

Refused ==
    IF ~granted.permission \/ ~granted.capability THEN "permission_denied"
    ELSE IF cancelled THEN "cancelled" ELSE None

\* execute_cancellable, up to the tool's own work.
Execute(code) ==
    /\ phase = "claimed"
    /\ IF Refused # None
       THEN result' = Failure(Refused) /\ phase' = "answered" /\ UNCHANGED effect
       ELSE result' = Executed(code) /\ phase' = "ran" /\ effect' = (tool = "exec")
    /\ UNCHANGED <<tool, given, granted, cancelled, settled>>

\* Its end: what a cancelled tool did is not its result.
Answer ==
    /\ phase = "ran" /\ phase' = "answered"
    /\ result' = IF cancelled THEN Failure("cancelled") ELSE Bounded(result)
    /\ UNCHANGED <<tool, given, granted, cancelled, effect, settled>>

Valid == SizeOf(result) <= Cap

\* Mutant: an oversize result is a failure like any other.
OutcomeUnfenced ==
    IF result.success /\ Valid THEN "finished" ELSE "failed"

\* The end of execute_envelope: without a valid outcome a claimed Call is fenced.
Outcome ==
    IF cancelled \/ result.error = "cancelled" \/ ~Valid THEN "fenced"
    ELSE IF result.success THEN "finished" ELSE "failed"

Settle ==
    /\ phase = "answered" /\ phase' = "settled" /\ settled' = Outcome
    /\ UNCHANGED <<tool, given, granted, cancelled, effect, result>>

Next == Cancel \/ Claim \/ (\E code \in 0..2 : Execute(code)) \/ Answer \/ Settle
Spec == Init /\ [][Next]_vars

-----------------------------------------------------------------------------
\* The answer to a Call tells the model whether it is all there is: a settled
\* success that is not marked truncated holds everything the tool found.
TruncationIsTold ==
    settled = "finished" /\ ~result.truncated => result.kind # "preview" /\ result.output = given

\* A page of a file is answered as it is: escaping never turns it into a preview.
PagesAreNeverPreviews == tool = "read" /\ settled = "finished" => result.kind = "text"

\* A Call whose tool had an effect fails only with the tool's own outcome: one
\* that was cancelled, or whose answer cannot be stored, is fenced as uncertain.
EffectsAreNotDenied == effect /\ settled = "failed" => Valid /\ result.error = "execution_failure"

\* An answer says that it was cut, a page is never passed for a preview, and an
\* effect that happened is never denied.
AnswersTellTheTruth == TruncationIsTold /\ PagesAreNeverPreviews /\ EffectsAreNotDenied

\* "prevents a combination of bounded fields from growing beyond the single
\* result budget sent back to an LLM".
ResultsFitTheBudget == phase = "answered" => SizeOf(result) <= Cap

\* "List bounded structured entries in a directory": a listing has entries.
ListingsAreStructured == settled = "finished" /\ tool = "list" => result.kind = "entries"
=============================================================================
