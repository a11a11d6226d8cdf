--------------------------- MODULE ContextReduction ---------------------------
(***************************************************************************)
(* The deterministic reduction of a conversation (compaction/reduction.rs):  *)
(* every projection bounds oversized payloads, collapses repeated            *)
(* observations and replaces restatements of canonical facts. The            *)
(* conversation grows and each request reduces all of it again. The texts    *)
(* of users and of the model come from the frozen Call context; tool calls   *)
(* and their results are in the form of the provider loop's own messages,    *)
(* whose content is the whole canonical result as JSON.                      *)
(***************************************************************************)
EXTENDS Naturals, Sequences, FiniteSetsExt

CONSTANTS
    Targets,       \* files a tool names
    Sizes,         \* sizes of a payload
    ToolCap, ErrorCap, TextCap,   \* max_tool_result_chars, max_error_chars, max_assistant_chars
    Recent,        \* protect_recent_messages
    MaxTracked,    \* MAX_TRACKED_TARGETS
    Enabled,       \* values of the master switch
    MaxLength,     \* bound on the conversation
    MaxTexts       \* bound on the texts in it

CapsOrdered == ToolCap <= ErrorCap

VARIABLES
    history,   \* the conversation
    enabled,   \* orchestration.compaction.enabled
    forms      \* how the last request carried each message of it

vars == <<history, enabled, forms>>

Init == history = <<>> /\ enabled \in Enabled /\ forms = <<>>

Text(role, size, mentions, restates) ==
    [role |-> role, size |-> size, mentions |-> mentions, restates |-> restates]
Call(tool, target) == [role |-> "call", tool |-> tool, target |-> target]
Result(tool, target, success, size) ==
    [role |-> "tool", tool |-> tool, target |-> target, success |-> success, size |-> size]

\* identity_of: the tool and the arguments of the call a result answers.
Identity(m) == <<m.tool, m.target>>
IsObservation(m) == m.role = "tool" /\ m.tool # "edit"

\* is_failed_result, embedded_failure: a result whose content is JSON, whatever
\* the content says. A bounded payload is no longer JSON.
IsFailed(m, form) == m.role = "tool" /\ form = "whole"

CapOf(m) ==
    CASE m.role = "tool" -> IF IsFailed(m, "whole") THEN ErrorCap ELSE ToolCap
      [] m.role = "assistant" -> TextCap
      [] OTHER -> m.size

\* bound_message: an oversized payload keeps its head and its tail.
Bounded(h) ==
    [i \in DOMAIN h |-> IF h[i].role # "call" /\ h[i].size > CapOf(h[i]) THEN "bounded" ELSE "whole"]

\* The first message collapsing leaves alone.
ProtectFrom(h) == (IF Len(h) > Recent THEN Len(h) - Recent ELSE 0) + 1

Counted(h, f) == {i \in DOMAIN h : IsObservation(h[i]) /\ ~IsFailed(h[i], f[i])}

\* Mutant: the tracker starts over when it is full.
TrackedCleared(h, f) ==
    LET Before(i) == Cardinality({Identity(h[j]) : j \in {k \in Counted(h, f) : k < i}})
        full == {i \in Counted(h, f) : Before(i) >= MaxTracked}
    IN  IF full = {} THEN Counted(h, f) ELSE {i \in Counted(h, f) : i >= Min(full)}

\* The occurrences the scan sees before it stops at its limit.
Tracked(h, f) ==
    LET counted == Counted(h, f) IN
    {i \in counted : Cardinality({Identity(h[j]) : j \in {k \in counted : k < i}}) < MaxTracked}

\* Mutant: onto the first occurrence.
RepeatedFirst(h, f) ==
    LET tracked == Tracked(h, f)
        Same(i) == {j \in tracked : Identity(h[j]) = Identity(h[i])}
    IN  {i \in 1..(ProtectFrom(h) - 1) : h[i].role = "tool" /\ Cardinality(Same(i)) > 1 /\ i > Min(Same(i))}

\* collapse_repeats: every result of the call before its newest tracked one.
Repeated(h, f) ==
    LET tracked == Tracked(h, f)
        Same(i) == {j \in tracked : Identity(h[j]) = Identity(h[i])}
    IN  {i \in 1..(ProtectFrom(h) - 1) : h[i].role = "tool" /\ Cardinality(Same(i)) > 1 /\ i < Max(Same(i))}

\* call_path: the tool and its `path` argument; an edit names its `file`.
CallPath(m) == IF m.tool = "edit" THEN {} ELSE {Identity(m)}

\* collapse_superseded: observations of a path whose newest observation comes
\* after its newest edit.
Superseded(h, f) ==
    LET Calls(path, edits) == {k \in DOMAIN h : h[k].role = "call" /\ (h[k].tool = "edit") = edits /\ path \in CallPath(h[k])}
    IN  {i \in DOMAIN h : i < ProtectFrom(h) /\ IsObservation(h[i]) /\ ~IsFailed(h[i], f[i]) /\
            \E path \in CallPath(h[i]) :
                /\ Calls(path, TRUE) # {} /\ Calls(path, FALSE) # {}
                /\ Max(Calls(path, FALSE)) > Max(Calls(path, TRUE)) /\ i # Max(Calls(path, FALSE))}

\* replace_canonical: an older text, still too long, that mentions a reference.
Replaced(h, f) ==
    {i \in DOMAIN h : i < ProtectFrom(h) /\ h[i].role \in {"user", "assistant"} /\
        h[i].mentions /\ f[i] = "whole" /\ h[i].size > TextCap}

\* reduce: the passes in their order.
Reduce(h) ==
    LET bounded == Bounded(h)
        repeated == Repeated(h, bounded)
        collapsed == [i \in DOMAIN h |-> IF i \in repeated THEN "repeat" ELSE bounded[i]]
        superseded == Superseded(h, collapsed)
        current == [i \in DOMAIN h |-> IF i \in superseded THEN "superseded" ELSE collapsed[i]]
        replaced == Replaced(h, current)
    IN  [i \in DOMAIN h |-> IF i \in replaced THEN "reference" ELSE current[i]]

-----------------------------------------------------------------------------
\* The conversation grows and the next request projects it: reduction runs
\* whatever the policy's switch and thresholds say.
Grow(messages) ==
    /\ Len(history) + Len(messages) <= MaxLength
    /\ Cardinality({i \in DOMAIN history : history[i].role \in {"user", "assistant"}}) < MaxTexts
       \/ messages[1].role = "call"
    /\ history' = history \o messages
    /\ forms' = Reduce(history')
    /\ UNCHANGED enabled

Ask == \E size \in Sizes, mentions, restates \in BOOLEAN :
    (restates => mentions) /\ Grow(<<Text("user", size, mentions, restates)>>)
Reply == \E size \in Sizes, mentions \in BOOLEAN : Grow(<<Text("assistant", size, mentions, FALSE)>>)
Observe == \E target \in Targets, success \in BOOLEAN, size \in Sizes :
    Grow(<<Call("read", target), Result("read", target, success, size)>>)
Edit == \E target \in Targets : Grow(<<Call("edit", target), Result("edit", target, TRUE, 1)>>)

Next == Ask \/ Reply \/ Observe \/ Edit

Spec == Init /\ [][Next]_vars

-----------------------------------------------------------------------------
\* A result that gave way to a repeat has a later one of the same call that the
\* request still carries.
CollapsedHaveASurvivor ==
    \A i \in DOMAIN forms : forms[i] = "repeat" =>
        \E j \in DOMAIN forms : j > i /\ history[j].role = "tool"
            /\ Identity(history[j]) = Identity(history[i]) /\ forms[j] \in {"whole", "bounded"}

\* What one request gave up the next one does not bring back.
ReductionsStay ==
    [][\A i \in DOMAIN forms :
        forms[i] # "whole" => forms'[i] # "whole" /\ (forms[i] \in {"repeat", "reference"} => forms'[i] = forms[i])]_vars

\* A failure is never collapsed away.
FailuresStay == \A i \in DOMAIN forms : forms[i] = "repeat" => history[i].success

\* Of two results of the same call that both succeeded, the older is collapsed
\* once it is not recent.
RepeatsAreCollapsed ==
    \A i, j \in DOMAIN forms :
        (i < j /\ i < ProtectFrom(history) /\ IsObservation(history[i]) /\ IsObservation(history[j])
            /\ Identity(history[i]) = Identity(history[j]) /\ history[i].success /\ history[j].success)
        => forms[i] = "repeat"

\* What collapses as a repeat is what its survivor says: no edit lies between.
RepeatsAreIdentical ==
    \A i \in DOMAIN forms : forms[i] = "repeat" =>
        \E j \in DOMAIN forms : j > i /\ history[j].role = "tool" /\ Identity(history[j]) = Identity(history[i])
            /\ ~\E k \in i..j : history[k].role = "call" /\ history[k].tool = "edit" /\ history[k].target = history[i].target

\* A read before an edit and a newer read of the file is collapsed once it is
\* not recent.
EditsSupersede ==
    \A i, e, j \in DOMAIN forms :
        (i < e /\ e < j /\ i < ProtectFrom(history) /\ IsObservation(history[i]) /\ IsObservation(history[j])
            /\ history[e].role = "tool" /\ history[e].tool = "edit"
            /\ history[i].success /\ history[j].success
            /\ Cardinality({history[k].target : k \in {i, e, j}}) = 1)
        => forms[i] \in {"repeat", "superseded"}

\* Only a text that merely restates a canonical fact gives way to a reference.
ReplacedAreRestatements == \A i \in DOMAIN forms : forms[i] = "reference" => history[i].restates

\* With compaction switched off the conversation is sent verbatim.
DisabledIsVerbatim == ~enabled => \A i \in DOMAIN forms : forms[i] = "whole"
=============================================================================
