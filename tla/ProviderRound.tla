----------------------------- MODULE ProviderRound -----------------------------
(***************************************************************************)
(* What a round makes of a provider's events, in either protocol: the       *)
(* Anthropic decoder (anthropic/stream.rs) and the chat-completion fold of  *)
(* provider_loop.rs, over the summary of openai_compatible/stream.rs, and   *)
(* what the provider loop takes from a finished round. Providers interleave *)
(* the fragments of their tool calls, repeat metadata, fail midway, and the *)
(* connection may end at any event. Fragments are "p" and "q"; a call's     *)
(* arguments are a JSON object when they are <<"p", "q">>.                  *)
(***************************************************************************)
EXTENDS Naturals, Sequences

CONSTANTS
    Protocols,   \* of "anthropic" and "openai"
    Indices,     \* content block indices, or tool_calls indices
    MaxEvents    \* bound on the events of a round

RoundAssumption == Protocols \subseteq {"anthropic", "openai"}

None == "none"   \* no stop reason
Unset == 0       \* no count, no id
EmptyObject == <<"{}">>
NoCalls == [i \in {} |-> Unset]

VARIABLES
    protocol,
    sent,      \* history: the events the provider sent
    open,      \* AnthropicStreamState.blocks, and for "openai" the call of each index
    ordinal,   \* next_tool_index
    usage, reason, failed, closed,   \* the decoder's
    calls,     \* ChatStreamSummary.tool_calls: index -> id, arguments
    status     \* "reading", "failed", or what the round is: "answer", "tools", "refused"

vars == <<protocol, sent, open, ordinal, usage, reason, failed, closed, calls, status>>
decoder == <<usage, reason, failed, closed>>

Init ==
    /\ protocol \in Protocols /\ sent = <<>> /\ open = NoCalls /\ ordinal = 0
    /\ usage = [input |-> Unset, output |-> Unset] /\ reason = None
    /\ failed = FALSE /\ closed = FALSE /\ calls = NoCalls /\ status = "reading"

-----------------------------------------------------------------------------
\* ChatStreamSummary::apply, of the tool call events.
Slot(cs, i) == IF i \in DOMAIN cs THEN cs[i] ELSE [id |-> Unset, arguments |-> <<>>]
Put(f, i, v) == [k \in DOMAIN f \cup {i} |-> IF k = i THEN v ELSE f[k]]

\* Mutant: repeated metadata starts the call again.
StartedAfresh(cs, i, id) == Put(cs, i, [id |-> id, arguments |-> <<>>])

\* Only a different call at the index replaces what has accumulated.
Started(cs, i, id) ==
    LET slot == Slot(cs, i) IN
    Put(cs, i, [id |-> id, arguments |-> IF slot.id \notin {Unset, id} THEN <<>> ELSE slot.arguments])

Extended(cs, i, id, fragment) ==
    LET slot == Slot(cs, i) IN
    Put(cs, i, [id |-> IF slot.id = Unset THEN id ELSE slot.id, arguments |-> Append(slot.arguments, fragment)])

Completed(cs, i, id, arguments) == Put(cs, i, [id |-> id, arguments |-> arguments])

Send(e) == status = "reading" /\ ~closed /\ Len(sent) < MaxEvents /\ sent' = Append(sent, e)

-----------------------------------------------------------------------------
(* Anthropic Messages. *)

\* message_start states the input, message_delta the output and perhaps more.
\* Mutant: the later statement replaces the earlier one.
MergedLast(old, new) == new
Merged(old, new) == [c \in DOMAIN old |-> IF new[c] = Unset THEN old[c] ELSE new[c]]

MessageUsage(u) ==
    /\ protocol = "anthropic" /\ Send([kind |-> "usage", usage |-> u])
    /\ usage' = IF sent = <<>> THEN u ELSE Merged(usage, u)
    /\ UNCHANGED <<protocol, open, ordinal, reason, failed, closed, calls, status>>

MessageReason(r) ==
    /\ protocol = "anthropic" /\ Send([kind |-> "reason", reason |-> r])
    /\ reason' = r
    /\ UNCHANGED <<protocol, open, ordinal, usage, failed, closed, calls, status>>

\* start_block: block indices count every block, tool indices are dense.
BlockStart(i) ==
    LET id == Len(sent) + 1 IN
    /\ protocol = "anthropic" /\ i \notin DOMAIN open
    /\ Send([kind |-> "start", id |-> id])
    /\ open' = Put(open, i, [tool |-> ordinal, id |-> id, arguments |-> <<>>])
    /\ ordinal' = ordinal + 1
    /\ calls' = Started(calls, ordinal, id)
    /\ UNCHANGED <<protocol, decoder, status>>

\* delta_block: a fragment extends the call its block index names.
BlockDelta(i, fragment) ==
    /\ protocol = "anthropic" /\ i \in DOMAIN open
    /\ Send([kind |-> "fragment", id |-> open[i].id, text |-> fragment])
    /\ open' = [open EXCEPT ![i].arguments = Append(@, fragment)]
    /\ calls' = Extended(calls, open[i].tool, open[i].id, fragment)
    /\ UNCHANGED <<protocol, ordinal, decoder, status>>

BlockStop(i) ==
    /\ protocol = "anthropic" /\ i \in DOMAIN open
    /\ Send([kind |-> "stop", id |-> open[i].id])
    /\ calls' = Completed(calls, open[i].tool, open[i].id,
                          IF open[i].arguments = <<>> THEN EmptyObject ELSE open[i].arguments)
    /\ open' = [k \in DOMAIN open \ {i} |-> open[k]]
    /\ UNCHANGED <<protocol, ordinal, decoder, status>>

\* message_stop, and an error event: both end the read.
MessageStop ==
    /\ protocol = "anthropic" /\ Send([kind |-> "end"])
    /\ closed' = TRUE /\ UNCHANGED <<protocol, open, ordinal, usage, reason, failed, calls, status>>

MessageError ==
    /\ protocol = "anthropic" /\ Send([kind |-> "error"])
    /\ failed' = TRUE /\ closed' = TRUE
    /\ UNCHANGED <<protocol, open, ordinal, usage, reason, calls, status>>

-----------------------------------------------------------------------------
(* Chat completions: a chunk may start a call, extend one, finish or count. *)

\* A chunk names its call by index, and by id when it starts or repeats it.
ChunkCall(i, id, named, fragment) ==
    LET current == IF i \in DOMAIN open THEN open[i] ELSE Unset
        started == IF named THEN Started(calls, i, id) ELSE calls
    IN  /\ protocol = "openai"
        /\ named \/ id = current
        /\ id # current => id \notin {sent[k].id : k \in {j \in DOMAIN sent : sent[j].kind = "fragment"}}
        /\ Send([kind |-> "fragment", id |-> id, text |-> fragment])
        /\ open' = Put(open, i, id)
        /\ calls' = Extended(started, i, IF named THEN id ELSE Unset, fragment)
        /\ UNCHANGED <<protocol, ordinal, decoder, status>>

ChunkFinish(r) ==
    /\ protocol = "openai" /\ Send([kind |-> "reason", reason |-> r])
    /\ reason' = r
    /\ UNCHANGED <<protocol, open, ordinal, usage, failed, closed, calls, status>>

\* The whole statement replaces an earlier one.
ChunkUsage(u) ==
    /\ protocol = "openai" /\ Send([kind |-> "usage", usage |-> u])
    /\ usage' = u
    /\ UNCHANGED <<protocol, open, ordinal, reason, failed, closed, calls, status>>

-----------------------------------------------------------------------------
\* validate_tool_arguments: every call of an Anthropic round is a JSON object.
WholeArguments == \A i \in DOMAIN calls : calls[i].arguments \in {EmptyObject, <<"p", "q">>}

\* Mutant: a message that has stopped is whole.
WholeIfStopped == closed /\ ~failed

\* AnthropicRoundState::finish; a chat completion ends however it ends.
Whole ==
    protocol = "anthropic" => ~failed /\ closed /\ reason # None /\ DOMAIN open = {} /\ WholeArguments

\* Mutant: a round that was cut short is taken like any other.
TakenAlways == IF reason = "stop" \/ calls = NoCalls THEN "answer" ELSE "tools"

\* execute_provider_loop, of a finished round: a round that was stopped at the
\* token limit is no answer, and tools run unless the provider says it stopped
\* (text, without which an answer is refused, is left out).
Taken ==
    IF reason = "length" THEN "refused"
    ELSE IF reason = "stop" \/ calls = NoCalls THEN "answer"
    ELSE "tools"

\* The connection ends, or the decoder closed it.
Finish ==
    /\ status = "reading"
    /\ status' = IF Whole THEN Taken ELSE "failed"
    /\ UNCHANGED <<protocol, sent, open, ordinal, decoder, calls>>

Counts == {[input |-> 1, output |-> Unset], [input |-> Unset, output |-> 2], [input |-> 3, output |-> 4]}
Next ==
    \/ \E u \in Counts : MessageUsage(u) \/ ChunkUsage(u)
    \/ \E r \in {"stop", "length", "tool_calls"} : MessageReason(r) \/ ChunkFinish(r)
    \/ \E i \in Indices : BlockStart(i) \/ BlockStop(i)
    \/ \E i \in Indices, fragment \in {"p", "q"} :
          \/ BlockDelta(i, fragment)
          \/ \E id \in {10, 11, 12}, named \in BOOLEAN : ChunkCall(i, id, named, fragment)
    \/ MessageStop \/ MessageError \/ Finish

Spec == Init /\ [][Next]_vars

-----------------------------------------------------------------------------
Kinds == {sent[k].kind : k \in DOMAIN sent}
Used == status \in {"answer", "tools"}

\* The text is the fragments of a call, each of them once and in the order they came.
Fragments(s, id) == {k \in DOMAIN s : s[k].kind = "fragment" /\ s[k].id = id}
Spells(s, id, text) ==
    \E at \in [DOMAIN text -> Fragments(s, id)] :
        /\ \A j, k \in DOMAIN text : j < k => at[j] < at[k]
        /\ \A f \in Fragments(s, id) : \E k \in DOMAIN text : at[k] = f
        /\ \A k \in DOMAIN text : s[at[k]].text = text[k]

\* However the fragments of several calls interleave, and whatever metadata is
\* repeated, a call's arguments are its own fragments in order.
ArgumentsAreTheirFragments ==
    Used => \A i \in DOMAIN calls :
        \/ Spells(sent, calls[i].id, calls[i].arguments)
        \/ calls[i].arguments = EmptyObject /\ Fragments(sent, calls[i].id) = {}

\* An Anthropic stream that fails or is cut off never becomes a round: whatever
\* is used reached its end, its stop reason and the end of every block.
CutOffStreamsFail ==
    Used /\ protocol = "anthropic" =>
        /\ "end" \in Kinds /\ "error" \notin Kinds /\ "reason" \in Kinds
        /\ \A k \in DOMAIN sent : sent[k].kind = "start" =>
              \E later \in DOMAIN sent : sent[later].kind = "stop" /\ sent[later].id = sent[k].id

\* The input and the output totals arrive apart: each counter of a settled
\* Anthropic round is the last one the provider stated.
Stated(s, c) == {k \in DOMAIN s : s[k].kind = "usage" /\ s[k].usage[c] # Unset}
UsageIsAsStated ==
    Used /\ protocol = "anthropic" => \A c \in {"input", "output"} :
        \/ usage[c] = Unset /\ Stated(sent, c) = {}
        \/ \E last \in Stated(sent, c) :
              usage[c] = sent[last].usage[c] /\ \A k \in Stated(sent, c) : k <= last

\* A round stopped at the token limit is never an answer, and no tool runs from it.
Reasons(s) == {k \in DOMAIN s : s[k].kind = "reason"}
LimitedRoundsAreRefused ==
    Used => ~(\E last \in Reasons(sent) :
                 sent[last].reason = "length" /\ \A k \in Reasons(sent) : k <= last)

\* The tool calls of a round are what the provider sent: whole, in their own
\* fragments, of a round that ended, with the usage it stated.
RoundsAreWhatWasSent ==
    ArgumentsAreTheirFragments /\ CutOffStreamsFail /\ UsageIsAsStated /\ LimitedRoundsAreRefused
=============================================================================
