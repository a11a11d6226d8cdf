------------------------------ MODULE Compaction ------------------------------
(***************************************************************************)
(* What one Attempt's provider requests carry of its conversation          *)
(* (compaction/projection.rs, compaction/tail.rs, provider_context.rs): the*)
(* whole of it, or a summary and the turns after it. The conversation was  *)
(* frozen with the Call; the Call is dispatched again after a restart, when*)
(* the policy and the canonical state block may have changed, and the model*)
(* that writes a summary may answer with something unusable. A message is  *)
(* its role and its size; a summary is the set of the messages it was      *)
(* written from.                                                           *)
(***************************************************************************)
EXTENDS Naturals, Sequences, FiniteSetsExt

CONSTANTS
    Conversations,   \* conversations a Call may carry: sequences of messages
    Caps,            \* absolute_compact_tokens an operator may configure, 0 for none
    TailBudgets,     \* tail budgets an operator may configure
    MaxTurns,        \* tail.max_turns
    SummarySizes,    \* sizes of a summary
    MaxBlock,        \* bound on the canonical block
    MaxPoints        \* MAX_COMPACTION_POINTS

\* A conversation begins with a question.
CompactionAssumption ==
    /\ \A h \in Conversations :
          h \in Seq([role : {"user", "assistant"}, size : Nat]) /\ (h # <<>> => h[1].role = "user")
    /\ MaxPoints \in Nat \ {0}

VARIABLES
    history,   \* the conversation as the Call froze it
    points,    \* the Attempt's durable points, in the order of their positions
    cap, tailBudget, block,
    pending,   \* the point whose summary is being written, or None
    sent,      \* the last request: how it was made, its summary, its messages, their number
    settled    \* nothing has changed since a point was recorded

vars == <<history, points, cap, tailBudget, block, pending, sent, settled>>
None == [through |-> 0, covers |-> {}, size |-> 0]

Init ==
    /\ history \in Conversations
    /\ points = {} /\ pending = None /\ settled = FALSE
    /\ cap \in Caps /\ tailBudget \in TailBudgets /\ block = 0
    /\ sent = [how |-> "none", covers |-> {}, verbatim |-> {}, length |-> 0]

Positions == 1..Len(history)
After(position) == (position + 1)..Len(history)
Tokens(span) == SumFunctionOnSet([i \in Positions |-> history[i].size], span)

\* Context::active_point: the newest point whose positions the history has.
ActivePoint(known) ==
    LET applies == {p \in known : p.through <= Len(history)}
    IN  IF applies = {} THEN None ELSE CHOOSE p \in applies : \A q \in applies : q.through <= p.through

\* Context::project: the block, the summary, and what follows it.
Projected(p) == block + p.size + Tokens(After(p.through))

\* decide, for a path no provider window is known to: the absolute cap alone.
Required(p) == cap > 0 /\ Projected(p) >= cap

-----------------------------------------------------------------------------
\* Mutant: a tail starts at any message.
TurnStartsAnywhere(from) == After(from)

\* turns: a turn starts at a user message; without one there is one turn.
TurnStarts(from) ==
    LET users == {i \in After(from) : history[i].role = "user"}
    IN  IF users = {} /\ After(from) # {} THEN {from + 1} ELSE users

\* select_tail: the newest whole turns that fit the budget together.
SelectTail(from) ==
    LET starts == TurnStarts(from)
        considered == {s \in starts : Cardinality({t \in starts : t >= s}) <= MaxTurns}
        fitting == {s \in considered : Tokens(s..Len(history)) <= tailBudget}
    IN  IF fitting = {} \/ tailBudget = 0 THEN Len(history) + 1 ELSE Min(fitting)

\* Mutant: the previous summary is left out of the next one.
PlannedAlone(active) ==
    LET through == SelectTail(active.through) - 1
    IN  [through |-> through, covers |-> (active.through + 1)..through, size |-> 0]

\* Context::plan: the messages since the last point and its summary, together.
Planned(active) ==
    LET through == SelectTail(active.through) - 1
    IN  [through |-> through,
         covers |-> active.covers \cup ((active.through + 1)..through), size |-> 0]

Send(how, p, verbatim) == sent' = [how |-> how, covers |-> p.covers, verbatim |-> verbatim, length |-> Len(history)]

\* compact_conversation up to the summarizing call. A plan that would cover
\* nothing new is an error, and the conversation goes out as assembled.
Assemble ==
    /\ pending = None
    /\ LET active == ActivePoint(points) plan == Planned(active) IN
       IF ~Required(active)
       THEN Send("projected", active, After(active.through)) /\ UNCHANGED pending
       ELSE IF plan.through <= active.through
       THEN Send("assembled", None, Positions) /\ UNCHANGED pending
       ELSE pending' = plan /\ UNCHANGED sent
    /\ UNCHANGED <<history, points, cap, tailBudget, block, settled>>

\* Mutant: the oldest points stay.
RecordedOldest(p) ==
    LET all == points \cup {p} IN {q \in all : Cardinality({r \in all : r.through < q.through}) < MaxPoints}

\* record_compaction_point: the newest few.
Recorded(p) ==
    LET all == points \cup {p} IN {q \in all : Cardinality({r \in all : r.through > q.through}) < MaxPoints}

\* keep_whole: the two halves of the transcript the summary was to be made of.
KeepWhole == Send("kept", None, After(ActivePoint(points).through)) /\ UNCHANGED <<points, settled>>

\* Mutant: a point is recorded whether it resolves the overflow or not.
SummarizedUnmeasured(size) ==
    /\ pending # None
    /\ LET accepted == [pending EXCEPT !.size = size] IN
       /\ Send("projected", accepted, After(accepted.through))
       /\ points' = Recorded(accepted) /\ settled' = TRUE
    /\ pending' = None
    /\ UNCHANGED <<history, cap, tailBudget, block>>

\* A summary was accepted: it is used, and recorded, when the projection it
\* makes fits.
Summarized(size) ==
    /\ pending # None
    /\ LET accepted == [pending EXCEPT !.size = size] IN
       IF Required(accepted) THEN KeepWhole
       ELSE /\ Send("projected", accepted, After(accepted.through))
            /\ points' = Recorded(accepted) /\ settled' = TRUE
    /\ pending' = None
    /\ UNCHANGED <<history, cap, tailBudget, block>>

\* No answer, an empty one, one without its sections, too long, or without a
\* canonical reference.
Rejected ==
    /\ pending # None /\ KeepWhole /\ pending' = None
    /\ UNCHANGED <<history, cap, tailBudget, block>>

-----------------------------------------------------------------------------
\* Between two dispatches: the canonical state grows, an operator edits the policy.
StateGrows ==
    /\ pending = None /\ block < MaxBlock /\ block' = block + 1 /\ settled' = FALSE
    /\ UNCHANGED <<history, points, cap, tailBudget, pending, sent>>

Reconfigure ==
    /\ pending = None /\ cap' \in Caps /\ tailBudget' \in TailBudgets
    /\ <<cap', tailBudget'>> # <<cap, tailBudget>> /\ settled' = FALSE
    /\ UNCHANGED <<history, points, block, pending, sent>>

Next ==
    \/ Assemble \/ Rejected \/ StateGrows \/ Reconfigure
    \/ \E size \in SummarySizes : Summarized(size)

Spec == Init /\ [][Next]_vars

-----------------------------------------------------------------------------
\* What a request says of the conversation is all of it: each message is there
\* or is one its summary was written from. A summary replaces the one before
\* it, so that it must have been made from it.
RequestsCoverHistory ==
    sent.how # "kept" => sent.covers \cup sent.verbatim = 1..sent.length

\* A reply is never sent without the question it answers.
RepliesHaveTheirQuestion ==
    \A i \in sent.verbatim : history[i].role = "assistant" => i - 1 \in sent.verbatim

\* A recorded point resolves what it was made for: until something changes, no
\* further request of the Attempt asks for another summary.
NoSummaryLoop == settled => ~Required(ActivePoint(points))

\* The point just recorded is the one the Attempt's next request stands on, as
\* many as came before it, and it stands for everything before it.
RecordedPointsGovern ==
    settled => LET active == ActivePoint(points) IN
        active.covers = sent.covers /\ active.covers = 1..active.through

\* Whatever is summarized, a request says all of the conversation, no reply lacks
\* its question and a point once made is the one that counts. A request whose summary
\* was rejected is excepted: beside an active point it lacks what that stood for.
CompactionLosesNothing ==
    RequestsCoverHistory /\ RepliesHaveTheirQuestion /\ NoSummaryLoop /\ RecordedPointsGovern

\* Refuted: a conversation kept because no summary stands in for it is all there.
KeptIsWhole == sent.how = "kept" => sent.verbatim = 1..sent.length
=============================================================================
