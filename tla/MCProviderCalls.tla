---------------------------- MODULE MCProviderCalls ----------------------------
(***************************************************************************)
(* What one provider Call goes through, each component on its own          *)
(* instance: the request is budgeted, reduced, compacted and governed; the *)
(* answer is decoded, repaired and its tool answered.  part says which of  *)
(* them a behaviour is about.                                              *)
(***************************************************************************)
EXTENDS ProviderCalls, Sequences, TLC

VARIABLES
    part,
    messages, enabled, forms,
    config, files, clock, saving, accepted, decisions

-----------------------------------------------------------------------------
\* Windows, limits and policies: absent, small, and over each other.
SmallLimits == [context : {0, 6, 10}, input : {0, 8}, output : {0, 3, 8}, reasoning : {0, 9}]
SmallPolicies ==
    {[enabled |-> t[1] < 60, reducePercent |-> t[1], compactPercent |-> t[2], absoluteCompact |-> most,
      responseReserve |-> response, reasoningReserve |-> reasoning, safetyBuffer |-> 2, assumedPercent |-> 40] :
        t \in {<<50, 60>>, <<60, 80>>, <<50, 50>>}, most \in {0, 5}, response \in {0, 4}, reasoning \in {0, 3}}

\* Conversations of up to four turns, one of them long, one of them unanswered.
User(size) == [role |-> "user", size |-> size]
Reply(size) == [role |-> "assistant", size |-> size]
Turns4 == [1..4 -> {1, 3}]
SmallConversations ==
    {<<User(t[1]), Reply(1), User(t[2]), Reply(t[3]), User(t[4])>> : t \in Turns4}
    \cup {<<User(t[1]), Reply(t[2]), User(1), Reply(1), User(t[3]), Reply(1), User(t[4])>> : t \in Turns4}
    \cup {<<User(t[1]), User(t[2]), Reply(t[3]), User(1), Reply(1), User(t[4])>> : t \in Turns4}
    \cup {<<User(t[1])>> : t \in Turns4}
ASSUME Compact!CompactionAssumption

\* Payloads within every bound and over each.
Reduction == INSTANCE ContextReduction WITH
    history <- messages,
    Targets <- {"f", "g"}, Sizes <- {1, 3}, ToolCap <- 1, ErrorCap <- 2, TextCap <- 2, Recent <- 1,
    MaxTracked <- 2, Enabled <- {TRUE}, MaxLength <- 8, MaxTexts <- 1
ASSUME Reduction!CapsOrdered

\* Policies with the thresholds in and out of order, and counts around them.
Unset == 1000
Actions == {[normal |-> "continue", approaching |-> "warn", rollover_required |-> "rollover", unknown |-> u] :
               u \in {"warn", "rollover"}}
JudgedPolicies == {[enabled |-> on, approaching |-> most, rollover |-> 80, cap |-> limit, actions |-> x] :
                      on \in BOOLEAN, most \in {70, 80}, limit \in {Unset, 9}, x \in Actions}
Reports == {[input |-> i, read |-> r] : i \in {6, 7, 8, 15, Unset}, r \in {0, 1, Unset}}
Governor == INSTANCE ContextGovernor WITH
    Configs <- JudgedPolicies, Usages <- Reports, ContextLimits <- {0, 10, 1000}, MaxWord <- 15,
    MaxFiles <- 2, Events <- 1..3, MaxClock <- 4
TheConfig == CHOOSE c \in JudgedPolicies : Governor!Valid(c) /\ c.enabled /\ c.cap = Unset

\* Two tool calls in the order their fragments arrive, cut off anywhere.
ASSUME Round!RoundAssumption

\* filesystem.edit and filesystem.search with the fields and the aliases that matter, and
\* names of every kind: exact, the wire names (which fold), aliases, and names two answer to.
EditTool == [wire |-> "edit_", required |-> {"file", "operation"}, optional |-> {}, target |-> "file",
             aliases |-> [f \in {"path", "filename"} |-> "file"]]
SearchTool == [wire |-> "search_", required |-> {"query"}, optional |-> {"path"}, target |-> "path",
               aliases |-> [f \in {"pattern"} |-> "query"]]
Naming(exact, alias, folded) == [exact |-> exact, alias |-> alias, folded |-> folded]
EveryName ==
    ("edit" :> Naming({"edit"}, {}, {"edit"})) @@ ("search" :> Naming({"search"}, {}, {"search"}))
        @@ ("patch" :> Naming({}, {"edit"}, {"edit"})) @@ ("search_" :> Naming({}, {}, {"search"}))
        @@ ("edit_" :> Naming({}, {}, {"edit"}))
        @@ ("open" :> Naming({}, {"edit", "search"}, {"edit", "search"})) @@ ("OPEN" :> Naming({}, {}, {"edit", "search"}))
Arguments(fields, values) == UNION {[fs -> values] : fs \in SUBSET fields}
AnyArguments ==
    {[f \in {"operation"} |-> "x"] @@ given2 : given2 \in Arguments({"file", "path"}, {"x", "null"})}
        \cup Arguments({"query", "path"}, {"x", "null", "bad"})
TwoTools == [edit |-> EditTool, search |-> SearchTool]
ASSUME Recovery!RecoveryAssumption

\* Texts around the caps, of characters that escape and that do not.
Rep(c, n) == [i \in 1..n |-> c]
TextsAround == UNION {{Rep(c, n) : c \in {"p", "q", "b", "c"}} : n \in {0, 1, 4, 5, 12, 16, 24, 32, 33}}
DirectoriesAround == {<<>>, <<6, 6>>, <<10, 10, 10>>, <<14, 14, 14>>, <<32>>, <<33>>, <<8, 8, 8, 8, 8>>}
ASSUME Answers!AnswersAssumption
ASSUME \A t \in {Rep(c, n) : c \in {"p", "q", "b", "c"}, n \in 0..5} : Answers!EscapedSize(t) = Len(Answers!Escaped(t))
-----------------------------------------------------------------------------
compactVars  == <<history, points, cap, tailBudget, block, pending, request, compacted>>
reduceVars   == <<messages, enabled, forms>>
governorVars == <<config, files, clock, saving, accepted, decisions>>
roundVars    == <<protocol, sent, open, ordinal, usage, reason, failed, closed, calls, status>>
recoveryVars == <<admitted, last>>
answerVars   == <<tool, given, granted, cancelled, phase, effect, result, settled>>
requestVars  == <<vars, compactVars, reduceVars, governorVars>>
replyVars    == <<roundVars, recoveryVars, answerVars>>
allVars == <<part, requestVars, replyVars>>

Parts == {"budget", "compaction", "reduction", "judging", "storing", "round", "recovery", "answer"}

AnyLimits == CHOOSE l \in Limits : TRUE
AnyPolicy == CHOOSE p \in Policies : Valid(p)

\* A component that a behaviour is not about stays in one of its initial states.
PartInit ==
    /\ part \in Parts
    /\ Init /\ (part = "budget" \/ (limits = AnyLimits /\ policy = AnyPolicy))
    /\ Compact!Init /\ (part = "compaction" \/ (Len(history) = 1 /\ history[1].size = 1 /\ cap = 0 /\ tailBudget = 1))
    /\ Reduction!Init
    /\ Governor!Init /\ (part = "judging" \/ config = TheConfig)
    /\ Round!Init /\ (part = "round" \/ protocol = "openai")
    /\ Recovery!Init
    /\ Answers!Init /\ (part = "answer" \/ (tool = "read" /\ given = <<>> /\ granted = [permission |-> TRUE, capability |-> TRUE]))

PartNext ==
    \/ /\ part = "budget" /\ Next
       /\ UNCHANGED <<part, compactVars, reduceVars, governorVars, replyVars>>
    \/ /\ part = "compaction" /\ Compact!Next
       /\ UNCHANGED <<part, vars, reduceVars, governorVars, replyVars>>
    \/ /\ part = "reduction" /\ Reduction!Next
       /\ UNCHANGED <<part, vars, compactVars, governorVars, replyVars>>
    \/ /\ part = "judging" /\ (\E o \in Governor!Observations : Governor!Judge(o))
       /\ UNCHANGED <<part, vars, compactVars, reduceVars, replyVars>>
    \/ /\ part = "storing"
       /\ \/ \E e \in 1..3, o \in Governor!Stored : Governor!Save(e, o)
          \/ Governor!Prune \/ Governor!Crash \/ Governor!Tick
       /\ UNCHANGED <<part, vars, compactVars, reduceVars, replyVars>>
    \/ /\ part = "round" /\ Round!Next
       /\ UNCHANGED <<part, requestVars, recoveryVars, answerVars>>
    \/ /\ part = "recovery" /\ Recovery!Next
       /\ UNCHANGED <<part, requestVars, roundVars, answerVars>>
    \/ /\ part = "answer" /\ Answers!Next
       /\ UNCHANGED <<part, requestVars, roundVars, recoveryVars>>

PartSpec == PartInit /\ [][PartNext]_allVars
-----------------------------------------------------------------------------
\* Properties of the components that are only model-checked.

\* More context in use never makes a band milder, a rollover rests on counts that are
\* known, and a stored observation is there and never replaced (context_governor.rs,
\* automatic_context.rs).
BandsRestOnEvidence ==
    /\ [](part = "judging" => /\ Governor!BandsAreMonotone
                              /\ Governor!RolloversHaveEvidence /\ Governor!NormalHasALimit)
    /\ [](part = "storing" => Governor!SavedIsStored)
    /\ Governor!EventsKeepTheirPayload
    /\ BandsAreMonotone

\* A result that gave way to a repeat has a survivor in the request, and what a request
\* gave up the next one does not bring back (context_reducer.rs).
ReductionsHaveASurvivor ==
    [](part = "reduction" => Reduction!CollapsedHaveASurvivor) /\ Reduction!ReductionsStay
=============================================================================
