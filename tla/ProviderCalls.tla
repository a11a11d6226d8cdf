----------------------------- MODULE ProviderCalls -----------------------------
(***************************************************************************)
(* What one provider Call passes, each component over variables of its own *)
(* and for any values of its constants: the request is budgeted and        *)
(* compacted, the answer decoded, its calls repaired and answered. What is *)
(* promised of each of them has its name here.                             *)
(***************************************************************************)
EXTENDS ContextBudget

CONSTANTS
    Conversations, Caps, TailBudgets, MaxTurns, SummarySizes, MaxBlock, MaxPoints,
    Protocols, Indices, MaxEvents,
    Tools, NamesOf, Texts, Wires, Sendable, MaxCalls,
    Cap, Wrap, FileTexts, Directories, NativeTools

VARIABLES
    history, points, cap, tailBudget, block, pending, request, compacted,
    protocol, sent, open, ordinal, usage, reason, failed, closed, calls, status,
    admitted, last,
    tool, given, granted, cancelled, phase, effect, result, settled

Compact == INSTANCE Compaction WITH sent <- request, settled <- compacted
Round == INSTANCE ProviderRound
Recovery == INSTANCE CallRecovery WITH calls <- admitted
Answers == INSTANCE ToolAnswers WITH Texts <- FileTexts, Tools <- NativeTools

\* Whatever is summarized, a request says all of the conversation, no reply lacks its
\* question and a point once made is the one that counts (compaction.rs); excepted is the
\* request whose summary was rejected: Compaction's KeptIsWhole is refuted.
CompactionLosesNothing == Compact!CompactionLosesNothing

\* The tool calls of a round are what the provider sent: whole, in their own fragments, of
\* a round that ended, with the usage it stated (provider_protocol.rs, wire).
RoundsAreWhatWasSent == Round!RoundsAreWhatWasSent

\* What recovery lets a tool run is a valid call of the one tool that was named, with
\* nothing the model or its Attempt did not say; a name that was substituted is held to the
\* strict schema (call_recovery.rs, provider_loop.rs, openai_projection.rs).
RepairsInventNothing == Recovery!RepairsInventNothing

\* An answer says that it was cut, a page is never passed for a preview, and an effect that
\* happened is never denied (native_tools.rs, process.rs).
AnswersTellTheTruth == Answers!AnswersTellTheTruth
=============================================================================
