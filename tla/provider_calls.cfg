\* Every component a provider Call passes on the instance its module names.
CONSTANTS
    Limits <- SmallLimits
    Policies <- SmallPolicies
    MaxTokens = 7
    Assumed = 4
    SlackBp = 2500
    Conversations <- SmallConversations
    Caps = {0, 4, 5, 8}
    TailBudgets = {1, 2, 4, 8}
    MaxTurns = 3
    SummarySizes = {1, 3}
    MaxBlock = 1
    MaxPoints = 2
    Protocols = {"anthropic", "openai"}
    Indices = {0, 1}
    MaxEvents = 4
    Tools <- TwoTools
    NamesOf <- EveryName
    Texts = {"x", "y"}
    Wires = {"plain", "strict"}
    Sendable <- AnyArguments
    MaxCalls = 2
    Cap = 32
    Wrap = 8
    FileTexts <- TextsAround
    Directories <- DirectoriesAround
    NativeTools = {"read", "list", "search", "exec"}
SPECIFICATION PartSpec
\* A round ends and a Call is settled.
CHECK_DEADLOCK FALSE
INVARIANTS
    WindowIsRespected
    CompactionLosesNothing
    RoundsAreWhatWasSent
    RepairsInventNothing
    AnswersTellTheTruth
PROPERTIES
    BandsRestOnEvidence
    ReductionsHaveASurvivor
