\* One chat turn of two rounds with a tool, cancelled, stopped and restarted at any step.
CONSTANTS
    Jobs = {j1}
    Calls = {c1, c2}
    Keys = {}
    Responses = {r1}
    MaxGeneration = 2
    NoAttempt = NoAttempt
    NoResponse = NoResponse
    Capacity = 1
    MaxRounds = 2
    MaxExits = 1
    TurnCalls = {c1}
    ChatJobs = {j1}
    NoCall = NoCall
SPECIFICATION DispatchSpec
\* A turn that ended and a joined runtime leave nothing to do.
CHECK_DEADLOCK FALSE
INVARIANTS
    NoTurnForgotten
    OneOwner
    BegunEffectsAreRecorded
PROPERTY
    Spec
