\* Two turns, of which the restart recovers only the first when a lane refuses it.
CONSTANTS
    Jobs = {j1, j2}
    Calls = {c1, c2}
    Keys = {}
    Responses = {r1}
    MaxGeneration = 2
    NoAttempt = NoAttempt
    NoResponse = NoResponse
    Capacity = 1
    MaxRounds = 2
    MaxExits = 1
    TurnCalls = {c1, c2}
    ChatJobs = {j1}
    NoCall = NoCall
SPECIFICATION DispatchSpec
\* A turn that ended and a joined runtime leave nothing to do.
CHECK_DEADLOCK FALSE
INVARIANT SafeIntentsAreRequeued
