\* A chat turn and a plain turn on lanes of capacity one, or the chat turn with a tool Call,
\* a replacement and one exit of the process, under fair threads.
CONSTANTS
    Jobs = {j1, j2}
    Calls = {c1, c2, t1}
    Keys = {}
    Responses = {r1}
    MaxGeneration = 2
    NoAttempt = NoAttempt
    NoResponse = NoResponse
    Capacity = 1
    MaxRounds = 1
    MaxExits = 1
    TurnCalls = {c1, c2}
    ChatJobs = {j1}
    NoCall = NoCall
SPECIFICATION DispatchSpec
ACTION_CONSTRAINT Followed
\* A turn that ended and a joined runtime leave nothing to do.
CHECK_DEADLOCK FALSE
PROPERTIES
    TurnsEnd
    StopJoins
