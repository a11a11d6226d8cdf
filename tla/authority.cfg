\* One Job with two Calls, or with three generations and two different results of one
\* Call, late, twice or out of order.
CONSTANTS
    Jobs = {j1}
    Calls = {c1, c2}
    Keys = {}
    Responses = {r1, r2}
    MaxGeneration = 3
    NoAttempt = NoAttempt
    NoResponse = NoResponse
SPECIFICATION Spec
SYMMETRY Symmetry
ACTION_CONSTRAINT Followed
\* Every Job may be finished, with nothing left to do.
CHECK_DEADLOCK FALSE
INVARIANTS
    TypeOK
    SoleAuthority
    JobFollowsLatestAttempt
    EndedAttemptsHoldNoWork
    OpenIntentMatchesCall
    CompletedWorkIsSettled
PROPERTY
    OutcomesAreFinal
