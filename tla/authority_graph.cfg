\* Three Jobs with every dependency graph between them, spawned children and a bound
\* session, without Calls.
CONSTANTS
    Jobs = {j1, j2, j3}
    Calls = {}
    Keys = {k1}
    Responses = {}
    MaxGeneration = 2
    NoAttempt = NoAttempt
    NoResponse = NoResponse
SPECIFICATION Spec
SYMMETRY Symmetry
\* Every Job may be finished, with nothing left to do.
CHECK_DEADLOCK FALSE
INVARIANTS
    PrerequisitesHeld
    AcyclicDependencies
