\* The registry of Projects and every store of one on the instance its module names.
CONSTANTS
    Nil = Nil
    j1 = j1
    j2 = j2
    k1 = k1
    a = a
    b = b
    s1 = s1
    s2 = s2
    a1 = a1
    a2 = a2
    Roots = {a, b}
    Stores = {s1, s2}
    Home <- AtHome
    MaxIds = 3
    MaxMoves = 2
    Nowhere = Nowhere
    NoRoot = NoRoot
    Idle = Idle
    Files = {1, 2}
    Contents = {0, 1, 2, 3}
    Opaque = {3}
    Limits = {1, 2}
    MaxFiles = 1
    Untracked = TRUE
    MaxEdits = 2
    MaxCommits = 2
    MaxCalls = 2
SPECIFICATION PartSpec
ACTION_CONSTRAINT FollowedNext
\* Moves, observations, appends and calls are bounded.
CHECK_DEADLOCK FALSE
INVARIANTS
    MovedProjectsKeepTheirWork
    ServedContextIsTheRepositorys
PROPERTIES
    ReadersSeeTheHistory
    EvidenceIsKept
    StateKeepsWhatWritersRead
