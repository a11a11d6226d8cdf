\* Every component of the control process on the instance its module names.
CONSTANTS
    c1 = c1
    c2 = c2
    p1 = p1
    r1 = r1
    r2 = r2
    t1 = t1
    t2 = t2
    q1 = q1
    q2 = q2
    e1 = e1
    e2 = e2
    k1 = k1
    k2 = k2
    Commands = {c1, c2, p1}
    ChatCommands = {c1, c2}
    Contents = {r1, r2}
    MaxJobs = 3
    MaxCrashes = 2
    NoLaunch = NoLaunch
    NoTurn = NoTurn
    NoRow = NoRow
    Threads = {t1, t2}
    Projects = {q1, q2}
    Legacies <- SomeLegacies
    MaxCommands = 3
    Conns = {k1, k2}
    Script <- QuietRound
    MaxBreaks = 2
SPECIFICATION PartSpec
ACTION_CONSTRAINT FollowedNext
\* Every launch may be answered, every connection closed.
CHECK_DEADLOCK FALSE
INVARIANTS
    CommandsRunOnce
    SessionsStayCoherent
    StreamsAreWhole
    ConfigurationIsDurable
PROPERTIES
    SecretsStayWithTheirProfile
