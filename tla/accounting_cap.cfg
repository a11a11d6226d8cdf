\* Two Calls of two Attempts compete for one cap under changing configuration and
\* limits; one ledger entry is kept, and one settlement is reported.
CONSTANTS
    c1 = c1
    c2 = c2
    a1 = a1
    a2 = a2
    usd = usd
    eur = eur
    Calls = {c1, c2}
    Attempts = {a1, a2}
    AttemptOf <- OneEach
    Currencies = {usd}
    NoCurrency = NoCurrency
    NoLimit = NoLimit
    MaxMoney = 5
    MaxReservations = 1
    Configs <- CapConfigs
    Limits <- CapLimits
    Reports = {1, 3}
    NoUsage = NoUsage
    Unbillable = Unbillable
    Unfrozen = Unfrozen
    Unpriced = Unpriced
    MaxRows = 1
SPECIFICATION Spec
\* Every Attempt may have ended, with nothing left to account for.
CHECK_DEADLOCK FALSE
PROPERTIES
    OnlyAuthorityDischarges
    KeepsSpendingCap
