\* One Call that is admitted, run and completed as the provider worker does it.
CONSTANTS
    c1 = c1
    c2 = c2
    a1 = a1
    a2 = a2
    usd = usd
    eur = eur
    Calls = {c1}
    Attempts = {a1}
    AttemptOf <- Alone
    Currencies = {usd}
    NoCurrency = NoCurrency
    NoLimit = NoLimit
    MaxMoney = 4
    MaxReservations = 1
    Configs <- OneConfig
    Limits = {}
    Reports = {1, 3}
    NoUsage = NoUsage
    Unbillable = Unbillable
    Unfrozen = Unfrozen
    Unpriced = Unpriced
    MaxRows = 1
SPECIFICATION Spec
\* Every Attempt may have ended, with nothing left to account for.
CHECK_DEADLOCK FALSE
INVARIANTS
    CompletedDispatchIsAccounted
