\* Two Calls of one Attempt whose results are reported again, with another amount, after
\* their reservation was pruned or taken again; one ledger entry is kept.
CONSTANTS
    c1 = c1
    c2 = c2
    a1 = a1
    a2 = a2
    usd = usd
    eur = eur
    Calls = {c1, c2}
    Attempts = {a1}
    AttemptOf <- BothOfOne
    Currencies = {usd, eur}
    NoCurrency = NoCurrency
    NoLimit = NoLimit
    MaxMoney = 4
    MaxReservations = 1
    Configs <- EitherCurrency
    Limits = {}
    Reports = {1, 3}
    NoUsage = NoUsage
    Unbillable = Unbillable
    Unfrozen = Unfrozen
    Unpriced = Unpriced
    MaxRows = 2
SPECIFICATION Spec
\* Every Attempt may have ended, with nothing left to account for.
CHECK_DEADLOCK FALSE
SYMMETRY RowSymmetry
INVARIANTS
    AccumulatorsMatchRows
    ChargedOnce
    MoneyIsNeverReinterpreted
