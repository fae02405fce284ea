\* Two placements of one account are checked at the same time.
SPECIFICATION Spec
CONSTANTS
    i1 = i1
    i2 = i2
    i3 = i3
    bank = bank
    u1 = u1
    u2 = u2
    key = key
    None = None
    MonthDays <- ShortMonths
    denominator <- SmallYear
    Reference <- TwoReferences
    Account <- OneAccount
    Users <- TwoUsers
    created <- Created
    Opening <- Opened
    Today = 1
    Requests <- AllRequests
    MaxVersions = 2
    MaxCash = 3
\* Every request may have been refused.
CHECK_DEADLOCK FALSE
SYMMETRY Symmetry
INVARIANT AccountsAreCovered
