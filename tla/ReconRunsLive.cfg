\* Executions of two runs (and of a third that overlaps them) of one scope under the fairness of FairSpec.
\* Every run ends in a terminal status: then nothing is left to do.
CHECK_DEADLOCK FALSE
SPECIFICATION FairSpec
CONSTANTS
    Handlers <- TwoHandlers
    Runs <- ThreeRuns
    Period <- Periods
    OneAccount <- Account
    Advanced <- TwoRuns
    Early <- SmallBanks
    NoRun = NoRun
    BankRows <- SmallBanks
    LedgerRows <- SmallLedgers
    Ord <- Order
    Amount <- Amounts
    Date <- Days
    Refs <- References
    PartialRefs <- NoPartial
    Narrated <- NoNarration
    Compatible <- SameCurrency
    FxMatches <- CrossCurrency
    TransferPair <- NoTransfer
    DateTolerance = 0
    AmountTolerancePct = 0
    HighValueThreshold = 100
    MaxCandidates = 10
    rA = rA
    rB = rB
    rC = rC
    h1 = h1
    h2 = h2
    b1 = b1
    b2 = b2
    b3 = b3
    b4 = b4
    b5 = b5
    l1 = l1
    l2 = l2
    l3 = l3
    l4 = l4
    l5 = l5
    l6 = l6
    A = A
    B = B
    C = C
PROPERTIES ExecutionsEnd
