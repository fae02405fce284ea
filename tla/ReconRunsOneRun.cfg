\* One run. TLC stops at the first property that fails; -continue shows both.
\* Every run ends in a terminal status: then nothing is left to do.
CHECK_DEADLOCK FALSE
SPECIFICATION Spec
CONSTANTS
    Handlers <- OneHandler
    Runs <- TwoRuns
    Period <- Periods
    OneAccount <- Account
    Advanced <- TwoRuns
    Early <- EarlyBanks
    NoRun = NoRun
    BankRows <- AllBanks
    LedgerRows <- AllLedgers
    Ord <- Order
    Amount <- Amounts
    Date <- Days
    Refs <- References
    PartialRefs <- NoPartial
    Narrated <- NoNarration
    Compatible <- SameCurrency
    FxMatches <- CrossCurrency
    TransferPair <- TransferPairs
    DateTolerance = 0
    AmountTolerancePct = 0
    HighValueThreshold = 100
    MaxCandidates = 10
    rA = rA
    rB = rB
    rC = rC
    h1 = h1
    h2 = h2
    b1 = b1
    b2 = b2
    b3 = b3
    b4 = b4
    b5 = b5
    l1 = l1
    l2 = l2
    l3 = l3
    l4 = l4
    l5 = l5
    l6 = l6
    A = A
    B = B
    C = C
INVARIANT GroupsLeaveMatchedBankRows
INVARIANT SameRunClaimsDiffer
