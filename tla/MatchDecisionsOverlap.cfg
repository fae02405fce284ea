\* Two handlers over two runs whose proposals compete for rows.
SPECIFICATION Spec
CONSTANTS
    Runs <- AllRuns
    Completed <- BothRuns
    BankRows <- OverlapBanks
    LedgerRows <- OverlapLedgers
    NoKey = NoKey
    Nobody = Nobody
    r1 = r1
    r2 = r2
    r3 = r3
    b1 = b1
    b2 = b2
    b3 = b3
    b4 = b4
    l1 = l1
    l2 = l2
    l3 = l3
    l4 = l4
    s1 = s1
    s2 = s2
    g1 = g1
    g2 = g2
    t1 = t1
    w1 = w1
    n1 = n1
    a1 = a1
    f1 = f1
    h1 = h1
    h2 = h2
    Workers <- Handlers
    Scope <- OverlapScope
    Active <- OverlapRows
    Proposals <- OverlapProposals
    Suggestions <- OverlapSuggestions
    Transfers <- NoneOf
    Ambiguous <- NoneOf
    AutoTier <- OverlapSuggestions
    RunOf <- OverlapRunOf
    RowsOf <- OverlapRowsOf
INVARIANTS NoDoubleAcceptance DecisionIsWhole AnswersAreTrue HandlersInv
PROPERTIES DecisionIsFinal NoFalseException
SYMMETRY HandlerSymmetry
