\* One handler: every proposal kind, decided in any order.
SPECIFICATION Spec
CONSTANTS
    Runs <- AllRuns
    Completed <- BothRuns
    BankRows <- Banks
    LedgerRows <- Ledgers
    NoKey = NoKey
    Nobody = Nobody
    r1 = r1
    r2 = r2
    r3 = r3
    b1 = b1
    b2 = b2
    b3 = b3
    b4 = b4
    l1 = l1
    l2 = l2
    l3 = l3
    l4 = l4
    s1 = s1
    s2 = s2
    g1 = g1
    g2 = g2
    t1 = t1
    w1 = w1
    n1 = n1
    a1 = a1
    f1 = f1
    h1 = h1
    h2 = h2
    Workers <- OneHandler
    Scope <- WholeScope
    Active <- AllRows
    Proposals <- MixedProposals
    Suggestions <- MixedSuggestions
    Transfers <- MixedTransfers
    Ambiguous <- MixedAmbiguous
    AutoTier <- MixedAutoTier
    RunOf <- MixedRunOf
    RowsOf <- MixedRowsOf
INVARIANTS RejectedRowsSurface
