\* Two users act on one item at the same time.
SPECIFICATION Spec
CONSTANTS
    u1 = u1
    u2 = u2
    i1 = i1
    Nobody = Nobody
    Users <- TwoUsers
    Assignable <- TwoUsers
    Items <- OneItem
    MaxEvents = 7
    MaxNotes = 2
INVARIANTS DispositionIsCurrent HistoryIsAChain
PROPERTIES HistoryIsAppendOnly ClosedUntilReopened
SYMMETRY UserSymmetry
VIEW WithoutTimes
