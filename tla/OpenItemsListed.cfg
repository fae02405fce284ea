\* Two users act on one item at the same time.
SPECIFICATION Spec
CONSTANTS
    u1 = u1
    u2 = u2
    i1 = i1
    Nobody = Nobody
    Users <- TwoUsers
    Assignable <- TwoUsers
    Items <- OneItem
    MaxEvents = 4
    MaxNotes = 1
INVARIANTS ListedInOrder
SYMMETRY UserSymmetry
