\* An action is created, moved and crossed by two users.
SPECIFICATION FASpec
CONSTANTS
    a1 = a1
    a2 = a2
    a3 = a3
    t1 = t1
    u1 = u1
    u2 = u2
    Nil = Nil
    FundingAction <- ThreeActions
    Transaction <- OneTransaction
    Senders <- TwoUsers
    linked <- Links
\* Actions and transactions may all have come to their ends.
CHECK_DEADLOCK FALSE
SYMMETRY Symmetry
INVARIANTS FAInv ExecutedIsBacked OneActionPerTransaction
