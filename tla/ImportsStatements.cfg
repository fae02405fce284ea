\* Two overlapping statements. TLC stops at the first property that fails;
\* -continue shows both.
SPECIFICATION Spec
CONSTANTS
    u1 = u1
    u2 = u2
    b1 = b1
    b2 = b2
    e1 = e1
    e2 = e2
    None = None
    Users <- TwoUsers
    Batch <- TwoBatches
    Entity <- TwoEntities
    Masters <- There
    Authorized <- AllAndOne
    Files <- StatementFiles
    Rates <- OneRate
    MaxConfirms = 2
    MaxVersions = 4
INVARIANT CountsAgree
INVARIANT OverlapIsAnnounced
CHECK_DEADLOCK FALSE
