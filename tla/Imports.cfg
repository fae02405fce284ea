\* Two users upload and confirm two batches of any of the files.
SPECIFICATION Spec
CONSTANTS
    u1 = u1
    u2 = u2
    b1 = b1
    b2 = b2
    e1 = e1
    e2 = e2
    None = None
    Users <- TwoUsers
    Batch <- TwoBatches
    Entity <- TwoEntities
    Masters <- There
    Authorized <- AllAndOne
    Files <- AllFiles
    Rates <- OneRate
    MaxConfirms = 2
    MaxVersions = 4
INVARIANTS
    StrongIdentityOnce
    WholeImportsAreFinal
    OneCurrentRate
CHECK_DEADLOCK FALSE
