SPECIFICATION Spec
CONSTANTS
    Amount = 2
    Fee = 1
    OtherEscrow = 1
    RefundAmounts <- MCAmounts
    RefundRows = {r1, r2, r3}
    NoRow = NoRow
    Attempts <- MCAttempts
    MaxRetries = 1
    PayWorkers = {w1, w2}
    Refunders = {c1, c2}
    LeasesHold = TRUE
    AdapterFits = TRUE
SYMMETRY Symmetry
CHECK_DEADLOCK FALSE
INVARIANTS
    TypeOK
    NoDoubleTransfer
    BooksFollowOrder
    RecipientIsOwed
    RefundsAreReal
PROPERTIES
    NothingComesBack
    MovesMoneyLikeEscrow
