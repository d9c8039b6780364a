SPECIFICATION FairSpec
CONSTANTS
    Accounts = {1, 2, 3, 4}
    AllowNegative = {1}
    Closable = {3}
    Txns = {"capture1", "capture2", "release", "refund", "clash"}
    Script <- MCScript
    Nobody = Nobody
INVARIANTS
    TypeOK
    NoOverdraft
    SingleCallsNeverDeadlock
PROPERTIES
    InactiveAccountsFrozen
    ActsAsOneStep
    SeveralCallsEnd
