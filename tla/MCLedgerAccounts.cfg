SPECIFICATION Spec
CONSTANTS
    Owned = {"balance"}
    Platform = {"escrow"}
    Sessions = {"s1", "s2", "s3"}
INVARIANTS
    UniqueCombination
CHECK_DEADLOCK FALSE
