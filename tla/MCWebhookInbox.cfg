SPECIFICATION FairSpec
CONSTANTS
    Tasks = {t1, t2}
    MaxRetries = 2
    TaskLimit = 1
    Threshold = 1
    MaxPosts = 3
    MaxDeaths = 2
INVARIANTS
    TypeOK
    ProcessedIsHandled
    NotGivenUpEarly
PROPERTIES
    StuckMeansDead
    BegunIsResolved
