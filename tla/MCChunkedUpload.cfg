\* One upload of two parts, on either backend, and two requests at a time.
SPECIFICATION UploadSpec
CONSTANTS
    Sessions = {s1}
    TotalParts = 2
    Callers = {c1, c2}
    Quota = 2
INVARIANT UploadSafe
PROPERTIES
    AbandonedIsClosed
    UsageIsRepaired
CHECK_DEADLOCK FALSE
