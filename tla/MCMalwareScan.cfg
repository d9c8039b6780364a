\* One file, two workers, a death, one retry; the breaker opens at the first
\* failure and lets one probe through.
SPECIFICATION ScanSpec
CONSTANTS
    Workers = {w1, w2}
    ScanRetries = 1
    MaxDeaths = 1
    FailureThreshold = 1
    HalfOpenMaxCalls = 1
INVARIANT ScanSafe
CHECK_DEADLOCK FALSE
PROPERTY SkippedFileIsScanned
