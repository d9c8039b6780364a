\* One channel whose provider reports, two callers that may both hold the key,
\* two retries.
SPECIFICATION NotificationSpec
CONSTANTS
    Channels = {"email"}
    Creators = {c1, c2}
    MaxRetries = 2
INVARIANT NotificationSafe
PROPERTY CacheCatchesUp
CHECK_DEADLOCK FALSE
