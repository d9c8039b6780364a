\* An image: two workers, three generators, two retries, two deaths.
SPECIFICATION MediaSpec
CONSTANTS
    Workers = {w1, w2}
    Assets = 3
    MaxRetries = 2
    MaxDeaths = 2
INVARIANT ProcessingSafe
PROPERTY ProcessingSettles
CHECK_DEADLOCK FALSE
