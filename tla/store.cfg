SPECIFICATION LiveSpec
CONSTANTS
    MaxRequests = 5
    MaxRetries = 2
    MaxReads = 1
    MaxCrashes = 1
CHECK_DEADLOCK FALSE
INVARIANTS Settled CacheNeverStale
PROPERTIES DiskAdvances RequestsEnd
