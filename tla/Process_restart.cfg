\* One start, one error: what Run reports as an error ends the daemon for good.
CONSTANTS
    MAX_FAULTS = 1
    MAX_STARTS = 1
SPECIFICATION FairSpec
PROPERTY RestartedAfterFatal
CHECK_DEADLOCK FALSE
