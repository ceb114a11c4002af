\* Three faults and two clean exits: a crash in the first start, one in the
\* repair, and one later.
CONSTANTS
    MAX_FAULTS = 3
    MAX_STARTS = 3
SPECIFICATION FairSpec
INVARIANTS TypeOK FingerprintStable MediaKeyStable
PROPERTY Recovers
\* The unit may stay inactive.
CHECK_DEADLOCK FALSE
