\* Two requests at a time for any of three photos: two that fit in the cache
\* together and one that is larger than the whole cache.
CONSTANTS
    Threads = {t1, t2}
    Keys = {1, 2, 3}
    Photo <- Thumbs
    MAX_BYTES = 2
    NoFile = NoFile
SPECIFICATION Spec
SYMMETRY ThreadSymmetry
INVARIANTS TypeOK IndexCoherent TotalIsSum EntryIsWhole NoStrayFile DiskBounded
PROPERTIES ServedWhole EvictsOnlyWhenNeeded
