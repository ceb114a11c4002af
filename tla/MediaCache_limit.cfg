\* Two requests at a time for photos of one and two chunks, and a cache of two chunks.
CONSTANTS
    Threads = {t1, t2}
    Keys = {1, 2}
    Photo <- TwoThumbs
    MAX_BYTES = 2
    NoFile = NoFile
SPECIFICATION Spec
INVARIANT DiskWithinLimit
