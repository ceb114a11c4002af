\* Two requests for one id of two chunks.
CONSTANTS
    Threads = {t1, t2}
    Keys = {1, 2}
    Photo <- TwoThumbs
    MAX_BYTES = 2
    NoFile = NoFile
SPECIFICATION Spec
INVARIANT PutIsAtomic
