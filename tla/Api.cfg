\* Two requests beside the warm-up; lists of one or two dialogs.
CONSTANTS
    REQUESTS = 2
    Peers <- Twins
    NoPeer = NoPeer
    Clients <- ThreeClients
    Tokens = {"t1", "t2", "t3"}
    Limits = {3}
    CHANNEL_OFFSET = 10
    MAX_LIMIT = 2
    WARM_LIMIT = 1
    DEFAULT_LIMIT = 2
    REF_MOD = 4
    SIZE_MOD = 4
    Photos <- SomePhotos
    KEY = KEY
    OLD_KEY = OLD_KEY
    Disks <- OneDisk
    Nothing = Nothing
SPECIFICATION ApiSpec
INVARIANTS TypeOK EffectsAuthorized AtMostOnce TitledResolves UntitledHasTwin FetchedIsShown SmallestServed
PROPERTY Answered
\* Requests are served once.
CHECK_DEADLOCK FALSE
