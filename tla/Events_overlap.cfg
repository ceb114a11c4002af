\* Two devices and two publishers with one event each: Publish calls overlap
\* each other and every order of joining and leaving.  Channels of one event.
\* The first client may see chat a, the second device chat b only: it skips
\* whatever reaches it.
CONSTANTS
    c1 = c1  c2 = c2  a = a  b = b  z = z
    Conns = {c1, c2}
    NoConn = NoConn
    Publishers = {p1, p2}
    Chats = {a, b}
    FirstAllowed = {a}
    Allowed <- TwoDevices
    BUF = 1
    MAX_MSG = 1
SPECIFICATION Spec
INVARIANTS NoSendOnClosed SubscriptionsMatchHandlers WrittenIsAllowed SlowCostsNobodyElse
PROPERTY ImplementsBroadcast
