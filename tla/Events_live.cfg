\* One device that may filter, two publishers of two events each and channels
\* of two events: they fill up while the device is slow, and publishers overlap.
CONSTANTS
    c1 = c1  c2 = c2  a = a  b = b  z = z
    Conns = {c1}
    NoConn = NoConn
    Publishers = {p1, p2}
    Chats = {b, z}
    FirstAllowed = {}
    Allowed <- OneDevice
    BUF = 2
    MAX_MSG = 2
SPECIFICATION FairSpec
INVARIANTS TypeOK InOrder
PROPERTIES PublishReturns GoneIsUnsubscribed
