\* The first client lists chat a, the second chat b.
CONSTANTS
    c1 = c1  c2 = c2  a = a  b = b  z = z
    Conns = {c1, c2}
    NoConn = NoConn
    Publishers = {p1}
    Chats = {a, b}
    FirstAllowed = {a}
    Allowed <- OtherChat
    BUF = 1
    MAX_MSG = 1
SPECIFICATION Spec
INVARIANT PerDeviceAllowLists
