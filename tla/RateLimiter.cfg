\* Three addresses, and a map that evicts once it holds two: every third
\* address costs another one its bucket.  A burst of two requests, one token
\* every second tick, so that buckets run dry, refill in part and overflow.
CONSTANTS
    IPs = {ip1, ip2, ip3}
    TOKEN = 2
    BURST = 4
    MAX_BUCKETS = 1
    MAX_TIME = 5
SPECIFICATION Spec
INVARIANTS TypeOK WindowBound BucketsBounded
PROPERTY SpacedRequestsPass
CHECK_DEADLOCK FALSE
