\* The server's limiter, newRateLimiter(10, 5), at three seconds per tick.
CONSTANTS
    IPs = {ip1}
    TOKEN = 2
    BURST = 10
    MAX_BUCKETS = 1
    MAX_TIME = 20
SPECIFICATION Spec
INVARIANT TenPerMinute
CHECK_DEADLOCK FALSE
