----------------------------- MODULE RateLimiter -----------------------------
(***************************************************************************)
(* The per-IP token bucket in front of the /v1/auth endpoints              *)
(* (internal/httpapi/ratelimit.go).                                        *)
(*                                                                         *)
(* Units.  One tick of the clock is a fixed slice of real time, and one    *)
(* unit is what a bucket gains in one tick, so the refill rate is one unit *)
(* per tick.  A request costs TOKEN units.  The server's                   *)
(* newRateLimiter(10, 5) gains a sixth of a token per second: with a tick  *)
(* of one second TOKEN = 6 and BURST = 30, with a tick of three seconds    *)
(* TOKEN = 2 and BURST = 10.  The floats of the code are exact here.       *)
(***************************************************************************)
EXTENDS Integers, FiniteSets

CONSTANTS IPs,          \* source addresses
          TOKEN,        \* units one admitted request costs
          BURST,        \* units a full bucket holds
          MAX_BUCKETS,  \* a new IP evicts when the map holds more than this (10000)
          MAX_TIME      \* bound on the clock

ASSUME LimiterAssumption ==
    /\ TOKEN \in Nat \ {0}
    /\ BURST \in Nat
    /\ BURST >= TOKEN
    /\ MAX_BUCKETS \in Nat
    /\ MAX_TIME \in Nat

VARIABLES now,      \* the monotonic clock behind time.Now()
          buckets,  \* the IPs that have an entry in the buckets map
          tokens,   \* tokens[ip], in units; meaningful for ip \in buckets
          last,     \* last[ip], the time of the last refill
          since,    \* history: when the observation window of ip opened
          spent     \* history: units ip was granted in its window

vars == <<now, buckets, tokens, last, since, spent>>

Smaller(a, b) == IF a <= b THEN a ELSE b

\* A refill that forgets to clamp at burst.
RefilledUnclamped(ip) == tokens[ip] + (now - last[ip])

\* Tokens of an existing bucket after the refill and the clamp to burst.
Refilled(ip) == Smaller(BURST, tokens[ip] + (now - last[ip]))

\* A map that grows without bound.
NoEvictions(ip) == {{}}

\* What may be evicted before ip gets an entry: one arbitrary entry once the
\* map is over its bound, else nothing.
Evictions(ip) ==
    IF ip \notin buckets /\ Cardinality(buckets) > MAX_BUCKETS
    THEN {{k} : k \in buckets}
    ELSE {{}}

\* f with the fields of the evicted entries cleared and that of ip set to v.
Set(f, gone, ip, v) ==
    [i \in IPs |-> IF i = ip THEN v ELSE IF i \in gone THEN 0 ELSE f[i]]

-----------------------------------------------------------------------------
Init ==
    /\ now = 0
    /\ buckets = {}
    /\ tokens = [ip \in IPs |-> 0]
    /\ last = [ip \in IPs |-> 0]
    /\ since = [ip \in IPs |-> 0]
    /\ spent = [ip \in IPs |-> 0]

Tick ==
    /\ now < MAX_TIME
    /\ now' = now + 1
    /\ UNCHANGED <<buckets, tokens, last, since, spent>>

\* A bucket that pays for refused requests too.
ChargedAlways(have) == have - TOKEN

\* What allow leaves in the bucket that held `have` units.
Charged(have) == IF have >= TOKEN THEN have - TOKEN ELSE have

(***************************************************************************)
(* One call of allow, which holds r.mu from before the clock is read until *)
(* it returns, so the whole call is one step.                              *)
(***************************************************************************)
allow(ip) ==
    LET fresh   == ip \notin buckets
        have    == IF fresh THEN BURST ELSE Refilled(ip)
        granted == have >= TOKEN
    IN  \E gone \in Evictions(ip) :
            /\ buckets' = (buckets \ gone) \cup {ip}
            /\ tokens' = Set(tokens, gone, ip, Charged(have))
            /\ last' = Set(last, gone, ip, now)
            /\ since' = Set(since, gone, ip, IF fresh THEN now ELSE since[ip])
            /\ spent' = Set(spent, gone, ip, spent[ip] + (IF granted THEN TOKEN ELSE 0))
            /\ now' = now

\* An observer starts to count what ip is granted from now on.  It touches the
\* history variables only, so every window of the run is observed by some
\* behaviour.
OpenWindow(ip) ==
    /\ ip \in buckets
    /\ since' = [since EXCEPT ![ip] = now]
    /\ spent' = [spent EXCEPT ![ip] = 0]
    /\ UNCHANGED <<now, buckets, tokens, last>>

Next ==
    \/ Tick
    \/ \E ip \in IPs : allow(ip)
    \/ \E ip \in IPs : OpenWindow(ip)

Spec == Init /\ [][Next]_vars

-----------------------------------------------------------------------------
\* Types of the variables.
TypeOK ==
    /\ now \in 0..MAX_TIME
    /\ buckets \in SUBSET IPs
    /\ tokens \in [IPs -> 0..BURST]
    /\ last \in [IPs -> 0..MAX_TIME]
    /\ since \in [IPs -> 0..MAX_TIME]
    /\ spent \in [IPs -> Nat]

\* Whatever window an observer picks, an IP whose bucket survives the window is
\* granted at most one full burst plus what the window refills (the brake that
\* allow puts on the auth endpoints).
WindowBound ==
    \A ip \in buckets : spent[ip] <= BURST + (now - since[ip])

\* The map of buckets never holds more than one entry over its limit ("simple
\* bound on map growth" in allow).
BucketsBounded == Cardinality(buckets) <= MAX_BUCKETS + 1

\* allow refuses an IP only when its previous request, granted or refused, is
\* less than one token period old: a client that waits that long after a 429 is
\* served, however many requests it was refused before.
SpacedRequestsPass ==
    [][\A ip \in IPs :
          (/\ ip \in buckets'
           /\ last'[ip] # last[ip]
           /\ spent'[ip] = spent[ip])  \* a call of allow that granted nothing
          => ip \in buckets /\ now - last[ip] < TOKEN]_vars

\* "Auth endpoints are rate-limited to 10 requests/minute per IP" (README.md,
\* Harden before exposing port 8443): in no minute is an IP granted more than
\* 10 requests.  A minute refills ten tokens, so it lasts 10 * TOKEN ticks.
TenPerMinute ==
    \A ip \in buckets : now - since[ip] <= 10 * TOKEN => spent[ip] <= 10 * TOKEN

=============================================================================
